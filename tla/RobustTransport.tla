--------------------------- MODULE RobustTransport ---------------------------
(***************************************************************************)
(* What a robust Connection or Channel promises its users: it stands for a *)
(* succession of underlying transports, each operation runs from start to  *)
(* end on one of them, the change from one to the next excludes every      *)
(* operation, and closing is final: no dial starts after it, so at most    *)
(* the one already under way can still produce a transport.                *)
(***************************************************************************)
EXTENDS Naturals

CONSTANT Callers

VARIABLES
    phase,       \* "dialing" and "failed" before the object is handed over, then
                 \* "open" to operations or "swapping" transports
    generation,  \* number of the underlying transport in use
    dialing,     \* a dial is under way
    closed,      \* the object is closed
    users        \* operations in progress

rtVars == <<phase, generation, dialing, closed, users>>

Init ==
    /\ phase = "dialing"
    /\ generation = 0
    /\ dialing = FALSE
    /\ closed = FALSE
    /\ users = {}

StartDial ==
    /\ ~dialing
    /\ ~closed
    /\ \/ phase = "dialing" /\ generation = 0
       \/ phase = "swapping"
    /\ dialing' = TRUE
    /\ UNCHANGED <<phase, generation, closed, users>>

\* The new transport replaces the old one while nobody uses it.
Replace ==
    /\ dialing
    /\ users = {}
    /\ dialing' = FALSE
    /\ generation' = generation + 1
    /\ UNCHANGED <<phase, closed, users>>

DialError ==
    /\ dialing
    /\ dialing' = FALSE
    /\ UNCHANGED <<phase, generation, closed, users>>

HandOver ==
    /\ phase = "dialing"
    /\ ~dialing
    /\ phase' = IF generation = 0 THEN "failed" ELSE "open"
    /\ UNCHANGED <<generation, dialing, closed, users>>

Suspend ==
    /\ phase = "open"
    /\ users = {}
    /\ phase' = "swapping"
    /\ UNCHANGED <<generation, dialing, closed, users>>

Resume ==
    /\ phase = "swapping"
    /\ ~dialing
    /\ phase' = "open"
    /\ UNCHANGED <<generation, dialing, closed, users>>

Begin(p) ==
    /\ phase = "open"
    /\ p \notin users
    /\ users' = users \cup {p}
    /\ UNCHANGED <<phase, generation, dialing, closed>>

End(p) ==
    /\ p \in users
    /\ users' = users \ {p}
    /\ UNCHANGED <<phase, generation, dialing, closed>>

\* Closing goes through at any moment.
Close ==
    /\ closed' = TRUE
    /\ UNCHANGED <<phase, generation, dialing, users>>

Next ==
    \/ StartDial \/ Replace \/ DialError \/ HandOver
    \/ Suspend \/ Resume \/ Close
    \/ \E p \in Callers : Begin(p) \/ End(p)

Spec == Init /\ [][Next]_rtVars
=============================================================================
