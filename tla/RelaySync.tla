----------------------------- MODULE RelaySync -----------------------------
(***************************************************************************)
(* The event relays of a Channel and the way they are kept in step with    *)
(* its reconnections (pkg/amqp/channelEventRelays.go, channelEventRelays-  *)
(* Sync.go, Channel.tryReconnect).  A relay passes the events of one       *)
(* streadway channel after another (a leg each) to the caller's listener.  *)
(* While the Channel reconnects it waits, for each relay in turn, for the  *)
(* end of the old leg, hands over the new channel and waits until the      *)
(* relay has set up on it.  Each of the three loops has one timer for all  *)
(* the relays.                                                             *)
(*                                                                         *)
(* Streadway channels are numbered in the order they are opened.  Every Go *)
(* channel here is unbuffered: a signal is one step of the relay and the   *)
(* manager together.                                                       *)
(***************************************************************************)
EXTENDS Integers, Sequences, FiniteSets

CONSTANTS
    Relays,         \* calls of Consume, NotifyPublish, NotifyReturn, ...
    SlowRelays,     \* relays whose caller may stop reading its listener
    Consumers,      \* the relays of Consume, which the broker may cancel
    RefusedRelays,  \* those whose arguments streadway refuses, on every channel
    MaxLegs         \* bound: number of streadway channels opened

ASSUME ConstantsAssumption ==
    /\ IsFiniteSet(Relays)
    /\ SlowRelays \subseteq Relays
    /\ Consumers \subseteq Relays
    /\ RefusedRelays \subseteq Consumers
    /\ MaxLegs \in Nat \ {0}

Legs == 1 .. MaxLegs

VARIABLES
    ctxDone,      \* the Channel's context is cancelled
    closePc,      \* where Close is
    gen,          \* the streadway channel in use
    open,         \* streadway channels that are open
    shared,       \* managerRelaySync.shared, in order of registration
    legCompleteWaited,
    mgrPc,        \* where the redialer is in tryReconnect
    pending,      \* relays its loop has still to look at
    kept,         \* relays its loop keeps (signaled)
    timerSpent,   \* the loop's timer has fired and been received
    cancelled,    \* relays whose own context is cancelled
    relayPc,      \* where each relay is
    leg,          \* the streadway channel it set up on last
    setupOk       \* that setup gave no error

closeVars == <<ctxDone, closePc>>
chanVars  == <<gen, open>>
loopVars  == <<pending, kept, timerSpent>>
legVars   == <<leg, setupOk>>

vars == <<closeVars, chanVars, shared, legCompleteWaited, mgrPc, loopVars, cancelled,
          relayPc, legVars>>

RelayPcs == {"none",
             "call", "wantRead",      \* in retryOperationOnClosed
             "hung",                  \* that refused to run: nobody closes setupComplete
             "firstSetup",            \* in the operation, the lock held for read
             "running", "legOver",    \* in RunRelayLeg, in SignalLegComplete
             "check", "waitNext",     \* in IsDone, in WaitForNextLeg
             "setup", "setupOver",    \* in SetupForRelayLeg, in SignalSetupComplete
             "shutdown", "done"}

MgrPcs == {"ready",                   \* nobody holds the transport lock for write
           "redial", "waitLeg", "fetch", "release", "waitSetup",
           "stopped"}                 \* the redialer has returned

Init ==
    /\ ctxDone = FALSE
    /\ closePc = "idle"
    /\ gen = 1
    /\ open = {1}
    /\ shared = <<>>
    /\ legCompleteWaited = FALSE
    /\ mgrPc = "ready"
    /\ pending = <<>>
    /\ kept = <<>>
    /\ timerSpent = FALSE
    /\ cancelled = {}
    /\ relayPc = [r \in Relays |-> "none"]
    /\ leg = [r \in Relays |-> 0]
    /\ setupOk = [r \in Relays |-> FALSE]

\* Variant: the relay's context is not a child of the Channel's.
RelayDone_Orphan(r) == r \in cancelled
RelayDone(r) == r \in cancelled \/ ctxDone

MoveRelay(r, from, to) ==
    /\ relayPc[r] = from
    /\ relayPc' = [relayPc EXCEPT ![r] = to]

LockFree   == mgrPc \in {"ready", "stopped"}
NoReaders  == \A r \in Relays : relayPc[r] # "firstSetup"

-----------------------------------------------------------------------------
(***************************************************************************)
(* The relay: eventRelaySetupAndLaunch, runEventRelay.                     *)
(***************************************************************************)

Listen(r) ==
    /\ MoveRelay(r, "none", "call")
    /\ UNCHANGED <<closeVars, chanVars, shared, legCompleteWaited, mgrPc, loopVars,
                   cancelled, legVars>>

\* A cancelled context ends retryOperationOnClosed before the operation runs.
OpStarts(r) ==
    /\ MoveRelay(r, "call", IF ctxDone THEN "hung" ELSE "wantRead")
    /\ UNCHANGED <<closeVars, chanVars, shared, legCompleteWaited, mgrPc, loopVars,
                   cancelled, legVars>>

AddRelay(r) ==
    /\ LockFree
    /\ MoveRelay(r, "wantRead", "firstSetup")
    /\ shared' = Append(shared, r)
    /\ UNCHANGED <<closeVars, chanVars, legCompleteWaited, mgrPc, loopVars, cancelled,
                   legVars>>

\* A setup fails when streadway refuses the arguments, and otherwise only with the
\* channel: the broker answers a request it refuses by closing the channel.
SetupResults(r, channel) ==
    IF r \in RefusedRelays THEN {FALSE} ELSE IF channel \in open THEN {TRUE} ELSE BOOLEAN

\* An error of the setup is kept from the caller; the relay waits for the next leg.
FirstSetup(r) ==
    \E ok \in SetupResults(r, gen) :
      /\ MoveRelay(r, "firstSetup", IF ok THEN "running" ELSE "legOver")
      /\ leg' = [leg EXCEPT ![r] = gen]
      /\ setupOk' = [setupOk EXCEPT ![r] = ok]
      /\ UNCHANGED <<closeVars, chanVars, shared, legCompleteWaited, mgrPc, loopVars,
                     cancelled>>

\* streadway closes the source of events when its channel closes; no relay of the
\* repository reports that it is done for good.
LegEnds(r) ==
    /\ MoveRelay(r, "running", "legOver")
    /\ leg[r] \notin open
    /\ UNCHANGED <<closeVars, chanVars, shared, legCompleteWaited, mgrPc, loopVars,
                   cancelled, legVars>>

\* The broker cancels a consumer (its queue is deleted): the deliveries of the leg end on
\* a channel that stays open.
ConsumerCancelled(r) ==
    /\ r \in Consumers
    /\ MoveRelay(r, "running", "legOver")
    /\ UNCHANGED <<closeVars, chanVars, shared, legCompleteWaited, mgrPc, loopVars,
                   cancelled, legVars>>

\* The branches of the relay's three waits that a cancelled context takes.
SignalLegCancelled(r) ==
    /\ MoveRelay(r, "legOver", "check")
    /\ RelayDone(r)
    /\ UNCHANGED <<closeVars, chanVars, shared, legCompleteWaited, mgrPc, loopVars,
                   cancelled, legVars>>

WaitNextCancelled(r) ==
    /\ MoveRelay(r, "waitNext", "shutdown")
    /\ RelayDone(r)
    /\ UNCHANGED <<closeVars, chanVars, shared, legCompleteWaited, mgrPc, loopVars,
                   cancelled, legVars>>

AfterSetup(r) == IF setupOk[r] THEN "running" ELSE "legOver"

SignalSetupCancelled(r) ==
    /\ MoveRelay(r, "setupOver", AfterSetup(r))
    /\ RelayDone(r)
    /\ UNCHANGED <<closeVars, chanVars, shared, legCompleteWaited, mgrPc, loopVars,
                   cancelled, legVars>>

CheckDone(r) ==
    /\ MoveRelay(r, "check", IF RelayDone(r) THEN "shutdown" ELSE "waitNext")
    /\ UNCHANGED <<closeVars, chanVars, shared, legCompleteWaited, mgrPc, loopVars,
                   cancelled, legVars>>

SetupLeg(r) ==
    \E ok \in SetupResults(r, leg[r]) :
      /\ MoveRelay(r, "setup", "setupOver")
      /\ setupOk' = [setupOk EXCEPT ![r] = ok]
      /\ UNCHANGED <<closeVars, chanVars, shared, legCompleteWaited, mgrPc, loopVars,
                     cancelled, leg>>

\* shutdownRelay closes the caller's listener and cancels the relay's context.
Shutdown(r) ==
    /\ MoveRelay(r, "shutdown", "done")
    /\ cancelled' = cancelled \cup {r}
    /\ UNCHANGED <<closeVars, chanVars, shared, legCompleteWaited, mgrPc, loopVars, legVars>>

RelayStep(r) ==
    \/ OpStarts(r) \/ AddRelay(r) \/ FirstSetup(r)
    \/ SignalLegCancelled(r) \/ CheckDone(r) \/ WaitNextCancelled(r)
    \/ SetupLeg(r) \/ SignalSetupCancelled(r) \/ Shutdown(r)

-----------------------------------------------------------------------------
(***************************************************************************)
(* The redialer, which holds the transport lock for write from "redial" to *)
(* "ready": Channel.tryReconnect and managerRelaySync.                     *)
(***************************************************************************)

\* The redialer takes the lock when the channel in use has closed, or when an operation has
\* failed on it.  It is not replaced for such an error once it is the last (MaxLegs).
StartReconnect ==
    /\ mgrPc = "ready"
    /\ NoReaders
    /\ gen \notin open \/ gen < MaxLegs
    /\ mgrPc' = "redial"
    /\ UNCHANGED <<closeVars, chanVars, shared, legCompleteWaited, loopVars, cancelled,
                   relayPc, legVars>>

\* A loop over the relays begins: a new timer, nothing kept yet.
StartLoop(label) ==
    /\ mgrPc' = label
    /\ pending' = shared
    /\ kept' = <<>>
    /\ timerSpent' = FALSE

\* Each attempt to redial checks the context, then waits for the legs to end unless an
\* earlier attempt has.
Redial ==
    /\ mgrPc = "redial"
    /\ \/ ctxDone /\ mgrPc' = "stopped" /\ UNCHANGED loopVars
       \/ ~ctxDone /\ legCompleteWaited /\ mgrPc' = "fetch" /\ UNCHANGED loopVars
       \/ ~ctxDone /\ ~legCompleteWaited /\ StartLoop("waitLeg")
    /\ UNCHANGED <<closeVars, chanVars, shared, legCompleteWaited, cancelled, relayPc,
                   legVars>>

Waiting == mgrPc \in {"waitLeg", "release", "waitSetup"} /\ pending # <<>>
Keep(r) == kept' = Append(kept, r)

\* The relay the loop looks at has come to its signal, and both go on.
RelayAnswers ==
    /\ Waiting
    /\ LET r == Head(pending)
       IN  /\ Keep(r)
           /\ \/ /\ mgrPc = "waitLeg"
                 /\ MoveRelay(r, "legOver", "check")
                 /\ UNCHANGED leg
              \/ /\ mgrPc = "release"
                 /\ MoveRelay(r, "waitNext", "setup")
                 /\ leg' = [leg EXCEPT ![r] = gen]
              \/ /\ mgrPc = "waitSetup"
                 /\ MoveRelay(r, "setupOver", AfterSetup(r))
                 /\ UNCHANGED leg
    /\ pending' = Tail(pending)
    /\ UNCHANGED <<closeVars, chanVars, shared, legCompleteWaited, mgrPc, timerSpent,
                   cancelled, setupOk>>

\* Variant: the loop does not look at the relay's context.
SeesDone_Never(r) == FALSE
SeesDone(r) == RelayDone(r)

\* A relay whose context is cancelled is not waited for; it stays in the list.
RelayIsDone ==
    /\ Waiting
    /\ SeesDone(Head(pending))
    /\ Keep(Head(pending))
    /\ pending' = Tail(pending)
    /\ UNCHANGED <<closeVars, chanVars, shared, legCompleteWaited, mgrPc, timerSpent,
                   cancelled, relayPc, legVars>>

\* Variant: the relay is passed over, neither cancelled nor forgotten.
Drop_Skips(r) == Keep(r) /\ UNCHANGED cancelled
Drop(r) == cancelled' = cancelled \cup {r} /\ UNCHANGED kept

\* The timer fires once for the whole loop: the relay looked at is cancelled and
\* forgotten, and the rest of the loop has no timer.
TimesOut ==
    /\ Waiting
    /\ ~timerSpent
    /\ timerSpent' = TRUE
    /\ Drop(Head(pending))
    /\ pending' = Tail(pending)
    /\ UNCHANGED <<closeVars, chanVars, shared, legCompleteWaited, mgrPc, relayPc, legVars>>

\* Variant: the relays kept are added to the list instead of replacing it.
SharedAfterLoop_Grows == shared \o kept
SharedAfterLoop == kept

LegsWaited ==
    /\ mgrPc = "waitLeg" /\ pending = <<>>
    /\ shared' = SharedAfterLoop
    /\ legCompleteWaited' = TRUE
    /\ mgrPc' = "fetch"
    /\ UNCHANGED <<closeVars, chanVars, loopVars, cancelled, relayPc, legVars>>

\* Variant: the flag is not reset when the relays are released.
WaitedAtRelease_Kept == legCompleteWaited
WaitedAtRelease == FALSE

\* The handler of a channel reconnection, with every middleware in it.
FetchSucceeds ==
    /\ mgrPc = "fetch"
    /\ gen < MaxLegs
    /\ gen' = gen + 1
    /\ open' = open \cup {gen'}
    /\ legCompleteWaited' = WaitedAtRelease
    /\ StartLoop("release")
    /\ UNCHANGED <<closeVars, shared, cancelled, relayPc, legVars>>

FetchFails ==
    /\ mgrPc = "fetch"
    /\ mgrPc' = "redial"
    /\ UNCHANGED <<closeVars, chanVars, shared, legCompleteWaited, loopVars, cancelled,
                   relayPc, legVars>>

\* Variant: the lock is given back before the relays have set up.
StartSetupWait_Skipped == mgrPc' = "ready" /\ UNCHANGED loopVars
StartSetupWait ==
    /\ mgrPc' = "waitSetup"
    /\ pending' = SharedAfterLoop
    /\ kept' = <<>>
    /\ timerSpent' = FALSE

RelaysReleased ==
    /\ mgrPc = "release" /\ pending = <<>>
    /\ shared' = SharedAfterLoop
    /\ StartSetupWait
    /\ UNCHANGED <<closeVars, chanVars, legCompleteWaited, cancelled, relayPc, legVars>>

SetupWaited ==
    /\ mgrPc = "waitSetup" /\ pending = <<>>
    /\ shared' = SharedAfterLoop
    /\ mgrPc' = "ready"
    /\ UNCHANGED <<closeVars, chanVars, legCompleteWaited, loopVars, cancelled, relayPc,
                   legVars>>

Manager ==
    \/ StartReconnect \/ Redial
    \/ RelayAnswers \/ RelayIsDone \/ TimesOut
    \/ LegsWaited \/ FetchSucceeds \/ FetchFails
    \/ RelaysReleased \/ SetupWaited

-----------------------------------------------------------------------------
(***************************************************************************)
(* Close, and the end of streadway channels.                               *)
(***************************************************************************)

CloseCancelsContext ==
    /\ closePc = "idle"
    /\ closePc' = "cancelled"
    /\ ctxDone' = TRUE
    /\ UNCHANGED <<chanVars, shared, legCompleteWaited, mgrPc, loopVars, cancelled,
                   relayPc, legVars>>

CloseChannel ==
    /\ closePc = "cancelled"
    /\ LockFree
    /\ NoReaders
    /\ closePc' = "done"
    /\ open' = open \ {gen}
    /\ UNCHANGED <<ctxDone, gen, shared, legCompleteWaited, mgrPc, loopVars, cancelled,
                   relayPc, legVars>>

\* The broker or the network ends a channel, at any moment.  The last one lives until
\* the context is cancelled (MaxLegs).
ChannelDies(c) ==
    /\ c \in open
    /\ c < MaxLegs \/ ctxDone
    /\ open' = open \ {c}
    /\ UNCHANGED <<closeVars, gen, shared, legCompleteWaited, mgrPc, loopVars, cancelled,
                   relayPc, legVars>>

\* Everything has returned, or will never.
Ended ==
    /\ closePc = "done"
    /\ mgrPc = "stopped"
    /\ \A r \in Relays : relayPc[r] \in {"done", "hung"}
    /\ UNCHANGED vars

Next ==
    \/ \E r \in Relays : Listen(r) \/ RelayStep(r) \/ LegEnds(r) \/ ConsumerCancelled(r)
    \/ Manager
    \/ CloseCancelsContext \/ CloseChannel
    \/ \E c \in Legs : ChannelDies(c)
    \/ Ended

Spec == Init /\ [][Next]_vars

(***************************************************************************)
(* Fairness.  A goroutine that can step does, and a timer fires; a caller  *)
(* that is not slow drains its listener, so the leg of its relay ends with *)
(* its channel; the broker does not refuse a channel for ever.             *)
(***************************************************************************)
Fairness ==
    /\ \A r \in Relays : WF_vars(RelayStep(r))
    /\ \A r \in Relays \ SlowRelays : WF_vars(LegEnds(r))
    /\ WF_vars(Manager) /\ SF_vars(FetchSucceeds)
    /\ WF_vars(CloseChannel)

FairSpec == Spec /\ Fairness

-----------------------------------------------------------------------------
(***************************************************************************)
(* Properties.                                                             *)
(***************************************************************************)

SharedRelays == {shared[i] : i \in DOMAIN shared}
Following    == {r \in SharedRelays : ~RelayDone(r)}

\* Every variable keeps its type, and no relay is in the list twice.
TypeOK ==
    /\ ctxDone \in BOOLEAN
    /\ closePc \in {"idle", "cancelled", "done"}
    /\ gen \in Legs
    /\ open \subseteq Legs
    /\ shared \in Seq(Relays) /\ Len(shared) <= Cardinality(Relays)
    /\ legCompleteWaited \in BOOLEAN
    /\ mgrPc \in MgrPcs
    /\ pending \in Seq(Relays)
    /\ kept \in Seq(Relays)
    /\ timerSpent \in BOOLEAN
    /\ cancelled \subseteq Relays
    /\ relayPc \in [Relays -> RelayPcs]
    /\ leg \in [Relays -> 0 .. MaxLegs]
    /\ setupOk \in [Relays -> BOOLEAN]

\* When the Channel fetches a new streadway channel no relay it still counts on works
\* on the events of the old one (WaitOnLegComplete), however many attempts failed.
OldLegsOver ==
    mgrPc = "fetch" => \A r \in Following : relayPc[r] \in {"check", "waitNext"}

\* When callers may use the channel every relay it counts on listens to that channel, so
\* that no event their calls cause is missed (WaitOnSetupComplete), or has listened until
\* the leg ended, or has found the channel closed.  Only a relay whose arguments streadway
\* refuses never listens: the error of its setup is kept from the caller
\* (channelEventRelays.go:116, 153), and its listener stays open and silent.
ListensNow(r) ==
    /\ leg[r] = gen
    /\ \/ relayPc[r] = "running"
       \/ relayPc[r] = "legOver" /\ (setupOk[r] \/ gen \notin open)

ListeningWhenReady ==
    mgrPc = "ready" =>
        \A r \in Following \ RefusedRelays : relayPc[r] = "firstSetup" \/ ListensNow(r)

\* A relay goes from one streadway channel to the next: it misses none, even one that
\* closes before it has set up (channelEventRelaysSync.go:13).
NoLegMissed ==
    [][\A r \in Relays : leg'[r] \in {leg[r], leg[r] + 1} \/ leg[r] = 0]_vars

\* A reconnection comes to its end: only a relay whose caller has stopped reading, or whose
\* channel was replaced for an operation's error and is open still, can keep the redialer,
\* and only in a loop whose timer was spent on another relay.  There the promise to cancel
\* an unresponsive relay (channelEventRelaysSync.go:25, 159) is broken.
Timerless ==
    /\ Waiting /\ timerSpent
    /\ \/ Head(pending) \in SlowRelays
       \/ mgrPc = "waitLeg" /\ leg[Head(pending)] \in open

ReconnectEnds == <>[]Timerless \/ (mgrPc = "redial" ~> LockFree)

\* Once the Channel is closed a relay that has registered closes its listener, unless it
\* works on a channel that was replaced for an operation's error: nobody closes that one.
RelaysShutDown ==
    \A r \in Relays \ SlowRelays :
        <>[](leg[r] \in open) \/
        ((ctxDone /\ relayPc[r] \in {"firstSetup", "running", "legOver"})
            ~> relayPc[r] = "done")
=============================================================================
