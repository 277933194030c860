-------------------------- MODULE RelaySyncProofs --------------------------
(***************************************************************************)
(* Proofs about RelaySync, for any relays and any number of streadway      *)
(* channels.  The invariant Inv says that the loops of a reconnection pass *)
(* over no relay the Channel counts on (ListInv), where each of those is   *)
(* while the redialer is at a stage (StageInv), and, of every relay a loop *)
(* has still to look at, which channel it set up on last (LegInv).  The    *)
(* invariant SetupInv says what a failed setup means.                      *)
(***************************************************************************)
EXTENDS RelaySync, FiniteSetTheorems, TLAPS

ListOf(s)    == {s[i] : i \in 1 .. Len(s)}
NoneTwice(s) == \A i, j \in 1 .. Len(s) : s[i] = s[j] => i = j

Loops == {"waitLeg", "release", "waitSetup"}

\* The relays a loop has kept or has still to look at; between the loops, the whole list.
Counted == IF mgrPc \in Loops THEN ListOf(kept) \cup ListOf(pending) ELSE ListOf(shared)

\* What the variables range over.
Types ==
    /\ ctxDone \in BOOLEAN
    /\ closePc \in {"idle", "cancelled", "done"}
    /\ gen \in Legs
    /\ open \subseteq Legs
    /\ shared \in Seq(Relays)
    /\ legCompleteWaited \in BOOLEAN
    /\ mgrPc \in MgrPcs
    /\ pending \in Seq(Relays)
    /\ kept \in Seq(Relays)
    /\ timerSpent \in BOOLEAN
    /\ cancelled \subseteq Relays
    /\ relayPc \in [Relays -> RelayPcs]
    /\ leg \in [Relays -> 0 .. MaxLegs]
    /\ setupOk \in [Relays -> BOOLEAN]

\* Who has the transport lock, and what the redialer has waited for.
LockInv ==
    /\ \A r \in Relays : relayPc[r] = "firstSetup" => LockFree
    /\ mgrPc = "stopped" => ctxDone
    /\ mgrPc = "fetch" => legCompleteWaited
    /\ legCompleteWaited => mgrPc \in {"fetch", "redial", "stopped"}

\* What is known of a relay by where it is.
RelayInv(r) ==
    /\ relayPc[r] \in {"none", "call", "wantRead", "hung"} =>
           r \notin ListOf(shared) /\ r \notin cancelled
    /\ relayPc[r] \in {"none", "call", "wantRead", "hung", "firstSetup"} => leg[r] = 0
    /\ relayPc[r] \in {"shutdown", "done"} => RelayDone(r)

\* No relay is in a list twice; a loop loses only those it cancels.
ListInv ==
    /\ NoneTwice(shared)
    /\ mgrPc \in Loops =>
           /\ NoneTwice(kept) /\ NoneTwice(pending)
           /\ ListOf(kept) \cap ListOf(pending) = {}
           /\ Counted \subseteq ListOf(shared)
           /\ ListOf(shared) \subseteq Counted \cup cancelled
    /\ \A r \in Counted : r \in cancelled => ctxDone

\* Where a relay the Channel counts on is, as long as the Channel is not being closed.
Listens(r)   == leg[r] = gen /\ relayPc[r] \in {"running", "legOver"}
LegIsOver(r) == leg[r] = gen /\ relayPc[r] \in {"check", "waitNext"}
SetsUp(r)    == leg[r] = gen /\ relayPc[r] \in {"setup", "setupOver"}
LagsBehind(r) == leg[r] = gen - 1 /\ relayPc[r] \in {"check", "waitNext"}

Stage(r) ==
    /\ mgrPc = "ready" => relayPc[r] = "firstSetup" \/ Listens(r)
    /\ mgrPc = "redial" => IF legCompleteWaited THEN LegIsOver(r) ELSE Listens(r)
    /\ mgrPc = "waitLeg" => IF r \in ListOf(kept) THEN LegIsOver(r) ELSE Listens(r)
    /\ mgrPc = "fetch" => LegIsOver(r)
    /\ mgrPc = "release" => IF r \in ListOf(kept) THEN SetsUp(r) ELSE LagsBehind(r)
    /\ mgrPc = "waitSetup" => IF r \in ListOf(kept) THEN Listens(r) ELSE SetsUp(r)

StageInv == ~ctxDone => \A r \in Counted : Stage(r)

\* Also while the Channel is being closed: before the release every relay is one streadway
\* channel behind.
LegInv ==
    /\ mgrPc \in {"waitLeg", "fetch"} => \A r \in Counted : leg[r] = gen
    /\ mgrPc = "release" => \A r \in ListOf(pending) : leg[r] = gen - 1

Inv == LockInv /\ (\A r \in Relays : RelayInv(r)) /\ ListInv /\ StageInv /\ LegInv
-----------------------------------------------------------------------------
(***************************************************************************)
(* Lists of relays.                                                        *)
(***************************************************************************)

\* A list has the members it is made of.
LEMMA ListIn ==
    ASSUME NEW S, NEW s \in Seq(S)
    PROVE  ListOf(s) \subseteq S /\ (s = <<>> => ListOf(s) = {})
BY DEF ListOf

LEMMA ListEmpty == ListOf(<<>>) = {} /\ NoneTwice(<<>>) /\ \A S : <<>> \in Seq(S)
BY DEF ListOf, NoneTwice

\* Appending to a list adds one member ...
LEMMA ListAppend ==
    ASSUME NEW S, NEW s \in Seq(S), NEW e \in S
    PROVE  /\ Append(s, e) \in Seq(S)
           /\ ListOf(Append(s, e)) = ListOf(s) \cup {e}
           /\ NoneTwice(s) /\ e \notin ListOf(s) => NoneTwice(Append(s, e))
<1>1. /\ Len(s) \in Nat /\ Len(Append(s, e)) = Len(s) + 1
      /\ \A i \in 1 .. Len(s) : Append(s, e)[i] = s[i]
      /\ Append(s, e)[Len(s) + 1] = e
  OBVIOUS
<1>2. ListOf(Append(s, e)) = ListOf(s) \cup {e}
  BY <1>1 DEF ListOf
<1>3. NoneTwice(s) /\ e \notin ListOf(s) => NoneTwice(Append(s, e))
  BY <1>1 DEF ListOf, NoneTwice
<1> QED BY <1>2, <1>3

\* ... and taking its head removes one.
LEMMA ListTail ==
    ASSUME NEW S, NEW s \in Seq(S), s # <<>>
    PROVE  /\ Tail(s) \in Seq(S) /\ Head(s) \in S
           /\ ListOf(s) = ListOf(Tail(s)) \cup {Head(s)}
           /\ NoneTwice(s) => NoneTwice(Tail(s)) /\ Head(s) \notin ListOf(Tail(s))
<1>1. /\ Len(s) \in Nat \ {0} /\ Len(Tail(s)) = Len(s) - 1
      /\ \A i \in 1 .. Len(s) - 1 : Tail(s)[i] = s[i + 1] /\ i + 1 \in 1 .. Len(s)
      /\ Head(s) = s[1] /\ 1 \in 1 .. Len(s)
  OBVIOUS
<1>2. ASSUME NEW e \in ListOf(s), e # Head(s) PROVE e \in ListOf(Tail(s))
  <2>1. PICK i \in 1 .. Len(s) : s[i] = e
    BY DEF ListOf
  <2>2. i - 1 \in 1 .. Len(Tail(s)) /\ Tail(s)[i - 1] = e
    BY <1>1, <1>2, <2>1
  <2> QED BY <2>2 DEF ListOf
<1>3. ListOf(Tail(s)) \cup {Head(s)} \subseteq ListOf(s)
  BY <1>1 DEF ListOf
<1>4. NoneTwice(s) => NoneTwice(Tail(s)) /\ Head(s) \notin ListOf(Tail(s))
  BY <1>1 DEF ListOf, NoneTwice
<1> QED BY <1>1, <1>2, <1>3, <1>4

\* A list without repetitions is no longer than its members are many.
LEMMA ListLength ==
    ASSUME NEW s \in Seq(Relays), NoneTwice(s)
    PROVE  Len(s) <= Cardinality(Relays)
<1>1. IsFiniteSet(Relays) /\ Cardinality(Relays) \in Nat
  BY ConstantsAssumption, FS_CardinalityType
<1>2. /\ IsFiniteSet(1 .. Len(s)) /\ Cardinality(1 .. Len(s)) = Len(s)
      /\ Len(s) \in Nat
  <2>1. Len(s) \in Nat
    OBVIOUS
  <2>2. Len(s) \in Int /\ 1 \in Int
    BY <2>1
  <2>3. /\ IsFiniteSet(1 .. Len(s))
        /\ Cardinality(1 .. Len(s)) = IF 1 > Len(s) THEN 0 ELSE Len(s) - 1 + 1
    BY <2>2, FS_Interval, ZenonT(30)
  <2> QED BY <2>1, <2>3
<1>3. s \in Injection(1 .. Len(s), Relays)
  BY DEF NoneTwice, Injection, IsInjective
<1> QED BY <1>1, <1>2, <1>3, FS_Injection DEF ExistsInjection

-----------------------------------------------------------------------------
(***************************************************************************)
(* The steps there are.                                                    *)
(***************************************************************************)

\* The steps of a relay on its own.
RelaySteps(r) ==
    \/ Listen(r) \/ OpStarts(r) \/ FirstSetup(r) \/ LegEnds(r) \/ ConsumerCancelled(r)
    \/ SignalLegCancelled(r) \/ CheckDone(r) \/ WaitNextCancelled(r)
    \/ SetupLeg(r) \/ SignalSetupCancelled(r) \/ Shutdown(r)

\* How such a step moves the relay.
Moved(r) ==
    \/ /\ relayPc[r] \in {"none", "call"} /\ relayPc'[r] \in {"call", "wantRead", "hung"}
       /\ UNCHANGED <<leg, cancelled>>
    \/ /\ relayPc[r] = "firstSetup" /\ relayPc'[r] \in {"running", "legOver"}
       /\ leg' = [leg EXCEPT ![r] = gen] /\ UNCHANGED cancelled
    \/ /\ relayPc[r] = "running" /\ relayPc'[r] = "legOver"
       /\ UNCHANGED <<leg, cancelled>>
    \/ /\ relayPc[r] = "setup" /\ relayPc'[r] = "setupOver"
       /\ UNCHANGED <<leg, cancelled>>
    \/ /\ relayPc[r] = "check" /\ relayPc'[r] = "waitNext"
       /\ UNCHANGED <<leg, cancelled>>
    \/ /\ relayPc[r] \in {"legOver", "check", "waitNext", "setupOver"} /\ RelayDone(r)
       /\ relayPc'[r] \in {"check", "shutdown", "running", "legOver"}
       /\ UNCHANGED <<leg, cancelled>>
    \/ /\ relayPc[r] = "shutdown" /\ relayPc'[r] = "done"
       /\ UNCHANGED leg /\ cancelled' = cancelled \cup {r}

\* A step of a relay leaves the redialer, the channel in use and every other relay alone.
LEMMA RelayStepsMove ==
    ASSUME Types, NEW r \in Relays, RelaySteps(r)
    PROVE  /\ UNCHANGED <<ctxDone, closePc, gen, open, shared, legCompleteWaited, mgrPc,
                          pending, kept, timerSpent>>
           /\ \E to \in RelayPcs : relayPc' = [relayPc EXCEPT ![r] = to]
           /\ setupOk' \in [Relays -> BOOLEAN]
           /\ Moved(r)
<1> USE DEF MoveRelay, closeVars, chanVars, loopVars, legVars, RelayPcs, Types, Moved
<1>1. CASE Listen(r)
  BY <1>1 DEF Listen
<1>2. CASE OpStarts(r)
  BY <1>2 DEF OpStarts
<1>3. CASE FirstSetup(r)
  <2> PICK ok \in BOOLEAN :
          /\ MoveRelay(r, "firstSetup", IF ok THEN "running" ELSE "legOver")
          /\ leg' = [leg EXCEPT ![r] = gen]
          /\ setupOk' = [setupOk EXCEPT ![r] = ok]
    BY <1>3 DEF FirstSetup, SetupResults
  <2> QED BY <1>3 DEF FirstSetup
<1>4. CASE LegEnds(r) \/ ConsumerCancelled(r)
  BY <1>4 DEF LegEnds, ConsumerCancelled
<1>5. CASE SignalLegCancelled(r)
  BY <1>5 DEF SignalLegCancelled
<1>6. CASE CheckDone(r)
  BY <1>6 DEF CheckDone
<1>7. CASE WaitNextCancelled(r)
  BY <1>7 DEF WaitNextCancelled
<1>8. CASE SetupLeg(r)
  BY <1>8 DEF SetupLeg, SetupResults
<1>9. CASE SignalSetupCancelled(r)
  BY <1>9 DEF SignalSetupCancelled, AfterSetup
<1>10. CASE Shutdown(r)
  BY <1>10 DEF Shutdown
<1> QED BY <1>1, <1>2, <1>3, <1>4, <1>5, <1>6, <1>7, <1>8, <1>9, <1>10 DEF RelaySteps

\* The steps of Close and of the broker leave the relays and the redialer alone.
Others ==
    \/ CloseCancelsContext \/ CloseChannel
    \/ \E c \in Legs : ChannelDies(c)
    \/ UNCHANGED vars

LEMMA OthersLeave ==
    ASSUME Types, Others
    PROVE  /\ UNCHANGED <<gen, shared, legCompleteWaited, mgrPc, pending, kept, timerSpent,
                          cancelled, relayPc, leg, setupOk>>
           /\ ctxDone => ctxDone'
           /\ ctxDone' \in BOOLEAN
           /\ closePc' \in {"idle", "cancelled", "done"}
           /\ open' \subseteq Legs
<1> USE DEF closeVars, chanVars, loopVars, legVars, Types
<1>1. CASE CloseCancelsContext
  BY <1>1 DEF CloseCancelsContext
<1>2. CASE CloseChannel
  BY <1>2 DEF CloseChannel
<1>3. CASE \E c \in Legs : ChannelDies(c)
  BY <1>3 DEF ChannelDies
<1>4. CASE UNCHANGED vars
  BY <1>4 DEF vars
<1> QED BY <1>1, <1>2, <1>3, <1>4 DEF Others

LEMMA NextSteps ==
    ASSUME [Next]_vars
    PROVE  \/ \E r \in Relays : RelaySteps(r) \/ AddRelay(r)
           \/ Manager
           \/ Others
BY DEF Next, RelayStep, RelaySteps, Others, Ended

-----------------------------------------------------------------------------
(***************************************************************************)
(* Types.                                                                  *)
(***************************************************************************)

\* Every step keeps the types.
LEMMA TypesNext ==
    ASSUME Types, [Next]_vars
    PROVE  Types'
<1> USE DEF closeVars, chanVars, loopVars, legVars
<1>0. gen \in 0 .. MaxLegs /\ leg \in [Relays -> 0 .. MaxLegs]
  BY ConstantsAssumption DEF Types, Legs
<1>1. CASE \E r \in Relays : RelaySteps(r)
  <2> PICK r \in Relays : RelaySteps(r)
    BY <1>1
  <2>1. leg' \in [Relays -> 0 .. MaxLegs] /\ cancelled' \subseteq Relays
    <3>1. /\ leg' \in {leg, [leg EXCEPT ![r] = gen]}
          /\ cancelled' \in {cancelled, cancelled \cup {r}}
      BY RelayStepsMove DEF Moved
    <3> QED BY <1>0, <3>1 DEF Types
  <2> QED BY <2>1, RelayStepsMove DEF Types
<1>2. CASE \E r \in Relays : AddRelay(r)
  <2> PICK r \in Relays : AddRelay(r)
    BY <1>2
  <2>1. shared' \in Seq(Relays)
    BY ListAppend DEF AddRelay, Types
  <2> QED BY <2>1 DEF AddRelay, MoveRelay, Types, RelayPcs
<1>3. CASE StartReconnect \/ FetchFails
  BY <1>3 DEF StartReconnect, FetchFails, Types, MgrPcs
<1>4. CASE Redial
  BY <1>4, ListEmpty DEF Redial, StartLoop, Types, MgrPcs
<1>5. ASSUME Waiting, pending' = Tail(pending),
             kept' \in {kept, Append(kept, Head(pending))}
      PROVE  /\ pending' \in Seq(Relays) /\ kept' \in Seq(Relays)
             /\ Head(pending) \in Relays
  <2>1. pending \in Seq(Relays) /\ kept \in Seq(Relays) /\ pending # <<>>
    BY <1>5 DEF Types, Waiting
  <2>2. Tail(pending) \in Seq(Relays) /\ Head(pending) \in Relays
    BY <2>1, ListTail
  <2>3. Append(kept, Head(pending)) \in Seq(Relays)
    BY <2>1, <2>2, ListAppend
  <2> QED BY <1>5, <2>1, <2>2, <2>3
<1>6. CASE RelayAnswers
  <2>1. /\ pending' \in Seq(Relays) /\ kept' \in Seq(Relays)
        /\ Head(pending) \in Relays
    BY <1>5, <1>6 DEF RelayAnswers, Keep
  <2>2. leg' \in [Relays -> 0 .. MaxLegs]
    <3>1. leg' \in {leg, [leg EXCEPT ![Head(pending)] = gen]}
      BY <1>6 DEF RelayAnswers
    <3> QED BY <1>0, <3>1
  <2>3. relayPc' \in [Relays -> RelayPcs]
    BY <1>6 DEF RelayAnswers, MoveRelay, AfterSetup, Types, RelayPcs
  <2> QED BY <1>6, <2>1, <2>2, <2>3 DEF RelayAnswers, Types
<1>7. CASE RelayIsDone
  <2>1. pending' \in Seq(Relays) /\ kept' \in Seq(Relays)
    BY <1>5, <1>7 DEF RelayIsDone, Keep
  <2> QED BY <1>7, <2>1 DEF RelayIsDone, Types
<1>8. CASE TimesOut
  <2>1. pending' \in Seq(Relays) /\ kept' \in Seq(Relays) /\ Head(pending) \in Relays
    BY <1>5, <1>8 DEF TimesOut, Drop
  <2> QED BY <1>8, <2>1 DEF TimesOut, Drop, Types
<1>9. CASE LegsWaited
  BY <1>9 DEF LegsWaited, SharedAfterLoop, Types, MgrPcs
<1>10. CASE FetchSucceeds
  <2>1. gen' \in Legs /\ open' \subseteq Legs
    BY <1>10, ConstantsAssumption DEF FetchSucceeds, Types, Legs
  <2>2. kept' \in Seq(Relays) /\ pending' \in Seq(Relays)
    BY <1>10, ListEmpty DEF FetchSucceeds, StartLoop, Types
  <2> QED BY <1>10, <2>1, <2>2 DEF FetchSucceeds, StartLoop, WaitedAtRelease, Types, MgrPcs
<1>11. CASE RelaysReleased
  BY <1>11, ListEmpty DEF RelaysReleased, StartSetupWait, SharedAfterLoop, Types, MgrPcs
<1>12. CASE SetupWaited
  BY <1>12 DEF SetupWaited, SharedAfterLoop, Types, MgrPcs
<1>13. CASE Others
  BY <1>13, OthersLeave DEF Types
<1> QED BY NextSteps, <1>1, <1>2, <1>3, <1>4, <1>6, <1>7, <1>8, <1>9, <1>10, <1>11, <1>12,
           <1>13 DEF Manager
-----------------------------------------------------------------------------
(***************************************************************************)
(* Locks and lists.                                                        *)
(***************************************************************************)

\* Every step keeps LockInv.
LEMMA LockNext ==
    ASSUME Types, LockInv, [Next]_vars
    PROVE  LockInv'
<1> USE DEF LockInv, LockFree, closeVars, chanVars, loopVars, legVars
<1>1. CASE \E r \in Relays : RelaySteps(r)
  <2> PICK r \in Relays : RelaySteps(r)
    BY <1>1
  <2>1. \A e \in Relays : relayPc'[e] = "firstSetup" => relayPc[e] = "firstSetup"
    BY RelayStepsMove DEF Moved, Types
  <2> QED BY <2>1, RelayStepsMove
<1>2. CASE \E r \in Relays : AddRelay(r)
  BY <1>2 DEF AddRelay, MoveRelay, Types
<1>3. CASE StartReconnect
  BY <1>3 DEF StartReconnect, NoReaders
<1>4. CASE FetchFails
  BY <1>4 DEF FetchFails
<1>5. CASE Redial
  BY <1>5 DEF Redial, StartLoop
<1>6. CASE RelayAnswers
  BY <1>6 DEF RelayAnswers, MoveRelay, AfterSetup, Waiting, Types
<1>7. CASE RelayIsDone \/ TimesOut
  BY <1>7 DEF RelayIsDone, TimesOut, Waiting
<1>8. CASE LegsWaited
  BY <1>8 DEF LegsWaited
<1>9. CASE FetchSucceeds
  BY <1>9 DEF FetchSucceeds, StartLoop, WaitedAtRelease
<1>10. CASE RelaysReleased
  BY <1>10 DEF RelaysReleased, StartSetupWait
<1>11. CASE SetupWaited
  BY <1>11 DEF SetupWaited
<1>12. CASE Others
  BY <1>12, OthersLeave
<1> QED BY NextSteps, <1>1, <1>2, <1>3, <1>4, <1>5, <1>6, <1>7, <1>8, <1>9, <1>10, <1>11,
           <1>12 DEF Manager

\* A loop takes one relay off what it has still to look at, and may keep it.
LEMMA LoopSteps ==
    ASSUME Types, ListInv, Waiting, pending' = Tail(pending)
    PROVE  /\ mgrPc \in Loops
           /\ Head(pending) \in Relays
           /\ Head(pending) \in ListOf(pending) /\ Head(pending) \in Counted
           /\ Head(pending) \in ListOf(shared) /\ Head(pending) \notin ListOf(kept)
           /\ ListOf(pending') = ListOf(pending) \ {Head(pending)} /\ NoneTwice(pending')
           /\ kept' = Append(kept, Head(pending)) =>
                  ListOf(kept') = ListOf(kept) \cup {Head(pending)} /\ NoneTwice(kept')
<1>1. /\ pending \in Seq(Relays) /\ pending # <<>> /\ kept \in Seq(Relays)
      /\ mgrPc \in Loops
  BY DEF Types, Waiting, Loops
<1>2. /\ NoneTwice(pending) /\ NoneTwice(kept) /\ ListOf(kept) \cap ListOf(pending) = {}
      /\ Counted = ListOf(kept) \cup ListOf(pending) /\ Counted \subseteq ListOf(shared)
  BY <1>1 DEF ListInv, Counted
<1>3. /\ ListOf(pending) = ListOf(pending') \cup {Head(pending)}
      /\ NoneTwice(pending') /\ Head(pending) \notin ListOf(pending')
      /\ Head(pending) \in Relays
  BY <1>1, <1>2, ListTail
<1>4. Head(pending) \notin ListOf(kept)
  BY <1>2, <1>3
<1>5. kept' = Append(kept, Head(pending)) =>
          ListOf(kept') = ListOf(kept) \cup {Head(pending)} /\ NoneTwice(kept')
  BY <1>1, <1>2, <1>3, <1>4, ListAppend
<1> QED BY <1>1, <1>2, <1>3, <1>4, <1>5

\* When a loop has looked at them all, what it kept becomes the list.
LEMMA LoopEnds ==
    ASSUME Types, ListInv, mgrPc \in Loops, pending = <<>>
    PROVE  /\ Counted = ListOf(kept) /\ NoneTwice(kept)
           /\ ListOf(kept) \subseteq ListOf(shared)
           /\ ListOf(shared) \subseteq ListOf(kept) \cup cancelled
BY ListEmpty DEF ListInv, Counted

\* A relay that shuts down was told to: what is counted on stays counted on.
LEMMA ListRelays ==
    ASSUME Types, ListInv, NEW r \in Relays, RelayInv(r), RelaySteps(r)
    PROVE  ListInv' /\ Counted' = Counted
<1>1. UNCHANGED <<ctxDone, shared, mgrPc, pending, kept>> /\ Moved(r)
  BY RelayStepsMove
<1>2. Counted' = Counted
  BY <1>1 DEF Counted
<1>3. /\ cancelled \subseteq cancelled'
      /\ \A e \in cancelled' : e \in cancelled \/ (e = r /\ RelayDone(r))
  BY <1>1 DEF Moved, RelayInv
<1>4. \A e \in Counted' : e \in cancelled' => ctxDone'
  BY <1>1, <1>2, <1>3 DEF ListInv, RelayDone
<1> QED BY <1>1, <1>2, <1>3, <1>4 DEF ListInv, NoneTwice

\* Every step keeps ListInv.
LEMMA ListNext ==
    ASSUME Types, LockInv, \A r \in Relays : RelayInv(r), ListInv, [Next]_vars
    PROVE  ListInv'
<1> USE DEF closeVars, chanVars, loopVars, legVars
<1>1. CASE \E r \in Relays : RelaySteps(r)
  BY <1>1, ListRelays
<1>2. CASE \E r \in Relays : AddRelay(r)
  <2> PICK r \in Relays : AddRelay(r)
    BY <1>2
  <2>1. /\ mgrPc \notin Loops /\ shared \in Seq(Relays) /\ shared' = Append(shared, r)
        /\ relayPc[r] = "wantRead"
        /\ UNCHANGED <<ctxDone, mgrPc, cancelled>>
    BY DEF AddRelay, MoveRelay, LockFree, Types, Loops
  <2>2. r \notin ListOf(shared) /\ r \notin cancelled
    BY <2>1 DEF RelayInv
  <2>3. NoneTwice(shared') /\ ListOf(shared') = ListOf(shared) \cup {r}
    BY <2>1, <2>2, ListAppend DEF ListInv
  <2>4. Counted = ListOf(shared) /\ Counted' = Counted \cup {r}
    BY <2>1, <2>3 DEF Counted
  <2>5. \A e \in Counted' : e \in cancelled' => ctxDone'
    BY <2>1, <2>2, <2>4 DEF ListInv
  <2> QED BY <2>1, <2>3, <2>5 DEF ListInv
<1>3. ASSUME mgrPc \notin Loops, UNCHANGED <<ctxDone, shared, cancelled>>,
             mgrPc' \in Loops => pending' = shared /\ kept' = <<>>
      PROVE  ListInv'
  <2>1. Counted' = ListOf(shared) /\ Counted = ListOf(shared)
    BY <1>3, ListEmpty DEF Counted
  <2>2. NoneTwice(shared') /\ NoneTwice(shared)
    BY <1>3 DEF ListInv, NoneTwice
  <2>3. mgrPc' \in Loops => /\ NoneTwice(kept') /\ NoneTwice(pending')
                            /\ ListOf(kept') \cap ListOf(pending') = {}
    BY <1>3, <2>2, ListEmpty
  <2>4. \A e \in Counted' : e \in cancelled' => ctxDone'
    BY <1>3, <2>1 DEF ListInv
  <2> QED BY <1>3, <2>1, <2>2, <2>3, <2>4 DEF ListInv
<1>4. CASE StartReconnect \/ FetchFails
  BY <1>3, <1>4 DEF StartReconnect, FetchFails, Loops
<1>5. CASE Redial
  BY <1>3, <1>5 DEF Redial, StartLoop, Loops
<1>6. CASE FetchSucceeds
  BY <1>3, <1>6 DEF FetchSucceeds, StartLoop, Loops
<1>7. CASE RelayAnswers \/ RelayIsDone
  <2>1. /\ Waiting /\ pending' = Tail(pending) /\ kept' = Append(kept, Head(pending))
        /\ UNCHANGED <<ctxDone, shared, cancelled, mgrPc>>
    BY <1>7 DEF RelayAnswers, RelayIsDone, Keep
  <2>2. /\ mgrPc \in Loops /\ NoneTwice(kept') /\ NoneTwice(pending')
        /\ ListOf(kept') \cap ListOf(pending') = {}
        /\ ListOf(kept') \cup ListOf(pending') = ListOf(kept) \cup ListOf(pending)
    BY <2>1, LoopSteps DEF ListInv
  <2>3. Counted' = Counted
    BY <2>1, <2>2 DEF Counted
  <2> QED BY <2>1, <2>2, <2>3 DEF ListInv, NoneTwice
<1>8. CASE TimesOut
  <2>1. /\ Waiting /\ pending' = Tail(pending)
        /\ UNCHANGED <<kept, ctxDone, shared, mgrPc>>
        /\ cancelled' = cancelled \cup {Head(pending)}
    BY <1>8 DEF TimesOut, Drop
  <2>2. /\ mgrPc \in Loops /\ NoneTwice(kept') /\ NoneTwice(pending')
        /\ ListOf(kept') \cap ListOf(pending') = {}
        /\ Counted = ListOf(kept) \cup ListOf(pending)
        /\ Counted' = Counted \ {Head(pending)}
    BY <2>1, LoopSteps DEF ListInv, Counted, NoneTwice
  <2>3. /\ Counted' \subseteq ListOf(shared')
        /\ ListOf(shared') \subseteq Counted' \cup cancelled'
    BY <2>1, <2>2 DEF ListInv
  <2>4. \A e \in Counted' : e \in cancelled' => ctxDone'
    BY <2>1, <2>2 DEF ListInv
  <2> QED BY <2>1, <2>2, <2>3, <2>4 DEF ListInv, NoneTwice
<1>9. ASSUME mgrPc \in Loops, pending = <<>>, shared' = kept,
             mgrPc' \in Loops => pending' = kept /\ kept' = <<>>,
             UNCHANGED <<ctxDone, cancelled>>
      PROVE  ListInv'
  <2>1. Counted = ListOf(kept) /\ NoneTwice(kept)
    BY <1>9, LoopEnds
  <2>2. Counted' = ListOf(kept)
    BY <1>9, ListEmpty DEF Counted
  <2>3. /\ NoneTwice(shared')
        /\ mgrPc' \in Loops => /\ NoneTwice(kept') /\ NoneTwice(pending')
                               /\ ListOf(kept') \cap ListOf(pending') = {}
    BY <1>9, <2>1, ListEmpty
  <2>4. \A e \in Counted' : e \in cancelled' => ctxDone'
    BY <1>9, <2>1, <2>2 DEF ListInv
  <2> QED BY <1>9, <2>2, <2>3, <2>4 DEF ListInv
<1>10. CASE LegsWaited \/ SetupWaited
  BY <1>9, <1>10 DEF LegsWaited, SetupWaited, SharedAfterLoop, Loops
<1>11. CASE RelaysReleased
  BY <1>9, <1>11 DEF RelaysReleased, StartSetupWait, SharedAfterLoop, Loops
<1>12. CASE Others
  BY <1>12, OthersLeave DEF ListInv, Counted, NoneTwice
<1> QED BY NextSteps, <1>1, <1>2, <1>4, <1>5, <1>6, <1>7, <1>8, <1>10, <1>11, <1>12
        DEF Manager
-----------------------------------------------------------------------------
(***************************************************************************)
(* Relays.                                                                 *)
(***************************************************************************)

\* A relay that does not move, while the list loses members or one of it is cancelled.
LEMMA RelayKept ==
    ASSUME NEW r \in Relays, RelayInv(r),
           relayPc'[r] = relayPc[r], leg'[r] = leg[r],
           ListOf(shared') \subseteq ListOf(shared), cancelled \subseteq cancelled',
           r \in cancelled' => r \in cancelled \/ r \in ListOf(shared)
                               \/ relayPc[r] \in {"shutdown", "done"},
           ctxDone => ctxDone'
    PROVE  RelayInv(r)'
<1>1. RelayDone(r) => RelayDone(r)'
  BY DEF RelayDone
<1>2. r \in ListOf(shared)' => r \in ListOf(shared)
  BY DEF ListOf
<1> QED BY <1>1, <1>2 DEF RelayInv

\* Every step keeps what is known of each relay.
LEMMA RelayNext ==
    ASSUME Types, \A r \in Relays : RelayInv(r), ListInv, [Next]_vars
    PROVE  \A r \in Relays : RelayInv(r)'
<1> USE DEF closeVars, chanVars, loopVars, legVars
<1>1. CASE \E q \in Relays : RelaySteps(q)
  <2> PICK q \in Relays : RelaySteps(q)
    BY <1>1
  <2>1. /\ UNCHANGED <<ctxDone, shared>> /\ Moved(q)
        /\ \E to \in RelayPcs : relayPc' = [relayPc EXCEPT ![q] = to]
    BY RelayStepsMove
  <2>2. ASSUME NEW r \in Relays, r # q PROVE RelayInv(r)'
    BY <2>1, <2>2, RelayKept DEF Moved, Types
  <2>3. RelayInv(q)'
    <3>1. RelayDone(q) => RelayDone(q)'
      BY <2>1 DEF Moved, RelayDone
    <3>2. q \in ListOf(shared)' <=> q \in ListOf(shared)
      BY <2>1
    <3> QED BY <2>1, <3>1, <3>2 DEF Moved, RelayInv, RelayDone, Types
  <2> QED BY <2>2, <2>3
<1>2. CASE \E q \in Relays : AddRelay(q)
  <2> PICK q \in Relays : AddRelay(q)
    BY <1>2
  <2>1. /\ relayPc[q] = "wantRead" /\ relayPc' = [relayPc EXCEPT ![q] = "firstSetup"]
        /\ shared \in Seq(Relays) /\ shared' = Append(shared, q)
        /\ UNCHANGED <<ctxDone, cancelled, leg>>
    BY DEF AddRelay, MoveRelay, Types
  <2>2. ListOf(shared)' = ListOf(shared) \cup {q}
    BY <2>1, ListAppend DEF ListOf
  <2>3. \A r \in Relays : RelayDone(r)' = RelayDone(r)
    BY <2>1 DEF RelayDone
  <2> QED BY <2>1, <2>2, <2>3 DEF RelayInv, Types
<1>3. CASE StartReconnect \/ FetchFails \/ Redial \/ FetchSucceeds \/ RelayIsDone
  <2>1. UNCHANGED <<ctxDone, shared, cancelled, relayPc, leg>>
    BY <1>3 DEF StartReconnect, FetchFails, Redial, FetchSucceeds, RelayIsDone
  <2> QED BY <2>1, RelayKept
<1>4. CASE RelayAnswers
  <2>1. Head(pending) \in Relays
    BY <1>4, LoopSteps DEF RelayAnswers
  <2>2. /\ UNCHANGED <<ctxDone, shared, cancelled>>
        /\ \A r \in Relays : r # Head(pending) =>
               relayPc'[r] = relayPc[r] /\ leg'[r] = leg[r]
        /\ relayPc'[Head(pending)] \in {"check", "setup", "running", "legOver"}
    BY <1>4, <2>1 DEF RelayAnswers, MoveRelay, AfterSetup, Types
  <2>3. ASSUME NEW r \in Relays, r # Head(pending) PROVE RelayInv(r)'
    BY <2>2, <2>3, RelayKept
  <2>4. ASSUME NEW r \in Relays, r = Head(pending) PROVE RelayInv(r)'
    <3>1. relayPc'[r] \in {"check", "setup", "running", "legOver"}
      BY <2>2, <2>4
    <3> QED BY <3>1 DEF RelayInv
  <2> QED BY <2>3, <2>4
<1>5. CASE TimesOut
  <2>1. /\ Head(pending) \in ListOf(shared)
        /\ UNCHANGED <<ctxDone, shared, relayPc, leg>>
        /\ cancelled' = cancelled \cup {Head(pending)}
    BY <1>5, LoopSteps DEF TimesOut, Drop
  <2> QED BY <2>1, RelayKept
<1>6. CASE LegsWaited \/ RelaysReleased \/ SetupWaited
  <2>1. /\ UNCHANGED <<ctxDone, cancelled, relayPc, leg>> /\ shared' = kept
        /\ mgrPc \in Loops /\ pending = <<>>
    BY <1>6 DEF LegsWaited, RelaysReleased, SetupWaited, SharedAfterLoop, Loops
  <2>2. ListOf(shared') \subseteq ListOf(shared)
    BY <2>1, LoopEnds
  <2> QED BY <2>1, <2>2, RelayKept
<1>7. CASE Others
  <2>1. UNCHANGED <<shared, cancelled, relayPc, leg>> /\ (ctxDone => ctxDone')
    BY <1>7, OthersLeave
  <2> QED BY <2>1, RelayKept
<1> QED BY NextSteps, <1>1, <1>2, <1>3, <1>4, <1>5, <1>6, <1>7 DEF Manager

-----------------------------------------------------------------------------
(***************************************************************************)
(* Stages of a reconnection.                                               *)
(***************************************************************************)

\* A relay that does not move stays where its stage has it, while its loop goes on.
LEMMA StageKept ==
    ASSUME NEW r, Stage(r), relayPc'[r] = relayPc[r], leg'[r] = leg[r],
           UNCHANGED <<gen, mgrPc, legCompleteWaited>>,
           r \in ListOf(kept') <=> r \in ListOf(kept)
    PROVE  Stage(r)'
<1>1. r \in ListOf(kept)' <=> r \in ListOf(kept)
  BY DEF ListOf
<1> QED BY <1>1 DEF Stage, Listens, LegIsOver, SetsUp, LagsBehind

\* A relay on its own goes on within its stage, unless it was told to shut down.
LEMMA StageRelays ==
    ASSUME Types, LockInv, \A r \in Relays : RelayInv(r), ListInv, StageInv,
           NEW r \in Relays, RelaySteps(r)
    PROVE  StageInv'
<1>1. /\ UNCHANGED <<ctxDone, gen, shared, legCompleteWaited, mgrPc, kept>> /\ Moved(r)
      /\ \E to \in RelayPcs : relayPc' = [relayPc EXCEPT ![r] = to]
  BY RelayStepsMove
<1>2. Counted' = Counted /\ Counted \subseteq ListOf(shared)
  BY ListRelays DEF ListInv, Counted
<1> SUFFICES ASSUME ~ctxDone, NEW e \in Counted PROVE Stage(e)'
  BY <1>1, <1>2 DEF StageInv
<1>3. Stage(e) /\ e \notin cancelled
  BY DEF StageInv, ListInv
<1>4. CASE e # r
  <2>1. e \in Relays /\ relayPc'[e] = relayPc[e]
    BY <1>1, <1>2, <1>4, ListIn DEF Types
  <2>2. leg'[e] = leg[e]
    BY <1>1, <1>4, <2>1 DEF Moved, Types
  <2>3. e \in ListOf(kept') <=> e \in ListOf(kept)
    BY <1>1
  <2> QED BY <1>1, <1>3, <2>1, <2>2, <2>3, StageKept
<1>5. CASE e = r
  <2>1. /\ ~RelayDone(r)
        /\ relayPc[r] \notin {"none", "call", "wantRead", "hung", "shutdown", "done"}
    BY <1>2, <1>3, <1>5 DEF RelayDone, RelayInv
  <2>2. \/ relayPc[r] = "firstSetup" /\ mgrPc = "ready" /\ Listens(r)'
        \/ Listens(r) /\ Listens(r)' /\ relayPc[r] # "firstSetup"
        \/ SetsUp(r) /\ SetsUp(r)'
        \/ LegIsOver(r) /\ LegIsOver(r)'
        \/ LagsBehind(r) /\ LagsBehind(r)'
        \/ mgrPc = "stopped"
    <3>1. CASE relayPc[r] = "firstSetup"
      BY <1>1, <2>1, <3>1 DEF Moved, Listens, LockInv, LockFree, Types
    <3>2. CASE relayPc[r] # "firstSetup"
      <4>1. leg' = leg /\ gen' = gen
        BY <1>1, <3>2 DEF Moved
      <4>2. \/ relayPc[r] \in {"running", "legOver"} /\ relayPc'[r] \in {"running", "legOver"}
            \/ relayPc[r] \in {"setup", "setupOver"} /\ relayPc'[r] \in {"setup", "setupOver"}
            \/ relayPc[r] \in {"check", "waitNext"} /\ relayPc'[r] \in {"check", "waitNext"}
        BY <1>1, <2>1, <3>2 DEF Moved
      <4>3. Listens(r) \/ SetsUp(r) \/ LegIsOver(r) \/ LagsBehind(r) \/ mgrPc = "stopped"
        BY <1>3, <1>5, <3>2 DEF Stage, Types, MgrPcs
      <4> QED BY <3>2, <4>1, <4>2, <4>3 DEF Listens, SetsUp, LegIsOver, LagsBehind
    <3> QED BY <3>1, <3>2
  <2>3. mgrPc # "stopped"
    BY DEF LockInv
  <2>4. r \in ListOf(kept)' <=> r \in ListOf(kept)
    BY <1>1
  <2> QED BY <1>1, <1>3, <1>5, <2>2, <2>3, <2>4
          DEF Stage, Listens, SetsUp, LegIsOver, LagsBehind, Types
<1> QED BY <1>4, <1>5
\* The relay a loop waits for answers, and the next one is looked at.
LEMMA StageAnswers ==
    ASSUME Types, ListInv, StageInv, RelayAnswers
    PROVE  StageInv'
<1> DEFINE h == Head(pending)
<1>1. /\ Waiting /\ pending' = Tail(pending) /\ kept' = Append(kept, h)
      /\ UNCHANGED <<ctxDone, gen, legCompleteWaited, mgrPc, setupOk>>
  BY DEF RelayAnswers, Keep, closeVars, chanVars
<1>2. /\ mgrPc \in Loops /\ h \in Relays /\ h \in Counted /\ h \notin ListOf(kept)
      /\ ListOf(kept') = ListOf(kept) \cup {h}
      /\ ListOf(pending') = ListOf(pending) \ {h}
  BY <1>1, LoopSteps
<1>3. Counted' = Counted
  <2>1. h \in ListOf(pending)
    BY <1>1, LoopSteps
  <2>2. /\ Counted = ListOf(kept) \cup ListOf(pending)
        /\ Counted' = ListOf(kept') \cup ListOf(pending')
    BY <1>1, <1>2 DEF Counted
  <2> QED BY <1>2, <2>1, <2>2
<1> HIDE DEF h
<1> SUFFICES ASSUME ~ctxDone, NEW e \in Counted PROVE Stage(e)'
  BY <1>1, <1>3 DEF StageInv
<1>4. Stage(e) /\ Stage(h)
  BY <1>2 DEF StageInv
<1>5. CASE e # h
  <2>1. e \in Relays
    BY ListIn DEF Counted, Types
  <2>2. relayPc'[e] = relayPc[e] /\ leg'[e] = leg[e]
    BY <1>5, <2>1 DEF RelayAnswers, MoveRelay, h, Types
  <2> QED BY <1>1, <1>2, <1>4, <1>5, <2>2, StageKept
<1>6. CASE e = h
  <2>1. \/ /\ mgrPc = "waitLeg" /\ relayPc'[h] = "check" /\ leg'[h] = leg[h]
        \/ /\ mgrPc = "release" /\ relayPc'[h] = "setup" /\ leg'[h] = gen
        \/ /\ mgrPc = "waitSetup" /\ relayPc'[h] \in {"running", "legOver"}
           /\ leg'[h] = leg[h]
    BY <1>2 DEF RelayAnswers, MoveRelay, AfterSetup, h, Types
  <2>2. h \in ListOf(kept)'
    BY <1>2 DEF ListOf
  <2> QED BY <1>1, <1>2, <1>4, <1>6, <2>1, <2>2
          DEF Stage, Listens, LegIsOver, SetsUp, LagsBehind
<1> QED BY <1>5, <1>6

\* Every step keeps StageInv.
LEMMA StageNext ==
    ASSUME Types, LockInv, \A r \in Relays : RelayInv(r), ListInv, StageInv, [Next]_vars
    PROVE  StageInv'
<1> USE DEF closeVars, chanVars, loopVars, legVars
<1>1. CASE \E r \in Relays : RelaySteps(r)
  BY <1>1, StageRelays
<1>2. CASE \E r \in Relays : AddRelay(r)
  <2> PICK r \in Relays : AddRelay(r)
    BY <1>2
  <2>1. /\ mgrPc \in {"ready", "stopped"}
        /\ shared \in Seq(Relays) /\ shared' = Append(shared, r)
        /\ relayPc' = [relayPc EXCEPT ![r] = "firstSetup"] /\ relayPc[r] = "wantRead"
        /\ UNCHANGED <<ctxDone, gen, legCompleteWaited, mgrPc, kept, leg>>
    BY DEF AddRelay, MoveRelay, LockFree, Types
  <2>2. /\ Counted = ListOf(shared) /\ Counted' = Counted \cup {r}
        /\ \A e \in Counted : e \in Relays
    BY <2>1, ListAppend, ListIn DEF Counted, Loops
  <2> SUFFICES ASSUME ~ctxDone, NEW e \in Counted' PROVE Stage(e)'
    BY <2>1 DEF StageInv
  <2>3. CASE e = r
    BY <2>1, <2>3 DEF Stage, Types
  <2>4. CASE e # r
    <3>1. Stage(e) /\ relayPc'[e] = relayPc[e]
      BY <2>1, <2>2, <2>4 DEF StageInv, Types
    <3> QED BY <2>1, <3>1, StageKept
  <2> QED BY <2>3, <2>4
<1>3. CASE StartReconnect
  <2>1. /\ mgrPc = "ready" /\ mgrPc' = "redial" /\ NoReaders
        /\ UNCHANGED <<ctxDone, gen, shared, legCompleteWaited, relayPc, leg>>
    BY <1>3 DEF StartReconnect
  <2>2. /\ Counted = ListOf(shared) /\ Counted' = Counted /\ ~legCompleteWaited
        /\ \A e \in Counted : e \in Relays
    BY <2>1, ListIn DEF Counted, Loops, LockInv, Types
  <2> QED BY <2>1, <2>2 DEF StageInv, Stage, Listens, NoReaders
<1>4. CASE FetchFails
  <2>1. /\ mgrPc = "fetch" /\ mgrPc' = "redial" /\ legCompleteWaited
        /\ UNCHANGED <<ctxDone, gen, shared, legCompleteWaited, relayPc, leg>>
    BY <1>4 DEF FetchFails, LockInv
  <2>2. Counted = ListOf(shared) /\ Counted' = Counted
    BY <2>1 DEF Counted, Loops
  <2> QED BY <2>1, <2>2 DEF StageInv, Stage, LegIsOver
<1>5. CASE Redial
  <2>1. mgrPc = "redial" /\ UNCHANGED <<ctxDone, gen, shared, legCompleteWaited, relayPc, leg>>
    BY <1>5 DEF Redial
  <2>2. CASE ctxDone
    BY <2>1, <2>2 DEF StageInv
  <2>3. CASE ~ctxDone /\ legCompleteWaited
    <3>1. mgrPc' = "fetch"
      BY <1>5, <2>3 DEF Redial
    <3>2. Counted = ListOf(shared) /\ Counted' = Counted
      BY <2>1, <3>1 DEF Counted, Loops
    <3> QED BY <2>1, <2>3, <3>1, <3>2 DEF StageInv, Stage, LegIsOver
  <2>4. CASE ~ctxDone /\ ~legCompleteWaited
    <3>1. mgrPc' = "waitLeg" /\ pending' = shared /\ kept' = <<>>
      BY <1>5, <2>4 DEF Redial, StartLoop
    <3>2. Counted = ListOf(shared) /\ Counted' = Counted /\ ListOf(kept)' = {}
      BY <2>1, <3>1, ListEmpty DEF Counted, Loops
    <3> QED BY <2>1, <2>4, <3>1, <3>2 DEF StageInv, Stage, Listens
  <2> QED BY <2>2, <2>3, <2>4 DEF Types
<1>6. CASE RelayAnswers
  BY <1>6, StageAnswers
<1>7. CASE RelayIsDone
  <2>1. Head(pending) \in Counted /\ RelayDone(Head(pending))
    BY <1>7, LoopSteps DEF RelayIsDone, SeesDone
  <2>2. ctxDone /\ ctxDone' = ctxDone
    BY <1>7, <2>1 DEF ListInv, RelayDone, RelayIsDone
  <2> QED BY <2>2 DEF StageInv
<1>8. CASE TimesOut
  <2>1. /\ Waiting /\ pending' = Tail(pending)
        /\ UNCHANGED <<ctxDone, gen, legCompleteWaited, mgrPc, kept, relayPc, leg>>
    BY <1>8 DEF TimesOut, Drop
  <2>2. Counted' \subseteq Counted
    BY <2>1, LoopSteps DEF Counted
  <2> QED BY <2>1, <2>2, StageKept DEF StageInv
<1>9. CASE LegsWaited
  <2>1. /\ mgrPc = "waitLeg" /\ pending = <<>> /\ mgrPc' = "fetch" /\ shared' = kept
        /\ UNCHANGED <<ctxDone, gen, relayPc, leg>>
    BY <1>9 DEF LegsWaited, SharedAfterLoop
  <2>2. Counted = ListOf(kept) /\ Counted' = ListOf(kept)
    BY <2>1, LoopEnds DEF Counted, Loops
  <2> QED BY <2>1, <2>2 DEF StageInv, Stage, LegIsOver
<1>10. CASE FetchSucceeds
  <2>1. /\ mgrPc = "fetch" /\ mgrPc' = "release" /\ pending' = shared /\ kept' = <<>>
        /\ gen \in Int /\ gen' = gen + 1 /\ UNCHANGED <<ctxDone, relayPc, leg>>
    BY <1>10 DEF FetchSucceeds, StartLoop, Types, Legs
  <2>2. Counted = ListOf(shared) /\ Counted' = Counted /\ ListOf(kept)' = {}
    BY <2>1, ListEmpty DEF Counted, Loops
  <2> QED BY <2>1, <2>2 DEF StageInv, Stage, LegIsOver, LagsBehind
<1>11. CASE RelaysReleased
  <2>1. /\ mgrPc = "release" /\ pending = <<>> /\ mgrPc' = "waitSetup"
        /\ pending' = kept /\ kept' = <<>> /\ UNCHANGED <<ctxDone, gen, relayPc, leg>>
    BY <1>11 DEF RelaysReleased, StartSetupWait, SharedAfterLoop
  <2>2. Counted = ListOf(kept) /\ Counted' = ListOf(kept) /\ ListOf(kept)' = {}
    BY <2>1, LoopEnds, ListEmpty DEF Counted, Loops
  <2> QED BY <2>1, <2>2 DEF StageInv, Stage, SetsUp
<1>12. CASE SetupWaited
  <2>1. /\ mgrPc = "waitSetup" /\ pending = <<>> /\ mgrPc' = "ready" /\ shared' = kept
        /\ UNCHANGED <<ctxDone, gen, relayPc, leg>>
    BY <1>12 DEF SetupWaited, SharedAfterLoop
  <2>2. Counted = ListOf(kept) /\ Counted' = ListOf(kept)
    BY <2>1, LoopEnds DEF Counted, Loops
  <2> QED BY <2>1, <2>2 DEF StageInv, Stage, Listens
<1>13. CASE Others
  <2>1. /\ UNCHANGED <<gen, shared, legCompleteWaited, mgrPc, pending, kept, relayPc, leg>>
        /\ ctxDone => ctxDone'
    BY <1>13, OthersLeave
  <2>2. Counted' = Counted
    BY <2>1 DEF Counted
  <2> QED BY <2>1, <2>2, StageKept DEF StageInv
<1> QED BY NextSteps, <1>1, <1>2, <1>3, <1>4, <1>5, <1>6, <1>7, <1>8, <1>9, <1>10, <1>11,
           <1>12, <1>13 DEF Manager

-----------------------------------------------------------------------------
(***************************************************************************)
(* Legs.                                                                   *)
(***************************************************************************)

\* Under the lock a relay takes the next leg only when the loop releases it.
LEMMA LegNext ==
    ASSUME Types, LockInv, \A r \in Relays : RelayInv(r), ListInv, StageInv, LegInv,
           [Next]_vars
    PROVE  LegInv'
<1> USE DEF closeVars, chanVars, loopVars, legVars
<1>1. CASE \E r \in Relays : RelaySteps(r)
  <2> PICK r \in Relays : RelaySteps(r)
    BY <1>1
  <2>1. UNCHANGED <<gen, mgrPc, pending>> /\ Counted' = Counted
    BY RelayStepsMove, ListRelays
  <2>2. mgrPc \in {"waitLeg", "fetch", "release"} => leg' = leg
    BY RelayStepsMove DEF Moved, LockInv, LockFree
  <2> QED BY <2>1, <2>2 DEF LegInv
<1>2. CASE \E r \in Relays : AddRelay(r)
  <2>1. mgrPc' \in {"ready", "stopped"}
    BY <1>2 DEF AddRelay, LockFree
  <2> QED BY <2>1 DEF LegInv
<1>3. CASE StartReconnect \/ FetchFails \/ RelaysReleased \/ SetupWaited
  <2>1. mgrPc' \in {"redial", "waitSetup", "ready"}
    BY <1>3 DEF StartReconnect, FetchFails, RelaysReleased, StartSetupWait, SetupWaited
  <2> QED BY <2>1 DEF LegInv
<1>4. CASE Redial
  <2>1. /\ mgrPc = "redial" /\ UNCHANGED <<gen, shared, leg>>
        /\ mgrPc' # "release"
        /\ mgrPc' = "waitLeg" => pending' = shared /\ kept' = <<>>
        /\ mgrPc' \in {"waitLeg", "fetch"} => ~ctxDone
    BY <1>4 DEF Redial, StartLoop
  <2>2. /\ Counted = ListOf(shared)
        /\ mgrPc' \in {"waitLeg", "fetch"} => Counted' = Counted
    BY <2>1, ListEmpty DEF Counted, Loops
  <2> QED BY <2>1, <2>2 DEF LegInv, StageInv, Stage, Listens, LegIsOver
<1>5. CASE RelayAnswers
  <2>1. /\ Waiting /\ pending' = Tail(pending) /\ kept' = Append(kept, Head(pending))
        /\ UNCHANGED <<gen, mgrPc>>
        /\ mgrPc = "waitLeg" => leg' = leg
        /\ \A r \in Relays : r # Head(pending) => leg'[r] = leg[r]
    BY <1>5 DEF RelayAnswers, Keep, MoveRelay, Types
  <2>2. /\ ListOf(pending') = ListOf(pending) \ {Head(pending)}
        /\ mgrPc = "waitLeg" => Counted' \subseteq Counted
    BY <2>1, LoopSteps DEF Counted
  <2>3. \A r \in ListOf(pending) : r \in Relays
    BY ListIn DEF Types
  <2>4. mgrPc # "fetch"
    BY <2>1 DEF Waiting
  <2> QED BY <2>1, <2>2, <2>3, <2>4 DEF LegInv
<1>6. CASE RelayIsDone \/ TimesOut
  <2>1. /\ Waiting /\ pending' = Tail(pending)
        /\ kept' \in {kept, Append(kept, Head(pending))}
        /\ UNCHANGED <<gen, mgrPc, leg>>
    BY <1>6 DEF RelayIsDone, TimesOut, Keep, Drop
  <2>2. ListOf(pending') \subseteq ListOf(pending) /\ Counted' \subseteq Counted
    BY <2>1, LoopSteps DEF Counted
  <2> QED BY <2>1, <2>2 DEF LegInv
<1>7. CASE LegsWaited
  <2>1. /\ mgrPc = "waitLeg" /\ pending = <<>> /\ mgrPc' = "fetch" /\ shared' = kept
        /\ UNCHANGED <<gen, leg>>
    BY <1>7 DEF LegsWaited, SharedAfterLoop
  <2>2. Counted = ListOf(kept) /\ Counted' = ListOf(kept)
    BY <2>1, LoopEnds DEF Counted, Loops
  <2> QED BY <2>1, <2>2 DEF LegInv
<1>8. CASE FetchSucceeds
  <2>1. /\ mgrPc = "fetch" /\ mgrPc' = "release" /\ pending' = shared
        /\ gen \in Int /\ gen' = gen + 1 /\ UNCHANGED leg
    BY <1>8 DEF FetchSucceeds, StartLoop, Types, Legs
  <2>2. Counted = ListOf(shared)
    BY <2>1 DEF Counted, Loops
  <2> QED BY <2>1, <2>2 DEF LegInv
<1>9. CASE Others
  <2>1. UNCHANGED <<gen, shared, mgrPc, pending, kept, leg>>
    BY <1>9, OthersLeave
  <2> QED BY <2>1 DEF LegInv, Counted
<1> QED BY NextSteps, <1>1, <1>2, <1>3, <1>4, <1>5, <1>6, <1>7, <1>8, <1>9 DEF Manager

-----------------------------------------------------------------------------
(***************************************************************************)
(* The theorems.                                                           *)
(***************************************************************************)

(***************************************************************************)
(* Setups.                                                                 *)
(***************************************************************************)

\* Unless streadway refuses its arguments, a relay whose setup failed is past it only on a
\* streadway channel that has closed; none is opened again.
SetupInv ==
    /\ \A c \in open : c <= gen
    /\ \A r \in Relays : leg[r] <= gen
    /\ \A r \in Relays \ RefusedRelays :
           relayPc[r] \in {"setupOver", "legOver"} => setupOk[r] \/ leg[r] \notin open
    /\ \A r \in Relays : relayPc[r] = "running" => setupOk[r]

\* Every step keeps SetupInv.
LEMMA SetupNext ==
    ASSUME Types, SetupInv, [Next]_vars
    PROVE  SetupInv'
<1> USE DEF Types, SetupInv, MoveRelay, closeVars, chanVars, loopVars, legVars
<1>0. gen \in Int /\ leg \in [Relays -> Int] /\ open \subseteq Int
  BY ConstantsAssumption DEF Legs
<1>1. ASSUME NEW r \in Relays, FirstSetup(r) PROVE SetupInv'
  <2> PICK ok \in SetupResults(r, gen) :
          /\ relayPc' = [relayPc EXCEPT ![r] = IF ok THEN "running" ELSE "legOver"]
          /\ leg' = [leg EXCEPT ![r] = gen]
          /\ setupOk' = [setupOk EXCEPT ![r] = ok]
    BY <1>1 DEF FirstSetup
  <2>1. UNCHANGED <<gen, open>>
    BY <1>1 DEF FirstSetup
  <2>2. r \notin RefusedRelays => ok \/ gen \notin open
    BY DEF SetupResults
  <2> QED BY <1>0, <2>1, <2>2 DEF SetupResults
<1>2. ASSUME NEW r \in Relays, SetupLeg(r) PROVE SetupInv'
  <2> PICK ok \in SetupResults(r, leg[r]) :
          /\ relayPc' = [relayPc EXCEPT ![r] = "setupOver"]
          /\ setupOk' = [setupOk EXCEPT ![r] = ok]
    BY <1>2 DEF SetupLeg
  <2>1. UNCHANGED <<gen, open, leg>> /\ relayPc[r] = "setup"
    BY <1>2 DEF SetupLeg
  <2>2. r \notin RefusedRelays => ok \/ leg[r] \notin open
    BY DEF SetupResults
  <2> QED BY <1>0, <2>1, <2>2 DEF SetupResults
<1>3. ASSUME NEW r \in Relays, SignalSetupCancelled(r) PROVE SetupInv'
  BY <1>0, <1>3 DEF SignalSetupCancelled, AfterSetup
<1>4. ASSUME NEW r \in Relays,
             \/ Listen(r) \/ OpStarts(r) \/ AddRelay(r) \/ SignalLegCancelled(r)
             \/ CheckDone(r) \/ WaitNextCancelled(r) \/ Shutdown(r)
      PROVE  SetupInv'
  BY <1>0, <1>4 DEF Listen, OpStarts, AddRelay, SignalLegCancelled, CheckDone,
                    WaitNextCancelled, Shutdown
<1>5. ASSUME NEW r \in Relays, LegEnds(r) \/ ConsumerCancelled(r) PROVE SetupInv'
  BY <1>0, <1>5 DEF LegEnds, ConsumerCancelled
<1>6. CASE RelayAnswers
  <2>1. Head(pending) \in Relays
    BY <1>6, ListTail DEF RelayAnswers, Waiting
  <2>2. UNCHANGED <<gen, open, setupOk>>
    BY <1>6 DEF RelayAnswers
  <2>3. CASE mgrPc = "release"
    <3>1. /\ relayPc' = [relayPc EXCEPT ![Head(pending)] = "setup"]
          /\ leg' = [leg EXCEPT ![Head(pending)] = gen]
      BY <1>6, <2>3 DEF RelayAnswers
    <3> QED BY <1>0, <2>1, <2>2, <3>1
  <2>4. CASE mgrPc = "waitLeg"
    <3>1. relayPc' = [relayPc EXCEPT ![Head(pending)] = "check"] /\ UNCHANGED leg
      BY <1>6, <2>4 DEF RelayAnswers
    <3> QED BY <1>0, <2>1, <2>2, <3>1
  <2>5. CASE mgrPc = "waitSetup"
    <3>1. /\ relayPc' = [relayPc EXCEPT ![Head(pending)] = AfterSetup(Head(pending))]
          /\ relayPc[Head(pending)] = "setupOver" /\ UNCHANGED leg
      BY <1>6, <2>5 DEF RelayAnswers
    <3> QED BY <1>0, <2>1, <2>2, <3>1 DEF AfterSetup
  <2> QED BY <1>6, <2>3, <2>4, <2>5 DEF RelayAnswers
<1>7. CASE FetchSucceeds
  BY <1>0, <1>7 DEF FetchSucceeds
<1>8. CASE \/ StartReconnect \/ Redial \/ RelayIsDone \/ TimesOut \/ LegsWaited
           \/ FetchFails \/ RelaysReleased \/ SetupWaited
  BY <1>0, <1>8 DEF StartReconnect, Redial, RelayIsDone, TimesOut, LegsWaited, FetchFails,
                    RelaysReleased, SetupWaited
<1>9. CASE Others
  <2>1. open' \subseteq open
    BY <1>9 DEF Others, CloseCancelsContext, CloseChannel, ChannelDies, vars
  <2> QED BY <1>0, <1>9, <2>1, OthersLeave
<1> QED BY NextSteps, <1>1, <1>2, <1>3, <1>4, <1>5, <1>6, <1>7, <1>8, <1>9
        DEF RelaySteps, Manager

-----------------------------------------------------------------------------
\* Inv holds at first ...
LEMMA InvInit == Init => Types /\ Inv
<1> SUFFICES ASSUME Init PROVE Types /\ Inv
  OBVIOUS
<1>1. /\ Counted = {} /\ ListOf(shared) = {} /\ NoneTwice(shared)
      /\ pending = <<>> /\ kept = <<>> /\ shared = <<>>
  BY ListEmpty DEF Init, Counted, Loops
<1>2. Types
  <2>1. 1 \in Legs /\ 0 \in 0 .. MaxLegs
    BY ConstantsAssumption DEF Legs
  <2> QED BY <1>1, <2>1, ListEmpty DEF Init, Types, MgrPcs, RelayPcs
<1>3. LockInv /\ \A r \in Relays : RelayInv(r)
  BY <1>1 DEF Init, LockInv, LockFree, RelayInv
<1>4. ListInv /\ StageInv /\ LegInv
  BY <1>1 DEF Init, ListInv, StageInv, LegInv, Loops
<1> QED BY <1>2, <1>3, <1>4 DEF Inv

\* ... and in every reachable state.
LEMMA InvNext == Types /\ Inv /\ [Next]_vars => Types' /\ Inv'
<1> SUFFICES ASSUME Types, Inv, [Next]_vars PROVE Types' /\ Inv'
  OBVIOUS
<1>1. LockInv /\ (\A r \in Relays : RelayInv(r)) /\ ListInv /\ StageInv /\ LegInv
  BY DEF Inv
<1>2. Types' /\ LockInv' /\ ListInv' /\ StageInv' /\ LegInv'
  BY <1>1, TypesNext, LockNext, ListNext, StageNext, LegNext
<1>3. \A r \in Relays : RelayInv(r)'
  BY <1>1, RelayNext
<1> QED BY <1>2, <1>3 DEF Inv

LEMMA InvCorrect == Spec => [](Types /\ Inv)
BY InvInit, InvNext, PTL DEF Spec

LEMMA SetupCorrect == Spec => []SetupInv
<1>1. Init => SetupInv
  BY DEF Init, SetupInv
<1>2. Types /\ SetupInv /\ [Next]_vars => SetupInv'
  BY SetupNext
<1> QED BY <1>1, <1>2, InvCorrect, PTL DEF Spec

\* Between the loops the relays the Channel counts on are in its list.
LEMMA FollowingIsCounted ==
    ASSUME Types, mgrPc \notin Loops, NEW r \in Following
    PROVE  r \in Counted /\ ~ctxDone
<1>1. SharedRelays = ListOf(shared)
  <2>1. DOMAIN shared = 1 .. Len(shared)
    BY DEF Types
  <2> QED BY <2>1 DEF SharedRelays, ListOf
<1> QED BY <1>1 DEF Following, RelayDone, Counted

\* Every variable keeps its type, and the list of relays is no longer than the relays are
\* many: no relay is registered twice (AddRelay).
THEOREM RelaySyncTypeCorrect == Spec => []TypeOK
<1>1. Types /\ Inv => TypeOK
  BY ListLength DEF Types, Inv, ListInv, TypeOK
<1> QED BY <1>1, InvCorrect, PTL

\* No relay the Channel counts on works on the events of the old streadway channel when a
\* new one is fetched, however often the loops timed out or the attempt failed
\* (WaitOnLegComplete, tryReconnect).
THEOREM OldLegsAreOver == Spec => []OldLegsOver
<1>1. Types /\ Inv => OldLegsOver
  <2> SUFFICES ASSUME Types, Inv, mgrPc = "fetch", NEW r \in Following
               PROVE  relayPc[r] \in {"check", "waitNext"}
    BY DEF OldLegsOver
  <2>1. r \in Counted /\ ~ctxDone
    BY FollowingIsCounted DEF Loops
  <2> QED BY <2>1 DEF Inv, StageInv, Stage, LegIsOver
<1> QED BY <1>1, InvCorrect, PTL

\* When callers may use the Channel every relay it counts on, unless streadway refuses its
\* arguments, listens to the streadway channel they use, has listened until its leg ended
\* or has found that channel closed (WaitOnSetupComplete, tryReconnect).
THEOREM AllListenWhenReady == Spec => []ListeningWhenReady
<1>1. Types /\ Inv /\ SetupInv => ListeningWhenReady
  <2> SUFFICES ASSUME Types, Inv, SetupInv, mgrPc = "ready",
                      NEW r \in Following \ RefusedRelays
               PROVE  relayPc[r] = "firstSetup" \/ ListensNow(r)
    BY DEF ListeningWhenReady
  <2>1. r \in Counted /\ ~ctxDone
    BY FollowingIsCounted DEF Loops
  <2>2. relayPc[r] = "firstSetup" \/ Listens(r)
    BY <2>1 DEF Inv, StageInv, Stage
  <2>3. r \in Relays \ RefusedRelays
    BY DEF Following, SharedRelays, Types
  <2> QED BY <2>2, <2>3 DEF Listens, ListensNow, SetupInv
<1> QED BY <1>1, InvCorrect, SetupCorrect, PTL

\* A relay goes from one streadway channel to the next and misses none, also when its
\* loop times out on others or the Channel is being closed (ReleaseRelaysForLeg).
THEOREM NoLegIsMissed == Spec => NoLegMissed
<1>1. Types /\ Inv /\ [Next]_vars
          => [\A r \in Relays : leg'[r] \in {leg[r], leg[r] + 1} \/ leg[r] = 0]_vars
  <2> SUFFICES ASSUME Types, Inv, [Next]_vars, NEW r \in Relays
               PROVE  leg'[r] \in {leg[r], leg[r] + 1} \/ leg[r] = 0
    OBVIOUS
  <2> USE DEF closeVars, chanVars, loopVars, legVars
  <2>1. CASE \E q \in Relays : RelaySteps(q)
    <3> PICK q \in Relays : RelaySteps(q)
      BY <2>1
    <3>1. Moved(q) /\ RelayInv(q)
      BY RelayStepsMove DEF Inv
    <3> QED BY <3>1 DEF Moved, RelayInv, Types
  <2>2. CASE RelayAnswers
    <3>1. /\ Head(pending) \in Relays /\ Head(pending) \in ListOf(pending)
      BY <2>2, LoopSteps DEF RelayAnswers, Inv
    <3>2. CASE mgrPc = "release"
      <4>1. leg[Head(pending)] = gen - 1 /\ gen \in Int
        BY <3>1, <3>2 DEF Inv, LegInv, Types, Legs
      <4>2. leg' = [leg EXCEPT ![Head(pending)] = gen]
        BY <2>2, <3>2 DEF RelayAnswers
      <4> QED BY <4>1, <4>2 DEF Types
    <3>3. CASE mgrPc # "release"
      BY <2>2, <3>3 DEF RelayAnswers
    <3> QED BY <3>2, <3>3
  <2>3. CASE \E q \in Relays : AddRelay(q)
    BY <2>3 DEF AddRelay
  <2>4. CASE StartReconnect \/ Redial \/ RelayIsDone \/ TimesOut \/ LegsWaited
             \/ FetchSucceeds \/ FetchFails \/ RelaysReleased \/ SetupWaited
    BY <2>4 DEF StartReconnect, Redial, RelayIsDone, TimesOut, LegsWaited, FetchSucceeds,
                FetchFails, RelaysReleased, SetupWaited
  <2>5. CASE Others
    BY <2>5, OthersLeave
  <2> QED BY NextSteps, <2>1, <2>2, <2>3, <2>4, <2>5 DEF Manager
<1> QED BY <1>1, InvCorrect, PTL DEF Spec, NoLegMissed
=============================================================================
