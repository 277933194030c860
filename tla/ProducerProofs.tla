--------------------------- MODULE ProducerProofs ---------------------------
(***************************************************************************)
(* Proofs about Producer, for any orders and capacity of the queues.  The  *)
(* invariant Inv says where an order is: not sent yet (UnsentInv), with    *)
(* the confirmer, in the order of the publications (PassedInv), or         *)
(* answered (GivenInv).  Until the confirmation relay is cancelled,        *)
(* confirmations come in the same order (EventsInv), so that each of them  *)
(* meets its order (AnsweredInv).                                          *)
(***************************************************************************)
EXTENDS Producer, Integers, TLAPS

\* What the variables range over.
Types ==
    /\ confirmPublish \in BOOLEAN /\ ctxDone \in BOOLEAN
    /\ publishQueue \in Seq(Orders) /\ Len(publishQueue) <= QueueCapacity
    /\ confirmQueue \in Seq(Orders) /\ Len(confirmQueue) <= QueueCapacity
    /\ publishQueueClosed \in BOOLEAN /\ confirmQueueClosed \in BOOLEAN
    /\ callerPc \in [Orders -> {"idle", "push", "wait", "returned"}]
    /\ orderDone \in [Orders -> BOOLEAN]
    /\ result \in [Orders -> Answers]
    /\ publisherPc \in {"off", "range", "publish", "confirm", "done"}
    /\ publisherPc \in {"publish", "confirm"} => publishing \in Orders
    /\ publisherPc \notin {"publish", "confirm"} => publishing = None
    /\ publicationTag \in [Orders -> Nat]
    /\ confirmerPc \in {"off", "range", "receive", "done", "panic"}
    /\ confirmerPc = "receive" => confirming \in Orders
    /\ confirmerPc # "receive" => confirming = None
    /\ closerPc \in {"off", "wait", "lock", "done"}
    /\ monitorPc \in {"off", "wait", "told", "done"}
    /\ runPc \in {"called", "started", "confirming", "hung", "registered", "running", "failed",
                  "returned"}
    /\ channelOpen \in BOOLEAN /\ channelLost \in BOOLEAN
    /\ published \in Seq(Orders) /\ deliveryTag = Len(published)
    /\ confirmed \in 0 .. Len(published)
    /\ publishEvents \in Seq([tag : Nat, ack : BOOLEAN])
    /\ Len(publishEvents) <= QueueCapacity
    /\ publishEventsClosed \in BOOLEAN
    /\ relay \in {"none", "attached", "replacing", "detached"}
    /\ lastStray \in Nat /\ nextStray \in Nat

NoneTwice(s) == \A i, j \in 1 .. Len(s) : s[i] = s[j] => i = j

InQueue(o)     == \E i \in 1 .. Len(publishQueue) : publishQueue[i] = o
IsPublished(o) == \E i \in 1 .. Len(published) : published[i] = o

\* The publisher has still to send the order.
Unsent(o) == InQueue(o) \/ (publisherPc = "publish" /\ publishing = o)

\* How many publications the confirmer was given, has taken, and was told about.
Passed    == IF publisherPc = "confirm" THEN Len(published) - 1 ELSE Len(published)
Taken     == Passed - Len(confirmQueue)
Confirmed == confirmed - Len(publishEvents)

\* The stages of a shutdown.
StagesInv ==
    /\ publishQueueClosed => NoneAboutToPush
    /\ publishQueueClosed => closerPc = "done"
    /\ closerPc \in {"lock", "done"} => ctxDone
    /\ runPc \notin {"running", "returned"} =>
           publisherPc = "off" /\ confirmerPc = "off" /\ closerPc = "off"
    /\ runPc \in {"confirming", "hung", "registered"} \/ relay # "none" => confirmPublish
    /\ runPc \in {"called", "started", "confirming", "hung"} => relay = "none"
    /\ runPc = "returned" => publisherPc = "done" /\ confirmerPc = "done"
    /\ publisherPc = "done" => publishQueue = <<>> /\ publishQueueClosed
    /\ confirmQueueClosed => publisherPc = "done"
    /\ publishEventsClosed => ~channelOpen \/ Detached
    /\ channelOpen \/ channelLost \/ runPc \in {"failed", "returned"}
    /\ confirmerPc = "done" =>
           channelLost \/ Detached \/ (publisherPc = "done" /\ confirmQueue = <<>>)

\* An order is sent once, and is not answered before.
UnsentInv ==
    /\ NoneTwice(publishQueue)
    /\ publisherPc = "publish" => ~InQueue(publishing)
    /\ \A o \in Orders : Unsent(o) =>
           callerPc[o] = "wait" /\ result[o] = "none" /\ ~IsPublished(o)

\* The publications are with the publisher, with the confirmer, or answered, in this order.
PassedInv ==
    /\ NoneTwice(published)
    /\ \A i \in 1 .. Len(published) : callerPc[published[i]] = "wait"
    /\ confirmPublish => \A i \in 1 .. Len(published) : publicationTag[published[i]] = i
    /\ publisherPc = "confirm" => confirmPublish /\ published # <<>>
                                  /\ publishing = published[Len(published)]
    /\ confirmPublish =>
           /\ Taken >= 0
           /\ \A k \in 1 .. Len(confirmQueue) : confirmQueue[k] = published[Taken + k]
           /\ confirmerPc = "receive" => Taken > 0 /\ confirming = published[Taken]
    /\ ~confirmPublish => confirmQueue = <<>> /\ confirmerPc # "receive"

\* Confirmations come in the order of the publications, and say what the broker did.
EventsInv ==
    /\ Confirmed >= 0
    /\ confirmPublish => CASE confirmerPc = "receive" -> Taken = Confirmed + 1
                           [] confirmerPc \in {"off", "range"} -> Taken = Confirmed
                           [] OTHER -> Taken >= Confirmed
    /\ ~confirmPublish => confirmed = 0
    /\ \A k \in 1 .. Len(publishEvents) :
           /\ publishEvents[k].tag = Confirmed + k
           /\ publishEvents[k].ack <=> published[Confirmed + k] \in acked
    /\ \A o \in acked : \E i \in 1 .. confirmed : published[i] = o

\* An order that is queued is not forgotten, and what the confirmer was given before the
\* order it has in hand is answered.
GivenInv ==
    /\ \A o \in Orders : callerPc[o] # "wait" => result[o] = "none"
    /\ \A o \in Orders : callerPc[o] = "wait" =>
           Unsent(o) \/ IsPublished(o) \/ result[o] # "none" \/ orderDone[o]
    /\ confirmPublish => \A i \in 1 .. Taken :
           \/ result[published[i]] # "none"
           \/ confirmerPc = "panic"
           \/ confirmerPc = "receive" /\ i = Taken

\* What the answer to an order says.
AnswerOf(o) ==
    /\ result[o] = "ok" => o \in acked
    /\ result[o] = "nack" => o \notin acked /\ \E i \in 1 .. Confirmed : published[i] = o
    /\ result[o] = "publishError" => ~IsPublished(o)

\* Every confirmation the confirmer took met its order.
AnsweredInv ==
    /\ ~panicked
    /\ \A o \in Orders : AnswerOf(o)

Inv ==
    /\ StagesInv /\ UnsentInv /\ PassedInv /\ GivenInv
    /\ ~Detached => EventsInv /\ AnsweredInv

-----------------------------------------------------------------------------
(***************************************************************************)
(* Queues.                                                                 *)
(***************************************************************************)

\* What is appended comes last.
LEMMA AppendAt ==
    ASSUME NEW S, NEW s \in Seq(S), NEW e \in S
    PROVE  /\ Append(s, e) \in Seq(S)
           /\ Len(s) \in Nat /\ Len(Append(s, e)) = Len(s) + 1
           /\ \A i \in 1 .. Len(s) : Append(s, e)[i] = s[i] /\ s[i] \in S
           /\ Append(s, e)[Len(s) + 1] = e
OBVIOUS

\* What is behind the head moves up.
LEMMA TailAt ==
    ASSUME NEW S, NEW s \in Seq(S), s # <<>>
    PROVE  /\ Tail(s) \in Seq(S)
           /\ Len(s) \in Nat \ {0} /\ Len(Tail(s)) = Len(s) - 1
           /\ \A i \in 1 .. Len(s) - 1 : Tail(s)[i] = s[i + 1] /\ i + 1 \in 1 .. Len(s)
           /\ Head(s) = s[1] /\ 1 \in 1 .. Len(s) /\ \A i \in 1 .. Len(s) : s[i] \in S
OBVIOUS

\* A queue without repetitions has none when something new is appended ...
LEMMA OnceAppend ==
    ASSUME NEW S, NEW s \in Seq(S), NEW e \in S, NoneTwice(s),
           \A i \in 1 .. Len(s) : s[i] # e
    PROVE  NoneTwice(Append(s, e))
BY AppendAt DEF NoneTwice

\* ... or its head is taken, which is then no longer in it.
LEMMA OnceTail ==
    ASSUME NEW S, NEW s \in Seq(S), s # <<>>, NoneTwice(s)
    PROVE  NoneTwice(Tail(s)) /\ \A i \in 1 .. Len(Tail(s)) : Tail(s)[i] # Head(s)
BY TailAt DEF NoneTwice

-----------------------------------------------------------------------------
(***************************************************************************)
(* Types.                                                                  *)
(***************************************************************************)

\* The steps that leave the orders and the queues alone.
Runs ==
    \/ RunStarts \/ RunConfirms \/ RunFails \/ RunRegisters \/ RunHangs
    \/ RunLaunches \/ RunReturns \/ ReplacementEnds
    \/ CloserAnnouncesLock \/ CloserCloses \/ MonitorShutsDown \/ StartShutdown
    \/ ChannelCloses \/ EventsClose
    \/ UNCHANGED vars

\* What comes from a relay that was cancelled.
Strays == StrayConfirms \/ OrphanTold

CallerMoves ==
    \E o \in Orders :
        CallerRLock(o) \/ CallerRefused(o) \/ CallerGivesUp(o) \/ CancelOrder(o)

\* The steps there are.
LEMMA NextSteps ==
    ASSUME [Next]_vars
    PROVE  \/ CallerMoves
           \/ \E o \in Orders : CallerPushes(o)
           \/ Publisher \/ Confirmer \/ ChannelConfirms \/ Strays
           \/ Runs
BY DEF Next, Goroutines, Call, Caller, CallerMoves, Runs, Strays

\* A relay that was cancelled stays so.
LEMMA DetachedStays ==
    ASSUME StagesInv, Detached, [Next]_vars
    PROVE  Detached'
<1> USE DEF Detached, relayVars, CallerReturns
<1>1. CASE CallerMoves
  BY <1>1 DEF CallerMoves, CallerRLock, CallerRefused, CallerGivesUp, CancelOrder
<1>2. CASE \E o \in Orders : CallerPushes(o)
  BY <1>2 DEF CallerPushes
<1>3. CASE Publisher
  BY <1>3 DEF Publisher, PublisherTakes, PublisherSkips, PublisherFails, PublisherPublishes,
              PublisherPasses, PublisherEnds
<1>4. CASE Confirmer
  BY <1>4 DEF Confirmer, ConfirmerTakes, ConfirmerAnswers, ConfirmerSeesClosed, ConfirmerEnds
<1>5. CASE ChannelConfirms \/ Strays
  BY <1>5 DEF ChannelConfirms, Strays, StrayConfirms, OrphanTold
<1>6. CASE RunStarts \/ RunConfirms \/ RunFails \/ RunHangs \/ RunLaunches \/ RunReturns
  BY <1>6 DEF RunStarts, RunConfirms, RunFails, RunHangs, RunLaunches, RunReturns
<1>7. ~RunRegisters
  BY DEF RunRegisters, MoveRun, StagesInv
<1>8. CASE ReplacementEnds
  BY <1>8 DEF ReplacementEnds
<1>9. CASE CloserAnnouncesLock \/ CloserCloses \/ MonitorShutsDown \/ StartShutdown
  BY <1>9 DEF CloserAnnouncesLock, CloserCloses, MonitorShutsDown, StartShutdown
<1>10. CASE ChannelCloses \/ EventsClose \/ UNCHANGED vars
  BY <1>10 DEF ChannelCloses, EventsClose, vars
<1> QED BY NextSteps, <1>1, <1>2, <1>3, <1>4, <1>5, <1>6, <1>7, <1>8, <1>9, <1>10 DEF Runs

\* The variables are in their types at first.
LEMMA TypesInit == Init => Types
<1> SUFFICES ASSUME Init PROVE Types
  OBVIOUS
<1>1. /\ publishQueue \in Seq(Orders) /\ Len(publishQueue) = 0
      /\ confirmQueue \in Seq(Orders) /\ Len(confirmQueue) = 0
      /\ published \in Seq(Orders) /\ Len(published) = 0
      /\ publishEvents \in Seq([tag : Nat, ack : BOOLEAN]) /\ Len(publishEvents) = 0
  BY DEF Init
<1>2. QueueCapacity >= 0 /\ confirmed \in 0 .. Len(published) /\ deliveryTag = Len(published)
  BY <1>1, ConstantsAssumption DEF Init
<1> QED BY <1>1, <1>2, ConstantsAssumption DEF Init, Types, Answers

\* A caller, the publisher, the confirmer ...
LEMMA TypesCaller ==
    ASSUME Types, NEW o \in Orders,
           CallerRLock(o) \/ CallerRefused(o) \/ CallerGivesUp(o) \/ CancelOrder(o)
    PROVE  Types'
<1> USE DEF Types, MoveCaller, CallerReturns, queueVars, publisherVars, confirmerVars,
            runVars, channelVars, eventVars, relayVars
<1>1. CASE CallerRLock(o)
  BY <1>1 DEF CallerRLock
<1>2. CASE CallerRefused(o)
  BY <1>2 DEF CallerRefused
<1>3. CASE CallerGivesUp(o)
  BY <1>3 DEF CallerGivesUp
<1>4. CASE CancelOrder(o)
  BY <1>4 DEF CancelOrder
<1> QED BY <1>1, <1>2, <1>3, <1>4

LEMMA TypesPushes ==
    ASSUME Types, NEW o \in Orders, CallerPushes(o)
    PROVE  Types'
<1> USE DEF CallerPushes, MoveCaller, publisherVars, confirmerVars, runVars, channelVars,
            eventVars, relayVars
<1>1. publishQueue' \in Seq(Orders) /\ Len(publishQueue') <= QueueCapacity
  <2>1. CASE publishQueueClosed
    BY <2>1 DEF Types
  <2>2. CASE ~publishQueueClosed
    <3>1. publishQueue \in Seq(Orders) /\ QueueCapacity \in Nat
      BY ConstantsAssumption DEF Types
    <3>2. publishQueue' = Append(publishQueue, o) /\ Len(publishQueue) < QueueCapacity
      BY <2>2
    <3> HIDE DEF CallerPushes
    <3> QED BY <3>1, <3>2, AppendAt
  <2> QED BY <2>1, <2>2 DEF Types
<1> QED BY <1>1 DEF Types

LEMMA TypesPublisher ==
    ASSUME Types, Publisher
    PROVE  Types'
<1> USE DEF MovePublisher, callerVars, confirmerVars, runVars, channelVars, eventVars, relayVars,
            queueVars, publisherVars
<1>1. CASE PublisherTakes
  <2>1. /\ publishQueue' \in Seq(Orders) /\ Len(publishQueue') <= QueueCapacity
        /\ publishing' \in Orders
    BY <1>1, TailAt, ConstantsAssumption DEF PublisherTakes, Types
  <2> QED BY <1>1, <2>1 DEF PublisherTakes, Types
<1>2. CASE PublisherSkips
  <2>1. publishQueue' \in Seq(Orders) /\ Len(publishQueue') <= QueueCapacity
    BY <1>2, TailAt, ConstantsAssumption DEF PublisherSkips, Types
  <2> QED BY <1>2, <2>1 DEF PublisherSkips, Types
<1>3. CASE PublisherFails
  BY <1>3 DEF PublisherFails, Types, Answers
<1>4. CASE PublisherPublishes
  <2>1. publishing \in Orders
    BY <1>4 DEF PublisherPublishes, Types
  <2>2. published' \in Seq(Orders) /\ Len(published') = Len(published) + 1
    BY <1>4, <2>1, AppendAt DEF PublisherPublishes, Types
  <2>3. publicationTag' \in [Orders -> Nat] /\ confirmed' \in 0 .. Len(published')
    BY <1>4, <2>1, <2>2 DEF PublisherPublishes, Types
  <2> QED BY <1>4, <2>1, <2>2, <2>3 DEF PublisherPublishes, Types
<1>5. CASE PublisherPasses
  <2>1. confirmQueue' \in Seq(Orders) /\ Len(confirmQueue') <= QueueCapacity
    BY <1>5, AppendAt, ConstantsAssumption DEF PublisherPasses, Types
  <2> QED BY <1>5, <2>1 DEF PublisherPasses, Types
<1>6. CASE PublisherEnds
  BY <1>6 DEF PublisherEnds, Types, ClosesConfirmQueue
<1> QED BY <1>1, <1>2, <1>3, <1>4, <1>5, <1>6 DEF Publisher

LEMMA TypesConfirmer ==
    ASSUME Types, Confirmer
    PROVE  Types'
<1> USE DEF MoveConfirmer, callerVars, publisherVars, runVars, channelVars, eventVars, relayVars,
            queueVars
<1>1. CASE ConfirmerTakes
  <2>1. /\ confirmQueue' \in Seq(Orders) /\ Len(confirmQueue') <= QueueCapacity
        /\ confirming' \in Orders
    BY <1>1, TailAt, ConstantsAssumption DEF ConfirmerTakes, Types
  <2> QED BY <1>1, <2>1 DEF ConfirmerTakes, Types
<1>2. CASE ConfirmerAnswers
  <2>1. /\ publishEvents' \in Seq([tag : Nat, ack : BOOLEAN])
        /\ Len(publishEvents') <= QueueCapacity
    BY <1>2, TailAt, ConstantsAssumption DEF ConfirmerAnswers, Types
  <2>2. result' \in [Orders -> Answers]
    BY <1>2 DEF ConfirmerAnswers, Types, Answers, ResultOf
  <2>3. confirmerPc' \in {"range", "panic"} /\ confirming' = None
    BY <1>2 DEF ConfirmerAnswers
  <2>4. UNCHANGED <<confirmPublish, ctxDone, queueVars, callerVars, publisherVars, runVars,
                    channelVars, publishEventsClosed, relayVars>>
    BY <1>2 DEF ConfirmerAnswers
  <2> QED BY <2>1, <2>2, <2>3, <2>4 DEF Types
<1>3. CASE ConfirmerSeesClosed
  BY <1>3 DEF ConfirmerSeesClosed, Types, Answers
<1>4. CASE ConfirmerEnds
  BY <1>4 DEF ConfirmerEnds, Types
<1> QED BY <1>1, <1>2, <1>3, <1>4 DEF Confirmer

\* ... and everyone else keeps the types.
LEMMA TypesRuns ==
    ASSUME Types, StagesInv, Runs
    PROVE  Types'
<1> USE DEF Types, MoveRun, callerVars, publisherVars, confirmerVars, runVars, channelVars,
            eventVars, relayVars, queueVars
<1>1. CASE RunLaunches
  BY <1>1 DEF RunLaunches, StagesInv
<1>2. CASE RunFails \/ RunReturns
  <2>1. /\ runPc' \in {"failed", "returned"} /\ channelOpen' = FALSE
        /\ UNCHANGED <<confirmPublish, ctxDone, queueVars, callerVars, result, publisherVars,
                       confirmerVars, closerPc, monitorPc, channelLost, published, confirmed,
                       acked, eventVars, relayVars, panicked>>
    BY <1>2 DEF RunFails, RunReturns
  <2>2. /\ runPc' \in {"called", "started", "confirming", "hung", "registered", "running",
                       "failed", "returned"}
        /\ channelOpen' \in BOOLEAN /\ Types
    BY <2>1
  <2> QED BY <2>1, <2>2
<1>4. CASE CloserAnnouncesLock
  BY <1>4 DEF CloserAnnouncesLock
<1>5. CASE CloserCloses
  BY <1>5 DEF CloserCloses
<1>6. CASE MonitorShutsDown
  BY <1>6 DEF MonitorShutsDown
<1>10. CASE StartShutdown
  BY <1>10 DEF StartShutdown
<1>7. CASE ChannelCloses
  <2>1. monitorPc' \in {"off", "wait", "told", "done"}
    BY <1>7 DEF ChannelCloses
  <2>2. channelOpen' \in BOOLEAN /\ channelLost' \in BOOLEAN
    BY <1>7 DEF ChannelCloses
  <2>3. UNCHANGED <<confirmPublish, ctxDone, queueVars, callerVars, result, publisherVars,
                    confirmerVars, closerPc, runPc, published, confirmed, acked, eventVars,
                    relayVars>>
    BY <1>7 DEF ChannelCloses
  <2> QED BY <2>1, <2>2, <2>3
<1>8. CASE EventsClose
  BY <1>8 DEF EventsClose
<1>9. CASE UNCHANGED vars
  BY <1>9 DEF vars
<1>11. CASE RunStarts
  BY <1>11 DEF RunStarts
<1>12. CASE RunConfirms
  BY <1>12 DEF RunConfirms
<1>13. CASE RunRegisters
  BY <1>13 DEF RunRegisters
<1>14. CASE RunHangs
  BY <1>14 DEF RunHangs
<1>15. CASE ReplacementEnds
  BY <1>15 DEF ReplacementEnds
<1> QED BY <1>1, <1>2, <1>4, <1>5, <1>6, <1>7, <1>8, <1>9, <1>10, <1>11, <1>12, <1>13,
           <1>14, <1>15 DEF Runs

\* A confirmation is of the next publication.
LEMMA ConfirmsNext ==
    ASSUME Types, ChannelConfirms
    PROVE  \E ack \in BOOLEAN :
               LET event == [tag |-> confirmed + 1, ack |-> ack]
               IN  /\ event \in [tag : Nat, ack : BOOLEAN]
                   /\ confirmed + 1 \in 1 .. Len(published)
                   /\ published[confirmed + 1] \in Orders
                   /\ publishEvents' = Append(publishEvents, event)
                   /\ acked' = IF ack THEN acked \cup {published[confirmed + 1]} ELSE acked
<1>1. /\ confirmed + 1 \in 1 .. Len(published)
      /\ published[confirmed + 1] \in Orders
  BY DEF ChannelConfirms, Types
<1> QED BY <1>1 DEF ChannelConfirms

LEMMA TypesConfirms ==
    ASSUME Types, ChannelConfirms
    PROVE  Types'
<1>1. PICK ack \in BOOLEAN :
          LET event == [tag |-> confirmed + 1, ack |-> ack]
          IN  /\ event \in [tag : Nat, ack : BOOLEAN]
              /\ confirmed + 1 \in 1 .. Len(published)
              /\ published[confirmed + 1] \in Orders
              /\ publishEvents' = Append(publishEvents, event)
              /\ acked' = IF ack THEN acked \cup {published[confirmed + 1]} ELSE acked
  BY ConfirmsNext
<1>2. /\ publishEvents' \in Seq([tag : Nat, ack : BOOLEAN])
      /\ Len(publishEvents') <= QueueCapacity
  BY <1>1, AppendAt, ConstantsAssumption DEF Types, ChannelConfirms
<1> QED BY <1>1, <1>2
        DEF Types, ChannelConfirms, callerVars, publisherVars, confirmerVars, runVars,
            queueVars, relayVars

LEMMA TypesStrays ==
    ASSUME Types, Strays
    PROVE  Types'
<1> USE DEF callerVars, publisherVars, confirmerVars, runVars, channelVars, queueVars,
            eventVars, relayVars
<1>1. CASE StrayConfirms
  <2>1. PICK ack \in BOOLEAN :
            publishEvents' = Append(publishEvents, [tag |-> nextStray + lastStray, ack |-> ack])
    BY <1>1 DEF StrayConfirms
  <2>2. /\ [tag |-> nextStray + lastStray, ack |-> ack] \in [tag : Nat, ack : BOOLEAN]
        /\ Len(publishEvents) < QueueCapacity
    BY <1>1, <2>1 DEF StrayConfirms, Types
  <2>3. /\ publishEvents' \in Seq([tag : Nat, ack : BOOLEAN])
        /\ Len(publishEvents') <= QueueCapacity
    BY <2>1, <2>2, AppendAt, ConstantsAssumption DEF Types
  <2> QED BY <1>1, <2>3 DEF StrayConfirms, Types
<1>2. CASE OrphanTold
  <2>1. [tag |-> confirmed + 1, ack |-> FALSE] \in [tag : Nat, ack : BOOLEAN]
    BY DEF Types
  <2>2. /\ publishEvents' \in Seq([tag : Nat, ack : BOOLEAN])
        /\ Len(publishEvents') <= QueueCapacity
    <3>1. CASE publishEventsClosed
      BY <1>2, <3>1 DEF OrphanTold, Types
    <3>2. CASE ~publishEventsClosed
      <4>1. /\ publishEvents' = Append(publishEvents, [tag |-> confirmed + 1, ack |-> FALSE])
            /\ Len(publishEvents) < QueueCapacity
        BY <1>2, <3>2 DEF OrphanTold
      <4> QED BY <2>1, <4>1, AppendAt, ConstantsAssumption DEF Types
    <3> QED BY <3>1, <3>2
  <2>3. confirmed' \in 0 .. Len(published)
    BY <1>2 DEF OrphanTold, Types
  <2> QED BY <1>2, <2>2, <2>3 DEF OrphanTold, Types
<1> QED BY <1>1, <1>2 DEF Strays

LEMMA TypesNext ==
    ASSUME Types, StagesInv, [Next]_vars
    PROVE  Types'
BY NextSteps, TypesCaller, TypesPushes, TypesPublisher, TypesConfirmer, TypesRuns,
   TypesConfirms, TypesStrays DEF CallerMoves
-----------------------------------------------------------------------------
(***************************************************************************)
(* What the steps leave alone.                                             *)
(***************************************************************************)

\* Run and the Channel's end leave the orders and the queues alone; they launch
\* goroutines, and never take back that the Channel was lost.
LEMMA RunsLeave ==
    ASSUME Runs
    PROVE  /\ UNCHANGED <<confirmPublish, publishQueue, confirmQueue, callerVars, result,
                          publishing, deliveryTag, publicationTag, confirming, published,
                          confirmed, acked, publishEvents, panicked>>
           /\ publisherPc' # publisherPc =>
                  runPc \in {"started", "registered"} /\ publisherPc' = "range"
           /\ confirmerPc' # confirmerPc =>
                  runPc \in {"started", "registered"} /\ confirmerPc' = "range"
           /\ channelLost => channelLost'
<1> USE DEF callerVars, publisherVars, confirmerVars, runVars, channelVars, eventVars, relayVars,
            queueVars
<1>1. CASE RunLaunches
  BY <1>1 DEF RunLaunches, MoveRun
<1>2. CASE RunFails
  BY <1>2 DEF RunFails
<1>3. CASE RunReturns
  BY <1>3 DEF RunReturns
<1>4. CASE CloserAnnouncesLock
  BY <1>4 DEF CloserAnnouncesLock
<1>5. CASE CloserCloses
  BY <1>5 DEF CloserCloses
<1>6. CASE MonitorShutsDown
  BY <1>6 DEF MonitorShutsDown
<1>7. CASE StartShutdown
  BY <1>7 DEF StartShutdown
<1>8. CASE ChannelCloses
  BY <1>8 DEF ChannelCloses
<1>9. CASE EventsClose
  BY <1>9 DEF EventsClose
<1>10. CASE UNCHANGED vars
  BY <1>10 DEF vars
<1>11. CASE RunStarts
  BY <1>11 DEF RunStarts
<1>12. CASE RunConfirms
  BY <1>12 DEF RunConfirms
<1>13. CASE RunRegisters
  BY <1>13 DEF RunRegisters
<1>14. CASE RunHangs
  BY <1>14 DEF RunHangs
<1>15. CASE ReplacementEnds
  BY <1>15 DEF ReplacementEnds
<1> QED BY <1>1, <1>2, <1>3, <1>4, <1>5, <1>6, <1>7, <1>8, <1>9, <1>10, <1>11, <1>12, <1>13,
           <1>14, <1>15 DEF Runs

\* A caller that does not push moves only itself, and no order it has queued.
LEMMA CallersLeave ==
    ASSUME Types, CallerMoves
    PROVE  /\ UNCHANGED <<confirmPublish, ctxDone, queueVars, result, publisherVars,
                          confirmerVars, runVars, channelVars, eventVars, relayVars, panicked>>
           /\ \A o \in Orders : callerPc'[o] = "wait" <=> callerPc[o] = "wait"
           /\ \A o \in Orders : orderDone[o] => orderDone'[o]
           /\ publishQueueClosed /\ closerPc = "done" /\ ctxDone =>
                  \A o \in Orders : callerPc'[o] = "push" => callerPc[o] = "push"
<1> PICK o \in Orders :
        CallerRLock(o) \/ CallerRefused(o) \/ CallerGivesUp(o) \/ CancelOrder(o)
  BY DEF CallerMoves
<1>1. CASE CallerRLock(o)
  BY <1>1 DEF CallerRLock, MoveCaller, Types
<1>2. CASE CallerRefused(o)
  BY <1>2 DEF CallerRefused, CallerReturns, MoveCaller, Types
<1>3. CASE CallerGivesUp(o)
  BY <1>3 DEF CallerGivesUp, CallerReturns, MoveCaller, Types
<1>4. CASE CancelOrder(o)
  BY <1>4 DEF CancelOrder, Types
<1> QED BY <1>1, <1>2, <1>3, <1>4

-----------------------------------------------------------------------------
(***************************************************************************)
(* The stages of a shutdown.                                               *)
(***************************************************************************)

\* Run launches the goroutines and closes the Channel, and nobody pushes once the queue
\* is closed.
LEMMA StagesRuns ==
    ASSUME Types, StagesInv, Runs
    PROVE  StagesInv'
<1> USE DEF StagesInv, NoneAboutToPush, Detached, MoveRun, callerVars, publisherVars,
            confirmerVars, runVars, channelVars, eventVars, relayVars, queueVars
<1>1. CASE RunLaunches
  <2>1. runPc \in {"started", "registered"} /\ runPc' = "running"
    BY <1>1 DEF RunLaunches
  <2>2. /\ closerPc' = "wait" /\ publisherPc' = "range" /\ confirmerPc' = "range"
        /\ UNCHANGED <<confirmPublish, ctxDone, publishQueue, publishQueueClosed, confirmQueue,
                       confirmQueueClosed, callerPc, channelOpen, channelLost,
                       publishEventsClosed, relay>>
    BY <1>1 DEF RunLaunches
  <2>3. ~publishQueueClosed /\ ~confirmQueueClosed
    BY <2>1
  <2> QED BY <2>1, <2>2, <2>3
<1>2. CASE RunFails
  BY <1>2 DEF RunFails
<1>3. CASE RunReturns
  BY <1>3 DEF RunReturns
<1>4. CASE CloserAnnouncesLock
  BY <1>4 DEF CloserAnnouncesLock
<1>5. CASE CloserCloses
  BY <1>5 DEF CloserCloses, NoPushers
<1>6. CASE MonitorShutsDown
  BY <1>6 DEF MonitorShutsDown
<1>7. CASE StartShutdown
  BY <1>7 DEF StartShutdown
<1>8. CASE ChannelCloses
  BY <1>8 DEF ChannelCloses
<1>9. CASE EventsClose
  BY <1>9 DEF EventsClose
<1>10. CASE UNCHANGED vars
  BY <1>10 DEF vars
<1>11. CASE RunStarts
  BY <1>11 DEF RunStarts
<1>12. CASE RunConfirms
  BY <1>12 DEF RunConfirms
<1>13. CASE RunRegisters
  BY <1>13 DEF RunRegisters
<1>14. CASE RunHangs
  BY <1>14 DEF RunHangs
<1>15. CASE ReplacementEnds
  BY <1>15 DEF ReplacementEnds
<1> QED BY <1>1, <1>2, <1>3, <1>4, <1>5, <1>6, <1>7, <1>8, <1>9, <1>10, <1>11, <1>12, <1>13,
           <1>14, <1>15 DEF Runs

\* Every step keeps StagesInv.
LEMMA StagesNext ==
    ASSUME Types, StagesInv, [Next]_vars
    PROVE  StagesInv'
<1> USE DEF MoveCaller, MovePublisher, MoveConfirmer, Detached, callerVars, publisherVars,
            confirmerVars, runVars, channelVars, eventVars, relayVars, queueVars
<1>1. CASE CallerMoves
  BY <1>1, CallersLeave DEF StagesInv, NoneAboutToPush
<1>2. CASE \E o \in Orders : CallerPushes(o)
  <2> PICK o \in Orders : CallerPushes(o)
    BY <1>2
  <2>1. ~publishQueueClosed
    BY DEF CallerPushes, StagesInv, NoneAboutToPush
  <2> QED BY <2>1 DEF CallerPushes, StagesInv
<1>3. CASE PublisherTakes \/ PublisherSkips
  BY <1>3 DEF PublisherTakes, PublisherSkips, StagesInv, NoneAboutToPush
<1>4. CASE PublisherFails
  BY <1>4 DEF PublisherFails, StagesInv, NoneAboutToPush
<1>5. CASE PublisherPublishes
  BY <1>5 DEF PublisherPublishes, StagesInv, NoneAboutToPush
<1>6. CASE PublisherPasses
  BY <1>6 DEF PublisherPasses, StagesInv, NoneAboutToPush
<1>7. CASE PublisherEnds
  BY <1>7 DEF PublisherEnds, QueueDrained, StagesInv, NoneAboutToPush
<1>8. CASE ConfirmerTakes
  BY <1>8 DEF ConfirmerTakes, StagesInv, NoneAboutToPush
<1>9. CASE ConfirmerAnswers
  BY <1>9 DEF ConfirmerAnswers, StagesInv, NoneAboutToPush
<1>10. CASE ConfirmerSeesClosed
  BY <1>10 DEF ConfirmerSeesClosed, StagesInv, NoneAboutToPush
<1>11. CASE ConfirmerEnds
  BY <1>11 DEF ConfirmerEnds, StagesInv, NoneAboutToPush
<1>12. CASE ChannelConfirms
  BY <1>12 DEF ChannelConfirms, StagesInv, NoneAboutToPush
<1>13. CASE Strays
  BY <1>13 DEF Strays, StrayConfirms, OrphanTold, StagesInv, NoneAboutToPush
<1>14. CASE Runs
  BY <1>14, StagesRuns
<1> QED BY NextSteps, <1>1, <1>2, <1>3, <1>4, <1>5, <1>6, <1>7, <1>8, <1>9, <1>10, <1>11,
           <1>12, <1>13, <1>14 DEF Publisher, Confirmer
-----------------------------------------------------------------------------
(***************************************************************************)
(* Orders that are not sent yet.                                           *)
(***************************************************************************)

\* The counts are numbers.
LEMMA CountTypes ==
    ASSUME Types
    PROVE  /\ Len(published) \in Nat /\ Len(confirmQueue) \in Nat
           /\ Len(publishEvents) \in Nat
           /\ confirmed \in Nat /\ confirmed <= Len(published)
           /\ Passed \in Int /\ Passed <= Len(published) /\ Taken \in Int /\ Taken <= Passed
           /\ Confirmed \in Int /\ Confirmed <= confirmed
BY DEF Types, Passed, Taken, Confirmed

\* The order the confirmer has in hand was published.
LEMMA ConfirmingIsPublished ==
    ASSUME Types, PassedInv, confirmerPc = "receive"
    PROVE  confirming \in Orders /\ IsPublished(confirming)
<1>1. Taken \in 1 .. Len(published) /\ confirming = published[Taken]
  BY CountTypes DEF Types, PassedInv
<1> QED BY <1>1 DEF IsPublished, Types

\* Nothing was done with an order its caller does not wait for.
LEMMA FreshOrder ==
    ASSUME UnsentInv, PassedInv, GivenInv, NEW o \in Orders, callerPc[o] # "wait"
    PROVE  result[o] = "none" /\ ~IsPublished(o) /\ ~Unsent(o)
BY DEF PassedInv, UnsentInv, GivenInv, IsPublished

\* A step that gives the publisher nothing to send.
LEMMA UnsentKept ==
    ASSUME UnsentInv, UNCHANGED <<publishQueue, published>>,
           publisherPc' = "publish" => publisherPc = "publish" /\ publishing' = publishing,
           \A o \in Orders : Unsent(o)' => callerPc'[o] = "wait" /\ result'[o] = "none"
    PROVE  UnsentInv'
<1>1. \A o \in Orders : /\ InQueue(o)' = InQueue(o) /\ IsPublished(o)' = IsPublished(o)
                        /\ Unsent(o)' => Unsent(o)
  BY DEF InQueue, IsPublished, Unsent
<1>2. NoneTwice(publishQueue)' /\ InQueue(publishing)' = InQueue(publishing')
  BY DEF UnsentInv, NoneTwice, InQueue
<1> QED BY <1>1, <1>2 DEF UnsentInv

\* Every step keeps UnsentInv.
LEMMA UnsentNext ==
    ASSUME Types, StagesInv, UnsentInv, PassedInv, GivenInv, [Next]_vars
    PROVE  UnsentInv'
<1> USE DEF MoveCaller, MovePublisher, MoveConfirmer, callerVars, publisherVars,
            confirmerVars, runVars, channelVars, eventVars, relayVars, queueVars
<1>1. CASE CallerMoves
  BY <1>1, CallersLeave, UnsentKept DEF UnsentInv, Unsent, InQueue
<1>2. CASE \E o \in Orders : CallerPushes(o)
  <2> PICK o \in Orders : CallerPushes(o)
    BY <1>2
  <2>1. /\ publishQueue \in Seq(Orders) /\ publishQueue' = Append(publishQueue, o)
        /\ callerPc' = [callerPc EXCEPT ![o] = "wait"] /\ callerPc[o] = "push"
        /\ UNCHANGED <<result, publisherPc, publishing, published>>
    BY DEF CallerPushes, StagesInv, NoneAboutToPush, Types
  <2>2. result[o] = "none" /\ ~IsPublished(o) /\ ~Unsent(o)
    BY <2>1, FreshOrder
  <2>3. \A q \in Orders : InQueue(q)' <=> InQueue(q) \/ q = o
    BY <2>1, AppendAt DEF InQueue
  <2>4. NoneTwice(publishQueue')
    BY <2>1, <2>2, OnceAppend DEF UnsentInv, Unsent, InQueue
  <2>5. publisherPc' = "publish" => ~InQueue(publishing)'
    BY <2>1, <2>2, <2>3 DEF UnsentInv, Unsent, Types
  <2>6. \A q \in Orders : Unsent(q)' => Unsent(q) \/ q = o
    BY <2>1, <2>3 DEF Unsent
  <2>7. \A q \in Orders : IsPublished(q)' = IsPublished(q)
    BY <2>1 DEF IsPublished
  <2> HIDE DEF CallerPushes
  <2>8. \A q \in Orders : Unsent(q)' =>
            callerPc'[q] = "wait" /\ result'[q] = "none" /\ ~IsPublished(q)'
    BY <2>1, <2>2, <2>6, <2>7 DEF UnsentInv, Types
  <2> QED BY <2>4, <2>5, <2>8 DEF UnsentInv, NoneTwice
<1>3. ASSUME publishQueue # <<>>, publishQueue' = Tail(publishQueue), publisherPc = "range",
             UNCHANGED <<callerPc, result, published>>,
             publisherPc' = "publish" => publishing' = Head(publishQueue)
      PROVE  UnsentInv'
  <2>1. publishQueue \in Seq(Orders)
    BY DEF Types
  <2>2. \A o \in Orders : InQueue(o)' => InQueue(o) /\ o # Head(publishQueue)
    BY <1>3, <2>1, TailAt, OnceTail DEF UnsentInv, InQueue
  <2>3. InQueue(Head(publishQueue)) /\ Head(publishQueue) \in Orders
    BY <1>3, <2>1, TailAt DEF InQueue
  <2>4. NoneTwice(publishQueue')
    BY <1>3, <2>1, OnceTail DEF UnsentInv
  <2>5. publisherPc' = "publish" => ~InQueue(publishing)'
    BY <1>3, <2>2, <2>3
  <2>6. \A o \in Orders : Unsent(o)' => Unsent(o)
    BY <1>3, <2>2, <2>3 DEF Unsent
  <2>7. \A o \in Orders : IsPublished(o)' = IsPublished(o)
    BY <1>3 DEF IsPublished
  <2> QED BY <1>3, <2>4, <2>5, <2>6, <2>7 DEF UnsentInv, NoneTwice
<1>4. CASE PublisherTakes
  BY <1>3, <1>4 DEF PublisherTakes
<1>5. CASE PublisherSkips
  BY <1>3, <1>5 DEF PublisherSkips
<1>6. CASE PublisherFails
  <2>1. /\ result' = [result EXCEPT ![publishing] = "publishError"]
        /\ publisherPc = "publish" /\ publisherPc' = "range"
        /\ UNCHANGED <<publishQueue, published, callerPc>>
    BY <1>6 DEF PublisherFails
  <2>2. \A o \in Orders : Unsent(o)' => Unsent(o) /\ o # publishing
    BY <2>1 DEF Unsent, InQueue, UnsentInv
  <2>3. \A o \in Orders : Unsent(o)' => callerPc'[o] = "wait" /\ result'[o] = "none"
    BY <2>1, <2>2 DEF UnsentInv, Types
  <2> QED BY <2>1, <2>3, UnsentKept
<1>7. CASE PublisherPublishes
  <2>1. /\ published \in Seq(Orders) /\ published' = Append(published, publishing)
        /\ publishing \in Orders
        /\ publisherPc = "publish" /\ publisherPc' # "publish"
        /\ UNCHANGED <<publishQueue, result, callerPc>>
    BY <1>7 DEF PublisherPublishes, Types
  <2>2. \A o \in Orders : Unsent(o)' => Unsent(o) /\ o # publishing
    BY <2>1 DEF Unsent, InQueue, UnsentInv
  <2>3. \A o \in Orders : IsPublished(o)' => IsPublished(o) \/ o = publishing
    BY <2>1, AppendAt DEF IsPublished
  <2>4. NoneTwice(publishQueue)'
    BY <2>1 DEF UnsentInv, NoneTwice
  <2> QED BY <2>1, <2>2, <2>3, <2>4 DEF UnsentInv
<1>8. CASE PublisherPasses
  <2>1. /\ publisherPc' = "range"
        /\ UNCHANGED <<publishQueue, published, callerPc, result>>
    BY <1>8 DEF PublisherPasses
  <2> QED BY <2>1, UnsentKept DEF UnsentInv, Unsent, InQueue
<1>9. CASE PublisherEnds
  <2>1. /\ publisherPc' = "done"
        /\ UNCHANGED <<publishQueue, published, callerPc, result>>
    BY <1>9 DEF PublisherEnds
  <2> QED BY <2>1, UnsentKept DEF UnsentInv, Unsent, InQueue
<1>10. CASE ConfirmerAnswers \/ ConfirmerSeesClosed
  <2>1. /\ confirmerPc = "receive"
        /\ \A o \in Orders : o # confirming => result'[o] = result[o]
        /\ UNCHANGED <<publishQueue, published, callerPc, publisherPc, publishing>>
    BY <1>10 DEF ConfirmerAnswers, ConfirmerSeesClosed, Types
  <2>2. IsPublished(confirming) /\ confirming \in Orders
    BY <2>1, ConfirmingIsPublished
  <2>3. \A o \in Orders : Unsent(o)' => Unsent(o)
    BY <2>1 DEF Unsent, InQueue
  <2> QED BY <2>1, <2>2, <2>3, UnsentKept DEF UnsentInv
<1>11. CASE ConfirmerTakes \/ ConfirmerEnds \/ ChannelConfirms \/ Strays
  <2>1. UNCHANGED <<publishQueue, published, callerPc, publisherPc, publishing, result>>
    BY <1>11 DEF ConfirmerTakes, ConfirmerEnds, ChannelConfirms, Strays, StrayConfirms,
                 OrphanTold
  <2> QED BY <2>1, UnsentKept DEF UnsentInv, Unsent, InQueue
<1>12. CASE Runs
  <2>1. /\ UNCHANGED <<publishQueue, published, callerPc, publishing, result>>
        /\ publisherPc' = "publish" => publisherPc = "publish"
    BY <1>12, RunsLeave
  <2> QED BY <2>1, UnsentKept DEF UnsentInv, Unsent, InQueue
<1> QED BY NextSteps, <1>1, <1>2, <1>4, <1>5, <1>6, <1>7, <1>8, <1>9, <1>10, <1>11, <1>12
        DEF Publisher, Confirmer
-----------------------------------------------------------------------------
(***************************************************************************)
(* Publications on their way to the confirmer.                             *)
(***************************************************************************)

\* A step that publishes nothing and leaves the queue of the confirmer.
LEMMA PassedKept ==
    ASSUME PassedInv,
           UNCHANGED <<confirmPublish, published, publicationTag, confirmQueue>>,
           publisherPc' = "confirm" <=> publisherPc = "confirm",
           publisherPc = "confirm" => publishing' = publishing,
           confirmerPc' = "receive" => confirmerPc = "receive" /\ confirming' = confirming,
           \A i \in 1 .. Len(published) :
               callerPc[published[i]] = "wait" => callerPc'[published[i]] = "wait"
    PROVE  PassedInv'
<1>1. Taken' = Taken
  BY DEF Taken, Passed
<1> QED BY <1>1 DEF PassedInv, NoneTwice

\* The publisher publishes ...
LEMMA PassedPublishes ==
    ASSUME Types, UnsentInv, PassedInv, PublisherPublishes
    PROVE  PassedInv'
<1>1. /\ publisherPc = "publish" /\ publishing \in Orders
      /\ published \in Seq(Orders) /\ published' = Append(published, publishing)
      /\ UNCHANGED <<confirmPublish, confirmQueue, callerPc, confirmerPc, confirming>>
  BY DEF PublisherPublishes, MovePublisher, Types, queueVars, callerVars, confirmerVars
<1>2. callerPc[publishing] = "wait" /\ ~IsPublished(publishing)
  BY <1>1 DEF UnsentInv, Unsent
<1>3. /\ Len(published) \in Nat /\ Len(published') = Len(published) + 1
      /\ \A i \in 1 .. Len(published) : published'[i] = published[i] /\ published[i] \in Orders
      /\ published'[Len(published) + 1] = publishing
  BY <1>1, AppendAt
<1>4. NoneTwice(published')
  BY <1>1, <1>2, OnceAppend DEF PassedInv, IsPublished
<1>5. \A i \in 1 .. Len(published') : callerPc'[published'[i]] = "wait"
  BY <1>1, <1>2, <1>3 DEF PassedInv
<1>6. CASE confirmPublish
  <2>1. /\ publicationTag' = [publicationTag EXCEPT ![publishing] = Len(published) + 1]
        /\ publisherPc' = "confirm" /\ publishing' = publishing
    BY <1>6 DEF PublisherPublishes, MovePublisher, Types
  <2>2. \A i \in 1 .. Len(published') : publicationTag'[published'[i]] = i
    <3> SUFFICES ASSUME NEW i \in 1 .. Len(published')
                 PROVE  publicationTag'[published'[i]] = i
      OBVIOUS
    <3>1. CASE i \in 1 .. Len(published)
      <4>1. published'[i] = published[i] /\ published[i] # publishing
        BY <1>2, <1>3, <3>1 DEF IsPublished
      <4>2. publicationTag[published[i]] = i
        BY <1>6, <3>1 DEF PassedInv
      <4> QED BY <1>1, <1>3, <2>1, <3>1, <4>1, <4>2 DEF Types
    <3>2. CASE i = Len(published) + 1
      BY <1>1, <1>3, <2>1, <3>2 DEF Types
    <3> QED BY <1>3, <3>1, <3>2
  <2>3. Taken' = Taken /\ Taken \in Int
    BY <1>1, <1>3, <2>1, CountTypes DEF Taken, Passed
  <2>4. published' # <<>> /\ publishing' = published'[Len(published')]
    BY <1>3, <2>1
  <2>5. Taken + Len(confirmQueue) = Len(published) /\ Len(confirmQueue) \in Nat
    BY <1>1, CountTypes DEF Taken, Passed
  <2>6. /\ \A k \in 1 .. Len(confirmQueue) : confirmQueue'[k] = published'[Taken + k]
        /\ confirmerPc' = "receive" => Taken > 0 /\ confirming' = published'[Taken]
    BY <1>1, <1>3, <1>6, <2>3, <2>5 DEF PassedInv
  <2> QED BY <1>1, <1>4, <1>5, <1>6, <2>1, <2>2, <2>3, <2>4, <2>6 DEF PassedInv, NoneTwice
<1>7. CASE ~confirmPublish
  <2>1. publisherPc' = "range"
    BY <1>7 DEF PublisherPublishes, MovePublisher
  <2> QED BY <1>1, <1>4, <1>5, <1>7, <2>1 DEF PassedInv, NoneTwice
<1> QED BY <1>6, <1>7

\* ... passes the order on ...
LEMMA PassedPasses ==
    ASSUME Types, PassedInv, PublisherPasses
    PROVE  PassedInv'
<1>1. /\ publisherPc = "confirm" /\ publisherPc' = "range" /\ publishing \in Orders
      /\ confirmQueue \in Seq(Orders) /\ confirmQueue' = Append(confirmQueue, publishing)
      /\ UNCHANGED <<confirmPublish, published, publicationTag, callerPc, confirmerPc,
                     confirming>>
  BY DEF PublisherPasses, MovePublisher, Types, callerVars, confirmerVars, channelVars
<1>2. /\ Len(confirmQueue') = Len(confirmQueue) + 1
      /\ \A k \in 1 .. Len(confirmQueue) : confirmQueue'[k] = confirmQueue[k]
      /\ confirmQueue'[Len(confirmQueue) + 1] = publishing
  BY <1>1, AppendAt
<1>3. /\ Taken' = Taken /\ Taken \in Int /\ Len(confirmQueue) \in Nat
      /\ Taken + Len(confirmQueue) + 1 = Len(published)
  BY <1>1, <1>2, CountTypes DEF Taken, Passed
<1>4. confirmPublish
  BY <1>1 DEF PassedInv
<1>5. ASSUME NEW k \in 1 .. Len(confirmQueue')
      PROVE  confirmQueue'[k] = published[Taken + k]
  <2>1. CASE k \in 1 .. Len(confirmQueue)
    BY <1>2, <1>4, <2>1 DEF PassedInv
  <2>2. CASE k = Len(confirmQueue) + 1
    <3>1. Taken + k = Len(published) /\ confirmQueue'[k] = publishing
      BY <1>2, <1>3, <2>2
    <3>2. publishing = published[Len(published)]
      BY <1>1 DEF PassedInv
    <3> QED BY <3>1, <3>2
  <2> QED BY <1>2, <1>3, <2>1, <2>2
<1>6. /\ NoneTwice(published)'
      /\ \A i \in 1 .. Len(published') : callerPc'[published'[i]] = "wait"
  BY <1>1 DEF PassedInv, NoneTwice
<1>7. \A i \in 1 .. Len(published') : publicationTag'[published'[i]] = i
  BY <1>1, <1>4 DEF PassedInv
<1>8. /\ Taken' >= 0
      /\ confirmerPc' = "receive" => Taken' > 0 /\ confirming' = published'[Taken']
  BY <1>1, <1>3, <1>4 DEF PassedInv
<1> QED BY <1>1, <1>3, <1>4, <1>5, <1>6, <1>7, <1>8 DEF PassedInv

\* ... and the confirmer takes it.
LEMMA PassedTakes ==
    ASSUME Types, PassedInv, ConfirmerTakes
    PROVE  PassedInv'
<1>1. /\ confirmQueue \in Seq(Orders) /\ confirmQueue # <<>>
      /\ confirmQueue' = Tail(confirmQueue) /\ confirming' = Head(confirmQueue)
      /\ UNCHANGED <<confirmPublish, published, publicationTag, callerPc, publisherPc,
                     publishing>>
  BY DEF ConfirmerTakes, Types, callerVars, publisherVars, channelVars
<1>2. confirmPublish
  BY <1>1 DEF PassedInv
<1>3. /\ Len(confirmQueue) \in Nat \ {0} /\ Len(confirmQueue') = Len(confirmQueue) - 1
      /\ \A k \in 1 .. Len(confirmQueue') : confirmQueue'[k] = confirmQueue[k + 1]
      /\ confirming' = confirmQueue[1]
  BY <1>1, TailAt
<1>4. Taken' = Taken + 1 /\ Taken \in Int /\ Taken >= 0
  BY <1>1, <1>2, <1>3, CountTypes DEF Taken, Passed, PassedInv
<1>5. /\ \A k \in 1 .. Len(confirmQueue') : confirmQueue'[k] = published[Taken' + k]
      /\ confirming' = published[Taken']
  BY <1>2, <1>3, <1>4 DEF PassedInv
<1> QED BY <1>1, <1>2, <1>4, <1>5 DEF PassedInv, NoneTwice

\* Every step keeps PassedInv.
LEMMA PassedNext ==
    ASSUME Types, StagesInv, UnsentInv, PassedInv, [Next]_vars
    PROVE  PassedInv'
<1> USE DEF MoveCaller, MovePublisher, MoveConfirmer, callerVars, publisherVars,
            confirmerVars, runVars, channelVars, eventVars, relayVars, queueVars
<1>0. \A i \in 1 .. Len(published) : published[i] \in Orders
  BY DEF Types
<1>1. CASE CallerMoves
  BY <1>0, <1>1, CallersLeave, PassedKept
<1>2. CASE \E o \in Orders : CallerPushes(o)
  BY <1>0, <1>2, PassedKept DEF CallerPushes, Types
<1>3. CASE PublisherTakes \/ PublisherSkips \/ PublisherFails \/ PublisherEnds
  BY <1>3, PassedKept DEF PublisherTakes, PublisherSkips, PublisherFails, PublisherEnds
<1>4. CASE ConfirmerAnswers \/ ConfirmerSeesClosed \/ ConfirmerEnds
  BY <1>4, PassedKept DEF ConfirmerAnswers, ConfirmerSeesClosed, ConfirmerEnds
<1>6. CASE ChannelConfirms \/ Strays
  BY <1>6, PassedKept DEF ChannelConfirms, Strays, StrayConfirms, OrphanTold
<1>5. CASE Runs
  <2>1. UNCHANGED <<confirmPublish, published, publicationTag, confirmQueue, publishing,
                    confirming, callerPc>>
    BY <1>5, RunsLeave
  <2>2. /\ publisherPc' = publisherPc \/ (publisherPc = "off" /\ publisherPc' = "range")
        /\ confirmerPc' = confirmerPc \/ confirmerPc' = "range"
    BY <1>5, RunsLeave DEF StagesInv
  <2> QED BY <2>1, <2>2, PassedKept
<1> QED BY NextSteps, <1>1, <1>2, <1>3, <1>4, <1>5, <1>6, PassedPublishes, PassedPasses,
           PassedTakes DEF Publisher, Confirmer
-----------------------------------------------------------------------------
(***************************************************************************)
(* Confirmations.                                                          *)
(***************************************************************************)

\* A step that confirms nothing, and takes no confirmation.
LEMMA EventsKept ==
    ASSUME Types, EventsInv, UNCHANGED <<confirmPublish, confirmed, publishEvents, acked>>,
           \A i \in 1 .. confirmed : published'[i] = published[i],
           confirmPublish => Taken' = Taken,
           confirmerPc' = confirmerPc \/ (confirmerPc = "off" /\ confirmerPc' = "range")
    PROVE  EventsInv'
<1>1. /\ Confirmed' = Confirmed /\ Confirmed \in Int
      /\ confirmed \in Nat /\ Len(publishEvents) \in Nat
      /\ Confirmed + Len(publishEvents) = confirmed
  BY CountTypes DEF Confirmed
<1>2. \A k \in 1 .. Len(publishEvents) : published'[Confirmed + k] = published[Confirmed + k]
  BY <1>1 DEF EventsInv
<1>3. \A k \in 1 .. Len(publishEvents) :
          /\ publishEvents'[k].tag = Confirmed' + k
          /\ publishEvents'[k].ack <=> published'[Confirmed' + k] \in acked'
  BY <1>1, <1>2 DEF EventsInv
<1>4. confirmPublish' => CASE confirmerPc' = "receive" -> Taken' = Confirmed' + 1
                           [] confirmerPc' \in {"off", "range"} -> Taken' = Confirmed'
                           [] OTHER -> Taken' >= Confirmed'
  BY <1>1 DEF EventsInv
<1>5. \A o \in acked' : \E i \in 1 .. confirmed' : published'[i] = o
  BY DEF EventsInv
<1> QED BY <1>1, <1>3, <1>4, <1>5 DEF EventsInv

\* The confirmer takes an order, ...
LEMMA EventsTakes ==
    ASSUME Types, PassedInv, EventsInv, ConfirmerTakes
    PROVE  EventsInv'
<1>1. /\ confirmQueue \in Seq(Orders) /\ confirmQueue # <<>>
      /\ confirmQueue' = Tail(confirmQueue)
      /\ confirmerPc = "range" /\ confirmerPc' = "receive"
      /\ UNCHANGED <<confirmPublish, published, publisherPc, publishEvents, acked, confirmed>>
  BY DEF ConfirmerTakes, MoveConfirmer, Types, publisherVars, channelVars, eventVars, relayVars
<1>2. Len(confirmQueue) \in Nat \ {0} /\ Len(confirmQueue') = Len(confirmQueue) - 1
  BY <1>1, TailAt
<1>3. /\ Taken' = Taken + 1 /\ Confirmed' = Confirmed
      /\ confirmPublish /\ Taken = Confirmed /\ Confirmed \in Int
  BY <1>1, <1>2, CountTypes DEF Taken, Passed, Confirmed, PassedInv, EventsInv
<1> QED BY <1>1, <1>3 DEF EventsInv

\* The confirmation it takes is of the order it has in hand, ...
LEMMA MatchesOrder ==
    ASSUME Types, PassedInv, EventsInv, ConfirmerAnswers
    PROVE  /\ Head(publishEvents).ack <=> confirming \in acked
           /\ result' = [result EXCEPT ![confirming] = ResultOf(Head(publishEvents))]
           /\ confirmerPc' = "range"
           /\ UNCHANGED panicked
<1> DEFINE event == Head(publishEvents)
<1>1. /\ publishEvents \in Seq([tag : Nat, ack : BOOLEAN]) /\ publishEvents # <<>>
      /\ confirmerPc = "receive"
  BY DEF ConfirmerAnswers, Types
<1>2. event = publishEvents[1] /\ 1 \in 1 .. Len(publishEvents)
  BY <1>1, TailAt
<1>3. /\ Confirmed \in Nat
      /\ confirmPublish /\ Taken = Confirmed + 1 /\ confirming = published[Confirmed + 1]
      /\ Confirmed + 1 \in 1 .. Len(published)
  BY <1>1, CountTypes DEF PassedInv, EventsInv
<1>4. event.tag = Confirmed + 1 /\ (event.ack <=> confirming \in acked)
  BY <1>2, <1>3 DEF EventsInv
<1>5. event.tag = publicationTag[confirming]
  BY <1>3, <1>4 DEF PassedInv
<1> QED BY <1>4, <1>5 DEF ConfirmerAnswers

\* ... it is taken from those that wait, ...
LEMMA EventsAnswers ==
    ASSUME Types, PassedInv, EventsInv, ConfirmerAnswers
    PROVE  EventsInv'
<1>1. /\ publishEvents \in Seq([tag : Nat, ack : BOOLEAN]) /\ publishEvents # <<>>
      /\ publishEvents' = Tail(publishEvents)
      /\ confirmerPc = "receive" /\ confirmerPc' = "range"
      /\ UNCHANGED <<confirmPublish, published, publisherPc, confirmQueue, acked, confirmed>>
  BY MatchesOrder DEF ConfirmerAnswers, Types, queueVars, publisherVars, channelVars
<1>2. /\ Len(publishEvents) \in Nat \ {0} /\ Len(publishEvents') = Len(publishEvents) - 1
      /\ \A k \in 1 .. Len(publishEvents') :
             publishEvents'[k] = publishEvents[k + 1] /\ k + 1 \in 1 .. Len(publishEvents)
  BY <1>1, TailAt
<1>3. /\ Taken' = Taken /\ Confirmed' = Confirmed + 1
      /\ confirmPublish /\ Taken = Confirmed + 1 /\ Confirmed \in Nat
  BY <1>1, <1>2, CountTypes DEF Taken, Passed, Confirmed, PassedInv, EventsInv
<1>4. \A k \in 1 .. Len(publishEvents') :
          /\ publishEvents'[k].tag = Confirmed' + k
          /\ publishEvents'[k].ack <=> published[Confirmed' + k] \in acked
  <2> SUFFICES ASSUME NEW k \in 1 .. Len(publishEvents')
               PROVE  /\ publishEvents'[k].tag = Confirmed' + k
                      /\ publishEvents'[k].ack <=> published[Confirmed' + k] \in acked
    OBVIOUS
  <2>1. k \in Nat /\ Confirmed + (k + 1) = Confirmed' + k
    BY <1>2, <1>3
  <2> QED BY <1>2, <2>1 DEF EventsInv
<1> QED BY <1>1, <1>3, <1>4 DEF EventsInv

\* ... and the Channel brings one more.
LEMMA EventsConfirms ==
    ASSUME Types, StagesInv, PassedInv, EventsInv, ChannelConfirms
    PROVE  EventsInv'
<1>1. PICK ack \in BOOLEAN :
          LET event == [tag |-> confirmed + 1, ack |-> ack]
          IN  /\ event \in [tag : Nat, ack : BOOLEAN]
              /\ confirmed + 1 \in 1 .. Len(published)
              /\ published[confirmed + 1] \in Orders
              /\ publishEvents' = Append(publishEvents, event)
              /\ acked' = IF ack THEN acked \cup {published[confirmed + 1]} ELSE acked
  BY ConfirmsNext
<1> DEFINE event == [tag |-> confirmed + 1, ack |-> ack]
           next  == published[confirmed + 1]
<1>2. /\ confirmPublish /\ confirmed' = confirmed + 1
      /\ UNCHANGED <<confirmPublish, published, publisherPc, confirmQueue, confirmerPc>>
  BY DEF ChannelConfirms, StagesInv, queueVars, publisherVars, confirmerVars
<1>3. /\ Len(publishEvents') = Len(publishEvents) + 1
      /\ \A k \in 1 .. Len(publishEvents) : publishEvents'[k] = publishEvents[k]
      /\ publishEvents'[Len(publishEvents) + 1] = event
  <2>1. publishEvents \in Seq([tag : Nat, ack : BOOLEAN])
    BY DEF Types
  <2> QED BY <1>1, <2>1, AppendAt
<1>4. /\ Taken' = Taken /\ Confirmed' = Confirmed /\ Confirmed \in Nat
      /\ confirmed = Confirmed + Len(publishEvents) /\ confirmed \in Nat
      /\ Len(publishEvents) \in Nat
  BY <1>2, <1>3, CountTypes DEF Taken, Passed, Confirmed, EventsInv
<1>5. \A i \in 1 .. confirmed : published[i] # next
  BY <1>1, <1>4 DEF PassedInv, NoneTwice
<1>6. next \notin acked
  BY <1>5 DEF EventsInv
<1>7. ASSUME NEW k \in 1 .. Len(publishEvents)
      PROVE  /\ publishEvents'[k].tag = Confirmed + k
             /\ publishEvents'[k].ack <=> published[Confirmed + k] \in acked'
  <2>1. Confirmed + k \in 1 .. confirmed
    BY <1>4
  <2>2. published[Confirmed + k] \in acked' <=> published[Confirmed + k] \in acked
    BY <1>1, <1>5, <2>1
  <2> QED BY <1>3, <2>2 DEF EventsInv
<1>8. /\ event.tag = Confirmed + (Len(publishEvents) + 1)
      /\ event.ack <=> published[Confirmed + (Len(publishEvents) + 1)] \in acked'
  <2>1. Confirmed + (Len(publishEvents) + 1) = confirmed + 1
    BY <1>4
  <2> QED BY <1>1, <1>6, <2>1
<1>9. \A k \in 1 .. Len(publishEvents') :
          /\ publishEvents'[k].tag = Confirmed' + k
          /\ publishEvents'[k].ack <=> published'[Confirmed' + k] \in acked'
  <2> HIDE DEF event
  <2> SUFFICES ASSUME NEW k \in 1 .. Len(publishEvents')
               PROVE  /\ publishEvents'[k].tag = Confirmed + k
                      /\ publishEvents'[k].ack <=> published[Confirmed + k] \in acked'
    BY <1>2, <1>4
  <2>1. CASE k \in 1 .. Len(publishEvents)
    BY <2>1, <1>7
  <2>2. CASE k = Len(publishEvents) + 1
    BY <2>2, <1>3, <1>8
  <2> QED BY <1>3, <1>4, <2>1, <2>2
<1>10. \A o \in acked' : \E i \in 1 .. confirmed' : published'[i] = o
  <2>1. \A o \in acked' : o \in acked \/ o = next
    BY <1>1
  <2>2. confirmed + 1 \in 1 .. confirmed' /\ \A i \in 1 .. confirmed : i \in 1 .. confirmed'
    BY <1>2, <1>4
  <2> QED BY <1>2, <2>1, <2>2 DEF EventsInv
<1> QED BY <1>2, <1>4, <1>9, <1>10 DEF EventsInv

\* Every step keeps EventsInv until the confirmation relay is cancelled.
LEMMA EventsNext ==
    ASSUME Types, StagesInv, PassedInv, EventsInv, AnsweredInv, ~Detached, [Next]_vars
    PROVE  EventsInv'
<1> USE DEF MovePublisher, MoveConfirmer, callerVars, publisherVars, confirmerVars,
            channelVars, eventVars, relayVars, queueVars
<1>1. CASE CallerMoves \/ \E o \in Orders : CallerPushes(o)
  <2>1. UNCHANGED <<confirmPublish, confirmed, publishEvents, acked, published, publisherPc,
                    confirmQueue, confirmerPc>>
    BY <1>1, CallersLeave DEF CallerPushes
  <2> QED BY <2>1, EventsKept DEF Taken, Passed
<1>2. CASE PublisherTakes \/ PublisherSkips \/ PublisherFails \/ PublisherEnds
  <2>1. /\ UNCHANGED <<confirmPublish, confirmed, publishEvents, acked, published,
                       confirmQueue, confirmerPc>>
        /\ publisherPc # "confirm" /\ publisherPc' # "confirm"
    BY <1>2 DEF PublisherTakes, PublisherSkips, PublisherFails, PublisherEnds
  <2> QED BY <2>1, EventsKept DEF Taken, Passed
<1>3. CASE PublisherPublishes
  <2>1. /\ UNCHANGED <<confirmPublish, confirmed, publishEvents, acked, confirmQueue,
                       confirmerPc>>
        /\ published \in Seq(Orders) /\ publishing \in Orders
        /\ published' = Append(published, publishing)
        /\ publisherPc = "publish" /\ confirmPublish => publisherPc' = "confirm"
    BY <1>3 DEF PublisherPublishes, Types
  <2>2. publisherPc = "publish"
    BY <1>3 DEF PublisherPublishes
  <2>3. confirmPublish => Taken' = Taken
    BY <2>1, <2>2, AppendAt DEF Taken, Passed
  <2>4. \A i \in 1 .. confirmed : published'[i] = published[i]
    BY <2>1, AppendAt, CountTypes
  <2> QED BY <2>1, <2>3, <2>4, EventsKept
<1>4. CASE PublisherPasses
  <2>1. /\ UNCHANGED <<confirmPublish, confirmed, publishEvents, acked, published,
                       confirmerPc>>
        /\ confirmQueue \in Seq(Orders) /\ publishing \in Orders
        /\ confirmQueue' = Append(confirmQueue, publishing)
        /\ publisherPc = "confirm" /\ publisherPc' = "range"
    BY <1>4 DEF PublisherPasses, Types
  <2>2. Taken' = Taken
    BY <2>1, AppendAt, CountTypes DEF Taken, Passed
  <2> QED BY <2>1, <2>2, EventsKept
<1>5. CASE ConfirmerSeesClosed \/ ConfirmerEnds
  <2>1. /\ UNCHANGED <<confirmPublish, confirmed, publishEvents, acked, published,
                       publisherPc, confirmQueue>>
        /\ confirmerPc \in {"receive", "range"} /\ confirmerPc' = "done"
    BY <1>5 DEF ConfirmerSeesClosed, ConfirmerEnds
  <2>2. Taken' = Taken /\ Confirmed' = Confirmed /\ Confirmed \in Int
    BY <2>1, CountTypes DEF Taken, Passed, Confirmed
  <2>3. confirmPublish => Taken >= Confirmed
    BY <2>1, <2>2 DEF EventsInv
  <2> QED BY <2>1, <2>2, <2>3 DEF EventsInv
<1>6. CASE Runs
  <2>1. UNCHANGED <<confirmPublish, confirmed, publishEvents, acked, published, confirmQueue>>
    BY <1>6, RunsLeave
  <2>2. /\ publisherPc' = "confirm" <=> publisherPc = "confirm"
        /\ confirmerPc' = confirmerPc \/ (confirmerPc = "off" /\ confirmerPc' = "range")
    BY <1>6, RunsLeave DEF StagesInv
  <2> QED BY <2>1, <2>2, EventsKept DEF Taken, Passed
<1>7. ~Strays
  BY DEF Strays, StrayConfirms, OrphanTold
<1>8. CASE ConfirmerAnswers
  BY <1>8, EventsAnswers, MatchesOrder
<1> QED BY NextSteps, <1>1, <1>2, <1>3, <1>4, <1>5, <1>6, <1>7, <1>8, EventsTakes,
           EventsConfirms DEF Publisher, Confirmer
-----------------------------------------------------------------------------
(***************************************************************************)
(* Orders that were queued.                                                *)
(***************************************************************************)

\* A step that takes no answer back, forgets no order, and gives the confirmer none.
LEMMA GivenKept ==
    ASSUME Types, GivenInv, UNCHANGED <<confirmPublish, published>>,
           \A o \in Orders : result[o] # "none" => result'[o] # "none",
           \A o \in Orders : callerPc'[o] # "wait" =>
               callerPc[o] # "wait" /\ result'[o] = result[o],
           \A o \in Orders : callerPc'[o] = "wait" =>
               callerPc[o] = "wait" \/ Unsent(o)',
           \A o \in Orders : Unsent(o) => Unsent(o)' \/ orderDone'[o] \/ result'[o] # "none",
           \A o \in Orders : orderDone[o] => orderDone'[o],
           confirmPublish => Taken' = Taken,
           confirmerPc \in {"receive", "panic"} => confirmerPc' = confirmerPc
    PROVE  GivenInv'
<1>1. \A o \in Orders : IsPublished(o)' = IsPublished(o)
  BY DEF IsPublished
<1>2. confirmPublish => \A i \in 1 .. Taken : published[i] \in Orders
  BY CountTypes DEF Types
<1>3. \A o \in Orders : callerPc'[o] # "wait" => result'[o] = "none"
  BY DEF GivenInv
<1>4. \A o \in Orders : callerPc'[o] = "wait" =>
          Unsent(o)' \/ IsPublished(o)' \/ result'[o] # "none" \/ orderDone'[o]
  BY <1>1 DEF GivenInv
<1>5. confirmPublish' => \A i \in 1 .. Taken' :
          \/ result'[published'[i]] # "none"
          \/ confirmerPc' = "panic"
          \/ confirmerPc' = "receive" /\ i = Taken'
  BY <1>2 DEF GivenInv
<1> QED BY <1>3, <1>4, <1>5 DEF GivenInv

\* The publisher publishes, ...
LEMMA GivenPublishes ==
    ASSUME Types, UnsentInv, GivenInv, PublisherPublishes
    PROVE  GivenInv'
<1>1. /\ publisherPc = "publish" /\ publishing \in Orders
      /\ published \in Seq(Orders) /\ published' = Append(published, publishing)
      /\ confirmPublish => publisherPc' = "confirm"
      /\ UNCHANGED <<confirmPublish, confirmQueue, result, callerPc, publishQueue, orderDone,
                     confirmerPc>>
  BY DEF PublisherPublishes, MovePublisher, Types, callerVars, queueVars, confirmerVars
<1>2. \A o \in Orders : Unsent(o) => Unsent(o)' \/ o = publishing
  BY <1>1 DEF Unsent, InQueue
<1>3. \A o \in Orders : IsPublished(o)' <=> IsPublished(o) \/ o = publishing
  BY <1>1, AppendAt DEF IsPublished
<1>4. confirmPublish => Taken' = Taken /\ \A i \in 1 .. Taken : published'[i] = published[i]
  BY <1>1, AppendAt, CountTypes DEF Taken, Passed
<1>5. \A o \in Orders : callerPc'[o] = "wait" =>
          Unsent(o)' \/ IsPublished(o)' \/ result'[o] # "none" \/ orderDone'[o]
  BY <1>1, <1>2, <1>3 DEF GivenInv
<1> QED BY <1>1, <1>4, <1>5 DEF GivenInv

\* ... the confirmer takes an order, ...
LEMMA GivenTakes ==
    ASSUME Types, PassedInv, GivenInv, ConfirmerTakes
    PROVE  GivenInv'
<1>1. /\ confirmQueue \in Seq(Orders) /\ confirmQueue # <<>>
      /\ confirmQueue' = Tail(confirmQueue)
      /\ confirmerPc = "range" /\ confirmerPc' = "receive"
      /\ UNCHANGED <<confirmPublish, published, publisherPc, publishing, result, callerPc,
                     publishQueue, orderDone>>
  BY DEF ConfirmerTakes, MoveConfirmer, Types, callerVars, publisherVars, channelVars
<1>2. Len(confirmQueue') = Len(confirmQueue) - 1
  BY <1>1, TailAt
<1>3. Taken' = Taken + 1 /\ Taken \in Int
  BY <1>1, <1>2, CountTypes DEF Taken, Passed
<1>4. \A o \in Orders : Unsent(o)' = Unsent(o) /\ IsPublished(o)' = IsPublished(o)
  BY <1>1 DEF Unsent, InQueue, IsPublished
<1>5. ASSUME confirmPublish, NEW i \in 1 .. Taken'
      PROVE  result[published[i]] # "none" \/ i = Taken'
  <2>1. CASE i \in 1 .. Taken
    BY <1>1, <1>5, <2>1 DEF GivenInv
  <2> QED BY <1>3, <2>1
<1> QED BY <1>1, <1>4, <1>5 DEF GivenInv

\* ... and answers it, or dies of a confirmation that is not of it.
LEMMA GivenAnswers ==
    ASSUME Types, PassedInv, GivenInv, ConfirmerAnswers \/ ConfirmerSeesClosed
    PROVE  GivenInv'
<1>1. /\ confirmerPc = "receive" /\ confirming \in Orders
      /\ UNCHANGED <<confirmPublish, published, publisherPc, publishing, callerPc,
                     publishQueue, confirmQueue, orderDone>>
  BY DEF ConfirmerAnswers, ConfirmerSeesClosed, MoveConfirmer, Types, callerVars, queueVars,
         publisherVars, channelVars
<1>2. \/ confirmerPc' = "panic" /\ result' = result
      \/ \E answer \in Answers \ {"none"} : result' = [result EXCEPT ![confirming] = answer]
  <2>1. CASE ConfirmerAnswers
    BY <2>1 DEF ConfirmerAnswers, ResultOf, Answers
  <2>2. CASE ConfirmerSeesClosed
    BY <2>2 DEF ConfirmerSeesClosed, Answers
  <2> QED BY <2>1, <2>2
<1>3. confirmPublish /\ confirming = published[Taken] /\ IsPublished(confirming)
  BY <1>1, ConfirmingIsPublished DEF PassedInv
<1>4. /\ Taken' = Taken
      /\ \A o \in Orders : Unsent(o)' = Unsent(o) /\ IsPublished(o)' = IsPublished(o)
  BY <1>1 DEF Taken, Passed, Unsent, InQueue, IsPublished
<1>5. callerPc[confirming] = "wait"
  BY <1>3 DEF PassedInv, IsPublished
<1>6. /\ \A o \in Orders : result[o] # "none" => result'[o] # "none"
      /\ \A o \in Orders : o # confirming => result'[o] = result[o]
      /\ confirmerPc' = "panic" \/ result'[confirming] # "none"
  BY <1>1, <1>2 DEF Types
<1>7. \A i \in 1 .. Taken : published[i] \in Orders
  BY CountTypes DEF Types
<1>8. \A i \in 1 .. Taken : result'[published[i]] # "none" \/ confirmerPc' = "panic"
  BY <1>1, <1>3, <1>6, <1>7 DEF GivenInv
<1> QED BY <1>1, <1>4, <1>5, <1>6, <1>8 DEF GivenInv

\* Every step keeps GivenInv.
LEMMA GivenNext ==
    ASSUME Types, StagesInv, UnsentInv, PassedInv, GivenInv, [Next]_vars
    PROVE  GivenInv'
<1> USE DEF MovePublisher, MoveConfirmer, callerVars, publisherVars, confirmerVars,
            channelVars, eventVars, relayVars, queueVars
<1>1. CASE CallerMoves
  <2>1. /\ \A o \in Orders : Unsent(o)' = Unsent(o)
        /\ Taken' = Taken
    BY <1>1, CallersLeave DEF Unsent, InQueue, Taken, Passed
  <2> QED BY <1>1, <2>1, CallersLeave, GivenKept
<1>2. CASE \E o \in Orders : CallerPushes(o)
  <2> PICK o \in Orders : CallerPushes(o)
    BY <1>2
  <2>1. /\ publishQueue \in Seq(Orders) /\ publishQueue' = Append(publishQueue, o)
        /\ \A q \in Orders : q # o => callerPc'[q] = callerPc[q]
        /\ callerPc'[o] = "wait"
        /\ UNCHANGED <<confirmPublish, result, published, publisherPc, publishing, orderDone,
                       confirmQueue, confirmerPc>>
    BY DEF CallerPushes, MoveCaller, StagesInv, NoneAboutToPush, Types
  <2>2. InQueue(o)' /\ \A q \in Orders : InQueue(q) => InQueue(q)'
    BY <2>1, AppendAt DEF InQueue
  <2>3. Unsent(o)' /\ (\A q \in Orders : Unsent(q) => Unsent(q)') /\ Taken' = Taken
    BY <2>1, <2>2 DEF Unsent, Taken, Passed
  <2> HIDE DEF CallerPushes
  <2>4. \A q \in Orders : /\ callerPc'[q] = "wait" => callerPc[q] = "wait" \/ Unsent(q)'
                          /\ callerPc'[q] # "wait" => callerPc[q] # "wait"
    BY <2>1, <2>3
  <2> QED BY <2>1, <2>3, <2>4, GivenKept
<1>3. CASE PublisherTakes \/ PublisherSkips
  <2>1. /\ publishQueue \in Seq(Orders) /\ publishQueue # <<>>
        /\ publishQueue' = Tail(publishQueue) /\ publisherPc = "range"
        /\ \/ orderDone[Head(publishQueue)] /\ publisherPc' = "range"
           \/ publisherPc' = "publish" /\ publishing' = Head(publishQueue)
        /\ UNCHANGED <<confirmPublish, result, published, callerPc, orderDone, confirmQueue,
                       confirmerPc>>
    BY <1>3 DEF PublisherTakes, PublisherSkips, Types
  <2>2. \A o \in Orders : InQueue(o) => InQueue(o)' \/ o = Head(publishQueue)
    <3> SUFFICES ASSUME NEW o \in Orders, NEW i \in 1 .. Len(publishQueue),
                        publishQueue[i] = o, o # Head(publishQueue)
                 PROVE  InQueue(o)'
      BY DEF InQueue
    <3>1. i - 1 \in 1 .. Len(publishQueue') /\ publishQueue'[i - 1] = o
      BY <2>1, TailAt
    <3> QED BY <3>1 DEF InQueue
  <2>3. \A o \in Orders : Unsent(o) => Unsent(o)' \/ orderDone'[o]
    BY <2>1, <2>2 DEF Unsent
  <2>4. Taken' = Taken
    BY <2>1 DEF Taken, Passed
  <2> QED BY <2>1, <2>3, <2>4, GivenKept
<1>4. CASE PublisherFails
  <2>1. /\ publisherPc = "publish" /\ publisherPc' = "range" /\ publishing \in Orders
        /\ result' = [result EXCEPT ![publishing] = "publishError"]
        /\ UNCHANGED <<confirmPublish, published, callerPc, publishQueue, orderDone,
                       confirmQueue, confirmerPc>>
    BY <1>4 DEF PublisherFails, Types
  <2>2. callerPc[publishing] = "wait"
    BY <2>1 DEF UnsentInv, Unsent
  <2>3. \A o \in Orders : Unsent(o) => Unsent(o)' \/ result'[o] # "none"
    BY <2>1 DEF Unsent, InQueue, Types
  <2>4. /\ \A o \in Orders : result[o] # "none" => result'[o] # "none"
        /\ \A o \in Orders : callerPc'[o] # "wait" => result'[o] = result[o]
        /\ Taken' = Taken
    BY <2>1, <2>2 DEF Types, Taken, Passed
  <2> QED BY <2>1, <2>3, <2>4, GivenKept
<1>5. CASE PublisherPasses
  <2>1. /\ UNCHANGED <<confirmPublish, published, confirmerPc, result, callerPc, publishQueue,
                       orderDone>>
        /\ confirmQueue \in Seq(Orders) /\ publishing \in Orders
        /\ confirmQueue' = Append(confirmQueue, publishing)
        /\ publisherPc = "confirm" /\ publisherPc' = "range"
    BY <1>5 DEF PublisherPasses, Types
  <2>2. Taken' = Taken
    BY <2>1, AppendAt, CountTypes DEF Taken, Passed
  <2>3. \A o \in Orders : Unsent(o)' = Unsent(o)
    BY <2>1 DEF Unsent, InQueue
  <2> QED BY <2>1, <2>2, <2>3, GivenKept
<1>6. CASE PublisherEnds \/ ConfirmerEnds \/ ChannelConfirms \/ Strays
  <2>1. /\ UNCHANGED <<confirmPublish, result, published, callerPc, orderDone, publishQueue,
                       confirmQueue>>
        /\ publisherPc' = publisherPc \/ (publisherPc = "range" /\ publisherPc' = "done")
        /\ publishing' = publishing
        /\ confirmerPc' = confirmerPc \/ confirmerPc = "range"
    BY <1>6 DEF PublisherEnds, ConfirmerEnds, ChannelConfirms, Strays, StrayConfirms, OrphanTold
  <2>2. (\A o \in Orders : Unsent(o)' = Unsent(o)) /\ Taken' = Taken
    BY <2>1 DEF Unsent, InQueue, Taken, Passed
  <2> QED BY <2>1, <2>2, GivenKept
<1>7. CASE Runs
  <2>1. /\ UNCHANGED <<confirmPublish, result, published, callerPc, orderDone, publishQueue,
                       confirmQueue, publishing>>
        /\ publisherPc' = publisherPc \/ (publisherPc = "off" /\ publisherPc' = "range")
        /\ confirmerPc' = confirmerPc \/ confirmerPc = "off"
    BY <1>7, RunsLeave DEF StagesInv
  <2>2. (\A o \in Orders : Unsent(o)' = Unsent(o)) /\ Taken' = Taken
    BY <2>1 DEF Unsent, InQueue, Taken, Passed
  <2> QED BY <2>1, <2>2, GivenKept
<1> QED BY NextSteps, <1>1, <1>2, <1>3, <1>4, <1>5, <1>6, <1>7, GivenPublishes, GivenTakes,
           GivenAnswers DEF Publisher, Confirmer
-----------------------------------------------------------------------------
(***************************************************************************)
(* Answers.                                                                *)
(***************************************************************************)

\* A step that answers, publishes and confirms nothing.
LEMMA AnsweredKept ==
    ASSUME AnsweredInv, UNCHANGED <<result, acked, confirmed, publishEvents, published, panicked>>
    PROVE  AnsweredInv'
<1>1. Confirmed' = Confirmed /\ \A o \in Orders : IsPublished(o)' = IsPublished(o)
  BY DEF Confirmed, IsPublished
<1>2. ASSUME NEW o \in Orders PROVE AnswerOf(o)'
  BY <1>1 DEF AnsweredInv, AnswerOf
<1> QED BY <1>1, <1>2 DEF AnsweredInv

\* The publisher answers that the Channel does not take the message, ...
LEMMA AnsweredFails ==
    ASSUME Types, UnsentInv, AnsweredInv, PublisherFails
    PROVE  AnsweredInv'
<1>1. /\ publisherPc = "publish" /\ publishing \in Orders
      /\ result' = [result EXCEPT ![publishing] = "publishError"]
      /\ UNCHANGED <<acked, confirmed, publishEvents, published, panicked>>
  BY DEF PublisherFails, MovePublisher, Types, channelVars, eventVars
<1>2. ~IsPublished(publishing)
  BY <1>1 DEF UnsentInv, Unsent
<1>3. Confirmed' = Confirmed /\ \A o \in Orders : IsPublished(o)' = IsPublished(o)
  BY <1>1 DEF Confirmed, IsPublished
<1>4. ASSUME NEW o \in Orders PROVE AnswerOf(o)'
  <2>1. AnswerOf(o)
    BY DEF AnsweredInv
  <2>2. CASE o = publishing
    BY <1>1, <1>2, <1>3, <2>2 DEF AnswerOf, Types
  <2>3. CASE o # publishing
    BY <1>1, <1>3, <2>1, <2>3 DEF AnswerOf, Types
  <2> QED BY <2>2, <2>3
<1> QED BY <1>1, <1>4 DEF AnsweredInv

\* ... or publishes it.
LEMMA AnsweredPublishes ==
    ASSUME Types, UnsentInv, AnsweredInv, PublisherPublishes
    PROVE  AnsweredInv'
<1>1. /\ publisherPc = "publish" /\ publishing \in Orders
      /\ published \in Seq(Orders) /\ published' = Append(published, publishing)
      /\ UNCHANGED <<result, acked, confirmed, publishEvents, panicked>>
  BY DEF PublisherPublishes, MovePublisher, Types, eventVars
<1>2. result[publishing] = "none"
  BY <1>1 DEF UnsentInv, Unsent
<1>3. \A o \in Orders : IsPublished(o)' <=> IsPublished(o) \/ o = publishing
  BY <1>1, AppendAt DEF IsPublished
<1>4. /\ Confirmed' = Confirmed
      /\ \A i \in 1 .. Confirmed : published'[i] = published[i]
  BY <1>1, AppendAt, CountTypes DEF Confirmed
<1>5. ASSUME NEW o \in Orders PROVE AnswerOf(o)'
  <2>1. AnswerOf(o)
    BY DEF AnsweredInv
  <2> QED BY <1>1, <1>2, <1>3, <1>4, <2>1 DEF AnswerOf
<1> QED BY <1>1, <1>5 DEF AnsweredInv

\* The confirmer answers what the broker did, ...
LEMMA AnsweredAnswers ==
    ASSUME Types, PassedInv, EventsInv, AnsweredInv, ConfirmerAnswers
    PROVE  AnsweredInv'
<1>1. /\ publishEvents \in Seq([tag : Nat, ack : BOOLEAN]) /\ publishEvents # <<>>
      /\ publishEvents' = Tail(publishEvents)
      /\ confirmerPc = "receive" /\ confirming \in Orders
      /\ UNCHANGED <<acked, confirmed, published>>
  BY DEF ConfirmerAnswers, Types, channelVars
<1>2. Len(publishEvents) \in Nat \ {0} /\ Len(publishEvents') = Len(publishEvents) - 1
  BY <1>1, TailAt
<1>3. /\ Confirmed' = Confirmed + 1 /\ Confirmed \in Nat
      /\ confirming = published[Confirmed + 1]
  BY <1>1, <1>2, CountTypes DEF Confirmed, PassedInv, EventsInv
<1>4. /\ result' = [result EXCEPT ![confirming] = IF confirming \in acked THEN "ok" ELSE "nack"]
      /\ UNCHANGED panicked
  BY MatchesOrder DEF ResultOf
<1>5. \A o \in Orders : IsPublished(o)' = IsPublished(o)
  BY <1>1 DEF IsPublished
<1>6. ASSUME NEW o \in Orders PROVE AnswerOf(o)'
  <2>1. AnswerOf(o)
    BY DEF AnsweredInv
  <2>2. CASE o # confirming
    <3>1. result'[o] = result[o]
      BY <1>4, <2>2 DEF Types
    <3>2. \A i \in 1 .. Confirmed : i \in 1 .. Confirmed'
      BY <1>3
    <3> QED BY <1>1, <1>5, <2>1, <3>1, <3>2 DEF AnswerOf
  <2>3. CASE o = confirming
    <3>1. result'[o] = IF confirming \in acked THEN "ok" ELSE "nack"
      BY <1>4, <2>3 DEF Types
    <3>2. Confirmed + 1 \in 1 .. Confirmed'
      BY <1>3
    <3> QED BY <1>1, <1>3, <2>3, <3>1, <3>2 DEF AnswerOf
  <2> QED BY <2>2, <2>3
<1> QED BY <1>4, <1>6 DEF AnsweredInv

\* ... or that the confirmations are over.
LEMMA AnsweredSeesClosed ==
    ASSUME Types, AnsweredInv, ConfirmerSeesClosed
    PROVE  AnsweredInv'
<1>1. /\ result' = [result EXCEPT ![confirming] = "closed"]
      /\ UNCHANGED <<acked, confirmed, publishEvents, published, panicked>>
  BY DEF ConfirmerSeesClosed, channelVars, eventVars
<1>2. Confirmed' = Confirmed /\ \A o \in Orders : IsPublished(o)' = IsPublished(o)
  BY <1>1 DEF Confirmed, IsPublished
<1>3. ASSUME NEW o \in Orders PROVE AnswerOf(o)'
  <2>1. AnswerOf(o) /\ (result'[o] = result[o] \/ result'[o] = "closed")
    BY <1>1 DEF AnsweredInv, Types
  <2> QED BY <1>1, <1>2, <2>1 DEF AnswerOf
<1> QED BY <1>1, <1>3 DEF AnsweredInv

\* What is acknowledged next was not answered.
LEMMA AnsweredConfirms ==
    ASSUME Types, PassedInv, AnsweredInv, ChannelConfirms
    PROVE  AnsweredInv'
<1> DEFINE next == published[confirmed + 1]
<1>1. UNCHANGED <<result, published, panicked>> /\ confirmed' = confirmed + 1
  BY DEF ChannelConfirms
<1>2. /\ confirmed + 1 \in 1 .. Len(published)
      /\ Len(publishEvents') = Len(publishEvents) + 1
      /\ acked \subseteq acked' /\ acked' \subseteq acked \cup {next}
  <2>1. publishEvents \in Seq([tag : Nat, ack : BOOLEAN])
    BY DEF Types
  <2>2. PICK ack \in BOOLEAN :
            LET event == [tag |-> confirmed + 1, ack |-> ack]
            IN  /\ event \in [tag : Nat, ack : BOOLEAN]
                /\ confirmed + 1 \in 1 .. Len(published)
                /\ published[confirmed + 1] \in Orders
                /\ publishEvents' = Append(publishEvents, event)
                /\ acked' = IF ack THEN acked \cup {published[confirmed + 1]} ELSE acked
    BY ConfirmsNext
  <2>3. Len(publishEvents') = Len(publishEvents) + 1
    BY <2>1, <2>2, AppendAt
  <2> QED BY <2>2, <2>3
<1>3. /\ Confirmed' = Confirmed
      /\ \A o \in Orders : IsPublished(o)' = IsPublished(o)
  BY <1>1, <1>2, CountTypes DEF Confirmed, IsPublished
<1>4. \A i \in 1 .. Confirmed : published[i] # next
  BY <1>2, CountTypes DEF PassedInv, NoneTwice
<1>5. ASSUME NEW o \in Orders PROVE AnswerOf(o)'
  <2>1. AnswerOf(o)
    BY DEF AnsweredInv
  <2> QED BY <1>1, <1>2, <1>3, <1>4, <2>1 DEF AnswerOf
<1> QED BY <1>1, <1>5 DEF AnsweredInv

\* Every step keeps AnsweredInv until the confirmation relay is cancelled.
LEMMA AnsweredNext ==
    ASSUME Types, StagesInv, UnsentInv, PassedInv, EventsInv, AnsweredInv, ~Detached, [Next]_vars
    PROVE  AnsweredInv'
<1> USE DEF channelVars, eventVars
<1>1. CASE CallerMoves
  BY <1>1, CallersLeave, AnsweredKept
<1>2. CASE \E o \in Orders : CallerPushes(o)
  <2> PICK o \in Orders : CallerPushes(o)
    BY <1>2
  <2>1. ~publishQueueClosed
    BY DEF CallerPushes, MoveCaller, StagesInv, NoneAboutToPush
  <2>2. UNCHANGED <<result, acked, confirmed, publishEvents, published, panicked>>
    BY <2>1 DEF CallerPushes
  <2> QED BY <2>2, AnsweredKept
<1>3. CASE PublisherTakes \/ PublisherSkips \/ PublisherPasses \/ PublisherEnds
  BY <1>3, AnsweredKept DEF PublisherTakes, PublisherSkips, PublisherPasses, PublisherEnds
<1>4. CASE ConfirmerTakes \/ ConfirmerEnds
  BY <1>4, AnsweredKept DEF ConfirmerTakes, ConfirmerEnds
<1>5. CASE Runs
  BY <1>5, RunsLeave, AnsweredKept
<1>6. ~Strays
  BY DEF Strays, StrayConfirms, OrphanTold
<1> QED BY NextSteps, <1>1, <1>2, <1>3, <1>4, <1>5, <1>6, AnsweredFails, AnsweredPublishes,
           AnsweredAnswers, AnsweredSeesClosed, AnsweredConfirms DEF Publisher, Confirmer

-----------------------------------------------------------------------------
(***************************************************************************)
(* The theorems.                                                           *)
(***************************************************************************)

\* Inv holds at first.
LEMMA InvInit == Init => Types /\ Inv
<1> SUFFICES ASSUME Init PROVE Inv
  BY TypesInit
<1>1. /\ Len(publishQueue) = 0 /\ Len(confirmQueue) = 0 /\ Len(published) = 0
      /\ Len(publishEvents) = 0 /\ confirmed = 0
  BY DEF Init
<1>7. Passed = 0 /\ Taken = 0 /\ Confirmed = 0
  <2>1. publisherPc = "off"
    BY DEF Init
  <2> QED BY <1>1, <2>1 DEF Passed, Taken, Confirmed
<1>2. StagesInv
  BY DEF Init, StagesInv, NoneAboutToPush, Detached
<1>3. UnsentInv
  BY <1>1 DEF Init, UnsentInv, NoneTwice, Unsent, InQueue
<1>4. PassedInv
  BY <1>1, <1>7 DEF Init, PassedInv, NoneTwice
<1>5. EventsInv
  BY <1>1, <1>7 DEF Init, EventsInv
<1>6. AnsweredInv
  BY <1>1, <1>7 DEF Init, AnsweredInv, AnswerOf
<1>8. GivenInv
  BY <1>7 DEF Init, GivenInv
<1> QED BY <1>2, <1>3, <1>4, <1>5, <1>6, <1>8 DEF Inv

\* Inv holds in every reachable state.
LEMMA InvCorrect == Spec => [](Types /\ Inv)
<1>1. Types /\ Inv /\ [Next]_vars => Types' /\ Inv'
  BY TypesNext, StagesNext, UnsentNext, PassedNext, GivenNext, EventsNext, AnsweredNext,
     DetachedStays DEF Inv
<1> QED BY InvInit, <1>1, PTL DEF Spec

\* A bounded queue without repetitions is of the type TypeOK names.
LEMMA QueueIsTyped ==
    ASSUME NEW q \in Seq(Orders), Len(q) <= QueueCapacity, NoneTwice(q)
    PROVE  q \in QueueType
<1>1. q \in [1 .. Len(q) -> Orders] /\ Len(q) \in 0 .. QueueCapacity
  BY ConstantsAssumption
<1>2. q \in UNION {[1 .. n -> Orders] : n \in 0 .. QueueCapacity}
  BY <1>1
<1>3. DOMAIN q = 1 .. Len(q)
  OBVIOUS
<1> QED BY <1>2, <1>3 DEF QueueType, NoneTwice

\* Every variable keeps its type, no order is in a queue twice, and no caller sends on the
\* queue once it is closed (QueueForPublication, Run).
THEOREM ProducerTypeCorrect == Spec => []TypeOK
<1>1. Types /\ Inv => TypeOK
  <2> SUFFICES ASSUME Types, Inv PROVE TypeOK
    OBVIOUS
  <2>1. publishQueue \in QueueType
    BY QueueIsTyped DEF Types, Inv, UnsentInv
  <2>2. NoneTwice(confirmQueue)
    <3>1. CASE ~confirmPublish
      BY <3>1 DEF Inv, PassedInv, NoneTwice
    <3>2. CASE confirmPublish
      <4>1. /\ Taken \in Nat /\ Taken + Len(confirmQueue) <= Len(published)
            /\ Len(confirmQueue) \in Nat /\ Len(published) \in Nat
        BY <3>2, CountTypes DEF Taken, Inv, PassedInv
      <4> QED BY <3>2, <4>1 DEF Inv, PassedInv, NoneTwice
    <3> QED BY <3>1, <3>2
  <2>3. confirmQueue \in QueueType
    BY <2>2, QueueIsTyped DEF Types
  <2>4. /\ publishing # None <=> publisherPc \in {"publish", "confirm"}
        /\ confirming # None <=> confirmerPc = "receive"
    BY ConstantsAssumption DEF Types
  <2>5. publishQueueClosed => NoneAboutToPush
    BY DEF Inv, StagesInv
  <2> QED BY <2>1, <2>3, <2>4, <2>5 DEF Types, TypeOK
<1> QED BY <1>1, InvCorrect, PTL

\* While the confirmation relay follows the Channel, an order is answered with what became
\* of its message, and every confirmation meets its order: the panic of runConfirmations
\* does not happen (runPublisher, runConfirmations).
THEOREM AnswersAreTrue == Spec => []AnswersTrue
<1>1. Types /\ Inv => AnswersTrue
  <2> SUFFICES ASSUME Types, Inv, ~Detached, NEW o \in Orders
               PROVE  /\ ~panicked
                      /\ result[o] = "ok" => o \in acked
                      /\ result[o] = "nack" => IsPublished(o) /\ o \notin acked
                      /\ result[o] = "publishError" => ~IsPublished(o)
    BY DEF AnswersTrue, IsPublished, Inv, AnsweredInv
  <2>1. AnswerOf(o) /\ ~panicked
    BY DEF Inv, AnsweredInv
  <2>2. \A i \in 1 .. Confirmed : i \in 1 .. Len(published)
    BY CountTypes
  <2> QED BY <2>1, <2>2 DEF AnswerOf, IsPublished
<1> QED BY <1>1, InvCorrect, PTL

\* When Run of a producer that confirms has returned, every order that was queued has its
\* answer, was cancelled by its caller, or is in the queue the confirmer left when others
\* closed the Channel or its confirmation relay was cancelled (Run, runConfirmations).
THEOREM AcceptedAreAnswered == Spec => []AcceptedOrdersAnswered
<1>1. Types /\ Inv => AcceptedOrdersAnswered
  <2> SUFFICES ASSUME Types, Inv, runPc = "returned", confirmPublish
               PROVE  /\ \A o \in Orders :
                            callerPc[o] = "wait" =>
                                \/ result[o] # "none"
                                \/ orderDone[o]
                                \/ \E i \in 1 .. Len(confirmQueue) : confirmQueue[i] = o
                      /\ confirmQueue # <<>> => channelLost \/ Detached
    BY DEF AcceptedOrdersAnswered
  <2>1. publisherPc = "done" /\ confirmerPc = "done" /\ publishQueue = <<>>
    BY DEF Inv, StagesInv
  <2>2. Taken + Len(confirmQueue) = Len(published) /\ Len(confirmQueue) \in Nat /\ Taken \in Nat
    BY <2>1, CountTypes DEF Taken, Passed, Inv, PassedInv
  <2>3. ASSUME NEW i \in 1 .. Len(published)
        PROVE  \/ result[published[i]] # "none"
               \/ \E k \in 1 .. Len(confirmQueue) : confirmQueue[k] = published[i]
    <3>1. CASE i \in 1 .. Taken
      BY <2>1, <3>1 DEF Inv, GivenInv
    <3>2. CASE i \notin 1 .. Taken
      <4>1. i - Taken \in 1 .. Len(confirmQueue) /\ Taken + (i - Taken) = i
        BY <2>2, <3>2, CountTypes
      <4>2. confirmQueue[i - Taken] = published[i]
        BY <4>1 DEF Inv, PassedInv
      <4> QED BY <4>1, <4>2
    <3> QED BY <3>1, <3>2
  <2>4. \A o \in Orders : ~Unsent(o)
    BY <2>1 DEF Unsent, InQueue
  <2>5. ASSUME NEW o \in Orders, callerPc[o] = "wait"
        PROVE  \/ result[o] # "none" \/ orderDone[o]
               \/ \E k \in 1 .. Len(confirmQueue) : confirmQueue[k] = o
    BY <2>3, <2>4, <2>5 DEF Inv, GivenInv, IsPublished
  <2>6. confirmQueue # <<>> => channelLost \/ Detached
    BY <2>1 DEF Inv, StagesInv
  <2> QED BY <2>5, <2>6
<1> QED BY <1>1, InvCorrect, PTL
=============================================================================
