--------------------------- MODULE ConsumerProofs ---------------------------
(***************************************************************************)
(* Proofs about Consumer, for any processors, deliveries and limit.  The   *)
(* invariant Inv follows a delivery from the processor that holds it to    *)
(* the worker that settles it (WorkerInv, HoldInv), the processors through *)
(* the stages of Run (StageInv), and an error from the cleanup that failed *)
(* to what Run returns (ErrorInv).                                         *)
(***************************************************************************)
EXTENDS Consumer, FiniteSetTheorems, TLAPS

\* The workers there are can be counted, and the throttle holds as many.
CountInv ==
    /\ IsFiniteSet(Busy)
    /\ IsFiniteSet(emptyWorkers)
    /\ UseThrottle => throttle <= maxWorkers

\* Processors run between their launch and the end of Run's wait.
StageInv ==
    /\ runPc \in {"called", "setup", "hung"} => \A p \in Processors : procPc[p] = "off"
    /\ runPc \in {"collect", "returned"} =>
           \A p \in Processors : procPc[p] \in {"off", "done"}
    /\ \A p \in Processors : procPc[p] # "off" => consuming = Processors

\* Only a processor that waits for the throttle has a delivery in hand; no other has it,
\* and nothing has been done with it.
HoldInv ==
    /\ \A p \in Processors : procPc[p] # "push" => holding[p] = None
    /\ \A p \in Processors : holding[p] # None =>
           workerPc[holding[p]] = "none" /\ settled[holding[p]] = "none"
    /\ \A p, q \in Processors : holding[p] # None /\ holding[p] = holding[q] => p = q

\* What a worker has done with its delivery so far.
Answered(d) ==
    /\ outcome[d] # "none"
    /\ \/ settled[d] = AnswerTo(outcome[d])
       \/ settled[d] = "lost" /\ channelLost
       \/ settled[d] = "unknown" /\ d \in adrift

WorkerDid(d) ==
    IF by[d] \in AutoAck
    THEN settled[d] = "none" /\ workerPc[d] # "settle"
    ELSE /\ workerPc[d] \in {"handling", "settle"} => settled[d] = "none"
         /\ workerPc[d] = "settle" => outcome[d] # "none"
         /\ workerPc[d] \in {"end", "done"} => Answered(d)

\* A worker is a launched processor's, which does not end before it.
WorkerInv ==
    \A d \in Deliveries : workerPc[d] # "none" =>
        /\ by[d] \in Processors
        /\ procPc[by[d]] # "off"
        /\ procPc[by[d]] = "done" => workerPc[d] = "done"
        /\ WorkerDid(d)

\* The Channel is closed by Run or by someone else.
ChannelInv == channelOpen \/ channelLost \/ runPc = "returned"

\* The error of a cleanup is with the collector, or is what Run returns.
ErrorInv ==
    /\ collectorPc = "off" <=> runPc = "called"
    /\ collectorPc \in {"off", "start", "receive"} => failed \subseteq tooEarly
    /\ collectorPc = "done" => /\ failed \subseteq tooEarly \/ runError
                               /\ errsClosed \/ runError
    /\ errsClosed => runPc \in {"collect", "returned"}
    /\ runPc = "returned" => collectorPc = "done" \/ runError

Inv == CountInv /\ StageInv /\ HoldInv /\ WorkerInv /\ ChannelInv /\ ErrorInv

-----------------------------------------------------------------------------
(***************************************************************************)
(* The throttle.                                                           *)
(***************************************************************************)

\* The counts are numbers.
LEMMA CountTypes ==
    ASSUME TypeOK, CountInv
    PROVE  /\ ThrottleCounts
           /\ maxWorkers \in Nat
           /\ Cardinality(emptyWorkers) \in Nat
           /\ Cardinality(Busy) \in Nat
<1>1. Labels /\ ThrottleCounts
  BY DEF TypeOK
<1>2. maxWorkers \in Nat
  BY <1>1, ConstantsAssumption DEF Labels
<1> QED BY <1>1, <1>2, FS_CardinalityType DEF CountInv

\* At first nobody works.
LEMMA CountInit == Init => ThrottleCounts /\ CountInv
<1> SUFFICES ASSUME Init PROVE ThrottleCounts /\ CountInv
  OBVIOUS
<1>1. Busy = {} /\ emptyWorkers = {} /\ throttle = 0 /\ maxWorkers \in Nat
  BY ConstantsAssumption DEF Init, Busy
<1> QED BY <1>1, FS_EmptySet DEF ThrottleCounts, CountInv, UseThrottle

\* A step that launches and ends no worker leaves the count.
LEMMA CountSame ==
    ASSUME TypeOK, CountInv, UNCHANGED <<maxWorkers, throttle, emptyWorkers>>, Busy' = Busy
    PROVE  ThrottleCounts' /\ CountInv'
BY CountTypes DEF CountInv, ThrottleCounts, UseThrottle

\* Launching the worker of a delivery or of an empty one takes one place, which there
\* is (processDeliveries).
LEMMA CountLaunch ==
    ASSUME TypeOK, CountInv, NEW p \in Processors, NEW d \in Deliveries \cup {None},
           d # None => workerPc[d] = "none",
           UseThrottle => HasRoom(p),
           Launch(p, d), UNCHANGED maxWorkers
    PROVE  ThrottleCounts' /\ CountInv'
<1> USE DEF CountInv, ThrottleCounts, UseThrottle, HasRoom, Launch
<1>0. /\ ThrottleCounts /\ maxWorkers \in Nat
      /\ Cardinality(emptyWorkers) \in Nat /\ Cardinality(Busy) \in Nat
  BY CountTypes
<1>1. CASE d = None
  <2>1. PICK i \in FreeEmpty(p) : emptyWorkers' = emptyWorkers \cup {<<p, i>>}
    BY <1>1
  <2>2. Busy' = Busy
    BY <1>1 DEF Busy, TypeOK, Labels
  <2>3. /\ IsFiniteSet(emptyWorkers')
        /\ Cardinality(emptyWorkers') = Cardinality(emptyWorkers) + 1
    BY <2>1, FS_AddElement DEF FreeEmpty
  <2> QED BY <1>0, <2>2, <2>3
<1>2. CASE d # None
  <2>1. d \in Deliveries /\ UNCHANGED emptyWorkers
    BY <1>2
  <2>2. Busy' = Busy \cup {d} /\ d \notin Busy
    BY <1>2, <2>1 DEF Busy, TypeOK, Labels
  <2>3. IsFiniteSet(Busy') /\ Cardinality(Busy') = Cardinality(Busy) + 1
    BY <2>2, FS_AddElement
  <2> QED BY <1>0, <2>1, <2>3
<1> QED BY <1>1, <1>2

\* A worker that ends gives its place back, of a delivery ...
LEMMA CountWorkerEnds ==
    ASSUME TypeOK, CountInv, NEW d \in Deliveries, WorkerEnds(d)
    PROVE  ThrottleCounts' /\ CountInv'
<1> USE DEF CountInv, ThrottleCounts, UseThrottle, WorkerEnds, MoveWorker,
            ThrottleAfterWork
<1>0. /\ ThrottleCounts /\ maxWorkers \in Nat
      /\ Cardinality(emptyWorkers) \in Nat /\ Cardinality(Busy) \in Nat
  BY CountTypes
<1>1. Busy' = Busy \ {d} /\ d \in Busy
  BY DEF Busy, TypeOK, Labels
<1>2. IsFiniteSet(Busy') /\ Cardinality(Busy') = Cardinality(Busy) - 1
  BY <1>1, FS_RemoveElement
<1> QED BY <1>0, <1>2

\* ... or of an empty one.
LEMMA CountEmptyWorkerEnds ==
    ASSUME TypeOK, CountInv, NEW p \in Processors, EmptyWorkerEnds(p)
    PROVE  ThrottleCounts' /\ CountInv'
<1> USE DEF CountInv, ThrottleCounts, UseThrottle, EmptyWorkerEnds, EmptyOf,
            ThrottleAfterWork
<1>0. /\ ThrottleCounts /\ maxWorkers \in Nat
      /\ Cardinality(emptyWorkers) \in Nat /\ Cardinality(Busy) \in Nat
  BY CountTypes
<1>1. PICK w \in emptyWorkers : emptyWorkers' = emptyWorkers \ {w}
  OBVIOUS
<1>2. /\ IsFiniteSet(emptyWorkers')
      /\ Cardinality(emptyWorkers') = Cardinality(emptyWorkers) - 1
  BY <1>1, FS_RemoveElement
<1>3. Busy' = Busy /\ UNCHANGED maxWorkers
  BY DEF Busy, TypeOK, Labels
<1> QED BY <1>0, <1>2, <1>3

\* The steps that launch or end no worker.
LEMMA CountOthers ==
    ASSUME TypeOK, CountInv,
           \/ \E p \in Processors : \/ ProcessorStops(p) \/ ProcessorGivesBack(p)
                                    \/ ProcessorEnds(p) \/ RunSetsUp(p)
           \/ \E d \in Deliveries : GiveBack(d) \/ HandlerReturns(d) \/ WorkerSettles(d)
           \/ RunSetupFails \/ RunHangs \/ RunLaunches \/ RunClosesErrs \/ RunReturns \/ RunStarts
           \/ CollectorListens \/ CollectorStores \/ CollectorSeesClosed
           \/ MonitorShutsDown \/ StartShutdown \/ ChannelCloses \/ ChannelReconnects
           \/ UNCHANGED vars
    PROVE  ThrottleCounts' /\ CountInv'
<1>1. CASE \E d \in Deliveries : HandlerReturns(d) \/ WorkerSettles(d)
  <2>1. UNCHANGED <<maxWorkers, throttle, emptyWorkers>> /\ Busy' = Busy
    BY <1>1 DEF HandlerReturns, WorkerSettles, MoveWorker, Busy, TypeOK, Labels
  <2> QED BY <2>1, CountSame
<1>2. CASE ~ \E d \in Deliveries : HandlerReturns(d) \/ WorkerSettles(d)
  <2>1. UNCHANGED <<maxWorkers, throttle, emptyWorkers, workerPc>>
    BY <1>2 DEF ProcessorStops, ProcessorGivesBack, ProcessorEnds, RunSetsUp, GiveBack,
                RunSetupFails, RunHangs, RunLaunches, RunClosesErrs, RunReturns, RunStarts,
                CollectorListens, CollectorStores, CollectorSeesClosed, MonitorShutsDown,
                StartShutdown, ChannelCloses,
           ChannelReconnects, vars, workVars
  <2>2. Busy' = Busy
    BY <2>1 DEF Busy
  <2> QED BY <2>1, <2>2, CountSame
<1> QED BY <1>1, <1>2

\* Every step keeps the count and the limit.
LEMMA CountNext ==
    ASSUME TypeOK, CountInv, HoldInv, [Next]_vars
    PROVE  ThrottleCounts' /\ CountInv'
<1>1. ASSUME NEW p \in Processors, NEW d \in Deliveries \cup {None},
             d # None => workerPc[d] = "none", Takes(p, d), UNCHANGED maxWorkers
      PROVE  ThrottleCounts' /\ CountInv'
  <2>1. CASE UseThrottle
    <3>1. UNCHANGED <<throttle, emptyWorkers, workerPc>>
      BY <1>1, <2>1 DEF Takes, workVars
    <3>2. Busy' = Busy
      BY <3>1 DEF Busy
    <3> QED BY <1>1, <3>1, <3>2, CountSame
  <2>2. CASE ~UseThrottle
    BY <1>1, <2>2, CountLaunch DEF Takes
  <2> QED BY <2>1, <2>2
<1>2. ASSUME NEW p \in Processors, NEW d \in Deliveries, ProcessorReceives(p, d)
      PROVE  ThrottleCounts' /\ CountInv'
  BY <1>1, <1>2, ConstantsAssumption DEF ProcessorReceives, Untaken
<1>3. ASSUME NEW p \in Processors, ProcessorReceivesEmpty(p)
      PROVE  ThrottleCounts' /\ CountInv'
  BY <1>1, <1>3 DEF ProcessorReceivesEmpty
<1>4. ASSUME NEW p \in Processors, ProcessorPushes(p)
      PROVE  ThrottleCounts' /\ CountInv'
  <2>1. /\ holding[p] \in Deliveries \cup {None}
        /\ holding[p] # None => workerPc[holding[p]] = "none"
    BY DEF TypeOK, Labels, HoldInv
  <2> QED BY <1>4, <2>1, CountLaunch DEF ProcessorPushes
<1> QED BY <1>2, <1>3, <1>4, CountWorkerEnds, CountEmptyWorkerEnds, CountOthers
           DEF Next, Goroutines, Stops

-----------------------------------------------------------------------------
(***************************************************************************)
(* Types.                                                                  *)
(***************************************************************************)

\* The first state is typed.
LEMMA TypeInit == Init => Labels
<1> SUFFICES ASSUME Init PROVE Labels
  OBVIOUS
<1>1. /\ procPc \in [Processors -> {"off", "select", "push", "drain", "done"}]
      /\ holding \in [Processors -> Deliveries \cup {None}]
  BY DEF Init
<1>2. /\ workerPc \in [Deliveries -> {"none", "handling", "settle", "end", "done"}]
      /\ by \in [Deliveries -> Processors \cup {None}]
      /\ outcome \in [Deliveries -> {"none", "ok", "error", "requeue"}]
      /\ settled \in [Deliveries ->
                         {"none", "givingBack", "acked", "nacked", "requeued", "lost", "unknown"}]
  BY DEF Init
<1> QED BY <1>1, <1>2 DEF Init, Labels

\* Launching a worker keeps the labels.
LEMMA TypeLaunch ==
    ASSUME Labels, NEW p \in Processors, NEW d \in Deliveries \cup {None}, Launch(p, d)
    PROVE  /\ workerPc' \in [Deliveries -> {"none", "handling", "settle", "end", "done"}]
           /\ by' \in [Deliveries -> Processors \cup {None}]
           /\ emptyWorkers' \subseteq Processors \X (1 .. MaxEmpty)
           /\ UNCHANGED <<outcome, settled>>
<1>1. CASE d = None
  <2>1. PICK i \in FreeEmpty(p) : emptyWorkers' = emptyWorkers \cup {<<p, i>>}
    BY <1>1 DEF Launch
  <2>2. emptyWorkers' \subseteq Processors \X (1 .. MaxEmpty)
    BY <2>1 DEF Labels, FreeEmpty
  <2> QED BY <1>1, <2>2 DEF Labels, Launch
<1>2. CASE d # None
  BY <1>2 DEF Labels, Launch
<1> QED BY <1>1, <1>2

\* A step of a processor keeps them.
LEMMA TypeProcessor ==
    ASSUME Labels, StageInv, NEW p \in Processors,
           \/ \E d \in Deliveries : ProcessorReceives(p, d)
           \/ ProcessorReceivesEmpty(p) \/ ProcessorPushes(p)
           \/ ProcessorStops(p) \/ ProcessorGivesBack(p) \/ ProcessorEnds(p)
    PROVE  Labels'
<1> USE DEF Labels, MoveProcessor, runVars, helperVars, channelVars, workVars
<1>1. ASSUME NEW d \in Deliveries \cup {None}, Takes(p, d)
      PROVE  /\ procPc' \in [Processors -> {"off", "select", "push", "drain", "done"}]
             /\ holding' \in [Processors -> Deliveries \cup {None}]
             /\ workerPc' \in [Deliveries -> {"none", "handling", "settle", "end", "done"}]
             /\ by' \in [Deliveries -> Processors \cup {None}]
             /\ emptyWorkers' \subseteq Processors \X (1 .. MaxEmpty)
             /\ UNCHANGED <<outcome, settled>>
             /\ procPc[p] = "select"
  <2>1. CASE UseThrottle
    BY <1>1, <2>1 DEF Takes
  <2>2. CASE ~UseThrottle
    BY <1>1, <2>2, TypeLaunch DEF Takes
  <2> QED BY <2>1, <2>2
<1>2. CASE \E d \in Deliveries : ProcessorReceives(p, d)
  BY <1>1, <1>2 DEF ProcessorReceives
<1>3. CASE ProcessorReceivesEmpty(p)
  <2>1. exhausted' \subseteq consuming
    <3>1. procPc[p] = "select"
      BY <1>1, <1>3 DEF ProcessorReceivesEmpty
    <3> QED BY <1>3, <3>1 DEF StageInv, ProcessorReceivesEmpty
  <2> QED BY <1>1, <1>3, <2>1 DEF ProcessorReceivesEmpty
<1>4. CASE ProcessorPushes(p)
  <2>1. holding[p] \in Deliveries \cup {None}
    OBVIOUS
  <2> QED BY <1>4, <2>1, TypeLaunch DEF ProcessorPushes
<1>5. CASE ProcessorStops(p)
  BY <1>5 DEF ProcessorStops
<1>6. CASE ProcessorGivesBack(p)
  BY <1>6 DEF ProcessorGivesBack
<1>7. CASE ProcessorEnds(p)
  BY <1>7 DEF ProcessorEnds, CollectorAfterError
<1> QED BY <1>2, <1>3, <1>4, <1>5, <1>6, <1>7

\* So does a step of a worker.
LEMMA TypeWorker ==
    ASSUME Labels,
           \/ \E d \in Deliveries : \/ GiveBack(d) \/ HandlerReturns(d)
                                    \/ WorkerSettles(d) \/ WorkerEnds(d)
           \/ \E p \in Processors : EmptyWorkerEnds(p)
    PROVE  Labels'
<1> USE DEF Labels, MoveWorker, runVars, helperVars, channelVars, procVars
<1>1. CASE \E d \in Deliveries : GiveBack(d)
  BY <1>1 DEF GiveBack, FateOf
<1>2. CASE \E d \in Deliveries : HandlerReturns(d)
  BY <1>2 DEF HandlerReturns
<1>3. CASE \E d \in Deliveries : WorkerSettles(d)
  BY <1>3 DEF WorkerSettles, FateOf, AnswerTo
<1>4. CASE \E d \in Deliveries : WorkerEnds(d)
  BY <1>4 DEF WorkerEnds
<1>5. CASE \E p \in Processors : EmptyWorkerEnds(p)
  BY <1>5 DEF EmptyWorkerEnds
<1> QED BY <1>1, <1>2, <1>3, <1>4, <1>5

\* So does a step of Run, of the goroutines it launches, or of others.
LEMMA TypeRun ==
    ASSUME Labels,
           \/ \E p \in Processors : RunSetsUp(p)
           \/ RunSetupFails \/ RunHangs \/ RunLaunches \/ RunClosesErrs \/ RunReturns \/ RunStarts
           \/ CollectorListens \/ CollectorStores \/ CollectorSeesClosed
           \/ MonitorShutsDown \/ StartShutdown \/ ChannelCloses \/ ChannelReconnects
           \/ UNCHANGED vars
    PROVE  Labels'
<1> USE DEF Labels, MoveRun, runVars, helperVars, channelVars, procVars, workVars
<1>1. CASE \E p \in Processors : RunSetsUp(p)
  BY <1>1 DEF RunSetsUp
<1>2. CASE RunSetupFails
  BY <1>2 DEF RunSetupFails
<1>13. CASE RunHangs \/ ChannelReconnects
  BY <1>13 DEF RunHangs, ChannelReconnects
<1>3. CASE RunLaunches
  BY <1>3 DEF RunLaunches
<1>6. CASE RunClosesErrs
  BY <1>6 DEF RunClosesErrs, ClosesErrs
<1>7. CASE RunReturns \/ RunStarts
  <2>1. CASE RunReturns
    BY <2>1 DEF RunReturns
  <2>2. CASE RunStarts
    <3>1. /\ runPc' = "setup" /\ collectorPc' = "start" /\ monitorPc' \in {"wait", "told"}
          /\ UNCHANGED <<maxWorkers, ctxDone, runError, consuming, errsClosed, procVars,
                         workVars, channelVars>>
      BY <2>2 DEF RunStarts
    <3> QED BY <3>1
  <2> QED BY <1>7, <2>1, <2>2
<1>8. CASE CollectorListens
  BY <1>8 DEF CollectorListens
<1>11. CASE CollectorSeesClosed
  BY <1>11 DEF CollectorSeesClosed
<1>9. CASE CollectorStores
  BY <1>9 DEF CollectorStores
<1>10. CASE MonitorShutsDown
  BY <1>10 DEF MonitorShutsDown
<1>12. CASE StartShutdown
  BY <1>12 DEF StartShutdown
<1>4. CASE ChannelCloses
  <2>1. /\ channelOpen' = FALSE /\ channelLost' = TRUE
        /\ UNCHANGED <<maxWorkers, ctxDone, runVars, collectorPc, errsClosed, procVars,
                       workVars, adrift>>
    BY <1>4 DEF ChannelCloses
  <2>2. monitorPc' \in {"off", "wait", "told", "done"}
    BY <1>4 DEF ChannelCloses
  <2> QED BY <2>1, <2>2
<1>5. CASE UNCHANGED vars
  BY <1>5 DEF vars
<1> QED BY <1>1, <1>2, <1>3, <1>4, <1>5, <1>6, <1>7, <1>8, <1>9, <1>10,
           <1>11, <1>12, <1>13

\* Every step keeps the labels and the types.
LEMMA TypeNext ==
    ASSUME TypeOK, StageInv, CountInv, HoldInv, [Next]_vars
    PROVE  TypeOK'
<1>1. ThrottleCounts'
  BY CountNext
<1>2. Labels'
  BY TypeProcessor, TypeWorker, TypeRun DEF TypeOK, Next, Stops, Goroutines
<1> QED BY <1>1, <1>2 DEF TypeOK

-----------------------------------------------------------------------------
(***************************************************************************)
(* The stages of Run and its errors.                                       *)
(***************************************************************************)

\* A processor that takes a delivery was about to, and may wait for the throttle.
LEMMA TakesMoves ==
    ASSUME Labels, NEW p \in Processors, NEW d, Takes(p, d)
    PROVE  /\ procPc[p] = "select"
           /\ procPc' \in {procPc, [procPc EXCEPT ![p] = "push"]}
BY DEF Labels, Takes, MoveProcessor

\* What a step does to the stage of Run and of the processors.
LEMMA StageSteps ==
    ASSUME Labels, [Next]_vars
    PROVE  \/ UNCHANGED <<runPc, procPc>> /\ consuming' \in {consuming, Processors}
           \/ UNCHANGED <<runPc, procPc>> /\ runPc = "setup"
           \/ RunStarts \/ RunSetupFails \/ RunHangs \/ RunLaunches \/ RunClosesErrs \/ RunReturns
           \/ /\ UNCHANGED <<runPc, consuming>>
              /\ \E p \in Processors, to \in {"select", "push", "drain", "done"} :
                    /\ procPc[p] \in {"select", "push", "drain"}
                    /\ procPc' = [procPc EXCEPT ![p] = to]
<1> USE DEF Labels, MoveProcessor, runVars, procVars
<1>1. CASE \E p \in Processors, d \in Deliveries : ProcessorReceives(p, d)
  BY <1>1, TakesMoves DEF ProcessorReceives
<1>2. CASE \E p \in Processors : ProcessorReceivesEmpty(p)
  BY <1>2, TakesMoves DEF ProcessorReceivesEmpty
<1>3. CASE \E p \in Processors : \/ ProcessorPushes(p) \/ ProcessorStops(p)
                                 \/ ProcessorGivesBack(p) \/ ProcessorEnds(p)
  BY <1>3 DEF ProcessorPushes, ProcessorStops, ProcessorGivesBack, ProcessorEnds
<1>4. CASE \/ \E d \in Deliveries : \/ GiveBack(d) \/ HandlerReturns(d)
                                    \/ WorkerSettles(d) \/ WorkerEnds(d)
           \/ \E p \in Processors : EmptyWorkerEnds(p)
           \/ CollectorListens \/ CollectorStores \/ CollectorSeesClosed
           \/ MonitorShutsDown \/ StartShutdown \/ ChannelCloses \/ ChannelReconnects
           \/ UNCHANGED vars
  BY <1>4 DEF GiveBack, HandlerReturns, WorkerSettles, WorkerEnds, EmptyWorkerEnds,
              CollectorListens, CollectorStores, CollectorSeesClosed, MonitorShutsDown,
              StartShutdown, ChannelCloses,
           ChannelReconnects, vars
<1>5. CASE \E p \in Processors : RunSetsUp(p)
  BY <1>5 DEF RunSetsUp
<1> QED BY <1>1, <1>2, <1>3, <1>4, <1>5 DEF Next, Stops, Goroutines

\* Every step keeps the stages.
LEMMA StageNext ==
    ASSUME Labels, StageInv, [Next]_vars
    PROVE  StageInv'
<1> USE DEF Labels, StageInv, MoveRun
<1>1. CASE UNCHANGED <<runPc, procPc>>
           /\ (consuming' \in {consuming, Processors} \/ runPc = "setup")
  BY <1>1
<1>2. CASE RunStarts \/ RunClosesErrs \/ RunReturns
  BY <1>2 DEF RunStarts, RunClosesErrs, RunReturns, procVars
<1>3. CASE RunSetupFails \/ RunHangs
  BY <1>3 DEF RunSetupFails, RunHangs, procVars
<1>4. CASE RunLaunches
  BY <1>4 DEF RunLaunches
<1>5. CASE /\ UNCHANGED <<runPc, consuming>>
           /\ \E p \in Processors, to \in {"select", "push", "drain", "done"} :
                 /\ procPc[p] \in {"select", "push", "drain"}
                 /\ procPc' = [procPc EXCEPT ![p] = to]
  <2>1. runPc = "wait" /\ consuming = Processors
    BY <1>5
  <2> QED BY <1>5, <2>1
<1> QED BY <1>1, <1>2, <1>3, <1>4, <1>5, StageSteps

\* Every step keeps ErrorInv: the error of a cleanup is not lost once the collector
\* listens.
LEMMA ErrorNext ==
    ASSUME Labels, StageInv, ErrorInv, [Next]_vars
    PROVE  ErrorInv'
<1> USE DEF Labels, ErrorInv, MoveRun
<1>1. CASE \E p \in Processors : ProcessorEnds(p)
  <2> PICK p \in Processors : ProcessorEnds(p)
    BY <1>1
  <2>1. runPc = "wait"
    BY DEF ProcessorEnds, MoveProcessor, StageInv
  <2>2. collectorPc # "off" /\ ~errsClosed
    BY <2>1
  <2> QED BY <2>1, <2>2 DEF ProcessorEnds, CollectorAfterError, runVars
<1>2. CASE RunStarts
  BY <1>2 DEF RunStarts, procVars
<1>8. CASE RunSetupFails \/ RunHangs
  BY <1>8 DEF RunSetupFails, RunHangs, helperVars, procVars
<1>6. CASE RunLaunches \/ RunReturns
  BY <1>6 DEF RunLaunches, RunReturns, ErrsCollected, helperVars, procVars
<1>3. CASE RunClosesErrs
  BY <1>3 DEF RunClosesErrs, ClosesErrs, procVars
<1>4. CASE CollectorListens \/ CollectorSeesClosed
  BY <1>4 DEF CollectorListens, CollectorSeesClosed, runVars, procVars
<1>7. CASE CollectorStores
  BY <1>7 DEF CollectorStores, procVars
<1>5. CASE \/ \E p \in Processors : \/ \E d \in Deliveries : ProcessorReceives(p, d)
                                    \/ ProcessorReceivesEmpty(p) \/ ProcessorPushes(p)
                                    \/ ProcessorStops(p) \/ ProcessorGivesBack(p)
                                    \/ EmptyWorkerEnds(p) \/ RunSetsUp(p)
           \/ \E d \in Deliveries : \/ GiveBack(d) \/ HandlerReturns(d)
                                    \/ WorkerSettles(d) \/ WorkerEnds(d)
           \/ MonitorShutsDown \/ StartShutdown \/ ChannelCloses \/ ChannelReconnects
           \/ UNCHANGED vars
  <2>1. UNCHANGED <<runPc, runError, collectorPc, errsClosed, failed, tooEarly>>
    BY <1>5
       DEF ProcessorReceives, ProcessorReceivesEmpty, ProcessorPushes, ProcessorStops,
           ProcessorGivesBack, EmptyWorkerEnds, RunSetsUp, GiveBack, HandlerReturns,
           WorkerSettles, WorkerEnds, MonitorShutsDown, StartShutdown, ChannelCloses,
           ChannelReconnects, vars, runVars, helperVars, procVars
  <2> QED BY <2>1
<1> QED BY <1>1, <1>2, <1>3, <1>4, <1>5, <1>6, <1>7, <1>8
           DEF Next, Stops, Goroutines

\* Every step keeps ChannelInv.
LEMMA ChannelNext ==
    ASSUME Labels, ChannelInv, [Next]_vars
    PROVE  ChannelInv'
<1> USE DEF ChannelInv, MoveRun
<1>1. CASE RunStarts \/ RunSetupFails \/ RunHangs \/ RunLaunches \/ RunReturns \/ RunClosesErrs
           \/ ChannelCloses \/ ChannelReconnects
  BY <1>1 DEF RunStarts, RunSetupFails, RunHangs, RunLaunches, RunReturns, RunClosesErrs,
              ChannelCloses, ChannelReconnects, runVars, channelVars
<1>2. CASE ~ (RunStarts \/ RunSetupFails \/ RunHangs \/ RunLaunches \/ RunReturns \/ RunClosesErrs
              \/ ChannelCloses \/ ChannelReconnects)
  <2>1. UNCHANGED <<runPc, channelOpen, channelLost>>
    BY <1>2
       DEF Next, Stops, Goroutines, ProcessorReceives, ProcessorReceivesEmpty,
           ProcessorPushes, ProcessorStops, ProcessorGivesBack, ProcessorEnds,
           EmptyWorkerEnds, RunSetsUp, GiveBack, HandlerReturns, WorkerSettles,
           WorkerEnds, CollectorListens, CollectorStores, CollectorSeesClosed,
           MonitorShutsDown, StartShutdown, vars, runVars, channelVars
  <2> QED BY <2>1
<1> QED BY <1>1, <1>2

-----------------------------------------------------------------------------
(***************************************************************************)
(* The life of a delivery.                                                 *)
(***************************************************************************)

\* The steps that touch no delivery: Run, its goroutines, and those that end.
Aside ==
    \/ \E p \in Processors : EmptyWorkerEnds(p) \/ RunSetsUp(p)
    \/ RunStarts \/ RunSetupFails \/ RunHangs \/ RunClosesErrs \/ RunReturns
    \/ CollectorListens \/ CollectorStores \/ CollectorSeesClosed
    \/ MonitorShutsDown \/ StartShutdown \/ ChannelCloses \/ ChannelReconnects
    \/ UNCHANGED vars

LEMMA AsideLeaves ==
    ASSUME Aside
    PROVE  UNCHANGED <<procPc, holding, workerPc, by, outcome, settled>>
<1> USE DEF procVars, workVars
<1>1. CASE \E p \in Processors : EmptyWorkerEnds(p) \/ RunSetsUp(p)
  BY <1>1 DEF EmptyWorkerEnds, RunSetsUp
<1>2. CASE RunStarts \/ RunSetupFails \/ RunHangs \/ RunClosesErrs \/ RunReturns
  BY <1>2 DEF RunStarts, RunSetupFails, RunHangs, RunClosesErrs, RunReturns
<1>3. CASE CollectorListens \/ CollectorStores \/ CollectorSeesClosed
  BY <1>3 DEF CollectorListens, CollectorStores, CollectorSeesClosed
<1>4. CASE MonitorShutsDown \/ StartShutdown \/ ChannelCloses \/ ChannelReconnects
  BY <1>4 DEF MonitorShutsDown, StartShutdown, ChannelCloses, ChannelReconnects
<1>5. CASE UNCHANGED vars
  BY <1>5 DEF vars
<1> QED BY <1>1, <1>2, <1>3, <1>4, <1>5 DEF Aside

\* Launching the worker of a delivery that no processor will hold keeps HoldInv.
LEMMA HoldLaunch ==
    ASSUME Labels, HoldInv, NEW p \in Processors, NEW d \in Deliveries \cup {None},
           Launch(p, d),
           procPc'[p] # "push" => holding'[p] = None,
           \A q \in Processors : q # p => procPc'[q] = procPc[q] /\ holding'[q] = holding[q],
           \A q \in Processors : holding'[q] = holding[q] \/ holding'[q] = None,
           \A q \in Processors : holding'[q] # None => holding'[q] # d
    PROVE  HoldInv'
<1> USE DEF Labels, HoldInv
<1>1. UNCHANGED settled /\ \A e \in Deliveries : e # d => workerPc'[e] = workerPc[e]
  BY DEF Launch
<1>2. \A q \in Processors : procPc'[q] # "push" => holding'[q] = None
  OBVIOUS
<1>3. ASSUME NEW q \in Processors, holding'[q] # None
      PROVE  workerPc'[holding'[q]] = "none" /\ settled'[holding'[q]] = "none"
  <2>1. holding'[q] = holding[q] /\ holding[q] \in Deliveries /\ holding[q] # d
    BY <1>3
  <2> QED BY <1>1, <1>3, <2>1
<1> QED BY <1>2, <1>3

\* A processor keeps HoldInv when it takes a delivery ...
LEMMA HoldReceives ==
    ASSUME Labels, HoldInv, NEW p \in Processors, NEW d \in Deliveries \cup {None},
           Takes(p, d),
           d # None => workerPc[d] = "none" /\ settled[d] = "none",
           \A q \in Processors : d # None => holding[q] # d
    PROVE  HoldInv'
<1> USE DEF Labels, HoldInv
<1>1. CASE UseThrottle
  <2>1. /\ procPc' = [procPc EXCEPT ![p] = "push"]
        /\ holding' = [holding EXCEPT ![p] = d]
        /\ UNCHANGED <<workerPc, settled>>
    BY <1>1 DEF Takes, MoveProcessor, workVars
  <2> QED BY <2>1
<1>2. CASE ~UseThrottle
  <2>1. Launch(p, d) /\ procPc[p] = "select" /\ UNCHANGED <<procPc, holding>>
    BY <1>2 DEF Takes
  <2> QED BY <2>1, HoldLaunch
<1> QED BY <1>1, <1>2

\* ... and when it hands it over or gives it back; so does every step.
LEMMA HoldNext ==
    ASSUME Labels, StageInv, HoldInv, [Next]_vars
    PROVE  HoldInv'
<1>1. CASE \E p \in Processors, d \in Deliveries : ProcessorReceives(p, d)
  BY <1>1, HoldReceives DEF ProcessorReceives, Untaken
<1>2. CASE \E p \in Processors : ProcessorReceivesEmpty(p)
  BY <1>2, HoldReceives DEF ProcessorReceivesEmpty
<1>3. CASE \E p \in Processors : ProcessorPushes(p)
  <2> PICK p \in Processors : ProcessorPushes(p)
    BY <1>3
  <2>1. /\ holding[p] \in Deliveries \cup {None}
        /\ procPc' = [procPc EXCEPT ![p] = "select"]
        /\ holding' = [holding EXCEPT ![p] = None]
        /\ Launch(p, holding[p])
    BY DEF ProcessorPushes, MoveProcessor, Labels
  <2>2. \A q \in Processors : holding'[q] # None => q # p /\ holding'[q] = holding[q]
    BY <2>1 DEF Labels
  <2>3. \A q \in Processors : holding'[q] # None => holding'[q] # holding[p]
    BY <2>2 DEF HoldInv
  <2> QED BY <2>1, <2>2, <2>3, HoldLaunch DEF Labels
<1>4. CASE \E p \in Processors : ProcessorGivesBack(p)
  <2> PICK p \in Processors : ProcessorGivesBack(p)
    BY <1>4
  <2>1. /\ procPc' = [procPc EXCEPT ![p] = "drain"]
        /\ holding' = [holding EXCEPT ![p] = None]
        /\ UNCHANGED workerPc
    BY DEF ProcessorGivesBack, MoveProcessor
  <2>2. \A q \in Processors : holding'[q] # None => q # p /\ holding'[q] = holding[q]
    BY <2>1 DEF Labels
  <2>3. \A d \in Deliveries : d # holding[p] => settled'[d] = settled[d]
    BY DEF ProcessorGivesBack, Labels
  <2> QED BY <2>1, <2>2, <2>3 DEF HoldInv, Labels
<1>5. CASE \E p \in Processors : ProcessorStops(p) \/ ProcessorEnds(p)
  BY <1>5 DEF ProcessorStops, ProcessorEnds, MoveProcessor, HoldInv, Labels, workVars
<1>6. CASE RunLaunches
  <2>1. \A p \in Processors : procPc[p] = "off"
    BY <1>6 DEF RunLaunches, MoveRun, StageInv
  <2>2. \A p \in Processors : holding[p] = None
    BY <2>1 DEF HoldInv
  <2> QED BY <1>6, <2>2 DEF RunLaunches, HoldInv, workVars
<1>7. CASE \E d \in Deliveries : GiveBack(d)
  BY <1>7 DEF GiveBack, HoldInv, Labels, procVars
<1>8. CASE \E d \in Deliveries : HandlerReturns(d) \/ WorkerEnds(d)
  BY <1>8 DEF HandlerReturns, WorkerEnds, MoveWorker, HoldInv, Labels, procVars
<1>9. CASE \E d \in Deliveries : WorkerSettles(d)
  BY <1>9 DEF WorkerSettles, MoveWorker, HoldInv, Labels, procVars
<1>10. CASE Aside
  BY <1>10, AsideLeaves DEF HoldInv
<1> QED BY <1>1, <1>2, <1>3, <1>4, <1>5, <1>6, <1>7, <1>8, <1>9, <1>10
           DEF Next, Stops, Goroutines, Aside

\* What WorkerInv says of one delivery.
WorkerOf(d) ==
    workerPc[d] # "none" =>
        /\ by[d] \in Processors
        /\ procPc[by[d]] # "off"
        /\ procPc[by[d]] = "done" => workerPc[d] = "done"
        /\ WorkerDid(d)

\* Processors move on, but none starts or ends.
MovesOn ==
    \A p \in Processors : \/ procPc'[p] = procPc[p]
                          \/ procPc[p] # "off" /\ procPc'[p] \notin {"off", "done"}

\* A step of one processor that does not end it is such a step.
LEMMA OneMovesOn ==
    ASSUME Labels, NEW p \in Processors, NEW to \in {"select", "push", "drain"},
           procPc[p] # "off", procPc' = [procPc EXCEPT ![p] = to]
    PROVE  MovesOn
BY DEF MovesOn, Labels

LEMMA NoneMovesOn ==
    ASSUME UNCHANGED procPc
    PROVE  MovesOn
BY DEF MovesOn

\* A delivery nothing happens to keeps what WorkerInv says of it, even if its processor
\* moves on, or somebody else closes the Channel.
LEMMA WorkerKept ==
    ASSUME Labels, NEW d \in Deliveries, WorkerOf(d),
           workerPc'[d] = workerPc[d], by'[d] = by[d],
           outcome'[d] = outcome[d], settled'[d] = settled[d],
           channelLost => channelLost', adrift \subseteq adrift',
           MovesOn
    PROVE  WorkerOf(d)'
BY DEF Labels, WorkerOf, WorkerDid, Answered, MovesOn

\* Launching the worker of a delivery nothing was done with starts its life.
LEMMA WorkerLaunch ==
    ASSUME Labels, WorkerInv, NEW p \in Processors, NEW d \in Deliveries \cup {None},
           Launch(p, d), d # None => settled[d] = "none",
           procPc[p] \in {"select", "push"},
           procPc' \in {procPc, [procPc EXCEPT ![p] = "select"]},
           UNCHANGED <<channelLost, adrift>>
    PROVE  WorkerInv'
<1> USE DEF Labels
<1>1. MovesOn
  BY OneMovesOn, NoneMovesOn
<1>2. ASSUME NEW e \in Deliveries, e # d PROVE WorkerOf(e)'
  <2>1. WorkerOf(e)
    BY DEF WorkerInv, WorkerOf
  <2>2. /\ workerPc'[e] = workerPc[e] /\ by'[e] = by[e]
        /\ outcome'[e] = outcome[e] /\ settled'[e] = settled[e]
    BY <1>2 DEF Launch
  <2> QED BY <1>1, <2>1, <2>2, WorkerKept
<1>3. ASSUME d \in Deliveries, d # None PROVE WorkerOf(d)'
  <2>1. /\ workerPc'[d] = "handling" /\ by'[d] = p /\ settled'[d] = "none"
    BY <1>3 DEF Launch
  <2>2. procPc'[p] \notin {"off", "done"}
    OBVIOUS
  <2> QED BY <2>1, <2>2 DEF WorkerOf, WorkerDid
<1>4. \A e \in Deliveries : WorkerOf(e)'
  BY <1>2, <1>3, ConstantsAssumption
<1> QED BY <1>4 DEF WorkerInv, WorkerOf

\* A worker settles its delivery as its handler said, or finds the Channel closed by
\* someone else: Run closes it after the workers have ended.
LEMMA WorkerActs ==
    ASSUME Labels, StageInv, WorkerInv, ChannelInv, NEW d \in Deliveries,
           GiveBack(d) \/ HandlerReturns(d) \/ WorkerSettles(d) \/ WorkerEnds(d)
    PROVE  WorkerInv'
<1> USE DEF Labels, MoveWorker
<1>0. UNCHANGED <<procPc, by, channelLost, adrift>>
  BY DEF GiveBack, HandlerReturns, WorkerSettles, WorkerEnds, procVars, channelVars
<1>1. ASSUME NEW e \in Deliveries, e # d PROVE WorkerOf(e)'
  <2>1. WorkerOf(e)
    BY DEF WorkerInv, WorkerOf
  <2>2. /\ workerPc'[e] = workerPc[e]
        /\ outcome'[e] = outcome[e] /\ settled'[e] = settled[e]
    BY <1>1 DEF GiveBack, HandlerReturns, WorkerSettles, WorkerEnds
  <2>3. MovesOn
    BY <1>0, NoneMovesOn
  <2> QED BY <1>0, <2>1, <2>2, <2>3, WorkerKept
<1>2. WorkerOf(d)
  BY DEF WorkerInv, WorkerOf
<1>3. CASE GiveBack(d)
  <2>1. workerPc[d] = "none"
    BY <1>2, <1>3 DEF GiveBack, WorkerOf, WorkerDid, Answered, AnswerTo
  <2>2. WorkerOf(d)'
    BY <1>3, <2>1 DEF GiveBack, WorkerOf
  <2> QED BY <1>1, <2>2 DEF WorkerInv, WorkerOf
<1>4. CASE HandlerReturns(d)
  <2>1. /\ UNCHANGED settled
        /\ \/ by[d] \in AutoAck /\ workerPc'[d] = "end" /\ UNCHANGED outcome
           \/ by[d] \notin AutoAck /\ workerPc'[d] = "settle" /\ outcome'[d] # "none"
    BY <1>4 DEF HandlerReturns
  <2>2. workerPc[d] = "handling"
    BY <1>4 DEF HandlerReturns
  <2>3. WorkerOf(d)'
    BY <1>0, <1>2, <2>1, <2>2 DEF WorkerOf, WorkerDid
  <2> QED BY <1>1, <2>3 DEF WorkerInv, WorkerOf
<1>5. CASE WorkerSettles(d)
  <2>1. /\ workerPc[d] = "settle" /\ workerPc'[d] = "end" /\ UNCHANGED outcome
        /\ settled'[d] = FateOf(d, AnswerTo(outcome[d]))
    BY <1>5 DEF WorkerSettles
  <2>2. by[d] \in Processors /\ procPc[by[d]] \notin {"off", "done"}
        /\ by[d] \notin AutoAck /\ outcome[d] # "none"
    BY <1>2, <2>1 DEF WorkerOf, WorkerDid
  <2>3. runPc # "returned"
    BY <2>2 DEF StageInv
  <2>4. Answered(d)'
    BY <1>0, <2>1, <2>2, <2>3 DEF ChannelInv, Answered, FateOf
  <2>5. WorkerOf(d)'
    BY <1>0, <2>1, <2>2, <2>4 DEF WorkerOf, WorkerDid
  <2> QED BY <1>1, <2>5 DEF WorkerInv, WorkerOf
<1>6. CASE WorkerEnds(d)
  <2>1. workerPc[d] = "end" /\ workerPc'[d] = "done" /\ UNCHANGED <<outcome, settled>>
    BY <1>6 DEF WorkerEnds
  <2>2. WorkerOf(d)'
    BY <1>0, <1>2, <2>1 DEF WorkerOf, WorkerDid, Answered
  <2> QED BY <1>1, <2>2 DEF WorkerInv, WorkerOf
<1> QED BY <1>3, <1>4, <1>5, <1>6

\* Every step keeps WorkerInv.
LEMMA WorkerNext ==
    ASSUME Labels, StageInv, HoldInv, WorkerInv, ChannelInv, [Next]_vars
    PROVE  WorkerInv'
<1> USE DEF Labels, MoveProcessor
<1>0. \A d \in Deliveries : WorkerOf(d)
  BY DEF WorkerInv, WorkerOf
<1>1. ASSUME NEW p \in Processors, NEW d \in Deliveries \cup {None}, Takes(p, d),
             d # None => settled[d] = "none", UNCHANGED <<channelLost, adrift>>
      PROVE  WorkerInv'
  <2>1. CASE UseThrottle
    <3>1. /\ procPc[p] = "select" /\ procPc' = [procPc EXCEPT ![p] = "push"]
          /\ UNCHANGED <<workerPc, by, outcome, settled>>
      BY <1>1, <2>1 DEF Takes, workVars
    <3>2. \A e \in Deliveries : WorkerOf(e)'
      <4>1. MovesOn
        BY <3>1, OneMovesOn
      <4> QED BY <1>0, <1>1, <3>1, <4>1, WorkerKept
    <3> QED BY <3>2 DEF WorkerInv, WorkerOf
  <2>2. CASE ~UseThrottle
    BY <1>1, <2>2, WorkerLaunch DEF Takes
  <2> QED BY <2>1, <2>2
<1>2. CASE \E p \in Processors, d \in Deliveries : ProcessorReceives(p, d)
  BY <1>1, <1>2 DEF ProcessorReceives, Untaken, channelVars
<1>3. CASE \E p \in Processors : ProcessorReceivesEmpty(p)
  BY <1>1, <1>3 DEF ProcessorReceivesEmpty, channelVars
<1>4. CASE \E p \in Processors : ProcessorPushes(p)
  <2> PICK p \in Processors : ProcessorPushes(p)
    BY <1>4
  <2>1. /\ holding[p] \in Deliveries \cup {None}
        /\ holding[p] # None => settled[holding[p]] = "none"
    BY DEF HoldInv
  <2> QED BY <2>1, WorkerLaunch DEF ProcessorPushes, channelVars
<1>5. CASE \E p \in Processors : ProcessorStops(p)
  <2> PICK p \in Processors : ProcessorStops(p)
    BY <1>5
  <2>1. MovesOn
    BY OneMovesOn DEF ProcessorStops
  <2>2. UNCHANGED <<workerPc, by, outcome, settled, channelLost, adrift>>
    BY DEF ProcessorStops, workVars, channelVars
  <2>3. \A e \in Deliveries : WorkerOf(e)'
    BY <1>0, <2>1, <2>2, WorkerKept
  <2> QED BY <2>3 DEF WorkerInv, WorkerOf
<1>6. CASE \E p \in Processors : ProcessorGivesBack(p)
  <2> PICK p \in Processors : ProcessorGivesBack(p)
    BY <1>6
  <2>1. ASSUME NEW e \in Deliveries, e = holding[p] PROVE WorkerOf(e)'
    <3>1. workerPc[e] = "none"
      BY <2>1, ConstantsAssumption DEF HoldInv
    <3> QED BY <3>1 DEF ProcessorGivesBack, WorkerOf
  <2>2. ASSUME NEW e \in Deliveries, e # holding[p] PROVE WorkerOf(e)'
    <3>1. MovesOn
      BY OneMovesOn DEF ProcessorGivesBack
    <3>2. settled'[e] = settled[e]
      BY <2>2 DEF ProcessorGivesBack
    <3>3. UNCHANGED <<workerPc, by, outcome, channelLost, adrift>>
      BY DEF ProcessorGivesBack, channelVars
    <3> QED BY <1>0, <3>1, <3>2, <3>3, WorkerKept
  <2> QED BY <2>1, <2>2 DEF WorkerInv, WorkerOf
<1>7. CASE \E p \in Processors : ProcessorEnds(p)
  <2> PICK p \in Processors : ProcessorEnds(p)
    BY <1>7
  <2>1. /\ procPc' = [procPc EXCEPT ![p] = "done"]
        /\ \A d \in Deliveries : by[d] = p => workerPc[d] = "done"
        /\ UNCHANGED <<workerPc, by, outcome, settled, channelLost, adrift>>
    BY DEF ProcessorEnds, WorkersComplete, workVars, channelVars
  <2>2. \A e \in Deliveries : WorkerOf(e)'
    BY <1>0, <2>1 DEF WorkerOf, WorkerDid, Answered
  <2> QED BY <2>2 DEF WorkerInv, WorkerOf
<1>8. CASE RunLaunches
  <2>1. \A p \in Processors : procPc[p] = "off"
    BY <1>8 DEF RunLaunches, MoveRun, StageInv
  <2>2. \A e \in Deliveries : workerPc[e] = "none"
    BY <1>0, <2>1 DEF WorkerOf
  <2> QED BY <1>8, <2>2 DEF RunLaunches, WorkerInv, workVars
<1>9. CASE \E d \in Deliveries : \/ GiveBack(d) \/ HandlerReturns(d)
                                 \/ WorkerSettles(d) \/ WorkerEnds(d)
  BY <1>9, WorkerActs
<1>10. CASE Aside
  <2>1. (channelLost => channelLost') /\ adrift \subseteq adrift'
    BY <1>10
       DEF Aside, EmptyWorkerEnds, RunSetsUp, RunStarts, RunSetupFails, RunClosesErrs,
           RunReturns, CollectorListens, CollectorStores, CollectorSeesClosed,
           MonitorShutsDown, StartShutdown, ChannelCloses, ChannelReconnects, RunHangs,
           vars, channelVars
  <2>2. \A e \in Deliveries : WorkerOf(e)'
    BY <1>0, <1>10, <2>1, AsideLeaves, NoneMovesOn, WorkerKept
  <2> QED BY <2>2 DEF WorkerInv, WorkerOf
<1> QED BY <1>2, <1>3, <1>4, <1>5, <1>6, <1>7, <1>8, <1>9, <1>10
           DEF Next, Stops, Goroutines, Aside

-----------------------------------------------------------------------------
(***************************************************************************)
(* The theorems.                                                           *)
(***************************************************************************)

\* Inv holds at first.
LEMMA InvInit == Init => TypeOK /\ Inv
<1> SUFFICES ASSUME Init PROVE TypeOK /\ Inv
  OBVIOUS
<1>1. TypeOK /\ CountInv
  BY TypeInit, CountInit DEF TypeOK
<1>2. StageInv /\ HoldInv
  BY DEF Init, StageInv, HoldInv
<1>3. WorkerInv /\ ChannelInv /\ ErrorInv
  BY DEF Init, WorkerInv, ChannelInv, ErrorInv
<1> QED BY <1>1, <1>2, <1>3 DEF Inv

\* Every step keeps it.
LEMMA InvNext == TypeOK /\ Inv /\ [Next]_vars => TypeOK' /\ Inv'
<1> SUFFICES ASSUME TypeOK, Inv, [Next]_vars PROVE TypeOK' /\ Inv'
  OBVIOUS
<1>1. Labels
  BY DEF TypeOK
<1> QED BY <1>1, TypeNext, CountNext, StageNext, HoldNext, WorkerNext, ChannelNext,
           ErrorNext DEF Inv

\* Inv holds in every reachable state.
LEMMA InvCorrect == Spec => [](TypeOK /\ Inv)
BY InvInit, InvNext, PTL DEF Spec

\* Every variable keeps its type, and the throttle counts the workers there are
\* (processDeliveries, handleDelivery).
THEOREM ConsumerTypeCorrect == Spec => []TypeOK
BY InvCorrect, PTL

\* The workers of all processors together never exceed the limit of WithMaxWorkers,
\* however many processors push at once (processDeliveries).
THEOREM LimitRespected == Spec => []WorkersBounded
<1>1. TypeOK /\ Inv => WorkersBounded
  <2> SUFFICES ASSUME TypeOK, Inv, UseThrottle
               PROVE  Cardinality(Working) + Cardinality(emptyWorkers) <= maxWorkers
    BY DEF WorkersBounded
  <2>1. IsFiniteSet(Busy) /\ throttle <= maxWorkers /\ CountInv
    BY DEF Inv, CountInv
  <2>2. Working \in SUBSET Busy
    BY DEF Working, Busy
  <2>3. /\ Cardinality(Working) <= Cardinality(Busy)
        /\ Cardinality(Working) \in Nat
    BY <2>1, <2>2, FS_Subset, FS_CardinalityType
  <2>4. /\ throttle = Cardinality(emptyWorkers) + Cardinality(Busy)
        /\ Cardinality(emptyWorkers) \in Nat /\ Cardinality(Busy) \in Nat
        /\ maxWorkers \in Nat
    BY <2>1, CountTypes DEF ThrottleCounts
  <2> QED BY <2>1, <2>3, <2>4
<1> QED BY <1>1, InvCorrect, PTL

\* When Run has returned on a channel that only it closed, every worker has ended, and what
\* was settled before the Channel reconnected is settled as its handler said, whatever shut
\* the consumer down (processDeliveries, mewAckNackMiddleware).
THEOREM WorkersSettle == Spec => []DeliveriesSettled
<1>1. TypeOK /\ Inv => DeliveriesSettled
  <2> SUFFICES ASSUME Labels, Inv, runPc = "returned", ~channelLost,
                      NEW d \in Deliveries, workerPc[d] # "none"
               PROVE  /\ workerPc[d] = "done"
                      /\ IF by[d] \in AutoAck THEN settled[d] = "none"
                         ELSE d \notin adrift =>
                              /\ settled[d] = "acked" <=> outcome[d] = "ok"
                              /\ settled[d] = "nacked" <=> outcome[d] = "error"
                              /\ settled[d] = "requeued" <=> outcome[d] = "requeue"
    BY DEF DeliveriesSettled, TypeOK
  <2>1. workerPc[d] = "done" /\ WorkerDid(d)
    BY DEF Inv, StageInv, WorkerInv
  <2>2. CASE by[d] \notin AutoAck /\ d \notin adrift
    <3>1. /\ settled[d] = AnswerTo(outcome[d])
          /\ outcome[d] \in {"ok", "error", "requeue"}
      BY <2>1, <2>2 DEF WorkerDid, Answered, Labels
    <3> QED BY <2>1, <2>2, <3>1 DEF AnswerTo
  <2> QED BY <2>1, <2>2 DEF WorkerDid
<1> QED BY <1>1, InvCorrect, PTL

\* A failed cleanup is what Run returns, if the collector was listening by then
\* (runProcessor, Run).
THEOREM CleanupErrorReported == Spec => []ErrorReported
<1>1. TypeOK /\ Inv => ErrorReported
  BY DEF Inv, ErrorInv, ErrorReported
<1> QED BY <1>1, InvCorrect, PTL
=============================================================================
