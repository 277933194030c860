------------------------------ MODULE Consumer ------------------------------
(***************************************************************************)
(* The Consumer (pkg/roger/rconsumer): a goroutine for each processor      *)
(* takes deliveries and hands each to a worker; the workers of all         *)
(* processors share one throttle.  A worker settles its delivery as the    *)
(* user's handler said.  Run waits for all of them.                        *)
(*                                                                         *)
(* A Channel that was closed closes what it gave to its consumers, and a   *)
(* processor then receives what was buffered, and after it empty           *)
(* deliveries (None) until it is stopped.  A Channel that reconnects stays *)
(* open, but does not translate acknowledgements back to the tags of the   *)
(* broker (DeliveryTags), and handleDelivery drops the errors they return. *)
(***************************************************************************)
EXTENDS Integers, FiniteSets

CONSTANTS
    Processors,
    AutoAck,            \* the processors whose deliveries the broker takes for acknowledged
    Deliveries,         \* numbers
    MaxWorkers,         \* a limit given to WithMaxWorkers
    MaxEmpty,           \* bound: empty deliveries a processor has in hand at a time
    None                \* no delivery, or an empty one

ASSUME ConstantsAssumption ==
    /\ AutoAck \subseteq Processors
    /\ Deliveries \subseteq Nat
    /\ MaxWorkers \in Nat \ {0}
    /\ MaxEmpty \in Nat
    /\ None \notin Deliveries

VARIABLES
    maxWorkers,         \* the option: the limit, or 0 for none
    ctxDone,            \* the consumer's context is cancelled
    runPc, runError,    \* where Run is, and whether it returns an error
    consuming,          \* the processors that were set up
    exhausted,          \* those whose channel of deliveries is closed and empty
    collectorPc,        \* the goroutine that waits for the first error
    errsClosed,         \* processorErrs is closed
    monitorPc,          \* the goroutine that waits for the Channel to close
    procPc, holding,    \* each processor, and the delivery it waits to hand over
    failed,             \* processors whose cleanup failed
    tooEarly,           \* those that failed before anyone listened for errors
    throttle,           \* places taken on workerThrottle
    workerPc, by,       \* the worker of each delivery, and the processor it is for
    outcome,            \* what the handler said
    settled,            \* what became of the delivery
    emptyWorkers,       \* <<p, i>>: worker i of processor p has an empty delivery
    channelOpen, channelLost,   \* lost: it was closed by someone else
    adrift                      \* the deliveries not settled when the Channel reconnected

runVars      == <<runPc, runError, consuming>>
helperVars   == <<collectorPc, errsClosed, monitorPc>>
procVars     == <<procPc, holding, exhausted, failed, tooEarly>>
workVars     == <<throttle, workerPc, by, outcome, settled, emptyWorkers>>
channelVars  == <<channelOpen, channelLost, adrift>>

vars == <<maxWorkers, ctxDone, runVars, helperVars, procVars, workVars, channelVars>>

Init ==
    /\ maxWorkers \in {0, MaxWorkers}
    /\ ctxDone = FALSE
    /\ runPc = "called" /\ runError = FALSE
    /\ consuming = {} /\ exhausted = {}
    /\ collectorPc = "off" /\ errsClosed = FALSE
    /\ monitorPc = "off"
    /\ procPc = [p \in Processors |-> "off"]
    /\ holding = [p \in Processors |-> None]
    /\ failed = {} /\ tooEarly = {}
    /\ throttle = 0
    /\ workerPc = [d \in Deliveries |-> "none"]
    /\ by = [d \in Deliveries |-> None]
    /\ outcome = [d \in Deliveries |-> "none"]
    /\ settled = [d \in Deliveries |-> "none"]
    /\ emptyWorkers = {}
    /\ channelOpen = TRUE /\ channelLost = FALSE
    /\ adrift = {}

-----------------------------------------------------------------------------
(***************************************************************************)
(* runProcessor and processDeliveries.                                     *)
(***************************************************************************)

MoveProcessor(p, from, to) ==
    procPc[p] = from /\ procPc' = [procPc EXCEPT ![p] = to]

UseThrottle == maxWorkers > 0

\* The deliveries that have a worker, and the workers of p that have an empty one.
Busy       == {d \in Deliveries : workerPc[d] \notin {"none", "done"}}
EmptyOf(p) == {w \in emptyWorkers : w[1] = p}

\* A place for one more empty delivery in the hands of p (MaxEmpty).
FreeEmpty(p) == {i \in 1 .. MaxEmpty : <<p, i>> \notin emptyWorkers}

\* Variant: each processor has a throttle of its own.
HasRoom_OfProcessor(p) ==
    Cardinality({d \in Busy : by[d] = p}) + Cardinality(EmptyOf(p)) < maxWorkers
HasRoom(p)             == throttle < maxWorkers

\* go handleDelivery, for the delivery d or for an empty one.
Launch(p, d) ==
    /\ throttle' = IF UseThrottle THEN throttle + 1 ELSE throttle
    /\ IF d = None
       THEN /\ \E i \in FreeEmpty(p) : emptyWorkers' = emptyWorkers \cup {<<p, i>>}
            /\ UNCHANGED <<workerPc, by>>
       ELSE /\ workerPc' = [workerPc EXCEPT ![d] = "handling"]
            /\ by' = [by EXCEPT ![d] = p]
            /\ UNCHANGED emptyWorkers
    /\ UNCHANGED <<outcome, settled>>

Takes(p, d) ==
    IF UseThrottle
    THEN /\ MoveProcessor(p, "select", "push")
         /\ holding' = [holding EXCEPT ![p] = d]
         /\ UNCHANGED workVars
    ELSE /\ procPc[p] = "select"
         /\ Launch(p, d)
         /\ UNCHANGED <<procPc, holding>>

Untaken(d) ==
    /\ workerPc[d] = "none"
    /\ settled[d] = "none"
    /\ \A q \in Processors : holding[q] # d

\* The broker gives a delivery to one consumer; some may be buffered when the Channel closes.
\* Deliveries are numbered in the order they are received.
ProcessorReceives(p, d) ==
    /\ p \notin exhausted
    /\ Untaken(d)
    /\ \A e \in Deliveries : e < d => ~Untaken(e)
    /\ Takes(p, d)
    /\ UNCHANGED <<maxWorkers, ctxDone, runVars, helperVars, exhausted, failed, tooEarly,
                   channelVars>>

ProcessorReceivesEmpty(p) ==
    /\ ~channelOpen
    /\ FreeEmpty(p) # {}
    /\ Takes(p, None)
    /\ exhausted' = exhausted \cup {p}
    /\ UNCHANGED <<maxWorkers, ctxDone, runVars, helperVars, failed, tooEarly, channelVars>>

ProcessorPushes(p) ==
    /\ MoveProcessor(p, "push", "select")
    /\ HasRoom(p)
    /\ Launch(p, holding[p])
    /\ holding' = [holding EXCEPT ![p] = None]
    /\ UNCHANGED <<maxWorkers, ctxDone, runVars, helperVars, exhausted, failed, tooEarly,
                   channelVars>>

ProcessorStops(p) ==
    /\ ctxDone
    /\ MoveProcessor(p, "select", "drain")
    /\ UNCHANGED <<maxWorkers, ctxDone, runVars, helperVars, holding, exhausted, failed,
                   tooEarly, workVars, channelVars>>

\* The delivery in hand is given back by a goroutine of its own.
ProcessorGivesBack(p) ==
    /\ ctxDone
    /\ MoveProcessor(p, "push", "drain")
    /\ holding' = [holding EXCEPT ![p] = None]
    /\ settled' = IF holding[p] = None THEN settled
                  ELSE [settled EXCEPT ![holding[p]] = "givingBack"]
    /\ UNCHANGED <<maxWorkers, ctxDone, runVars, helperVars, exhausted, failed, tooEarly,
                   throttle, workerPc, by, outcome, emptyWorkers, channelVars>>

\* What becomes of a delivery that is answered.  After a reconnection the answer may be
\* refused, or settle another delivery, so that of none it is known what settled it.
FateOf(d, answer) ==
    CASE ~channelOpen                   -> "lost"
      [] channelOpen /\ d \notin adrift -> answer
      [] OTHER                          -> "unknown"

\* Nobody waits for this goroutine: Run may have closed the Channel.
GiveBack(d) ==
    /\ settled[d] = "givingBack"
    /\ settled' = [settled EXCEPT ![d] = FateOf(d, "requeued")]
    /\ UNCHANGED <<maxWorkers, ctxDone, runVars, helperVars, procVars, throttle, workerPc,
                   by, outcome, emptyWorkers, channelVars>>

\* Variant: the processor leaves its workers at work.
WorkersComplete_NotAwaited(p) == TRUE
WorkersComplete(p) ==
    /\ EmptyOf(p) = {}
    /\ \A d \in Deliveries : by[d] = p => workerPc[d] = "done"

CollectorAfterError == IF collectorPc = "receive" THEN "store" ELSE collectorPc

\* CleanupChannel; its error is given to the collector if that one is there to take it.
ProcessorEnds(p) ==
    /\ MoveProcessor(p, "drain", "done")
    /\ WorkersComplete(p)
    /\ \/ UNCHANGED <<failed, tooEarly, collectorPc>>
       \/ /\ failed' = failed \cup {p}
          /\ collectorPc' = CollectorAfterError
          /\ tooEarly' = IF collectorPc = "start" THEN tooEarly \cup {p} ELSE tooEarly
    /\ UNCHANGED <<maxWorkers, ctxDone, runVars, errsClosed, monitorPc, holding, exhausted,
                   workVars, channelVars>>

-----------------------------------------------------------------------------
(***************************************************************************)
(* handleDelivery, with the middleware around the user's handler.          *)
(***************************************************************************)

MoveWorker(d, from, to) ==
    workerPc[d] = from /\ workerPc' = [workerPc EXCEPT ![d] = to]

\* The handler returns no error, or one with or without requeue; a panic is recovered and
\* is an error without.  Nobody asks where the broker has acknowledged.
HandlerReturns(d) ==
    /\ \/ /\ by[d] \in AutoAck
          /\ MoveWorker(d, "handling", "end")
          /\ UNCHANGED outcome
       \/ /\ by[d] \notin AutoAck
          /\ MoveWorker(d, "handling", "settle")
          /\ \E o \in {"ok", "error", "requeue"} : outcome' = [outcome EXCEPT ![d] = o]
    /\ UNCHANGED <<maxWorkers, ctxDone, runVars, helperVars, procVars, throttle, by,
                   settled, emptyWorkers, channelVars>>

AnswerTo(o) ==
    CASE o = "ok" -> "acked"
      [] o = "requeue" -> "requeued"
      [] OTHER -> "nacked"

WorkerSettles(d) ==
    /\ MoveWorker(d, "settle", "end")
    /\ settled' = [settled EXCEPT ![d] = FateOf(d, AnswerTo(outcome[d]))]
    /\ UNCHANGED <<maxWorkers, ctxDone, runVars, helperVars, procVars, throttle, by,
                   outcome, emptyWorkers, channelVars>>

\* Variant: the place on the throttle is not given back.
ThrottleAfterWork_Kept == throttle
ThrottleAfterWork      == IF UseThrottle THEN throttle - 1 ELSE throttle

WorkerEnds(d) ==
    /\ MoveWorker(d, "end", "done")
    /\ throttle' = ThrottleAfterWork
    /\ UNCHANGED <<maxWorkers, ctxDone, runVars, helperVars, procVars, by, outcome, settled,
                   emptyWorkers, channelVars>>

EmptyWorkerEnds(p) ==
    /\ \E w \in EmptyOf(p) : emptyWorkers' = emptyWorkers \ {w}
    /\ throttle' = ThrottleAfterWork
    /\ UNCHANGED <<maxWorkers, ctxDone, runVars, helperVars, procVars, workerPc, by,
                   outcome, settled, channelVars>>

-----------------------------------------------------------------------------
(***************************************************************************)
(* Run, and the goroutines it launches.                                    *)
(***************************************************************************)

MoveRun(from, to) == runPc = from /\ runPc' = to

RunStarts ==
    /\ MoveRun("called", "setup")
    /\ collectorPc' = "start"
    /\ monitorPc' = IF channelOpen THEN "wait" ELSE "told"
    /\ UNCHANGED <<maxWorkers, ctxDone, runError, consuming, errsClosed, procVars, workVars,
                   channelVars>>

RunSetsUp(p) ==
    /\ runPc = "setup"
    /\ channelOpen
    /\ p \notin consuming
    /\ consuming' = consuming \cup {p}
    /\ UNCHANGED <<maxWorkers, ctxDone, runPc, runError, helperVars, procVars, workVars,
                   channelVars>>

\* The user's SetupChannel fails: the collector is left waiting.
RunSetupFails ==
    /\ MoveRun("setup", "returned")
    /\ consuming # Processors
    /\ runError' = TRUE
    /\ ctxDone' = TRUE
    /\ channelOpen' = FALSE
    /\ UNCHANGED <<maxWorkers, consuming, helperVars, procVars, workVars, channelLost, adrift>>

\* Consume returns no error: on a Channel that was closed it does not return.
RunHangs ==
    /\ MoveRun("setup", "hung")
    /\ consuming # Processors
    /\ ~channelOpen
    /\ UNCHANGED <<maxWorkers, ctxDone, runError, consuming, helperVars, procVars, workVars,
                   channelVars>>

RunLaunches ==
    /\ MoveRun("setup", "wait")
    /\ consuming = Processors
    /\ procPc' = [p \in Processors |-> "select"]
    /\ UNCHANGED <<maxWorkers, ctxDone, runError, consuming, helperVars, holding, exhausted,
                   failed, tooEarly, workVars, channelVars>>

ClosesErrs           == TRUE

RunClosesErrs ==
    /\ MoveRun("wait", "collect")
    /\ \A p \in Processors : procPc[p] = "done"
    /\ errsClosed' = ClosesErrs
    /\ UNCHANGED <<maxWorkers, ctxDone, runError, consuming, collectorPc, monitorPc,
                   procVars, workVars, channelVars>>

\* Variant: Run does not wait for the collector.
ErrsCollected_NotAwaited == TRUE
ErrsCollected            == collectorPc = "done"

RunReturns ==
    /\ MoveRun("collect", "returned")
    /\ ErrsCollected
    /\ ctxDone' = TRUE
    /\ channelOpen' = FALSE
    /\ UNCHANGED <<maxWorkers, runError, consuming, helperVars, procVars, workVars,
                   channelLost, adrift>>

CollectorListens ==
    /\ collectorPc = "start"
    /\ collectorPc' = "receive"
    /\ UNCHANGED <<maxWorkers, ctxDone, runVars, errsClosed, monitorPc, procVars, workVars,
                   channelVars>>

\* What it stores is what Run returns, as long as Run has not returned.
CollectorStores ==
    /\ collectorPc = "store"
    /\ collectorPc' = "done"
    /\ runError' = (runError \/ runPc # "returned")
    /\ ctxDone' = TRUE
    /\ UNCHANGED <<maxWorkers, runPc, consuming, errsClosed, monitorPc, procVars, workVars,
                   channelVars>>

CollectorSeesClosed ==
    /\ collectorPc = "receive"
    /\ errsClosed
    /\ collectorPc' = "done"
    /\ ctxDone' = TRUE
    /\ UNCHANGED <<maxWorkers, runVars, errsClosed, monitorPc, procVars, workVars,
                   channelVars>>

MonitorShutsDown ==
    /\ monitorPc = "told"
    /\ monitorPc' = "done"
    /\ ctxDone' = TRUE
    /\ UNCHANGED <<maxWorkers, runVars, collectorPc, errsClosed, procVars, workVars,
                   channelVars>>

StartShutdown ==
    /\ ~ctxDone
    /\ ctxDone' = TRUE
    /\ UNCHANGED <<maxWorkers, runVars, helperVars, procVars, workVars, channelVars>>

\* Somebody closes the Channel, or its Connection: then nobody tells the monitor.
ChannelCloses ==
    /\ channelOpen
    /\ channelOpen' = FALSE
    /\ channelLost' = TRUE
    /\ monitorPc' \in IF monitorPc = "wait" THEN {"wait", "told"} ELSE {monitorPc}
    /\ UNCHANGED <<maxWorkers, ctxDone, runVars, collectorPc, errsClosed, procVars,
                   workVars, adrift>>

\* The streadway channel is lost and replaced: tags are not the broker's any more.
ChannelReconnects ==
    /\ channelOpen
    /\ adrift' = adrift \cup {d \in Deliveries : settled[d] \in {"none", "givingBack"}}
    /\ UNCHANGED <<maxWorkers, ctxDone, runVars, helperVars, procVars, workVars,
                   channelOpen, channelLost>>

-----------------------------------------------------------------------------
Stops == \E p \in Processors : ProcessorStops(p) \/ ProcessorGivesBack(p)

\* The steps the scheduler, the user's handlers and the Channel owe the consumer.
Goroutines ==
    \/ \E d \in Deliveries :
        HandlerReturns(d) \/ WorkerSettles(d) \/ WorkerEnds(d) \/ GiveBack(d)
    \/ \E p \in Processors : EmptyWorkerEnds(p) \/ ProcessorEnds(p) \/ RunSetsUp(p)
    \/ RunSetupFails \/ RunHangs \/ RunLaunches \/ RunClosesErrs \/ RunReturns
    \/ CollectorListens \/ CollectorStores \/ CollectorSeesClosed

Next ==
    \/ \E p \in Processors :
        \/ \E d \in Deliveries : ProcessorReceives(p, d)
        \/ ProcessorReceivesEmpty(p)
        \/ ProcessorPushes(p)
    \/ Stops
    \/ Goroutines
    \/ MonitorShutsDown
    \/ RunStarts
    \/ StartShutdown
    \/ ChannelCloses
    \/ ChannelReconnects

Spec == Init /\ [][Next]_vars

\* A select picks among its ready cases at random: a processor does not prefer its
\* deliveries to the end of the context for ever.  Once the monitor and the processors have
\* stopped, no goroutine loops, so it is enough that some goroutine moves while one can.
FairSpec ==
    /\ Spec
    /\ WF_vars(Stops \/ MonitorShutsDown)
    /\ WF_vars(Goroutines)

-----------------------------------------------------------------------------
(***************************************************************************)
(* Properties.                                                             *)
(***************************************************************************)

\* Deliveries handlers are at work on.
Working == {d \in Deliveries : workerPc[d] \in {"handling", "settle"}}

\* The throttle counts the workers that have not ended.
ThrottleCounts ==
    throttle = IF UseThrottle THEN Cardinality(emptyWorkers) + Cardinality(Busy) ELSE 0

\* The labels and the sets the variables range over.
Labels ==
    /\ ctxDone \in BOOLEAN /\ runError \in BOOLEAN /\ errsClosed \in BOOLEAN
    /\ channelOpen \in BOOLEAN /\ channelLost \in BOOLEAN
    /\ runPc \in {"called", "setup", "hung", "wait", "collect", "returned"}
    /\ maxWorkers \in {0, MaxWorkers}
    /\ consuming \subseteq Processors
    /\ exhausted \subseteq consuming
    /\ collectorPc \in {"off", "start", "receive", "store", "done"}
    /\ monitorPc \in {"off", "wait", "told", "done"}
    /\ procPc \in [Processors -> {"off", "select", "push", "drain", "done"}]
    /\ holding \in [Processors -> Deliveries \cup {None}]
    /\ failed \subseteq Processors /\ tooEarly \subseteq failed
    /\ workerPc \in [Deliveries -> {"none", "handling", "settle", "end", "done"}]
    /\ by \in [Deliveries -> Processors \cup {None}]
    /\ outcome \in [Deliveries -> {"none", "ok", "error", "requeue"}]
    /\ settled \in [Deliveries ->
                       {"none", "givingBack", "acked", "nacked", "requeued", "lost", "unknown"}]
    /\ emptyWorkers \subseteq Processors \X (1 .. MaxEmpty)
    /\ adrift \subseteq Deliveries

\* Every variable keeps its type, and the throttle counts the workers that have not ended
\* (consumer.go:69, "free a space on the throttle at the end of this work").
TypeOK == Labels /\ ThrottleCounts

\* The workers of all processors together respect the limit, those with an empty delivery
\* included (opts.go:36, "the maximum number of workers that can be running").
WorkersBounded == UseThrottle => Cardinality(Working) + Cardinality(emptyWorkers) <= maxWorkers

\* When Run has returned on a channel that only it closed, no worker is at work, and every
\* delivery whose worker was done with it before the Channel first reconnected is settled as
\* its handler said; a processor that has the broker acknowledge settles nothing
\* (consumer.go:132, requiredMiddleware.go:43).  Of the others nothing is promised: a
\* reconnection leaves acknowledgements that are refused or name other deliveries
\* (deliveryTags.go:132, 150), and consumer.go:80 drops the error.
DeliveriesSettled ==
    runPc = "returned" /\ ~channelLost =>
        \A d \in Deliveries :
            workerPc[d] # "none" =>
                /\ workerPc[d] = "done"
                /\ IF by[d] \in AutoAck THEN settled[d] = "none"
                   ELSE d \notin adrift =>
                        /\ settled[d] = "acked" <=> outcome[d] = "ok"
                        /\ settled[d] = "nacked" <=> outcome[d] = "error"
                        /\ settled[d] = "requeued" <=> outcome[d] = "requeue"

\* Run reports the failure of a cleanup, unless the processors failed before the goroutine
\* that collects errors was listening (consumer.go:93, "We need to communicate any
\* unexpected errors to the main thread").
ErrorReported == runPc = "returned" /\ ~runError => failed \subseteq tooEarly

\* After a shutdown, or the end of the Channel, Run returns (consumer.go:199, "blocks until
\* the consumer has completed shutdown"), unless the Channel was closed before all processors
\* were set up: then it may wait for Consume for ever (consumer.go:179).
RunEnds ==
    (ctxDone \/ monitorPc = "told") /\ runPc # "called" ~>
        runPc = "returned" \/ (runPc = "hung" /\ ~channelOpen)
=============================================================================
