------------------------------ MODULE Producer ------------------------------
(***************************************************************************)
(* The Producer (pkg/roger/rproducer/producer.go): callers of Publish put  *)
(* orders into a bounded queue; the publisher publishes them one after     *)
(* another and passes them to the confirmer, which answers each with the   *)
(* confirmation that comes next.  Shutdown closes one queue after the      *)
(* other.                                                                  *)
(*                                                                         *)
(* The Channel is what PublishTags shows it to be: one confirmation after  *)
(* another, numbered from 1, for the publications it accepted, until its   *)
(* confirmation relay is cancelled.  That may happen after a publication   *)
(* failed on a live streadway channel: the Channel moves to another one,   *)
(* and the relay stays with the first until that ends.                     *)
(***************************************************************************)
EXTENDS Naturals, Sequences, FiniteSets

CONSTANTS
    Orders,         \* publications, each by a caller of its own
    QueueCapacity,  \* WithInternalQueueCapacity
    MaxCancelled,   \* bound: orders whose callers cancel them
    None            \* no order

ASSUME ConstantsAssumption ==
    /\ QueueCapacity \in Nat \ {0}
    /\ MaxCancelled \in Nat
    /\ None \notin Orders

VARIABLES
    confirmPublish,     \* the option WithConfirmPublish
    ctxDone,            \* the producer's context is cancelled
    publishQueue, publishQueueClosed,
    confirmQueue, confirmQueueClosed,
    callerPc,                   \* where each caller is
    orderDone,                  \* whether its context is cancelled
    result,                     \* the channel of one place each order is answered on
    publisherPc, publishing, deliveryTag, publicationTag,
    confirmerPc, confirming,
    closerPc, monitorPc, runPc,
    channelOpen, channelLost,   \* lost: it was closed by someone else
    published,                  \* what the broker has taken, in order
    confirmed,                  \* how many of these it has confirmed
    acked,                      \* those it has taken charge of
    publishEvents, publishEventsClosed,
    relay,                      \* the confirmation relay, once NotifyPublish was called
    lastStray, nextStray,       \* of a cancelled one: what it has left to pass
    panicked

queueVars     == <<publishQueue, publishQueueClosed, confirmQueue, confirmQueueClosed>>
callerVars    == <<callerPc, orderDone>>
publisherVars == <<publisherPc, publishing, deliveryTag, publicationTag>>
confirmerVars == <<confirmerPc, confirming>>
runVars       == <<closerPc, monitorPc, runPc>>
channelVars   == <<channelOpen, channelLost, published, confirmed, acked>>
eventVars     == <<publishEvents, publishEventsClosed>>
relayVars     == <<relay, lastStray, nextStray>>

vars == <<confirmPublish, ctxDone, queueVars, callerVars, result, publisherVars,
          confirmerVars, runVars, channelVars, eventVars, relayVars, panicked>>

Init ==
    /\ confirmPublish \in BOOLEAN
    /\ ctxDone = FALSE
    /\ publishQueue = <<>> /\ publishQueueClosed = FALSE
    /\ confirmQueue = <<>> /\ confirmQueueClosed = FALSE
    /\ callerPc = [o \in Orders |-> "idle"]
    /\ orderDone = [o \in Orders |-> FALSE]
    /\ result = [o \in Orders |-> "none"]
    /\ publisherPc = "off" /\ publishing = None
    /\ deliveryTag = 0
    /\ publicationTag = [o \in Orders |-> 0]
    /\ confirmerPc = "off" /\ confirming = None
    /\ closerPc = "off" /\ monitorPc = "off" /\ runPc = "called"
    /\ channelOpen = TRUE /\ channelLost = FALSE
    /\ published = <<>>
    /\ confirmed = 0
    /\ acked = {}
    /\ publishEvents = <<>> /\ publishEventsClosed = FALSE
    /\ relay = "none" /\ lastStray = 0 /\ nextStray = 0
    /\ panicked = FALSE

-----------------------------------------------------------------------------
(***************************************************************************)
(* Callers: Publish, or QueueForPublication and WaitOnConfirmation.        *)
(***************************************************************************)

MoveCaller(o, from, to) ==
    callerPc[o] = from /\ callerPc' = [callerPc EXCEPT ![o] = to]

\* The caller cancels its context, or its deadline passes.
CancelOrder(o) ==
    /\ callerPc[o] \in {"push", "wait"}
    /\ ~orderDone[o]
    /\ Cardinality({p \in Orders : orderDone[p]}) < MaxCancelled
    /\ orderDone' = [orderDone EXCEPT ![o] = TRUE]
    /\ UNCHANGED <<confirmPublish, ctxDone, queueVars, callerPc, result, publisherVars,
                   confirmerVars, runVars, channelVars, eventVars, relayVars, panicked>>

CallerReturns(o, from) ==
    /\ MoveCaller(o, from, "returned")
    /\ UNCHANGED <<confirmPublish, ctxDone, queueVars, orderDone, result, publisherVars,
                   confirmerVars, runVars, channelVars, eventVars, relayVars, panicked>>

\* The goroutine that closes the queue waits for the lock, or has it: no reader passes.
CallerRLock(o) ==
    /\ closerPc # "lock"
    /\ ~ctxDone
    /\ MoveCaller(o, "idle", "push")
    /\ UNCHANGED <<confirmPublish, ctxDone, queueVars, orderDone, result, publisherVars,
                   confirmerVars, runVars, channelVars, eventVars, relayVars, panicked>>

CallerRefused(o) ==
    /\ closerPc # "lock"
    /\ ctxDone
    /\ CallerReturns(o, "idle")

CallerPushes(o) ==
    /\ MoveCaller(o, "push", "wait")
    /\ publishQueueClosed \/ Len(publishQueue) < QueueCapacity
    /\ IF publishQueueClosed
       THEN panicked' = TRUE /\ UNCHANGED publishQueue
       ELSE publishQueue' = Append(publishQueue, o) /\ UNCHANGED panicked
    /\ UNCHANGED <<confirmPublish, ctxDone, publishQueueClosed, confirmQueue,
                   confirmQueueClosed, orderDone, result, publisherVars, confirmerVars,
                   runVars, channelVars, eventVars, relayVars>>

CallerGivesUp(o) ==
    /\ ctxDone \/ orderDone[o]
    /\ CallerReturns(o, "push")

Call(o) == CallerRLock(o) \/ CallerRefused(o)

\* Waiting for the answer (WaitOnConfirmation) only reads it, at any time later.
Caller(o) == CallerPushes(o) \/ CallerGivesUp(o)

-----------------------------------------------------------------------------
(***************************************************************************)
(* runPublisher.                                                           *)
(***************************************************************************)

MovePublisher(from, to) == publisherPc = from /\ publisherPc' = to

PublisherTakes ==
    /\ MovePublisher("range", "publish")
    /\ publishQueue # <<>>
    /\ publishing' = Head(publishQueue)
    /\ ~orderDone[Head(publishQueue)]
    /\ publishQueue' = Tail(publishQueue)
    /\ UNCHANGED <<confirmPublish, ctxDone, publishQueueClosed, confirmQueue,
                   confirmQueueClosed, callerVars, result, deliveryTag, publicationTag,
                   confirmerVars, runVars, channelVars, eventVars, relayVars, panicked>>

\* An order whose context is cancelled is skipped, and not answered.
PublisherSkips ==
    /\ publisherPc = "range"
    /\ publishQueue # <<>>
    /\ orderDone[Head(publishQueue)]
    /\ publishQueue' = Tail(publishQueue)
    /\ UNCHANGED <<confirmPublish, ctxDone, publishQueueClosed, confirmQueue,
                   confirmQueueClosed, callerVars, result, publisherVars, confirmerVars,
                   runVars, channelVars, eventVars, relayVars, panicked>>

\* The Channel is closed, or refuses the message: then it is given another streadway channel.
PublisherFails ==
    /\ MovePublisher("publish", "range")
    /\ result' = [result EXCEPT ![publishing] = "publishError"]
    /\ publishing' = None
    /\ relay' = IF channelOpen /\ relay = "attached" THEN "replacing" ELSE relay
    /\ UNCHANGED <<confirmPublish, ctxDone, queueVars, callerVars, deliveryTag,
                   publicationTag, confirmerVars, runVars, channelVars, eventVars, lastStray,
                   nextStray, panicked>>

\* Without confirmations nobody answers the order.
PublisherPublishes ==
    /\ channelOpen
    /\ MovePublisher("publish", IF confirmPublish THEN "confirm" ELSE "range")
    /\ published' = Append(published, publishing)
    /\ deliveryTag' = deliveryTag + 1
    /\ publicationTag' = IF confirmPublish
                         THEN [publicationTag EXCEPT ![publishing] = deliveryTag + 1]
                         ELSE publicationTag
    /\ publishing' = IF confirmPublish THEN publishing ELSE None
    /\ UNCHANGED <<confirmPublish, ctxDone, queueVars, callerVars, result, confirmerVars,
                   runVars, channelOpen, channelLost, confirmed, acked, eventVars, relayVars,
                   panicked>>

PublisherPasses ==
    /\ MovePublisher("confirm", "range")
    /\ Len(confirmQueue) < QueueCapacity
    /\ confirmQueue' = Append(confirmQueue, publishing)
    /\ publishing' = None
    /\ UNCHANGED <<confirmPublish, ctxDone, publishQueue, publishQueueClosed,
                   confirmQueueClosed, callerVars, result, deliveryTag, publicationTag,
                   confirmerVars, runVars, channelVars, eventVars, relayVars, panicked>>

\* Variant: the publisher leaves what is queued when the queue is closed.
QueueDrained_Ignored == publishQueueClosed
QueueDrained         == publishQueueClosed /\ publishQueue = <<>>

\* Variant: the publisher does not close the queue of the confirmer.
ClosesConfirmQueue_Forgotten == FALSE
ClosesConfirmQueue           == TRUE

PublisherEnds ==
    /\ MovePublisher("range", "done")
    /\ QueueDrained
    /\ confirmQueueClosed' = ClosesConfirmQueue
    /\ UNCHANGED <<confirmPublish, ctxDone, publishQueue, publishQueueClosed, confirmQueue,
                   callerVars, result, publishing, deliveryTag, publicationTag,
                   confirmerVars, runVars, channelVars, eventVars, relayVars, panicked>>

Publisher ==
    \/ PublisherTakes \/ PublisherSkips \/ PublisherFails
    \/ PublisherPublishes \/ PublisherPasses \/ PublisherEnds

-----------------------------------------------------------------------------
(***************************************************************************)
(* runConfirmations.                                                       *)
(***************************************************************************)

MoveConfirmer(from, to) == confirmerPc = from /\ confirmerPc' = to

ConfirmerTakes ==
    /\ MoveConfirmer("range", "receive")
    /\ confirmQueue # <<>>
    /\ confirming' = Head(confirmQueue)
    /\ confirmQueue' = Tail(confirmQueue)
    /\ UNCHANGED <<confirmPublish, ctxDone, publishQueue, publishQueueClosed,
                   confirmQueueClosed, callerVars, result, publisherVars, runVars,
                   channelVars, eventVars, relayVars, panicked>>

\* Variant: any confirmation is taken for an acknowledgement.
ResultOf_Ack(event) == "ok"
ResultOf(event)     == IF event.ack THEN "ok" ELSE "nack"

ConfirmerAnswers ==
    /\ confirmerPc = "receive"
    /\ publishEvents # <<>>
    /\ LET event == Head(publishEvents)
       IN  IF event.tag = publicationTag[confirming]
           THEN /\ confirmerPc' = "range"
                /\ result' = [result EXCEPT ![confirming] = ResultOf(event)]
                /\ UNCHANGED panicked
           ELSE /\ confirmerPc' = "panic"
                /\ panicked' = TRUE
                /\ UNCHANGED result
    /\ publishEvents' = Tail(publishEvents)
    /\ confirming' = None
    /\ UNCHANGED <<confirmPublish, ctxDone, queueVars, callerVars, publisherVars, runVars,
                   channelVars, publishEventsClosed, relayVars>>

\* The confirmations are over: only the order in hand is answered.
ConfirmerSeesClosed ==
    /\ MoveConfirmer("receive", "done")
    /\ publishEvents = <<>> /\ publishEventsClosed
    /\ result' = [result EXCEPT ![confirming] = "closed"]
    /\ confirming' = None
    /\ ctxDone' = TRUE
    /\ UNCHANGED <<confirmPublish, queueVars, callerVars, publisherVars, runVars,
                   channelVars, eventVars, relayVars, panicked>>

ConfirmerEnds ==
    /\ MoveConfirmer("range", "done")
    /\ confirmQueue = <<>> /\ confirmQueueClosed
    /\ ctxDone' = TRUE
    /\ UNCHANGED <<confirmPublish, queueVars, callerVars, result, publisherVars, confirming,
                   runVars, channelVars, eventVars, relayVars, panicked>>

Confirmer == ConfirmerTakes \/ ConfirmerAnswers \/ ConfirmerSeesClosed \/ ConfirmerEnds

-----------------------------------------------------------------------------
(***************************************************************************)
(* Run, and the goroutines it launches.                                    *)
(***************************************************************************)

MoveRun(from, to) == runPc = from /\ runPc' = to

\* A producer that was shut down before is refused.
RunStarts ==
    /\ MoveRun("called", IF ctxDone THEN "failed" ELSE "started")
    /\ UNCHANGED <<confirmPublish, ctxDone, queueVars, callerVars, result, publisherVars,
                   confirmerVars, closerPc, monitorPc, channelVars, eventVars, relayVars,
                   panicked>>

RunConfirms ==
    /\ confirmPublish /\ channelOpen
    /\ MoveRun("started", "confirming")
    /\ UNCHANGED <<confirmPublish, ctxDone, queueVars, callerVars, result, publisherVars,
                   confirmerVars, closerPc, monitorPc, channelVars, eventVars, relayVars,
                   panicked>>

\* The Channel does not go into confirmation mode: Run closes it, and does not cancel the
\* context.
RunFails ==
    /\ confirmPublish
    /\ MoveRun("started", "failed")
    /\ channelOpen' = FALSE
    /\ UNCHANGED <<confirmPublish, ctxDone, queueVars, callerVars, result, publisherVars,
                   confirmerVars, closerPc, monitorPc, channelLost, published, confirmed,
                   acked, eventVars, relayVars, panicked>>

RunRegisters ==
    /\ channelOpen
    /\ MoveRun("confirming", "registered")
    /\ relay' = "attached"
    /\ UNCHANGED <<confirmPublish, ctxDone, queueVars, callerVars, result, publisherVars,
                   confirmerVars, closerPc, monitorPc, channelVars, eventVars, lastStray,
                   nextStray, panicked>>

\* NotifyPublish on a Channel that was closed meanwhile does not return.
RunHangs ==
    /\ ~channelOpen
    /\ MoveRun("confirming", "hung")
    /\ UNCHANGED <<confirmPublish, ctxDone, queueVars, callerVars, result, publisherVars,
                   confirmerVars, closerPc, monitorPc, channelVars, eventVars, relayVars,
                   panicked>>

RunLaunches ==
    /\ MoveRun(IF confirmPublish THEN "registered" ELSE "started", "running")
    /\ closerPc' = "wait"
    /\ monitorPc' = IF channelOpen THEN "wait" ELSE "told"
    /\ publisherPc' = "range"
    /\ confirmerPc' = "range"
    /\ UNCHANGED <<confirmPublish, ctxDone, queueVars, callerVars, result, publishing,
                   deliveryTag, publicationTag, confirming, channelVars, eventVars,
                   relayVars, panicked>>

CloserAnnouncesLock ==
    /\ closerPc = "wait"
    /\ ctxDone
    /\ closerPc' = "lock"
    /\ UNCHANGED <<confirmPublish, ctxDone, queueVars, callerVars, result, publisherVars,
                   confirmerVars, monitorPc, runPc, channelVars, eventVars, relayVars, panicked>>

NoneAboutToPush == \A o \in Orders : callerPc[o] # "push"

\* Variant: the queue is closed while callers push.
NoPushers_Ignored == TRUE
NoPushers         == NoneAboutToPush

CloserCloses ==
    /\ closerPc = "lock"
    /\ NoPushers
    /\ closerPc' = "done"
    /\ publishQueueClosed' = TRUE
    /\ UNCHANGED <<confirmPublish, ctxDone, publishQueue, confirmQueue, confirmQueueClosed,
                   callerVars, result, publisherVars, confirmerVars, monitorPc, runPc,
                   channelVars, eventVars, relayVars, panicked>>

MonitorShutsDown ==
    /\ monitorPc = "told"
    /\ monitorPc' = "done"
    /\ ctxDone' = TRUE
    /\ UNCHANGED <<confirmPublish, queueVars, callerVars, result, publisherVars,
                   confirmerVars, closerPc, runPc, channelVars, eventVars, relayVars, panicked>>

RunReturns ==
    /\ MoveRun("running", "returned")
    /\ closerPc = "done" /\ publisherPc = "done" /\ confirmerPc = "done"
    /\ channelOpen' = FALSE
    /\ UNCHANGED <<confirmPublish, ctxDone, queueVars, callerVars, result, publisherVars,
                   confirmerVars, closerPc, monitorPc, channelLost, published, confirmed,
                   acked, eventVars, relayVars, panicked>>

StartShutdown ==
    /\ ~ctxDone
    /\ ctxDone' = TRUE
    /\ UNCHANGED <<confirmPublish, queueVars, callerVars, result, publisherVars,
                   confirmerVars, runVars, channelVars, eventVars, relayVars, panicked>>

-----------------------------------------------------------------------------
(***************************************************************************)
(* The Channel.                                                            *)
(***************************************************************************)

Detached == relay = "detached"

\* An acknowledgement, or a nack: of the broker, or of an orphan.
ChannelConfirms ==
    /\ channelOpen
    /\ relay \in {"attached", "replacing"}
    /\ confirmed < Len(published)
    /\ Len(publishEvents) < QueueCapacity
    /\ confirmed' = confirmed + 1
    /\ \E ack \in BOOLEAN :
        /\ publishEvents' = Append(publishEvents, [tag |-> confirmed + 1, ack |-> ack])
        /\ acked' = IF ack THEN acked \cup {published[confirmed + 1]} ELSE acked
    /\ UNCHANGED <<confirmPublish, ctxDone, queueVars, callerVars, result, publisherVars,
                   confirmerVars, runVars, channelOpen, channelLost, published,
                   publishEventsClosed, relayVars, panicked>>

\* The reconnection is over: the relay has followed to the new streadway channel, or was
\* cancelled after 30 seconds, with confirmations of the old one still to come.
ReplacementEnds ==
    /\ relay = "replacing"
    /\ \/ relay' = "attached"
          /\ UNCHANGED <<lastStray, nextStray>>
       \/ relay' = "detached"
          /\ lastStray' = Len(published)
          /\ nextStray' = confirmed + 1
    /\ UNCHANGED <<confirmPublish, ctxDone, queueVars, callerVars, result, publisherVars,
                   confirmerVars, runVars, channelVars, eventVars, panicked>>

\* A cancelled relay passes confirmations with the new offset added to their tags.
StrayConfirms ==
    /\ Detached
    /\ ~publishEventsClosed
    /\ nextStray <= lastStray
    /\ Len(publishEvents) < QueueCapacity
    /\ nextStray' = nextStray + 1
    /\ \E ack \in BOOLEAN :
        /\ publishEvents' =
               Append(publishEvents, [tag |-> nextStray + lastStray, ack |-> ack])
        /\ acked' = IF ack THEN acked \cup {published[nextStray]} ELSE acked
    /\ UNCHANGED <<confirmPublish, ctxDone, queueVars, callerVars, result, publisherVars,
                   confirmerVars, runVars, channelOpen, channelLost, published, confirmed,
                   publishEventsClosed, relay, lastStray, panicked>>

\* Nobody listens to the new streadway channel, but a reconnection still tells of orphans,
\* on a listener that may be closed.
OrphanTold ==
    /\ Detached
    /\ channelOpen
    /\ confirmed < Len(published)
    /\ confirmed' = confirmed + 1
    /\ IF publishEventsClosed
       THEN /\ panicked' = TRUE
            /\ UNCHANGED publishEvents
       ELSE /\ Len(publishEvents) < QueueCapacity
            /\ publishEvents' = Append(publishEvents, [tag |-> confirmed + 1, ack |-> FALSE])
            /\ UNCHANGED panicked
    /\ UNCHANGED <<confirmPublish, ctxDone, queueVars, callerVars, result, publisherVars,
                   confirmerVars, runVars, channelOpen, channelLost, published, acked,
                   publishEventsClosed, relayVars>>

\* Somebody closes the Channel, or its Connection: then nobody tells the monitor.
ChannelCloses ==
    /\ channelOpen
    /\ channelOpen' = FALSE
    /\ channelLost' = TRUE
    /\ monitorPc' \in IF monitorPc = "wait" THEN {"wait", "told"} ELSE {monitorPc}
    /\ UNCHANGED <<confirmPublish, ctxDone, queueVars, callerVars, result, publisherVars,
                   confirmerVars, closerPc, runPc, published, confirmed, acked, eventVars,
                   relayVars, panicked>>

\* The relay shuts down: the Channel is closed, or the relay was cancelled and its last leg
\* is over.
EventsClose ==
    /\ relay # "none"
    /\ ~channelOpen \/ Detached
    /\ ~publishEventsClosed
    /\ publishEventsClosed' = TRUE
    /\ UNCHANGED <<confirmPublish, ctxDone, queueVars, callerVars, result, publisherVars,
                   confirmerVars, runVars, channelVars, publishEvents, relayVars, panicked>>

\* The steps the scheduler owes the producer and its callers.
Goroutines ==
    \/ \E o \in Orders : Caller(o)
    \/ Publisher \/ Confirmer
    \/ CloserAnnouncesLock \/ CloserCloses \/ MonitorShutsDown
    \/ RunConfirms \/ RunFails \/ RunRegisters \/ RunHangs \/ RunLaunches \/ RunReturns

\* What the Channel owes while its confirmation relay follows it.
Confirmations == ~Detached /\ (ChannelConfirms \/ EventsClose)

Next ==
    \/ \E o \in Orders : Call(o) \/ CancelOrder(o)
    \/ Goroutines
    \/ RunStarts
    \/ StartShutdown
    \/ ChannelConfirms \/ ReplacementEnds \/ StrayConfirms \/ OrphanTold
    \/ ChannelCloses \/ EventsClose

Spec == Init /\ [][Next]_vars

\* No goroutine loops without consuming something, so it is enough that some goroutine
\* moves while one can.
FairSpec ==
    /\ Spec
    /\ WF_vars(Goroutines)
    /\ WF_vars(Confirmations)

-----------------------------------------------------------------------------
(***************************************************************************)
(* Properties.                                                             *)
(***************************************************************************)

QueueType == {q \in UNION {[1 .. n -> Orders] : n \in 0 .. QueueCapacity} :
                \A i, j \in DOMAIN q : i # j => q[i] # q[j]}

Answers == {"none", "ok", "nack", "publishError", "closed"}

\* Every variable keeps its type, no order is queued twice, and the queue of orders is
\* closed when no caller is about to send on it (producer.go:280, "avoiding panics from
\* sending to a closed channel").
TypeOK ==
    /\ confirmPublish \in BOOLEAN
    /\ publishQueue \in QueueType
    /\ confirmQueue \in QueueType
    /\ publishQueueClosed => NoneAboutToPush
    /\ callerPc \in [Orders -> {"idle", "push", "wait", "returned"}]
    /\ result \in [Orders -> Answers]
    /\ publisherPc \in {"off", "range", "publish", "confirm", "done"}
    /\ publishing # None <=> publisherPc \in {"publish", "confirm"}
    /\ deliveryTag = Len(published)
    /\ confirmerPc \in {"off", "range", "receive", "done", "panic"}
    /\ confirming # None <=> confirmerPc = "receive"
    /\ closerPc \in {"off", "wait", "lock", "done"}
    /\ monitorPc \in {"off", "wait", "told", "done"}
    /\ runPc \in {"called", "started", "confirming", "hung", "registered", "running", "failed",
                  "returned"}
    /\ relay \in {"none", "attached", "replacing", "detached"}
    /\ confirmed \in 0 .. Len(published)
    /\ Len(publishEvents) <= QueueCapacity

\* While the confirmation relay follows the Channel, an order is answered with what became
\* of its message, whatever is queued, skipped or refused before it, and every confirmation
\* meets its order (producer.go:98).  A relay that was cancelled passes confirmations with
\* tags that are not theirs, and the confirmer panics or takes one for another.
AnswersTrue ==
    ~Detached =>
        /\ ~panicked
        /\ \A o \in Orders :
            LET isPublished == \E i \in 1 .. Len(published) : published[i] = o
            IN  /\ result[o] = "ok" => o \in acked
                /\ result[o] = "nack" => isPublished /\ o \notin acked
                /\ result[o] = "publishError" => ~isPublished

\* When Run of a producer that confirms has returned, every order that was queued has its
\* answer, unless its caller has cancelled it (producer.go:71), or it is in the queue of the
\* confirmer, who left at an order before it (line 95): on a channel that others closed, or
\* whose confirmation relay was cancelled.  Without confirmations no order that was published
\* is ever answered (line 67).
AcceptedOrdersAnswered ==
    runPc = "returned" /\ confirmPublish =>
        /\ \A o \in Orders :
              callerPc[o] = "wait" => \/ result[o] # "none"
                                     \/ orderDone[o]
                                     \/ \E i \in 1 .. Len(confirmQueue) : confirmQueue[i] = o
        /\ confirmQueue # <<>> => channelLost \/ Detached

\* The channel was lost, the confirmer has left with the first order it could not confirm,
\* and the publisher waits for room in the queue that nobody reads.
Abandoned ==
    /\ channelLost
    /\ confirmerPc = "done"
    /\ publisherPc = "confirm"
    /\ Len(confirmQueue) = QueueCapacity

\* Run returns after a shutdown (producer.go:233), unless the Channel was closed before
\* NotifyPublish (line 253), the publisher is abandoned, or the confirmation relay was
\* cancelled, so that the confirmer waits for what never comes.
RunEnds ==
    ctxDone /\ runPc \notin {"called", "failed"} ~>
        \/ runPc \in {"returned", "failed"}
        \/ runPc = "hung" /\ ~channelOpen
        \/ Abandoned
        \/ Detached
=============================================================================
