# A TLA+ verification of rogerRabbit-go

rogerRabbit-go wraps the `streadway/amqp` client of RabbitMQ. A roger `Connection` or
`Channel` outlives the streadway objects under it: when one is lost it is redialled, the
settings and declarations are replayed, events go on from the new one, and tags stay
continuous. This directory models that machinery in TLA+, checks the models with TLC and
proves theorems about the core with TLAPS.

Paths below are relative to `src/pkg/`.

## 1. The system

| Component | State | Operations | Interacts with |
|---|---|---|---|
| Transport manager (`amqp/transportManager*.go`), embedded in Connection and Channel | context, transport lock, one-slot error channel, subscriber lists and their lock | every exported method (`retryOperationOnClosed`), the redial goroutine, `Close`, `NotifyDial`, `NotifyDisconnect`, `NotifyClose` | streadway's close signal, the caller's channels, the parent Connection |
| Connection (`connection.go`, `connectionDial.go`) | the streadway connection and its lock | `Dial*`, `Channel`, `tryReconnect` | Channels: their contexts are children of its own, their redials run as its operations |
| Channel and event relays (`channel.go`, `channelEventRelays*.go`, `eventRelay*.go`) | the streadway channel, the list of relays, a goroutine for each | `tryReconnect`, `Consume`, `NotifyPublish`, `NotifyReturn`, `NotifyCancel`, `NotifyFlow` | each relay by three unbuffered channels and a context |
| Publish tags (`defaultmiddlewares/publishTag.go`) | publish count, tag offset, orphan senders, captured counters | `Confirm`, `Publish`, `ChannelReconnect`, `NotifyPublishEvents` | relays of `NotifyPublish` |
| Delivery tags (`deliveryTags.go`) | delivery count, offset, latest multiple ack | `Get`, `Ack`, `Nack`, `Reject`, `ConsumeEvents`, `ChannelReconnect` | relays of `Consume` |
| Route declarations (`routeDeclaration.go`) | queues, exchanges, bindings | declare, bind, unbind, delete, replay | new channels |
| Channel settings (`qos.go`, `flow.go`, `confirms.go`) | last setting | set, replay | new channels |
| Producer (`roger/rproducer`) | publish and confirm queues, context | `Publish`, `QueueForPublication`, `Run`, `StartShutdown` | a Channel, its confirmations and close events |
| Consumer (`roger/rconsumer`) | processors, throttle, error channel, context | `RegisterProcessor`, `Run`, `StartShutdown` | a Channel, its deliveries, the user's processors |

What is hard here is concurrency: an operation against the swap of its transport, `Close`
against a redial, a registration against `Close`, a relay against the next streadway
channel, a timer against a late answer, orphans against live confirmations.
`PROJECT.json` lists each hazard at its line with the properties that would catch it.

What makes each part correct:

* transport manager: no operation sees its transport change; exactly one goroutine watches
  or replaces it; nothing survives `Close`; subscribers are told and released;
* relays: none misses a channel or events caused after a reconnection; a reconnection ends;
* publish tags: an unbroken stream of confirmations, each with the right number, for every
  publication and every listener;
* delivery tags: tags of different deliveries differ; an acknowledgement reaches the delivery
  it names or is reported orphaned, and nothing else is;
* route declarations and settings: what is replayed is what was asked for;
* producer: every order it took is answered, and answered truly; shutdown ends;
* consumer: the limit on workers holds, every delivery a worker had is settled as the handler
  said before the channel is closed, errors are reported, shutdown ends.

Several of these fail in corners of the code, and the documentation does not always say so. Where
a model shows that, the property says where, by the name of a variable that notes it
(`cancelled`, `crossed`, `adrift`, `cut`, ...), so that it claims what the code does and no
more; section 3 collects these places.

## 2. Modules

| Module | What it is |
|---|---|
| `TransportManager` | the manager with its redialers, `Close`, subscribers |
| `RobustTransport` | what a robust transport promises its users (abstract) |
| `TransportManagerProofs` | types, the transport lock, and that `TransportManager` implements `RobustTransport`, proved |
| `TransportManagerCloseProofs` | what holds after `Close`, who watches, subscribers, proved |
| `RelaySync` | event relays in step with a Channel's reconnections |
| `RelaySyncProofs` | relays and reconnections, proved |
| `PublishTags` | continuous confirmations over streadway channels |
| `PublishTagsProofs` | confirmations, proved |
| `DeliveryTags` | tags of deliveries and orphaned acknowledgements over streadway channels |
| `DeliveryTagsProofs` | tags and orphans, proved |
| `ChannelReplay` | what a Channel records of its topology and settings, and its replay |
| `ChannelReplayProofs` | settings and topology after a reconnection, proved |
| `Producer` | `rproducer.Producer` over a Channel that confirms |
| `ProducerProofs` | answers to orders, proved |
| `Consumer` | `rconsumer.Consumer` over a Channel that delivers |
| `ConsumerProofs` | limit, settlement, errors, proved |
| `MC*` | the modules that TLC runs, with the symmetry where it is used |

Where a module defines `Name` and `Name_Something`, the second is a plausible mistake in
that place of the code. It is used by no specification: it is there to replace `Name` and
see the property that guards it fail.

### TransportManager

One label of `opPc`, `redialPc` or `closePc` for each place where a goroutine may be
interrupted or block. Streadway transports are numbered as they are dialled; the goroutine
`reconnectListenForClose` started for transport t is redialer t, and redialer 0 is the
caller of `Dial` or `Connection.Channel`, which dials without the lock.

* `OpCall` .. `OpFails`: `retryOperationOnClosed` with `isRepeatErr`. The lock is Go's
  `RWMutex`: once a writer has announced itself (`writer`) no reader enters, and it goes on
  when the readers have left (`Drained`).
* `ReceiveCloseEvent` .. `RedialerUnlock`: `receiveDisconnectEventAndLockChannel`,
  `reconnectRedial`, `reconnectRedialOnce`, `reconnect`. A dial is two steps, so losses,
  `Close` and the parent's `Close` may fall into it.
* `CloseCheckContext` .. `CloseReturns`: `createClose` and `cancelCtxCloseTransport`.
* `Register`, `SendNotification`: the subscriber lists and channels, with bounded buffers.
  A send on a closed channel sets `panicked`.
* `TransportFails`, `StreadwaySignals`, `SubscriberReceives`: the library and the user.
  streadway may signal a loss late or never.

Waits between attempts (up to five seconds) are left out: they only delay.

### RelaySync

A relay goes through `relayPc` as in `eventRelaySetupAndLaunch` and `runEventRelay`; the
redialer goes through `mgrPc` as in `Channel.tryReconnect`, and through the relays of each
loop one at a time (`pending`). Rendezvous on unbuffered channels are single steps of both
(`RelayAnswers`). A timer fires at most once for each loop (`timerSpent`) and at any time:
30 seconds may always have passed. `SlowRelays` have a caller that may stop reading.

A reconnection starts when the streadway channel is lost and also, on one that is alive, when an
operation fails (`StartReconnect`); the channel it replaces stays `open`, so legs on it do not
end. A leg of `Consumers` also ends when the broker cancels the consumer (`ConsumerCancelled`).
`RefusedRelays` have arguments streadway refuses at each setup: the error is dropped, and
the relay follows the reconnections without ever listening.

### PublishTags

`CreateListener`, `AddSender` and `StartListening` are the three places of a call of
`NotifyPublish`; only the last is under the transport lock. `ConfirmSends`/`ConfirmReturns` and
`PublishSends`/`PublishReturns` are the two ends of an operation: the middleware looks at
`confirmMode` when the call has come back, the broker at `confirming` when it arrives, and
operations share the lock, so that a `Publish` may overlap `Confirm` (`miscounted` notes one that
was counted and not numbered, or the reverse).

A reconnection starts on a lost channel, or for an operation's error on one that is alive
(`PublishFails`, `opError`), which is replaced and not closed. The redialer waits until each relay
has passed on its leg (`LegOver`) or, once, until a timer fires: that relay is `cancelled` and goes
on reading the old channel (`CancelRelay`). `SetOffset`, `LaunchOrphaners`, `OrphanerStarts`,
`OrphanerSends`, `OrphanerEnds` are `ChannelReconnect` and `reconnectSendOrphans`: a goroutine for
each sender, each finding in the shared loop variable the sender of its own iteration or of a
later one (`go.mod` asks for go 1.16; `crossed` notes the latter).

`stream[l]` is what the caller's channel has received and `of` in it the publication the broker
answered, which the code does not know. Callers give listeners the room the documentation
asks for. A `program` says what the callers of one behaviour do: which listeners they register,
whether during a reconnection (`late`), whether `Publish` overlaps `Confirm`, whether they close
the Channel, and how many publications and channels there are. A run checks a set of programs.

How they fit together: `RelaySync` and `PublishTags` take from `TransportManager` what it
guarantees, a transport lock that a redialer has alone. `PublishTags` and `DeliveryTags` take
from `RelaySync` that a relay is done with a leg, or cancelled, before the next channel is
fetched (`OldLegsOver`). `Producer` takes from `PublishTags` confirmations numbered one after
another until its relay is cancelled (`Unbroken`, `EveryPublicationAnswered`), and the stray ones
after that; `Consumer` takes from `DeliveryTags` that after a reconnection an acknowledgement may
be refused or reach another delivery. `Producer` and `Consumer` take from
`transportHandlersBuilder.createClose` that a close event comes from the Channel's own `Close`
and not from that of its Connection. Each assumption is a guard or an action of the module
that makes it; the composition itself is not run.

### DeliveryTags

The broker numbers the deliveries of a streadway channel (leg) from 1. `handed` has each
delivery with the tag its caller saw; `pipe` is what streadway holds for the relay. `AckSends`,
`AckIsLate` and then `AckSucceeds` or `AckFails` are `runAckMethod`: the call to the broker and
`resolveOrphans`. Between them another goroutine may move `tagLatestMultiAck`. Orphan errors are
operation errors and wake the redialer (`opError`), also on a channel that is alive. A relay
that outlives the thirty seconds is `cancelled`: its leg may stay open under it, and its
deliveries get the new offset (`late`). A `Get` that finds no message is counted too
(`GetFindsNone`). `settled` and `overtaken` are for the properties only.

A delivery is `Steady` when it was passed in time, after all before it on its leg. Tags of these
are not doubled in any history (`TagsNotDoubled`). The properties about orphans are for the
histories in which no relay was cancelled and no lost delivery was overtaken (`Undisturbed`):
where tags are doubled the middleware cannot tell an orphan from a delivery of the leg in use.

### ChannelReplay

A call is made at the broker (`opPc` "called"), then recorded (`Record`), both under the read
lock. The reply may be lost with the channel: then the call is repeated on the next one. The
slices `bindQueues` and `bindExchanges` are memory and length, because the code filters them in
place and one of the two is cut to the length of the other (`routeDeclaration.go:235`): memory
beyond the length comes back when the slice is extended, and cutting beyond the capacity
panics (`crashed`). `Kept` is the loop that filters a slice, `Matches` its condition, in which a
name that is not given (`NoName`) removes nothing. `cut` notes that an exchange or a binding of
exchanges was removed, `taken` which bindings of queues went with the removal of another one that
shares their queue or exchange. `AfterLoss` is the broker's end of exclusive and auto-delete objects. The
replay goes through `reconnectPc` in the order of the middleware, and starts again on a new
channel when a step fails.

### Producer

Callers (`callerPc`), the two queues, `runPublisher`, `runConfirmations`, the goroutine that
closes the queue, the monitor and `Run`. The lock of the queue is Go's `RWMutex`: callers in
"push" hold it for reading, and none enters once the closing goroutine waits ("lock"). `result`
is the one-place channel of an order. `Run` of a producer with confirmations goes through
`Confirm`, `NotifyPublish` and the launch of its goroutines one after another, and the Channel may
be closed between them: then `NotifyPublish` does not return (`RunHangs`).

The Channel confirms, nacks, or is closed by others (`channelLost`), by its own `Close` or by its
Connection's, in which case nobody tells the monitor. A publication that fails while the Channel is
open has the streadway channel replaced (`relay` "replacing"); the confirmation relay follows, or is
cancelled ("detached"). A detached relay passes what is left of the old channel under tags of
others (`StrayConfirms`), closes the listener on an open Channel (`EventsClose`), and leaves the
publications after it without an answer but for orphans, which may be sent to the closed
listener (`OrphanTold`).

### Consumer

`procPc` is a processor in its two selects, then waiting for its workers, then cleaning up.
`workerPc[d]` is the worker of delivery d: the user's handler, the acknowledgement around it,
and the end that frees a place on the throttle. `maxWorkers` is the option, none or a limit.
A Channel closed by others yields what its buffer held and then empty deliveries for ever
(`ProcessorReceivesEmpty`), which go to workers like any other. The rendezvous on
`processorErrs` is a single step of processor and collector (`CollectorAfterError`); a report
that finds no receiver is dropped. `tooEarly` notes the reports dropped because the collector
had not started.

`Run` sets up one processor after another. The user's `SetupChannel` may fail (`RunSetupFails`);
`Consume` returns no error, and on a Channel that was closed does not return (`RunHangs`). A
Channel that reconnects (`ChannelReconnects`) leaves the deliveries not settled by then `adrift`:
acknowledgements of these, and of all that come later, may be refused or name others, and
`handleDelivery` drops the error, so what became of the delivery is "unknown" (`FateOf`).

## 3. Runs

| Run | Instance | Shows |
|---|---|---|
| `transport_safety` | a Channel, two callers (symmetric), one `Close`, a subscriber of each kind, two transports | all safety properties and `ImplementsRobustTransport` |
| `transport_liveness` | a Connection, one caller, one `Close`, a close subscriber, two transports | operations and `Close` return, subscribers are released, redialers end |
| `transport_two_closers` | two calls of `Close` | `CloseHandlerCalledOnce` is violated |
| `relay_sync` | a relay that keeps up and one that may not, consumers both, three channels, lost or replaced alive | no leg missed, all listening when callers return, reconnections end, relays shut down |
| `publish_tags` | five programs: one listener with three publications, or with two and callers that come late, overlap or close, over three channels; two listeners over two | unbroken, true and complete confirmations |
| `publish_two_listeners` | two listeners, two publications, two channels | `AllListenersTold` is violated |
| `delivery_tags` | two goroutines that acknowledge (symmetric), three deliveries, an empty `Get`, three channels | tags of steady deliveries are not doubled; orphans are reported, and to orderly callers nothing else but the tag of an empty `Get` |
| `delivery_acknowledge` | one acknowledgement after a reconnection | `AckReachesItsDelivery` is violated |
| `channel_replay` | a goroutine that builds a topology, one that removes and changes settings, one loss, one failed attempt | settings and topology come back, the reconnection ends, outside the exceptions named |
| `replay_bindings` | a topology from which one exchange binding is removed | `BindingsReplayed` is violated |
| `producer` | three callers, one may cancel, queues of one place, with and without confirmations | true answers; with confirmations an answer for each order that was queued; `Run` ends |
| `consumer` | two processors, one with autoAck, one place for workers or no limit, two deliveries, any reconnections | limit, settlement up to the first reconnection, errors, and `Run` ends |

Bounds, and why they suffice:

* `MaxTransports`, `MaxLegs`: two transports already show an error, a signal or a goroutine
  of the first outliving its replacement; three channels show what a reconnection leaves
  for the next. The last one is not lost before the object is closed, so that the bound
  never stops a behaviour half-way.
* Two callers: a reader that holds a writer up while another reader waits behind it.
* `publish_tags`: with three publications a listener may get one, lose one with its channel and
  get the next on another; with three channels the offset of the second reconnection rests on the
  first. What else callers may do (`Programs`) is combined with two publications each, because all
  of it at once is beyond TLC; the proofs have no such limit. One publisher beside the call of
  `Confirm` is enough for the two to overlap.
* `ChanCap` = 1: a subscriber that is one event behind blocks the sender.
* One `Close` in the safety run: the second is the subject of `transport_two_closers`.
* `delivery_tags`: a delivery on each of three legs makes a multiple acknowledgement that spans
  two reconnections; two goroutines interleave between the call to the broker and the check.
* `channel_replay`: four calls declare two ends, bind them and undo one of these; one loss and
  one failed attempt make the replay start twice. The foreign exchange, the queue named by the
  server and the auto-delete objects are those whose loss the record cannot repair.
* `producer`: with queues of one place, three orders are one at the confirmer, one at the
  publisher and one waiting, so that each queue is full while both sides move. Four
  orders would add one more waiting caller.
* `consumer`: two processors compete for the one place; with the empty deliveries each
  processor also competes with itself (`MaxEmpty` = 1 in hand at a time). Errors with a panic
  and without requeue are one outcome, as `handleAck` treats them alike. The
  deliveries are numbered in the order in which they are received, which only names them: any
  processor may receive any.
* Deadlock is checked except where nobody is obliged to go on: in `PublishTags` and
  `DeliveryTags` nobody need publish or acknowledge, in `ChannelReplay` nobody need call, and a
  producer or consumer that was shut down does nothing more.

### Fairness

A goroutine that can step does (weak fairness of each goroutine's steps). Users read their
channels, except the slow relays. A dial ends, and the broker does not refuse for ever: the
only strong fairness, on the success of a dial, because each failure disables it for a
while. streadway signals a close it was asked for; it need not signal a loss, since the code
also wakes the redialer by an operation's error. Nobody is made to call, publish or close.

In `Producer` and `Consumer` the goroutines consume what they loop over, so weak fairness of
their union is enough: some goroutine moves while one can, and only finitely many such moves
exist. The exception is a processor that is fed empty deliveries; `Stops`, with the monitor that
shuts the consumer down, has its own fairness, because Go's select picks at random among ready cases and does not prefer the deliveries for
ever. The Channel confirms or closes its events; user handlers and the cleanup return. In
`ChannelReplay` each call that reached the broker is recorded, and the redialer goes on.
`RunEnds` of the producer holds except for a Channel closed before `NotifyPublish` ("hung"), a
confirmation relay that was cancelled (`Detached`), and `Abandoned`: the confirmer has left with the
first order the closed channel could not confirm, the publisher waits for room in the queue nobody
reads, and `Run` waits for the publisher. Nothing is assumed of a detached relay: fairness is asked
of the Channel's confirmations only while the relay follows it (`Confirmations`). `RunEnds` of the
consumer names the `Consume` that hangs. `ReconnectionEnds` names in the same way the records that
cannot be replayed.

`ReconnectEnds` says exactly what the timers give: a reconnection ends unless the redialer waits,
in a loop whose timer is spent, for a relay whose caller stopped reading or whose leg is on a
replaced channel that is still open (`Timerless`).

### What the violations show

1. *Two calls of `Close`* (`transportManagerHandlersBuilder.go:184`): the context is checked
   and cancelled in two steps; the second caller sends on channels the first has closed.
2. *Two listeners of confirmations* (`publishTag.go:70`): the goroutines that tell of lost
   publications share a loop variable; both run the sender of the second listener, and the first
   is told of nothing, against the comments at lines 63 and 81.
3. *Acknowledgements after a reconnection* (`deliveryTags.go:150`): the caller's continuous tag
   is sent to a channel that numbers from 1; it settles another delivery or none.
4. *Removing an exchange binding* (`routeDeclaration.go:235`): the list of queue bindings is cut
   to the number of exchange bindings left, and the rest is not replayed.

Seen in the models, without a run of their own; the property that leaves the case out is named:

* *One timer for a loop* (`channelEventRelaysSync.go:148`, against lines 25 and 159): when an
  operation fails on a channel that stays open, no leg ends; the first relay is cancelled after
  30 seconds and the second is waited for without limit, the transport lock held
  (`ReconnectEnds`, `Timerless`). A relay left on the replaced channel never shuts down unless
  that one ends (`RelaysShutDown`).
* *A setup that streadway refuses* (`channelEventRelays.go:116`, `:153`) is reported as complete and
  its error dropped: the caller of `Consume` has a channel of deliveries that stays silent and open
  (`ListeningWhenReady`, `RefusedRelays`). A consumer the broker cancels stays silent until the
  next reconnection.
* *A cancelled relay of deliveries* gives tags that were given before, or will be: its late
  deliveries get the offset of a later leg. `internal/delivery.go:11-13` and
  `channel.go:914-916` promise that tags are continuous and not doubled, of every delivery
  (`TagsNotDoubled`, `Steady`). The same holds for a delivery that overtook, through `Get`, one
  that was still in the consumer's pipe and was passed late or lost.
* *An empty `Get`* is counted as a delivery (`deliveryTags.go:70`): after a reconnection a caller
  that acknowledged all it had in order gets an error for a tag no delivery has, of which
  `channel.go:1033-1040` says nothing (`OnlyOrphansReported`, `SkippedTags`).
* *A cancelled relay of confirmations* gives 1, 2, 4: its orphan 2 is sent at the reconnection, and
  then the broker's answer to publication 2 arrives with the new offset. After that it shuts
  down and closes its listener on an open Channel, and the orphans of a later reconnection are
  sent to a closed listener, which panics (`Unbroken`, `TagNamesPublication`,
  `EveryPublicationAnswered`).
* *A `Publish` that overlaps `Confirm`* (`publishTag.go:124`, `:138`) is counted without having
  been numbered, or the reverse: every later offset is wrong by one (`miscounted`).
* `Close` during a reconnection may close a listener the orphans are being sent to (panic), and
  a `NotifyPublish` during a reconnection may take the wait group below zero (`PublishTags`,
  `panicked`), or miss the orphans of that reconnection (`program.late`).
* A Channel whose Connection is closed (`connection.go:170`): its context is cancelled, its
  `Close` never runs, and its subscribers wait for ever; the monitors of producers and consumers
  are among them.
* A listener registered as the Channel closes (`channelEventRelays.go:59`) waits for a setup
  that will not happen: `Run` of a producer hangs at `NotifyPublish` (`producer.go:253`) and that
  of a consumer at `Consume` (`consumer.go:179`) (`RunEnds`).
* A producer without confirmations never answers a publication that succeeded
  (`producer.go:67`): its caller waits, although by `opts.go:11-13` waiting is what
  confirmations are switched on for (`AcceptedOrdersAnswered`).
* A producer whose channel was lost may never return from `Run` (`Abandoned`); or its confirmer
  leaves (`producer.go:95`) and the orders queued behind are not answered; so too when a
  cancelled relay closes the listener on an open Channel.
* A consumer whose Channel reconnected settles deliveries it does not mean to, or none, and
  drops the error (`consumer.go:80`, `DeliveriesSettled`, `adrift`). One whose setup failed leaves
  its collector waiting (`consumer.go:211`).
* `QueueUnbind` (`routeDeclaration.go:142`) forgets a binding when its queue or its exchange is the
  one named, so every other binding of either is missing after a reconnection, although the comment
  at line 581 speaks of this binding only (`TopologyRestored`, `Matches`, `taken`).
* A declaration whose reply was lost, and whose queue or exchange another goroutine has bound
  meanwhile, is repeated only after the reconnection that needs it (`Unrecorded`): when the queue or
  exchange ended with its connection, every attempt to bind again is refused
  (`routeDeclaration.go:401`).

## 4. Proofs

All are about `Spec` for every value of the constants that satisfies the assumptions of the
module (goroutine names are distinct, bounds are natural or positive), so for any number of
callers, subscribers, relays, transports, deliveries and orders. No theorem has a hypothesis of
its own: what a property leaves out is written in the property. Each invariant was checked by TLC on the instances above before it was proved.

| Module | Theorems |
|---|---|
| `TransportManagerProofs` | `TypeCorrect`, `TransportStable`, `ErrorIsCurrent`, `LockCorrect`, `Refinement` |
| `TransportManagerCloseProofs` | `Watched`, `TransportClosed`, `SubscribersClosed`, `CrashNeedsTwoCloses`, `OneCloserSendsSafely` |
| `RelaySyncProofs` | `RelaySyncTypeCorrect`, `OldLegsAreOver`, `AllListenWhenReady`, `NoLegIsMissed` |
| `PublishTagsProofs` | `TagsNamePublications`, `PublishTagsTypeCorrect`, `ConfirmationsUnbroken`, `LostPublicationsTold` |
| `DeliveryTagsProofs` | `DeliveryTagsTypeCorrect`, `TagsContinue`, `OrphansAreReported`, `OnlyOrphansAreReported` |
| `ChannelReplayProofs` | `ChannelReplayTypeCorrect`, `SettingsAreRestored`, `TopologyIsRestored` |
| `ProducerProofs` | `ProducerTypeCorrect`, `AnswersAreTrue`, `AcceptedAreAnswered` |
| `ConsumerProofs` | `ConsumerTypeCorrect`, `LimitRespected`, `WorkersSettle`, `CleanupErrorReported` |

### Transport manager

* `TypeCorrect`: `TypeOK`, one lemma per kind of goroutine.
* `TransportStable` and `ErrorIsCurrent`. Neither is inductive: that a redialer swaps
  transports while no operation runs follows from who holds the lock. `LockInv` says so:
  the readers of the lock are the operations that run (`ReadersRun`); a redialer or a
  closer at a label of the write lock has announced itself (`WriterAnnounced`) and, past
  the wait, is alone (`WriterAlone`); before the object is handed over the dial takes no
  lock, but nobody calls yet (`CallsWhenReady`, `InitialDial`); a dial starts with the error
  channel emptied, and nobody can fill it while it lasts (`DialStartsClean`), and gives a
  transport (`DialGivesTransport`). `LockCorrect` states the invariant itself.
* `Refinement`: `Spec => ImplementsRobustTransport`. `DialInv` adds what is known of the
  first dial; `OneAtWork` says that at most one redialer is past the lock, so that the
  abstract phase follows from which one. Each step is then an abstract step or a stutter.
* `Watched`: two redialers never share a transport and none is orphaned, because a redialer is
  launched only for a transport already dialled (`LaunchedAfterDial`) and by the one that dialled
  it, which until then is the watcher (`SuccessorToCome`).
* `TransportClosed`: a redial that was under way when the context was cancelled has ended before
  `Close` gets the lock (`NoDialAfterClose`, from `LockInv`), and none starts later, because who
  closes the transport has cancelled the context (`CloserHasCancelled`).
* `SubscribersClosed`: a channel that is open is in a list (`OpenIsListed`), so `Close`, which
  empties the lists under the subscriber lock (`ListsForgotten`, `ClosersNotify`), reaches it;
  whoever registers later finds the context cancelled.
* `CrashNeedsTwoCloses`: the panic of `transport_two_closers` has no other cause. As long as no
  two calls of `Close` have both found the context alive, listed channels are open and no close
  handler is in the list, or among those still to be sent to, twice (`SendInv`).
  `OneCloserSendsSafely` is its corollary for one goroutine that calls `Close`, any number of times.

### Relays

`OldLegsOver` and `ListeningWhenReady` are statements about all relays at the end of a loop that
goes through them one at a time. `Stage` says for each moment of the redialer where a relay it
counts on is, depending on whether the loop has passed it (`kept`): it is on the channel in use, is
done with its leg, waits one channel behind, sets up. `ListInv` makes `kept` and `pending` together the list of
relays but for the cancelled ones, none twice; `RelayInv` keeps relays out of it until they are
registered, and `LockInv` lets one join only while the lock is free. `StageInv` ends with the
context, when relays may leave at any point; `LegInv` is what remains true then, that a relay
still to be released is one streadway channel behind, and gives `NoLegIsMissed`. That a relay on the
channel in use listens to it is more than `Stage` says: `SetupInv` adds that a setup which streadway
does not refuse has failed only on a channel that is not open any more, and channels do not open
again.

### Publish tags

* `PublishTagsTypeCorrect`: `Types` bounds the count by what was published, and says of each
  orphan goroutine that it runs the sender of its own place in the list or of a later one.
* `TagsNamePublications` holds for any listeners, also those registered during a reconnection. The
  count is the publications but for those in flight, and the offset is where the leg starts
  (`CountInv`); what a relay has still to pass on is numbered from the start of its own leg
  (`InboxInv`), and a relay that was waited for is on the leg in use, or done with it before the
  offset moves (`FollowInv`).
* `LostPublicationsTold`: the wait group counts the goroutines that have not ended (`WaitInv`), so
  the redialer goes on when all have; each sender is in the list once (`ListedInv`); and a goroutine
  that ended has brought the count of its listener up to the offset (`ToldInv`). The goroutine that
  runs the sender of another leaves that listener out, but nobody passes over the last one, which
  is what `LastListenerTold` says after `crossed`.
* `ConfirmationsUnbroken`, for any number of listeners. `AnswerInv` says where each is in the
  numbering: on a leg its last number and the confirmations it has still to read make up the
  broker's (`OnLeg`), between legs it lies between the leg's start and the count (`OffLeg`), and the
  goroutine that reports orphans goes on from there to the new offset (`CountedUp`). It speaks of
  listeners in the histories the property is about (`Steady`).

### Delivery tags

`Inv` has three layers.

* In every history: tags are at most number plus offset (`TagInv`), each delivery is handed over
  once, those in the pipe are still to come (`Once`, `PipeInv`), a leg's tags are number plus
  offset while its offset stands (`BaseInv`), the count makes up for what was sent and is not yet in
  the pipe (`CountInv`), and steady deliveries are ordered, on their leg and from leg to leg
  (`OrderInv`, `SteadyInv`). These are `Numbers`, and give `TagsContinue`.
* In undisturbed histories `Ahead`: tags do not exceed the count, nor those of old legs the
  offset (`TopInv`), and all up to the latest multiple acknowledgement is settled, the deliveries a
  relay has still to hand over included (`SettledInv`), which is why an acknowledgement that comes
  late for its leg covers no orphan that went unreported. `CallInv` is about the call between the
  broker and `resolveOrphans`, where another goroutine may move the latest tag. Together they give
  `OrphansAreReported`.
* That *only* orphans are reported needs the converse. If no `Get` was empty, every tag up to the
  offset is that of a delivery (`Exact`, `Gapless`). If callers acknowledge in order, with multiple,
  one at a time (`orderly`), nothing is settled beyond the latest tag but by the one call in progress
  (`Ordered`). `OnlyOrphansAreReported` follows; with empty `Get`s the tags no delivery has are
  those the property names (`SkippedTags`).

### Channel replay

* `ChannelReplayTypeCorrect`: `Types` adds to `TypeOK` the records the topology is made of and
  that bindings at the broker hold on to queues and exchanges that are there (`Closed`).
* `SettingsAreRestored`: `SettingsKept` says that what the Channel keeps is what was asked for, or
  that a call which has it is being recorded; `ApartInv`, that two such calls are about different
  things unless calls raced, and that only one of them is of `Flow`, which has a lock of its own.
  `SettingsSet` follows for the streadway channel, because the settings are replayed while
  nobody records.
* `TopologyIsRestored`: `KeptInv` says of the record, and `ThereInv` of the broker, in what they may
  differ from what was asked for: the record in what a call that is being recorded changes, the
  broker in what a call under way changes, whose reply may have been lost, and in what the
  redialer has still to set up. The order of the replay matters in `ThereInv`: queues and exchanges
  first, then the bindings that need them. A refused call has changed nothing, which follows from
  `Closed`. The lemmas about slices (`AppendedFacts`, `RemovalFacts`, `CutFacts`) say what `append`
  and the filters leave within the length of a slice; that of the loop `Kept` is proved by
  induction over the positions of the slice, taken from `WFMin` of `WellFoundedInduction` for a set
  of naturals (`Induction`), which needs no operator parameter.
* The exceptions are those of the property: calls that raced on the same thing, queues named by the
  server, exchanges that other clients deleted, for all bindings the removal of an exchange or of
  a binding of exchanges (`cut`), and for single bindings of queues the removal of one that
  shares their queue or exchange (`taken`), for the reasons in section 3. Where queues were unbound
  or deleted the other bindings are proved to come back.

### Producer

* `ProducerTypeCorrect` contains that nobody sends on a queue that was closed: the closer
  waits for the callers in "push", and none enters after it has announced itself.
* `AnswersAreTrue`, until the confirmation relay is cancelled: the confirmer takes orders and confirmations from two channels and pairs them
  by position. `PassedInv` says that the orders with the confirmer and in its queue are the last
  ones published, in order, and carry their tags; `EventsInv` that the confirmations still to be
  read are numbered as those same publications, the confirmer one order ahead when it waits for
  a confirmation; `UnsentInv` that an order not yet sent has no answer and is sent once.
* `AcceptedAreAnswered`, for a producer that confirms. `GivenInv` says that an order whose caller
  waits is unsent, published or answered, and that published orders the confirmer has taken are
  answered, but for the one in hand; this holds also after the relay was cancelled, because it
  does not ask which answer. The stages of the shutdown (`StagesInv`) empty the queue of the publisher
  before `Run` returns, and that of the confirmer unless its confirmations ended before.

### Consumer

* `ConsumerTypeCorrect`, `LimitRespected`: `TypeOK` itself counts the throttle as the workers there
  are, of real and empty deliveries; `CountInv` adds that they are finitely many and that the
  channel has no more places than the option allows.
* `WorkersSettle`: `WorkerInv` says for each label of a worker what it has done with its delivery,
  and that a processor is not done before its workers: the delivery is settled as the handler
  said, or lost with a channel that others closed, or one of those that were `adrift` (`Answered`).
  `HoldInv` says that what a processor has in hand is nobody else's and untouched; `StageInv` that
  `Run` closes the channel after the processors.
* `CleanupErrorReported`: `ErrorInv` follows an error from the processor to the collector and to
  the value `Run` returns.

### Only model-checked

* Everything that depends on fairness: `OpReturns`, `CloseTerminates`, `SubscribersReleased`,
  `RedialersEnd`, `ReconnectEnds`, `RelaysShutDown`, `EveryPublicationAnswered`, `RunEnds` (twice)
  and `ReconnectionEnds`. The prover does no liveness and no `ENABLED`.
* The violations, which are counterexamples.
* `AllListenersTold` is false for two listeners; what is proved is `LastListenerTold`.
* `CloseHandlerCalledOnce` for several closers is false; what is proved of it is
  `CrashNeedsTwoCloses`.

## 5. Plan

1. Abstract specifications of the producer (a queue that answers) and of the consumer (a pool of
   workers) and the refinements, as for `RobustTransport`.
2. `TopologyRestored` after a removal that cuts the record: an invariant that says how much of the
   list of queue bindings is left.
3. What a stray confirmation does to a producer: which orders it answers wrongly before the
   confirmer panics.

## 6. Not modelled

* Delays between redial attempts: they change when, not what.
* Logging, the registration of middleware and type definitions: no state that other parts
  read while running. Middleware written by users is outside the models.
* The contents of messages, errors and metadata; only what a branch depends on is kept.
* An operation's error on a live transport that `isRepeatErr` takes for a closed one: it would be
  repeated on the next transport (`OpFails`).
* The flow relay's values (`eventRelayNotifyFlow.go`): its setups, legs and shutdown are those
  of `RelaySync`; the event it adds when a leg ends is read by the user only.
* `NotifyConfirm` (`channelHandlersBuilder.go:576`), which splits the stream of `NotifyPublish`
  over two channels and registers its listener from a goroutine; `Tx` methods, which panic.
* A producer with queues of no place, a second call of `Run`, `RegisterProcessor` after `Run`
  (which panics), a negative limit of workers (for which `New` panics).
* Routing keys, and the branch for a passive declaration that is not found, which cannot run.
* The test harness (`amqptest`, `connectionTester.go`) and generated documentation.
* The streadway library and the broker, except as the sources of losses, signals and
  confirmations.
