---------------------------- MODULE PublishTags ----------------------------
(***************************************************************************)
(* PublishTagsMiddleware (pkg/amqp/defaultmiddlewares/publishTag.go): the  *)
(* confirmations of one Channel in confirm mode, continuous over its       *)
(* streadway channels.  The broker numbers the publications of each        *)
(* streadway channel (leg) from 1.  The middleware adds to each tag the    *)
(* number published on earlier legs and, when the Channel reconnects,      *)
(* sends an orphan confirmation for every publication of the old legs that *)
(* a listener has not had an answer to.                                    *)
(*                                                                         *)
(* A listener is a call of NotifyPublish.  Its relay passes on the         *)
(* confirmations of a leg before the redialer goes on, unless the Channel  *)
(* is closed meanwhile or the redialer has waited thirty seconds for it    *)
(* and cancels it.  What the caller receives is the sequence stream[l].    *)
(***************************************************************************)
EXTENDS Integers, Sequences

CONSTANTS
    Listeners,      \* calls of NotifyPublish
    Publishers,     \* goroutines that publish
    MaxPublish,     \* bound: publications, on all legs
    MaxLegs,        \* bound: streadway channels opened
    Programs        \* what the callers of the Channel may do, see below

(***************************************************************************)
(* A program calls NotifyPublish for some listeners; it may do so during   *)
(* a reconnection (late), call Publish and Confirm at the same time        *)
(* (overlaps), and close the Channel (closes).  It sees so many            *)
(* publications sent and streadway channels opened.                        *)
(***************************************************************************)
Program == [listeners : SUBSET Listeners, late : BOOLEAN, overlaps : BOOLEAN,
            closes : BOOLEAN, publications : 0 .. MaxPublish, legs : 1 .. MaxLegs]

ASSUME ConstantsAssumption ==
    /\ Publishers \in Nat
    /\ MaxPublish \in Nat
    /\ MaxLegs \in Nat \ {0}
    /\ Programs \subseteq Program

VARIABLES
    program,        \* what the callers do
    confirmPc,      \* where the call of Confirm is
    confirmMode,
    confirming,     \* the streadway channel in use is in confirm mode
    publishCount,
    tagOffset,
    inFlight,       \* publications that are sent and not yet counted: those the broker
    unnumbered,     \* numbers, and those sent before the channel was in confirm mode
    sendOrphans,    \* the list of orphan senders, each named by its listener
    sent, first,    \* what the closures of NotifyPublishEvents capture
    listenerPc,     \* where each call of NotifyPublish is
    stream,         \* confirmations put on each listener's channel
    opError,        \* the error of an operation waits for the redialer
    reconnectPc,    \* where the redialer is
    sendsDone,      \* the counter of the wait group
    orphaners,      \* goroutines of reconnectSendOrphans
    ctxDone,        \* the Channel's context is cancelled
    leg,            \* the streadway channel in use
    open,           \* those in use, or read by a relay, that are open
    published,      \* publications the broker has numbered on each
    confirmed,      \* those it has confirmed
    legStart,       \* publications it had numbered on earlier ones
    relayLeg,       \* the streadway channel each relay has set up on last
    inbox,          \* its confirmations the relay has still to pass on
    cancelled,      \* the relay was not waited for any longer: that leg is its last
    panicked,       \* a goroutine has panicked
    crossed,        \* a goroutine has run the orphan sender of another
    miscounted      \* Publish overlapped Confirm: counted and not numbered, or the reverse

confirmVars  == <<confirmPc, confirmMode, confirming>>
tagVars      == <<publishCount, tagOffset>>
flightVars   == <<inFlight, unnumbered>>
closureVars  == <<sendOrphans, sent, first>>
redialVars   == <<opError, reconnectPc>>
orphanVars   == <<sendsDone, orphaners>>
channelVars  == <<leg, open>>
brokerVars   == <<published, confirmed, legStart>>
relayVars    == <<relayLeg, inbox, cancelled>>
noteVars     == <<program, panicked, crossed, miscounted>>

vars == <<confirmVars, tagVars, flightVars, closureVars, listenerPc, stream, redialVars,
          orphanVars, ctxDone, channelVars, brokerVars, relayVars, noteVars>>

Legs         == 1 .. MaxLegs
ListenerPcs  == {"none", "created", "wantRead", "listening", "hung", "closed"}
ReconnectPcs == {"ready", "redial", "waitLegs", "waitRest", "counted", "sending", "stopped"}
OrphanerPcs  == {"start", "send", "done"}

Init ==
    /\ program \in Programs
    /\ confirmPc = "idle"
    /\ confirmMode = FALSE
    /\ confirming = FALSE
    /\ publishCount = 0
    /\ tagOffset = 0
    /\ inFlight = 0
    /\ unnumbered = 0
    /\ sendOrphans = <<>>
    /\ sent = [l \in Listeners |-> 0]
    /\ first = [l \in Listeners |-> TRUE]
    /\ listenerPc = [l \in Listeners |-> "none"]
    /\ stream = [l \in Listeners |-> <<>>]
    /\ opError = FALSE
    /\ reconnectPc = "ready"
    /\ sendsDone = 0
    /\ orphaners = <<>>
    /\ ctxDone = FALSE
    /\ leg = 1
    /\ open = {1}
    /\ published = [g \in Legs |-> 0]
    /\ confirmed = [g \in Legs |-> 0]
    /\ legStart = [g \in Legs |-> 0]
    /\ relayLeg = [l \in Listeners |-> 0]
    /\ inbox = [l \in Listeners |-> <<>>]
    /\ cancelled = [l \in Listeners |-> FALSE]
    /\ panicked = FALSE
    /\ crossed = FALSE
    /\ miscounted = FALSE

LockFree    == reconnectPc \in {"ready", "stopped"}
Live        == leg \in open
NoReaders   == confirmPc = "idle" /\ inFlight = 0 /\ unnumbered = 0
Registering == \E l \in Listeners : listenerPc[l] \in {"created", "wantRead"}

\* A confirmation has a tag, says whether it is an orphan and, for the others, names
\* the publication it answers.
Receive(l, confirmation) == stream' = [stream EXCEPT ![l] = Append(@, confirmation)]

-----------------------------------------------------------------------------
(***************************************************************************)
(* Confirm and Publish: operations, under the transport lock for read.     *)
(* Each looks at the mode of the middleware when its own call has come     *)
(* back, so one may overlap the other.                                     *)
(***************************************************************************)

ConfirmSends ==
    /\ LockFree /\ Live /\ ~ctxDone
    /\ confirmPc = "idle"
    /\ ~confirmMode
    /\ program.overlaps \/ NoReaders
    /\ confirmPc' = "sent"
    /\ confirming' = TRUE
    /\ UNCHANGED <<confirmMode, tagVars, flightVars, closureVars, listenerPc, stream,
                   redialVars, orphanVars, ctxDone, channelVars, brokerVars, relayVars,
                   noteVars>>

ConfirmReturns ==
    /\ confirmPc = "sent"
    /\ confirmPc' = "idle"
    /\ confirmMode' = TRUE
    /\ UNCHANGED <<confirming, tagVars, flightVars, closureVars, listenerPc, stream,
                   redialVars, orphanVars, ctxDone, channelVars, brokerVars, relayVars,
                   noteVars>>

\* The reply is lost with the channel; the call is repeated on the next.
ConfirmFails ==
    /\ confirmPc = "sent"
    /\ ~Live
    /\ confirmPc' = "idle"
    /\ opError' = TRUE
    /\ UNCHANGED <<confirmMode, confirming, tagVars, flightVars, closureVars, listenerPc,
                   stream, reconnectPc, orphanVars, ctxDone, channelVars, brokerVars,
                   relayVars, noteVars>>

\* streadway has sent the publication, and the broker numbers it in confirm mode.
PublishSends ==
    /\ LockFree /\ Live /\ ~ctxDone
    /\ program.overlaps \/ confirmPc = "idle"
    /\ inFlight + unnumbered < Publishers
    /\ publishCount + inFlight + unnumbered < program.publications
    /\ legStart[leg] + published[leg] < program.publications
    /\ \/ confirming /\ published' = [published EXCEPT ![leg] = @ + 1]
                     /\ inFlight' = inFlight + 1
                     /\ UNCHANGED unnumbered
       \/ ~confirming /\ unnumbered' = unnumbered + 1
                      /\ UNCHANGED <<published, inFlight>>
    /\ UNCHANGED <<confirmVars, tagVars, closureVars, listenerPc, stream, redialVars,
                   orphanVars, ctxDone, channelVars, confirmed, legStart, relayVars,
                   noteVars>>

\* The call of streadway has returned without an error.
PublishReturns ==
    /\ \/ inFlight > 0 /\ inFlight' = inFlight - 1 /\ UNCHANGED unnumbered
          /\ miscounted' = (miscounted \/ ~confirmMode)
       \/ unnumbered > 0 /\ unnumbered' = unnumbered - 1 /\ UNCHANGED inFlight
          /\ miscounted' = (miscounted \/ confirmMode)
    /\ publishCount' = IF confirmMode THEN publishCount + 1 ELSE publishCount
    /\ UNCHANGED <<confirmVars, tagOffset, closureVars, listenerPc, stream, redialVars,
                   orphanVars, ctxDone, channelVars, brokerVars, relayVars, program,
                   panicked, crossed>>

\* Variant: a publication that failed is counted too.
CountAfterError_Counted == IF confirmMode THEN publishCount + 1 ELSE publishCount
CountAfterError         == publishCount

\* streadway refuses the publication: the channel is lost, or the arguments are wrong.
\* Either way the error wakes the redialer.
PublishFails ==
    /\ LockFree /\ ~ctxDone
    /\ publishCount' = CountAfterError
    /\ opError' = TRUE
    /\ UNCHANGED <<confirmVars, tagOffset, flightVars, closureVars, listenerPc, stream,
                   reconnectPc, orphanVars, ctxDone, channelVars, brokerVars, relayVars,
                   noteVars>>

-----------------------------------------------------------------------------
(***************************************************************************)
(* NotifyPublish and the relay of its events.  The closures are created    *)
(* before the operation that registers the relay takes the lock.           *)
(***************************************************************************)

MoveListener(l, from, to) ==
    /\ listenerPc[l] = from
    /\ listenerPc' = [listenerPc EXCEPT ![l] = to]

CreateListener(l) ==
    /\ l \in program.listeners
    /\ program.late \/ reconnectPc = "ready"
    /\ MoveListener(l, "none", "created")
    /\ sent' = [sent EXCEPT ![l] = tagOffset]
    /\ UNCHANGED <<confirmVars, tagVars, flightVars, sendOrphans, first, stream, redialVars,
                   orphanVars, ctxDone, channelVars, brokerVars, relayVars, noteVars>>

\* Variant: the closure is not kept.
SendersWith_Dropped(l) == sendOrphans
SendersWith(l)         == Append(sendOrphans, l)

AddSender(l) ==
    /\ MoveListener(l, "created", "wantRead")
    /\ sendOrphans' = SendersWith(l)
    /\ UNCHANGED <<confirmVars, tagVars, flightVars, sent, first, stream, redialVars,
                   orphanVars, ctxDone, channelVars, brokerVars, relayVars, noteVars>>

\* A cancelled context refuses the operation and the call hangs.
StartListening(l) ==
    /\ LockFree
    /\ MoveListener(l, "wantRead", IF ctxDone THEN "hung" ELSE "listening")
    /\ relayLeg' = [relayLeg EXCEPT ![l] = leg]
    /\ UNCHANGED <<confirmVars, tagVars, flightVars, closureVars, stream, redialVars,
                   orphanVars, ctxDone, channelVars, brokerVars, inbox, cancelled, noteVars>>

\* Variant: the count is not brought in line at the first event.
SentBefore_AsIs(l, tag) == sent[l]
SentBefore(l, tag)      == IF first[l] THEN sent[l] + tag - 1 ELSE sent[l]

\* The relay adds the offset of the moment, passes the confirmation on and counts it.  One
\* step: a relay that is waited for shares neither the offset nor the count meanwhile.
RelayEvent(l) ==
    /\ listenerPc[l] = "listening"
    /\ inbox[l] # <<>>
    /\ LET tag == Head(inbox[l]).tag
       IN  /\ Receive(l, [tag |-> tag + tagOffset, orphan |-> FALSE,
                          of |-> Head(inbox[l]).of])
           /\ sent' = [sent EXCEPT ![l] = SentBefore(l, tag) + 1]
    /\ first' = [first EXCEPT ![l] = FALSE]
    /\ inbox' = [inbox EXCEPT ![l] = Tail(@)]
    /\ UNCHANGED <<confirmVars, tagVars, flightVars, sendOrphans, listenerPc, redialVars,
                   orphanVars, ctxDone, channelVars, brokerVars, relayLeg, cancelled,
                   noteVars>>

LegOver(l) == inbox[l] = <<>> /\ relayLeg[l] \notin open

\* The relay shuts down, and closes its listener, once its leg is over and the context or
\* the relay itself cancelled.
RelayShutdown(l) ==
    /\ ctxDone \/ cancelled[l]
    /\ LegOver(l)
    /\ MoveListener(l, "listening", "closed")
    /\ UNCHANGED <<confirmVars, tagVars, flightVars, closureVars, stream, redialVars,
                   orphanVars, ctxDone, channelVars, brokerVars, relayVars, noteVars>>

-----------------------------------------------------------------------------
(***************************************************************************)
(* The reconnection: ChannelReconnect, reconnectSendOrphans.               *)
(***************************************************************************)

\* The channel is lost, or an operation has met an error on it.
StartReconnect ==
    /\ reconnectPc = "ready"
    /\ ~Live \/ opError
    /\ NoReaders
    /\ leg < program.legs \/ ctxDone
    /\ program.late \/ ~Registering
    /\ reconnectPc' = "redial"
    /\ UNCHANGED <<confirmVars, tagVars, flightVars, closureVars, listenerPc, stream,
                   opError, orphanVars, ctxDone, channelVars, brokerVars, relayVars,
                   noteVars>>

\* Each attempt begins with no error kept.
Redial ==
    /\ reconnectPc = "redial"
    /\ reconnectPc' = IF ctxDone THEN "stopped" ELSE "waitLegs"
    /\ opError' = FALSE
    /\ UNCHANGED <<confirmVars, tagVars, flightVars, closureVars, listenerPc, stream,
                   orphanVars, ctxDone, channelVars, brokerVars, relayVars, noteVars>>

WaitedFor(l) == listenerPc[l] = "listening" /\ ~cancelled[l]

\* After thirty seconds the redialer cancels the relay it waits for and goes on.  It has
\* one timer for all.  The relay goes on with its leg.
CancelRelay(l) ==
    /\ reconnectPc = "waitLegs"
    /\ WaitedFor(l) /\ ~LegOver(l)
    /\ cancelled' = [cancelled EXCEPT ![l] = TRUE]
    /\ reconnectPc' = "waitRest"
    /\ UNCHANGED <<confirmVars, tagVars, flightVars, closureVars, listenerPc, stream,
                   opError, orphanVars, ctxDone, channelVars, brokerVars, relayLeg, inbox,
                   noteVars>>

\* Variant: the offset grows by what the broker confirmed of the leg.
OffsetAtReconnect_Confirmed == tagOffset + confirmed[leg]
OffsetAtReconnect           == publishCount

\* The legs are over, but for those of cancelled relays, or the context is cancelled.
\* The goroutines of an earlier attempt have ended.
SetOffset ==
    /\ reconnectPc \in {"waitLegs", "waitRest"}
    /\ ctxDone \/ \A l \in Listeners : WaitedFor(l) => LegOver(l)
    /\ \A i \in DOMAIN orphaners : orphaners[i].pc = "done"
    /\ tagOffset' = OffsetAtReconnect
    /\ sendsDone' = Len(sendOrphans)
    /\ reconnectPc' = "counted"
    /\ UNCHANGED <<confirmVars, publishCount, flightVars, closureVars, listenerPc, stream,
                   opError, orphaners, ctxDone, channelVars, brokerVars, relayVars, noteVars>>

LaunchOrphaners ==
    /\ reconnectPc = "counted"
    /\ orphaners' = [i \in DOMAIN sendOrphans |->
                        [pc |-> "start", sender |-> i, count |-> 0]]
    /\ reconnectPc' = "sending"
    /\ UNCHANGED <<confirmVars, tagVars, flightVars, closureVars, listenerPc, stream,
                   opError, sendsDone, ctxDone, channelVars, brokerVars, relayVars, noteVars>>

\* The goroutines share the variable of the loop that launches them (go.mod: go 1.16):
\* each finds in it the sender of its own iteration or of a later one.
OrphanerStarts(i) ==
    /\ orphaners[i].pc = "start"
    /\ \E j \in i .. Len(orphaners) :
        /\ orphaners' = [orphaners EXCEPT ![i] =
              [pc |-> "send", sender |-> j, count |-> sent[sendOrphans[j]]]]
        /\ crossed' = (crossed \/ j # i)
    /\ UNCHANGED <<confirmVars, tagVars, flightVars, closureVars, listenerPc, stream,
                   redialVars, sendsDone, ctxDone, channelVars, brokerVars, relayVars,
                   program, panicked, miscounted>>

\* One round of the loop of notifyPublishEventOrphans.  The listener of a relay that
\* has shut down is closed.
OrphanerSends(i) ==
    LET l == sendOrphans[orphaners[i].sender]
    IN  /\ orphaners[i].pc = "send"
        /\ orphaners[i].count < tagOffset
        /\ Receive(l, [tag |-> orphaners[i].count + 1, orphan |-> TRUE, of |-> 0])
        /\ orphaners' = [orphaners EXCEPT ![i].count = @ + 1]
        /\ panicked' = (listenerPc[l] = "closed")
        /\ UNCHANGED <<confirmVars, tagVars, flightVars, closureVars, listenerPc, redialVars,
                       sendsDone, ctxDone, channelVars, brokerVars, relayVars, program,
                       crossed, miscounted>>

\* The wait group panics when it goes below zero.
OrphanerEnds(i) ==
    LET l == sendOrphans[orphaners[i].sender]
    IN  /\ orphaners[i].pc = "send"
        /\ orphaners[i].count >= tagOffset
        /\ sent' = [sent EXCEPT ![l] = orphaners[i].count]
        /\ orphaners' = [orphaners EXCEPT ![i] = [pc |-> "done", sender |-> i, count |-> 0]]
        /\ sendsDone' = sendsDone - 1
        /\ panicked' = (sendsDone = 0)
        /\ UNCHANGED <<confirmVars, tagVars, flightVars, sendOrphans, first, listenerPc,
                       stream, redialVars, ctxDone, channelVars, brokerVars, relayVars,
                       program, crossed, miscounted>>

\* Variant: the handler does not wait for the orphans to be sent.
OrphansSent_NotAwaited == TRUE
OrphansSent            == sendsDone = 0

\* Relays that set up on a new channel: all that were waited for or, once the context is
\* cancelled, some of those that have come to the end of their leg.
Followers ==
    LET atEnd == {l \in Listeners : WaitedFor(l) /\ LegOver(l)}
    IN  IF ctxDone THEN SUBSET atEnd ELSE {atEnd}

\* The handlers inside this one have opened a channel, in confirm mode if this one was.
\* The channel it replaces is not closed: if it is open still, some relays may read it.
FetchSucceeds ==
    /\ reconnectPc = "sending"
    /\ OrphansSent
    /\ leg < program.legs
    /\ leg' = leg + 1
    /\ \E followers \in Followers :
          relayLeg' = [l \in Listeners |-> IF l \in followers THEN leg + 1 ELSE relayLeg[l]]
    /\ open' = {g \in open : \E l \in Listeners :
                    listenerPc[l] = "listening" /\ relayLeg'[l] = g} \cup {leg + 1}
    /\ legStart' = [legStart EXCEPT ![leg + 1] = legStart[leg] + published[leg]]
    /\ confirming' = confirmMode
    /\ reconnectPc' = "ready"
    /\ UNCHANGED <<confirmPc, confirmMode, tagVars, flightVars, closureVars, listenerPc,
                   stream, opError, orphanVars, ctxDone, published, confirmed, inbox,
                   cancelled, noteVars>>

FetchFails ==
    /\ reconnectPc = "sending"
    /\ OrphansSent
    /\ reconnectPc' = "redial"
    /\ UNCHANGED <<confirmVars, tagVars, flightVars, closureVars, listenerPc, stream,
                   opError, orphanVars, ctxDone, channelVars, brokerVars, relayVars,
                   noteVars>>

-----------------------------------------------------------------------------
(***************************************************************************)
(* The broker and Close.                                                   *)
(***************************************************************************)

\* streadway gives the confirmations of a channel in order, to every listener.
BrokerConfirms(g) ==
    /\ g \in open
    /\ confirmed[g] < published[g]
    /\ confirmed' = [confirmed EXCEPT ![g] = @ + 1]
    /\ LET number == confirmed[g] + 1
       IN  inbox' = [l \in Listeners |->
                        IF listenerPc[l] = "listening" /\ relayLeg[l] = g
                        THEN Append(inbox[l], [tag |-> number, of |-> legStart[g] + number])
                        ELSE inbox[l]]
    /\ UNCHANGED <<confirmVars, tagVars, flightVars, closureVars, listenerPc, stream,
                   redialVars, orphanVars, ctxDone, channelVars, published, legStart,
                   relayLeg, cancelled, noteVars>>

\* The last channel lives until the context is cancelled (the bound on the legs).
ChannelDies(g) ==
    /\ g \in open
    /\ g < program.legs \/ ctxDone
    /\ open' = open \ {g}
    /\ UNCHANGED <<confirmVars, tagVars, flightVars, closureVars, listenerPc, stream,
                   redialVars, orphanVars, ctxDone, leg, brokerVars, relayVars, noteVars>>

CloseCancelsContext ==
    /\ program.closes
    /\ ~ctxDone
    /\ ctxDone' = TRUE
    /\ UNCHANGED <<confirmVars, tagVars, flightVars, closureVars, listenerPc, stream,
                   redialVars, orphanVars, channelVars, brokerVars, relayVars, noteVars>>

CloseChannel ==
    /\ ctxDone /\ LockFree /\ NoReaders
    /\ Live
    /\ open' = open \ {leg}
    /\ UNCHANGED <<confirmVars, tagVars, flightVars, closureVars, listenerPc, stream,
                   redialVars, orphanVars, ctxDone, leg, brokerVars, relayVars, noteVars>>

Reconnect ==
    \/ StartReconnect \/ Redial \/ (\E l \in Listeners : CancelRelay(l))
    \/ SetOffset \/ LaunchOrphaners \/ FetchSucceeds \/ FetchFails

Listener(l) ==
    \/ AddSender(l) \/ StartListening(l) \/ RelayEvent(l) \/ RelayShutdown(l)

Orphaner(i) == OrphanerStarts(i) \/ OrphanerSends(i) \/ OrphanerEnds(i)

OperationStarts  == ConfirmSends \/ PublishSends \/ PublishFails
OperationReturns == ConfirmReturns \/ ConfirmFails \/ PublishReturns

Next ==
    /\ ~panicked
    /\ \/ OperationStarts \/ OperationReturns
       \/ \E l \in Listeners : CreateListener(l) \/ Listener(l)
       \/ Reconnect
       \/ \E i \in DOMAIN orphaners : Orphaner(i)
       \/ \E g \in Legs : BrokerConfirms(g) \/ ChannelDies(g)
       \/ CloseCancelsContext \/ CloseChannel

Spec == Init /\ [][Next]_vars

(***************************************************************************)
(* Fairness.  Operations return, goroutines run, the relays' callers read, *)
(* the timer fires, the broker confirms what it has received and does not  *)
(* refuse a channel for ever.  Nobody is made to publish, to listen or to  *)
(* close.                                                                  *)
(***************************************************************************)
Fairness ==
    /\ WF_vars(OperationReturns)
    /\ \A l \in Listeners : WF_vars(Listener(l))
    /\ WF_vars(Reconnect) /\ SF_vars(FetchSucceeds)
    /\ WF_vars(\E i \in DOMAIN orphaners : Orphaner(i))
    /\ WF_vars(\E g \in Legs : BrokerConfirms(g))

FairSpec == Spec /\ Fairness

-----------------------------------------------------------------------------
(***************************************************************************)
(* Properties.  Two histories are left out of some of them, by name, since *)
(* the code breaks them there.  A cancelled relay goes on with its leg     *)
(* while the offset moves and the orphans of that leg are sent: its        *)
(* listener gets confirmations twice, and with tags of other publications. *)
(* And a Publish that overlaps Confirm is counted without having been      *)
(* numbered, or numbered without being counted (publishTag.go:124, 138):   *)
(* every offset from then on is wrong by one.                              *)
(***************************************************************************)

Confirmations == [tag : Nat \ {0}, orphan : BOOLEAN, of : 0 .. MaxPublish]

\* Every variable keeps its type, and the counters their bounds.
TypeOK ==
    /\ confirmPc \in {"idle", "sent"}
    /\ confirmMode \in BOOLEAN
    /\ confirming \in BOOLEAN
    /\ publishCount \in 0 .. MaxPublish
    /\ tagOffset \in 0 .. publishCount
    /\ inFlight \in 0 .. published[leg]
    /\ unnumbered \in 0 .. MaxPublish
    /\ sendOrphans \in Seq(Listeners)
    /\ sent \in [Listeners -> Nat]
    /\ first \in [Listeners -> BOOLEAN]
    /\ listenerPc \in [Listeners -> ListenerPcs]
    /\ stream \in [Listeners -> Seq(Confirmations)]
    /\ opError \in BOOLEAN
    /\ reconnectPc \in ReconnectPcs
    /\ sendsDone \in Nat \/ panicked
    /\ orphaners \in Seq([pc : OrphanerPcs, sender : Nat, count : Nat])
    /\ ctxDone \in BOOLEAN
    /\ leg \in Legs
    /\ open \subseteq 1 .. leg
    /\ published \in [Legs -> 0 .. MaxPublish]
    /\ confirmed \in [Legs -> 0 .. MaxPublish]
    /\ legStart \in [Legs -> 0 .. MaxPublish]
    /\ relayLeg \in [Listeners -> 0 .. leg]
    /\ inbox \in [Listeners -> Seq([tag : 1 .. MaxPublish, of : 1 .. MaxPublish])]
    /\ cancelled \in [Listeners -> BOOLEAN]
    /\ panicked \in BOOLEAN
    /\ crossed \in BOOLEAN
    /\ miscounted \in BOOLEAN

\* A listener gets one confirmation after another, without a gap or a repetition, from
\* one streadway channel to the next (publishTag.go:31), also when the channel replaced
\* was not lost.  Except in the two histories above; once a goroutine has run the orphan
\* sender of another (publishTag.go:70); and where NotifyPublish may be called during a
\* reconnection, which may not find its orphan sender in the list (publishTag.go:68).
Unbroken ==
    ~ctxDone /\ ~miscounted /\ ~crossed /\ ~program.late =>
        \A l \in Listeners : ~cancelled[l] => \A i \in 1 .. Len(stream[l]) - 1 :
            stream[l][i + 1].tag = stream[l][i].tag + 1

\* The tag of a confirmation is the number of the publication it answers, counted over
\* all streadway channels (publishTag.go:23), except in the two histories above.
TagNamesPublication ==
    ~ctxDone /\ ~miscounted =>
        \A l \in Listeners : ~cancelled[l] => \A i \in DOMAIN stream[l] :
            ~stream[l][i].orphan => stream[l][i].tag = stream[l][i].of

Told(l) == WaitedFor(l) => sent[l] >= tagOffset

\* When callers may use the channel again every listener has been told of the
\* publications that were lost (publishTag.go:63, "to all listeners", and :81).
AllListenersTold ==
    reconnectPc = "ready" /\ ~ctxDone => \A l \in Listeners : Told(l)

\* As long as no goroutine has run the orphan sender of another that holds for every
\* listener; after that it holds still for the listener registered last.  Late listeners
\* are left out, as above.
LastListenerTold ==
    reconnectPc = "ready" /\ ~ctxDone /\ ~program.late =>
        \A i \in DOMAIN sendOrphans :
            ~crossed \/ i = Len(sendOrphans) => Told(sendOrphans[i])

LastTag(l) == IF stream[l] = <<>> THEN 0 ELSE stream[l][Len(stream[l])].tag

\* Once a listener has had a confirmation it gets one for every publication: again and
\* again it has caught up, so that publication n of any number is answered in the end.
\* Unless its relay is cancelled or its orphan sender passed over, or the publications are
\* miscounted; or the process dies, of an orphan sent to a listener that a cancelled relay
\* has closed.  Late listeners are left out, as above.
EveryPublicationAnswered ==
    \A l \in Listeners : []<>
        (stream[l] # <<>> =>
            \/ LastTag(l) >= publishCount
            \/ program.late \/ ctxDone \/ cancelled[l] \/ crossed \/ miscounted \/ panicked)
=============================================================================
