---------------------------- MODULE DeliveryTags ----------------------------
(***************************************************************************)
(* DeliveryTagsMiddleware (pkg/amqp/defaultmiddlewares/deliveryTags.go):   *)
(* delivery tags that go on counting when the streadway channel under a    *)
(* Channel is replaced.  The broker numbers the deliveries of each         *)
(* streadway channel (leg) from 1; the middleware adds the number of       *)
(* deliveries counted on earlier legs.  An acknowledgement that covers a   *)
(* delivery of an earlier leg, an orphan, returns an error that says which *)
(* tags were orphaned.                                                     *)
(*                                                                         *)
(* The Channel has one consumer, a relay of its leg, and callers of Get.   *)
(* Ack, Nack and Reject are the same to the middleware: Reject and many    *)
(* calls of the others name one delivery, the rest name all up to a tag    *)
(* (multiple).                                                             *)
(***************************************************************************)
EXTENDS Integers, Sequences, FiniteSets

CONSTANTS
    Ackers,          \* goroutines that acknowledge
    Multiples,       \* values of the multiple argument they use
    MaxDeliveries,   \* bound: deliveries the broker makes, on all legs
    MaxEmptyGets,    \* bound: calls of Get that find the queue empty
    MaxLegs          \* bound: streadway channels opened

ASSUME ConstantsAssumption ==
    /\ Multiples \subseteq BOOLEAN
    /\ MaxDeliveries \in Nat
    /\ MaxEmptyGets \in Nat
    /\ MaxLegs \in Nat \ {0}

VARIABLES
    tagConsumeCount,
    tagConsumeOffset,
    tagLatestMultiAck,
    leg,            \* the streadway channel in use
    open,           \* those in use, or read by the relay, that are open
    relayLeg,       \* the one the consumer's relay reads
    cancelled,      \* the relay was not waited for any longer: that leg is its last
    opError,        \* an acknowledgement's error waits for the redialer
    reconnectPc,    \* where the redialer is
    sent,           \* deliveries the broker has made on each leg
    pipe,           \* those that streadway holds for the consumer's relay
    handed,         \* deliveries the callers have, each with the tag it was given
    emptyGets,
    ackPc, call,    \* where each acknowledgement is, its arguments, and what it covers
    asked,          \* deliveries an acknowledgement was asked for
    settled,        \* <<leg, number>> of those sent to their own leg, or reported as orphans
    ackedByBroker,  \* <<leg, number>> of what the broker took as acknowledged
    overtaken,      \* streadway dropped a delivery after a later one was handed over
    orderly         \* callers use multiple only, in order, one at a time

tagVars     == <<tagConsumeCount, tagConsumeOffset>>
channelVars == <<leg, open>>
relayVars   == <<relayLeg, cancelled>>
redialVars  == <<opError, reconnectPc>>
brokerVars  == <<sent, pipe, ackedByBroker>>
callVars    == <<ackPc, call, asked, settled>>
noteVars    == <<emptyGets, overtaken, orderly>>

vars == <<tagVars, tagLatestMultiAck, channelVars, relayVars, redialVars, brokerVars,
          handed, callVars, noteVars>>

\* late: a relay passed it that was not waited for.
Delivery == [leg : 1 .. MaxLegs, number : 1 .. MaxDeliveries, tag : Nat, late : BOOLEAN]
NoCall   == [tag |-> 0, multiple |-> FALSE, covers |-> {}]

Init ==
    /\ tagConsumeCount = 0
    /\ tagConsumeOffset = 0
    /\ tagLatestMultiAck = 0
    /\ leg = 1
    /\ open = {1}
    /\ relayLeg = 1
    /\ cancelled = FALSE
    /\ opError = FALSE
    /\ reconnectPc = "ready"
    /\ sent = [l \in 1 .. MaxLegs |-> 0]
    /\ pipe = <<>>
    /\ handed = {}
    /\ emptyGets = 0
    /\ ackPc = [a \in Ackers |-> "idle"]
    /\ call = [a \in Ackers |-> NoCall]
    /\ asked = {}
    /\ settled = {}
    /\ ackedByBroker = {}
    /\ overtaken = FALSE
    /\ orderly = TRUE

LockFree  == reconnectPc = "ready"
Live      == leg \in open
NoReaders == \A a \in Ackers : ackPc[a] # "resolve"

-----------------------------------------------------------------------------
(***************************************************************************)
(* Deliveries.  Reading the offset and counting the delivery are one step: *)
(* the offset moves only between legs, and addition commutes.              *)
(***************************************************************************)

Deliveries ==
    {d \in (1 .. MaxLegs) \X (1 .. MaxDeliveries) : d[2] <= sent[d[1]]}
MayDeliver == Cardinality(Deliveries) < MaxDeliveries

HandOver(from, number, late) ==
    handed' = handed \cup
        {[leg |-> from, number |-> number, tag |-> number + tagConsumeOffset, late |-> late]}

ConsumeEvent ==
    /\ pipe # <<>>
    /\ HandOver(relayLeg, Head(pipe), cancelled)
    /\ tagConsumeCount' = tagConsumeCount + 1
    /\ pipe' = Tail(pipe)
    /\ UNCHANGED <<tagConsumeOffset, tagLatestMultiAck, channelVars, relayVars, redialVars,
                   sent, ackedByBroker, callVars, noteVars>>

\* Variant: a delivery that was fetched is not counted.
CountAfterGet_Forgotten == tagConsumeCount
CountAfterGet           == tagConsumeCount + 1

Get ==
    /\ LockFree /\ Live
    /\ MayDeliver
    /\ HandOver(leg, sent[leg] + 1, FALSE)
    /\ sent' = [sent EXCEPT ![leg] = @ + 1]
    /\ tagConsumeCount' = CountAfterGet
    /\ UNCHANGED <<tagConsumeOffset, tagLatestMultiAck, channelVars, relayVars, redialVars,
                   pipe, ackedByBroker, callVars, noteVars>>

\* A Get that finds no message is counted as well, and leaves a tag nobody has.
GetFindsNone ==
    /\ LockFree /\ Live
    /\ emptyGets < MaxEmptyGets
    /\ tagConsumeCount' = CountAfterGet
    /\ emptyGets' = emptyGets + 1
    /\ UNCHANGED <<tagConsumeOffset, tagLatestMultiAck, channelVars, relayVars, redialVars,
                   brokerVars, handed, callVars, overtaken, orderly>>

-----------------------------------------------------------------------------
(***************************************************************************)
(* Ack, Nack, Reject: runAckMethod, an operation under the transport lock. *)
(***************************************************************************)

Tag(a)      == call[a].tag
Multiple(a) == call[a].multiple

Id(d)  == <<d.leg, d.number>>
Ids(D) == {Id(d) : d \in D}

Covered(d, multiple) == IF multiple THEN {e \in handed : e.tag <= d.tag} ELSE {d}

\* A caller names a delivery it has and did not acknowledge before.
AckCall(a) ==
    /\ ackPc[a] = "idle"
    /\ \E d \in handed \ asked, multiple \in Multiples :
        /\ call' = [call EXCEPT ![a] = [tag |-> d.tag, multiple |-> multiple,
                                        covers |-> Covered(d, multiple)]]
        /\ asked' = asked \cup Covered(d, multiple)
        /\ orderly' = (/\ orderly
                       /\ multiple
                       /\ \A e \in asked : e.tag < d.tag
                       /\ \A b \in Ackers : ackPc[b] = "idle")
    /\ ackPc' = [ackPc EXCEPT ![a] = "called"]
    /\ UNCHANGED <<tagVars, tagLatestMultiAck, channelVars, relayVars, redialVars,
                   brokerVars, handed, settled, emptyGets, overtaken>>

OnThisLeg(a) == Tag(a) > tagConsumeOffset

\* The broker reads the tag it is sent as a number of this leg.  A number it does not
\* know acknowledges nothing (and may cost the channel, see ChannelDies).
TakenByBroker(tag, multiple) ==
    LET known   == 1 .. sent[leg]
        numbers == IF multiple THEN known \cap 1 .. tag ELSE {tag}
    IN  IF tag \in known THEN {<<leg, n>> : n \in numbers} ELSE {}

AckSends(a) ==
    /\ LockFree /\ Live
    /\ ackPc[a] = "called"
    /\ OnThisLeg(a)
    /\ ackedByBroker' = ackedByBroker \cup TakenByBroker(Tag(a), Multiple(a))
    /\ LET number == Tag(a) - tagConsumeOffset
       IN  settled' = settled \cup
             {<<leg, n>> : n \in IF Multiple(a) THEN 1 .. number ELSE {number}}
    /\ ackPc' = [ackPc EXCEPT ![a] = "resolve"]
    /\ UNCHANGED <<tagVars, tagLatestMultiAck, channelVars, relayVars, redialVars, sent,
                   pipe, handed, call, asked, noteVars>>

AckIsLate(a) ==
    /\ LockFree
    /\ ackPc[a] = "called"
    /\ ~OnThisLeg(a)
    /\ ackPc' = [ackPc EXCEPT ![a] = "resolve"]
    /\ UNCHANGED <<tagVars, tagLatestMultiAck, channelVars, relayVars, redialVars,
                   brokerVars, handed, call, asked, settled, noteVars>>

\* Variant: one tag is taken to be of this leg.
ContainsOrphans_OneIsNone(tag, multiple) ==
    /\ multiple
    /\ tag < tagConsumeOffset \/ tagLatestMultiAck < tagConsumeOffset
ContainsOrphans(tag, multiple) ==
    /\ tag <= tagConsumeOffset \/ multiple
    /\ tag < tagConsumeOffset \/ tagLatestMultiAck < tagConsumeOffset

\* Variant: the last tag acknowledged is taken for an orphan.
FirstOrphan_LatestToo(tag, multiple) == IF multiple THEN tagLatestMultiAck ELSE tag
FirstOrphan(tag, multiple) == IF multiple THEN tagLatestMultiAck + 1 ELSE tag

LastOrphan(tag, multiple) ==
    IF multiple /\ tag > tagConsumeOffset THEN tagConsumeOffset ELSE tag

\* The range of the error.  It may be empty: first may be greater than last.
ReportedBy(a) == FirstOrphan(Tag(a), Multiple(a)) .. LastOrphan(Tag(a), Multiple(a))

Returns(a) ==
    /\ ackPc[a] = "resolve"
    /\ ackPc' = [ackPc EXCEPT ![a] = "idle"]
    /\ call' = [call EXCEPT ![a] = NoCall]
    /\ tagLatestMultiAck' = IF Multiple(a) THEN Tag(a) ELSE tagLatestMultiAck

AckSucceeds(a) ==
    /\ Returns(a)
    /\ ~ContainsOrphans(Tag(a), Multiple(a))
    /\ UNCHANGED <<tagVars, channelVars, relayVars, redialVars, brokerVars, handed, asked,
                   settled, noteVars>>

\* The error of an orphan is an operation's error: it wakes the redialer.
AckFails(a) ==
    /\ Returns(a)
    /\ ContainsOrphans(Tag(a), Multiple(a))
    /\ settled' = settled \cup
            Ids({e \in handed : e.leg < leg /\ e.tag \in ReportedBy(a)})
    /\ opError' = TRUE
    /\ UNCHANGED <<tagVars, channelVars, relayVars, reconnectPc, brokerVars, handed, asked,
                   noteVars>>

-----------------------------------------------------------------------------
(***************************************************************************)
(* The reconnection: the redialer waits for the relay's leg to end, also   *)
(* when the channel it replaces is still open, and opens the next.  The    *)
(* middleware takes the offset at each attempt.                            *)
(***************************************************************************)

StartReconnect ==
    /\ LockFree
    /\ ~Live \/ opError
    /\ NoReaders
    /\ leg < MaxLegs
    /\ reconnectPc' = "waitLeg"
    /\ UNCHANGED <<tagVars, tagLatestMultiAck, channelVars, relayVars, opError, brokerVars,
                   handed, callVars, noteVars>>

LegOver == relayLeg \notin open /\ pipe = <<>>

\* The redialer waits thirty seconds, then cancels the relay, which goes on with its leg.
RelayCancelled ==
    /\ reconnectPc = "waitLeg"
    /\ ~LegOver
    /\ cancelled' = TRUE
    /\ UNCHANGED <<tagVars, tagLatestMultiAck, channelVars, relayLeg, redialVars,
                   brokerVars, handed, callVars, noteVars>>

LegWaited == reconnectPc = "waitLeg" /\ (LegOver \/ cancelled)

\* Variant: as if the tags handed out were not counted from the first leg on.
OffsetAtReconnect_ThisLeg == tagConsumeCount - tagConsumeOffset
\* Variant: tags leave a gap.
OffsetAtReconnect_Next == tagConsumeCount + 1
OffsetAtReconnect      == tagConsumeCount

FetchFails ==
    /\ LegWaited
    /\ tagConsumeOffset' = OffsetAtReconnect
    /\ UNCHANGED <<tagConsumeCount, tagLatestMultiAck, channelVars, relayVars, redialVars,
                   brokerVars, handed, callVars, noteVars>>

\* The channel it replaces is not closed: if it is open still, the cancelled relay reads it.
FetchSucceeds ==
    /\ LegWaited
    /\ tagConsumeOffset' = OffsetAtReconnect
    /\ leg' = leg + 1
    /\ open' = (open \cap {relayLeg}) \cup {leg + 1}
    /\ relayLeg' = IF cancelled THEN relayLeg ELSE leg + 1
    /\ opError' = FALSE
    /\ reconnectPc' = "ready"
    /\ UNCHANGED <<tagConsumeCount, tagLatestMultiAck, cancelled, brokerVars, handed,
                   callVars, noteVars>>

-----------------------------------------------------------------------------
(***************************************************************************)
(* The broker and the streadway channels.                                  *)
(***************************************************************************)

BrokerDelivers ==
    /\ relayLeg \in open
    /\ MayDeliver
    /\ sent' = [sent EXCEPT ![relayLeg] = @ + 1]
    /\ pipe' = Append(pipe, sent[relayLeg] + 1)
    /\ UNCHANGED <<tagVars, tagLatestMultiAck, channelVars, relayVars, redialVars,
                   ackedByBroker, handed, callVars, noteVars>>

ChannelDies ==
    /\ \E l \in open : open' = open \ {l}
    /\ UNCHANGED <<tagVars, tagLatestMultiAck, leg, relayVars, redialVars, brokerVars,
                   handed, callVars, noteVars>>

\* A channel that ends may drop what it holds for a consumer.
PipeDropped ==
    /\ relayLeg \notin open
    /\ pipe # <<>>
    /\ pipe' = <<>>
    /\ overtaken' = (overtaken \/ \E e \in handed : e.leg = relayLeg /\ e.number > Head(pipe))
    /\ UNCHANGED <<tagVars, tagLatestMultiAck, channelVars, relayVars, redialVars, sent,
                   ackedByBroker, handed, callVars, emptyGets, orderly>>

Next ==
    \/ ConsumeEvent \/ Get \/ GetFindsNone
    \/ \E a \in Ackers :
        \/ AckCall(a) \/ AckSends(a) \/ AckIsLate(a)
        \/ AckSucceeds(a) \/ AckFails(a)
    \/ StartReconnect \/ RelayCancelled \/ FetchFails \/ FetchSucceeds
    \/ BrokerDelivers \/ ChannelDies \/ PipeDropped

Spec == Init /\ [][Next]_vars

-----------------------------------------------------------------------------
(***************************************************************************)
(* Properties.                                                             *)
(***************************************************************************)

\* Every variable keeps its type, and the offset never runs ahead of the count.
TypeOK ==
    /\ tagConsumeCount \in Nat
    /\ tagConsumeOffset \in 0 .. tagConsumeCount
    /\ tagLatestMultiAck \in Nat
    /\ leg \in 1 .. MaxLegs
    /\ open \subseteq 1 .. leg
    /\ relayLeg \in 1 .. leg
    /\ cancelled \in BOOLEAN
    /\ ~cancelled => relayLeg = leg
    /\ opError \in BOOLEAN
    /\ reconnectPc \in {"ready", "waitLeg"}
    /\ sent \in [1 .. MaxLegs -> 0 .. MaxDeliveries]
    /\ pipe \in Seq(1 .. sent[relayLeg])
    /\ handed \subseteq Delivery
    /\ emptyGets \in 0 .. MaxEmptyGets
    /\ ackPc \in [Ackers -> {"idle", "called", "resolve"}]
    /\ call \in [Ackers -> [tag : Nat, multiple : BOOLEAN, covers : SUBSET handed]]
    /\ \A a \in Ackers :
        IF ackPc[a] = "idle" THEN call[a] = NoCall
        ELSE \E d \in call[a].covers : d.tag = call[a].tag
    /\ asked \subseteq handed
    /\ settled \subseteq (1 .. leg) \X (1 .. MaxDeliveries)
    /\ ackedByBroker \subseteq (1 .. leg) \X (1 .. MaxDeliveries)
    /\ overtaken \in BOOLEAN
    /\ orderly \in BOOLEAN

\* A delivery passed in time, after all that the broker made before it on its leg.
Steady(d) ==
    /\ ~d.late
    /\ \A n \in 1 .. d.number - 1 :
        \E e \in handed : e.leg = d.leg /\ e.number = n /\ ~e.late

\* No delivery gets the tag of a steady one before it, nor a lower one, on its leg or on a
\* later one, whatever was cancelled or lost elsewhere (deliveryTags.go:15, "continuous
\* delivery tags across reconnections").  internal/delivery.go:11-13 and
\* channel.go:914-916 promise this of every delivery.  It fails for two kinds: one that a
\* relay passes that was not waited for, which gets the offset of a later leg, and one that
\* overtook deliveries of its leg that were passed late or never, for which the count falls
\* short of its number.
TagsNotDoubled ==
    \A d, e \in handed :
        Steady(d) /\ (d.leg < e.leg \/ (d.leg = e.leg /\ d.number < e.number))
            => d.tag < e.tag

\* No delivery was lost that a later one had overtaken, and every relay was waited for.
Undisturbed == ~overtaken /\ ~cancelled

\* An acknowledgement that returns without an error covers no orphan the caller was not
\* told of: everything it covers went to the broker on the leg it came from, or was
\* reported by an earlier error (containsOrphans, tagLatestMultiAck).  Undisturbed: where
\* the tags are doubled an orphan can pass for a delivery of the leg in use.
OrphansReported ==
    [][\A a \in Ackers :
        ackPc[a] = "resolve" /\ ackPc'[a] = "idle" /\ Undisturbed
            /\ ~ContainsOrphans(Tag(a), Multiple(a))
        => Ids(call[a].covers) \subseteq settled]_vars

\* Tags of orphans: of deliveries of an earlier leg that were not acknowledged.
OrphanTags == {d.tag : d \in {e \in handed : e.leg < leg /\ Id(e) \notin settled}}

\* Tags no delivery has; only a Get that found nothing leaves one.
SkippedTags == IF emptyGets = 0 THEN {} ELSE Nat \ {d.tag : d \in handed}

\* Callers that acknowledge in order and with multiple are told of no delivery that is
\* not an orphan: a tag of the range belongs to a delivery of an earlier leg that was not
\* acknowledged, or to a Get that found nothing and was counted (deliveryTags.go:70).
\* The latter is an error for no orphan, which channel.go:1033-1040 does not speak of: a
\* caller that acknowledged all it had can get one.  Undisturbed, as above.
OnlyOrphansReported ==
    [][\A a \in Ackers :
        ackPc[a] = "resolve" /\ ackPc'[a] = "idle" /\ orderly /\ Undisturbed
            /\ ContainsOrphans(Tag(a), Multiple(a))
        => ReportedBy(a) \subseteq OrphanTags \cup SkippedTags]_vars

\* What the broker takes as acknowledged is what the callers acknowledged
\* (deliveryTags.go:144, "converting the delivery tag back to the original value for the
\* underlying channel").
AckReachesItsDelivery ==
    ackedByBroker \subseteq Ids(asked)
=============================================================================
