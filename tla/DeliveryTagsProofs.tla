------------------------- MODULE DeliveryTagsProofs -------------------------
(***************************************************************************)
(* Proofs about DeliveryTags, for any goroutines that acknowledge and any  *)
(* number of deliveries and of streadway channels.  The invariant Inv has  *)
(* parts of several reaches: Numbers, on the count, the pipe and the tags  *)
(* of steady deliveries, holds of every history; Ahead, on what is settled *)
(* once an acknowledgement of several deliveries has returned, as long as  *)
(* Undisturbed; Exact, on every tag being given, as long as no Get was     *)
(* empty; Ordered, on nothing else being settled, as long as callers       *)
(* acknowledge in order.                                                   *)
(***************************************************************************)
EXTENDS DeliveryTags, FiniteSetTheorems, TLAPS

\* Deliveries and acknowledgements, in every state: a tag is at most the number of the
\* delivery more than the offset.
TagInv ==
    /\ \A d \in handed : /\ d.leg <= leg /\ d.number <= sent[d.leg]
                         /\ d.tag >= 1 /\ d.tag <= d.number + tagConsumeOffset
    /\ \A l \in 1 .. MaxLegs : l > leg => sent[l] = 0
    /\ reconnectPc = "waitLeg" => leg < MaxLegs
    /\ cancelled => relayLeg # leg \/ reconnectPc = "waitLeg"

CallInv(a) ==
    /\ ackPc[a] # "idle" =>
        /\ call[a].covers \subseteq asked
        /\ \A d \in call[a].covers : d.tag = Tag(a) \/ (Multiple(a) /\ d.tag < Tag(a))
    /\ ackPc[a] = "resolve" =>
        /\ reconnectPc = "ready"
        /\ \A n \in 1 .. MaxDeliveries :
              \/ n + tagConsumeOffset = Tag(a)
              \/ Multiple(a) /\ n + tagConsumeOffset < Tag(a)
              => <<leg, n>> \in settled

LatestInv == tagLatestMultiAck = 0 \/ \E d \in asked : d.tag = tagLatestMultiAck

\* The offset is the one of the leg in use: it moves when the leg is over, or when its
\* relay is not waited for.
Numbering == reconnectPc = "ready" \/ (~cancelled /\ ~LegOver)

Once == \A d, e \in handed : Id(d) = Id(e) => d = e

\* The pipe holds numbers of the relay's leg that nobody has been handed, in order.
PipeInv ==
    /\ \A i \in 1 .. Len(pipe) : \A d \in handed : d.leg = relayLeg => d.number # pipe[i]
    /\ \A i, j \in 1 .. Len(pipe) : i < j => pipe[i] < pipe[j]

\* The tags of the leg in use are its numbers and the offset.
BaseInv ==
    Numbering => \A d \in handed : d.leg = leg => d.tag = d.number + tagConsumeOffset

\* The deliveries that were counted and those in the pipe make up for those of the leg.
CountInv ==
    /\ ~cancelled =>
        /\ ~LegOver => sent[leg] <= tagConsumeCount - tagConsumeOffset + Len(pipe)
        /\ \A i \in 1 .. Len(pipe) : pipe[i] <= tagConsumeCount - tagConsumeOffset + i
    /\ cancelled /\ reconnectPc = "ready" => sent[leg] <= tagConsumeCount - tagConsumeOffset

\* No delivery after one passed in time gets its tag or a lower one, on the same leg ...
OrderInv ==
    \A d, e \in handed :
        /\ ~d.late /\ d.leg = e.leg /\ d.number < e.number => d.tag < e.tag
        /\ Steady(d) /\ d.leg < e.leg => d.tag < e.tag

\* ... and for a steady one on the next, whose tags start at the offset.
SteadyInv ==
    \A d \in handed : Steady(d) => /\ d.leg < leg => d.tag <= tagConsumeOffset
                                   /\ d.leg = leg => d.tag <= tagConsumeCount

Numbers == Once /\ PipeInv /\ BaseInv /\ CountInv /\ OrderInv /\ SteadyInv

\* The tags of a leg are not above the count and what the pipe holds, and those of an
\* earlier leg are not above the offset.
TopInv ==
    \A d \in handed : /\ d.leg = leg => d.tag <= tagConsumeCount + Len(pipe)
                      /\ d.leg < leg => d.tag <= tagConsumeOffset

\* All up to the latest tag of an acknowledgement of several deliveries is settled, what a
\* relay has still to hand over included.
SettledInv ==
    /\ \A d \in handed : d.tag <= tagLatestMultiAck => Id(d) \in settled
    /\ Numbering => \A n \in 1 .. MaxDeliveries :
           n + tagConsumeOffset <= tagLatestMultiAck => <<leg, n>> \in settled

Ahead == TopInv /\ SettledInv

\* Where no Get was empty nothing was counted that was not delivered: the count lags
\* behind the pipe only if Get has overtaken it.
ExactCount ==
    /\ ~LegOver => sent[leg] = tagConsumeCount - tagConsumeOffset + Len(pipe)
    /\ \A i \in 1 .. Len(pipe) :
           pipe[i] < tagConsumeCount - tagConsumeOffset + i
               => \E d \in handed : d.leg = leg /\ d.number > pipe[i]

HasTag(t)    == \E d \in handed : d.tag = t
HasNumber(n) == \E d \in handed : d.leg = leg /\ d.number = n
HadTag(t)    == \E d \in handed : d.leg < leg /\ d.tag = t

Gapless ==
    /\ ~LegOver => \A n \in 1 .. sent[leg] :
           HasNumber(n) \/ \E i \in 1 .. Len(pipe) : pipe[i] = n
    /\ Numbering => \A t \in 1 .. tagConsumeOffset : HadTag(t)
    /\ LegOver => \A t \in 1 .. tagConsumeCount : HasTag(t)

Exact == ExactCount /\ Gapless

Calling(a, t)   == ackPc[a] # "idle" /\ t <= Tag(a)
Resolving(a, t) == ackPc[a] = "resolve" /\ t <= Tag(a)

\* Callers that acknowledge in order call one at a time ...
OneCall ==
    /\ \A a, b \in Ackers : ackPc[a] # "idle" /\ ackPc[b] # "idle" => a = b
    /\ \A a \in Ackers : ackPc[a] # "idle" => Multiple(a) /\ Tag(a) > tagLatestMultiAck
    /\ \A d \in asked : d.tag <= tagLatestMultiAck \/ \E a \in Ackers : Calling(a, d.tag)

\* ... and nothing above the latest tag is settled.
SettledOnly ==
    /\ \A d \in handed : d.leg < leg /\ Id(d) \in settled => d.tag <= tagLatestMultiAck
    /\ Numbering => \A n \in 1 .. MaxDeliveries : <<leg, n>> \in settled =>
           \/ n + tagConsumeOffset <= tagLatestMultiAck
           \/ \E a \in Ackers : Resolving(a, n + tagConsumeOffset)
    /\ LegOver => \A d \in handed : Id(d) \in settled =>
           \/ d.tag <= tagLatestMultiAck
           \/ \E a \in Ackers : Resolving(a, d.tag)

Ordered == OneCall /\ SettledOnly

Inv ==
    /\ TagInv /\ LatestInv /\ Numbers
    /\ \A a \in Ackers : CallInv(a)
    /\ Undisturbed => Ahead
    /\ Undisturbed /\ emptyGets = 0 => Exact
    /\ Undisturbed /\ orderly => Ordered
-----------------------------------------------------------------------------
(***************************************************************************)
(* Types.                                                                  *)
(***************************************************************************)

NumberTypes ==
    /\ tagConsumeCount \in Nat
    /\ tagConsumeOffset \in 0 .. tagConsumeCount
    /\ tagLatestMultiAck \in Nat
    /\ leg \in 1 .. MaxLegs
    /\ open \subseteq 1 .. leg
    /\ relayLeg \in 1 .. leg
    /\ cancelled \in BOOLEAN
    /\ ~cancelled => relayLeg = leg
    /\ opError \in BOOLEAN
    /\ reconnectPc \in {"ready", "waitLeg"}
    /\ emptyGets \in 0 .. MaxEmptyGets
    /\ overtaken \in BOOLEAN
    /\ orderly \in BOOLEAN

DeliveryTypes ==
    /\ sent \in [1 .. MaxLegs -> 0 .. MaxDeliveries]
    /\ pipe \in Seq(1 .. sent[relayLeg])
    /\ handed \subseteq Delivery

CallTypes ==
    /\ ackPc \in [Ackers -> {"idle", "called", "resolve"}]
    /\ call \in [Ackers -> [tag : Nat, multiple : BOOLEAN, covers : SUBSET handed]]
    /\ \A a \in Ackers :
        IF ackPc[a] = "idle" THEN call[a] = NoCall
        ELSE \E d \in call[a].covers : d.tag = call[a].tag
    /\ asked \subseteq handed
    /\ settled \subseteq (1 .. leg) \X (1 .. MaxDeliveries)
    /\ ackedByBroker \subseteq (1 .. leg) \X (1 .. MaxDeliveries)

LEMMA TypeParts == TypeOK <=> NumberTypes /\ DeliveryTypes /\ CallTypes
BY Zenon DEF TypeOK, NumberTypes, DeliveryTypes, CallTypes

\* The bound on all legs bounds each of them.
LEMMA DeliverBound ==
    ASSUME sent \in [1 .. MaxLegs -> 0 .. MaxDeliveries], MayDeliver, NEW l \in 1 .. MaxLegs
    PROVE  sent[l] < MaxDeliveries
<1> USE ConstantsAssumption
<1> SUFFICES ASSUME sent[l] = MaxDeliveries
             PROVE  FALSE
  OBVIOUS
<1>1. IsFiniteSet({l}) /\ Cardinality({l}) = 1
  BY FS_Singleton
<1>2. IsFiniteSet(1 .. MaxDeliveries) /\ Cardinality(1 .. MaxDeliveries) = MaxDeliveries
  BY FS_Interval
<1>3. IsFiniteSet(1 .. MaxLegs)
  BY FS_Interval
<1>4. Cardinality({l} \X (1 .. MaxDeliveries)) = MaxDeliveries
  <2>1. Cardinality({l} \X (1 .. MaxDeliveries))
            = Cardinality({l}) * Cardinality(1 .. MaxDeliveries)
    BY <1>1, <1>2, FS_Product, Zenon
  <2> QED BY <1>1, <1>2, <2>1
<1>5. IsFiniteSet((1 .. MaxLegs) \X (1 .. MaxDeliveries))
  BY <1>2, <1>3, FS_Product
<1>6. IsFiniteSet(Deliveries)
  BY <1>5, FS_Subset DEF Deliveries
<1>7. {l} \X (1 .. MaxDeliveries) \subseteq Deliveries
  BY DEF Deliveries
<1>8. Cardinality({l} \X (1 .. MaxDeliveries)) <= Cardinality(Deliveries)
  BY <1>6, <1>7, FS_Subset
<1>9. Cardinality(Deliveries) \in Nat
  BY <1>6, FS_CardinalityType
<1> QED BY <1>4, <1>8, <1>9 DEF MayDeliver

\* Sequences.
LEMMA SeqFacts ==
    ASSUME NEW S, NEW s \in Seq(S)
    PROVE  /\ Len(s) \in Nat /\ DOMAIN s = 1 .. Len(s)
           /\ s = <<>> <=> Len(s) = 0
           /\ \A i \in 1 .. Len(s) : s[i] \in S
           /\ s # <<>> => /\ Head(s) = s[1] /\ Len(Tail(s)) = Len(s) - 1
                          /\ \A i \in 1 .. Len(s) - 1 : Tail(s)[i] = s[i + 1]
                          /\ Tail(s) \in Seq(S)
OBVIOUS

LEMMA SeqWider ==
    ASSUME NEW S, NEW T, S \subseteq T, NEW s \in Seq(S)
    PROVE  s \in Seq(T)
OBVIOUS

\* The pipe is one of numbers.
LEMMA PipeFacts ==
    ASSUME TypeOK
    PROVE  /\ Len(pipe) \in Nat /\ DOMAIN pipe = 1 .. Len(pipe)
           /\ pipe = <<>> <=> Len(pipe) = 0
           /\ sent[relayLeg] \in 0 .. MaxDeliveries
           /\ \A i \in 1 .. Len(pipe) : pipe[i] \in 1 .. sent[relayLeg]
           /\ pipe # <<>> => /\ Head(pipe) = pipe[1] /\ Len(Tail(pipe)) = Len(pipe) - 1
                             /\ \A i \in 1 .. Len(pipe) - 1 : Tail(pipe)[i] = pipe[i + 1]
                             /\ Tail(pipe) \in Seq(1 .. sent[relayLeg])
<1>1. relayLeg \in 1 .. MaxLegs /\ pipe \in Seq(1 .. sent[relayLeg])
  BY ConstantsAssumption DEF TypeOK
<1>2. sent[relayLeg] \in 0 .. MaxDeliveries
  BY <1>1 DEF TypeOK
<1> QED BY <1>1, <1>2, SeqFacts, Zenon

\* What the callers have.
LEMMA HandedFacts ==
    ASSUME TypeOK, TagInv
    PROVE  /\ \A e \in handed :
              /\ e.leg \in 1 .. leg /\ e.leg \in 1 .. MaxLegs
              /\ e.number \in 1 .. MaxDeliveries /\ e.tag \in Nat /\ e.tag >= 1
              /\ e.number <= sent[e.leg] /\ e.tag <= e.number + tagConsumeOffset
           /\ \A l \in 1 .. MaxLegs : sent[l] \in 0 .. MaxDeliveries
           /\ leg \in 1 .. MaxLegs /\ relayLeg \in 1 .. MaxLegs
           /\ tagConsumeCount \in Nat /\ tagConsumeOffset \in 0 .. tagConsumeCount
           /\ MaxDeliveries \in Nat /\ MaxLegs \in Nat
<1> USE ConstantsAssumption
<1>1. leg \in 1 .. MaxLegs /\ relayLeg \in 1 .. leg
      /\ tagConsumeCount \in Nat /\ tagConsumeOffset \in 0 .. tagConsumeCount
  BY DEF TypeOK
<1>2. \A e \in handed : /\ e.leg \in 1 .. MaxLegs /\ e.tag \in Nat
                        /\ e.number \in 1 .. MaxDeliveries
  BY DEF TypeOK, Delivery
<1>3. \A l \in 1 .. MaxLegs : sent[l] \in 0 .. MaxDeliveries
  BY DEF TypeOK
<1>4. \A e \in handed : /\ e.leg <= leg /\ e.number <= sent[e.leg]
                        /\ e.tag >= 1 /\ e.tag <= e.number + tagConsumeOffset
  BY DEF TagInv
<1> QED BY <1>1, <1>2, <1>3, <1>4

LEMMA TypeInit == Init => TypeOK /\ Inv
<1> SUFFICES ASSUME Init PROVE TypeOK /\ Inv
  OBVIOUS
<1> USE ConstantsAssumption
<1>1. TypeOK
  <2>1. /\ tagConsumeCount \in Nat /\ tagConsumeOffset \in 0 .. tagConsumeCount
        /\ tagLatestMultiAck \in Nat /\ emptyGets \in 0 .. MaxEmptyGets
        /\ leg \in 1 .. MaxLegs /\ relayLeg \in 1 .. leg /\ open \subseteq 1 .. leg
    BY DEF Init
  <2>2. /\ cancelled \in BOOLEAN /\ (~cancelled => relayLeg = leg)
        /\ opError \in BOOLEAN /\ overtaken \in BOOLEAN /\ orderly \in BOOLEAN
        /\ reconnectPc \in {"ready", "waitLeg"}
        /\ handed \subseteq Delivery /\ asked \subseteq handed
        /\ settled \subseteq (1 .. leg) \X (1 .. MaxDeliveries)
        /\ ackedByBroker \subseteq (1 .. leg) \X (1 .. MaxDeliveries)
    BY DEF Init
  <2>3. call \in [Ackers -> [tag : Nat, multiple : BOOLEAN, covers : SUBSET handed]]
    BY DEF Init, NoCall
  <2>4. /\ ackPc \in [Ackers -> {"idle", "called", "resolve"}]
        /\ \A a \in Ackers : IF ackPc[a] = "idle" THEN call[a] = NoCall
                            ELSE \E d \in call[a].covers : d.tag = call[a].tag
    BY DEF Init
  <2>5. sent \in [1 .. MaxLegs -> 0 .. MaxDeliveries] /\ pipe \in Seq(1 .. sent[relayLeg])
    BY DEF Init
  <2> QED BY <2>1, <2>2, <2>3, <2>4, <2>5, Zenon DEF TypeOK
<1>2. TagInv /\ LatestInv /\ \A a \in Ackers : CallInv(a)
  BY DEF Init, TagInv, LatestInv, CallInv
<1>3. Len(pipe) = 0 /\ handed = {} /\ asked = {} /\ settled = {} /\ sent[leg] = 0
  BY DEF Init
<1>4. Numbers
  BY <1>3 DEF Init, Numbers, Once, PipeInv, BaseInv, CountInv, OrderInv, SteadyInv
<1>5. Ahead /\ Ordered
  BY <1>3 DEF Init, Ahead, TopInv, SettledInv, Ordered, OneCall, SettledOnly
<1>6. Exact
  BY <1>3 DEF Init, Exact, ExactCount, Gapless, LegOver
<1> QED BY <1>1, <1>2, <1>4, <1>5, <1>6 DEF Inv

\* What an action that hands a delivery over changes.
LEMMA HandsOver ==
    ASSUME TypeOK, ConsumeEvent \/ Get
    PROVE  \E d \in Delivery :
             /\ d.leg = IF pipe' = pipe THEN leg ELSE relayLeg
             /\ d.tag = d.number + tagConsumeOffset
             /\ d.late = (cancelled /\ pipe' # pipe)
             /\ handed' = handed \cup {d}
             /\ tagConsumeCount' = tagConsumeCount + 1
             /\ \/ /\ pipe # <<>> /\ d.number = pipe[1] /\ pipe' = Tail(pipe)
                   /\ pipe' # pipe
                   /\ sent' = sent
                \/ /\ Live /\ reconnectPc = "ready" /\ d.number = sent[leg] + 1
                   /\ pipe' = pipe
                   /\ sent' = [sent EXCEPT ![leg] = @ + 1]
                   /\ sent[leg] + 1 \in 1 .. MaxDeliveries
<1> USE ConstantsAssumption
<1>1. CASE ConsumeEvent
  <2> DEFINE d == [leg |-> relayLeg, number |-> pipe[1],
                   tag |-> pipe[1] + tagConsumeOffset, late |-> cancelled]
  <2>1. pipe # <<>> /\ handed' = handed \cup {d} /\ pipe' = Tail(pipe)
        /\ tagConsumeCount' = tagConsumeCount + 1 /\ sent' = sent
    BY <1>1, PipeFacts DEF ConsumeEvent, HandOver
  <2>2. d \in Delivery
    <3>1. pipe[1] \in 1 .. MaxDeliveries /\ relayLeg \in 1 .. MaxLegs
          /\ pipe[1] + tagConsumeOffset \in Nat
      <4>1. 1 \in 1 .. Len(pipe) /\ sent[relayLeg] \in 0 .. MaxDeliveries
        <5>1. Len(pipe) \in Nat /\ Len(pipe) # 0 /\ sent[relayLeg] \in 0 .. MaxDeliveries
          BY <2>1, PipeFacts, Zenon
        <5> QED BY <5>1
      <4>2. pipe[1] \in 1 .. sent[relayLeg]
        BY <4>1, PipeFacts, Zenon
      <4>3. tagConsumeOffset \in Nat /\ relayLeg \in 1 .. MaxLegs
        BY DEF TypeOK
      <4> QED BY <4>1, <4>2, <4>3
    <3>2. cancelled \in BOOLEAN
      BY DEF TypeOK
    <3> QED BY <3>1, <3>2 DEF Delivery
  <2>3. Len(pipe') = Len(pipe) - 1 /\ Len(pipe) \in Nat
    BY <2>1, PipeFacts
  <2> HIDE DEF d
  <2>4. /\ d.leg = relayLeg /\ d.number = pipe[1] /\ d.tag = d.number + tagConsumeOffset
        /\ d.late = cancelled
    BY DEF d
  <2>5. pipe' # pipe /\ cancelled \in BOOLEAN
    BY <2>3 DEF TypeOK
  <2> QED BY <2>1, <2>2, <2>4, <2>5
<1>2. CASE Get
  <2> DEFINE n == sent[leg] + 1
             d == [leg |-> leg, number |-> n, tag |-> n + tagConsumeOffset, late |-> FALSE]
  <2>1. Live /\ reconnectPc = "ready" /\ handed' = handed \cup {d} /\ pipe' = pipe
        /\ tagConsumeCount' = tagConsumeCount + 1
        /\ sent' = [sent EXCEPT ![leg] = @ + 1]
    BY <1>2 DEF Get, HandOver, LockFree, CountAfterGet
  <2>2. n \in 1 .. MaxDeliveries /\ leg \in 1 .. MaxLegs
    BY <1>2, DeliverBound DEF Get, TypeOK
  <2>3. d \in Delivery
    BY <2>2 DEF Delivery, TypeOK
  <2>4. d.leg = leg /\ d.number = n /\ d.tag = d.number + tagConsumeOffset /\ d.late = FALSE
    OBVIOUS
  <2> HIDE DEF d
  <2> QED BY <2>1, <2>2, <2>3, <2>4
<1> QED BY <1>1, <1>2

Acks(a) == AckSends(a) \/ AckIsLate(a) \/ AckSucceeds(a) \/ AckFails(a)

Fetches == FetchFails \/ FetchSucceeds

Others == GetFindsNone \/ StartReconnect \/ RelayCancelled \/ ChannelDies \/ PipeDropped

LEMMA NextSteps ==
    ASSUME Next
    PROVE  \/ ConsumeEvent \/ Get
           \/ \E a \in Ackers : AckCall(a) \/ Acks(a)
           \/ Fetches \/ Others \/ BrokerDelivers
BY DEF Next, Acks, Fetches, Others

LEMMA NumberTypesNext ==
    ASSUME TypeOK, TagInv, Next
    PROVE  NumberTypes'
<1> USE ConstantsAssumption
<1>0. NumberTypes
  BY TypeParts
<1> USE DEF tagVars, channelVars, relayVars, redialVars, brokerVars, callVars, noteVars
<1>1. CASE ConsumeEvent
  BY <1>0, <1>1 DEF ConsumeEvent, NumberTypes
<1>2. CASE Get
  BY <1>0, <1>2 DEF Get, CountAfterGet, NumberTypes
<1>3. ASSUME NEW a \in Ackers, AckCall(a)
      PROVE  NumberTypes'
  BY <1>0, <1>3 DEF AckCall, NumberTypes
<1>4. ASSUME NEW a \in Ackers, Acks(a)
      PROVE  NumberTypes'
  <2>1. Tag(a) \in Nat
    BY DEF TypeOK, Tag
  <2>2. CASE AckSends(a) \/ AckIsLate(a)
    BY <1>0, <2>2 DEF AckSends, AckIsLate, NumberTypes
  <2>3. CASE AckSucceeds(a) \/ AckFails(a)
    BY <1>0, <2>1, <2>3 DEF AckSucceeds, AckFails, Returns, NumberTypes
  <2> QED BY <1>4, <2>2, <2>3 DEF Acks
<1>5. CASE FetchFails
  BY <1>0, <1>5 DEF FetchFails, OffsetAtReconnect, NumberTypes
<1>6. CASE FetchSucceeds
  <2>1. leg < MaxLegs
    BY <1>6 DEF FetchSucceeds, LegWaited, TagInv
  <2>2. /\ tagConsumeOffset' = tagConsumeCount /\ leg' = leg + 1
        /\ open' = (open \cap {relayLeg}) \cup {leg + 1} /\ opError' = FALSE
        /\ relayLeg' = IF cancelled THEN relayLeg ELSE leg + 1
        /\ reconnectPc' = "ready"
    BY <1>6 DEF FetchSucceeds, OffsetAtReconnect
  <2>3. UNCHANGED <<tagConsumeCount, tagLatestMultiAck, cancelled, emptyGets, overtaken,
                    orderly>>
    BY <1>6 DEF FetchSucceeds
  <2>4. leg' \in 1 .. MaxLegs /\ open' \subseteq 1 .. leg' /\ relayLeg' \in 1 .. leg'
        /\ tagConsumeOffset' \in 0 .. tagConsumeCount'
    BY <1>0, <2>1, <2>2, <2>3 DEF NumberTypes
  <2>5. ~cancelled' => relayLeg' = leg'
    BY <2>2, <2>3
  <2> QED BY <1>0, <2>2, <2>3, <2>4, <2>5 DEF NumberTypes
<1>7. CASE Others
  <2>1. CASE GetFindsNone
    <3>1. /\ emptyGets < MaxEmptyGets /\ emptyGets' = emptyGets + 1
          /\ tagConsumeCount' = tagConsumeCount + 1
      BY <2>1 DEF GetFindsNone, CountAfterGet
    <3>2. UNCHANGED <<tagConsumeOffset, tagLatestMultiAck, leg, open, relayLeg, cancelled,
                      opError, reconnectPc, overtaken, orderly>>
      BY <2>1 DEF GetFindsNone
    <3>3. emptyGets' \in 0 .. MaxEmptyGets
      BY <1>0, <3>1 DEF NumberTypes
    <3>4. tagConsumeCount' \in Nat /\ tagConsumeOffset' \in 0 .. tagConsumeCount'
      BY <1>0, <3>1, <3>2 DEF NumberTypes
    <3> QED BY <1>0, <3>1, <3>2, <3>3, <3>4 DEF NumberTypes
  <2>2. CASE StartReconnect
    BY <1>0, <2>2 DEF StartReconnect, NumberTypes
  <2>3. CASE RelayCancelled
    BY <1>0, <2>3 DEF RelayCancelled, NumberTypes
  <2>4. CASE ChannelDies
    BY <1>0, <2>4 DEF ChannelDies, NumberTypes
  <2>5. CASE PipeDropped
    BY <1>0, <2>5 DEF PipeDropped, NumberTypes
  <2> QED BY <1>7, <2>1, <2>2, <2>3, <2>4, <2>5 DEF Others
<1>8. CASE BrokerDelivers
  BY <1>0, <1>8 DEF BrokerDelivers, NumberTypes
<1> QED
  BY NextSteps, <1>1, <1>2, <1>3, <1>4, <1>5, <1>6, <1>7, <1>8 DEF Fetches

LEMMA DeliveryTypesNext ==
    ASSUME TypeOK, TagInv, Next
    PROVE  DeliveryTypes' /\ TagInv'
<1> USE ConstantsAssumption
<1>0. NumberTypes /\ DeliveryTypes /\ NumberTypes'
  BY TypeParts, NumberTypesNext
<1>1. CASE ConsumeEvent \/ Get
  <2>1. UNCHANGED <<tagConsumeOffset, leg, relayLeg, cancelled, reconnectPc>>
    BY <1>1 DEF ConsumeEvent, Get, tagVars, channelVars, relayVars, redialVars
  <2>2. PICK d \in Delivery :
             /\ d.leg = IF pipe' = pipe THEN leg ELSE relayLeg
             /\ d.tag = d.number + tagConsumeOffset
             /\ handed' = handed \cup {d}
             /\ \/ /\ pipe # <<>> /\ d.number = pipe[1] /\ pipe' = Tail(pipe)
                   /\ pipe' # pipe /\ sent' = sent
                \/ /\ d.number = sent[leg] + 1
                   /\ pipe' = pipe
                   /\ sent' = [sent EXCEPT ![leg] = @ + 1]
                   /\ sent[leg] + 1 \in 1 .. MaxDeliveries
    BY <1>1, HandsOver
  <2>3. d.tag >= 1 /\ d.number >= 1 /\ d.leg \in 1 .. leg
    <3>1. d.tag = d.number + tagConsumeOffset /\ d.number \in 1 .. MaxDeliveries
      BY <2>2 DEF Delivery
    <3>2. tagConsumeOffset \in Nat /\ leg \in 1 .. MaxLegs /\ relayLeg \in 1 .. leg
      BY <1>0 DEF NumberTypes
    <3>3. d.leg \in {leg, relayLeg}
      BY <2>2
    <3> QED BY <3>1, <3>2, <3>3
  <2>4. CASE sent' = sent /\ pipe # <<>> /\ d.number = pipe[1] /\ pipe' = Tail(pipe)
             /\ pipe' # pipe
    <3>1. d.leg = relayLeg /\ d.number <= sent[relayLeg]
      <4>1. 1 \in 1 .. Len(pipe) /\ sent[relayLeg] \in Nat
        <5>1. Len(pipe) \in Nat /\ Len(pipe) # 0 /\ sent[relayLeg] \in 0 .. MaxDeliveries
          BY <2>4, PipeFacts, Zenon
        <5> QED BY <5>1
      <4>2. pipe[1] \in 1 .. sent[relayLeg]
        BY <4>1, PipeFacts, Zenon
      <4>3. d.leg = relayLeg
        BY <2>2, <2>4, Zenon
      <4> QED BY <2>4, <4>1, <4>2, <4>3
    <3>2. pipe' \in Seq(1 .. sent'[relayLeg'])
      BY <2>1, <2>4, PipeFacts
    <3>3. DeliveryTypes'
      BY <1>0, <2>2, <2>4, <3>2 DEF DeliveryTypes
    <3>4. TagInv'
      <4>1. \A e \in handed' : /\ e.leg <= leg /\ e.number <= sent[e.leg]
                               /\ e.tag >= 1 /\ e.tag <= e.number + tagConsumeOffset
        <5>1. d.leg <= leg /\ d.number <= sent[d.leg] /\ d.tag <= d.number + tagConsumeOffset
          BY <2>2, <2>3, <3>1, HandedFacts DEF Delivery
        <5>2. \A e \in handed : /\ e.leg <= leg /\ e.number <= sent[e.leg]
                                 /\ e.tag >= 1 /\ e.tag <= e.number + tagConsumeOffset
          BY HandedFacts
        <5> QED BY <2>2, <2>3, <5>1, <5>2
      <4> QED BY <2>1, <2>4, <4>1 DEF TagInv
    <3> QED BY <3>3, <3>4
  <2>5. CASE d.number = sent[leg] + 1 /\ sent' = [sent EXCEPT ![leg] = @ + 1]
             /\ pipe' = pipe /\ sent[leg] + 1 \in 1 .. MaxDeliveries
    <3>1. leg \in 1 .. MaxLegs /\ d.leg = leg
          /\ \A l \in 1 .. MaxLegs : sent'[l] = IF l = leg THEN sent[l] + 1 ELSE sent[l]
      BY <1>0, <2>2, <2>5 DEF NumberTypes, DeliveryTypes
    <3>2. sent' \in [1 .. MaxLegs -> 0 .. MaxDeliveries]
      BY <1>0, <2>5, <3>1 DEF DeliveryTypes
    <3>3. 1 .. sent[relayLeg] \subseteq 1 .. sent'[relayLeg]
      <4>1. sent[relayLeg] \in Nat /\ sent'[relayLeg] \in Nat
            /\ sent[relayLeg] <= sent'[relayLeg]
        BY <3>1, HandedFacts
      <4> QED BY <4>1
    <3>4. pipe' \in Seq(1 .. sent'[relayLeg'])
      <4>1. pipe \in Seq(1 .. sent[relayLeg])
        BY <1>0 DEF DeliveryTypes
      <4>2. pipe \in Seq(1 .. sent'[relayLeg])
        BY <3>3, <4>1, SeqWider, Zenon
      <4> QED BY <2>1, <2>5, <4>2
    <3>5. handed' \subseteq Delivery
      BY <1>0, <2>2 DEF DeliveryTypes
    <3>6. \A e \in handed : e.leg \in 1 .. MaxLegs /\ e.number <= sent'[e.leg]
      BY <3>1, HandedFacts
    <3>7. d.number <= sent'[d.leg]
      BY <2>5, <3>1
    <3>8. TagInv'
      <4>1. \A e \in handed' : /\ e.leg <= leg' /\ e.number <= sent'[e.leg]
                               /\ e.tag >= 1 /\ e.tag <= e.number + tagConsumeOffset'
        BY <2>1, <2>2, <2>3, <3>1, <3>6, <3>7 DEF TagInv, Delivery
      <4>2. \A l \in 1 .. MaxLegs : l > leg' => sent'[l] = 0
        BY <1>0, <2>1, <3>1 DEF TagInv, NumberTypes
      <4> QED BY <2>1, <4>1, <4>2 DEF TagInv
    <3> QED BY <3>2, <3>4, <3>5, <3>8 DEF DeliveryTypes
  <2> QED BY <2>2, <2>4, <2>5
<1>2. CASE BrokerDelivers
  <2>1. /\ relayLeg \in open /\ MayDeliver
        /\ sent' = [sent EXCEPT ![relayLeg] = @ + 1]
        /\ pipe' = Append(pipe, sent[relayLeg] + 1)
        /\ UNCHANGED <<tagConsumeOffset, leg, relayLeg, cancelled, reconnectPc, handed>>
    BY <1>2 DEF BrokerDelivers, tagVars, channelVars, relayVars, redialVars
  <2>2. relayLeg \in 1 .. MaxLegs /\ sent[relayLeg] + 1 \in 1 .. MaxDeliveries
    <3>1. relayLeg \in 1 .. MaxLegs
      BY <1>0 DEF NumberTypes
    <3> QED BY <1>0, <2>1, <3>1, DeliverBound DEF DeliveryTypes
  <2>3. \A l \in 1 .. MaxLegs : sent'[l] = IF l = relayLeg THEN sent[l] + 1 ELSE sent[l]
    BY <1>0, <2>1 DEF DeliveryTypes
  <2>4. sent' \in [1 .. MaxLegs -> 0 .. MaxDeliveries]
    BY <1>0, <2>1, <2>2, <2>3 DEF DeliveryTypes
  <2>5. pipe' \in Seq(1 .. sent'[relayLeg'])
    <3>1. 1 .. sent[relayLeg] \subseteq 1 .. sent'[relayLeg]
          /\ sent[relayLeg] + 1 \in 1 .. sent'[relayLeg]
      <4>1. sent'[relayLeg] = sent[relayLeg] + 1 /\ sent[relayLeg] \in 0 .. MaxDeliveries
        BY <2>2, <2>3, HandedFacts
      <4> QED BY <4>1
    <3>2. pipe \in Seq(1 .. sent'[relayLeg])
      <4>1. pipe \in Seq(1 .. sent[relayLeg])
        BY <1>0 DEF DeliveryTypes
      <4> QED BY <4>1, <3>1, SeqWider
    <3> QED BY <2>1, <3>1, <3>2
  <2>6. \A e \in handed : e.leg \in 1 .. MaxLegs /\ e.number <= sent'[e.leg]
    BY <2>3, HandedFacts
  <2>7. \A l \in 1 .. MaxLegs : l > leg => sent'[l] = 0
    BY <1>0, <2>2, <2>3 DEF TagInv, NumberTypes
  <2> QED BY <1>0, <2>1, <2>4, <2>5, <2>6, <2>7 DEF TagInv, DeliveryTypes
<1>3. CASE Fetches
  <2>1. /\ reconnectPc = "waitLeg"
        /\ tagConsumeOffset' = tagConsumeCount
        /\ UNCHANGED <<sent, handed, pipe, cancelled>>
        /\ \/ UNCHANGED <<leg, relayLeg, reconnectPc>>
           \/ /\ leg' = leg + 1 /\ reconnectPc' = "ready"
              /\ relayLeg' = IF cancelled THEN relayLeg ELSE leg + 1
              /\ cancelled \/ pipe = <<>>
    BY <1>3 DEF Fetches, FetchFails, FetchSucceeds, LegWaited, LegOver, OffsetAtReconnect,
                channelVars, relayVars, redialVars, brokerVars
  <2>2. pipe' \in Seq(1 .. sent'[relayLeg'])
    <3>1. CASE relayLeg' = relayLeg
      BY <1>0, <2>1, <3>1 DEF DeliveryTypes
    <3>2. CASE pipe = <<>>
      BY <2>1, <3>2
    <3> QED BY <2>1, <3>1, <3>2
  <2>3. \A e \in handed : /\ e.leg <= leg' /\ e.tag <= e.number + tagConsumeOffset'
                          /\ e.tag >= 1 /\ e.number <= sent[e.leg]
    BY <2>1, HandedFacts
  <2>4. \A l \in 1 .. MaxLegs : l > leg' => sent[l] = 0
    BY <1>0, <2>1 DEF TagInv, NumberTypes
  <2>5. reconnectPc' = "waitLeg" => leg' < MaxLegs
    BY <2>1 DEF TagInv
  <2>6. cancelled' => relayLeg' # leg' \/ reconnectPc' = "waitLeg"
    BY <1>0, <2>1 DEF NumberTypes
  <2>7. TagInv'
    BY <2>1, <2>3, <2>4, <2>5, <2>6 DEF TagInv
  <2> QED BY <1>0, <2>1, <2>2, <2>7 DEF DeliveryTypes
<1>4. CASE PipeDropped
  BY <1>0, <1>4 DEF PipeDropped, TagInv, DeliveryTypes, tagVars, channelVars, relayVars,
                    redialVars
<1>5. CASE StartReconnect
  BY <1>0, <1>5 DEF StartReconnect, TagInv, DeliveryTypes, tagVars, channelVars, relayVars,
                    brokerVars
<1>6. CASE \/ GetFindsNone \/ RelayCancelled \/ ChannelDies
           \/ \E a \in Ackers : AckCall(a) \/ Acks(a)
  <2>1. /\ UNCHANGED <<tagConsumeOffset, leg, relayLeg, reconnectPc, sent, pipe, handed>>
        /\ cancelled' = cancelled \/ reconnectPc = "waitLeg"
    BY <1>6 DEF GetFindsNone, RelayCancelled, ChannelDies, AckCall, Acks, AckSends,
                AckIsLate, AckSucceeds, AckFails, tagVars, channelVars, relayVars,
                redialVars, brokerVars
  <2> QED BY <1>0, <2>1 DEF TagInv, DeliveryTypes
<1> QED BY NextSteps, <1>1, <1>2, <1>3, <1>4, <1>5, <1>6 DEF Others
-----------------------------------------------------------------------------
(***************************************************************************)
(* Acknowledgements.                                                       *)
(***************************************************************************)

LEMMA CallFacts ==
    ASSUME TypeOK
    PROVE  /\ \A a \in Ackers :
                /\ ackPc[a] \in {"idle", "called", "resolve"}
                /\ call[a].tag \in Nat /\ call[a].multiple \in BOOLEAN
                /\ call[a].covers \subseteq handed
                /\ ackPc[a] # "idle" => \E d \in call[a].covers : d.tag = call[a].tag
           /\ asked \subseteq handed
           /\ settled \subseteq (1 .. leg) \X (1 .. MaxDeliveries)
           /\ ackPc \in [Ackers -> {"idle", "called", "resolve"}]
           /\ DOMAIN call = Ackers
<1>1. /\ \A a \in Ackers :
            /\ ackPc[a] \in {"idle", "called", "resolve"}
            /\ call[a].tag \in Nat /\ call[a].multiple \in BOOLEAN
            /\ call[a].covers \subseteq handed
      /\ DOMAIN call = Ackers
  BY DEF TypeOK
<1>2. \A a \in Ackers : ackPc[a] # "idle" => \E d \in call[a].covers : d.tag = call[a].tag
  BY DEF TypeOK
<1> QED BY <1>1, <1>2 DEF TypeOK

LEMMA NextOutsideCalls ==
    ASSUME TypeOK, TagInv, Next
    PROVE  \/ \E a \in Ackers : AckCall(a) \/ Acks(a)
           \/ /\ UNCHANGED <<callVars, ackedByBroker, tagLatestMultiAck>>
              /\ handed \subseteq handed'
              /\ leg <= leg' /\ leg' \in Int
              /\ \/ UNCHANGED <<tagConsumeOffset, leg, reconnectPc>>
                 \/ \A a \in Ackers : ackPc[a] # "resolve"
                 \/ reconnectPc = "waitLeg"
<1> USE DEF tagVars, channelVars, redialVars, brokerVars
<1>0. leg \in Nat
  BY ConstantsAssumption DEF TypeOK
<1>1. CASE ConsumeEvent \/ Get
  BY <1>0, <1>1 DEF ConsumeEvent, Get, HandOver
<1>2. CASE Fetches
  BY <1>0, <1>2 DEF Fetches, FetchFails, FetchSucceeds, LegWaited
<1>3. CASE Others
  BY <1>0, <1>3 DEF Others, GetFindsNone, StartReconnect, RelayCancelled, ChannelDies,
                    PipeDropped, NoReaders
<1>4. CASE BrokerDelivers
  BY <1>0, <1>4 DEF BrokerDelivers
<1> QED BY NextSteps, <1>1, <1>2, <1>3, <1>4

\* Calls of Ack: the caller names a delivery.
LEMMA AckCallDoes ==
    ASSUME TypeOK, NEW a \in Ackers, AckCall(a)
    PROVE  \E d \in handed, multiple \in BOOLEAN :
             /\ call' = [call EXCEPT ![a] = [tag |-> d.tag, multiple |-> multiple,
                                             covers |-> Covered(d, multiple)]]
             /\ d.tag \in Nat /\ d \in Covered(d, multiple)
             /\ Covered(d, multiple) \subseteq handed
             /\ \A e \in Covered(d, multiple) : e.tag = d.tag \/ (multiple /\ e.tag < d.tag)
             /\ multiple => Covered(d, multiple) = {e \in handed : e.tag <= d.tag}
             /\ asked' = asked \cup Covered(d, multiple)
             /\ ackPc[a] = "idle" /\ ackPc' = [ackPc EXCEPT ![a] = "called"]
             /\ orderly' => /\ orderly /\ multiple
                            /\ \A e \in asked : e.tag < d.tag
                            /\ \A b \in Ackers : ackPc[b] = "idle"
             /\ UNCHANGED <<tagVars, tagLatestMultiAck, channelVars, relayVars, redialVars,
                            brokerVars, handed, settled, overtaken>>
<1>1. PICK d \in handed \ asked, multiple \in Multiples :
        /\ call' = [call EXCEPT ![a] = [tag |-> d.tag, multiple |-> multiple,
                                        covers |-> Covered(d, multiple)]]
        /\ asked' = asked \cup Covered(d, multiple)
        /\ orderly' = (/\ orderly
                       /\ multiple
                       /\ \A e \in asked : e.tag < d.tag
                       /\ \A b \in Ackers : ackPc[b] = "idle")
  BY DEF AckCall
<1>2. multiple \in BOOLEAN /\ d \in handed
  BY ConstantsAssumption
<1>3. \A e \in handed : e.tag \in Nat
  BY DEF TypeOK, Delivery
<1>4. /\ d \in Covered(d, multiple) /\ Covered(d, multiple) \subseteq handed
      /\ \A e \in Covered(d, multiple) : e.tag = d.tag \/ (multiple /\ e.tag < d.tag)
      /\ multiple => Covered(d, multiple) = {e \in handed : e.tag <= d.tag}
  BY <1>2, <1>3 DEF Covered
<1>5. /\ ackPc[a] = "idle" /\ ackPc' = [ackPc EXCEPT ![a] = "called"]
      /\ UNCHANGED <<tagVars, tagLatestMultiAck, channelVars, relayVars, redialVars,
                     brokerVars, handed, settled, overtaken>>
  BY DEF AckCall
<1> QED BY <1>1, <1>2, <1>3, <1>4, <1>5, Zenon

\* The deliveries an acknowledgement settles when it returns.
Reported(a) == Ids({e \in handed : e.leg < leg /\ e.tag \in ReportedBy(a)})

\* What the steps of a call that has been made do: it goes to the broker, it is late, it
\* returns.
NumbersUpTo(a, S) ==
    \A n \in 1 .. MaxDeliveries :
        n \in S <=> \/ n + tagConsumeOffset = Tag(a)
                    \/ Multiple(a) /\ n + tagConsumeOffset < Tag(a)

Sending(a) ==
    /\ Live /\ reconnectPc = "ready" /\ OnThisLeg(a)
    /\ ackPc[a] = "called" /\ ackPc' = [ackPc EXCEPT ![a] = "resolve"]
    /\ \E S \in SUBSET (1 .. MaxDeliveries) :
         NumbersUpTo(a, S) /\ settled' = settled \cup {<<leg, n>> : n \in S}
    /\ UNCHANGED <<call, tagLatestMultiAck>>

Late(a) ==
    /\ reconnectPc = "ready" /\ ~OnThisLeg(a)
    /\ ackPc[a] = "called" /\ ackPc' = [ackPc EXCEPT ![a] = "resolve"]
    /\ UNCHANGED <<settled, call, tagLatestMultiAck>>

Returning(a) ==
    /\ ackPc[a] = "resolve" /\ ackPc' = [ackPc EXCEPT ![a] = "idle"]
    /\ call' = [call EXCEPT ![a] = NoCall]
    /\ tagLatestMultiAck' = IF Multiple(a) THEN Tag(a) ELSE tagLatestMultiAck
    /\ settled' = IF ContainsOrphans(Tag(a), Multiple(a)) THEN settled \cup Reported(a)
                  ELSE settled

LEMMA AcksDo ==
    ASSUME TypeOK, TagInv, NEW a \in Ackers, Acks(a)
    PROVE  /\ UNCHANGED <<tagVars, channelVars, relayVars, reconnectPc, sent, pipe, handed,
                          asked, overtaken, orderly>>
           /\ ackedByBroker' \subseteq (1 .. leg) \X (1 .. MaxDeliveries)
           /\ Sending(a) \/ Late(a) \/ Returning(a)
<1> USE ConstantsAssumption
<1> USE DEF redialVars, brokerVars, noteVars
<1>0. /\ Tag(a) \in Nat /\ Multiple(a) \in BOOLEAN
      /\ tagConsumeOffset \in Nat /\ leg \in 1 .. MaxLegs /\ sent[leg] \in 0 .. MaxDeliveries
      /\ ackedByBroker \subseteq (1 .. leg) \X (1 .. MaxDeliveries)
  <2>1. Tag(a) \in Nat /\ Multiple(a) \in BOOLEAN
    BY CallFacts DEF Tag, Multiple
  <2>2. /\ tagConsumeCount \in Nat /\ tagConsumeOffset \in 0 .. tagConsumeCount
        /\ leg \in 1 .. MaxLegs
        /\ ackedByBroker \subseteq (1 .. leg) \X (1 .. MaxDeliveries)
    BY DEF TypeOK
  <2>3. sent[leg] \in 0 .. MaxDeliveries
    BY <2>2, HandedFacts
  <2> QED BY <2>1, <2>2, <2>3
<1>1. CASE AckSends(a)
  <2> DEFINE number == Tag(a) - tagConsumeOffset
             S == IF Multiple(a) THEN 1 .. number ELSE {number}
  <2>1. /\ Live /\ reconnectPc = "ready" /\ OnThisLeg(a)
        /\ ackPc[a] = "called" /\ ackPc' = [ackPc EXCEPT ![a] = "resolve"]
        /\ UNCHANGED <<call, tagLatestMultiAck>>
        /\ settled' = settled \cup {<<leg, n>> : n \in S}
        /\ ackedByBroker' = ackedByBroker \cup TakenByBroker(Tag(a), Multiple(a))
        /\ UNCHANGED <<tagVars, channelVars, relayVars, reconnectPc, sent, pipe, handed,
                       asked, overtaken, orderly>>
    BY <1>1 DEF AckSends, LockFree
  <2>2. PICK d \in handed : d.tag = Tag(a)
    BY <2>1, CallFacts DEF Tag
  <2>3. number \in 1 .. MaxDeliveries
    <3>1. /\ d.tag <= d.number + tagConsumeOffset /\ d.number \in 1 .. MaxDeliveries
      BY HandedFacts
    <3> QED BY <1>0, <2>1, <2>2, <3>1 DEF OnThisLeg
  <2>4. S \in SUBSET (1 .. MaxDeliveries)
    BY <2>3
  <2>5. NumbersUpTo(a, S)
    BY <1>0 DEF NumbersUpTo
  <2>6. TakenByBroker(Tag(a), Multiple(a)) \subseteq (1 .. leg) \X (1 .. MaxDeliveries)
    <3>1. leg \in 1 .. leg /\ 1 .. sent[leg] \subseteq 1 .. MaxDeliveries
      BY <1>0
    <3> QED BY <3>1 DEF TakenByBroker
  <2> HIDE DEF S
  <2> QED BY <1>0, <2>1, <2>4, <2>5, <2>6 DEF Sending
<1>2. CASE AckIsLate(a)
  BY <1>0, <1>2 DEF AckIsLate, LockFree, Late
<1>3. CASE AckSucceeds(a)
  BY <1>0, <1>3 DEF AckSucceeds, Returns, Returning
<1>4. CASE AckFails(a)
  BY <1>0, <1>4 DEF AckFails, Returns, Reported, Returning
<1> QED BY <1>1, <1>2, <1>3, <1>4 DEF Acks

LEMMA CallTypesNext ==
    ASSUME TypeOK, TagInv, Next
    PROVE  CallTypes'
<1> USE ConstantsAssumption
<1>0. /\ CallTypes
      /\ leg \in 1 .. MaxLegs
  BY TypeParts, HandedFacts
<1>1. ASSUME NEW a \in Ackers, AckCall(a)
      PROVE  CallTypes'
  <2>1. PICK d \in handed, multiple \in BOOLEAN :
          /\ call' = [call EXCEPT ![a] = [tag |-> d.tag, multiple |-> multiple,
                                          covers |-> Covered(d, multiple)]]
          /\ d.tag \in Nat /\ d \in Covered(d, multiple)
          /\ Covered(d, multiple) \subseteq handed
          /\ asked' = asked \cup Covered(d, multiple)
          /\ ackPc' = [ackPc EXCEPT ![a] = "called"]
          /\ UNCHANGED <<channelVars, brokerVars, handed, settled>>
    BY <1>1, AckCallDoes
  <2> DEFINE C == Covered(d, multiple)
  <2>2. C \subseteq handed /\ d \in C
    BY <2>1
  <2> HIDE DEF C
  <2>3. call' = [call EXCEPT ![a] = [tag |-> d.tag, multiple |-> multiple, covers |-> C]]
    BY <2>1 DEF C
  <2>4. call' \in [Ackers -> [tag : Nat, multiple : BOOLEAN, covers : SUBSET handed']]
    BY <1>0, <2>1, <2>2, <2>3 DEF CallTypes
  <2>5. ackPc' \in [Ackers -> {"idle", "called", "resolve"}]
    BY <1>0, <2>1 DEF CallTypes
  <2>6. \A b \in Ackers : IF ackPc'[b] = "idle" THEN call'[b] = NoCall
                          ELSE \E e \in call'[b].covers : e.tag = call'[b].tag
    <3>1. ackPc'[a] = "called" /\ call'[a].tag = d.tag /\ call'[a].covers = C
      BY <1>0, <2>1, <2>3 DEF CallTypes
    <3>2. \A b \in Ackers : b # a => ackPc'[b] = ackPc[b] /\ call'[b] = call[b]
      BY <1>0, <2>1, <2>3 DEF CallTypes
    <3> QED BY <1>0, <2>2, <3>1, <3>2 DEF CallTypes
  <2>7. asked' \subseteq handed'
    BY <1>0, <2>1 DEF CallTypes
  <2> QED BY <1>0, <2>1, <2>4, <2>5, <2>6, <2>7 DEF CallTypes, channelVars, brokerVars
<1>2. ASSUME NEW a \in Ackers, Acks(a)
      PROVE  CallTypes'
  <2>1. /\ leg' = leg /\ handed' = handed /\ asked' = asked
        /\ ackedByBroker' \subseteq (1 .. leg) \X (1 .. MaxDeliveries)
        /\ Sending(a) \/ Late(a) \/ Returning(a)
    BY <1>2, AcksDo DEF channelVars
  <2>2. settled' \subseteq (1 .. leg) \X (1 .. MaxDeliveries)
    <3>1. Reported(a) \subseteq (1 .. leg) \X (1 .. MaxDeliveries)
      <4>1. \A e \in handed : <<e.leg, e.number>> \in (1 .. leg) \X (1 .. MaxDeliveries)
        BY HandedFacts
      <4> QED BY <4>1 DEF Reported, Ids, Id
    <3>2. settled \subseteq (1 .. leg) \X (1 .. MaxDeliveries) /\ leg \in 1 .. leg
      BY <1>0 DEF CallTypes
    <3>3. CASE Sending(a)
      BY <3>2, <3>3 DEF Sending
    <3> QED BY <2>1, <3>1, <3>2, <3>3 DEF Late, Returning
  <2>3. CASE Sending(a) \/ Late(a)
    <3>1. call' = call /\ ackPc[a] = "called" /\ ackPc' = [ackPc EXCEPT ![a] = "resolve"]
      BY <2>3 DEF Sending, Late
    <3> QED BY <1>0, <2>1, <2>2, <3>1 DEF CallTypes
  <2>4. CASE Returning(a)
    <3>1. /\ ackPc' = [ackPc EXCEPT ![a] = "idle"] /\ call' = [call EXCEPT ![a] = NoCall]
      BY <2>4 DEF Returning
    <3>2. NoCall \in [tag : Nat, multiple : BOOLEAN, covers : SUBSET handed]
      BY DEF NoCall
    <3>3. /\ call' \in [Ackers -> [tag : Nat, multiple : BOOLEAN, covers : SUBSET handed]]
          /\ ackPc' \in [Ackers -> {"idle", "called", "resolve"}]
          /\ ackPc'[a] = "idle" /\ call'[a] = NoCall
          /\ \A b \in Ackers : b # a => ackPc'[b] = ackPc[b] /\ call'[b] = call[b]
      BY <1>0, <3>1, <3>2 DEF CallTypes
    <3> QED BY <1>0, <2>1, <2>2, <3>3 DEF CallTypes
  <2> QED BY <2>1, <2>3, <2>4
<1>3. CASE /\ UNCHANGED <<callVars, ackedByBroker>>
           /\ handed \subseteq handed'
           /\ leg <= leg' /\ leg' \in Int
  <2>1. ackPc' = ackPc /\ call' = call /\ asked' = asked /\ settled' = settled
        /\ ackedByBroker' = ackedByBroker
    BY <1>3 DEF callVars
  <2>2. call \in [Ackers -> [tag : Nat, multiple : BOOLEAN, covers : SUBSET handed']]
    BY <1>0, <1>3 DEF CallTypes
  <2>3. 1 .. leg \subseteq 1 .. leg'
    BY <1>0, <1>3
  <2> QED BY <1>0, <1>3, <2>1, <2>2, <2>3 DEF CallTypes
<1> QED BY NextOutsideCalls, <1>1, <1>2, <1>3

LEMMA TypeNext ==
    ASSUME TypeOK, TagInv, Next
    PROVE  TypeOK' /\ TagInv'
<1>1. NumberTypes' /\ DeliveryTypes' /\ CallTypes' /\ TagInv'
  BY NumberTypesNext, DeliveryTypesNext, CallTypesNext
<1> QED BY <1>1, Zenon DEF TypeOK, NumberTypes, DeliveryTypes, CallTypes

LEMMA CallNext ==
    ASSUME TypeOK, TagInv, \A a \in Ackers : CallInv(a), Next, NEW b \in Ackers
    PROVE  CallInv(b)'
<1>0. /\ CallInv(b)
      /\ tagConsumeOffset \in Nat
      /\ ackPc \in [Ackers -> {"idle", "called", "resolve"}] /\ DOMAIN call = Ackers
  BY CallFacts, HandedFacts
<1>1. ASSUME NEW a \in Ackers, AckCall(a)
      PROVE  CallInv(b)'
  <2>1. PICK d \in handed, multiple \in BOOLEAN :
          /\ call' = [call EXCEPT ![a] = [tag |-> d.tag, multiple |-> multiple,
                                          covers |-> Covered(d, multiple)]]
          /\ \A e \in Covered(d, multiple) : e.tag = d.tag \/ (multiple /\ e.tag < d.tag)
          /\ asked' = asked \cup Covered(d, multiple)
          /\ ackPc' = [ackPc EXCEPT ![a] = "called"]
          /\ UNCHANGED <<tagVars, channelVars, redialVars, settled>>
    BY <1>1, AckCallDoes
  <2> DEFINE C == Covered(d, multiple)
  <2> HIDE DEF C
  <2>2. /\ call' = [call EXCEPT ![a] = [tag |-> d.tag, multiple |-> multiple, covers |-> C]]
        /\ \A e \in C : e.tag = d.tag \/ (multiple /\ e.tag < d.tag)
        /\ asked' = asked \cup C
        /\ UNCHANGED <<tagConsumeOffset, leg, reconnectPc>>
    BY <2>1 DEF C, tagVars, channelVars, redialVars
  <2>3. CASE b = a
    BY <1>0, <2>1, <2>2, <2>3 DEF CallInv, Tag, Multiple
  <2>4. CASE b # a
    BY <1>0, <2>1, <2>2, <2>4 DEF CallInv, Tag, Multiple
  <2> QED BY <2>3, <2>4
<1>2. ASSUME NEW a \in Ackers, Acks(a)
      PROVE  CallInv(b)'
  <2>1. /\ UNCHANGED <<tagConsumeOffset, leg, reconnectPc, asked>>
        /\ Sending(a) \/ Late(a) \/ Returning(a)
    BY <1>2, AcksDo DEF tagVars, channelVars
  <2>2. settled \subseteq settled'
    BY <2>1 DEF Sending, Late, Returning
  <2>3. CASE b # a
    <3>1. ackPc'[b] = ackPc[b] /\ call'[b] = call[b]
      BY <1>0, <2>1, <2>3 DEF Sending, Late, Returning
    <3> QED BY <1>0, <2>1, <2>2, <3>1 DEF CallInv, Tag, Multiple
  <2>4. CASE b = a /\ Sending(a)
    <3>1. PICK S \in SUBSET (1 .. MaxDeliveries) :
            NumbersUpTo(a, S) /\ settled' = settled \cup {<<leg, n>> : n \in S}
      BY <2>4 DEF Sending
    <3>2. /\ call' = call /\ ackPc[a] = "called" /\ ackPc'[a] = "resolve"
          /\ reconnectPc = "ready"
      BY <1>0, <2>4 DEF Sending
    <3> QED BY <1>0, <2>1, <2>4, <3>1, <3>2 DEF CallInv, Tag, Multiple, NumbersUpTo
  <2>5. CASE b = a /\ Late(a)
    <3>1. /\ call' = call /\ ackPc[a] = "called" /\ ackPc'[a] = "resolve"
          /\ reconnectPc = "ready" /\ ~OnThisLeg(a) /\ call[a].tag \in Nat
      BY <1>0, <2>5, CallFacts DEF Late
    <3>2. \A n \in 1 .. MaxDeliveries : n + tagConsumeOffset > Tag(a)
      BY <1>0, <3>1 DEF OnThisLeg, Tag
    <3>3. \A n \in 1 .. MaxDeliveries :
            ~(n + tagConsumeOffset = Tag(a)) /\ ~(n + tagConsumeOffset < Tag(a))
      BY <1>0, <3>1, <3>2 DEF Tag
    <3> QED BY <1>0, <2>1, <2>5, <3>1, <3>3 DEF CallInv, Tag, Multiple
  <2>6. CASE b = a /\ Returning(a)
    <3>1. ackPc'[b] = "idle"
      BY <1>0, <2>6 DEF Returning
    <3> QED BY <3>1 DEF CallInv
  <2> QED BY <2>1, <2>3, <2>4, <2>5, <2>6
<1>3. CASE /\ UNCHANGED callVars
           /\ \/ UNCHANGED <<tagConsumeOffset, leg, reconnectPc>>
              \/ \A a \in Ackers : ackPc[a] # "resolve"
              \/ reconnectPc = "waitLeg"
  BY <1>0, <1>3 DEF CallInv, callVars, Tag, Multiple
<1> QED BY NextOutsideCalls, <1>1, <1>2, <1>3

LEMMA LatestNext ==
    ASSUME TypeOK, TagInv, \A a \in Ackers : CallInv(a), LatestInv, Next
    PROVE  LatestInv'
<1>1. ASSUME NEW a \in Ackers, AckCall(a)
      PROVE  tagLatestMultiAck' = tagLatestMultiAck /\ asked \subseteq asked'
  BY <1>1, AckCallDoes
<1>2. ASSUME NEW a \in Ackers, Acks(a)
      PROVE  LatestInv'
  <2>1. asked' = asked /\ (Sending(a) \/ Late(a) \/ Returning(a))
    BY <1>2, AcksDo
  <2>2. CASE Returning(a)
    <3>1. PICK d \in call[a].covers : d.tag = Tag(a)
      BY <2>2, CallFacts DEF Returning, Tag
    <3>2. d \in asked
      BY <2>2 DEF CallInv, Returning
    <3> QED BY <2>1, <2>2, <3>1, <3>2 DEF Returning, LatestInv
  <2> QED BY <2>1, <2>2 DEF Sending, Late, LatestInv
<1> QED BY NextOutsideCalls, <1>1, <1>2 DEF LatestInv, callVars
-----------------------------------------------------------------------------
(***************************************************************************)
(* The count, the offset and the tags, in every history.                   *)
(***************************************************************************)

\* What holds of the numbers.
LEMMA LaneFacts ==
    ASSUME TypeOK, TagInv
    PROVE  /\ Len(pipe) \in Nat
           /\ LegOver <=> relayLeg \notin open /\ Len(pipe) = 0
           /\ \A i \in 1 .. Len(pipe) : pipe[i] \in 1 .. sent[relayLeg]
           /\ \A e \in handed : e.leg \in 1 .. leg /\ e.number \in 1 .. sent[e.leg]
           /\ \A e \in handed : e.tag \in Nat /\ e.tag <= e.number + tagConsumeOffset
           /\ \A l \in 1 .. MaxLegs : sent[l] \in 0 .. MaxDeliveries
           /\ leg \in 1 .. MaxLegs /\ relayLeg \in 1 .. leg /\ relayLeg \in 1 .. MaxLegs
           /\ tagConsumeCount \in Nat /\ tagConsumeOffset \in 0 .. tagConsumeCount
           /\ cancelled \in BOOLEAN
           /\ ~cancelled => relayLeg = leg
           /\ cancelled => relayLeg # leg \/ reconnectPc = "waitLeg"
<1>1. \A e \in handed : e.leg \in 1 .. leg /\ e.number \in 1 .. sent[e.leg]
  <2> SUFFICES ASSUME NEW e \in handed
               PROVE  e.leg \in 1 .. leg /\ e.number \in 1 .. sent[e.leg]
    OBVIOUS
  <2>1. /\ e.leg \in 1 .. leg /\ e.leg \in 1 .. MaxLegs
        /\ e.number \in 1 .. MaxDeliveries /\ e.number <= sent[e.leg]
    BY HandedFacts
  <2>2. sent[e.leg] \in 0 .. MaxDeliveries
    BY <2>1, HandedFacts
  <2> QED BY <2>1, <2>2
<1>2. relayLeg \in 1 .. leg /\ cancelled \in BOOLEAN /\ (~cancelled => relayLeg = leg)
  BY DEF TypeOK
<1>3. cancelled => relayLeg # leg \/ reconnectPc = "waitLeg"
  BY DEF TagInv
<1> QED BY <1>1, <1>2, <1>3, HandedFacts, PipeFacts, Zenon DEF LegOver

\* A delivery is handed over: the relay's next, or a new one that Get fetches.
FromPipe(d) ==
    /\ d.leg = relayLeg /\ d.late = cancelled /\ d.number = pipe[1]
    /\ Len(pipe) >= 1 /\ Len(pipe') = Len(pipe) - 1 /\ sent' = sent
    /\ \A i \in 1 .. Len(pipe') : pipe'[i] = pipe[i + 1] /\ i + 1 \in 1 .. Len(pipe)

ByGet(d) ==
    /\ Live /\ reconnectPc = "ready"
    /\ d.leg = leg /\ d.late = FALSE /\ d.number = sent[leg] + 1
    /\ pipe' = pipe /\ sent'[leg] = sent[leg] + 1

Passing(d) ==
    /\ d.number \in 1 .. MaxDeliveries /\ d.tag = d.number + tagConsumeOffset
    /\ handed' = handed \cup {d}
    /\ tagConsumeCount' = tagConsumeCount + 1
    /\ UNCHANGED <<tagConsumeOffset, leg, open, relayLeg, cancelled, reconnectPc>>
    /\ FromPipe(d) \/ ByGet(d)

LEMMA PassingFacts ==
    ASSUME TypeOK, ConsumeEvent \/ Get
    PROVE  \E d \in Delivery : Passing(d)
<1> USE DEF tagVars, channelVars, relayVars, redialVars, brokerVars, callVars, noteVars
<1>1. PICK d \in Delivery :
             /\ d.leg = IF pipe' = pipe THEN leg ELSE relayLeg
             /\ d.tag = d.number + tagConsumeOffset
             /\ d.late = (cancelled /\ pipe' # pipe)
             /\ handed' = handed \cup {d}
             /\ tagConsumeCount' = tagConsumeCount + 1
             /\ \/ /\ pipe # <<>> /\ d.number = pipe[1] /\ pipe' = Tail(pipe)
                   /\ pipe' # pipe
                   /\ sent' = sent
                \/ /\ Live /\ reconnectPc = "ready" /\ d.number = sent[leg] + 1
                   /\ pipe' = pipe
                   /\ sent' = [sent EXCEPT ![leg] = @ + 1]
                   /\ sent[leg] + 1 \in 1 .. MaxDeliveries
  BY HandsOver
<1>2. UNCHANGED <<tagConsumeOffset, leg, open, relayLeg, cancelled, reconnectPc>>
  BY DEF ConsumeEvent, Get
<1>3. d.number \in 1 .. MaxDeliveries /\ cancelled \in BOOLEAN
  BY DEF Delivery, TypeOK
<1>4. CASE /\ pipe # <<>> /\ d.number = pipe[1] /\ pipe' = Tail(pipe) /\ sent' = sent
           /\ pipe' # pipe
  <2>0. pipe # <<>> /\ pipe' = Tail(pipe)
    BY <1>4
  <2>1. Len(pipe) \in Nat /\ Len(pipe) >= 1 /\ Len(pipe') = Len(pipe) - 1
        /\ \A i \in 1 .. Len(pipe) - 1 : pipe'[i] = pipe[i + 1]
    BY <2>0, PipeFacts
  <2>2. \A i \in 1 .. Len(pipe') : pipe'[i] = pipe[i + 1] /\ i + 1 \in 1 .. Len(pipe)
    BY <2>1
  <2>3. d.leg = relayLeg /\ d.late = cancelled
    BY <1>1, <1>3, <1>4
  <2>4. FromPipe(d)
    BY <1>4, <2>1, <2>2, <2>3 DEF FromPipe
  <2> QED BY <1>1, <1>2, <1>3, <2>4 DEF Passing
<1>5. CASE /\ Live /\ reconnectPc = "ready" /\ d.number = sent[leg] + 1 /\ pipe' = pipe
           /\ sent' = [sent EXCEPT ![leg] = @ + 1]
           /\ sent[leg] + 1 \in 1 .. MaxDeliveries
  <2>1. sent'[leg] = sent[leg] + 1
    BY <1>5, ConstantsAssumption DEF TypeOK
  <2>2. d.leg = leg /\ d.late = FALSE
    BY <1>1, <1>5
  <2>3. ByGet(d)
    BY <1>5, <2>1, <2>2 DEF ByGet
  <2> QED BY <1>1, <1>2, <1>3, <2>3 DEF Passing
<1> QED BY <1>1, <1>4, <1>5

\* It is a new one, and one passed in time has the offset of the leg in use.
LEMMA PassingIsNew ==
    ASSUME TypeOK, TagInv, Numbers, NEW d \in Delivery, Passing(d)
    PROVE  /\ \A e \in handed : e.leg = d.leg => e.number # d.number
           /\ ~d.late => d.leg = leg /\ Numbering
           /\ Numbering' => Numbering
           /\ d.leg \in 1 .. leg
           /\ d.late \in BOOLEAN
<1>1. CASE FromPipe(d)
  <2>1. /\ d.leg = relayLeg /\ d.late = cancelled /\ d.number = pipe[1]
        /\ Len(pipe) \in Nat /\ 1 \in 1 .. Len(pipe) /\ ~LegOver
    BY <1>1, LaneFacts DEF FromPipe
  <2>2. \A e \in handed : e.leg = d.leg => e.number # d.number
    BY <2>1 DEF Numbers, PipeInv
  <2> QED BY <2>1, <2>2, LaneFacts DEF Numbering, Passing
<1>2. CASE ByGet(d)
  <2>1. d.leg = leg /\ d.late = FALSE /\ d.number = sent[leg] + 1 /\ Numbering
    BY <1>2 DEF ByGet, Numbering
  <2>2. \A e \in handed : e.leg = d.leg => e.number # d.number
    BY <2>1, LaneFacts
  <2>3. leg \in 1 .. leg
    BY LaneFacts
  <2> QED BY <2>1, <2>2, <2>3
<1> QED BY <1>1, <1>2 DEF Passing

\* A late delivery makes none steady, and one of another leg does not either.
LEMMA PassingSteady ==
    ASSUME NEW d, handed' = handed \cup {d}
    PROVE  \A e \in handed : Steady(e)' => Steady(e) \/ (~d.late /\ e.leg = d.leg)
BY DEF Steady

LEMMA NumbersPassing ==
    ASSUME TypeOK, TagInv, Numbers, NEW d \in Delivery, Passing(d)
    PROVE  Numbers'
<1>0. /\ Len(pipe) \in Nat
      /\ LegOver <=> relayLeg \notin open /\ Len(pipe) = 0
      /\ \A i \in 1 .. Len(pipe) : pipe[i] \in 1 .. sent[relayLeg]
      /\ \A e \in handed : e.leg \in 1 .. leg /\ e.number \in 1 .. sent[e.leg]
      /\ \A e \in handed : e.tag \in Nat /\ e.tag <= e.number + tagConsumeOffset
      /\ sent[leg] \in Nat /\ sent[relayLeg] \in Nat /\ leg \in Nat /\ cancelled \in BOOLEAN
      /\ tagConsumeCount \in Nat /\ tagConsumeOffset \in Nat
      /\ ~cancelled => relayLeg = leg
      /\ cancelled => relayLeg # leg \/ reconnectPc = "waitLeg"
  BY LaneFacts
<1>1. /\ d.number \in 1 .. MaxDeliveries /\ d.number \in Nat
      /\ d.tag = d.number + tagConsumeOffset
      /\ handed' = handed \cup {d}
      /\ tagConsumeCount' = tagConsumeCount + 1
      /\ UNCHANGED <<tagConsumeOffset, leg, open, relayLeg, cancelled, reconnectPc>>
  BY DEF Passing
<1>2. /\ \A e \in handed : e.leg = d.leg => e.number # d.number
      /\ ~d.late => d.leg = leg /\ Numbering
      /\ Numbering' => Numbering
      /\ d.leg \in 1 .. leg /\ d.late \in BOOLEAN
  BY PassingIsNew
<1>3. \A e \in handed : Steady(e)' => Steady(e) \/ (~d.late /\ e.leg = d.leg)
  BY <1>1, PassingSteady
<1>4. Once'
  BY <1>1, <1>2 DEF Numbers, Once, Id
<1>5. BaseInv'
  BY <1>1, <1>2 DEF Numbers, BaseInv
<1>6. PipeInv'
  <2>1. CASE FromPipe(d)
    <3>1. /\ Len(pipe) >= 1 /\ d.number = pipe[1] /\ d.leg = relayLeg
          /\ \A i \in 1 .. Len(pipe') : pipe'[i] = pipe[i + 1] /\ i + 1 \in 1 .. Len(pipe)
          /\ Len(pipe') = Len(pipe) - 1
      BY <2>1 DEF FromPipe
    <3>2. ASSUME NEW i \in 1 .. Len(pipe')
          PROVE  d.number # pipe'[i]
      <4>1. /\ pipe'[i] = pipe[i + 1] /\ i + 1 \in 1 .. Len(pipe) /\ 1 \in 1 .. Len(pipe)
            /\ 1 < i + 1
        BY <1>0, <3>1
      <4>2. pipe[1] < pipe[i + 1] /\ pipe[1] \in Int /\ pipe[i + 1] \in Int
        BY <1>0, <4>1 DEF Numbers, PipeInv
      <4> QED BY <3>1, <4>1, <4>2
    <3>3. \A i \in 1 .. Len(pipe') : \A e \in handed' : e.leg = relayLeg => e.number # pipe'[i]
      BY <1>1, <3>1, <3>2 DEF Numbers, PipeInv
    <3>4. ASSUME NEW i \in 1 .. Len(pipe'), NEW j \in 1 .. Len(pipe'), i < j
          PROVE  pipe'[i] < pipe'[j]
      <4>1. /\ pipe'[i] = pipe[i + 1] /\ i + 1 \in 1 .. Len(pipe)
            /\ pipe'[j] = pipe[j + 1] /\ j + 1 \in 1 .. Len(pipe) /\ i + 1 < j + 1
        BY <3>1, <3>4
      <4>2. pipe[i + 1] < pipe[j + 1]
        BY <4>1 DEF Numbers, PipeInv
      <4> QED BY <4>1, <4>2
    <3> QED BY <1>1, <3>3, <3>4 DEF PipeInv
  <2>2. CASE ByGet(d)
    <3>1. \A i \in 1 .. Len(pipe) : d.leg = relayLeg => d.number # pipe[i]
      BY <1>0, <2>2 DEF ByGet
    <3> QED BY <1>1, <2>2, <3>1 DEF ByGet, Numbers, PipeInv
  <2> QED BY <2>1, <2>2 DEF Passing
<1>7. CountInv'
  <2>1. CASE ~cancelled
    <3>1. /\ ~LegOver
          /\ \/ sent'[leg] = sent[leg] /\ Len(pipe') = Len(pipe) - 1
             \/ sent'[leg] = sent[leg] + 1 /\ Len(pipe') = Len(pipe)
      <4>1. CASE FromPipe(d)
        <5>1. sent' = sent /\ Len(pipe) >= 1 /\ Len(pipe') = Len(pipe) - 1
          BY <4>1 DEF FromPipe
        <5> QED BY <1>0, <5>1
      <4>2. CASE ByGet(d)
        <5>1. pipe' = pipe /\ sent'[leg] = sent[leg] + 1 /\ leg \in open
          BY <4>2 DEF ByGet, Live
        <5> QED BY <1>0, <2>1, <5>1
      <4> QED BY <4>1, <4>2 DEF Passing
    <3>2. sent[leg] <= tagConsumeCount - tagConsumeOffset + Len(pipe)
      BY <2>1, <3>1 DEF Numbers, CountInv
    <3>4. sent'[leg] <= tagConsumeCount' - tagConsumeOffset + Len(pipe')
      <4>1. CASE sent'[leg] = sent[leg] /\ Len(pipe') = Len(pipe) - 1
        BY <1>0, <1>1, <3>2, <4>1
      <4>2. CASE sent'[leg] = sent[leg] + 1 /\ Len(pipe') = Len(pipe)
        BY <1>0, <1>1, <3>2, <4>2
      <4> QED BY <3>1, <4>1, <4>2
    <3>5. ASSUME NEW i \in 1 .. Len(pipe')
          PROVE  pipe'[i] <= tagConsumeCount' - tagConsumeOffset + i
      <4>1. CASE FromPipe(d)
        <5>1. pipe'[i] = pipe[i + 1] /\ i + 1 \in 1 .. Len(pipe)
          BY <4>1 DEF FromPipe
        <5>2. pipe[i + 1] <= tagConsumeCount - tagConsumeOffset + (i + 1)
          BY <2>1, <5>1 DEF Numbers, CountInv
        <5> QED BY <1>0, <1>1, <5>1, <5>2
      <4>2. CASE ByGet(d)
        <5>1. pipe'[i] = pipe[i] /\ i \in 1 .. Len(pipe)
          BY <4>2 DEF ByGet
        <5>2. pipe[i] <= tagConsumeCount - tagConsumeOffset + i /\ pipe[i] \in Int
          BY <1>0, <2>1, <5>1 DEF Numbers, CountInv
        <5> QED BY <1>0, <1>1, <5>1, <5>2
      <4> QED BY <4>1, <4>2 DEF Passing
    <3> QED BY <1>1, <2>1, <3>4, <3>5 DEF CountInv
  <2>2. CASE cancelled
    <3>1. ASSUME reconnectPc = "ready"
          PROVE  sent'[leg] <= tagConsumeCount' - tagConsumeOffset
      <4>1. sent[leg] <= tagConsumeCount - tagConsumeOffset
        BY <2>2, <3>1 DEF Numbers, CountInv
      <4>2. sent'[leg] \in {sent[leg], sent[leg] + 1}
        BY DEF Passing, FromPipe, ByGet
      <4> QED BY <1>0, <1>1, <4>1, <4>2
    <3> QED BY <1>1, <2>2, <3>1 DEF CountInv
  <2> QED BY <1>0, <2>1, <2>2
<1>8. OrderInv'
  <2> SUFFICES ASSUME NEW e \in handed', NEW f \in handed'
               PROVE  /\ ~e.late /\ e.leg = f.leg /\ e.number < f.number => e.tag < f.tag
                      /\ Steady(e)' /\ e.leg < f.leg => e.tag < f.tag
    BY DEF OrderInv
  <2>1. CASE e \in handed /\ f \in handed
    <3>1. Steady(e)' /\ e.leg < f.leg => Steady(e)
      BY <1>0, <1>2, <1>3, <2>1
    <3> QED BY <2>1, <3>1 DEF Numbers, OrderInv
  <2>2. CASE e \in handed /\ f = d
    <3>1. e.leg = d.leg /\ e.number < d.number => e.tag < d.tag
      BY <1>0, <1>1, <2>2
    <3>2. ASSUME Steady(e)', e.leg < d.leg
          PROVE  e.tag < d.tag
      <4>1. Steady(e) /\ e.leg < leg
        BY <1>0, <1>2, <1>3, <2>2, <3>2
      <4>2. e.tag <= tagConsumeOffset
        BY <2>2, <4>1 DEF Numbers, SteadyInv
      <4> QED BY <1>0, <1>1, <2>2, <4>2
    <3> QED BY <2>2, <3>1, <3>2
  <2>3. CASE e = d /\ f \in handed
    <3>1. ASSUME ~d.late, d.leg = f.leg, d.number < f.number
          PROVE  d.tag < f.tag
      <4>1. f.tag = f.number + tagConsumeOffset
        BY <1>2, <2>3, <3>1 DEF Numbers, BaseInv
      <4> QED BY <1>0, <1>1, <2>3, <3>1, <4>1
    <3>2. ~(Steady(d)' /\ d.leg < f.leg)
      <4>1. Steady(d)' => d.leg = leg
        BY <1>2 DEF Steady
      <4> QED BY <1>0, <2>3, <4>1
    <3> QED BY <2>3, <3>1, <3>2
  <2>4. CASE e = d /\ f = d
    BY <1>0, <1>1, <1>2, <2>4
  <2> QED BY <1>1, <2>1, <2>2, <2>3, <2>4
<1>9. SteadyInv'
  <2> SUFFICES ASSUME NEW e \in handed', Steady(e)'
               PROVE  /\ e.leg < leg => e.tag <= tagConsumeOffset
                      /\ e.leg = leg => e.tag <= tagConsumeCount + 1
    BY <1>1 DEF SteadyInv
  <2>1. CASE e \in handed /\ Steady(e)
    BY <1>0, <2>1 DEF Numbers, SteadyInv
  <2>2. CASE ~d.late /\ e.leg = d.leg
    <3>1. e.leg = leg /\ Numbering
      BY <1>2, <2>2
    <3>2. e.tag = e.number + tagConsumeOffset
      BY <1>1, <3>1 DEF Numbers, BaseInv
    <3>3. /\ e.number \in Nat
          /\ \A n \in 1 .. e.number : \E g \in handed' : g.leg = leg /\ g.number = n
      <4>1. e.number \in Nat
        BY <1>0, <1>1
      <4>2. \A n \in 1 .. e.number - 1 : \E g \in handed' : g.leg = leg /\ g.number = n
        BY <3>1 DEF Steady
      <4> QED BY <3>1, <4>1, <4>2
    <3>4. e.number <= sent'[leg]
      <4>1. d.number <= sent'[leg]
        BY <1>0, <1>2, <2>2 DEF Passing, FromPipe, ByGet
      <4>2. sent'[leg] \in {sent[leg], sent[leg] + 1}
        BY DEF Passing, FromPipe, ByGet
      <4> QED BY <1>0, <1>1, <3>1, <4>1, <4>2
    <3>5. e.number <= tagConsumeCount + 1 - tagConsumeOffset
      <4>1. CASE ~cancelled /\ Len(pipe') >= 1
        <5>1. 1 \in 1 .. Len(pipe') /\ pipe'[1] \in 1 .. sent[leg]
          <6>1. CASE FromPipe(d)
            <7>1. Len(pipe') = Len(pipe) - 1
                  /\ \A i \in 1 .. Len(pipe') : pipe'[i] = pipe[i + 1] /\ i + 1 \in 1 .. Len(pipe)
              BY <6>1 DEF FromPipe
            <7>2. 1 \in 1 .. Len(pipe')
              BY <1>0, <4>1, <7>1
            <7> QED BY <1>0, <4>1, <7>1, <7>2
          <6>2. CASE ByGet(d)
            <7>1. pipe' = pipe /\ 1 \in 1 .. Len(pipe)
              BY <1>0, <4>1, <6>2 DEF ByGet
            <7> QED BY <1>0, <4>1, <7>1
          <6> QED BY <6>1, <6>2 DEF Passing
        <5>2. pipe'[1] <= tagConsumeCount + 1 - tagConsumeOffset + 1
          BY <1>0, <1>1, <1>7, <4>1, <5>1 DEF CountInv
        <5>3. \A g \in handed' : g.leg = leg => g.number # pipe'[1]
          BY <1>0, <1>1, <1>6, <4>1, <5>1 DEF PipeInv
        <5>4. ~(pipe'[1] \in 1 .. e.number)
          BY <3>3, <5>3
        <5> QED BY <1>0, <3>3, <5>1, <5>2, <5>4
      <4>2. CASE ~cancelled /\ ~(Len(pipe') >= 1)
        <5>1. ~LegOver
          BY <1>0, <4>2 DEF Passing, FromPipe, ByGet, Live
        <5>2. sent[leg] <= tagConsumeCount - tagConsumeOffset + Len(pipe)
          BY <4>2, <5>1 DEF Numbers, CountInv
        <5>3. \/ sent'[leg] = sent[leg] /\ Len(pipe) = 1
              \/ sent'[leg] = sent[leg] + 1 /\ Len(pipe) = 0
          <6>1. CASE FromPipe(d)
            BY <1>0, <4>2, <6>1 DEF FromPipe
          <6>2. CASE ByGet(d)
            BY <1>0, <4>2, <6>2 DEF ByGet
          <6> QED BY <6>1, <6>2 DEF Passing
        <5>4. sent'[leg] <= tagConsumeCount + 1 - tagConsumeOffset
          <6>1. CASE sent'[leg] = sent[leg] /\ Len(pipe) = 1
            BY <1>0, <5>2, <6>1
          <6>2. CASE sent'[leg] = sent[leg] + 1 /\ Len(pipe) = 0
            BY <1>0, <5>2, <6>2
          <6> QED BY <5>3, <6>1, <6>2
        <5>5. sent'[leg] \in Nat
          BY <1>0, <5>3
        <5> QED BY <1>0, <3>3, <3>4, <5>4, <5>5
      <4>3. CASE cancelled
        <5>1. reconnectPc = "ready"
          BY <3>1, <4>3 DEF Numbering
        <5>2. sent'[leg] <= tagConsumeCount + 1 - tagConsumeOffset
          BY <1>0, <1>1, <1>7, <4>3, <5>1 DEF CountInv
        <5>3. sent'[leg] \in Nat
          BY <1>0 DEF Passing, FromPipe, ByGet
        <5> QED BY <1>0, <3>3, <3>4, <5>2, <5>3
      <4> QED BY <1>0, <4>1, <4>2, <4>3
    <3> QED BY <1>0, <3>1, <3>2, <3>3, <3>5
  <2>3. e = d => ~d.late
    BY DEF Steady
  <2> QED BY <1>1, <1>3, <2>1, <2>2, <2>3
<1> QED BY <1>4, <1>5, <1>6, <1>7, <1>8, <1>9 DEF Numbers

\* Steps that hand nothing over, put nothing in the pipe and open no channel.
Quiet ==
    /\ UNCHANGED <<tagConsumeOffset, leg, relayLeg, sent, pipe, handed>>
    /\ tagConsumeCount' \in {tagConsumeCount, tagConsumeCount + 1}
    /\ open' \subseteq open
    /\ reconnectPc' = reconnectPc \/ reconnectPc' = "waitLeg"
    /\ cancelled' = cancelled \/ (cancelled' /\ reconnectPc' = "waitLeg")

LEMMA NumbersQuiet ==
    ASSUME TypeOK, TagInv, Numbers, Quiet
    PROVE  Numbers'
<1>0. /\ Len(pipe) \in Nat /\ sent[leg] \in Nat
      /\ \A i \in 1 .. Len(pipe) : pipe[i] \in 1 .. sent[relayLeg]
      /\ sent[relayLeg] \in Nat /\ cancelled \in BOOLEAN
      /\ tagConsumeCount \in Nat /\ tagConsumeOffset \in Nat
      /\ \A e \in handed : e.tag \in Nat
  BY LaneFacts
<1>1. /\ UNCHANGED <<tagConsumeOffset, leg, relayLeg, sent, pipe, handed>>
      /\ tagConsumeCount' \in {tagConsumeCount, tagConsumeCount + 1}
      /\ cancelled => cancelled'
      /\ cancelled' /\ reconnectPc' = "ready" => cancelled /\ reconnectPc = "ready"
  BY <1>0 DEF Quiet
<1>2. (LegOver => LegOver') /\ (Numbering' => Numbering)
  BY <1>0 DEF Quiet, LegOver, Numbering
<1>3. Once' /\ PipeInv' /\ BaseInv'
  BY <1>1, <1>2 DEF Numbers, Once, Id, PipeInv, BaseInv
<1>4. \A e \in handed : Steady(e)' <=> Steady(e)
  BY <1>1 DEF Steady
<1>5. OrderInv'
  BY <1>1, <1>4 DEF Numbers, OrderInv
<1>6. SteadyInv'
  BY <1>0, <1>1, <1>4 DEF Numbers, SteadyInv
<1>7. CountInv'
  <2>1. ~cancelled /\ ~LegOver'
            => sent[leg] <= tagConsumeCount' - tagConsumeOffset + Len(pipe)
    BY <1>0, <1>1, <1>2 DEF Numbers, CountInv
  <2>2. ASSUME ~cancelled, NEW i \in 1 .. Len(pipe)
        PROVE  pipe[i] <= tagConsumeCount' - tagConsumeOffset + i
    <3>1. pipe[i] <= tagConsumeCount - tagConsumeOffset + i /\ pipe[i] \in Int
      BY <1>0, <2>2 DEF Numbers, CountInv
    <3> QED BY <1>0, <1>1, <3>1
  <2>3. cancelled' /\ reconnectPc' = "ready" => sent[leg] <= tagConsumeCount' - tagConsumeOffset
    BY <1>0, <1>1 DEF Numbers, CountInv
  <2> QED BY <1>1, <2>1, <2>2, <2>3 DEF CountInv
<1> QED BY <1>3, <1>5, <1>6, <1>7 DEF Numbers

LEMMA QuietSteps ==
    ASSUME TypeOK, TagInv, Next
    PROVE  \/ ConsumeEvent \/ Get \/ BrokerDelivers \/ Fetches \/ PipeDropped
           \/ Quiet
<1> USE DEF tagVars, channelVars, relayVars, redialVars, brokerVars, callVars, noteVars
<1>0. cancelled \in BOOLEAN
  BY DEF TypeOK
<1>1. ASSUME NEW a \in Ackers, AckCall(a)
      PROVE  Quiet
  BY <1>1 DEF AckCall, Quiet
<1>2. ASSUME NEW a \in Ackers, Acks(a)
      PROVE  Quiet
  BY <1>2, AcksDo DEF Quiet
<1>3. CASE GetFindsNone
  BY <1>3 DEF GetFindsNone, CountAfterGet, Quiet
<1>4. CASE StartReconnect
  BY <1>4 DEF StartReconnect, Quiet
<1>5. CASE ChannelDies
  BY <1>5 DEF ChannelDies, Quiet
<1>6. CASE RelayCancelled
  BY <1>6 DEF RelayCancelled, Quiet
<1> QED BY NextSteps, <1>1, <1>2, <1>3, <1>4, <1>5, <1>6 DEF Others

LEMMA NumbersBrokerDelivers ==
    ASSUME TypeOK, TagInv, Numbers, BrokerDelivers
    PROVE  Numbers'
<1>0. /\ Len(pipe) \in Nat /\ sent[leg] \in Nat /\ sent[relayLeg] \in Nat
      /\ relayLeg \in 1 .. MaxLegs /\ leg \in 1 .. MaxLegs
      /\ \A i \in 1 .. Len(pipe) : pipe[i] \in 1 .. sent[relayLeg]
      /\ \A e \in handed : e.leg \in 1 .. leg /\ e.number \in 1 .. sent[e.leg]
      /\ tagConsumeCount \in Nat /\ tagConsumeOffset \in Nat
      /\ cancelled \in BOOLEAN
      /\ ~cancelled => relayLeg = leg
      /\ cancelled => relayLeg # leg \/ reconnectPc = "waitLeg"
  BY LaneFacts
<1>1. /\ relayLeg \in open
      /\ sent' = [sent EXCEPT ![relayLeg] = @ + 1]
      /\ pipe' = Append(pipe, sent[relayLeg] + 1)
      /\ UNCHANGED <<tagConsumeOffset, tagConsumeCount, leg, open, relayLeg, cancelled,
                     reconnectPc, handed>>
  BY DEF BrokerDelivers, tagVars, channelVars, relayVars, redialVars
<1>2. ~LegOver /\ (Numbering' => Numbering)
  BY <1>1 DEF Numbering, LegOver
<1>3. /\ sent'[relayLeg] = sent[relayLeg] + 1
      /\ leg # relayLeg => sent'[leg] = sent[leg]
  BY <1>0, <1>1 DEF TypeOK
<1>4. /\ Len(pipe') = Len(pipe) + 1 /\ pipe'[Len(pipe) + 1] = sent[relayLeg] + 1
      /\ \A i \in 1 .. Len(pipe) : pipe'[i] = pipe[i]
  BY <1>1 DEF TypeOK
<1>5. Once' /\ BaseInv'
  BY <1>1, <1>2 DEF Numbers, Once, Id, BaseInv
<1>6. PipeInv'
  <2>1. \A i \in 1 .. Len(pipe') : i \in 1 .. Len(pipe) \/ i = Len(pipe) + 1
    BY <1>0, <1>4
  <2>2. \A i \in 1 .. Len(pipe') : \A e \in handed' : e.leg = relayLeg' => e.number # pipe'[i]
    <3>1. ASSUME NEW e \in handed, e.leg = relayLeg
          PROVE  e.number # sent[relayLeg] + 1
      BY <1>0, <3>1
    <3> QED BY <1>1, <1>4, <2>1, <3>1 DEF Numbers, PipeInv
  <2>3. ASSUME NEW i \in 1 .. Len(pipe'), NEW j \in 1 .. Len(pipe'), i < j
        PROVE  pipe'[i] < pipe'[j]
    <3>1. i \in 1 .. Len(pipe)
      BY <1>0, <1>4, <2>3
    <3>2. CASE j \in 1 .. Len(pipe)
      BY <1>4, <2>3, <3>1, <3>2 DEF Numbers, PipeInv
    <3>3. CASE j = Len(pipe) + 1
      BY <1>0, <1>4, <3>1, <3>3
    <3> QED BY <2>1, <3>2, <3>3
  <2> QED BY <2>2, <2>3 DEF PipeInv
<1>7. \A e \in handed : Steady(e)' <=> Steady(e)
  BY <1>1 DEF Steady
<1>8. OrderInv' /\ SteadyInv'
  BY <1>1, <1>7 DEF Numbers, OrderInv, SteadyInv
<1>9. CountInv'
  <2>1. CASE ~cancelled
    <3>1. sent[leg] <= tagConsumeCount - tagConsumeOffset + Len(pipe)
          /\ \A i \in 1 .. Len(pipe) : pipe[i] <= tagConsumeCount - tagConsumeOffset + i
      BY <1>2, <2>1 DEF Numbers, CountInv
    <3> QED BY <1>0, <1>1, <1>3, <1>4, <2>1, <3>1 DEF CountInv
  <2>2. CASE cancelled
    BY <1>0, <1>1, <1>3, <2>2 DEF Numbers, CountInv
  <2> QED BY <1>0, <2>1, <2>2
<1> QED BY <1>5, <1>6, <1>8, <1>9 DEF Numbers

LEMMA NumbersPipeDropped ==
    ASSUME TypeOK, TagInv, Numbers, PipeDropped
    PROVE  Numbers'
<1>1. /\ relayLeg \notin open /\ pipe' = <<>> /\ Len(pipe') = 0
      /\ UNCHANGED <<tagConsumeOffset, tagConsumeCount, leg, open, relayLeg, cancelled,
                     reconnectPc, sent, handed>>
  BY DEF PipeDropped, tagVars, channelVars, relayVars, redialVars
<1>2. LegOver' /\ (Numbering' => Numbering)
  BY <1>1 DEF Numbering, LegOver
<1>3. Once' /\ BaseInv' /\ PipeInv'
  BY <1>1, <1>2 DEF Numbers, Once, Id, BaseInv, PipeInv
<1>4. \A e \in handed : Steady(e)' <=> Steady(e)
  BY <1>1 DEF Steady
<1>5. OrderInv' /\ SteadyInv'
  BY <1>1, <1>4 DEF Numbers, OrderInv, SteadyInv
<1>6. CountInv'
  BY <1>1, <1>2 DEF Numbers, CountInv
<1> QED BY <1>3, <1>5, <1>6 DEF Numbers

LEMMA NumbersFetches ==
    ASSUME TypeOK, TagInv, Numbers, Fetches
    PROVE  Numbers'
<1>0. /\ Len(pipe) \in Nat /\ leg \in Nat
      /\ LegOver <=> relayLeg \notin open /\ Len(pipe) = 0
      /\ \A e \in handed : e.leg \in 1 .. leg /\ e.tag \in Nat
      /\ tagConsumeCount \in Nat /\ tagConsumeOffset \in 0 .. tagConsumeCount
      /\ cancelled \in BOOLEAN /\ (~cancelled => relayLeg = leg)
  BY LaneFacts
<1>1. /\ reconnectPc = "waitLeg" /\ (LegOver \/ cancelled)
      /\ tagConsumeOffset' = tagConsumeCount
      /\ UNCHANGED <<tagConsumeCount, sent, handed, pipe, cancelled>>
      /\ \/ UNCHANGED <<leg, open, relayLeg, reconnectPc>>
         \/ leg' = leg + 1 /\ sent[leg'] = 0 /\ (cancelled => relayLeg' = relayLeg)
  <2>1. reconnectPc = "waitLeg" => leg + 1 \in 1 .. MaxLegs /\ sent[leg + 1] = 0
    <3>1. reconnectPc = "waitLeg" => leg + 1 \in 1 .. MaxLegs
      <4>1. reconnectPc = "waitLeg" => leg < MaxLegs
        BY DEF TagInv
      <4> QED BY <4>1, HandedFacts
    <3> QED BY <1>0, <3>1 DEF TagInv
  <2> QED
    BY <2>1 DEF Fetches, FetchFails, FetchSucceeds, LegWaited, OffsetAtReconnect,
                channelVars, relayVars, redialVars, brokerVars
<1>2. ~cancelled => LegOver /\ Len(pipe) = 0
  BY <1>0, <1>1
<1>3. Once' /\ PipeInv'
  BY <1>0, <1>1, <1>2 DEF Numbers, Once, Id, PipeInv
<1>4. \A e \in handed : Steady(e)' <=> Steady(e)
  BY <1>1 DEF Steady
<1>5. OrderInv'
  BY <1>1, <1>4 DEF Numbers, OrderInv
<1>6. \A e \in handed : Steady(e) => e.tag <= tagConsumeCount
  BY <1>0 DEF Numbers, SteadyInv
<1>7. SteadyInv'
  BY <1>1, <1>4, <1>6 DEF SteadyInv
<1>8. CASE UNCHANGED <<leg, open, relayLeg, reconnectPc>>
  <2>1. ~Numbering' /\ (~cancelled => LegOver')
    BY <1>0, <1>1, <1>2, <1>8 DEF Numbering, LegOver
  <2>2. BaseInv' /\ CountInv'
    BY <1>1, <1>2, <1>8, <2>1 DEF BaseInv, CountInv
  <2> QED BY <1>3, <1>5, <1>7, <2>2 DEF Numbers
<1>9. CASE leg' = leg + 1 /\ sent[leg'] = 0
  <2>1. BaseInv'
    BY <1>0, <1>1, <1>9 DEF BaseInv
  <2>2. CountInv'
    BY <1>0, <1>1, <1>2, <1>9 DEF CountInv
  <2> QED BY <1>3, <1>5, <1>7, <2>1, <2>2 DEF Numbers
<1> QED BY <1>1, <1>8, <1>9

LEMMA NumbersNext ==
    ASSUME TypeOK, TagInv, Numbers, Next
    PROVE  Numbers'
<1>1. CASE ConsumeEvent \/ Get
  BY <1>1, PassingFacts, NumbersPassing
<1> QED BY <1>1, QuietSteps, NumbersQuiet, NumbersBrokerDelivers, NumbersPipeDropped,
           NumbersFetches
-----------------------------------------------------------------------------
(***************************************************************************)
(* What is settled, as long as no delivery is overtaken and no relay       *)
(* cancelled.                                                              *)
(***************************************************************************)

LEMMA StaysUndisturbed ==
    ASSUME TypeOK, Next, Undisturbed'
    PROVE  Undisturbed /\ relayLeg = leg /\ ~cancelled /\ ~cancelled'
<1> USE DEF relayVars, noteVars
<1>1. ASSUME NEW a \in Ackers, AckCall(a) \/ Acks(a)
      PROVE  UNCHANGED <<overtaken, cancelled>>
  BY <1>1 DEF AckCall, Acks, AckSends, AckIsLate, AckSucceeds, AckFails
<1>2. ASSUME ConsumeEvent \/ Get \/ BrokerDelivers
      PROVE  UNCHANGED <<overtaken, cancelled>>
  BY <1>2 DEF ConsumeEvent, Get, BrokerDelivers
<1>3. ASSUME Fetches
      PROVE  UNCHANGED <<overtaken, cancelled>>
  BY <1>3 DEF Fetches, FetchFails, FetchSucceeds
<1>4. ASSUME GetFindsNone \/ StartReconnect \/ ChannelDies
      PROVE  UNCHANGED <<overtaken, cancelled>>
  BY <1>4 DEF GetFindsNone, StartReconnect, ChannelDies
<1>5. ~RelayCancelled
  BY DEF RelayCancelled, Undisturbed
<1>6. CASE PipeDropped
  BY <1>6 DEF PipeDropped, Undisturbed, TypeOK
<1>7. Undisturbed
  BY NextSteps, <1>1, <1>2, <1>3, <1>4, <1>5, <1>6 DEF Undisturbed, Others
<1> QED BY <1>7 DEF TypeOK, Undisturbed

\* A delivery is handed over, from the pipe or by Get.
Handing(d) ==
    /\ d.leg = leg /\ d.number \in 1 .. MaxDeliveries /\ d.tag = d.number + tagConsumeOffset
    /\ handed' = handed \cup {d}
    /\ tagConsumeCount' = tagConsumeCount + 1
    /\ UNCHANGED <<tagConsumeOffset, tagLatestMultiAck, leg, open, relayLeg, cancelled,
                   reconnectPc, settled, ackPc, call, asked, orderly>>
    /\ \/ /\ Len(pipe) >= 1 /\ d.number = pipe[1] /\ sent' = sent
          /\ Len(pipe') = Len(pipe) - 1
          /\ \A i \in 1 .. Len(pipe') : pipe'[i] = pipe[i + 1] /\ i + 1 \in 1 .. Len(pipe)
       \/ /\ Live /\ d.number = sent[leg] + 1 /\ pipe' = pipe
          /\ sent'[leg] = sent[leg] + 1 /\ sent[leg] + 1 \in 1 .. MaxDeliveries

LEMMA HandingFacts ==
    ASSUME TypeOK, relayLeg = leg, ConsumeEvent \/ Get
    PROVE  \E d \in Delivery : Handing(d)
<1> USE DEF tagVars, channelVars, relayVars, redialVars, brokerVars, callVars, noteVars
<1>1. PICK d \in Delivery :
             /\ d.leg = leg
             /\ d.tag = d.number + tagConsumeOffset
             /\ handed' = handed \cup {d}
             /\ tagConsumeCount' = tagConsumeCount + 1
             /\ \/ /\ pipe # <<>> /\ d.number = pipe[1] /\ pipe' = Tail(pipe)
                   /\ sent' = sent
                \/ /\ Live /\ d.number = sent[leg] + 1
                   /\ pipe' = pipe
                   /\ sent' = [sent EXCEPT ![leg] = @ + 1]
                   /\ sent[leg] + 1 \in 1 .. MaxDeliveries
  BY HandsOver
<1>2. UNCHANGED <<tagConsumeOffset, tagLatestMultiAck, leg, open, relayLeg, cancelled,
                  reconnectPc, settled, ackPc, call, asked, orderly>>
  BY DEF ConsumeEvent, Get
<1>3. d.number \in 1 .. MaxDeliveries
  BY DEF Delivery
<1>4. CASE pipe # <<>> /\ d.number = pipe[1] /\ pipe' = Tail(pipe) /\ sent' = sent
  <2>1. Len(pipe) \in Nat /\ Len(pipe) >= 1 /\ Len(pipe') = Len(pipe) - 1
        /\ \A i \in 1 .. Len(pipe) - 1 : pipe'[i] = pipe[i + 1]
    BY <1>4, PipeFacts
  <2>2. \A i \in 1 .. Len(pipe') : pipe'[i] = pipe[i + 1] /\ i + 1 \in 1 .. Len(pipe)
    BY <2>1
  <2> QED BY <1>1, <1>2, <1>3, <1>4, <2>1, <2>2 DEF Handing
<1>5. CASE /\ Live /\ d.number = sent[leg] + 1 /\ pipe' = pipe
           /\ sent' = [sent EXCEPT ![leg] = @ + 1]
           /\ sent[leg] + 1 \in 1 .. MaxDeliveries
  <2>1. sent'[leg] = sent[leg] + 1
    BY <1>5, ConstantsAssumption DEF TypeOK
  <2> QED BY <1>1, <1>2, <1>3, <1>5, <2>1 DEF Handing
<1> QED BY <1>1, <1>4, <1>5

\* What holds of the pipe and the callers' deliveries on the leg.
LEMMA LegFacts ==
    ASSUME TypeOK, TagInv, relayLeg = leg
    PROVE  /\ Len(pipe) \in Nat
           /\ LegOver <=> leg \notin open /\ Len(pipe) = 0
           /\ sent[leg] \in 0 .. MaxDeliveries
           /\ \A i \in 1 .. Len(pipe) : pipe[i] \in 1 .. sent[leg]
           /\ \A e \in handed : e.leg = leg => e.number \in 1 .. sent[leg]
           /\ tagConsumeCount \in Nat /\ tagConsumeOffset \in 0 .. tagConsumeCount
           /\ tagLatestMultiAck \in Nat
<1>1. \A e \in handed : e.leg = leg => e.number \in 1 .. sent[leg]
  <2> SUFFICES ASSUME NEW e \in handed, e.leg = leg
               PROVE  e.number \in 1 .. sent[leg]
    OBVIOUS
  <2>1. e.number \in 1 .. MaxDeliveries /\ e.number <= sent[leg]
        /\ sent[leg] \in 0 .. MaxDeliveries
    BY HandedFacts
  <2> QED BY <2>1
<1>2. tagConsumeCount \in Nat /\ tagConsumeOffset \in 0 .. tagConsumeCount
      /\ tagLatestMultiAck \in Nat
  BY DEF TypeOK
<1> QED BY <1>1, <1>2, PipeFacts, Zenon DEF LegOver

LEMMA AheadHanding ==
    ASSUME TypeOK, TagInv, relayLeg = leg, ~cancelled, Numbers, Ahead,
           NEW d \in Delivery, Handing(d)
    PROVE  Ahead'
<1>0. /\ Len(pipe) \in Nat /\ sent[leg] \in 0 .. MaxDeliveries
      /\ LegOver <=> leg \notin open /\ Len(pipe) = 0
      /\ \A i \in 1 .. Len(pipe) : pipe[i] \in 1 .. sent[leg]
      /\ tagConsumeCount \in Nat /\ tagConsumeOffset \in 0 .. tagConsumeCount
      /\ tagLatestMultiAck \in Nat /\ leg \in Nat
      /\ \A e \in handed : e.tag \in Nat
  BY LegFacts, HandedFacts
<1>1. ~LegOver /\ Numbering
  BY <1>0 DEF Handing, Live, Numbering
<1>2. /\ d.leg = leg /\ d.number \in 1 .. MaxDeliveries
      /\ d.tag = d.number + tagConsumeOffset
      /\ handed' = handed \cup {d}
      /\ tagConsumeCount' = tagConsumeCount + 1
      /\ UNCHANGED <<tagConsumeOffset, tagLatestMultiAck, leg, settled, cancelled>>
  BY DEF Handing
<1>3. SettledInv'
  <2>1. d.tag <= tagLatestMultiAck => Id(d) \in settled
    BY <1>1, <1>2 DEF Ahead, SettledInv, Id
  <2> QED BY <1>1, <1>2, <2>1 DEF Ahead, SettledInv, Id
<1>4. d.number <= tagConsumeCount - tagConsumeOffset + 1 + Len(pipe')
      /\ Len(pipe) <= 1 + Len(pipe') /\ Len(pipe') \in Nat
  <2>1. CASE Len(pipe) >= 1 /\ d.number = pipe[1] /\ Len(pipe') = Len(pipe) - 1
    <3>1. pipe[1] <= tagConsumeCount - tagConsumeOffset + 1
      BY <1>0, <2>1 DEF Numbers, CountInv
    <3> QED BY <1>0, <1>2, <2>1, <3>1
  <2>2. CASE d.number = sent[leg] + 1 /\ pipe' = pipe
    <3>1. sent[leg] <= tagConsumeCount - tagConsumeOffset + Len(pipe)
      BY <1>1 DEF Numbers, CountInv
    <3> QED BY <1>0, <1>2, <2>2, <3>1
  <2> QED BY <2>1, <2>2 DEF Handing
<1>5. TopInv'
  <2> SUFFICES ASSUME NEW e \in handed'
               PROVE  /\ e.leg = leg => e.tag <= tagConsumeCount + 1 + Len(pipe')
                      /\ e.leg < leg => e.tag <= tagConsumeOffset
    BY <1>2 DEF TopInv
  <2>1. CASE e \in handed
    BY <1>0, <1>4, <2>1 DEF Ahead, TopInv
  <2>2. CASE e = d
    BY <1>0, <1>2, <1>4, <2>2
  <2> QED BY <1>2, <2>1, <2>2
<1> QED BY <1>3, <1>5 DEF Ahead

\* Steps that hand nothing over and open no channel.
Calm ==
    /\ UNCHANGED <<tagConsumeOffset, tagLatestMultiAck, leg, relayLeg, cancelled, sent, pipe,
                   handed, settled>>
    /\ tagConsumeCount' \in {tagConsumeCount, tagConsumeCount + 1}
    /\ open' \subseteq open
    /\ reconnectPc' = reconnectPc \/ reconnectPc' = "waitLeg"

LEMMA AheadCalm ==
    ASSUME TypeOK, TagInv, relayLeg = leg, ~cancelled, Numbers, Ahead, Calm
    PROVE  Ahead'
<1>0. /\ Len(pipe) \in Nat /\ sent[leg] \in Nat
      /\ LegOver <=> leg \notin open /\ Len(pipe) = 0
      /\ \A i \in 1 .. Len(pipe) : pipe[i] \in Nat
      /\ tagConsumeCount \in Nat /\ tagConsumeOffset \in Nat
      /\ \A e \in handed : e.tag \in Nat
  BY LegFacts, HandedFacts
<1>1. UNCHANGED <<tagConsumeOffset, tagLatestMultiAck, leg, relayLeg, cancelled, sent, pipe,
                  handed, settled>>
      /\ tagConsumeCount' \in {tagConsumeCount, tagConsumeCount + 1}
  BY DEF Calm
<1>2. /\ LegOver => LegOver'
      /\ Numbering' => Numbering
  BY DEF Calm, LegOver, Numbering
<1>3. SettledInv'
  BY <1>1, <1>2 DEF Ahead, SettledInv, Id
<1>4. TopInv'
  BY <1>0, <1>1 DEF Ahead, TopInv
<1> QED BY <1>3, <1>4 DEF Ahead

LEMMA CalmSteps ==
    ASSUME TypeOK, TagInv, Next, Undisturbed'
    PROVE  \/ ConsumeEvent \/ Get \/ BrokerDelivers \/ Fetches \/ PipeDropped
           \/ \E a \in Ackers : Acks(a)
           \/ Calm
<1> USE DEF tagVars, channelVars, relayVars, redialVars, brokerVars, callVars, noteVars
<1>1. ASSUME NEW a \in Ackers, AckCall(a)
      PROVE  Calm
  BY <1>1 DEF AckCall, Calm
<1>2. CASE GetFindsNone
  BY <1>2 DEF GetFindsNone, CountAfterGet, Calm
<1>3. CASE StartReconnect
  BY <1>3 DEF StartReconnect, Calm
<1>4. CASE ChannelDies
  BY <1>4 DEF ChannelDies, Calm
<1>5. CASE RelayCancelled
  BY <1>5 DEF RelayCancelled, Undisturbed
<1> QED BY NextSteps, <1>1, <1>2, <1>3, <1>4, <1>5 DEF Others

LEMMA AheadBrokerDelivers ==
    ASSUME TypeOK, TagInv, relayLeg = leg, ~cancelled, Numbers, Ahead, BrokerDelivers
    PROVE  Ahead'
<1> USE ConstantsAssumption
<1>0. /\ Len(pipe) \in Nat /\ sent[leg] \in Nat /\ leg \in 1 .. MaxLegs
      /\ LegOver <=> leg \notin open /\ Len(pipe) = 0
      /\ \A i \in 1 .. Len(pipe) : pipe[i] \in 1 .. sent[leg]
      /\ \A e \in handed : e.leg = leg => e.number \in 1 .. sent[leg]
      /\ tagConsumeCount \in Nat /\ tagConsumeOffset \in Nat
      /\ \A e \in handed : e.tag \in Nat
  BY LegFacts, HandedFacts
<1>1. /\ leg \in open
      /\ sent' = [sent EXCEPT ![leg] = @ + 1] /\ pipe' = Append(pipe, sent[leg] + 1)
      /\ UNCHANGED <<tagConsumeOffset, tagConsumeCount, tagLatestMultiAck, leg, open,
                     relayLeg, cancelled, reconnectPc, handed, settled>>
  BY DEF BrokerDelivers, tagVars, channelVars, relayVars, redialVars, callVars
<1>2. ~LegOver /\ Numbering
  BY <1>0, <1>1 DEF Numbering
<1>3. sent'[leg] = sent[leg] + 1
  BY <1>0, <1>1 DEF TypeOK
<1>4. /\ Len(pipe') = Len(pipe) + 1 /\ pipe'[Len(pipe) + 1] = sent[leg] + 1
      /\ \A i \in 1 .. Len(pipe) : pipe'[i] = pipe[i]
  BY <1>1 DEF TypeOK
<1>5. SettledInv'
  BY <1>1, <1>2 DEF Ahead, SettledInv, Id
<1>6. TopInv'
  BY <1>0, <1>1, <1>4 DEF Ahead, TopInv
<1> QED BY <1>5, <1>6 DEF Ahead

LEMMA AheadPipeDropped ==
    ASSUME TypeOK, TagInv, relayLeg = leg, ~cancelled, Numbers, Ahead, PipeDropped, Undisturbed'
    PROVE  Ahead'
<1>0. /\ Len(pipe) \in Nat
      /\ \A i \in 1 .. Len(pipe) : pipe[i] \in 1 .. sent[leg]
      /\ LegOver <=> leg \notin open /\ Len(pipe) = 0
      /\ tagConsumeCount \in Nat /\ tagConsumeOffset \in Nat /\ sent[leg] \in Nat
      /\ \A e \in handed : e.tag \in Nat /\ e.number \in Nat
  BY LegFacts, HandedFacts
<1>1. /\ leg \notin open /\ Len(pipe) >= 1 /\ Head(pipe) = pipe[1] /\ pipe' = <<>>
      /\ UNCHANGED <<tagConsumeOffset, tagConsumeCount, tagLatestMultiAck, leg, open,
                     relayLeg, cancelled, reconnectPc, sent, handed, settled>>
  BY PipeFacts DEF PipeDropped, tagVars, channelVars, relayVars, redialVars, callVars
<1>2. \A e \in handed : e.leg = leg => ~(e.number > pipe[1])
  BY <1>1 DEF PipeDropped, Undisturbed
<1>3. ~LegOver /\ Numbering /\ LegOver' /\ Len(pipe') = 0
  BY <1>0, <1>1 DEF Numbering, LegOver
<1>4. \A e \in handed : e.leg = leg => e.tag <= tagConsumeCount
  <2> SUFFICES ASSUME NEW e \in handed, e.leg = leg
               PROVE  e.tag <= tagConsumeCount
    OBVIOUS
  <2>1. e.number < pipe[1]
    <3>1. e.number # pipe[1]
      BY <1>0, <1>1 DEF Numbers, PipeInv
    <3> QED BY <1>0, <1>1, <1>2, <3>1
  <2>2. pipe[1] <= tagConsumeCount - tagConsumeOffset + 1
    BY <1>0, <1>1 DEF Numbers, CountInv
  <2>3. e.tag = e.number + tagConsumeOffset
    BY <1>3 DEF Numbers, BaseInv
  <2> QED BY <1>0, <1>1, <2>1, <2>2, <2>3
<1>5. SettledInv'
  BY <1>1, <1>3 DEF Ahead, SettledInv, Id
<1>6. TopInv'
  BY <1>0, <1>1, <1>3, <1>4 DEF Ahead, TopInv
<1> QED BY <1>5, <1>6 DEF Ahead

LEMMA AheadFetches ==
    ASSUME TypeOK, TagInv, LatestInv, relayLeg = leg, ~cancelled, Numbers, Ahead, Fetches
    PROVE  Ahead'
<1>0. /\ tagConsumeCount \in Nat /\ tagConsumeOffset \in 0 .. tagConsumeCount
      /\ leg \in Nat /\ tagLatestMultiAck \in Nat /\ Len(pipe) \in Nat
      /\ \A e \in handed : e.tag \in Nat /\ e.leg \in 1 .. leg
      /\ LegOver <=> leg \notin open /\ Len(pipe) = 0
  BY LegFacts, HandedFacts
<1>1. /\ reconnectPc = "waitLeg" /\ LegOver
      /\ tagConsumeOffset' = tagConsumeCount
      /\ UNCHANGED <<tagConsumeCount, tagLatestMultiAck, sent, handed, pipe, settled,
                     cancelled>>
      /\ \/ UNCHANGED <<leg, open, relayLeg, reconnectPc>>
         \/ leg' = leg + 1 /\ sent[leg'] = 0
  <2>1. reconnectPc = "waitLeg" => leg + 1 \in 1 .. MaxLegs /\ sent[leg + 1] = 0
    <3>1. reconnectPc = "waitLeg" => leg < MaxLegs
      BY DEF TagInv
    <3>2. reconnectPc = "waitLeg" => leg + 1 \in 1 .. MaxLegs
      BY <3>1, HandedFacts
    <3> QED BY <3>2, <1>0 DEF TagInv
  <2> QED
    BY <2>1 DEF Fetches, FetchFails, FetchSucceeds, LegWaited, OffsetAtReconnect,
                tagVars, channelVars, relayVars, redialVars, brokerVars, callVars
<1>2. \A e \in handed : e.tag <= tagConsumeCount
  BY <1>0, <1>1 DEF Ahead, TopInv
<1>3. tagLatestMultiAck <= tagConsumeCount
  BY <1>0, <1>2, CallFacts DEF LatestInv
<1>4. TopInv'
  BY <1>0, <1>1, <1>2 DEF TopInv
<1>5. SettledInv'
  <2>1. Numbering' => leg' = leg + 1
    BY <1>1 DEF Numbering, LegOver
  <2> QED BY <1>0, <1>1, <1>3, <2>1 DEF Ahead, SettledInv
<1> QED BY <1>4, <1>5 DEF Ahead

LEMMA AheadAcks ==
    ASSUME TypeOK, TagInv, relayLeg = leg, ~cancelled, Numbers, Ahead, NEW a \in Ackers,
           CallInv(a), Acks(a)
    PROVE  Ahead'
<1>0. /\ tagConsumeOffset \in Nat /\ tagLatestMultiAck \in Nat /\ leg \in Nat
      /\ \A e \in handed : /\ e.tag \in Nat /\ e.leg \in 1 .. leg
                           /\ e.number \in 1 .. MaxDeliveries
      /\ Tag(a) \in Nat /\ Multiple(a) \in BOOLEAN
  BY LegFacts, HandedFacts, CallFacts DEF Tag, Multiple
<1>1. /\ UNCHANGED <<tagConsumeOffset, tagConsumeCount, leg, open, relayLeg, cancelled,
                     reconnectPc, sent, pipe, handed>>
      /\ Sending(a) \/ Late(a) \/ Returning(a)
  BY AcksDo DEF tagVars, channelVars, relayVars
<1>2. Numbering' <=> Numbering
  BY <1>1 DEF Numbering, LegOver
<1>3. TopInv'
  BY <1>1 DEF Ahead, TopInv
<1>4. settled \subseteq settled'
  BY <1>1 DEF Sending, Late, Returning
<1>5. CASE tagLatestMultiAck' = tagLatestMultiAck
  <2>1. \A e \in handed : e.tag <= tagLatestMultiAck => Id(e) \in settled'
    BY <1>4 DEF Ahead, SettledInv
  <2>2. Numbering => \A n \in 1 .. MaxDeliveries :
            n + tagConsumeOffset <= tagLatestMultiAck => <<leg, n>> \in settled'
    BY <1>4 DEF Ahead, SettledInv
  <2>3. SettledInv'
    BY <1>1, <1>2, <1>5, <2>1, <2>2 DEF SettledInv, Id
  <2> QED BY <1>3, <2>3 DEF Ahead
<1>6. CASE Returning(a) /\ Multiple(a)
  <2>1. ackPc[a] = "resolve" /\ reconnectPc = "ready" /\ tagLatestMultiAck' = Tag(a)
        /\ Numbering
    BY <1>6 DEF Returning, CallInv, Numbering
  <2>2. \A n \in 1 .. MaxDeliveries : n + tagConsumeOffset <= Tag(a) => <<leg, n>> \in settled
    BY <1>0, <1>6, <2>1 DEF CallInv
  <2>3. ASSUME NEW e \in handed, e.tag <= Tag(a)
        PROVE  Id(e) \in settled'
    <3>1. CASE e.leg = leg
      <4>1. e.tag = e.number + tagConsumeOffset
        BY <2>1, <3>1 DEF Numbers, BaseInv
      <4> QED BY <1>0, <1>4, <2>2, <2>3, <3>1, <4>1 DEF Id
    <3>2. CASE e.tag <= tagLatestMultiAck
      BY <1>4, <3>2 DEF Ahead, SettledInv
    <3>3. CASE e.leg < leg /\ e.tag > tagLatestMultiAck
      <4>1. e.tag <= tagConsumeOffset
        BY <3>3 DEF Ahead, TopInv
      <4>2. ContainsOrphans(Tag(a), Multiple(a))
        BY <1>0, <1>6, <2>3, <3>3, <4>1 DEF ContainsOrphans
      <4>3. e.tag \in ReportedBy(a)
        BY <1>0, <1>6, <2>3, <3>3, <4>1 DEF ReportedBy, FirstOrphan, LastOrphan
      <4>4. Id(e) \in Reported(a)
        BY <3>3, <4>3 DEF Reported, Ids
      <4> QED BY <1>6, <4>2, <4>4 DEF Returning
    <3> QED BY <1>0, <3>1, <3>2, <3>3
  <2> QED BY <1>1, <1>2, <1>3, <1>4, <2>1, <2>2, <2>3 DEF Ahead, SettledInv, Id
<1> QED BY <1>0, <1>1, <1>3, <1>5, <1>6 DEF Ahead, Sending, Late, Returning

LEMMA AheadNext ==
    ASSUME TypeOK, TagInv, LatestInv, \A a \in Ackers : CallInv(a), Undisturbed => Ahead,
           Numbers, Next, Undisturbed'
    PROVE  Ahead'
<1>1. relayLeg = leg /\ ~cancelled /\ Ahead
  BY StaysUndisturbed
<1>2. CASE ConsumeEvent \/ Get
  BY <1>1, <1>2, HandingFacts, AheadHanding
<1>3. CASE \E a \in Ackers : Acks(a)
  BY <1>1, <1>3, AheadAcks
<1>4. CASE BrokerDelivers
  BY <1>1, <1>4, AheadBrokerDelivers
<1>5. CASE Fetches
  BY <1>1, <1>5, AheadFetches
<1>6. CASE PipeDropped
  BY <1>1, <1>6, AheadPipeDropped
<1>7. CASE Calm
  BY <1>1, <1>7, AheadCalm
<1> QED BY CalmSteps, <1>2, <1>3, <1>4, <1>5, <1>6, <1>7
-----------------------------------------------------------------------------
(***************************************************************************)
(* Where no Get was empty, every tag is given.                             *)
(***************************************************************************)

LEMMA StaysNonEmpty ==
    ASSUME TypeOK, Next, emptyGets' = 0
    PROVE  emptyGets = 0 /\ ~GetFindsNone
<1> USE DEF noteVars
<1>1. ASSUME NEW a \in Ackers, AckCall(a) \/ Acks(a)
      PROVE  emptyGets' = emptyGets
  BY <1>1 DEF AckCall, Acks, AckSends, AckIsLate, AckSucceeds, AckFails
<1>2. ASSUME ConsumeEvent \/ Get \/ BrokerDelivers \/ Fetches
      PROVE  emptyGets' = emptyGets
  BY <1>2 DEF ConsumeEvent, Get, BrokerDelivers, Fetches, FetchFails, FetchSucceeds
<1>3. ASSUME StartReconnect \/ ChannelDies \/ RelayCancelled \/ PipeDropped
      PROVE  emptyGets' = emptyGets
  BY <1>3 DEF StartReconnect, ChannelDies, RelayCancelled, PipeDropped
<1>4. ~GetFindsNone
  <2>1. emptyGets \in Nat
    BY ConstantsAssumption DEF TypeOK
  <2> QED BY <2>1 DEF GetFindsNone
<1> QED BY NextSteps, <1>1, <1>2, <1>3, <1>4 DEF Others

\* When all numbers up to the count have been handed over, all tags have.
LEMMA EndOfLeg ==
    ASSUME TypeOK, TagInv, relayLeg = leg, ~cancelled, Numbers, Exact, ~LegOver,
           NEW c \in Nat, \A n \in 1 .. c - tagConsumeOffset : HasNumber(n),
           NEW t \in 1 .. c
    PROVE  HasTag(t)
<1>0. Numbering /\ tagConsumeOffset \in Nat
      /\ \A e \in handed : e.number \in 1 .. MaxDeliveries
  BY HandedFacts DEF Numbering
<1>1. CASE t <= tagConsumeOffset
  <2>1. HadTag(t)
    BY <1>0, <1>1 DEF Exact, Gapless
  <2> QED BY <2>1 DEF HadTag, HasTag
<1>2. CASE t > tagConsumeOffset
  <2>1. t - tagConsumeOffset \in 1 .. c - tagConsumeOffset
    BY <1>0, <1>2
  <2>2. PICK e \in handed : e.leg = leg /\ e.number = t - tagConsumeOffset
    BY <2>1 DEF HasNumber
  <2>3. e.tag = e.number + tagConsumeOffset
    BY <1>0, <2>2 DEF Numbers, BaseInv
  <2>4. e.tag = t
    BY <1>0, <2>2, <2>3
  <2> QED BY <2>4 DEF HasTag
<1> QED BY <1>0, <1>1, <1>2

LEMMA ExactHanding ==
    ASSUME TypeOK, TagInv, relayLeg = leg, ~cancelled, Numbers, Exact,
           NEW d \in Delivery, Handing(d)
    PROVE  Exact'
<1>0. /\ Len(pipe) \in Nat /\ sent[leg] \in 0 .. MaxDeliveries /\ leg \in Nat
      /\ LegOver <=> leg \notin open /\ Len(pipe) = 0
      /\ \A i \in 1 .. Len(pipe) : pipe[i] \in 1 .. sent[leg]
      /\ tagConsumeCount \in Nat /\ tagConsumeOffset \in 0 .. tagConsumeCount
      /\ \A e \in handed : e.leg \in 1 .. leg
  BY LegFacts, HandedFacts
<1>1. ~LegOver /\ Numbering
  BY <1>0 DEF Handing, Live, Numbering
<1>2. /\ d.leg = leg /\ d.number \in 1 .. MaxDeliveries
      /\ d.tag = d.number + tagConsumeOffset
      /\ handed' = handed \cup {d}
      /\ tagConsumeCount' = tagConsumeCount + 1
      /\ UNCHANGED <<tagConsumeOffset, leg, open, relayLeg>>
  BY DEF Handing
<1>3. sent[leg] = tagConsumeCount - tagConsumeOffset + Len(pipe)
  BY <1>1 DEF Exact, ExactCount
<1>4. /\ \A n : HasNumber(n) => HasNumber(n)'
      /\ HasNumber(d.number)'
      /\ \A t : HasTag(t) => HasTag(t)'
      /\ \A t : HadTag(t) => HadTag(t)'
      /\ HasTag(d.tag)'
  BY <1>2 DEF HasNumber, HasTag, HadTag
<1>5. CASE /\ Len(pipe) >= 1 /\ d.number = pipe[1] /\ sent' = sent
           /\ Len(pipe') = Len(pipe) - 1
           /\ \A i \in 1 .. Len(pipe') : pipe'[i] = pipe[i + 1] /\ i + 1 \in 1 .. Len(pipe)
  <2>1. \A n \in 1 .. sent[leg] :
            HasNumber(n)' \/ \E i \in 1 .. Len(pipe') : pipe'[i] = n
    <3> SUFFICES ASSUME NEW n \in 1 .. sent[leg]
                 PROVE  HasNumber(n)' \/ \E i \in 1 .. Len(pipe') : pipe'[i] = n
      OBVIOUS
    <3>1. CASE HasNumber(n)
      BY <1>4, <3>1
    <3>2. CASE \E i \in 1 .. Len(pipe) : pipe[i] = n
      <4>1. PICK i \in 1 .. Len(pipe) : pipe[i] = n
        BY <3>2
      <4>2. CASE i = 1
        BY <1>4, <1>5, <4>1, <4>2
      <4>3. CASE i # 1
        <5>1. i - 1 \in 1 .. Len(pipe') /\ pipe'[i - 1] = pipe[i]
          BY <1>0, <1>5, <4>3
        <5> QED BY <4>1, <5>1
      <4> QED BY <4>2, <4>3
    <3> QED BY <1>1, <3>1, <3>2 DEF Exact, Gapless
  <2>2. ExactCount'
    <3>1. sent'[leg'] = tagConsumeCount' - tagConsumeOffset' + Len(pipe')
      BY <1>0, <1>2, <1>3, <1>5
    <3>2. ASSUME NEW i \in 1 .. Len(pipe'),
                 pipe'[i] < tagConsumeCount' - tagConsumeOffset' + i
          PROVE  \E e \in handed' : e.leg = leg' /\ e.number > pipe'[i]
      <4>1. pipe'[i] = pipe[i + 1] /\ i + 1 \in 1 .. Len(pipe)
        BY <1>5
      <4>2. pipe[i + 1] < tagConsumeCount - tagConsumeOffset + (i + 1)
        BY <1>0, <1>2, <3>2, <4>1
      <4>3. \E e \in handed : e.leg = leg /\ e.number > pipe[i + 1]
        BY <4>1, <4>2 DEF Exact, ExactCount
      <4> QED BY <1>2, <4>1, <4>3
    <3> QED BY <3>1, <3>2 DEF ExactCount
  <2>3. Gapless'
    <3>1. ASSUME LegOver', NEW t \in 1 .. tagConsumeCount'
          PROVE  HasTag(t)'
      <4>1. Len(pipe') = 0 /\ tagConsumeCount' - tagConsumeOffset = sent[leg]
        <5>1. Len(pipe') = 0
          BY <1>5, <3>1 DEF LegOver
        <5>2. Len(pipe) = 1
          BY <1>0, <1>5, <5>1
        <5> QED BY <1>0, <1>2, <1>3, <5>1, <5>2
      <4>2. CASE t <= tagConsumeOffset
        <5>1. t \in 1 .. tagConsumeOffset
          BY <1>0, <1>2, <4>2
        <5>2. HadTag(t)
          BY <1>1, <5>1 DEF Exact, Gapless
        <5>3. HasTag(t)
          BY <5>2 DEF HadTag, HasTag
        <5> QED BY <1>4, <5>3
      <4>3. CASE t > tagConsumeOffset
        <5>1. PICK n \in 1 .. sent[leg] : n = t - tagConsumeOffset
          BY <1>0, <1>2, <4>1, <4>3
        <5>2. HasNumber(n)'
          <6>1. ~\E i \in 1 .. Len(pipe') : pipe'[i] = n
            BY <4>1
          <6> QED BY <2>1, <6>1
        <5>3. PICK e \in handed' : e.leg = leg /\ e.number = n
          BY <1>2, <5>2 DEF HasNumber
        <5>4. e.tag = e.number + tagConsumeOffset
          BY <1>1, <1>2, <5>3 DEF Numbers, BaseInv
        <5>5. e.tag = t
          BY <1>0, <1>2, <5>1, <5>3, <5>4
        <5> QED BY <5>5 DEF HasTag
      <4> QED BY <1>0, <1>2, <4>2, <4>3
    <3>2. \A t \in 1 .. tagConsumeOffset : HadTag(t)'
      BY <1>1, <1>4 DEF Exact, Gapless
    <3> QED BY <1>2, <1>5, <2>1, <3>1, <3>2 DEF Gapless
  <2> QED BY <2>2, <2>3 DEF Exact
<1>6. CASE /\ Live /\ d.number = sent[leg] + 1 /\ pipe' = pipe
           /\ sent'[leg] = sent[leg] + 1
  <2>1. \A n \in 1 .. sent'[leg'] :
            HasNumber(n)' \/ \E i \in 1 .. Len(pipe') : pipe'[i] = n
    <3>1. \A n \in 1 .. sent'[leg'] : n \in 1 .. sent[leg] \/ n = d.number
      BY <1>0, <1>2, <1>6
    <3> QED BY <1>1, <1>4, <1>6, <3>1 DEF Exact, Gapless
  <2>2. ~LegOver'
    BY <1>2, <1>6 DEF Live, LegOver
  <2>3. \A t \in 1 .. tagConsumeOffset : HadTag(t)'
    BY <1>1, <1>4 DEF Exact, Gapless
  <2>4. Gapless'
    BY <1>2, <2>1, <2>2, <2>3 DEF Gapless
  <2>5. ExactCount'
    <3>1. sent'[leg'] = tagConsumeCount' - tagConsumeOffset' + Len(pipe')
      BY <1>0, <1>2, <1>3, <1>6
    <3>2. \A i \in 1 .. Len(pipe') : d.number > pipe'[i]
      BY <1>0, <1>6
    <3> QED BY <1>2, <3>1, <3>2 DEF ExactCount
  <2> QED BY <2>4, <2>5 DEF Exact
<1> QED BY <1>5, <1>6 DEF Handing

\* Acknowledgements move nothing here, and neither does the redialer when it goes to work;
\* a channel may end.
LEMMA ExactCalm ==
    ASSUME TypeOK, TagInv, relayLeg = leg, ~cancelled, Numbers, Exact,
           Calm, tagConsumeCount' = tagConsumeCount
    PROVE  Exact'
<1>0. /\ Len(pipe) \in Nat /\ sent[leg] \in Nat
      /\ LegOver <=> leg \notin open /\ Len(pipe) = 0
      /\ tagConsumeCount \in Nat /\ tagConsumeOffset \in Nat
  BY LegFacts
<1>1. UNCHANGED <<tagConsumeCount, tagConsumeOffset, leg, relayLeg, cancelled, sent, pipe,
                  handed>>
  BY DEF Calm
<1>2. /\ LegOver => LegOver'
      /\ Numbering' => Numbering
  BY DEF Calm, LegOver, Numbering
<1>3. ExactCount'
  BY <1>1, <1>2 DEF Exact, ExactCount
<1>4. /\ \A n : HasNumber(n) <=> HasNumber(n)'
      /\ \A t : HasTag(t) <=> HasTag(t)'
      /\ \A t : HadTag(t) <=> HadTag(t)'
  BY <1>1 DEF HasNumber, HasTag, HadTag
<1>5. LegOver' => \A t \in 1 .. tagConsumeCount : HasTag(t)
  <2>1. CASE LegOver
    BY <2>1 DEF Exact, Gapless
  <2>2. CASE LegOver' /\ ~LegOver
    <3>1. Len(pipe) = 0 /\ sent[leg] = tagConsumeCount - tagConsumeOffset
      <4>1. Len(pipe) = 0
        BY <1>0, <1>1, <2>2 DEF LegOver
      <4> QED BY <1>0, <2>2, <4>1 DEF Exact, ExactCount
    <3>2. \A n \in 1 .. tagConsumeCount - tagConsumeOffset : HasNumber(n)
      <4>1. \A n \in 1 .. sent[leg] : HasNumber(n) \/ \E i \in 1 .. Len(pipe) : pipe[i] = n
        BY <2>2 DEF Exact, Gapless
      <4> QED BY <3>1, <4>1
    <3> QED BY <1>0, <2>2, <3>2, EndOfLeg
  <2> QED BY <2>1, <2>2
<1>6. Gapless'
  <2>1. ~LegOver' => \A n \in 1 .. sent[leg] :
           HasNumber(n)' \/ \E i \in 1 .. Len(pipe) : pipe[i] = n
    BY <1>2, <1>4 DEF Exact, Gapless
  <2>2. Numbering' => \A t \in 1 .. tagConsumeOffset : HadTag(t)'
    BY <1>2, <1>4 DEF Exact, Gapless
  <2>3. LegOver' => \A t \in 1 .. tagConsumeCount : HasTag(t)'
    BY <1>4, <1>5
  <2> QED BY <1>1, <2>1, <2>2, <2>3 DEF Gapless
<1> QED BY <1>3, <1>6 DEF Exact

LEMMA ExactBrokerDelivers ==
    ASSUME TypeOK, TagInv, relayLeg = leg, ~cancelled, Exact, BrokerDelivers
    PROVE  Exact'
<1>0. /\ Len(pipe) \in Nat /\ sent[leg] \in Nat /\ leg \in 1 .. MaxLegs
      /\ LegOver <=> leg \notin open /\ Len(pipe) = 0
      /\ tagConsumeCount \in Nat /\ tagConsumeOffset \in Nat
  BY LegFacts, HandedFacts
<1>1. /\ leg \in open
      /\ sent' = [sent EXCEPT ![leg] = @ + 1] /\ pipe' = Append(pipe, sent[leg] + 1)
      /\ UNCHANGED <<tagConsumeOffset, tagConsumeCount, leg, open, relayLeg, reconnectPc,
                     handed>>
  BY DEF BrokerDelivers, tagVars, channelVars, relayVars, redialVars
<1>2. ~LegOver /\ Numbering /\ ~LegOver'
  BY <1>0, <1>1 DEF Numbering, LegOver
<1>3. sent'[leg] = sent[leg] + 1
  BY <1>0, <1>1 DEF TypeOK
<1>4. /\ Len(pipe') = Len(pipe) + 1 /\ pipe'[Len(pipe) + 1] = sent[leg] + 1
      /\ \A i \in 1 .. Len(pipe) : pipe'[i] = pipe[i]
  BY <1>1 DEF TypeOK
<1>5. sent[leg] = tagConsumeCount - tagConsumeOffset + Len(pipe)
  BY <1>2 DEF Exact, ExactCount
<1>6. ExactCount'
  <2>1. ASSUME NEW i \in 1 .. Len(pipe'),
               pipe'[i] < tagConsumeCount - tagConsumeOffset + i
        PROVE  \E d \in handed : d.leg = leg /\ d.number > pipe'[i]
    <3>1. CASE i \in 1 .. Len(pipe)
      BY <1>4, <2>1, <3>1 DEF Exact, ExactCount
    <3>2. CASE i = Len(pipe) + 1
      BY <1>0, <1>4, <1>5, <2>1, <3>2
    <3> QED BY <1>0, <1>4, <3>1, <3>2
  <2>2. sent'[leg] = tagConsumeCount - tagConsumeOffset + Len(pipe')
    BY <1>0, <1>3, <1>4, <1>5
  <2> QED BY <1>1, <2>1, <2>2 DEF ExactCount
<1>7. Gapless'
  <2>1. ASSUME NEW n \in 1 .. sent'[leg]
        PROVE  HasNumber(n) \/ \E i \in 1 .. Len(pipe') : pipe'[i] = n
    <3>1. CASE n \in 1 .. sent[leg]
      <4>1. CASE \E i \in 1 .. Len(pipe) : pipe[i] = n
        <5>1. PICK i \in 1 .. Len(pipe) : pipe[i] = n
          BY <4>1
        <5> QED BY <1>0, <1>4, <5>1
      <4> QED BY <1>2, <3>1, <4>1 DEF Exact, Gapless
    <3>2. CASE n = sent[leg] + 1
      BY <1>0, <1>4, <3>2
    <3> QED BY <1>0, <1>3, <3>1, <3>2
  <2>2. \A t \in 1 .. tagConsumeOffset : HadTag(t)
    BY <1>2 DEF Exact, Gapless
  <2> QED BY <1>1, <1>2, <2>1, <2>2 DEF Gapless, HasNumber, HadTag
<1> QED BY <1>6, <1>7 DEF Exact

LEMMA ExactPipeDropped ==
    ASSUME TypeOK, TagInv, relayLeg = leg, ~cancelled, Numbers, Exact, PipeDropped,
           Undisturbed'
    PROVE  Exact'
<1>0. /\ Len(pipe) \in Nat
      /\ \A i \in 1 .. Len(pipe) : pipe[i] \in 1 .. sent[leg]
      /\ LegOver <=> leg \notin open /\ Len(pipe) = 0
      /\ tagConsumeCount \in Nat /\ tagConsumeOffset \in Nat /\ sent[leg] \in Nat
      /\ \A e \in handed : e.number \in Nat
  BY LegFacts, HandedFacts
<1>1. /\ leg \notin open /\ Len(pipe) >= 1 /\ Head(pipe) = pipe[1] /\ pipe' = <<>>
      /\ UNCHANGED <<tagConsumeOffset, tagConsumeCount, leg, open, relayLeg, reconnectPc,
                     sent, handed>>
  BY PipeFacts DEF PipeDropped, tagVars, channelVars, relayVars, redialVars
<1>2. \A e \in handed : e.leg = leg => ~(e.number > pipe[1])
  BY <1>1 DEF PipeDropped, Undisturbed
<1>3. ~LegOver /\ Numbering /\ LegOver' /\ Len(pipe') = 0
  BY <1>0, <1>1 DEF Numbering, LegOver
<1>4. tagConsumeCount - tagConsumeOffset = pipe[1] - 1
  <2>1. ~(pipe[1] < tagConsumeCount - tagConsumeOffset + 1)
    BY <1>0, <1>1, <1>2 DEF Exact, ExactCount
  <2>2. pipe[1] <= tagConsumeCount - tagConsumeOffset + 1
    BY <1>0, <1>1 DEF Numbers, CountInv
  <2> QED BY <1>0, <1>1, <2>1, <2>2
<1>5. \A n \in 1 .. tagConsumeCount - tagConsumeOffset : HasNumber(n)
  <2> SUFFICES ASSUME NEW n \in 1 .. tagConsumeCount - tagConsumeOffset
               PROVE  HasNumber(n)
    OBVIOUS
  <2>1. n \in 1 .. sent[leg] /\ n < pipe[1]
    BY <1>0, <1>1, <1>4
  <2>2. \A i \in 1 .. Len(pipe) : pipe[i] # n
    <3>1. \A i \in 1 .. Len(pipe) : i = 1 \/ pipe[1] < pipe[i]
      BY <1>0, <1>1 DEF Numbers, PipeInv
    <3> QED BY <1>0, <2>1, <3>1
  <2> QED BY <1>3, <2>1, <2>2 DEF Exact, Gapless
<1>6. \A t \in 1 .. tagConsumeCount : HasTag(t)
  BY <1>0, <1>3, <1>5, EndOfLeg
<1>7. ExactCount'
  BY <1>1, <1>3 DEF Exact, ExactCount
<1>8. Gapless'
  <2>1. \A t \in 1 .. tagConsumeOffset : HadTag(t)
    BY <1>3 DEF Exact, Gapless
  <2> QED BY <1>1, <1>3, <1>6, <2>1 DEF Gapless, HadTag, HasTag
<1> QED BY <1>7, <1>8 DEF Exact

\* What the redialer does once the leg is over.
LEMMA FetchesDo ==
    ASSUME TypeOK, TagInv, relayLeg = leg, ~cancelled, Fetches
    PROVE  /\ reconnectPc = "waitLeg" /\ LegOver
           /\ tagConsumeOffset' = tagConsumeCount
           /\ UNCHANGED <<tagConsumeCount, tagLatestMultiAck, sent, handed, pipe, settled,
                          ackPc, call, asked, cancelled>>
           /\ \/ UNCHANGED <<leg, open, relayLeg, reconnectPc>>
              \/ leg' = leg + 1 /\ sent[leg'] = 0 /\ ~LegOver'
<1>1. reconnectPc = "waitLeg" => leg + 1 \in 1 .. MaxLegs /\ sent[leg + 1] = 0
  <2>1. reconnectPc = "waitLeg" => leg < MaxLegs
    BY DEF TagInv
  <2>2. leg \in Nat /\ (reconnectPc = "waitLeg" => leg + 1 \in 1 .. MaxLegs)
    BY <2>1, HandedFacts
  <2> QED BY <2>2 DEF TagInv
<1>2. CASE FetchFails
  BY <1>2 DEF FetchFails, LegWaited, OffsetAtReconnect, channelVars, relayVars, redialVars,
              brokerVars, callVars
<1>3. CASE FetchSucceeds
  BY <1>1, <1>3 DEF FetchSucceeds, LegWaited, LegOver, OffsetAtReconnect, relayVars,
                    brokerVars, callVars
<1> QED BY <1>2, <1>3 DEF Fetches

LEMMA ExactFetches ==
    ASSUME TypeOK, TagInv, relayLeg = leg, ~cancelled, Exact, Fetches
    PROVE  Exact'
<1>0. /\ tagConsumeCount \in Nat /\ leg \in 1 .. MaxLegs /\ Len(pipe) \in Nat
      /\ \A e \in handed : e.leg \in 1 .. leg
      /\ LegOver <=> leg \notin open /\ Len(pipe) = 0
  BY LegFacts, HandedFacts
<1>1. /\ reconnectPc = "waitLeg" /\ LegOver
      /\ tagConsumeOffset' = tagConsumeCount
      /\ UNCHANGED <<tagConsumeCount, sent, handed, pipe, cancelled>>
      /\ \/ UNCHANGED <<leg, open, relayLeg, reconnectPc>>
         \/ leg' = leg + 1 /\ sent[leg'] = 0 /\ ~LegOver'
  BY FetchesDo
<1>2. \A t \in 1 .. tagConsumeCount : HasTag(t)
  BY <1>1 DEF Exact, Gapless
<1>3. CASE UNCHANGED <<leg, open, relayLeg, reconnectPc>>
  <2>1. LegOver' /\ ~Numbering' /\ Len(pipe') = 0
    BY <1>0, <1>1, <1>3 DEF LegOver, Numbering
  <2>2. ExactCount'
    BY <1>1, <2>1 DEF ExactCount
  <2>3. Gapless'
    BY <1>1, <1>2, <2>1 DEF Gapless, HasTag
  <2> QED BY <2>2, <2>3 DEF Exact
<1>4. CASE leg' = leg + 1 /\ sent[leg'] = 0 /\ ~LegOver'
  <2>1. ExactCount'
    BY <1>0, <1>1, <1>4 DEF ExactCount
  <2>2. \A t \in 1 .. tagConsumeCount : HadTag(t)'
    BY <1>0, <1>1, <1>2, <1>4 DEF HadTag, HasTag
  <2>3. Gapless'
    BY <1>1, <1>4, <2>2 DEF Gapless
  <2> QED BY <2>1, <2>3 DEF Exact
<1> QED BY <1>1, <1>3, <1>4

LEMMA ExactNext ==
    ASSUME TypeOK, Inv, Next, Undisturbed', emptyGets' = 0
    PROVE  Exact'
<1>1. /\ TagInv /\ relayLeg = leg /\ ~cancelled /\ Numbers /\ Exact /\ ~GetFindsNone
  BY StaysUndisturbed, StaysNonEmpty DEF Inv
<1>2. CASE ConsumeEvent \/ Get
  BY <1>1, <1>2, HandingFacts, ExactHanding
<1>3. CASE BrokerDelivers
  BY <1>1, <1>3, ExactBrokerDelivers
<1>4. CASE Fetches
  BY <1>1, <1>4, ExactFetches
<1>5. CASE PipeDropped
  BY <1>1, <1>5, ExactPipeDropped
<1>6. ASSUME \/ StartReconnect \/ ChannelDies
             \/ \E a \in Ackers : AckCall(a) \/ Acks(a)
      PROVE  Exact'
  <2> USE DEF tagVars, channelVars, relayVars, redialVars, brokerVars, callVars
  <2>1. CASE StartReconnect \/ ChannelDies
    <3>1. Calm /\ tagConsumeCount' = tagConsumeCount
      BY <2>1 DEF StartReconnect, ChannelDies, Calm
    <3> QED BY <1>1, <3>1, ExactCalm
  <2>2. ASSUME NEW a \in Ackers, AckCall(a) \/ Acks(a)
        PROVE  Exact'
    <3>1. UNCHANGED <<tagConsumeCount, tagConsumeOffset, leg, open, relayLeg, cancelled,
                      reconnectPc, sent, pipe, handed>>
      BY <2>2, AckCallDoes, AcksDo, <1>1
    <3>2. (Numbering' <=> Numbering) /\ (LegOver' <=> LegOver)
      BY <3>1 DEF Numbering, LegOver
    <3> QED BY <1>1, <3>1, <3>2 DEF Exact, ExactCount, Gapless, HasNumber, HasTag, HadTag
  <2> QED BY <1>6, <2>1, <2>2
<1>7. ~RelayCancelled
  BY DEF RelayCancelled, Undisturbed
<1> QED BY NextSteps, <1>1, <1>2, <1>3, <1>4, <1>5, <1>6, <1>7 DEF Others
-----------------------------------------------------------------------------
(***************************************************************************)
(* Callers that acknowledge in order.                                      *)
(***************************************************************************)

LEMMA StaysOrderly ==
    ASSUME TypeOK, TagInv, Next, orderly'
    PROVE  orderly
<1> USE DEF noteVars
<1>1. ASSUME NEW a \in Ackers, AckCall(a)
      PROVE  orderly
  BY <1>1, AckCallDoes
<1>2. ASSUME NEW a \in Ackers, Acks(a)
      PROVE  orderly' = orderly
  BY <1>2, AcksDo
<1>3. ASSUME ConsumeEvent \/ Get \/ BrokerDelivers
      PROVE  orderly' = orderly
  BY <1>3 DEF ConsumeEvent, Get, BrokerDelivers
<1>4. ASSUME Fetches
      PROVE  orderly' = orderly
  BY <1>4 DEF Fetches, FetchFails, FetchSucceeds
<1>5. ASSUME Others
      PROVE  orderly' = orderly
  BY <1>5 DEF Others, GetFindsNone, StartReconnect, ChannelDies, RelayCancelled, PipeDropped
<1> QED BY NextSteps, <1>1, <1>2, <1>3, <1>4, <1>5

\* Before the leg is over, too, what is settled was acknowledged.
Acknowledged(e) ==
    \/ e.tag <= tagLatestMultiAck
    \/ \E a \in Ackers : Resolving(a, e.tag)

LEMMA SettledAreAcknowledged ==
    ASSUME TypeOK, TagInv, relayLeg = leg, ~cancelled, Numbers, Ordered, ~LegOver,
           NEW e \in handed, Id(e) \in settled
    PROVE  Acknowledged(e)
<1>0. Numbering /\ e.leg \in 1 .. leg /\ e.number \in 1 .. MaxDeliveries /\ leg \in Nat
  BY HandedFacts DEF Numbering
<1>1. CASE e.leg < leg
  BY <1>1 DEF Ordered, SettledOnly, Acknowledged
<1>2. CASE e.leg = leg
  <2>1. e.tag = e.number + tagConsumeOffset /\ <<leg, e.number>> \in settled
    BY <1>0, <1>2 DEF Numbers, BaseInv, Id
  <2> QED BY <1>0, <2>1 DEF Ordered, SettledOnly, Acknowledged
<1> QED BY <1>0, <1>1, <1>2

LEMMA OrderedHanding ==
    ASSUME TypeOK, TagInv, relayLeg = leg, ~cancelled, Numbers, Ordered,
           NEW d \in Delivery, Handing(d)
    PROVE  Ordered'
<1>0. /\ Len(pipe) \in Nat /\ leg \in Nat
      /\ LegOver <=> leg \notin open /\ Len(pipe) = 0
      /\ \A e \in handed : e.leg \in 1 .. leg
  BY LegFacts, HandedFacts
<1>1. ~LegOver /\ Numbering
  BY <1>0 DEF Handing, Live, Numbering
<1>2. /\ d.leg = leg /\ d.number \in 1 .. MaxDeliveries
      /\ d.tag = d.number + tagConsumeOffset
      /\ handed' = handed \cup {d}
      /\ UNCHANGED <<tagConsumeOffset, tagLatestMultiAck, leg, settled, ackPc, call, asked>>
  BY DEF Handing
<1>3. OneCall'
  BY <1>2 DEF Ordered, OneCall, Calling, Tag, Multiple
<1>4. \A e \in handed' : Acknowledged(e) <=> Acknowledged(e)'
  BY <1>2 DEF Acknowledged, Resolving, Tag
<1>5. \A e \in handed' : e.leg < leg /\ Id(e) \in settled => e.tag <= tagLatestMultiAck
  BY <1>0, <1>2 DEF Ordered, SettledOnly
<1>6. \A n \in 1 .. MaxDeliveries : <<leg, n>> \in settled =>
          \/ n + tagConsumeOffset <= tagLatestMultiAck
          \/ \E a \in Ackers : Resolving(a, n + tagConsumeOffset)
  BY <1>1 DEF Ordered, SettledOnly
<1>7. \A e \in handed' : Id(e) \in settled => Acknowledged(e)
  <2>1. Id(d) \in settled => Acknowledged(d)
    BY <1>2, <1>6 DEF Id, Acknowledged
  <2> QED BY <1>1, <1>2, <2>1, SettledAreAcknowledged
<1>8. \A t : (\E a \in Ackers : Resolving(a, t)) <=> (\E a \in Ackers : Resolving(a, t)')
  BY <1>2 DEF Resolving, Tag
<1>9. SettledOnly'
  BY <1>2, <1>5, <1>6, <1>7, <1>8 DEF SettledOnly, Id, Acknowledged
<1> QED BY <1>3, <1>9 DEF Ordered

LEMMA OrderedCalm ==
    ASSUME TypeOK, TagInv, relayLeg = leg, ~cancelled, Numbers, Ordered, Calm,
           UNCHANGED <<ackPc, call, asked>>
    PROVE  Ordered'
<1>1. UNCHANGED <<tagConsumeOffset, tagLatestMultiAck, leg, handed, settled>>
  BY DEF Calm
<1>2. Numbering' => Numbering
  BY DEF Calm, LegOver, Numbering
<1>3. OneCall'
  BY <1>1 DEF Ordered, OneCall, Calling, Tag, Multiple
<1>4. \A a \in Ackers : \A t : Resolving(a, t) <=> Resolving(a, t)'
  BY DEF Resolving, Tag
<1>5. LegOver' => \A e \in handed : Id(e) \in settled => Acknowledged(e)
  <2>1. CASE LegOver
    BY <2>1 DEF Ordered, SettledOnly, Acknowledged
  <2>2. CASE ~LegOver
    BY <2>2, SettledAreAcknowledged
  <2> QED BY <2>1, <2>2
<1>6. SettledOnly'
  <2>1. \A e \in handed : e.leg < leg /\ Id(e) \in settled => e.tag <= tagLatestMultiAck
    BY DEF Ordered, SettledOnly
  <2>2. Numbering' => \A n \in 1 .. MaxDeliveries : <<leg, n>> \in settled =>
           \/ n + tagConsumeOffset <= tagLatestMultiAck
           \/ \E a \in Ackers : Resolving(a, n + tagConsumeOffset)
    BY <1>2 DEF Ordered, SettledOnly
  <2> HIDE DEF Numbering
  <2> QED BY <1>1, <1>4, <1>5, <2>1, <2>2 DEF SettledOnly, Id, Acknowledged
<1> QED BY <1>3, <1>6 DEF Ordered

LEMMA OrderedAckCall ==
    ASSUME TypeOK, TagInv, LatestInv, Ordered, NEW a \in Ackers, AckCall(a), orderly'
    PROVE  Ordered'
<1>0. /\ tagLatestMultiAck \in Nat
      /\ \A e \in handed : e.tag \in Nat /\ e.tag >= 1
      /\ asked \subseteq handed
      /\ ackPc \in [Ackers -> {"idle", "called", "resolve"}] /\ DOMAIN call = Ackers
  BY HandedFacts, CallFacts DEF TypeOK
<1>1. PICK d \in handed, multiple \in BOOLEAN :
          /\ call' = [call EXCEPT ![a] = [tag |-> d.tag, multiple |-> multiple,
                                          covers |-> Covered(d, multiple)]]
          /\ multiple => Covered(d, multiple) = {e \in handed : e.tag <= d.tag}
          /\ asked' = asked \cup Covered(d, multiple)
          /\ ackPc[a] = "idle" /\ ackPc' = [ackPc EXCEPT ![a] = "called"]
          /\ orderly' => /\ orderly /\ multiple
                         /\ \A e \in asked : e.tag < d.tag
                         /\ \A b \in Ackers : ackPc[b] = "idle"
          /\ UNCHANGED <<tagVars, tagLatestMultiAck, channelVars, relayVars, redialVars,
                         brokerVars, handed, settled, overtaken>>
  BY AckCallDoes
<1> DEFINE C == Covered(d, multiple)
<1>2. multiple /\ C = {e \in handed : e.tag <= d.tag} /\ asked' = asked \cup C
  BY <1>1
<1> HIDE DEF C
<1>3. call'[a].tag = d.tag /\ call'[a].multiple = TRUE /\ ackPc'[a] = "called"
      /\ \A b \in Ackers : b # a => ackPc'[b] = "idle"
  BY <1>0, <1>1, <1>2
<1>4. UNCHANGED <<tagConsumeCount, tagConsumeOffset, tagLatestMultiAck, leg, open, relayLeg,
                  cancelled, reconnectPc, sent, pipe, handed, settled>>
  BY <1>1 DEF tagVars, channelVars, relayVars, redialVars, brokerVars
<1>5. OneCall'
  <2>1. d.tag > tagLatestMultiAck
    <3>1. CASE tagLatestMultiAck = 0
      BY <1>0, <3>1
    <3>2. CASE \E e \in asked : e.tag = tagLatestMultiAck
      BY <1>0, <1>1, <3>2
    <3> QED BY <3>1, <3>2 DEF LatestInv
  <2>2. \A e \in asked' : e.tag <= d.tag
    <3>1. \A e \in asked : e.tag < d.tag /\ e.tag \in Nat
      BY <1>0, <1>1
    <3>2. d.tag \in Nat
      BY <1>0
    <3> QED BY <1>2, <3>1, <3>2
  <2>3. \A e \in asked' : Calling(a, e.tag)'
    BY <1>3, <2>2 DEF Calling, Tag
  <2>4. /\ \A b, c \in Ackers : ackPc'[b] # "idle" /\ ackPc'[c] # "idle" => b = c
        /\ \A b \in Ackers : ackPc'[b] # "idle" => Multiple(b)' /\ Tag(b)' > tagLatestMultiAck'
    BY <1>3, <1>4, <2>1 DEF Multiple, Tag
  <2> QED BY <2>3, <2>4 DEF OneCall
<1>6. SettledOnly'
  <2>1. \A b \in Ackers : ackPc[b] # "resolve" /\ ackPc'[b] # "resolve"
    BY <1>1, <1>3
  <2>2. \A b \in Ackers : \A t : ~Resolving(b, t) /\ ~Resolving(b, t)'
    BY <2>1 DEF Resolving
  <2>3. \A e \in handed : e.leg < leg /\ Id(e) \in settled => e.tag <= tagLatestMultiAck
    BY DEF Ordered, SettledOnly
  <2>4. Numbering => \A n \in 1 .. MaxDeliveries : <<leg, n>> \in settled =>
           n + tagConsumeOffset <= tagLatestMultiAck
    BY <2>2 DEF Ordered, SettledOnly
  <2>5. LegOver => \A e \in handed : Id(e) \in settled => e.tag <= tagLatestMultiAck
    BY <2>2 DEF Ordered, SettledOnly
  <2>6. (Numbering' <=> Numbering) /\ (LegOver' <=> LegOver)
    BY <1>4 DEF Numbering, LegOver
  <2> QED BY <1>4, <2>3, <2>4, <2>5, <2>6 DEF SettledOnly, Id
<1> QED BY <1>5, <1>6 DEF Ordered

LEMMA OrderedBrokerDelivers ==
    ASSUME TypeOK, TagInv, relayLeg = leg, ~cancelled, Ordered, BrokerDelivers
    PROVE  Ordered'
<1>1. /\ leg \in open
      /\ UNCHANGED <<tagConsumeOffset, tagLatestMultiAck, leg, open, relayLeg, cancelled,
                     reconnectPc, handed, settled, ackPc, call, asked>>
  BY DEF BrokerDelivers, tagVars, channelVars, relayVars, redialVars, callVars
<1>2. ~LegOver /\ Numbering /\ ~LegOver'
  BY <1>1 DEF Numbering, LegOver
<1>3. OneCall'
  BY <1>1 DEF Ordered, OneCall, Calling, Tag, Multiple
<1>4. SettledOnly'
  BY <1>1, <1>2 DEF Ordered, SettledOnly, Resolving, Tag, Id
<1> QED BY <1>3, <1>4 DEF Ordered

LEMMA OrderedPipeDropped ==
    ASSUME TypeOK, TagInv, relayLeg = leg, ~cancelled, Numbers, Ordered, PipeDropped
    PROVE  Ordered'
<1>1. /\ leg \notin open /\ pipe # <<>> /\ pipe' = <<>>
      /\ UNCHANGED <<tagConsumeOffset, tagLatestMultiAck, leg, open, relayLeg, cancelled,
                     reconnectPc, handed, settled, ackPc, call, asked>>
  BY DEF PipeDropped, tagVars, channelVars, relayVars, redialVars, callVars
<1>2. ~LegOver /\ Numbering
  BY <1>1 DEF Numbering, LegOver
<1>3. OneCall'
  BY <1>1 DEF Ordered, OneCall, Calling, Tag, Multiple
<1>4. \A e \in handed : Id(e) \in settled => Acknowledged(e)
  BY <1>2, SettledAreAcknowledged
<1>5. SettledOnly'
  <2>1. /\ \A e \in handed : e.leg < leg /\ Id(e) \in settled => e.tag <= tagLatestMultiAck
        /\ \A n \in 1 .. MaxDeliveries : <<leg, n>> \in settled =>
             \/ n + tagConsumeOffset <= tagLatestMultiAck
             \/ \E a \in Ackers : Resolving(a, n + tagConsumeOffset)
    BY <1>2 DEF Ordered, SettledOnly
  <2> QED BY <1>1, <1>4, <2>1 DEF SettledOnly, Id, Resolving, Tag, Acknowledged
<1> QED BY <1>3, <1>5 DEF Ordered

LEMMA OrderedFetches ==
    ASSUME TypeOK, TagInv, \A a \in Ackers : CallInv(a), relayLeg = leg, ~cancelled, Ordered,
           Fetches
    PROVE  Ordered'
<1>0. /\ leg \in 1 .. MaxLegs
      /\ \A e \in handed : e.leg \in 1 .. leg
      /\ settled \subseteq (1 .. leg) \X (1 .. MaxDeliveries)
  BY HandedFacts, CallFacts
<1>1. /\ reconnectPc = "waitLeg" /\ LegOver
      /\ UNCHANGED <<tagLatestMultiAck, handed, pipe, settled, ackPc, call, asked, cancelled>>
      /\ \/ UNCHANGED <<leg, open, relayLeg, reconnectPc>>
         \/ leg' = leg + 1 /\ ~LegOver'
  BY FetchesDo
<1>2. \A b \in Ackers : \A t : ~Resolving(b, t)
  BY <1>1 DEF CallInv, Resolving
<1>3. \A e \in handed : Id(e) \in settled => e.tag <= tagLatestMultiAck
  BY <1>1, <1>2 DEF Ordered, SettledOnly
<1>4. OneCall'
  BY <1>1 DEF Ordered, OneCall, Calling, Tag, Multiple
<1>5. CASE UNCHANGED <<leg, open, relayLeg, reconnectPc>>
  <2>1. ~Numbering'
    BY <1>1, <1>5 DEF LegOver, Numbering
  <2>2. SettledOnly'
    BY <1>1, <1>3, <2>1 DEF SettledOnly, Id
  <2> QED BY <1>4, <2>2 DEF Ordered
<1>6. CASE leg' = leg + 1 /\ ~LegOver'
  <2>1. \A n \in 1 .. MaxDeliveries : <<leg', n>> \notin settled
    BY <1>0, <1>6
  <2>2. SettledOnly'
    BY <1>1, <1>3, <1>6, <2>1 DEF SettledOnly, Id
  <2> QED BY <1>4, <2>2 DEF Ordered
<1> QED BY <1>1, <1>5, <1>6

LEMMA OrderedAcks ==
    ASSUME TypeOK, TagInv, relayLeg = leg, ~cancelled, Numbers, Ordered,
           NEW a \in Ackers, CallInv(a), Acks(a)
    PROVE  Ordered'
<1>0. /\ tagConsumeOffset \in Nat /\ tagLatestMultiAck \in Nat /\ leg \in Nat
      /\ \A e \in handed : /\ e.tag \in Nat /\ e.leg \in 1 .. leg
                           /\ e.number \in 1 .. MaxDeliveries
      /\ Tag(a) \in Nat /\ asked \subseteq handed
      /\ ackPc \in [Ackers -> {"idle", "called", "resolve"}] /\ DOMAIN call = Ackers
      /\ LegOver <=> leg \notin open /\ Len(pipe) = 0
  BY LegFacts, HandedFacts, CallFacts DEF Tag
<1>1. /\ UNCHANGED <<tagConsumeOffset, leg, open, relayLeg, cancelled, reconnectPc, pipe,
                     handed, asked>>
      /\ Sending(a) \/ Late(a) \/ Returning(a)
  BY AcksDo DEF tagVars, channelVars, relayVars
<1>2. (Numbering' <=> Numbering) /\ (LegOver' <=> LegOver)
  BY <1>1 DEF Numbering, LegOver
<1>3. ackPc[a] # "idle" /\ Multiple(a) /\ Tag(a) > tagLatestMultiAck
      /\ \A b \in Ackers : b # a => ackPc[b] = "idle"
  BY <1>1 DEF Ordered, OneCall, Sending, Late, Returning
<1>4. /\ \A e \in handed : e.leg < leg /\ Id(e) \in settled => e.tag <= tagLatestMultiAck
      /\ Numbering => \A n \in 1 .. MaxDeliveries : <<leg, n>> \in settled =>
             n + tagConsumeOffset <= tagLatestMultiAck \/ Resolving(a, n + tagConsumeOffset)
      /\ LegOver => \A e \in handed : Id(e) \in settled =>
             e.tag <= tagLatestMultiAck \/ Resolving(a, e.tag)
  <2>1. \A b \in Ackers : \A t : Resolving(b, t) => Resolving(a, t)
    BY <1>3 DEF Resolving
  <2> QED BY <2>1 DEF Ordered, SettledOnly
<1>5. CASE Sending(a) \/ Late(a)
  <2>1. /\ UNCHANGED <<call, tagLatestMultiAck>>
        /\ ackPc[a] = "called" /\ ackPc' = [ackPc EXCEPT ![a] = "resolve"]
    BY <1>5 DEF Sending, Late
  <2>2. OneCall'
    BY <1>0, <1>1, <2>1 DEF Ordered, OneCall, Calling, Tag, Multiple
  <2>3. \A t : ~Resolving(a, t)
    BY <2>1 DEF Resolving
  <2>4. \A t \in Nat : t <= Tag(a) => Resolving(a, t)'
    BY <1>0, <2>1 DEF Resolving, Tag
  <2>5. CASE Late(a)
    <3>1. settled' = settled
      BY <2>5 DEF Late
    <3>2. SettledOnly'
      BY <1>1, <1>2, <1>4, <2>1, <2>3, <3>1 DEF SettledOnly, Id
    <3> QED BY <2>2, <3>2 DEF Ordered
  <2>6. CASE Sending(a)
    <3>1. PICK S \in SUBSET (1 .. MaxDeliveries) :
            NumbersUpTo(a, S) /\ settled' = settled \cup {<<leg, n>> : n \in S}
      BY <2>6 DEF Sending
    <3>2. ~LegOver /\ Numbering
      BY <1>0, <2>6 DEF Sending, Live, Numbering
    <3>3. \A e \in handed : e.leg < leg /\ Id(e) \in settled' => Id(e) \in settled
      BY <1>0, <3>1 DEF Id
    <3>4. \A n \in 1 .. MaxDeliveries : <<leg, n>> \in settled' =>
             <<leg, n>> \in settled \/ n + tagConsumeOffset <= Tag(a)
      BY <1>0, <3>1 DEF NumbersUpTo
    <3>5. \A n \in 1 .. MaxDeliveries : <<leg, n>> \in settled' =>
             \/ n + tagConsumeOffset <= tagLatestMultiAck
             \/ n + tagConsumeOffset <= Tag(a)
      BY <1>4, <2>3, <3>2, <3>4
    <3>6. ASSUME NEW n \in 1 .. MaxDeliveries, <<leg, n>> \in settled'
          PROVE  \/ n + tagConsumeOffset <= tagLatestMultiAck
                 \/ \E b \in Ackers : ackPc'[b] = "resolve" /\ n + tagConsumeOffset <= Tag(b)'
      BY <1>0, <2>1, <3>5, <3>6 DEF Tag
    <3>7. SettledOnly'
      BY <1>1, <1>2, <1>4, <2>1, <3>2, <3>3, <3>6 DEF SettledOnly, Id, Resolving
    <3> QED BY <2>2, <3>7 DEF Ordered
  <2> QED BY <1>5, <2>5, <2>6
<1>6. CASE Returning(a)
  <2>1. /\ ackPc[a] = "resolve" /\ ackPc' = [ackPc EXCEPT ![a] = "idle"]
        /\ tagLatestMultiAck' = Tag(a)
        /\ settled' = settled \/ settled' = settled \cup Reported(a)
    BY <1>3, <1>6 DEF Returning
  <2>2. \A b \in Ackers : ackPc'[b] = "idle"
    BY <1>0, <1>3, <2>1
  <2>3. OneCall'
    <3>1. \A e \in asked : e.tag <= Tag(a)
      <4>1. \A e \in asked : e.tag <= tagLatestMultiAck \/ e.tag <= Tag(a)
        <5>1. \A b \in Ackers : \A t : Calling(b, t) => t <= Tag(a)
          BY <1>3 DEF Calling
        <5> QED BY <5>1 DEF Ordered, OneCall
      <4> QED BY <1>0, <1>3, <4>1
    <3> QED BY <1>1, <2>1, <2>2, <3>1 DEF OneCall
  <2>4. \A t \in Nat : t <= tagLatestMultiAck \/ Resolving(a, t) => t <= Tag(a)
    BY <1>0, <1>3 DEF Resolving
  <2>5. \A e \in handed : Id(e) \in Reported(a) => e.leg < leg /\ e.tag <= Tag(a)
    <3> SUFFICES ASSUME NEW e \in handed, Id(e) \in Reported(a)
                 PROVE  e.leg < leg /\ e.tag <= Tag(a)
      OBVIOUS
    <3>1. PICK f \in handed : f.leg < leg /\ f.tag \in ReportedBy(a) /\ Id(f) = Id(e)
      BY DEF Reported, Ids
    <3>2. f = e
      BY <3>1 DEF Numbers, Once
    <3>3. LastOrphan(Tag(a), Multiple(a)) <= Tag(a) /\ LastOrphan(Tag(a), Multiple(a)) \in Nat
      BY <1>0 DEF LastOrphan
    <3>4. FirstOrphan(Tag(a), Multiple(a)) \in Nat
      BY <1>0 DEF FirstOrphan
    <3> QED BY <1>0, <3>1, <3>2, <3>3, <3>4 DEF ReportedBy
  <2>6. \A n : <<leg, n>> \in Reported(a) => FALSE
    BY <1>0 DEF Reported, Ids, Id
  <2>7. \A e \in handed : e.leg < leg /\ Id(e) \in settled' => e.tag <= Tag(a)
    BY <1>0, <1>4, <2>1, <2>4, <2>5
  <2>8. Numbering => \A n \in 1 .. MaxDeliveries : <<leg, n>> \in settled' =>
             n + tagConsumeOffset <= Tag(a)
    BY <1>0, <1>4, <2>1, <2>4, <2>6
  <2>9. LegOver => \A e \in handed : Id(e) \in settled' => e.tag <= Tag(a)
    BY <1>0, <1>4, <2>1, <2>4, <2>5
  <2>10. SettledOnly'
    BY <1>1, <1>2, <2>1, <2>7, <2>8, <2>9 DEF SettledOnly, Id
  <2> QED BY <2>3, <2>10 DEF Ordered
<1> QED BY <1>1, <1>5, <1>6

LEMMA OrderedNext ==
    ASSUME TypeOK, Inv, Next, Undisturbed', orderly'
    PROVE  Ordered'
<1>1. /\ TagInv /\ LatestInv /\ relayLeg = leg /\ ~cancelled /\ Numbers /\ Ordered
      /\ \A a \in Ackers : CallInv(a)
  BY StaysUndisturbed, StaysOrderly DEF Inv
<1>2. CASE ConsumeEvent \/ Get
  BY <1>1, <1>2, HandingFacts, OrderedHanding
<1>3. ASSUME NEW a \in Ackers, AckCall(a)
      PROVE  Ordered'
  BY <1>1, <1>3, OrderedAckCall
<1>4. ASSUME NEW a \in Ackers, Acks(a)
      PROVE  Ordered'
  BY <1>1, <1>4, OrderedAcks
<1>5. CASE BrokerDelivers
  BY <1>1, <1>5, OrderedBrokerDelivers
<1>6. CASE Fetches
  BY <1>1, <1>6, OrderedFetches
<1>7. CASE PipeDropped
  BY <1>1, <1>7, OrderedPipeDropped
<1>8. CASE GetFindsNone \/ StartReconnect \/ ChannelDies
  <2>1. Calm /\ UNCHANGED <<ackPc, call, asked>>
    BY <1>8 DEF GetFindsNone, StartReconnect, ChannelDies, CountAfterGet, Calm, tagVars,
                channelVars, relayVars, redialVars, brokerVars, callVars
  <2> QED BY <1>1, <2>1, OrderedCalm
<1>9. ~RelayCancelled
  BY DEF RelayCancelled, Undisturbed
<1> QED
  BY NextSteps, <1>1, <1>2, <1>3, <1>4, <1>5, <1>6, <1>7, <1>8, <1>9 DEF Others
-----------------------------------------------------------------------------
(***************************************************************************)
(* Results.                                                                *)
(***************************************************************************)

LEMMA InvNext == TypeOK /\ Inv /\ [Next]_vars => TypeOK' /\ Inv'
<1> SUFFICES ASSUME TypeOK, Inv, [Next]_vars
             PROVE  TypeOK' /\ Inv'
  OBVIOUS
<1>1. CASE Next
  <2>1. TypeOK' /\ TagInv' /\ LatestInv'
    BY <1>1, TypeNext, LatestNext DEF Inv
  <2>2. \A a \in Ackers : CallInv(a)'
    BY <1>1, CallNext DEF Inv
  <2>3. Numbers'
    BY <1>1, NumbersNext DEF Inv
  <2>4. (Undisturbed => Ahead)'
    BY <1>1, AheadNext DEF Inv
  <2>5. (Undisturbed /\ emptyGets = 0 => Exact)'
    BY <1>1, ExactNext
  <2>6. (Undisturbed /\ orderly => Ordered)'
    BY <1>1, OrderedNext
  <2> QED BY <2>1, <2>2, <2>3, <2>4, <2>5, <2>6 DEF Inv
<1>2. CASE UNCHANGED vars
  <2> USE <1>2 DEF vars, tagVars, channelVars, relayVars, redialVars, brokerVars, callVars,
                   noteVars
  <2>1. TypeOK'
    BY DEF TypeOK
  <2>2. TagInv' /\ LatestInv' /\ \A a \in Ackers : CallInv(a)'
    BY DEF Inv, TagInv, LatestInv, CallInv, Tag, Multiple
  <2>3. (Numbering' <=> Numbering) /\ (LegOver' <=> LegOver) /\ (Undisturbed' <=> Undisturbed)
    BY DEF Numbering, LegOver, Undisturbed
  <2>4. Numbers'
    <3>1. \A d \in handed : Steady(d)' <=> Steady(d)
      BY DEF Steady
    <3>2. Once' /\ PipeInv' /\ BaseInv' /\ CountInv'
      BY <2>3 DEF Inv, Numbers, Once, PipeInv, BaseInv, CountInv, Id
    <3>3. OrderInv' /\ SteadyInv'
      BY <3>1 DEF Inv, Numbers, OrderInv, SteadyInv
    <3> QED BY <3>2, <3>3 DEF Numbers
  <2>5. (Undisturbed => Ahead)'
    BY <2>3 DEF Inv, Ahead, TopInv, SettledInv, Id
  <2>6. (Undisturbed /\ emptyGets = 0 => Exact)'
    BY <2>3 DEF Inv, Exact, ExactCount, Gapless, HasNumber, HasTag, HadTag
  <2>7. (Undisturbed /\ orderly => Ordered)'
    BY <2>3 DEF Inv, Ordered, OneCall, SettledOnly, Calling, Resolving, Tag, Multiple, Id
  <2> QED BY <2>1, <2>2, <2>4, <2>5, <2>6, <2>7 DEF Inv
<1> QED BY <1>1, <1>2

LEMMA InvCorrect == Spec => [](TypeOK /\ Inv)
BY TypeInit, InvNext, PTL DEF Spec

\* Every variable keeps its type, the offset never runs ahead of the count, and what is
\* settled or taken as acknowledged is a delivery of a leg that was opened.
THEOREM DeliveryTagsTypeCorrect == Spec => []TypeOK
BY InvCorrect, PTL

\* No delivery gets the tag of a steady one before it, or a lower one, on its streadway
\* channel or on a later one, in any history: relays not waited for, deliveries lost, empty
\* Gets and reconnections on a live channel included (ChannelReconnect, ConsumeEvent, Get).
\* Not steady is what a relay passed that was not waited for, and what overtook it or a
\* delivery never passed.
THEOREM TagsContinue == Spec => []TagsNotDoubled
<1>1. Inv => TagsNotDoubled
  <2>1. \A d \in handed : Steady(d) => ~d.late
    BY DEF Steady
  <2> QED BY <2>1 DEF Inv, Numbers, OrderInv, TagsNotDoubled
<1> QED BY <1>1, InvCorrect, PTL

\* The step in which an acknowledgement returns.
LEMMA ReturnStep ==
    ASSUME TypeOK, Inv, Undisturbed, [Next]_vars, NEW a \in Ackers,
           ackPc[a] = "resolve", ackPc'[a] = "idle"
    PROVE  /\ reconnectPc = "ready" /\ Numbering
           /\ Ahead /\ Numbers
           /\ tagConsumeOffset \in Nat /\ Tag(a) \in Nat /\ tagLatestMultiAck \in Nat
           /\ \A e \in handed : /\ e.leg \in 1 .. leg /\ e.tag \in Nat
                                /\ e.number \in 1 .. MaxDeliveries
           /\ leg \in Nat
<1>1. /\ tagConsumeOffset \in Nat /\ tagLatestMultiAck \in Nat /\ leg \in Nat
  BY ConstantsAssumption DEF TypeOK
<1>2. Tag(a) \in Nat
  BY CallFacts DEF Tag
<1>3. TagInv /\ CallInv(a) /\ Ahead /\ Numbers
  BY DEF Inv
<1>4. \A e \in handed : /\ e.leg \in 1 .. leg /\ e.tag \in Nat
                         /\ e.number \in 1 .. MaxDeliveries
  BY <1>3, HandedFacts
<1>5. reconnectPc = "ready" /\ Numbering
  BY <1>3 DEF CallInv, Numbering, Undisturbed
<1> QED BY <1>1, <1>2, <1>3, <1>4, <1>5

\* An acknowledgement that returns without an error covers no orphan the caller was not
\* told of, however several goroutines acknowledge (runAckMethod, containsOrphans).
THEOREM OrphansAreReported == Spec => OrphansReported
<1>1. TypeOK /\ Inv /\ [Next]_vars
        => [\A a \in Ackers :
              ackPc[a] = "resolve" /\ ackPc'[a] = "idle" /\ Undisturbed
                /\ ~ContainsOrphans(Tag(a), Multiple(a))
              => Ids(call[a].covers) \subseteq settled]_vars
  <2> SUFFICES ASSUME TypeOK, Inv, [Next]_vars, NEW a \in Ackers, Undisturbed,
                      ackPc[a] = "resolve", ackPc'[a] = "idle",
                      ~ContainsOrphans(Tag(a), Multiple(a)), NEW e \in call[a].covers
               PROVE  Id(e) \in settled
    BY DEF Ids
  <2>1. /\ Numbering /\ Ahead /\ Numbers /\ tagConsumeOffset \in Nat /\ Tag(a) \in Nat
        /\ tagLatestMultiAck \in Nat /\ leg \in Nat
        /\ \A d \in handed : /\ d.leg \in 1 .. leg /\ d.tag \in Nat
                             /\ d.number \in 1 .. MaxDeliveries
    BY ReturnStep
  <2>2. e \in handed
    BY CallFacts
  <2>3. /\ e.tag = Tag(a) \/ (Multiple(a) /\ e.tag < Tag(a))
        /\ \A n \in 1 .. MaxDeliveries :
              \/ n + tagConsumeOffset = Tag(a)
              \/ Multiple(a) /\ n + tagConsumeOffset < Tag(a)
              => <<leg, n>> \in settled
    BY DEF Inv, CallInv
  <2>4. CASE e.leg = leg
    <3>1. e.tag = e.number + tagConsumeOffset
      BY <2>1, <2>2, <2>4 DEF Numbers, BaseInv
    <3>2. <<leg, e.number>> \in settled
      BY <2>1, <2>2, <2>3, <3>1
    <3> QED BY <2>4, <3>2 DEF Id
  <2>5. CASE e.leg < leg
    <3>1. e.tag <= tagConsumeOffset
      BY <2>2, <2>5, <2>1 DEF Ahead, TopInv
    <3>2. e.tag <= tagLatestMultiAck
      BY <2>1, <2>2, <2>3, <3>1 DEF ContainsOrphans
    <3> QED BY <2>1, <2>2, <3>2 DEF Ahead, SettledInv
  <2> QED BY <2>1, <2>2, <2>4, <2>5
<1> QED BY <1>1, InvCorrect, PTL DEF Spec, OrphansReported

\* Callers that acknowledge in order are told of no delivery that is not an orphan: each tag
\* of the range belongs to a delivery of an earlier streadway channel that was not
\* acknowledged, or to no delivery, and then to a Get that found nothing (firstOrphan,
\* lastOrphan), as long as Undisturbed.
THEOREM OnlyOrphansAreReported == Spec => OnlyOrphansReported
<1>1. TypeOK /\ Inv /\ [Next]_vars
        => [\A a \in Ackers :
              ackPc[a] = "resolve" /\ ackPc'[a] = "idle" /\ orderly /\ Undisturbed
                /\ ContainsOrphans(Tag(a), Multiple(a))
              => ReportedBy(a) \subseteq OrphanTags \cup SkippedTags]_vars
  <2> SUFFICES ASSUME TypeOK, Inv, [Next]_vars, NEW a \in Ackers, Undisturbed, orderly,
                      ackPc[a] = "resolve", ackPc'[a] = "idle", NEW t \in ReportedBy(a)
               PROVE  t \in OrphanTags \/ t \in SkippedTags
    OBVIOUS
  <2>1. /\ Numbering /\ Ahead /\ Numbers /\ tagConsumeOffset \in Nat /\ Tag(a) \in Nat
        /\ tagLatestMultiAck \in Nat /\ leg \in Nat
        /\ \A d \in handed : /\ d.leg \in 1 .. leg /\ d.tag \in Nat
                             /\ d.number \in 1 .. MaxDeliveries
    BY ReturnStep
  <2>2. Ordered /\ Multiple(a)
    BY DEF Inv, Ordered, OneCall
  <2>3. t \in 1 .. tagConsumeOffset /\ t > tagLatestMultiAck
    BY <2>1, <2>2 DEF ReportedBy, FirstOrphan, LastOrphan
  <2>4. CASE HasTag(t)
    <3>1. PICK d \in handed : d.tag = t
      BY <2>4 DEF HasTag
    <3>2. d.leg < leg
      <4>1. d.leg = leg => d.tag > tagConsumeOffset
        BY <2>1 DEF Numbers, BaseInv
      <4> QED BY <2>1, <2>3, <3>1, <4>1
    <3>3. Id(d) \notin settled
      BY <2>1, <2>2, <2>3, <3>1, <3>2 DEF Ordered, SettledOnly
    <3> QED BY <3>1, <3>2, <3>3 DEF OrphanTags
  <2>5. CASE ~HasTag(t)
    <3>1. emptyGets # 0
      <4>1. ASSUME emptyGets = 0
            PROVE  HadTag(t)
        BY <2>1, <2>3, <4>1 DEF Inv, Exact, Gapless
      <4> QED BY <2>5, <4>1 DEF HadTag, HasTag
    <3> QED BY <2>3, <2>5, <3>1 DEF SkippedTags, HasTag
  <2> QED BY <2>4, <2>5
<1> QED BY <1>1, InvCorrect, PTL DEF Spec, OnlyOrphansReported
=============================================================================
