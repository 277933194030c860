------------------------- MODULE PublishTagsProofs -------------------------
(***************************************************************************)
(* Proofs about PublishTags, for any listeners, publications, streadway    *)
(* channels and programs.  CountInv relates the count and the offset to    *)
(* what the broker has numbered, FollowInv the relays to the streadway     *)
(* channel in use, WaitInv the counter of the wait group to the            *)
(* goroutines, ToldInv what a listener was told of to the offset, and      *)
(* AnswerInv what a listener has been given to what it has still to get.   *)
(***************************************************************************)
EXTENDS PublishTags, FiniteSetTheorems, TLAPS

\* The groups of variables that UNCHANGED names are expanded throughout.
USE DEF confirmVars, tagVars, flightVars, closureVars, redialVars, orphanVars, channelVars,
        brokerVars, relayVars, noteVars

\* What the broker numbers and confirms fits the bound, on each streadway channel.
NumberTypes ==
    /\ publishCount \in Nat /\ inFlight \in Nat /\ unnumbered \in Nat
    /\ publishCount + inFlight + unnumbered <= MaxPublish
    /\ tagOffset \in 0 .. publishCount
    /\ leg \in Legs
    /\ published \in [Legs -> Nat] /\ confirmed \in [Legs -> Nat]
    /\ legStart \in [Legs -> Nat]
    /\ \A g \in Legs : /\ confirmed[g] <= published[g]
                       /\ legStart[g] + published[g] <= MaxPublish
                       /\ g > leg => published[g] = 0
    /\ inFlight <= published[leg]

Inboxed  == [tag : 1 .. MaxPublish, of : 1 .. MaxPublish]
Goroutine == [pc : OrphanerPcs, sender : Nat, count : Nat]

OtherTypes ==
    /\ program \in Programs
    /\ confirmPc \in {"idle", "sent"}
    /\ confirmMode \in BOOLEAN /\ confirming \in BOOLEAN
    /\ sendOrphans \in Seq(Listeners)
    /\ sent \in [Listeners -> Nat] /\ first \in [Listeners -> BOOLEAN]
    /\ listenerPc \in [Listeners -> ListenerPcs]
    /\ stream \in [Listeners -> Seq(Confirmations)]
    /\ opError \in BOOLEAN /\ reconnectPc \in ReconnectPcs
    /\ sendsDone \in Nat \/ panicked
    /\ orphaners \in Seq(Goroutine)
    /\ ctxDone \in BOOLEAN
    /\ open \subseteq 1 .. leg
    /\ relayLeg \in [Listeners -> 0 .. leg]
    /\ inbox \in [Listeners -> Seq(Inboxed)]
    /\ cancelled \in [Listeners -> BOOLEAN]
    /\ panicked \in BOOLEAN /\ crossed \in BOOLEAN /\ miscounted \in BOOLEAN

\* A goroutine has the sender of its own iteration or of a later one.
SenderInv ==
    /\ Len(orphaners) <= Len(sendOrphans)
    /\ \A i \in 1 .. Len(orphaners) : /\ orphaners[i].sender \in i .. Len(orphaners)
                                      /\ ~crossed => orphaners[i].sender = i

\* No operation is under way during a reconnection.
LockInv == reconnectPc \notin {"ready", "stopped"} => NoReaders

Types == NumberTypes /\ OtherTypes /\ SenderInv /\ LockInv

\* The count is what the broker has numbered but for what is in flight; the offset is the
\* start of the leg until a reconnection has seen the leg's end, and the count from then on.
CountInv ==
    /\ ~miscounted => /\ publishCount + inFlight = legStart[leg] + published[leg]
                      /\ reconnectPc = "ready" => tagOffset = legStart[leg]
                      /\ reconnectPc \in {"redial", "waitLegs", "waitRest"} =>
                           tagOffset \in {legStart[leg], publishCount}
    /\ reconnectPc \in {"counted", "sending"} => tagOffset = publishCount
    /\ reconnectPc = "stopped" => ctxDone

-----------------------------------------------------------------------------
(***************************************************************************)
(* Steps.                                                                  *)
(***************************************************************************)

LEMMA SeqFacts ==
    ASSUME NEW S, NEW s \in Seq(S)
    PROVE  /\ Len(s) \in Nat /\ DOMAIN s = 1 .. Len(s)
           /\ s = <<>> <=> Len(s) = 0
           /\ \A i \in 1 .. Len(s) : s[i] \in S
           /\ s # <<>> => /\ Head(s) = s[1] /\ Len(Tail(s)) = Len(s) - 1 /\ s[1] \in S
                          /\ \A i \in 1 .. Len(s) - 1 : Tail(s)[i] = s[i + 1]
                          /\ Tail(s) \in Seq(S)
           /\ \A e \in S : /\ Append(s, e) \in Seq(S) /\ Len(Append(s, e)) = Len(s) + 1
                           /\ \A i \in 1 .. Len(s) : Append(s, e)[i] = s[i]
                           /\ Append(s, e)[Len(s) + 1] = e
OBVIOUS

LEMMA ProgramFacts ==
    ASSUME Types
    PROVE  /\ program.listeners \subseteq Listeners
           /\ program.publications \in 0 .. MaxPublish /\ program.legs \in 1 .. MaxLegs
           /\ MaxPublish \in Nat /\ MaxLegs \in Nat
<1>1. program \in Program
  BY ConstantsAssumption DEF Types, OtherTypes
<1> QED BY <1>1, ConstantsAssumption DEF Program

Operation    == OperationStarts \/ OperationReturns
Closing      == (\E g \in Legs : ChannelDies(g)) \/ CloseCancelsContext \/ CloseChannel
Confirming   == \E g \in Legs : BrokerConfirms(g)
Redialing    == StartReconnect \/ Redial \/ FetchFails \/ \E l \in Listeners : CancelRelay(l)
Registers(l) == CreateListener(l) \/ AddSender(l) \/ StartListening(l)

LEMMA NextSteps ==
    ASSUME Next
    PROVE  \/ Operation \/ Closing \/ Confirming \/ Redialing
           \/ SetOffset \/ LaunchOrphaners \/ FetchSucceeds
           \/ \E l \in Listeners : Registers(l) \/ RelayEvent(l) \/ RelayShutdown(l)
           \/ \E i \in DOMAIN orphaners : Orphaner(i)
BY DEF Next, Operation, Closing, Confirming, Redialing, Registers, Listener, Reconnect

\* What all the steps of operations leave alone.
LEMMA OperationDoes ==
    ASSUME Operation
    PROVE  /\ (LockFree /\ ~ctxDone) \/ ~NoReaders
           /\ UNCHANGED <<tagOffset, closureVars, listenerPc, stream, reconnectPc, orphanVars,
                          ctxDone, channelVars, confirmed, legStart, relayVars, program,
                          panicked, crossed>>
           /\ miscounted => miscounted'
<1>1. CASE ConfirmSends \/ PublishSends
  BY <1>1 DEF ConfirmSends, PublishSends
<1>2. CASE PublishFails
  BY <1>2 DEF PublishFails
<1>3. CASE ConfirmReturns \/ ConfirmFails
  BY <1>3 DEF ConfirmReturns, ConfirmFails, NoReaders
<1>4. CASE PublishReturns
  <2>1. inFlight > 0 \/ unnumbered > 0
    BY <1>4 DEF PublishReturns
  <2>2. ~NoReaders
    BY <2>1 DEF NoReaders
  <2>3. miscounted => miscounted'
    BY <1>4 DEF PublishReturns
  <2> QED BY <1>4, <2>2, <2>3 DEF PublishReturns
<1> QED BY <1>1, <1>2, <1>3, <1>4 DEF Operation, OperationStarts, OperationReturns

LEMMA ClosingDoes ==
    ASSUME Closing
    PROVE  /\ open' \subseteq open
           /\ ctxDone => ctxDone'
           /\ UNCHANGED <<confirmVars, tagVars, flightVars, closureVars, listenerPc, stream,
                          redialVars, orphanVars, leg, brokerVars, relayVars, noteVars>>
BY DEF Closing, ChannelDies, CloseCancelsContext, CloseChannel

LEMMA RedialingDoes ==
    ASSUME Redialing
    PROVE  /\ UNCHANGED <<confirmVars, tagVars, flightVars, closureVars, listenerPc, stream,
                          orphanVars, ctxDone, channelVars, brokerVars, relayLeg, inbox,
                          noteVars>>
           /\ \/ reconnectPc = "ready" /\ reconnectPc' = "redial" /\ NoReaders
                 /\ (program.late \/ ~Registering) /\ UNCHANGED cancelled
              \/ reconnectPc = "redial" /\ UNCHANGED cancelled
                 /\ reconnectPc' = IF ctxDone THEN "stopped" ELSE "waitLegs"
              \/ reconnectPc = "sending" /\ reconnectPc' = "redial" /\ OrphansSent
                 /\ UNCHANGED cancelled
              \/ reconnectPc = "waitLegs" /\ reconnectPc' = "waitRest"
                 /\ \E l \in Listeners : cancelled' = [cancelled EXCEPT ![l] = TRUE]
           /\ opError' \in {opError, FALSE}
BY DEF Redialing, StartReconnect, Redial, FetchFails, CancelRelay

-----------------------------------------------------------------------------
(***************************************************************************)
(* Types and counts.                                                       *)
(***************************************************************************)

LEMMA TypesInit == Init => Types /\ CountInv
<1> SUFFICES ASSUME Init PROVE Types /\ CountInv
  OBVIOUS
<1>0. 1 \in Legs /\ MaxPublish \in Nat /\ MaxLegs \in Nat
  BY ConstantsAssumption DEF Legs
<1>1. NumberTypes
  BY <1>0 DEF Init, NumberTypes
<1>2. OtherTypes
  <2>1. \A S : <<>> \in Seq(S)
    OBVIOUS
  <2>2. /\ stream \in [Listeners -> Seq(Confirmations)] /\ sendOrphans \in Seq(Listeners)
        /\ inbox \in [Listeners -> Seq(Inboxed)] /\ orphaners \in Seq(Goroutine)
    BY <2>1 DEF Init
  <2>3. relayLeg \in [Listeners -> 0 .. leg] /\ open \subseteq 1 .. leg
    BY DEF Init
  <2> QED BY <2>2, <2>3 DEF Init, OtherTypes, ListenerPcs, ReconnectPcs
<1>3. SenderInv /\ LockInv /\ CountInv
  BY <1>0 DEF Init, CountInv, SenderInv, LockInv
<1> QED BY <1>1, <1>2, <1>3 DEF Types

LEMMA TypesOperation ==
    ASSUME Types, CountInv, Operation
    PROVE  Types' /\ CountInv'
<1>0. NumberTypes /\ OtherTypes /\ SenderInv /\ MaxPublish \in Nat
  BY ConstantsAssumption DEF Types
<1>1. reconnectPc \in {"ready", "stopped"}
  BY OperationDoes DEF Types, LockInv, LockFree
<1>2. SenderInv' /\ LockInv'
  BY <1>0, <1>1, OperationDoes DEF SenderInv, LockInv
<1>3. OtherTypes'
  <2>1. CASE ConfirmSends \/ ConfirmReturns \/ ConfirmFails
    BY <1>0, <2>1 DEF ConfirmSends, ConfirmReturns, ConfirmFails, OtherTypes
  <2>2. CASE PublishSends \/ PublishFails
    BY <1>0, <2>2 DEF PublishSends, PublishFails, OtherTypes
  <2>3. CASE PublishReturns
    <3>1. miscounted' \in BOOLEAN
      BY <2>3 DEF PublishReturns
    <3> QED BY <1>0, <2>3, <3>1 DEF PublishReturns, OtherTypes
  <2> QED BY <2>1, <2>2, <2>3 DEF Operation, OperationStarts, OperationReturns
<1>4. CASE ConfirmSends \/ ConfirmReturns \/ ConfirmFails \/ PublishFails
  <2>1. UNCHANGED <<publishCount, tagOffset, flightVars, leg, brokerVars, reconnectPc,
                    ctxDone, miscounted>>
    BY <1>4 DEF ConfirmSends, ConfirmReturns, ConfirmFails, PublishFails, CountAfterError
  <2> QED BY <1>0, <1>2, <1>3, <2>1 DEF Types, NumberTypes, CountInv
<1>5. CASE PublishSends
  <2>1. /\ publishCount + inFlight + unnumbered < program.publications
        /\ legStart[leg] + published[leg] < program.publications
        /\ UNCHANGED <<tagVars, leg, confirmed, legStart, reconnectPc, ctxDone, miscounted>>
        /\ \/ /\ published' = [published EXCEPT ![leg] = @ + 1]
              /\ inFlight' = inFlight + 1 /\ unnumbered' = unnumbered
           \/ unnumbered' = unnumbered + 1 /\ UNCHANGED <<published, inFlight>>
    BY <1>5 DEF PublishSends
  <2>2. program.publications \in 0 .. MaxPublish
    BY ProgramFacts
  <2>3. CASE published' = published
    <3>1. unnumbered' = unnumbered + 1 /\ UNCHANGED <<published, inFlight>>
      <4>1. published[leg] \in Nat /\ leg \in Legs
        BY <1>0 DEF NumberTypes
      <4>2. published' # [published EXCEPT ![leg] = @ + 1]
        BY <1>0, <2>3, <4>1 DEF NumberTypes
      <4> QED BY <2>1, <4>2
    <3> QED BY <1>0, <1>2, <1>3, <2>1, <2>2, <3>1 DEF Types, NumberTypes, CountInv
  <2>4. CASE published' # published
    <3>1. /\ published' = [published EXCEPT ![leg] = @ + 1]
          /\ inFlight' = inFlight + 1 /\ unnumbered' = unnumbered
      BY <2>1, <2>4
    <3>2. /\ published' \in [Legs -> Nat] /\ published'[leg] = published[leg] + 1
          /\ \A g \in Legs : g # leg => published'[g] = published[g]
      BY <1>0, <3>1 DEF NumberTypes
    <3>3. NumberTypes'
      <4>1. ASSUME NEW g \in Legs
            PROVE  /\ confirmed'[g] <= published'[g]
                   /\ legStart'[g] + published'[g] <= MaxPublish
                   /\ g > leg' => published'[g] = 0
        <5>1. CASE g = leg
          BY <1>0, <2>1, <2>2, <3>2, <5>1 DEF NumberTypes, Legs
        <5>2. CASE g # leg
          BY <1>0, <2>1, <3>2, <5>2 DEF NumberTypes
        <5> QED BY <5>1, <5>2
      <4> QED BY <1>0, <2>1, <2>2, <3>1, <3>2, <4>1 DEF NumberTypes
    <3>4. CountInv'
      BY <1>0, <2>1, <3>1, <3>2 DEF NumberTypes, CountInv
    <3> QED BY <1>2, <1>3, <3>3, <3>4 DEF Types
  <2> QED BY <2>3, <2>4
<1>6. CASE PublishReturns
  <2>1. /\ UNCHANGED <<tagOffset, leg, brokerVars, reconnectPc, ctxDone>>
        /\ publishCount' = IF confirmMode THEN publishCount + 1 ELSE publishCount
        /\ \/ inFlight > 0 /\ inFlight' = inFlight - 1 /\ unnumbered' = unnumbered
              /\ (~miscounted' => ~miscounted /\ confirmMode)
           \/ unnumbered > 0 /\ unnumbered' = unnumbered - 1 /\ inFlight' = inFlight
              /\ (~miscounted' => ~miscounted /\ ~confirmMode)
    BY <1>6 DEF PublishReturns
  <2>2. NumberTypes'
    BY <1>0, <2>1 DEF NumberTypes
  <2>3. CountInv'
    <3>1. ~miscounted' => publishCount' + inFlight' = publishCount + inFlight
      BY <1>0, <2>1 DEF NumberTypes
    <3>2. ~miscounted' => ~miscounted
      BY <2>1
    <3> QED BY <1>1, <2>1, <3>1, <3>2 DEF CountInv
  <2> QED BY <1>2, <1>3, <2>2, <2>3 DEF Types
<1> QED BY <1>4, <1>5, <1>6 DEF Operation, OperationStarts, OperationReturns

LEMMA TypesClosing ==
    ASSUME Types, CountInv, Closing
    PROVE  Types' /\ CountInv'
<1>1. NumberTypes' /\ SenderInv' /\ LockInv' /\ CountInv'
  BY ClosingDoes DEF Types, NumberTypes, SenderInv, LockInv, NoReaders, CountInv
<1>2. ctxDone' \in BOOLEAN
  BY DEF Closing, ChannelDies, CloseCancelsContext, CloseChannel, Types, OtherTypes
<1>3. open' \subseteq 1 .. leg
  BY ClosingDoes DEF Types, OtherTypes
<1>4. OtherTypes'
  BY <1>2, <1>3, ClosingDoes DEF Types, OtherTypes
<1> QED BY <1>1, <1>4 DEF Types

LEMMA TypesRedialing ==
    ASSUME Types, CountInv, Redialing
    PROVE  Types' /\ CountInv'
<1>1. NumberTypes' /\ SenderInv'
  BY RedialingDoes DEF Types, NumberTypes, SenderInv
<1>2. LockInv'
  BY RedialingDoes DEF Types, LockInv, NoReaders
<1>3. CountInv'
  <2>1. reconnectPc \in ReconnectPcs
    BY DEF Types, OtherTypes
  <2> QED BY <2>1, RedialingDoes DEF CountInv, ReconnectPcs
<1>4. cancelled' \in [Listeners -> BOOLEAN]
  BY RedialingDoes DEF Types, OtherTypes
<1>5. opError' \in BOOLEAN /\ reconnectPc' \in ReconnectPcs
  BY RedialingDoes DEF Types, OtherTypes, ReconnectPcs
<1>6. OtherTypes'
  BY <1>4, <1>5, RedialingDoes DEF Types, OtherTypes
<1> QED BY <1>1, <1>2, <1>3, <1>6 DEF Types

LEMMA TypesSetOffset ==
    ASSUME Types, CountInv, SetOffset
    PROVE  Types' /\ CountInv'
<1>1. /\ tagOffset' = publishCount /\ sendsDone' = Len(sendOrphans)
      /\ reconnectPc \in {"waitLegs", "waitRest"} /\ reconnectPc' = "counted"
      /\ UNCHANGED <<confirmVars, publishCount, flightVars, closureVars, listenerPc, stream,
                     opError, orphaners, ctxDone, channelVars, brokerVars, relayVars,
                     noteVars>>
  BY DEF SetOffset, OffsetAtReconnect
<1>2. NumberTypes' /\ SenderInv'
  BY <1>1 DEF Types, NumberTypes, SenderInv
<1>3. LockInv' /\ CountInv'
  BY <1>1 DEF Types, LockInv, NoReaders, CountInv
<1>4. sendsDone' \in Nat
  BY <1>1 DEF Types, OtherTypes
<1>5. OtherTypes'
  BY <1>1, <1>4 DEF Types, OtherTypes, ReconnectPcs
<1> QED BY <1>2, <1>3, <1>5 DEF Types

LEMMA TypesLaunch ==
    ASSUME Types, CountInv, LaunchOrphaners
    PROVE  /\ Types' /\ CountInv'
           /\ Len(orphaners') = Len(sendOrphans)
           /\ \A i \in 1 .. Len(orphaners') :
                 orphaners'[i].pc = "start" /\ orphaners'[i].sender = i
<1>1. /\ orphaners' = [i \in DOMAIN sendOrphans |->
                        [pc |-> "start", sender |-> i, count |-> 0]]
      /\ reconnectPc = "counted" /\ reconnectPc' = "sending"
      /\ UNCHANGED <<confirmVars, tagVars, flightVars, closureVars, listenerPc, stream,
                     opError, sendsDone, ctxDone, channelVars, brokerVars, relayVars,
                     noteVars>>
  BY DEF LaunchOrphaners
<1>2. DOMAIN sendOrphans = 1 .. Len(sendOrphans) /\ Len(sendOrphans) \in Nat
  BY DEF Types, OtherTypes
<1>3. \A i \in 1 .. Len(sendOrphans) : [pc |-> "start", sender |-> i, count |-> 0] \in Goroutine
  BY <1>2 DEF OrphanerPcs, Goroutine
<1>4. orphaners' \in Seq(Goroutine) /\ Len(orphaners') = Len(sendOrphans)
  BY <1>1, <1>2, <1>3
<1>5. \A i \in 1 .. Len(orphaners') : orphaners'[i].pc = "start" /\ orphaners'[i].sender = i
  BY <1>1, <1>2, <1>4
<1>6. OtherTypes'
  BY <1>1, <1>4 DEF Types, OtherTypes, ReconnectPcs
<1>7. NumberTypes' /\ LockInv' /\ CountInv'
  BY <1>1 DEF Types, NumberTypes, LockInv, NoReaders, CountInv
<1>8. SenderInv'
  BY <1>1, <1>2, <1>4, <1>5 DEF SenderInv
<1> QED BY <1>4, <1>5, <1>6, <1>7, <1>8 DEF Types

LEMMA TypesFetchSucceeds ==
    ASSUME Types, CountInv, FetchSucceeds
    PROVE  Types' /\ CountInv'
<1>1. /\ reconnectPc = "sending" /\ leg < program.legs /\ leg' = leg + 1
      /\ legStart' = [legStart EXCEPT ![leg + 1] = legStart[leg] + published[leg]]
      /\ open' \subseteq open \cup {leg + 1}
      /\ reconnectPc' = "ready" /\ confirming' = confirmMode
      /\ UNCHANGED <<confirmPc, confirmMode, tagVars, flightVars, closureVars, listenerPc,
                     stream, opError, orphanVars, ctxDone, published, confirmed, inbox,
                     cancelled, noteVars>>
  BY DEF FetchSucceeds
<1>2. PICK followers : relayLeg' = [l \in Listeners |-> IF l \in followers THEN leg + 1
                                                        ELSE relayLeg[l]]
  BY DEF FetchSucceeds
<1>3. leg \in Nat /\ leg + 1 \in Legs /\ leg \in Legs /\ MaxPublish \in Nat
  BY <1>1, ProgramFacts DEF Types, NumberTypes, Legs
<1>4. relayLeg' \in [Listeners -> 0 .. leg'] /\ open' \subseteq 1 .. leg'
  BY <1>1, <1>2, <1>3 DEF Types, OtherTypes
<1>5. OtherTypes'
  BY <1>1, <1>4 DEF Types, OtherTypes, ReconnectPcs
<1>6. inFlight = 0 /\ tagOffset = publishCount
  BY <1>1 DEF Types, LockInv, NoReaders, CountInv
<1>7. /\ legStart' \in [Legs -> Nat] /\ legStart'[leg + 1] = legStart[leg] + published[leg]
      /\ \A g \in Legs : g # leg + 1 => legStart'[g] = legStart[g]
      /\ published[leg + 1] = 0 /\ confirmed[leg + 1] = 0
  BY <1>1, <1>3 DEF Types, NumberTypes
<1>8. NumberTypes'
  <2>1. ASSUME NEW g \in Legs
        PROVE  legStart'[g] + published[g] <= MaxPublish /\ (g > leg + 1 => published[g] = 0)
    <3>1. CASE g = leg + 1
      BY <1>3, <1>7, <3>1 DEF Types, NumberTypes
    <3>2. CASE g # leg + 1
      BY <1>3, <1>7, <3>2 DEF Types, NumberTypes, Legs
    <3> QED BY <3>1, <3>2
  <2> QED BY <1>1, <1>3, <1>6, <1>7, <2>1 DEF Types, NumberTypes
<1>9. CountInv'
  BY <1>1, <1>3, <1>6, <1>7 DEF Types, NumberTypes, CountInv
<1>10. SenderInv' /\ LockInv'
  BY <1>1 DEF Types, SenderInv, LockInv
<1> QED BY <1>5, <1>8, <1>9, <1>10 DEF Types

LEMMA TypesBroker ==
    ASSUME Types, CountInv, Confirming
    PROVE  /\ Types' /\ CountInv'
           /\ \E g \in Legs :
                LET c == [tag |-> confirmed[g] + 1, of |-> legStart[g] + (confirmed[g] + 1)]
                IN  /\ g \in open /\ confirmed[g] < published[g] /\ c \in Inboxed
                    /\ confirmed' = [confirmed EXCEPT ![g] = @ + 1]
                    /\ inbox' = [l \in Listeners |->
                                   IF listenerPc[l] = "listening" /\ relayLeg[l] = g
                                   THEN Append(inbox[l], c) ELSE inbox[l]]
                    /\ UNCHANGED <<confirmVars, tagVars, flightVars, closureVars, listenerPc,
                                   stream, redialVars, orphanVars, ctxDone, channelVars,
                                   published, legStart, relayLeg, cancelled, noteVars>>
<1>1. PICK g \in Legs : BrokerConfirms(g)
  BY DEF Confirming
<1> DEFINE c == [tag |-> confirmed[g] + 1, of |-> legStart[g] + (confirmed[g] + 1)]
<1>2. /\ g \in open /\ confirmed[g] < published[g]
      /\ confirmed' = [confirmed EXCEPT ![g] = @ + 1]
      /\ inbox' = [l \in Listeners |-> IF listenerPc[l] = "listening" /\ relayLeg[l] = g
                                       THEN Append(inbox[l], c) ELSE inbox[l]]
      /\ UNCHANGED <<confirmVars, tagVars, flightVars, closureVars, listenerPc,
                     stream, redialVars, orphanVars, ctxDone, channelVars,
                     published, legStart, relayLeg, cancelled, noteVars>>
  BY <1>1 DEF BrokerConfirms
<1>3. c \in Inboxed
  BY <1>2, ConstantsAssumption DEF Types, NumberTypes, Inboxed
<1> HIDE DEF c
<1>4. inbox' \in [Listeners -> Seq(Inboxed)]
  BY <1>2, <1>3 DEF Types, OtherTypes
<1>5. OtherTypes'
  BY <1>2, <1>4 DEF Types, OtherTypes
<1>6. NumberTypes'
  BY <1>2 DEF Types, NumberTypes
<1>7. SenderInv' /\ LockInv' /\ CountInv'
  BY <1>2 DEF Types, SenderInv, LockInv, NoReaders, CountInv
<1> QED BY <1>2, <1>3, <1>5, <1>6, <1>7 DEF Types, c

LEMMA TypesRegisters ==
    ASSUME Types, CountInv, NEW l \in Listeners, Registers(l)
    PROVE  /\ Types' /\ CountInv'
           /\ UNCHANGED <<confirmVars, tagVars, flightVars, first, stream, redialVars,
                          orphanVars, ctxDone, channelVars, brokerVars, inbox, cancelled,
                          noteVars>>
<1>0. tagOffset \in Nat /\ leg \in 0 .. leg
  BY ConstantsAssumption DEF Types, NumberTypes, Legs
<1>1. UNCHANGED <<confirmVars, tagVars, flightVars, first, stream, redialVars,
                  orphanVars, ctxDone, channelVars, brokerVars, inbox, cancelled, noteVars>>
  BY DEF Registers, CreateListener, AddSender, StartListening
<1>2. NumberTypes' /\ LockInv' /\ CountInv'
  BY <1>1 DEF Types, NumberTypes, LockInv, NoReaders, CountInv
<1>3. listenerPc' \in [Listeners -> ListenerPcs]
  BY DEF Registers, CreateListener, AddSender, StartListening, MoveListener, Types,
         OtherTypes, ListenerPcs
<1>4. sent' \in [Listeners -> Nat]
  BY <1>0 DEF Registers, CreateListener, AddSender, StartListening, Types, OtherTypes
<1>5. relayLeg' \in [Listeners -> 0 .. leg]
  BY <1>0 DEF Registers, CreateListener, AddSender, StartListening, Types, OtherTypes
<1>6. sendOrphans' \in Seq(Listeners) /\ Len(sendOrphans) <= Len(sendOrphans')
  <2>1. sendOrphans \in Seq(Listeners)
    BY DEF Types, OtherTypes
  <2>2. sendOrphans' = sendOrphans \/ sendOrphans' = Append(sendOrphans, l)
    BY DEF Registers, CreateListener, AddSender, StartListening, SendersWith
  <2> QED BY <2>1, <2>2
<1>7. OtherTypes'
  BY <1>1, <1>3, <1>4, <1>5, <1>6 DEF Types, OtherTypes
<1>8. SenderInv'
  <2>1. Len(sendOrphans) \in Nat /\ Len(orphaners) \in Nat /\ Len(sendOrphans') \in Nat
    BY <1>6 DEF Types, OtherTypes
  <2> QED BY <1>1, <1>6, <2>1 DEF Types, SenderInv
<1> QED BY <1>1, <1>2, <1>7, <1>8 DEF Types

\* A relay passes a confirmation on.
LEMMA RelayEventDoes ==
    ASSUME Types, NEW l \in Listeners, RelayEvent(l)
    PROVE  LET tag == inbox[l][1].tag
           IN  /\ listenerPc[l] = "listening" /\ inbox[l] # <<>> /\ Len(inbox[l]) >= 1
               /\ inbox[l][1] \in Inboxed
               /\ stream' = [stream EXCEPT ![l] =
                    Append(@, [tag |-> tag + tagOffset, orphan |-> FALSE,
                               of |-> inbox[l][1].of])]
               /\ [tag |-> tag + tagOffset, orphan |-> FALSE, of |-> inbox[l][1].of]
                    \in Confirmations
               /\ sent' = [sent EXCEPT ![l] = IF first[l] THEN sent[l] + tag ELSE sent[l] + 1]
               /\ first' = [first EXCEPT ![l] = FALSE]
               /\ inbox' = [inbox EXCEPT ![l] = Tail(@)]
               /\ UNCHANGED <<confirmVars, tagVars, flightVars, sendOrphans, listenerPc,
                              redialVars, orphanVars, ctxDone, channelVars, brokerVars,
                              relayLeg, cancelled, noteVars>>
<1> DEFINE tag == inbox[l][1].tag
<1>1. inbox[l] \in Seq(Inboxed) /\ inbox[l] # <<>>
  BY DEF RelayEvent, Types, OtherTypes
<1>2. Head(inbox[l]) = inbox[l][1] /\ inbox[l][1] \in Inboxed /\ Len(inbox[l]) >= 1
  BY <1>1
<1>3. tag \in 1 .. MaxPublish /\ inbox[l][1].of \in 1 .. MaxPublish
  BY <1>2 DEF Inboxed
<1>4. tagOffset \in Nat /\ sent[l] \in Nat
  BY ConstantsAssumption DEF Types, NumberTypes, OtherTypes
<1>5. [tag |-> tag + tagOffset, orphan |-> FALSE, of |-> inbox[l][1].of] \in Confirmations
  BY <1>3, <1>4, ConstantsAssumption DEF Confirmations
<1>6. SentBefore(l, tag) + 1 = IF first[l] THEN sent[l] + tag ELSE sent[l] + 1
  BY <1>3, <1>4, ConstantsAssumption DEF SentBefore
<1>7. sent' = [sent EXCEPT ![l] = SentBefore(l, tag) + 1]
  BY <1>2 DEF RelayEvent
<1>8. stream' = [stream EXCEPT ![l] = Append(@, [tag |-> tag + tagOffset, orphan |-> FALSE,
                                                 of |-> inbox[l][1].of])]
  BY <1>2 DEF RelayEvent, Receive
<1> QED BY <1>1, <1>2, <1>5, <1>6, <1>7, <1>8 DEF RelayEvent

LEMMA TypesRelays ==
    ASSUME Types, CountInv, NEW l \in Listeners, RelayEvent(l) \/ RelayShutdown(l)
    PROVE  Types' /\ CountInv'
<1>1. CASE RelayEvent(l)
  <2> DEFINE c == [tag |-> inbox[l][1].tag + tagOffset, orphan |-> FALSE,
                   of |-> inbox[l][1].of]
  <2>1. /\ stream' = [stream EXCEPT ![l] = Append(@, c)] /\ c \in Confirmations
        /\ inbox' = [inbox EXCEPT ![l] = Tail(@)] /\ inbox[l] # <<>>
        /\ sent' = [sent EXCEPT ![l] = IF first[l] THEN sent[l] + inbox[l][1].tag
                                       ELSE sent[l] + 1]
        /\ first' = [first EXCEPT ![l] = FALSE] /\ inbox[l][1] \in Inboxed
        /\ UNCHANGED <<confirmVars, tagVars, flightVars, sendOrphans, listenerPc,
                       redialVars, orphanVars, ctxDone, channelVars, brokerVars,
                       relayLeg, cancelled, noteVars>>
    BY <1>1, RelayEventDoes
  <2> HIDE DEF c
  <2>2. stream' \in [Listeners -> Seq(Confirmations)]
    <3>1. Append(stream[l], c) \in Seq(Confirmations)
      BY <2>1 DEF Types, OtherTypes
    <3> QED BY <2>1, <3>1 DEF Types, OtherTypes
  <2>3. inbox' \in [Listeners -> Seq(Inboxed)]
    <3>1. inbox \in [Listeners -> Seq(Inboxed)]
      BY DEF Types, OtherTypes
    <3>2. Tail(inbox[l]) \in Seq(Inboxed)
      BY <2>1, <3>1
    <3> QED BY <2>1, <3>1, <3>2
  <2>4. sent' \in [Listeners -> Nat] /\ first' \in [Listeners -> BOOLEAN]
    <3>1. sent \in [Listeners -> Nat] /\ first \in [Listeners -> BOOLEAN]
      BY DEF Types, OtherTypes
    <3>2. sent[l] + inbox[l][1].tag \in Nat /\ sent[l] + 1 \in Nat
      BY <2>1, <3>1, ConstantsAssumption DEF Inboxed
    <3>3. sent' \in [Listeners -> Nat]
      BY <2>1, <3>1, <3>2
    <3>4. first' \in [Listeners -> BOOLEAN]
      BY <2>1, <3>1
    <3> QED BY <3>3, <3>4
  <2>5. OtherTypes'
    BY <2>1, <2>2, <2>3, <2>4 DEF Types, OtherTypes
  <2>6. NumberTypes' /\ SenderInv' /\ LockInv' /\ CountInv'
    BY <2>1 DEF Types, NumberTypes, SenderInv, LockInv, NoReaders, CountInv
  <2> QED BY <2>5, <2>6 DEF Types
<1>2. CASE RelayShutdown(l)
  <2>1. listenerPc' \in [Listeners -> ListenerPcs]
    BY <1>2 DEF RelayShutdown, MoveListener, Types, OtherTypes, ListenerPcs
  <2>2. UNCHANGED <<confirmVars, tagVars, flightVars, closureVars, stream, redialVars,
                    orphanVars, ctxDone, channelVars, brokerVars, relayVars, noteVars>>
    BY <1>2 DEF RelayShutdown
  <2>3. OtherTypes'
    BY <2>1, <2>2 DEF Types, OtherTypes
  <2>4. NumberTypes' /\ SenderInv' /\ LockInv' /\ CountInv'
    BY <2>2 DEF Types, NumberTypes, SenderInv, LockInv, NoReaders, CountInv
  <2> QED BY <2>3, <2>4 DEF Types
<1> QED BY <1>1, <1>2

\* The goroutines that send orphans.
LEMMA SenderIsAListener ==
    ASSUME Types, NEW i \in DOMAIN orphaners
    PROVE  /\ i \in 1 .. Len(orphaners) /\ Len(orphaners) \in Nat /\ Len(sendOrphans) \in Nat
           /\ Len(orphaners) <= Len(sendOrphans)
           /\ orphaners[i] \in Goroutine
           /\ orphaners[i].sender \in 1 .. Len(sendOrphans)
           /\ sendOrphans[orphaners[i].sender] \in Listeners
           /\ orphaners[i].count \in Nat
           /\ \A j \in i .. Len(orphaners) : /\ j \in 1 .. Len(sendOrphans)
                                             /\ sendOrphans[j] \in Listeners
                                             /\ sent[sendOrphans[j]] \in Nat
<1>1. orphaners \in Seq(Goroutine) /\ sendOrphans \in Seq(Listeners)
      /\ sent \in [Listeners -> Nat]
  BY DEF Types, OtherTypes
<1>2. i \in 1 .. Len(orphaners) /\ Len(orphaners) \in Nat /\ orphaners[i] \in Goroutine
      /\ Len(sendOrphans) \in Nat /\ \A j \in 1 .. Len(sendOrphans) : sendOrphans[j] \in Listeners
  BY <1>1
<1>3. Len(orphaners) <= Len(sendOrphans) /\ orphaners[i].sender \in i .. Len(orphaners)
  BY <1>2 DEF Types, SenderInv
<1>4. orphaners[i].sender \in 1 .. Len(sendOrphans)
  BY <1>2, <1>3
<1>5. orphaners[i].count \in Nat
  BY <1>2 DEF Goroutine
<1>6. ASSUME NEW j \in i .. Len(orphaners)
      PROVE  j \in 1 .. Len(sendOrphans) /\ sendOrphans[j] \in Listeners
             /\ sent[sendOrphans[j]] \in Nat
  <2>1. j \in 1 .. Len(sendOrphans)
    BY <1>2, <1>3
  <2> QED BY <1>1, <1>2, <2>1
<1> QED BY <1>2, <1>3, <1>4, <1>5, <1>6

LEMMA OrphanerStartsDoes ==
    ASSUME Types, NEW i \in DOMAIN orphaners, OrphanerStarts(i)
    PROVE  \E j \in i .. Len(orphaners) :
             /\ orphaners[i].pc = "start"
             /\ orphaners' = [orphaners EXCEPT ![i] =
                  [pc |-> "send", sender |-> j, count |-> sent[sendOrphans[j]]]]
             /\ (~crossed' <=> ~crossed /\ j = i) /\ crossed' \in BOOLEAN
             /\ UNCHANGED <<confirmVars, tagVars, flightVars, closureVars, listenerPc, stream,
                            redialVars, sendsDone, ctxDone, channelVars, brokerVars,
                            relayVars, program, panicked, miscounted>>
BY DEF OrphanerStarts

LEMMA OrphanerSendsDoes ==
    ASSUME Types, NEW i \in DOMAIN orphaners, OrphanerSends(i)
    PROVE  LET l == sendOrphans[orphaners[i].sender]
               c == [tag |-> orphaners[i].count + 1, orphan |-> TRUE, of |-> 0]
           IN  /\ orphaners[i].pc = "send" /\ orphaners[i].count < tagOffset
               /\ c \in Confirmations
               /\ stream' = [stream EXCEPT ![l] = Append(@, c)]
               /\ orphaners' = [orphaners EXCEPT ![i] =
                    [pc |-> "send", sender |-> orphaners[i].sender,
                     count |-> orphaners[i].count + 1]]
               /\ panicked' \in BOOLEAN
               /\ UNCHANGED <<confirmVars, tagVars, flightVars, closureVars, listenerPc,
                              redialVars, sendsDone, ctxDone, channelVars, brokerVars,
                              relayVars, program, crossed, miscounted>>
<1>1. orphaners[i] \in Goroutine
  BY SenderIsAListener
<1>2. orphaners[i].pc = "send"
  BY DEF OrphanerSends
<1>3. [orphaners[i] EXCEPT !.count = @ + 1]
        = [pc |-> "send", sender |-> orphaners[i].sender, count |-> orphaners[i].count + 1]
  BY <1>1, <1>2 DEF Goroutine
<1>4. orphaners' = [orphaners EXCEPT ![i] = [orphaners[i] EXCEPT !.count = @ + 1]]
  BY DEF OrphanerSends
<1>5. [tag |-> orphaners[i].count + 1, orphan |-> TRUE, of |-> 0] \in Confirmations
  BY SenderIsAListener, ConstantsAssumption DEF Confirmations
<1>6. panicked' \in BOOLEAN
  BY DEF OrphanerSends
<1> QED BY <1>3, <1>4, <1>5, <1>6 DEF OrphanerSends, Receive

LEMMA OrphanerEndsDoes ==
    ASSUME Types, NEW i \in DOMAIN orphaners, OrphanerEnds(i)
    PROVE  LET l == sendOrphans[orphaners[i].sender]
           IN  /\ orphaners[i].pc = "send" /\ orphaners[i].count >= tagOffset
               /\ sent' = [sent EXCEPT ![l] = orphaners[i].count]
               /\ orphaners' = [orphaners EXCEPT ![i] =
                    [pc |-> "done", sender |-> i, count |-> 0]]
               /\ sendsDone' = sendsDone - 1
               /\ (panicked' <=> sendsDone = 0) /\ panicked' \in BOOLEAN
               /\ UNCHANGED <<confirmVars, tagVars, flightVars, sendOrphans, first,
                              listenerPc, stream, redialVars, ctxDone, channelVars,
                              brokerVars, relayVars, program, crossed, miscounted>>
BY DEF OrphanerEnds

\* A step of a goroutine changes only its own place.
LEMMA OrphanersAfter ==
    ASSUME Types, NEW i \in DOMAIN orphaners, NEW r \in Goroutine,
           orphaners' = [orphaners EXCEPT ![i] = r]
    PROVE  /\ orphaners' \in Seq(Goroutine) /\ Len(orphaners') = Len(orphaners)
           /\ \A j \in 1 .. Len(orphaners) :
                 orphaners'[j] = IF j = i THEN r ELSE orphaners[j]
<1>1. orphaners \in Seq(Goroutine)
  BY DEF Types, OtherTypes
<1> QED BY <1>1

LEMMA TypesOrphaner ==
    ASSUME Types, CountInv, ~panicked, NEW i \in DOMAIN orphaners, Orphaner(i)
    PROVE  Types' /\ CountInv'
<1>0. /\ i \in 1 .. Len(orphaners) /\ Len(orphaners) \in Nat
      /\ orphaners[i].sender \in i .. Len(orphaners)
      /\ ~crossed => orphaners[i].sender = i
  BY SenderIsAListener DEF Types, SenderInv
<1>1. ASSUME NEW r \in Goroutine, r.sender \in i .. Len(orphaners), ~crossed' => r.sender = i,
             orphaners' = [orphaners EXCEPT ![i] = r], ~crossed' => ~crossed,
             sent' \in [Listeners -> Nat], stream' \in [Listeners -> Seq(Confirmations)],
             panicked' \in BOOLEAN, crossed' \in BOOLEAN, sendsDone' \in Nat \/ panicked',
             UNCHANGED <<confirmVars, tagVars, flightVars, sendOrphans, first, listenerPc,
                         redialVars, ctxDone, channelVars, brokerVars, relayVars, program,
                         miscounted>>
      PROVE  Types' /\ CountInv'
  <2>1. /\ orphaners' \in Seq(Goroutine) /\ Len(orphaners') = Len(orphaners)
        /\ \A j \in 1 .. Len(orphaners) : orphaners'[j] = IF j = i THEN r ELSE orphaners[j]
    BY <1>1, OrphanersAfter
  <2>2. OtherTypes'
    BY <1>1, <2>1 DEF Types, OtherTypes
  <2>3. NumberTypes' /\ LockInv' /\ CountInv'
    BY <1>1 DEF Types, NumberTypes, LockInv, NoReaders, CountInv
  <2>4. SenderInv'
    BY <1>1, <2>1 DEF Types, SenderInv
  <2> QED BY <2>2, <2>3, <2>4 DEF Types
<1>2. CASE OrphanerStarts(i)
  <2>1. PICK j \in i .. Len(orphaners) :
             /\ orphaners' = [orphaners EXCEPT ![i] =
                  [pc |-> "send", sender |-> j, count |-> sent[sendOrphans[j]]]]
             /\ (~crossed' <=> ~crossed /\ j = i) /\ crossed' \in BOOLEAN
             /\ UNCHANGED <<confirmVars, tagVars, flightVars, closureVars, listenerPc, stream,
                            redialVars, sendsDone, ctxDone, channelVars, brokerVars,
                            relayVars, program, panicked, miscounted>>
    BY <1>2, OrphanerStartsDoes
  <2> DEFINE r == [pc |-> "send", sender |-> j, count |-> sent[sendOrphans[j]]]
  <2>2. r \in Goroutine /\ r.sender = j
    BY <1>0, SenderIsAListener DEF OrphanerPcs, Goroutine
  <2>3. /\ sent' \in [Listeners -> Nat] /\ stream' \in [Listeners -> Seq(Confirmations)]
        /\ panicked' \in BOOLEAN /\ (sendsDone' \in Nat \/ panicked')
    BY <2>1 DEF Types, OtherTypes
  <2> HIDE DEF r
  <2>4. orphaners' = [orphaners EXCEPT ![i] = r]
    BY <2>1 DEF r
  <2> QED BY <1>1, <2>1, <2>2, <2>3, <2>4
<1>3. CASE OrphanerSends(i)
  <2> DEFINE l == sendOrphans[orphaners[i].sender]
             c == [tag |-> orphaners[i].count + 1, orphan |-> TRUE, of |-> 0]
             r == [pc |-> "send", sender |-> orphaners[i].sender,
                   count |-> orphaners[i].count + 1]
  <2>1. /\ c \in Confirmations /\ stream' = [stream EXCEPT ![l] = Append(@, c)]
        /\ orphaners' = [orphaners EXCEPT ![i] = r] /\ panicked' \in BOOLEAN
        /\ UNCHANGED <<confirmVars, tagVars, flightVars, closureVars, listenerPc,
                       redialVars, sendsDone, ctxDone, channelVars, brokerVars,
                       relayVars, program, crossed, miscounted>>
    BY <1>3, OrphanerSendsDoes
  <2>2. r \in Goroutine /\ r.sender = orphaners[i].sender /\ l \in Listeners
    BY SenderIsAListener DEF OrphanerPcs, Goroutine
  <2>3. sent' \in [Listeners -> Nat] /\ crossed' \in BOOLEAN /\ sendsDone' \in Nat
    BY <2>1 DEF Types, OtherTypes
  <2>4. stream' \in [Listeners -> Seq(Confirmations)]
    <3>0. stream \in [Listeners -> Seq(Confirmations)]
      BY DEF Types, OtherTypes
    <3> HIDE DEF c, l
    <3>1. Append(stream[l], c) \in Seq(Confirmations)
      BY <2>1, <2>2, <3>0
    <3> QED BY <2>1, <2>2, <3>0, <3>1
  <2> HIDE DEF c, r, l
  <2> QED BY <1>0, <1>1, <2>1, <2>2, <2>3, <2>4
<1>4. CASE OrphanerEnds(i)
  <2> DEFINE l == sendOrphans[orphaners[i].sender]
             r == [pc |-> "done", sender |-> i, count |-> 0]
  <2>1. /\ sent' = [sent EXCEPT ![l] = orphaners[i].count]
        /\ orphaners' = [orphaners EXCEPT ![i] = r] /\ panicked' \in BOOLEAN
        /\ sendsDone' = sendsDone - 1 /\ (panicked' <=> sendsDone = 0)
        /\ UNCHANGED <<confirmVars, tagVars, flightVars, sendOrphans, first, listenerPc,
                       stream, redialVars, ctxDone, channelVars, brokerVars, relayVars,
                       program, crossed, miscounted>>
    BY <1>4, OrphanerEndsDoes
  <2>2. r \in Goroutine /\ r.sender = i /\ l \in Listeners /\ orphaners[i].count \in Nat
        /\ i \in i .. Len(orphaners)
    BY <1>0, SenderIsAListener DEF OrphanerPcs, Goroutine
  <2>3. sent' \in [Listeners -> Nat] /\ stream' \in [Listeners -> Seq(Confirmations)]
        /\ crossed' \in BOOLEAN
    BY <2>1, <2>2 DEF Types, OtherTypes
  <2>4. sendsDone' \in Nat \/ panicked'
    <3>1. sendsDone \in Nat
      BY DEF Types, OtherTypes
    <3> QED BY <2>1, <3>1
  <2> HIDE DEF r, l
  <2> QED BY <1>1, <2>1, <2>2, <2>3, <2>4
<1> QED BY <1>2, <1>3, <1>4 DEF Orphaner

LEMMA TypesNext ==
    ASSUME Types, CountInv, [Next]_vars
    PROVE  Types' /\ CountInv'
<1>1. CASE UNCHANGED vars
  BY <1>1 DEF vars, Types, NumberTypes, OtherTypes, SenderInv, LockInv, NoReaders, CountInv
<1>2. CASE Next
  <2>1. ~panicked
    BY <1>2 DEF Next
  <2> QED BY <1>2, <2>1, NextSteps, TypesOperation, TypesClosing, TypesRedialing,
       TypesSetOffset, TypesRegisters, TypesRelays, TypesBroker, TypesFetchSucceeds,
       TypesLaunch, TypesOrphaner
<1> QED BY <1>1, <1>2

\* Every variable keeps its type and its bounds, whatever the callers do.  The counter of
\* the wait group stays natural until a goroutine panics.
THEOREM PublishTagsTypeCorrect == Spec => []TypeOK
<1>1. ASSUME Types
      PROVE  TypeOK
  <2>1. MaxPublish \in Nat /\ MaxLegs \in Nat
    BY ConstantsAssumption
  <2>2. /\ publishCount \in 0 .. MaxPublish /\ unnumbered \in 0 .. MaxPublish
        /\ inFlight \in 0 .. published[leg] /\ tagOffset \in 0 .. publishCount /\ leg \in Legs
    BY <1>1, <2>1 DEF Types, NumberTypes
  <2>3. \A g \in Legs : /\ published[g] \in 0 .. MaxPublish /\ confirmed[g] \in 0 .. MaxPublish
                        /\ legStart[g] \in 0 .. MaxPublish
    BY <1>1, <2>1 DEF Types, NumberTypes
  <2>4. /\ published \in [Legs -> 0 .. MaxPublish] /\ confirmed \in [Legs -> 0 .. MaxPublish]
        /\ legStart \in [Legs -> 0 .. MaxPublish]
    BY <1>1, <2>3 DEF Types, NumberTypes
  <2> QED BY <1>1, <2>2, <2>4 DEF Types, OtherTypes, TypeOK, Inboxed, Goroutine
<1> QED BY <1>1, TypesInit, TypesNext, PTL DEF Spec

-----------------------------------------------------------------------------
(***************************************************************************)
(* TagNamesPublication: what a relay has to pass on is of the streadway    *)
(* channel it listens to, and the offset is the start of that channel as   *)
(* long as the redialer waits for the relay.                               *)
(***************************************************************************)

InboxOf(l) ==
    /\ inbox[l] # <<>> => listenerPc[l] = "listening"
    /\ listenerPc[l] = "listening" => relayLeg[l] \in 1 .. leg
    /\ \A i \in 1 .. Len(inbox[l]) : inbox[l][i].of = legStart[relayLeg[l]] + inbox[l][i].tag

InboxInv == \A l \in Listeners : InboxOf(l)

FollowOf(l) ==
    WaitedFor(l) => /\ relayLeg[l] = leg
                    /\ tagOffset # legStart[leg] \/ reconnectPc \in {"counted", "sending"} =>
                         LegOver(l)

FollowInv == ~ctxDone /\ ~miscounted => \A l \in Listeners : FollowOf(l)

LEMMA ListenerTypes ==
    ASSUME Types, NEW l \in Listeners
    PROVE  /\ inbox[l] \in Seq(Inboxed)
           /\ Len(inbox[l]) \in Nat /\ (inbox[l] = <<>> <=> Len(inbox[l]) = 0)
           /\ stream[l] \in Seq(Confirmations)
           /\ Len(stream[l]) \in Nat /\ (stream[l] = <<>> <=> Len(stream[l]) = 0)
           /\ sent[l] \in Nat /\ first[l] \in BOOLEAN /\ listenerPc[l] \in ListenerPcs
           /\ relayLeg[l] \in 0 .. leg /\ cancelled[l] \in BOOLEAN
           /\ sendOrphans \in Seq(Listeners) /\ Len(sendOrphans) \in Nat
           /\ Len(orphaners) \in Nat
           /\ leg \in Legs /\ leg \in Nat /\ publishCount \in Nat /\ tagOffset \in Nat
           /\ inFlight \in Nat
           /\ legStart[leg] \in Nat /\ published[leg] \in Nat /\ confirmed[leg] \in Nat
           /\ confirmed[leg] <= published[leg]
<1>1. inbox[l] \in Seq(Inboxed) /\ orphaners \in Seq(Goroutine) /\ sendOrphans \in Seq(Listeners)
      /\ stream[l] \in Seq(Confirmations)
  BY DEF Types, OtherTypes
<1>2. Len(orphaners) \in Nat /\ Len(sendOrphans) \in Nat
      /\ Len(inbox[l]) \in Nat /\ (inbox[l] = <<>> <=> Len(inbox[l]) = 0)
      /\ Len(stream[l]) \in Nat /\ (stream[l] = <<>> <=> Len(stream[l]) = 0)
  BY <1>1
<1>3. sent[l] \in Nat /\ first[l] \in BOOLEAN /\ listenerPc[l] \in ListenerPcs
      /\ relayLeg[l] \in 0 .. leg /\ cancelled[l] \in BOOLEAN
  BY DEF Types, OtherTypes
<1>4. /\ leg \in Legs /\ leg \in Nat /\ publishCount \in Nat /\ tagOffset \in Nat
      /\ inFlight \in Nat
      /\ legStart[leg] \in Nat /\ published[leg] \in Nat /\ confirmed[leg] \in Nat
      /\ confirmed[leg] <= published[leg]
  BY ConstantsAssumption DEF Types, NumberTypes, Legs
<1> QED BY <1>1, <1>2, <1>3, <1>4

\* Most steps touch neither what the relays have to pass on nor the numbering.
LEMMA InboxKept ==
    ASSUME InboxInv, FollowInv,
           UNCHANGED <<inbox, relayLeg, listenerPc, leg, legStart, tagOffset, reconnectPc>>,
           open' \subseteq open, \A l \in Listeners : cancelled[l] => cancelled'[l],
           ctxDone => ctxDone', miscounted => miscounted'
    PROVE  InboxInv' /\ FollowInv'
<1>1. InboxInv'
  BY DEF InboxInv, InboxOf
<1>2. FollowInv'
  BY DEF FollowInv, FollowOf, WaitedFor, LegOver
<1> QED BY <1>1, <1>2

\* The confirmations of a streadway channel reach the relays that listen to it.
LEMMA InboxBroker ==
    ASSUME Types, CountInv, InboxInv, FollowInv, Confirming
    PROVE  InboxInv' /\ FollowInv'
<1>1. PICK g \in Legs :
        LET c == [tag |-> confirmed[g] + 1, of |-> legStart[g] + (confirmed[g] + 1)]
        IN  /\ g \in open /\ c \in Inboxed
            /\ inbox' = [l \in Listeners |->
                           IF listenerPc[l] = "listening" /\ relayLeg[l] = g
                           THEN Append(inbox[l], c) ELSE inbox[l]]
            /\ UNCHANGED <<tagVars, listenerPc, reconnectPc, ctxDone, channelVars,
                           published, legStart, relayLeg, cancelled, noteVars>>
  BY TypesBroker
<1> DEFINE c == [tag |-> confirmed[g] + 1, of |-> legStart[g] + (confirmed[g] + 1)]
<1>2. c \in Inboxed /\ c.of = legStart[g] + c.tag
  BY <1>1
<1>3. inbox' = [l \in Listeners |-> IF listenerPc[l] = "listening" /\ relayLeg[l] = g
                                    THEN Append(inbox[l], c) ELSE inbox[l]]
  BY <1>1
<1> HIDE DEF c
<1>4. ASSUME NEW l \in Listeners
      PROVE  InboxOf(l)' /\ (LegOver(l) => LegOver(l)')
  <2>1. inbox[l] \in Seq(Inboxed) /\ InboxOf(l)
    BY ListenerTypes DEF InboxInv
  <2>2. CASE listenerPc[l] = "listening" /\ relayLeg[l] = g
    <3>1. inbox'[l] = Append(inbox[l], c)
      BY <1>3, <2>2
    <3>2. ASSUME NEW i \in 1 .. Len(inbox'[l])
          PROVE  inbox'[l][i].of = legStart[g] + inbox'[l][i].tag
      <4>1. i \in 1 .. Len(inbox[l]) \/ i = Len(inbox[l]) + 1
        BY <1>2, <2>1, <3>1
      <4>2. CASE i \in 1 .. Len(inbox[l])
        <5>1. inbox'[l][i] = inbox[l][i]
          BY <1>2, <2>1, <3>1, <4>2, SeqFacts
        <5> QED BY <2>1, <2>2, <4>2, <5>1 DEF InboxOf
      <4>3. CASE i = Len(inbox[l]) + 1
        <5>1. inbox'[l][i] = c
          BY <1>2, <2>1, <3>1, <4>3
        <5> QED BY <1>2, <5>1
      <4> QED BY <4>1, <4>2, <4>3
    <3>3. UNCHANGED <<listenerPc, relayLeg, leg, legStart, open>>
      BY <1>1
    <3>4. InboxOf(l)'
      BY <2>1, <2>2, <3>2, <3>3 DEF InboxOf
    <3> QED BY <1>1, <2>2, <3>4 DEF LegOver
  <2>3. CASE ~(listenerPc[l] = "listening" /\ relayLeg[l] = g)
    <3>1. inbox'[l] = inbox[l]
      BY <1>3, <2>3
    <3> QED BY <1>1, <2>1, <3>1 DEF InboxOf, LegOver
  <2> QED BY <2>2, <2>3
<1>5. FollowInv'
  BY <1>1, <1>4 DEF FollowInv, FollowOf, WaitedFor
<1> QED BY <1>4, <1>5 DEF InboxInv

LEMMA InboxRelay ==
    ASSUME Types, InboxInv, FollowInv, NEW m \in Listeners, RelayEvent(m)
    PROVE  InboxInv' /\ FollowInv'
<1>1. /\ inbox' = [inbox EXCEPT ![m] = Tail(@)] /\ inbox[m] # <<>>
      /\ UNCHANGED <<relayLeg, listenerPc, leg, legStart, tagOffset, reconnectPc, open,
                     cancelled, ctxDone, miscounted>>
  BY RelayEventDoes
<1>2. inbox \in [Listeners -> Seq(Inboxed)]
  BY DEF Types, OtherTypes
<1>3. ASSUME NEW l \in Listeners
      PROVE  InboxOf(l)' /\ (LegOver(l) => LegOver(l)')
  <2>1. CASE l # m
    <3>1. inbox'[l] = inbox[l]
      BY <1>1, <1>2, <2>1
    <3> QED BY <1>1, <3>1 DEF InboxInv, InboxOf, LegOver
  <2>2. CASE l = m
    <3>1. inbox'[l] = Tail(inbox[m]) /\ inbox[m] \in Seq(Inboxed)
      BY <1>1, <1>2, <2>2
    <3>2. /\ Len(Tail(inbox[m])) = Len(inbox[m]) - 1 /\ Len(inbox[m]) \in Nat
          /\ \A k \in 1 .. Len(inbox[m]) - 1 : Tail(inbox[m])[k] = inbox[m][k + 1]
      BY <1>1, <3>1, SeqFacts
    <3>3. \A i \in 1 .. Len(inbox'[l]) : inbox'[l][i] = inbox[m][i + 1]
                                         /\ i + 1 \in 1 .. Len(inbox[m])
      BY <3>1, <3>2
    <3>4. InboxOf(m)
      BY DEF InboxInv
    <3>5. ~LegOver(l)
      BY <1>1, <2>2 DEF LegOver
    <3>6. listenerPc[m] = "listening"
      BY <1>1, <3>4 DEF InboxOf
    <3>7. InboxOf(l)'
      BY <1>1, <2>2, <3>3, <3>4, <3>6 DEF InboxOf
    <3> QED BY <3>5, <3>7
  <2> QED BY <2>1, <2>2
<1>4. FollowInv'
  BY <1>1, <1>3 DEF FollowInv, FollowOf, WaitedFor
<1> QED BY <1>3, <1>4 DEF InboxInv

\* Every relay that is waited for goes on to the new streadway channel, where the count
\* and the offset start together.
LEMMA InboxFetch ==
    ASSUME Types, CountInv, InboxInv, FollowInv, FetchSucceeds
    PROVE  /\ InboxInv' /\ FollowInv'
           /\ ~ctxDone /\ ~miscounted => /\ tagOffset = legStart[leg] + published[leg]
                                         /\ legStart'[leg'] = tagOffset
                                         /\ confirmed'[leg'] = 0 /\ leg' = leg + 1
<1>1. /\ reconnectPc = "sending" /\ reconnectPc' = "ready" /\ leg < program.legs
      /\ leg' = leg + 1
      /\ legStart' = [legStart EXCEPT ![leg + 1] = legStart[leg] + published[leg]]
      /\ UNCHANGED <<publishCount, tagOffset, listenerPc, ctxDone, published, confirmed,
                     inbox, cancelled, miscounted>>
  BY DEF FetchSucceeds
<1>2. PICK followers \in Followers :
        relayLeg' = [l \in Listeners |-> IF l \in followers THEN leg + 1 ELSE relayLeg[l]]
  BY DEF FetchSucceeds
<1>3. \A l \in followers : l \in Listeners /\ WaitedFor(l) /\ LegOver(l)
  BY <1>2 DEF Followers
<1>4. leg \in Nat /\ leg + 1 \in Legs /\ leg \in Legs /\ leg + 1 > leg
  BY <1>1, ProgramFacts DEF Types, NumberTypes, Legs
<1>5. legStart'[leg + 1] = legStart[leg] + published[leg]
      /\ \A g \in Legs : g # leg + 1 => legStart'[g] = legStart[g]
  BY <1>1, <1>4 DEF Types, NumberTypes
<1>6. ASSUME NEW l \in Listeners
      PROVE  InboxOf(l)'
  <2>1. InboxOf(l) /\ relayLeg[l] \in 0 .. leg /\ Len(inbox[l]) \in Nat
    BY ListenerTypes DEF InboxInv
  <2>2. CASE l \in followers
    <3>1. inbox'[l] = <<>> /\ relayLeg'[l] = leg + 1
      BY <1>1, <1>2, <1>3, <2>2 DEF LegOver
    <3>2. Len(inbox'[l]) = 0
      BY <3>1
    <3> QED BY <1>1, <1>4, <3>1, <3>2 DEF InboxOf
  <2>3. CASE l \notin followers
    <3>1. relayLeg'[l] = relayLeg[l]
      BY <1>2, <2>3
    <3>2. inbox[l] # <<>> => legStart'[relayLeg[l]] = legStart[relayLeg[l]]
      <4>1. inbox[l] # <<>> => relayLeg[l] \in 1 .. leg
        BY <2>1 DEF InboxOf
      <4>2. \A k \in 1 .. leg : k \in Legs /\ k # leg + 1
        BY <1>4, ConstantsAssumption DEF Legs
      <4> QED BY <1>5, <4>1, <4>2
    <3>3. inbox[l] = <<>> => Len(inbox[l]) = 0
      OBVIOUS
    <3> QED BY <1>1, <1>4, <2>1, <3>1, <3>2, <3>3 DEF InboxOf
  <2> QED BY <2>2, <2>3
<1>7. ASSUME ~ctxDone, ~miscounted
      PROVE  /\ tagOffset = legStart[leg] + published[leg] /\ legStart'[leg'] = tagOffset
             /\ confirmed'[leg'] = 0
  <2>1. tagOffset = publishCount /\ publishCount + inFlight = legStart[leg] + published[leg]
        /\ inFlight = 0
    BY <1>1, <1>7 DEF CountInv, Types, LockInv, NoReaders
  <2>2. confirmed[leg + 1] = 0
    BY <1>4 DEF Types, NumberTypes
  <2>3. publishCount \in Nat
    BY DEF Types, NumberTypes
  <2> QED BY <1>1, <1>5, <2>1, <2>2, <2>3
<1>8. ASSUME ~ctxDone, ~miscounted, NEW l \in Listeners
      PROVE  FollowOf(l)'
  <2> SUFFICES ASSUME WaitedFor(l)'
               PROVE  relayLeg'[l] = leg'
    BY <1>1, <1>7, <1>8 DEF FollowOf
  <2>1. WaitedFor(l)
    BY <1>1 DEF WaitedFor
  <2>2. LegOver(l)
    BY <1>1, <1>8, <2>1 DEF FollowInv, FollowOf
  <2>3. l \in followers
    BY <1>2, <1>8, <2>1, <2>2 DEF Followers
  <2> QED BY <1>1, <1>2, <2>3
<1>9. FollowInv'
  BY <1>1, <1>8 DEF FollowInv
<1> QED BY <1>1, <1>6, <1>7, <1>9 DEF InboxInv

LEMMA InboxRegisters ==
    ASSUME Types, CountInv, InboxInv, FollowInv, NEW m \in Listeners,
           Registers(m) \/ RelayShutdown(m)
    PROVE  InboxInv' /\ FollowInv'
<1>1. /\ UNCHANGED <<inbox, leg, legStart, tagOffset, reconnectPc, open, cancelled, ctxDone,
                     miscounted>>
      /\ \/ UNCHANGED relayLeg /\ \E p \in {"created", "wantRead", "closed"} :
                                     listenerPc' = [listenerPc EXCEPT ![m] = p]
         \/ StartListening(m)
  BY DEF Registers, CreateListener, AddSender, StartListening, RelayShutdown, MoveListener
<1>2. inbox[m] = <<>> /\ Len(inbox[m]) = 0
  <2>1. listenerPc[m] # "listening" \/ LegOver(m)
    BY DEF Registers, CreateListener, AddSender, StartListening, RelayShutdown, MoveListener
  <2> QED BY <2>1, ListenerTypes DEF LegOver, InboxInv, InboxOf
<1>3. listenerPc \in [Listeners -> ListenerPcs] /\ relayLeg \in [Listeners -> 0 .. leg]
      /\ leg \in 1 .. leg
  BY DEF Types, NumberTypes, OtherTypes, Legs
<1>4. CASE StartListening(m)
  <2>1. /\ LockFree /\ listenerPc' = [listenerPc EXCEPT ![m] =
                                        IF ctxDone THEN "hung" ELSE "listening"]
        /\ relayLeg' = [relayLeg EXCEPT ![m] = leg]
    BY <1>4 DEF StartListening, MoveListener
  <2>2. ~ctxDone /\ ~miscounted => reconnectPc = "ready" /\ tagOffset = legStart[leg]
    BY <2>1 DEF LockFree, CountInv
  <2>3. InboxInv'
    BY <1>1, <1>2, <1>3, <2>1 DEF InboxInv, InboxOf
  <2>4. FollowInv'
    BY <1>1, <1>3, <2>1, <2>2 DEF FollowInv, FollowOf, WaitedFor, LegOver
  <2> QED BY <2>3, <2>4
<1>5. ASSUME NEW p \in {"created", "wantRead", "closed"}, UNCHANGED relayLeg,
             listenerPc' = [listenerPc EXCEPT ![m] = p]
      PROVE  InboxInv' /\ FollowInv'
  <2>1. InboxInv'
    BY <1>1, <1>2, <1>3, <1>5 DEF InboxInv, InboxOf
  <2>2. FollowInv'
    BY <1>1, <1>3, <1>5 DEF FollowInv, FollowOf, WaitedFor, LegOver
  <2> QED BY <2>1, <2>2
<1> QED BY <1>1, <1>4, <1>5

LEMMA InboxNext ==
    ASSUME Types, CountInv, InboxInv, FollowInv, [Next]_vars
    PROVE  InboxInv' /\ FollowInv'
<1>1. CASE UNCHANGED vars
  BY <1>1, InboxKept DEF vars
<1>2. CASE Operation
  BY <1>2, OperationDoes, InboxKept
<1>3. CASE Closing
  BY <1>3, ClosingDoes, InboxKept
<1>4. CASE Redialing
  <2>1. /\ UNCHANGED <<inbox, relayLeg, listenerPc, leg, legStart, tagOffset, open, ctxDone,
                       miscounted>>
        /\ reconnectPc' \notin {"counted", "sending"}
        /\ \A l \in Listeners : cancelled[l] => cancelled'[l]
    BY <1>4, RedialingDoes DEF Types, OtherTypes
  <2>2. InboxInv'
    BY <2>1 DEF InboxInv, InboxOf
  <2>3. FollowInv'
    BY <2>1 DEF FollowInv, FollowOf, WaitedFor, LegOver
  <2> QED BY <2>2, <2>3
<1>5. CASE SetOffset
  <2>1. /\ UNCHANGED <<inbox, relayLeg, listenerPc, leg, legStart, open, ctxDone, cancelled,
                       miscounted>>
        /\ ctxDone \/ \A l \in Listeners : WaitedFor(l) => LegOver(l)
    BY <1>5 DEF SetOffset
  <2>2. InboxInv'
    BY <2>1 DEF InboxInv, InboxOf
  <2>3. FollowInv'
    BY <2>1 DEF FollowInv, FollowOf, WaitedFor, LegOver
  <2> QED BY <2>2, <2>3
<1>6. CASE LaunchOrphaners
  <2>1. /\ UNCHANGED <<inbox, relayLeg, listenerPc, leg, legStart, open, ctxDone, cancelled,
                       miscounted, tagOffset>>
        /\ reconnectPc = "counted"
    BY <1>6 DEF LaunchOrphaners
  <2>2. InboxInv'
    BY <2>1 DEF InboxInv, InboxOf
  <2>3. FollowInv'
    BY <2>1 DEF FollowInv, FollowOf, WaitedFor, LegOver
  <2> QED BY <2>2, <2>3
<1>7. ASSUME NEW i \in DOMAIN orphaners, Orphaner(i)
      PROVE  InboxInv' /\ FollowInv'
  BY <1>7, InboxKept DEF Orphaner, OrphanerStarts, OrphanerSends, OrphanerEnds
<1> QED BY <1>1, <1>2, <1>3, <1>4, <1>5, <1>6, <1>7, InboxBroker, InboxRelay, InboxFetch,
     InboxRegisters, NextSteps

\* A confirmation put on a listener's channel that is an orphan or has the number of its
\* publication.
LEMMA TagsAfterReceive ==
    ASSUME TagNamesPublication, NEW l \in Listeners, NEW c \in Confirmations,
           ~ctxDone /\ ~miscounted /\ ~cancelled[l] => c.orphan \/ c.tag = c.of,
           stream \in [Listeners -> Seq(Confirmations)],
           stream' = [stream EXCEPT ![l] = Append(@, c)],
           UNCHANGED <<ctxDone, miscounted, cancelled>>
    PROVE  TagNamesPublication'
<1> SUFFICES ASSUME ~ctxDone, ~miscounted, NEW m \in Listeners, ~cancelled[m],
                    NEW i \in DOMAIN stream'[m]
             PROVE  ~stream'[m][i].orphan => stream'[m][i].tag = stream'[m][i].of
  BY DEF TagNamesPublication
<1>1. CASE m # l
  BY <1>1 DEF TagNamesPublication
<1>2. CASE m = l
  <2>1. stream'[m] = Append(stream[l], c) /\ stream[l] \in Seq(Confirmations)
    BY <1>2
  <2>2. i \in DOMAIN stream[l] => stream'[m][i] = stream[l][i]
    BY <2>1
  <2>3. i \notin DOMAIN stream[l] => stream'[m][i] = c
    BY <2>1
  <2>4. CASE i \in DOMAIN stream[l]
    BY <1>2, <2>2, <2>4 DEF TagNamesPublication
  <2>5. CASE i \notin DOMAIN stream[l]
    BY <1>2, <2>3, <2>5
  <2> QED BY <2>4, <2>5
<1> QED BY <1>1, <1>2

LEMMA TagsNext ==
    ASSUME Types, CountInv, InboxInv, FollowInv, TagNamesPublication, [Next]_vars
    PROVE  TagNamesPublication'
<1>1. ASSUME UNCHANGED stream, ctxDone => ctxDone', miscounted => miscounted',
             \A l \in Listeners : cancelled[l] => cancelled'[l]
      PROVE  TagNamesPublication'
  BY <1>1 DEF TagNamesPublication
<1>2. CASE UNCHANGED vars
  BY <1>1, <1>2 DEF vars
<1>3. CASE Operation \/ Closing
  BY <1>1, <1>3, OperationDoes, ClosingDoes
<1>4. CASE Confirming \/ SetOffset \/ LaunchOrphaners \/ FetchSucceeds
  BY <1>1, <1>4 DEF Confirming, BrokerConfirms, SetOffset, LaunchOrphaners, FetchSucceeds
<1>5. CASE Redialing
  <2>1. \A l \in Listeners : cancelled[l] => cancelled'[l]
    BY <1>5, RedialingDoes DEF Types, OtherTypes
  <2> QED BY <1>1, <1>5, <2>1, RedialingDoes
<1>6. ASSUME NEW m \in Listeners, Registers(m) \/ RelayShutdown(m)
      PROVE  TagNamesPublication'
  BY <1>1, <1>6 DEF Registers, CreateListener, AddSender, StartListening, RelayShutdown
<1>7. ASSUME NEW l \in Listeners, RelayEvent(l)
      PROVE  TagNamesPublication'
  <2> DEFINE c == [tag |-> inbox[l][1].tag + tagOffset, orphan |-> FALSE,
                   of |-> inbox[l][1].of]
  <2>1. /\ Len(inbox[l]) >= 1 /\ c \in Confirmations /\ listenerPc[l] = "listening"
        /\ inbox[l] # <<>> /\ inbox[l][1] \in Inboxed
        /\ stream' = [stream EXCEPT ![l] = Append(@, c)]
        /\ UNCHANGED <<ctxDone, miscounted, cancelled>>
    BY <1>7, RelayEventDoes
  <2>2. ASSUME ~ctxDone, ~miscounted, ~cancelled[l]
        PROVE  c.tag = c.of
    <3>1. relayLeg[l] = leg /\ tagOffset = legStart[leg]
      BY <2>1, <2>2 DEF FollowInv, FollowOf, WaitedFor, LegOver
    <3>2. 1 \in 1 .. Len(inbox[l])
      BY <2>1, ListenerTypes
    <3>3. inbox[l][1].of = legStart[leg] + inbox[l][1].tag
      BY <3>1, <3>2 DEF InboxInv, InboxOf
    <3>4. inbox[l][1].tag \in Nat /\ legStart[leg] \in Nat
      <4>1. inbox[l][1].tag \in Nat
        BY <2>1, ConstantsAssumption DEF Inboxed
      <4> QED BY <4>1, ListenerTypes
    <3> QED BY <3>1, <3>3, <3>4
  <2>3. stream \in [Listeners -> Seq(Confirmations)]
    BY DEF Types, OtherTypes
  <2> HIDE DEF c
  <2> QED BY <2>1, <2>2, <2>3, TagsAfterReceive
<1>8. ASSUME NEW i \in DOMAIN orphaners, OrphanerSends(i)
      PROVE  TagNamesPublication'
  <2> DEFINE l == sendOrphans[orphaners[i].sender]
             c == [tag |-> orphaners[i].count + 1, orphan |-> TRUE, of |-> 0]
  <2>1. c \in Confirmations /\ stream' = [stream EXCEPT ![l] = Append(@, c)]
        /\ UNCHANGED <<ctxDone, miscounted, cancelled>>
    BY <1>8, OrphanerSendsDoes
  <2>2. l \in Listeners /\ c.orphan
    BY SenderIsAListener
  <2>3. stream \in [Listeners -> Seq(Confirmations)]
    BY DEF Types, OtherTypes
  <2> HIDE DEF c, l
  <2> QED BY <2>1, <2>2, <2>3, TagsAfterReceive
<1>9. ASSUME NEW i \in DOMAIN orphaners, OrphanerStarts(i) \/ OrphanerEnds(i)
      PROVE  TagNamesPublication'
  BY <1>1, <1>9 DEF OrphanerStarts, OrphanerEnds
<1> QED BY <1>2, <1>3, <1>4, <1>5, <1>6, <1>7, <1>8, <1>9, NextSteps DEF Orphaner

LEMMA InboxInit == Init => InboxInv /\ FollowInv /\ TagNamesPublication
<1>1. Len(<<>>) = 0
  OBVIOUS
<1> QED BY <1>1 DEF Init, InboxInv, InboxOf, FollowInv, FollowOf, WaitedFor,
                    TagNamesPublication

\* The number a caller reads in a confirmation is the number of the publication it
\* answers, however often the Channel has reconnected, for whatever reason, and whenever
\* NotifyPublish is called.
THEOREM TagsNamePublications == Spec => []TagNamesPublication
<1> DEFINE Inv == Types /\ CountInv /\ InboxInv /\ FollowInv /\ TagNamesPublication
<1>1. Init => Inv
  BY TypesInit, InboxInit
<1>2. Inv /\ [Next]_vars => Inv'
  BY TypesNext, InboxNext, TagsNext
<1> QED BY <1>1, <1>2, PTL DEF Spec

-----------------------------------------------------------------------------
(***************************************************************************)
(* The wait group, if nobody calls NotifyPublish during a reconnection:    *)
(* its counter is the number of goroutines that have not ended.            *)
(***************************************************************************)

Unfinished == {i \in 1 .. Len(orphaners) : orphaners[i].pc # "done"}

WaitInv ==
    /\ Registering => reconnectPc = "ready"
    /\ reconnectPc # "sending" => Unfinished = {}
    /\ reconnectPc = "sending" => Len(orphaners) = Len(sendOrphans)
    /\ sendsDone = IF reconnectPc = "counted" THEN Len(sendOrphans)
                   ELSE Cardinality(Unfinished)

LEMMA ProgramKept == ASSUME [Next]_vars PROVE program' = program
<1>1. CASE UNCHANGED vars
  BY <1>1 DEF vars
<1>2. CASE Operation \/ Closing \/ Redialing
  BY <1>2, OperationDoes, ClosingDoes, RedialingDoes
<1>3. CASE Confirming \/ SetOffset \/ LaunchOrphaners \/ FetchSucceeds
  BY <1>3 DEF Confirming, BrokerConfirms, SetOffset, LaunchOrphaners, FetchSucceeds
<1>4. ASSUME NEW l \in Listeners, Registers(l) \/ RelayEvent(l) \/ RelayShutdown(l)
      PROVE  program' = program
  BY <1>4 DEF Registers, CreateListener, AddSender, StartListening, RelayEvent, RelayShutdown
<1>5. ASSUME NEW i \in DOMAIN orphaners, Orphaner(i)
      PROVE  program' = program
  BY <1>5 DEF Orphaner, OrphanerStarts, OrphanerSends, OrphanerEnds
<1> QED BY <1>1, <1>2, <1>3, <1>4, <1>5, NextSteps

LEMMA UnfinishedIsFinite ==
    ASSUME Types
    PROVE  /\ IsFiniteSet(Unfinished) /\ Cardinality(Unfinished) \in Nat
           /\ Cardinality(Unfinished) = 0 <=> Unfinished = {}
<1>1. Len(orphaners) \in Nat
  BY DEF Types, OtherTypes
<1>2. IsFiniteSet(1 .. Len(orphaners))
  BY <1>1, FS_Interval
<1>3. IsFiniteSet(Unfinished)
  BY <1>2, FS_Subset DEF Unfinished
<1> QED BY <1>3, FS_CardinalityType, FS_EmptySet

\* A step that leaves the goroutines and the senders alone, and the redialer where
\* it is.
LEMMA WaitKept ==
    ASSUME WaitInv, UNCHANGED <<reconnectPc, sendOrphans, sendsDone, orphaners>>,
           Registering' => Registering
    PROVE  WaitInv'
<1>1. Unfinished' = Unfinished
  BY DEF Unfinished
<1> QED BY <1>1 DEF WaitInv

\* What a step of a goroutine does to the set of those that have not ended.
LEMMA OrphanerProgress ==
    ASSUME Types, NEW i \in DOMAIN orphaners, Orphaner(i)
    PROVE  /\ i \in Unfinished
           /\ UNCHANGED <<reconnectPc, sendOrphans, listenerPc, tagOffset>>
           /\ Len(orphaners') = Len(orphaners)
           /\ \A j \in 1 .. Len(orphaners) : j # i => orphaners'[j] = orphaners[j]
           /\ ~OrphanerEnds(i) => /\ UNCHANGED sendsDone /\ Unfinished' = Unfinished
                                  /\ orphaners'[i].pc = "send"
           /\ OrphanerEnds(i) => /\ sendsDone' = sendsDone - 1
                                 /\ Unfinished' = Unfinished \ {i}
<1>0. orphaners \in Seq(Goroutine) /\ i \in 1 .. Len(orphaners)
  BY SenderIsAListener DEF Types, OtherTypes
<1>1. i \in Unfinished
  BY <1>0 DEF Unfinished, Orphaner, OrphanerStarts, OrphanerSends, OrphanerEnds
<1>2. ASSUME NEW r, orphaners' = [orphaners EXCEPT ![i] = r]
      PROVE  /\ Len(orphaners') = Len(orphaners)
             /\ \A j \in 1 .. Len(orphaners) :
                  orphaners'[j] = IF j = i THEN r ELSE orphaners[j]
  BY <1>0, <1>2
<1>3. ASSUME NEW r, orphaners' = [orphaners EXCEPT ![i] = r], r.pc = "send"
      PROVE  /\ Unfinished' = Unfinished /\ Len(orphaners') = Len(orphaners)
             /\ orphaners'[i].pc = "send"
             /\ \A j \in 1 .. Len(orphaners) : j # i => orphaners'[j] = orphaners[j]
  <2>1. Unfinished' = Unfinished
    BY <1>1, <1>2, <1>3 DEF Unfinished
  <2> QED BY <1>0, <1>2, <1>3, <2>1
<1>4. ASSUME NEW r, orphaners' = [orphaners EXCEPT ![i] = r], r.pc = "done"
      PROVE  /\ Unfinished' = Unfinished \ {i} /\ Len(orphaners') = Len(orphaners)
             /\ \A j \in 1 .. Len(orphaners) : j # i => orphaners'[j] = orphaners[j]
  <2>1. Unfinished' = Unfinished \ {i}
    BY <1>1, <1>2, <1>4 DEF Unfinished
  <2> QED BY <1>2, <1>4, <2>1
<1>5. CASE OrphanerStarts(i)
  <2>1. PICK j \in i .. Len(orphaners) :
             /\ orphaners[i].pc = "start"
             /\ orphaners' = [orphaners EXCEPT ![i] =
                  [pc |-> "send", sender |-> j, count |-> sent[sendOrphans[j]]]]
             /\ UNCHANGED <<reconnectPc, sendOrphans, listenerPc, sendsDone, tagOffset>>
    BY <1>5, OrphanerStartsDoes
  <2>2. ~OrphanerEnds(i)
    BY <2>1 DEF OrphanerEnds
  <2> QED BY <1>1, <1>3, <2>1, <2>2
<1>6. CASE OrphanerSends(i)
  <2>1. /\ orphaners[i].count < tagOffset
        /\ orphaners' = [orphaners EXCEPT ![i] =
                    [pc |-> "send", sender |-> orphaners[i].sender,
                     count |-> orphaners[i].count + 1]]
        /\ UNCHANGED <<reconnectPc, sendOrphans, listenerPc, sendsDone, tagOffset>>
    BY <1>6, OrphanerSendsDoes
  <2>2. orphaners[i].count \in Nat /\ tagOffset \in Nat
    BY SenderIsAListener, ConstantsAssumption DEF Types, NumberTypes
  <2>3. ~OrphanerEnds(i)
    BY <2>1, <2>2 DEF OrphanerEnds
  <2> QED BY <1>1, <1>3, <2>1, <2>3
<1>7. CASE OrphanerEnds(i)
  <2>1. /\ orphaners' = [orphaners EXCEPT ![i] = [pc |-> "done", sender |-> i, count |-> 0]]
        /\ sendsDone' = sendsDone - 1
        /\ UNCHANGED <<reconnectPc, sendOrphans, listenerPc, tagOffset>>
    BY <1>7, OrphanerEndsDoes
  <2> QED BY <1>1, <1>4, <1>7, <2>1
<1> QED BY <1>5, <1>6, <1>7 DEF Orphaner

LEMMA WaitInit == Init => WaitInv
<1> SUFFICES ASSUME Init PROVE WaitInv
  OBVIOUS
<1>1. Unfinished = {} /\ ~Registering /\ reconnectPc = "ready" /\ sendsDone = 0
  BY DEF Init, Unfinished, Registering
<1>2. Cardinality(Unfinished) = 0
  BY <1>1, FS_EmptySet
<1> QED BY <1>1, <1>2 DEF WaitInv

LEMMA WaitNext ==
    ASSUME ~program.late, Types, CountInv, WaitInv, [Next]_vars
    PROVE  WaitInv'
<1>1. CASE UNCHANGED vars
  BY <1>1, WaitKept DEF vars, Registering
<1>2. CASE Operation
  BY <1>2, OperationDoes, WaitKept DEF Registering
<1>3. CASE Closing
  BY <1>3, ClosingDoes, WaitKept DEF Registering
<1>4. CASE Confirming
  BY <1>4, WaitKept DEF Confirming, BrokerConfirms, Registering
<1>5. CASE Redialing
  <2>1. /\ UNCHANGED <<sendOrphans, sendsDone, orphaners, listenerPc>>
        /\ reconnectPc \notin {"counted"} /\ reconnectPc' \notin {"counted", "sending"}
        /\ reconnectPc = "ready" => ~Registering
        /\ reconnectPc = "sending" => sendsDone = 0
    BY <1>5, RedialingDoes DEF OrphansSent
  <2>2. Unfinished = {} /\ ~Registering
    BY <2>1, UnfinishedIsFinite DEF WaitInv
  <2>3. Unfinished' = Unfinished /\ ~Registering'
    BY <2>1, <2>2 DEF Unfinished, Registering
  <2> QED BY <2>1, <2>2, <2>3 DEF WaitInv
<1>6. CASE SetOffset
  <2>1. /\ reconnectPc \in {"waitLegs", "waitRest"} /\ reconnectPc' = "counted"
        /\ sendsDone' = Len(sendOrphans)
        /\ UNCHANGED <<sendOrphans, orphaners, listenerPc>>
    BY <1>6 DEF SetOffset
  <2>2. Unfinished' = Unfinished /\ ~Registering'
    BY <2>1 DEF Unfinished, Registering, WaitInv
  <2> QED BY <2>1, <2>2 DEF WaitInv
<1>7. CASE LaunchOrphaners
  <2>1. /\ reconnectPc = "counted" /\ reconnectPc' = "sending"
        /\ UNCHANGED <<sendOrphans, sendsDone, listenerPc>>
    BY <1>7 DEF LaunchOrphaners
  <2>2. Len(orphaners') = Len(sendOrphans) /\ Len(sendOrphans) \in Nat
        /\ \A i \in 1 .. Len(orphaners') : orphaners'[i].pc = "start"
    <3>1. sendOrphans \in Seq(Listeners)
      BY DEF Types, OtherTypes
    <3> QED BY <1>7, <3>1, TypesLaunch
  <2>3. Unfinished' = 1 .. Len(sendOrphans) /\ ~Registering'
    BY <2>1, <2>2 DEF Unfinished, Registering, WaitInv
  <2>4. Cardinality(1 .. Len(sendOrphans)) = Len(sendOrphans)
    <3>1. PICK n \in Nat : n = Len(sendOrphans)
      BY <2>2
    <3>2. Cardinality(1 .. n) = n
      BY FS_Interval
    <3> QED BY <3>1, <3>2
  <2> QED BY <2>1, <2>2, <2>3, <2>4 DEF WaitInv
<1>8. CASE FetchSucceeds
  <2>1. /\ sendsDone = 0 /\ reconnectPc = "sending" /\ reconnectPc' = "ready"
        /\ UNCHANGED <<sendOrphans, sendsDone, orphaners, listenerPc>>
    BY <1>8 DEF FetchSucceeds, OrphansSent
  <2>2. Unfinished = {}
    BY <2>1, UnfinishedIsFinite DEF WaitInv
  <2>3. Unfinished' = {}
    BY <2>1, <2>2 DEF Unfinished
  <2> QED BY <2>1, <2>2, <2>3 DEF WaitInv
<1>9. ASSUME NEW l \in Listeners, Registers(l)
      PROVE  WaitInv'
  <2>1. reconnectPc = "ready" /\ UNCHANGED <<reconnectPc, sendsDone, orphaners>>
    BY <1>9 DEF Registers, CreateListener, AddSender, StartListening, MoveListener, WaitInv,
                Registering
  <2>2. Unfinished' = Unfinished
    BY <2>1 DEF Unfinished
  <2> QED BY <2>1, <2>2 DEF WaitInv
<1>10. ASSUME NEW l \in Listeners, RelayEvent(l) \/ RelayShutdown(l)
       PROVE  WaitInv'
  <2>1. UNCHANGED <<reconnectPc, sendOrphans, sendsDone, orphaners>>
    BY <1>10 DEF RelayEvent, RelayShutdown
  <2>2. listenerPc' = listenerPc \/ listenerPc' = [listenerPc EXCEPT ![l] = "closed"]
    BY <1>10 DEF RelayEvent, RelayShutdown, MoveListener
  <2>3. Registering' => Registering
    BY <2>2 DEF Registering, Types, OtherTypes
  <2> QED BY <2>1, <2>3, WaitKept
<1>11. ASSUME NEW i \in DOMAIN orphaners, Orphaner(i)
       PROVE  WaitInv'
  <2>1. /\ i \in Unfinished /\ UNCHANGED <<reconnectPc, sendOrphans, listenerPc>>
        /\ Len(orphaners') = Len(orphaners)
    BY <1>11, OrphanerProgress
  <2>2. reconnectPc = "sending" /\ (Registering' <=> Registering)
    BY <2>1 DEF WaitInv, Registering
  <2>3. sendsDone' = Cardinality(Unfinished')
    <3>1. CASE ~OrphanerEnds(i)
      BY <1>11, <2>2, <3>1, OrphanerProgress DEF WaitInv
    <3>2. CASE OrphanerEnds(i)
      <4>1. sendsDone' = sendsDone - 1 /\ Unfinished' = Unfinished \ {i}
        BY <1>11, <3>2, OrphanerProgress
      <4>2. Cardinality(Unfinished \ {i}) = Cardinality(Unfinished) - 1
        BY <2>1, UnfinishedIsFinite, FS_RemoveElement
      <4> QED BY <2>2, <4>1, <4>2 DEF WaitInv
    <3> QED BY <3>1, <3>2
  <2> QED BY <2>1, <2>2, <2>3 DEF WaitInv
<1> QED BY <1>1, <1>2, <1>3, <1>4, <1>5, <1>6, <1>7, <1>8, <1>9, <1>10, <1>11, NextSteps

\* Nobody sends but in a reconnection that waits for it.
LEMMA NobodySends ==
    ASSUME WaitInv, reconnectPc # "sending", NEW i \in 1 .. Len(orphaners)
    PROVE  orphaners[i].pc = "done"
BY DEF WaitInv, Unfinished

-----------------------------------------------------------------------------
(***************************************************************************)
(* LastListenerTold: the sender of a goroutine that has ended has sent     *)
(* orphans up to the offset.                                               *)
(***************************************************************************)

\* Each listener has at most one place in the list of senders, from AddSender on.
ListedInv ==
    /\ \A i, j \in 1 .. Len(sendOrphans) : sendOrphans[i] = sendOrphans[j] => i = j
    /\ \A l \in Listeners : listenerPc[l] \in {"none", "created"} <=>
                            \A i \in 1 .. Len(sendOrphans) : sendOrphans[i] # l

Heard(i) ==
    ~crossed \/ i = Len(sendOrphans) => sent[sendOrphans[i]] >= tagOffset

ToldInv ==
    /\ \A l \in Listeners : listenerPc[l] \in {"created", "wantRead"} => sent[l] = tagOffset
    /\ reconnectPc = "ready" => \A i \in 1 .. Len(sendOrphans) : Heard(i)
    /\ reconnectPc = "sending" =>
          \A i \in 1 .. Len(orphaners) : orphaners[i].pc = "done" => Heard(i)

LEMMA ListedNext ==
    ASSUME Types, ListedInv, [Next]_vars
    PROVE  ListedInv'
<1>1. ASSUME UNCHANGED <<sendOrphans, listenerPc>>
      PROVE  ListedInv'
  BY <1>1 DEF ListedInv
<1>2. CASE UNCHANGED vars
  BY <1>1, <1>2 DEF vars
<1>3. CASE Operation \/ Closing \/ Redialing
  BY <1>1, <1>3, OperationDoes, ClosingDoes, RedialingDoes
<1>4. CASE Confirming \/ SetOffset \/ LaunchOrphaners \/ FetchSucceeds
  BY <1>1, <1>4 DEF Confirming, BrokerConfirms, SetOffset, LaunchOrphaners, FetchSucceeds
<1>5. ASSUME NEW i \in DOMAIN orphaners, Orphaner(i)
      PROVE  ListedInv'
  BY <1>1, <1>5, OrphanerProgress
<1>6. ASSUME NEW l \in Listeners, RelayEvent(l)
      PROVE  ListedInv'
  BY <1>1, <1>6 DEF RelayEvent
<1>7. listenerPc \in [Listeners -> ListenerPcs] /\ sendOrphans \in Seq(Listeners)
      /\ Len(sendOrphans) \in Nat
  BY DEF Types, OtherTypes
<1>8. ASSUME NEW l \in Listeners, CreateListener(l) \/ StartListening(l) \/ RelayShutdown(l)
      PROVE  ListedInv'
  <2>1. sendOrphans' = sendOrphans /\ \E p \in ListenerPcs :
          /\ listenerPc' = [listenerPc EXCEPT ![l] = p]
          /\ p \in {"none", "created"} <=> listenerPc[l] \in {"none", "created"}
    BY <1>8 DEF CreateListener, StartListening, RelayShutdown, MoveListener, ListenerPcs
  <2> QED BY <1>7, <2>1 DEF ListedInv
<1>9. ASSUME NEW l \in Listeners, AddSender(l)
      PROVE  ListedInv'
  <2>1. sendOrphans' = Append(sendOrphans, l) /\ listenerPc[l] = "created"
        /\ listenerPc' = [listenerPc EXCEPT ![l] = "wantRead"]
    BY <1>9 DEF AddSender, MoveListener, SendersWith
  <2>2. /\ Len(sendOrphans') = Len(sendOrphans) + 1
        /\ \A i \in 1 .. Len(sendOrphans) : sendOrphans'[i] = sendOrphans[i]
        /\ sendOrphans'[Len(sendOrphans) + 1] = l
    BY <1>7, <2>1
  <2>3. \A i \in 1 .. Len(sendOrphans) : sendOrphans[i] # l
    BY <2>1 DEF ListedInv
  <2>4. \A i \in 1 .. Len(sendOrphans') : i \in 1 .. Len(sendOrphans) \/ i = Len(sendOrphans) + 1
    BY <1>7, <2>2
  <2>5. \A i, j \in 1 .. Len(sendOrphans') : sendOrphans'[i] = sendOrphans'[j] => i = j
    BY <2>2, <2>3, <2>4 DEF ListedInv
  <2>6. ASSUME NEW m \in Listeners
        PROVE  listenerPc'[m] \in {"none", "created"} <=>
                   \A i \in 1 .. Len(sendOrphans') : sendOrphans'[i] # m
    <3>1. CASE m = l
      BY <1>7, <2>1, <2>2, <3>1
    <3>2. CASE m # l
      <4>1. listenerPc'[m] = listenerPc[m]
        BY <1>7, <2>1, <3>2
      <4>2. (\A i \in 1 .. Len(sendOrphans') : sendOrphans'[i] # m) <=>
            \A i \in 1 .. Len(sendOrphans) : sendOrphans[i] # m
        <5>1. \A i \in 1 .. Len(sendOrphans) : i \in 1 .. Len(sendOrphans')
          BY <1>7, <2>2
        <5> QED BY <2>2, <2>4, <3>2, <5>1
      <4> QED BY <4>1, <4>2 DEF ListedInv
    <3> QED BY <3>1, <3>2
  <2> QED BY <2>5, <2>6 DEF ListedInv
<1> QED BY <1>2, <1>3, <1>4, <1>5, <1>6, <1>8, <1>9, NextSteps DEF Registers

LEMMA ToldNext ==
    ASSUME ~program.late, Types, CountInv, WaitInv, ListedInv, ToldInv, [Next]_vars
    PROVE  ToldInv'
<1>0. /\ sent \in [Listeners -> Nat] /\ sendOrphans \in Seq(Listeners) /\ tagOffset \in Nat
      /\ listenerPc \in [Listeners -> ListenerPcs] /\ Len(sendOrphans) \in Nat
      /\ Len(orphaners) \in Nat /\ Len(orphaners) <= Len(sendOrphans)
      /\ \A i \in 1 .. Len(sendOrphans) : sendOrphans[i] \in Listeners
  <2>1. sendOrphans \in Seq(Listeners) /\ orphaners \in Seq(Goroutine)
    BY DEF Types, OtherTypes
  <2>2. \A i \in 1 .. Len(sendOrphans) : sendOrphans[i] \in Listeners
    BY <2>1
  <2> QED BY <2>1, <2>2, ConstantsAssumption DEF Types, NumberTypes, OtherTypes, SenderInv
\* Steps that leave what was sent and the redialer alone.
<1>1. ASSUME UNCHANGED <<sent, sendOrphans, tagOffset, listenerPc, orphaners, reconnectPc,
                         crossed>>
      PROVE  ToldInv'
  BY <1>1 DEF ToldInv, Heard
<1>2. CASE UNCHANGED vars
  BY <1>1, <1>2 DEF vars
<1>3. CASE Operation \/ Closing
  BY <1>1, <1>3, OperationDoes, ClosingDoes
<1>4. CASE Confirming
  BY <1>1, <1>4 DEF Confirming, BrokerConfirms
<1>5. CASE Redialing
  <2>1. UNCHANGED <<sent, tagOffset, listenerPc>> /\ reconnectPc' \notin {"ready", "sending"}
    BY <1>5, RedialingDoes
  <2> QED BY <2>1 DEF ToldInv
<1>6. CASE SetOffset
  <2>1. reconnectPc \in {"waitLegs", "waitRest"} /\ reconnectPc' = "counted"
        /\ UNCHANGED listenerPc
    BY <1>6 DEF SetOffset
  <2>2. \A l \in Listeners : listenerPc'[l] \notin {"created", "wantRead"}
    BY <2>1 DEF WaitInv, Registering
  <2> QED BY <2>1, <2>2 DEF ToldInv
<1>7. CASE LaunchOrphaners
  <2>1. reconnectPc' = "sending" /\ UNCHANGED <<listenerPc, sent, tagOffset>>
    BY <1>7 DEF LaunchOrphaners
  <2>2. \A i \in 1 .. Len(orphaners') : orphaners'[i].pc = "start"
    BY <1>7, TypesLaunch
  <2> QED BY <2>1, <2>2 DEF ToldInv
<1>8. CASE FetchSucceeds
  <2>1. /\ sendsDone = 0 /\ reconnectPc = "sending" /\ reconnectPc' = "ready"
        /\ UNCHANGED <<sendOrphans, orphaners, listenerPc, sent, tagOffset, crossed>>
    BY <1>8 DEF FetchSucceeds, OrphansSent
  <2>2. Unfinished = {}
    BY <2>1, UnfinishedIsFinite DEF WaitInv
  <2>3. \A i \in 1 .. Len(sendOrphans) : Heard(i)
    BY <2>1, <2>2 DEF ToldInv, WaitInv, Unfinished
  <2> QED BY <2>1, <2>3 DEF ToldInv, Heard
<1>9. ASSUME NEW l \in Listeners, RelayEvent(l) \/ RelayShutdown(l)
      PROVE  ToldInv'
  <2>1. /\ UNCHANGED <<sendOrphans, tagOffset, orphaners, reconnectPc, crossed>>
        /\ listenerPc[l] = "listening"
        /\ UNCHANGED listenerPc \/ listenerPc' = [listenerPc EXCEPT ![l] = "closed"]
    BY <1>9 DEF RelayEvent, RelayShutdown, MoveListener
  <2>2. \A m \in Listeners : /\ sent'[m] \in Nat /\ sent'[m] >= sent[m]
                             /\ m # l => sent'[m] = sent[m]
    <3>1. CASE RelayShutdown(l)
      <4>1. sent' = sent
        BY <3>1 DEF RelayShutdown
      <4> QED BY <1>0, <4>1
    <3>2. CASE RelayEvent(l)
      <4>1. /\ sent' = [sent EXCEPT ![l] = IF first[l] THEN sent[l] + inbox[l][1].tag
                                           ELSE sent[l] + 1]
            /\ inbox[l][1] \in Inboxed
        BY <3>2, RelayEventDoes
      <4>2. inbox[l][1].tag \in Nat
        BY <4>1, ConstantsAssumption DEF Inboxed
      <4> QED BY <1>0, <4>1, <4>2
    <3> QED BY <1>9, <3>1, <3>2
  <2>3. \A i \in 1 .. Len(sendOrphans) : Heard(i) => Heard(i)'
    BY <1>0, <2>1, <2>2 DEF Heard
  <2>4. \A m \in Listeners : listenerPc'[m] \in {"created", "wantRead"} => sent'[m] = tagOffset'
    BY <1>0, <2>1, <2>2 DEF ToldInv
  <2>5. \A i \in 1 .. Len(orphaners) : i \in 1 .. Len(sendOrphans)
    BY <1>0
  <2> QED BY <2>1, <2>3, <2>4, <2>5 DEF ToldInv
<1>10. ASSUME NEW l \in Listeners, Registers(l)
       PROVE  ToldInv'
  <2>1. /\ reconnectPc = "ready" /\ UNCHANGED <<tagOffset, orphaners, reconnectPc, crossed>>
        /\ listenerPc[l] \in {"none", "created", "wantRead"}
    BY <1>10 DEF Registers, CreateListener, AddSender, StartListening, MoveListener, WaitInv,
                 Registering
  <2>2. CASE CreateListener(l)
    <3>1. /\ listenerPc[l] = "none" /\ listenerPc' = [listenerPc EXCEPT ![l] = "created"]
          /\ sent' = [sent EXCEPT ![l] = tagOffset] /\ UNCHANGED sendOrphans
      BY <2>2 DEF CreateListener, MoveListener
    <3>2. \A i \in 1 .. Len(sendOrphans) : sendOrphans[i] # l
      BY <3>1 DEF ListedInv
    <3>3. \A i \in 1 .. Len(sendOrphans) : Heard(i)'
      BY <1>0, <2>1, <3>1, <3>2 DEF ToldInv, Heard
    <3> QED BY <1>0, <2>1, <3>1, <3>3 DEF ToldInv
  <2>3. CASE AddSender(l)
    <3>1. /\ listenerPc[l] = "created" /\ listenerPc' = [listenerPc EXCEPT ![l] = "wantRead"]
          /\ sendOrphans' = Append(sendOrphans, l) /\ UNCHANGED sent
      BY <2>3 DEF AddSender, MoveListener, SendersWith
    <3>2. /\ Len(sendOrphans') = Len(sendOrphans) + 1
          /\ \A i \in 1 .. Len(sendOrphans) : sendOrphans'[i] = sendOrphans[i]
          /\ sendOrphans'[Len(sendOrphans) + 1] = l
      BY <1>0, <3>1
    <3>3. sent[l] = tagOffset
      BY <3>1 DEF ToldInv
    <3>4. ASSUME NEW i \in 1 .. Len(sendOrphans')
          PROVE  Heard(i)'
      <4>1. CASE i = Len(sendOrphans) + 1
        BY <1>0, <2>1, <3>1, <3>2, <3>3, <4>1 DEF Heard
      <4>2. CASE i # Len(sendOrphans) + 1
        <5>1. i \in 1 .. Len(sendOrphans) /\ i # Len(sendOrphans')
          BY <1>0, <3>2, <4>2
        <5> QED BY <2>1, <3>1, <3>2, <5>1 DEF ToldInv, Heard
      <4> QED BY <4>1, <4>2
    <3> QED BY <1>0, <2>1, <3>1, <3>4 DEF ToldInv
  <2>4. CASE StartListening(l)
    <3>1. /\ UNCHANGED <<sendOrphans, sent>> /\ \E p \in {"hung", "listening"} :
                listenerPc' = [listenerPc EXCEPT ![l] = p]
      BY <2>4 DEF StartListening, MoveListener
    <3> QED BY <1>0, <2>1, <3>1 DEF ToldInv, Heard
  <2> QED BY <1>10, <2>2, <2>3, <2>4 DEF Registers
<1>11. ASSUME NEW i \in DOMAIN orphaners, Orphaner(i)
       PROVE  ToldInv'
  <2>1. /\ i \in Unfinished /\ UNCHANGED <<reconnectPc, sendOrphans, listenerPc, tagOffset>>
        /\ Len(orphaners') = Len(orphaners)
        /\ \A j \in 1 .. Len(orphaners) : j # i => orphaners'[j] = orphaners[j]
    BY <1>11, OrphanerProgress
  <2>2. /\ reconnectPc = "sending" /\ ~Registering /\ i \in 1 .. Len(orphaners)
        /\ Len(orphaners) = Len(sendOrphans)
    BY <2>1 DEF WaitInv, Unfinished
  <2>3. CASE ~OrphanerEnds(i)
    <3>1. UNCHANGED sent /\ (~crossed' => ~crossed) /\ orphaners'[i].pc = "send"
      <4>1. orphaners'[i].pc = "send"
        BY <1>11, <2>3, OrphanerProgress
      <4> QED BY <1>11, <2>3, <4>1, OrphanerStartsDoes, OrphanerSendsDoes DEF Orphaner
    <3> QED BY <2>1, <2>2, <3>1 DEF ToldInv, Heard
  <2>4. CASE OrphanerEnds(i)
    <3> DEFINE l == sendOrphans[orphaners[i].sender]
    <3>1. /\ sent' = [sent EXCEPT ![l] = orphaners[i].count] /\ orphaners[i].count >= tagOffset
          /\ UNCHANGED crossed
      BY <2>4, OrphanerEndsDoes
    <3>2. l \in Listeners /\ orphaners[i].count \in Nat
      BY <1>11, SenderIsAListener
    <3>3. orphaners[i].sender \in i .. Len(orphaners) /\ (~crossed => orphaners[i].sender = i)
      BY <2>2 DEF Types, SenderInv
    <3>4. ASSUME NEW j \in 1 .. Len(orphaners), orphaners'[j].pc = "done"
          PROVE  Heard(j)'
      <4>1. CASE sendOrphans[j] = l
        BY <1>0, <2>1, <3>1, <3>2, <4>1 DEF Heard
      <4>2. CASE sendOrphans[j] # l
        <5>1. sendOrphans[j] \in Listeners
          BY <1>0, <2>2
        <5>2. sent'[sendOrphans[j]] = sent[sendOrphans[j]]
          BY <1>0, <3>1, <4>2, <5>1
        <5>3. CASE j # i
          BY <2>1, <2>2, <3>1, <3>4, <5>2, <5>3 DEF ToldInv, Heard
        <5>4. CASE j = i
          <6>1. crossed /\ i # Len(sendOrphans)
            BY <1>0, <2>2, <3>3, <4>2, <5>4
          <6> QED BY <2>1, <3>1, <5>4, <6>1 DEF Heard
        <5> QED BY <5>3, <5>4
      <4> QED BY <4>1, <4>2
    <3>5. \A m \in Listeners : listenerPc[m] \notin {"created", "wantRead"}
      BY <2>2 DEF Registering
    <3> QED BY <2>1, <2>2, <3>4, <3>5 DEF ToldInv
  <2> QED BY <2>3, <2>4
<1> QED BY <1>2, <1>3, <1>4, <1>5, <1>6, <1>7, <1>8, <1>9, <1>10, <1>11, NextSteps

LEMMA ToldInit == Init => ListedInv /\ ToldInv
<1> SUFFICES ASSUME Init PROVE ListedInv /\ ToldInv
  OBVIOUS
<1>1. sendOrphans = <<>> /\ Len(<<>>) = 0 /\ reconnectPc = "ready"
      /\ \A l \in Listeners : listenerPc[l] = "none"
  BY DEF Init
<1> QED BY <1>1 DEF ListedInv, ToldInv

\* When callers may use the Channel again every listener has been told of the publications
\* of the earlier streadway channels, unless a goroutine has run the orphan sender of
\* another; then the listener registered last has.
THEOREM LostPublicationsTold == Spec => []LastListenerTold
<1> DEFINE Inv == Types /\ CountInv /\ ListedInv /\ (~program.late => WaitInv /\ ToldInv)
<1>1. Init => Inv
  BY TypesInit, WaitInit, ToldInit
<1>2. Inv /\ [Next]_vars => Inv'
  BY TypesNext, ListedNext, WaitNext, ToldNext, ProgramKept
<1>3. ASSUME Inv
      PROVE  LastListenerTold
  <2> SUFFICES ASSUME reconnectPc = "ready", ~program.late, NEW i \in DOMAIN sendOrphans,
                      ~crossed \/ i = Len(sendOrphans)
               PROVE  sent[sendOrphans[i]] >= tagOffset
    BY DEF LastListenerTold, Told
  <2>1. i \in 1 .. Len(sendOrphans)
    BY <1>3 DEF Types, OtherTypes
  <2> QED BY <1>3, <2>1 DEF ToldInv, Heard
<1> QED BY <1>1, <1>2, <1>3, PTL DEF Spec

-----------------------------------------------------------------------------
(***************************************************************************)
(* Unbroken, for each listener that is steady: what it has been given, and *)
(* what its relay has still to pass on.                                    *)
(***************************************************************************)

Steady(l) == ~ctxDone /\ ~miscounted /\ ~crossed /\ ~cancelled[l]

Fresh(l) ==
    listenerPc[l] \in {"none", "created", "wantRead"} =>
        stream[l] = <<>> /\ inbox[l] = <<>> /\ first[l]

\* The relay has yet to pass on the last confirmations of the leg, and has counted those
\* before.  The first it passes on may be any, if the listener has had none.
OnLeg(l) ==
    /\ Len(inbox[l]) <= confirmed[leg]
    /\ \A i \in 1 .. Len(inbox[l]) : inbox[l][i].tag = confirmed[leg] - Len(inbox[l]) + i
    /\ first[l] => /\ sent[l] = legStart[leg]
                   /\ stream[l] # <<>> => Len(inbox[l]) = confirmed[leg]
    /\ ~first[l] => sent[l] + Len(inbox[l]) = legStart[leg] + confirmed[leg]

\* The leg is over and orphans may be sent for the rest of it.
OffLeg(l) == LegOver(l) /\ sent[l] \in legStart[leg] .. publishCount

Follows(l) ==
    /\ listenerPc[l] \notin {"hung", "closed"}
    /\ listenerPc[l] = "listening" =>
         /\ reconnectPc = "ready" => OnLeg(l)
         /\ reconnectPc \in {"redial", "waitLegs", "waitRest"} => OnLeg(l) \/ OffLeg(l)
         /\ reconnectPc \in {"counted", "sending"} => OffLeg(l)

\* A steady listener's orphans are sent by the goroutine of its own place in the list.
SendsTo(i, l) == orphaners[i].pc = "send" /\ sendOrphans[i] = l

\* The last confirmation a listener was given is the last it was counted.
CountedUp(l) ==
    /\ stream[l] # <<>> /\ (\A i \in 1 .. Len(orphaners) : ~SendsTo(i, l)) =>
         LastTag(l) = sent[l]
    /\ \A i \in 1 .. Len(orphaners) : SendsTo(i, l) =>
         /\ orphaners[i].count <= tagOffset
         /\ stream[l] # <<>> => LastTag(l) = orphaners[i].count
    /\ reconnectPc = "sending" => \A i \in 1 .. Len(orphaners) :
         orphaners[i].pc = "done" /\ sendOrphans[i] = l => sent[l] = tagOffset

Continuous(l) ==
    \A i \in 1 .. Len(stream[l]) - 1 : stream[l][i + 1].tag = stream[l][i].tag + 1

AnswerOf(l) == Fresh(l) /\ (Steady(l) => Follows(l) /\ CountedUp(l) /\ Continuous(l))

AnswerInv == \A l \in Listeners : AnswerOf(l)

\* A step that leaves the redialer, the orphans and this listener alone.
LEMMA AnswerKept ==
    ASSUME NEW l \in Listeners, AnswerOf(l),
           UNCHANGED <<reconnectPc, leg, legStart, tagOffset, sendOrphans, orphaners>>,
           open' \subseteq open, publishCount' = publishCount \/ reconnectPc = "ready",
           listenerPc[l] = "listening" => confirmed'[leg] = confirmed[leg],
           inbox'[l] = inbox[l], relayLeg'[l] = relayLeg[l], sent'[l] = sent[l],
           first'[l] = first[l], listenerPc'[l] = listenerPc[l], stream'[l] = stream[l],
           Steady(l)' => Steady(l)
    PROVE  AnswerOf(l)'
<1>1. Fresh(l)'
  BY DEF AnswerOf, Fresh
<1>2. ASSUME Steady(l)'
      PROVE  Follows(l)'
  <2>1. Follows(l)
    BY <1>2 DEF AnswerOf
  <2>2. listenerPc[l] = "listening" /\ OnLeg(l) => OnLeg(l)'
    BY DEF OnLeg
  <2>3. OffLeg(l) /\ publishCount' = publishCount => OffLeg(l)'
    BY DEF OffLeg, LegOver
  <2> QED BY <2>1, <2>2, <2>3 DEF Follows
<1>3. ASSUME Steady(l)'
      PROVE  CountedUp(l)' /\ Continuous(l)'
  <2>1. CountedUp(l) /\ Continuous(l)
    BY <1>3 DEF AnswerOf
  <2>2. LastTag(l)' = LastTag(l) /\ \A i : SendsTo(i, l)' <=> SendsTo(i, l)
    BY DEF LastTag, SendsTo
  <2> QED BY <2>1, <2>2 DEF CountedUp, Continuous
<1> QED BY <1>1, <1>2, <1>3 DEF AnswerOf

\* While the redialer does not wait for orphans.
LEMMA IdleCount ==
    ASSUME WaitInv, NEW l \in Listeners, reconnectPc # "sending"
    PROVE  /\ CountedUp(l) => (stream[l] # <<>> => LastTag(l) = sent[l])
           /\ /\ UNCHANGED orphaners /\ reconnectPc' # "sending"
              /\ stream'[l] # <<>> => LastTag(l)' = sent'[l]
              => CountedUp(l)'
<1>1. \A i \in 1 .. Len(orphaners) : orphaners[i].pc = "done"
  BY NobodySends
<1>2. \A i \in 1 .. Len(orphaners) : ~SendsTo(i, l)
  BY <1>1 DEF SendsTo
<1>3. CountedUp(l) => (stream[l] # <<>> => LastTag(l) = sent[l])
  BY <1>2 DEF CountedUp
<1>4. ASSUME UNCHANGED orphaners, reconnectPc' # "sending",
             stream'[l] # <<>> => LastTag(l)' = sent'[l]
      PROVE  CountedUp(l)'
  <2>1. \A i \in 1 .. Len(orphaners') : ~SendsTo(i, l)'
    BY <1>1, <1>4 DEF SendsTo
  <2> QED BY <1>4, <2>1 DEF CountedUp
<1> QED BY <1>3, <1>4

\* Steps of the operations and of Close.
LEMMA AnswersQuiet ==
    ASSUME Types, NEW l \in Listeners, AnswerOf(l), Operation \/ Closing
    PROVE  AnswerOf(l)'
<1>1. CASE Operation
  <2>1. /\ UNCHANGED <<tagOffset, closureVars, listenerPc, stream, reconnectPc, orphanVars,
                       ctxDone, channelVars, confirmed, legStart, relayVars, program,
                       panicked, crossed>>
        /\ miscounted => miscounted'
    BY <1>1, OperationDoes
  <2>2. CASE reconnectPc = "ready"
    BY <2>1, <2>2, AnswerKept DEF Steady
  <2>3. CASE reconnectPc # "ready"
    <3>1. reconnectPc = "stopped"
      BY <1>1, <2>3, OperationDoes DEF LockFree, Types, LockInv
    <3>2. Fresh(l)'
      BY <2>1 DEF AnswerOf, Fresh
    <3>3. Steady(l)' => Follows(l)'
      BY <2>1, <3>1 DEF AnswerOf, Follows, Steady
    <3>4. Steady(l)' => CountedUp(l)' /\ Continuous(l)'
      <4>1. LastTag(l)' = LastTag(l) /\ \A i : SendsTo(i, l)' <=> SendsTo(i, l)
        BY <2>1 DEF LastTag, SendsTo
      <4> QED BY <2>1, <4>1 DEF AnswerOf, Steady, CountedUp, Continuous
    <3> QED BY <3>2, <3>3, <3>4 DEF AnswerOf
  <2> QED BY <2>2, <2>3
<1>2. CASE Closing
  BY <1>2, ClosingDoes, AnswerKept DEF Steady
<1> QED BY <1>1, <1>2

\* Steps of the redialer that send nothing, or no longer.
LEMMA AnswersRedialing ==
    ASSUME Types, WaitInv, NEW l \in Listeners, AnswerOf(l), Redialing
    PROVE  AnswerOf(l)'
<1>1. /\ UNCHANGED <<publishCount, tagOffset, closureVars, listenerPc, stream, orphanVars,
                     ctxDone, channelVars, brokerVars, relayLeg, inbox, noteVars>>
      /\ reconnectPc \in {"ready", "redial", "waitLegs", "sending"}
      /\ reconnectPc' \in {"redial", "waitLegs", "waitRest", "stopped"}
      /\ reconnectPc = "sending" => sendsDone = 0
  BY RedialingDoes DEF OrphansSent
<1>2. cancelled[l] => cancelled'[l]
  BY RedialingDoes DEF Types, OtherTypes
<1>3. Fresh(l)'
  BY <1>1 DEF AnswerOf, Fresh
<1>4. ASSUME Steady(l)'
      PROVE  Follows(l)' /\ CountedUp(l)' /\ Continuous(l)'
  <2>1. Follows(l) /\ CountedUp(l) /\ Continuous(l)
    BY <1>1, <1>2, <1>4 DEF AnswerOf, Steady
  <2>2. (OnLeg(l)' <=> OnLeg(l)) /\ (OffLeg(l)' <=> OffLeg(l)) /\ LastTag(l)' = LastTag(l)
        /\ \A i : SendsTo(i, l)' <=> SendsTo(i, l)
    BY <1>1 DEF OnLeg, OffLeg, LegOver, LastTag, SendsTo
  <2>3. Follows(l)'
    BY <1>1, <2>1, <2>2 DEF Follows
  <2>4. CountedUp(l)' /\ Continuous(l)'
    BY <1>1, <2>1, <2>2 DEF CountedUp, Continuous
  <2> QED BY <2>1, <2>3, <2>4
<1> QED BY <1>3, <1>4 DEF AnswerOf

LEMMA AnswersSetOffset ==
    ASSUME Types, CountInv, FollowInv, WaitInv, NEW l \in Listeners, AnswerOf(l), SetOffset
    PROVE  AnswerOf(l)'
<1>1. /\ reconnectPc \in {"waitLegs", "waitRest"} /\ reconnectPc' = "counted"
      /\ ctxDone \/ \A m \in Listeners : WaitedFor(m) => LegOver(m)
      /\ UNCHANGED <<publishCount, flightVars, closureVars, listenerPc, stream, orphaners,
                     ctxDone, channelVars, brokerVars, relayVars, noteVars>>
  BY DEF SetOffset
<1>2. Fresh(l)'
  BY <1>1 DEF AnswerOf, Fresh
<1>3. ASSUME Steady(l)'
      PROVE  Follows(l)' /\ CountedUp(l)' /\ Continuous(l)'
  <2>1. Follows(l) /\ CountedUp(l) /\ Continuous(l) /\ Steady(l)
    BY <1>1, <1>3 DEF AnswerOf, Steady
  <2>2. ASSUME listenerPc[l] = "listening"
        PROVE  OffLeg(l)'
    <3>1. LegOver(l)
      BY <1>1, <2>1, <2>2 DEF Steady, WaitedFor
    <3>2. CASE OnLeg(l)
      <4>1. Len(inbox[l]) = 0
        BY <3>1, ListenerTypes DEF LegOver
      <4>2. publishCount = legStart[leg] + published[leg] /\ publishCount \in Nat
        BY <1>1, <2>1, ListenerTypes DEF Types, LockInv, NoReaders, CountInv, Steady
      <4>3. sent[l] = legStart[leg] \/ sent[l] = legStart[leg] + confirmed[leg]
        BY <3>2, <4>1, ListenerTypes DEF OnLeg
      <4>4. sent[l] \in legStart[leg] .. publishCount
        BY <4>2, <4>3, ListenerTypes
      <4> QED BY <1>1, <3>1, <4>4 DEF OffLeg, LegOver
    <3>3. CASE OffLeg(l)
      BY <1>1, <3>3 DEF OffLeg, LegOver
    <3> QED BY <1>1, <2>1, <2>2, <3>2, <3>3 DEF Follows
  <2>3. Follows(l)'
    BY <1>1, <2>1, <2>2 DEF Follows
  <2>4. stream'[l] # <<>> => LastTag(l)' = sent'[l]
    BY <1>1, <2>1, IdleCount DEF LastTag
  <2>5. CountedUp(l)'
    BY <1>1, <2>4, IdleCount
  <2> QED BY <1>1, <2>1, <2>3, <2>5 DEF Continuous
<1> QED BY <1>2, <1>3 DEF AnswerOf

LEMMA AnswersLaunch ==
    ASSUME Types, CountInv, WaitInv, NEW l \in Listeners, AnswerOf(l), LaunchOrphaners
    PROVE  AnswerOf(l)'
<1>1. /\ reconnectPc = "counted" /\ reconnectPc' = "sending"
      /\ UNCHANGED <<tagVars, closureVars, listenerPc, stream, ctxDone, channelVars,
                     brokerVars, relayVars, noteVars>>
  BY DEF LaunchOrphaners
<1>2. \A i \in 1 .. Len(orphaners') : orphaners'[i].pc = "start"
  BY TypesLaunch
<1>3. Fresh(l)'
  BY <1>1 DEF AnswerOf, Fresh
<1>4. ASSUME Steady(l)'
      PROVE  Follows(l)' /\ CountedUp(l)' /\ Continuous(l)'
  <2>1. Follows(l) /\ CountedUp(l) /\ Continuous(l)
    BY <1>1, <1>4 DEF AnswerOf, Steady
  <2>2. Follows(l)'
    BY <1>1, <2>1 DEF Follows, OffLeg, LegOver
  <2>3. stream'[l] # <<>> => LastTag(l)' = sent'[l]
    BY <1>1, <2>1, IdleCount DEF LastTag
  <2>4. \A i \in 1 .. Len(orphaners') : ~SendsTo(i, l)'
    BY <1>2 DEF SendsTo
  <2>5. CountedUp(l)'
    BY <1>2, <2>3, <2>4 DEF CountedUp
  <2> QED BY <1>1, <2>1, <2>2, <2>5 DEF Continuous
<1> QED BY <1>3, <1>4 DEF AnswerOf

\* Everyone who listens has been told of the publications of the old legs, and begins
\* the new one with them counted.
LEMMA AnswersFetch ==
    ASSUME Types, CountInv, InboxInv, FollowInv, WaitInv, ListedInv, NEW l \in Listeners,
           AnswerOf(l), FetchSucceeds
    PROVE  AnswerOf(l)'
<1>1. /\ reconnectPc = "sending" /\ reconnectPc' = "ready" /\ sendsDone = 0
      /\ UNCHANGED <<tagVars, closureVars, listenerPc, stream, orphanVars, ctxDone, confirmed,
                     inbox, cancelled, noteVars>>
  BY DEF FetchSucceeds, OrphansSent
<1>2. Fresh(l)'
  BY <1>1 DEF AnswerOf, Fresh
<1>3. \A i \in 1 .. Len(orphaners) : orphaners[i].pc = "done"
  BY <1>1, UnfinishedIsFinite DEF WaitInv, Unfinished
<1>4. Len(orphaners) = Len(sendOrphans)
  BY <1>1 DEF WaitInv
<1>5. ASSUME Steady(l)'
      PROVE  Follows(l)' /\ CountedUp(l)' /\ Continuous(l)'
  <2>1. Follows(l) /\ CountedUp(l) /\ Continuous(l) /\ Steady(l)
    BY <1>1, <1>5 DEF AnswerOf, Steady
  <2>2. ASSUME listenerPc[l] = "listening"
        PROVE  OnLeg(l)'
    <3>1. PICK i \in 1 .. Len(sendOrphans) : sendOrphans[i] = l
      BY <2>2 DEF ListedInv
    <3>2. sent[l] = tagOffset
      BY <1>1, <1>3, <1>4, <2>1, <3>1 DEF CountedUp
    <3>3. legStart'[leg'] = tagOffset /\ confirmed'[leg'] = 0
      BY <2>1, InboxFetch DEF Steady
    <3>4. inbox[l] = <<>> /\ Len(inbox[l]) = 0
      BY <1>1, <2>1, <2>2, ListenerTypes DEF Follows, OffLeg, LegOver
    <3>5. sent'[l] = sent[l] /\ inbox'[l] = inbox[l] /\ sent[l] \in Nat
      BY <1>1, ListenerTypes
    <3> QED BY <3>2, <3>3, <3>4, <3>5 DEF OnLeg
  <2>3. Follows(l)'
    BY <1>1, <2>1, <2>2 DEF Follows
  <2>4. \A i \in 1 .. Len(orphaners) : ~SendsTo(i, l) /\ ~SendsTo(i, l)'
    BY <1>1, <1>3 DEF SendsTo
  <2>5. CountedUp(l)'
    BY <1>1, <2>1, <2>4 DEF CountedUp, LastTag
  <2> QED BY <1>1, <2>1, <2>3, <2>5 DEF Continuous
<1> QED BY <1>2, <1>5 DEF AnswerOf

\* The confirmations of the leg in use reach every steady relay.
LEMMA AnswersBroker ==
    ASSUME Types, CountInv, InboxInv, FollowInv, NEW l \in Listeners, AnswerOf(l), Confirming
    PROVE  AnswerOf(l)'
<1>1. PICK g \in Legs :
        LET c == [tag |-> confirmed[g] + 1, of |-> legStart[g] + (confirmed[g] + 1)]
        IN  /\ g \in open /\ c \in Inboxed
            /\ confirmed' = [confirmed EXCEPT ![g] = @ + 1]
            /\ inbox' = [m \in Listeners |->
                           IF listenerPc[m] = "listening" /\ relayLeg[m] = g
                           THEN Append(inbox[m], c) ELSE inbox[m]]
            /\ UNCHANGED <<tagVars, closureVars, listenerPc, stream, redialVars, orphanVars,
                           ctxDone, channelVars, published, legStart, relayLeg, cancelled,
                           noteVars>>
  BY TypesBroker
<1> DEFINE c == [tag |-> confirmed[g] + 1, of |-> legStart[g] + (confirmed[g] + 1)]
<1>2. c \in Inboxed /\ c.tag = confirmed[g] + 1
  BY <1>1
<1>3. inbox'[l] = IF listenerPc[l] = "listening" /\ relayLeg[l] = g
                  THEN Append(inbox[l], c) ELSE inbox[l]
  BY <1>1
<1> HIDE DEF c
<1>4. \A h \in Legs : h # g => confirmed'[h] = confirmed[h]
  BY <1>1 DEF Types, NumberTypes
<1>5. confirmed'[g] = confirmed[g] + 1
  BY <1>1 DEF Types, NumberTypes
<1>6. Fresh(l)'
  BY <1>1, <1>3 DEF AnswerOf, Fresh
<1>7. CASE ~Steady(l)
  BY <1>1, <1>6, <1>7 DEF AnswerOf, Steady
<1>8. CASE listenerPc[l] # "listening"
  BY <1>1, <1>3, <1>8, AnswerKept DEF Steady
<1>9. CASE Steady(l) /\ listenerPc[l] = "listening"
  <2>1. relayLeg[l] = leg
    BY <1>9 DEF Steady, FollowInv, FollowOf, WaitedFor
  <2>2. CASE g # leg
    <3>1. inbox'[l] = inbox[l] /\ confirmed'[leg] = confirmed[leg]
      BY <1>3, <1>4, <2>1, <2>2, ListenerTypes
    <3> QED BY <1>1, <3>1, AnswerKept DEF Steady
  <2>3. CASE g = leg
    <3>1. inbox'[l] = Append(inbox[l], c) /\ inbox[l] \in Seq(Inboxed)
      BY <1>3, <1>9, <2>1, <2>3, ListenerTypes
    <3>2. /\ Len(inbox'[l]) = Len(inbox[l]) + 1
          /\ \A i \in 1 .. Len(inbox[l]) : inbox'[l][i] = inbox[l][i]
          /\ inbox'[l][Len(inbox[l]) + 1] = c
      BY <1>2, <3>1, SeqFacts
    <3>3. c.tag = confirmed[leg] + 1 /\ confirmed'[leg] = confirmed[leg] + 1
      BY <1>2, <1>5, <2>3
    <3>4. Follows(l) /\ CountedUp(l) /\ Continuous(l)
      BY <1>9 DEF AnswerOf
    <3>5. ~OffLeg(l)
      BY <1>1, <2>1, <2>3 DEF OffLeg, LegOver
    <3>6. Len(inbox[l]) \in Nat /\ confirmed[leg] \in Nat /\ sent[l] \in Nat
          /\ legStart[leg] \in Nat
      BY ListenerTypes
    <3>7. ASSUME OnLeg(l)
          PROVE  OnLeg(l)'
      <4>0. PICK n \in Nat, k \in Nat : /\ n = Len(inbox[l]) /\ n + 1 = Len(inbox'[l])
                                       /\ k = confirmed[leg] /\ k + 1 = confirmed'[leg]
        BY <3>2, <3>3, <3>6
      <4>1. ASSUME NEW i \in 1 .. Len(inbox'[l])
            PROVE  inbox'[l][i].tag = confirmed'[leg] - Len(inbox'[l]) + i
        <5>1. CASE i \in 1 .. Len(inbox[l])
          <6>1. inbox'[l][i].tag = confirmed[leg] - Len(inbox[l]) + i
            BY <3>2, <3>7, <5>1 DEF OnLeg
          <6>2. (k + 1) - (n + 1) + i = k - n + i
            OBVIOUS
          <6> QED BY <4>0, <6>1, <6>2
        <5>2. CASE i = Len(inbox[l]) + 1
          <6>1. inbox'[l][i].tag = confirmed[leg] + 1
            BY <3>2, <3>3, <5>2
          <6> QED BY <3>2, <3>3, <3>6, <5>2, <6>1
        <5> QED BY <3>2, <3>6, <5>1, <5>2
      <4>2. leg' = leg /\ UNCHANGED <<sent, first, stream, legStart>>
        BY <1>1
      <4>3. Len(inbox'[l]) <= confirmed'[leg]
        BY <3>2, <3>3, <3>6, <3>7 DEF OnLeg
      <4>4. first[l] => /\ sent[l] = legStart[leg]
                        /\ stream[l] # <<>> => Len(inbox'[l]) = confirmed'[leg]
        BY <3>2, <3>3, <3>7 DEF OnLeg
      <4>5. ASSUME ~first[l]
            PROVE  sent[l] + Len(inbox'[l]) = legStart[leg] + confirmed'[leg]
        <5>1. sent[l] + n = legStart[leg] + k
          BY <3>7, <4>0, <4>5 DEF OnLeg
        <5>2. sent[l] + (n + 1) = legStart[leg] + (k + 1)
          BY <3>6, <5>1
        <5> QED BY <4>0, <5>2
      <4> QED BY <4>1, <4>2, <4>3, <4>4, <4>5 DEF OnLeg
    <3>8. Follows(l)'
      BY <1>1, <3>4, <3>5, <3>7 DEF Follows
    <3>9. CountedUp(l)' /\ Continuous(l)'
      <4>1. LastTag(l)' = LastTag(l) /\ \A i : SendsTo(i, l)' <=> SendsTo(i, l)
        BY <1>1 DEF LastTag, SendsTo
      <4> QED BY <1>1, <3>4, <4>1 DEF CountedUp, Continuous
    <3> QED BY <1>6, <3>8, <3>9 DEF AnswerOf
  <2> QED BY <2>2, <2>3
<1> QED BY <1>7, <1>8, <1>9

\* A listener registers while the redialer rests, and has been counted all publications
\* of the earlier legs.
LEMMA AnswersRegisters ==
    ASSUME ~program.late, Types, CountInv, InboxInv, FollowInv, WaitInv, ToldInv,
           NEW l \in Listeners, AnswerOf(l), NEW m \in Listeners,
           Registers(m) \/ RelayShutdown(m)
    PROVE  AnswerOf(l)'
<1>1. /\ UNCHANGED <<tagVars, first, stream, redialVars, orphanVars, ctxDone, channelVars,
                     brokerVars, inbox, cancelled, noteVars>>
      /\ l # m => sent'[l] = sent[l] /\ relayLeg'[l] = relayLeg[l]
                  /\ listenerPc'[l] = listenerPc[l]
  BY DEF Registers, CreateListener, AddSender, StartListening, RelayShutdown, MoveListener,
         Types, OtherTypes
<1>2. CASE RelayShutdown(m)
  <2>1. /\ listenerPc' = [listenerPc EXCEPT ![m] = "closed"]
        /\ UNCHANGED <<sent, sendOrphans, relayLeg>>
    BY <1>2 DEF RelayShutdown, MoveListener
  <2>2. CASE l # m
    BY <1>1, <2>1, <2>2, AnswerKept DEF Steady
  <2>3. CASE l = m
    <3>1. ctxDone \/ cancelled[m]
      BY <1>2 DEF RelayShutdown
    <3>2. listenerPc'[l] = "closed"
      BY <1>2, <2>3 DEF RelayShutdown, MoveListener, Types, OtherTypes
    <3> QED BY <1>1, <2>3, <3>1, <3>2 DEF AnswerOf, Fresh, Steady
  <2> QED BY <2>2, <2>3
<1>3. CASE Registers(m)
  <2>1. reconnectPc = "ready"
    BY <1>3 DEF Registers, CreateListener, AddSender, StartListening, MoveListener, WaitInv,
                Registering
  <2>2. listenerPc[m] \in {"none", "created", "wantRead"}
    BY <1>3 DEF Registers, CreateListener, AddSender, StartListening, MoveListener
  <2>3. Fresh(l)'
    <3>1. l = m => Fresh(l) /\ listenerPc[l] \in {"none", "created", "wantRead"}
      BY <2>2 DEF AnswerOf
    <3> QED BY <1>1, <3>1 DEF AnswerOf, Fresh
  <2>4. ASSUME Steady(l)'
        PROVE  Follows(l)' /\ CountedUp(l)' /\ Continuous(l)'
    <3>1. Steady(l) /\ Follows(l) /\ CountedUp(l) /\ Continuous(l)
      BY <1>1, <2>4 DEF AnswerOf, Steady
    <3>2. stream'[l] # <<>> => LastTag(l)' = sent'[l]
      <4>1. CASE l # m
        BY <1>1, <2>1, <3>1, <4>1, IdleCount DEF LastTag
      <4>2. CASE l = m
        BY <1>1, <2>2, <4>2 DEF AnswerOf, Fresh
      <4> QED BY <4>1, <4>2
    <3>3. CountedUp(l)'
      BY <1>1, <2>1, <3>2, IdleCount
    <3>4. CASE l # m
      <4>1. OnLeg(l) => OnLeg(l)'
        BY <1>1, <3>4 DEF OnLeg
      <4>2. Follows(l)'
        BY <1>1, <2>1, <3>1, <3>4, <4>1 DEF Follows
      <4> QED BY <1>1, <3>1, <3>3, <4>2 DEF Continuous
    <3>5. CASE l = m
      <4>1. stream[l] = <<>> /\ inbox[l] = <<>> /\ first[l] /\ Len(inbox[l]) = 0
        BY <2>2, <3>5, ListenerTypes DEF AnswerOf, Fresh
      <4>2. listenerPc'[l] \in {"created", "wantRead", "listening"}
        BY <1>3, <3>1, <3>5 DEF Registers, CreateListener, AddSender, StartListening,
                                MoveListener, Types, OtherTypes, Steady
      <4>3. ASSUME listenerPc'[l] = "listening"
            PROVE  OnLeg(l)'
        <5>1. StartListening(l)
          BY <1>3, <3>5, <4>3 DEF Registers, CreateListener, AddSender, MoveListener,
                                  Types, OtherTypes
        <5>2. sent[l] = tagOffset /\ sent'[l] = sent[l]
          BY <5>1 DEF StartListening, MoveListener, ToldInv
        <5>3. tagOffset = legStart[leg]
          BY <2>1, <3>1 DEF CountInv, Steady
        <5>4. Len(inbox'[l]) = 0 /\ stream'[l] = <<>> /\ first'[l] /\ confirmed'[leg'] \in Nat
          BY <1>1, <4>1, ListenerTypes
        <5> QED BY <1>1, <5>2, <5>3, <5>4 DEF OnLeg
      <4>4. Follows(l)'
        BY <1>1, <2>1, <4>2, <4>3 DEF Follows
      <4> QED BY <1>1, <3>1, <3>3, <4>4 DEF Continuous
    <3> QED BY <3>4, <3>5
  <2> QED BY <2>3, <2>4 DEF AnswerOf
<1> QED BY <1>2, <1>3

\* A confirmation that continues what the listener was given before.
LEMMA ContinuedByOne ==
    ASSUME NEW l \in Listeners, NEW c \in Confirmations,
           stream \in [Listeners -> Seq(Confirmations)],
           stream' = [stream EXCEPT ![l] = Append(@, c)], Continuous(l),
           stream[l] # <<>> => c.tag = LastTag(l) + 1
    PROVE  Continuous(l)' /\ stream'[l] # <<>> /\ LastTag(l)' = c.tag
<1>1. stream[l] \in Seq(Confirmations) /\ stream'[l] = Append(stream[l], c)
  OBVIOUS
<1>2. /\ Len(stream[l]) \in Nat /\ Len(stream'[l]) = Len(stream[l]) + 1
      /\ stream[l] = <<>> <=> Len(stream[l]) = 0
      /\ stream'[l][Len(stream[l]) + 1] = c
      /\ \A i \in 1 .. Len(stream[l]) : stream'[l][i] = stream[l][i]
  BY <1>1
<1>3. stream'[l] # <<>> /\ stream'[l][Len(stream'[l])] = c
  BY <1>1, <1>2
<1>4. ASSUME NEW i \in 1 .. Len(stream'[l]) - 1
      PROVE  stream'[l][i + 1].tag = stream'[l][i].tag + 1
  <2>1. CASE i < Len(stream[l])
    <3>1. i \in 1 .. Len(stream[l]) - 1 /\ i \in 1 .. Len(stream[l])
          /\ i + 1 \in 1 .. Len(stream[l])
      BY <1>2, <2>1
    <3> QED BY <1>2, <3>1 DEF Continuous
  <2>2. CASE i = Len(stream[l])
    <3>1. stream[l] # <<>> /\ i \in 1 .. Len(stream[l])
      BY <1>2, <2>2
    <3>2. stream'[l][i + 1] = c /\ stream'[l][i] = stream[l][Len(stream[l])]
      BY <1>2, <2>2, <3>1
    <3> QED BY <3>1, <3>2 DEF LastTag
  <2> QED BY <1>2, <2>1, <2>2
<1> QED BY <1>3, <1>4 DEF Continuous, LastTag

\* The relay passes on the next confirmation of the leg.
LEMMA AnswersRelay ==
    ASSUME Types, CountInv, InboxInv, FollowInv, WaitInv, NEW l \in Listeners, AnswerOf(l),
           NEW m \in Listeners, RelayEvent(m)
    PROVE  AnswerOf(l)'
<1> DEFINE tag == inbox[m][1].tag
           c == [tag |-> tag + tagOffset, orphan |-> FALSE, of |-> inbox[m][1].of]
<1>1. /\ listenerPc[m] = "listening" /\ inbox[m] # <<>> /\ Len(inbox[m]) >= 1
      /\ inbox[m][1] \in Inboxed
      /\ stream' = [stream EXCEPT ![m] = Append(@, c)] /\ c \in Confirmations
      /\ sent' = [sent EXCEPT ![m] = IF first[m] THEN sent[m] + tag ELSE sent[m] + 1]
      /\ first' = [first EXCEPT ![m] = FALSE]
      /\ inbox' = [inbox EXCEPT ![m] = Tail(@)]
      /\ UNCHANGED <<tagVars, sendOrphans, listenerPc, redialVars, orphanVars, ctxDone,
                     channelVars, brokerVars, relayLeg, cancelled, noteVars>>
  BY RelayEventDoes
<1>2. c.tag = tag + tagOffset
  OBVIOUS
<1> HIDE DEF c
<1>3. /\ stream \in [Listeners -> Seq(Confirmations)] /\ sent \in [Listeners -> Nat]
      /\ first \in [Listeners -> BOOLEAN] /\ inbox \in [Listeners -> Seq(Inboxed)]
  BY DEF Types, OtherTypes
<1>4. CASE l # m
  <2>1. inbox'[l] = inbox[l] /\ sent'[l] = sent[l] /\ first'[l] = first[l]
        /\ stream'[l] = stream[l]
    BY <1>1, <1>3, <1>4
  <2> QED BY <1>1, <2>1, AnswerKept DEF Steady
<1>5. CASE l = m
  <2>1. Fresh(l)'
    BY <1>1, <1>5 DEF Fresh
  <2>2. ASSUME Steady(l)'
        PROVE  Follows(l)' /\ CountedUp(l)' /\ Continuous(l)'
    <3>1. Steady(l) /\ Follows(l) /\ CountedUp(l) /\ Continuous(l)
      BY <1>1, <2>2 DEF AnswerOf, Steady
    <3>2. /\ relayLeg[l] = leg /\ tagOffset = legStart[leg] /\ ~LegOver(l)
          /\ reconnectPc \in {"ready", "redial", "waitLegs", "waitRest"}
      <4>1. ~LegOver(l) /\ WaitedFor(l)
        BY <1>1, <1>5, <3>1 DEF LegOver, WaitedFor, Steady
      <4>2. FollowOf(l)
        BY <3>1 DEF FollowInv, Steady
      <4>3. reconnectPc # "stopped" /\ reconnectPc \in ReconnectPcs
        BY <3>1 DEF CountInv, Steady, Types, OtherTypes
      <4> QED BY <4>1, <4>2, <4>3 DEF FollowOf, ReconnectPcs
    <3>3. OnLeg(l)
      BY <1>1, <1>5, <3>1, <3>2 DEF Follows, OffLeg
    <3>4. PICK n \in Nat, k \in Nat, b \in Nat, f \in Nat, t \in Nat :
            n = Len(inbox[l]) /\ k = confirmed[leg] /\ b = legStart[leg] /\ f = sent[l]
            /\ t = tag
      <4>1. tag \in Nat
        BY <1>1, ConstantsAssumption DEF Inboxed
      <4> QED BY <4>1, ListenerTypes
    <3>5. n >= 1 /\ n <= k /\ t = k - n + 1
      <4>1. 1 \in 1 .. Len(inbox[l])
        BY <1>1, <1>5, <3>4
      <4>2. tag = confirmed[leg] - Len(inbox[l]) + 1
        BY <1>5, <3>3, <4>1 DEF OnLeg
      <4>3. Len(inbox[l]) <= confirmed[leg]
        BY <3>3 DEF OnLeg
      <4> QED BY <1>1, <1>5, <3>4, <4>2, <4>3
    <3>6. c.tag = t + b
      BY <1>2, <3>2, <3>4
    <3>7. sent'[l] = (IF first[l] THEN f + t ELSE f + 1) /\ first'[l] = FALSE
          /\ inbox'[l] = Tail(inbox[l])
      BY <1>1, <1>3, <1>5, <3>4
    <3>8. /\ first[l] => f = b /\ (stream[l] # <<>> => n = k)
          /\ ~first[l] => f + n = b + k
      BY <3>3, <3>4 DEF OnLeg
    <3>9. sent'[l] = t + b
      <4>1. CASE first[l]
        BY <3>4, <3>7, <3>8, <4>1
      <4>2. CASE ~first[l]
        <5>1. f + n = b + k
          BY <3>8, <4>2
        <5>2. f + 1 = t + b
          BY <3>5, <5>1
        <5> QED BY <3>7, <4>2, <5>2
      <4> QED BY <4>1, <4>2
    <3>10. stream[l] # <<>> => t + b = f + 1
      <4>1. CASE first[l]
        BY <3>4, <3>5, <3>8, <4>1
      <4>2. CASE ~first[l]
        <5>1. f + n = b + k
          BY <3>8, <4>2
        <5> QED BY <3>5, <5>1
      <4> QED BY <4>1, <4>2
    <3>11. stream[l] # <<>> => c.tag = LastTag(l) + 1
      <4>1. stream[l] # <<>> => LastTag(l) = sent[l]
        BY <3>1, <3>2, IdleCount
      <4> QED BY <3>4, <3>6, <3>10, <4>1
    <3>12. Continuous(l)' /\ stream'[l] # <<>> /\ LastTag(l)' = c.tag
      BY <1>1, <1>3, <1>5, <3>1, <3>11, ContinuedByOne
    <3>13. CountedUp(l)'
      BY <1>1, <3>2, <3>6, <3>9, <3>12, IdleCount
    <3>14. OnLeg(l)'
      <4>1. /\ Len(inbox'[l]) = n - 1
            /\ \A i \in 1 .. n - 1 : inbox'[l][i] = inbox[l][i + 1]
        <5>1. inbox[l] \in Seq(Inboxed) /\ inbox[l] # <<>>
          BY <1>1, <1>5, ListenerTypes
        <5>2. /\ Len(Tail(inbox[l])) = Len(inbox[l]) - 1
              /\ \A i \in 1 .. Len(inbox[l]) - 1 : Tail(inbox[l])[i] = inbox[l][i + 1]
          BY <5>1, SeqFacts
        <5> QED BY <3>4, <3>7, <5>2
      <4>2. leg' = leg /\ confirmed'[leg] = k /\ legStart'[leg] = b
        BY <1>1, <3>4
      <4>3. ASSUME NEW i \in 1 .. n - 1
            PROVE  inbox'[l][i].tag = k - (n - 1) + i
        <5>1. i + 1 \in 1 .. n /\ i \in Nat
          BY <3>4
        <5>2. inbox[l][i + 1].tag = k - n + (i + 1)
          BY <3>3, <3>4, <5>1 DEF OnLeg
        <5>3. k - n + (i + 1) = k - (n - 1) + i
          BY <5>1
        <5> QED BY <4>1, <5>2, <5>3
      <4>4. n - 1 <= k
        BY <3>5
      <4>5. (t + b) + (n - 1) = b + k
        BY <3>5
      <4> QED BY <3>7, <3>9, <4>1, <4>2, <4>3, <4>4, <4>5 DEF OnLeg
    <3>15. Follows(l)'
      BY <1>1, <3>1, <3>2, <3>14 DEF Follows
    <3> QED BY <3>12, <3>13, <3>15
  <2> QED BY <2>1, <2>2 DEF AnswerOf
<1> QED BY <1>4, <1>5

\* The goroutine of a steady listener starts with what it was counted and sends it an
\* orphan for every publication from there to the offset.
LEMMA AnswersOrphaner ==
    ASSUME Types, CountInv, WaitInv, ListedInv, NEW l \in Listeners, AnswerOf(l),
           NEW i \in DOMAIN orphaners, Orphaner(i)
    PROVE  AnswerOf(l)'
<1>1. /\ i \in Unfinished
      /\ UNCHANGED <<reconnectPc, sendOrphans, listenerPc, tagOffset>>
      /\ Len(orphaners') = Len(orphaners)
      /\ \A j \in 1 .. Len(orphaners) : j # i => orphaners'[j] = orphaners[j]
  BY OrphanerProgress
<1>2. /\ reconnectPc = "sending" /\ tagOffset = publishCount /\ ~Registering
      /\ Len(orphaners) = Len(sendOrphans) /\ i \in 1 .. Len(orphaners)
  BY <1>1 DEF WaitInv, CountInv, Unfinished
<1>3. /\ UNCHANGED <<publishCount, first, ctxDone, channelVars, brokerVars, relayVars,
                     miscounted>>
      /\ ~crossed' => ~crossed
  <2>1. CASE OrphanerStarts(i)
    BY <2>1, OrphanerStartsDoes
  <2>2. CASE OrphanerSends(i)
    BY <2>2 DEF OrphanerSends
  <2>3. CASE OrphanerEnds(i)
    BY <2>3 DEF OrphanerEnds
  <2> QED BY <2>1, <2>2, <2>3 DEF Orphaner
<1>4. ~crossed => orphaners[i].sender = i
  BY <1>2 DEF Types, SenderInv
<1>5. sent \in [Listeners -> Nat] /\ stream \in [Listeners -> Seq(Confirmations)]
      /\ orphaners \in Seq(Goroutine) /\ Len(orphaners) \in Nat
  BY DEF Types, OtherTypes
<1>6. sendOrphans[i] \in Listeners
  BY <1>2, SenderIsAListener
<1>8. Fresh(l)'
  <2>1. listenerPc[l] = "none" => stream'[l] = stream[l]
    <3>1. CASE OrphanerSends(i)
      <4>1. PICK j \in 1 .. Len(sendOrphans) : j = orphaners[i].sender
        BY SenderIsAListener
      <4>2. listenerPc[l] = "none" => l # sendOrphans[j]
        BY DEF ListedInv
      <4> QED BY <1>5, <3>1, <4>1, <4>2, OrphanerSendsDoes
    <3>2. CASE ~OrphanerSends(i)
      BY <3>2 DEF Orphaner, OrphanerStarts, OrphanerEnds
    <3> QED BY <3>1, <3>2
  <2> QED BY <1>1, <1>2, <1>3, <2>1 DEF AnswerOf, Fresh, Registering
<1>9. ASSUME Steady(l)'
      PROVE  Follows(l)' /\ CountedUp(l)' /\ Continuous(l)'
  <2>1. Steady(l) /\ Follows(l) /\ CountedUp(l) /\ Continuous(l) /\ ~crossed /\ ~crossed'
        /\ orphaners[i].sender = i
    BY <1>3, <1>4, <1>9 DEF AnswerOf, Steady
\* What each goroutine step does, with the sender in its own place.
  <2>2. \/ /\ OrphanerStarts(i) /\ UNCHANGED <<sent, stream>> /\ orphaners[i].pc = "start"
           /\ orphaners'[i].pc = "send" /\ orphaners'[i].count = sent[sendOrphans[i]]
        \/ /\ OrphanerSends(i) /\ UNCHANGED sent /\ orphaners[i].pc = "send"
           /\ orphaners[i].count < tagOffset
           /\ orphaners'[i].pc = "send" /\ orphaners'[i].count = orphaners[i].count + 1
           /\ \A m \in Listeners : m # sendOrphans[i] => stream'[m] = stream[m]
        \/ /\ OrphanerEnds(i) /\ UNCHANGED stream /\ orphaners[i].pc = "send"
           /\ orphaners[i].count >= tagOffset /\ orphaners'[i].pc = "done"
           /\ sent'[sendOrphans[i]] = orphaners[i].count
           /\ \A m \in Listeners : m # sendOrphans[i] => sent'[m] = sent[m]
    <3>1. CASE OrphanerStarts(i)
      <4>1. /\ orphaners[i].pc = "start" /\ UNCHANGED <<sent, stream>>
            /\ orphaners' = [orphaners EXCEPT ![i] =
                 [pc |-> "send", sender |-> i, count |-> sent[sendOrphans[i]]]]
        BY <2>1, <3>1, OrphanerStartsDoes
      <4> QED BY <1>2, <1>5, <3>1, <4>1
    <3>2. CASE OrphanerSends(i)
      <4> DEFINE c == [tag |-> orphaners[i].count + 1, orphan |-> TRUE, of |-> 0]
      <4>1. /\ orphaners[i].pc = "send" /\ orphaners[i].count < tagOffset /\ UNCHANGED sent
            /\ stream' = [stream EXCEPT ![sendOrphans[i]] = Append(@, c)]
            /\ orphaners' = [orphaners EXCEPT ![i] =
                 [pc |-> "send", sender |-> orphaners[i].sender,
                  count |-> orphaners[i].count + 1]]
        BY <2>1, <3>2, OrphanerSendsDoes
      <4> HIDE DEF c
      <4> QED BY <1>2, <1>5, <3>2, <4>1
    <3>3. CASE OrphanerEnds(i)
      <4>1. /\ orphaners[i].pc = "send" /\ orphaners[i].count >= tagOffset /\ UNCHANGED stream
            /\ sent' = [sent EXCEPT ![sendOrphans[i]] = orphaners[i].count]
            /\ orphaners' = [orphaners EXCEPT ![i] =
                 [pc |-> "done", sender |-> i, count |-> 0]]
        BY <2>1, <3>3, OrphanerEndsDoes
      <4> QED BY <1>2, <1>5, <1>6, <3>3, <4>1
    <3> QED BY <3>1, <3>2, <3>3 DEF Orphaner
  <2>3. \A j \in 1 .. Len(orphaners) : j # i => (SendsTo(j, l)' <=> SendsTo(j, l))
    BY <1>1 DEF SendsTo
  <2>4. CASE l # sendOrphans[i]
    <3>1. sent'[l] = sent[l] /\ stream'[l] = stream[l] /\ LastTag(l)' = LastTag(l)
      BY <2>2, <2>4 DEF LastTag
    <3>2. ~SendsTo(i, l) /\ ~SendsTo(i, l)'
      BY <1>1, <2>4 DEF SendsTo
    <3>3. Follows(l)'
      BY <1>1, <1>2, <1>3, <2>1, <3>1 DEF Follows, OffLeg, LegOver
    <3>4. \A j \in 1 .. Len(orphaners) : sendOrphans[j] = l => orphaners'[j] = orphaners[j]
      BY <1>1, <2>4
    <3>5. CountedUp(l)'
      BY <1>1, <2>1, <2>3, <3>1, <3>2, <3>4 DEF CountedUp, SendsTo
    <3> QED BY <2>1, <3>1, <3>3, <3>5 DEF Continuous
  <2>5. CASE l = sendOrphans[i]
    <3>1. \A j \in 1 .. Len(orphaners) : j # i => sendOrphans[j] # l
      BY <1>2, <2>5 DEF ListedInv
    <3>2. \A j \in 1 .. Len(orphaners) : j # i => ~SendsTo(j, l) /\ ~SendsTo(j, l)'
      BY <1>1, <3>1 DEF SendsTo
    <3>3. OffLeg(l) /\ listenerPc[l] = "listening"
      <4>1. listenerPc[l] \notin {"none", "created", "wantRead", "hung", "closed"}
        BY <1>2, <2>1, <2>5 DEF ListedInv, Registering, Follows
      <4> QED BY <1>2, <2>1, <4>1, ListenerTypes DEF Follows, ListenerPcs
    <3>4. sent[l] \in legStart[leg] .. publishCount /\ sent[l] \in Nat /\ tagOffset \in Nat
          /\ orphaners[i].count \in Nat /\ legStart[leg] \in Nat /\ legStart[leg] <= publishCount
      BY <3>3, ListenerTypes, SenderIsAListener DEF OffLeg
    <3>5. CASE OrphanerStarts(i)
      <4>1. /\ UNCHANGED <<sent, stream>> /\ orphaners[i].pc = "start"
            /\ orphaners'[i].pc = "send" /\ orphaners'[i].count = sent[l]
        BY <2>2, <2>5, <3>5 DEF OrphanerStarts, OrphanerSends, OrphanerEnds
      <4>2. LastTag(l)' = LastTag(l) /\ \A j \in 1 .. Len(orphaners) : ~SendsTo(j, l)
        BY <3>2, <4>1 DEF LastTag, SendsTo
      <4>3. stream[l] # <<>> => LastTag(l) = sent[l]
        BY <2>1, <4>2 DEF CountedUp
      <4>4. sent[l] <= tagOffset
        BY <1>2, <3>4
      <4>5. SendsTo(i, l)'
        BY <1>1, <2>5, <4>1 DEF SendsTo
      <4>6. CountedUp(l)'
        BY <1>1, <1>2, <3>1, <3>2, <4>1, <4>2, <4>3, <4>4, <4>5 DEF CountedUp
      <4>7. Follows(l)'
        BY <1>1, <1>2, <1>3, <2>1, <4>1 DEF Follows, OffLeg, LegOver
      <4> QED BY <2>1, <4>1, <4>6, <4>7 DEF Continuous
    <3>6. CASE OrphanerSends(i)
      <4> DEFINE c == [tag |-> orphaners[i].count + 1, orphan |-> TRUE, of |-> 0]
      <4>1. /\ orphaners[i].pc = "send" /\ orphaners[i].count < tagOffset /\ UNCHANGED sent
            /\ orphaners'[i].pc = "send" /\ orphaners'[i].count = orphaners[i].count + 1
        BY <2>2, <3>6 DEF OrphanerStarts, OrphanerSends, OrphanerEnds
      <4>2. c \in Confirmations /\ stream' = [stream EXCEPT ![l] = Append(@, c)]
        BY <2>1, <2>5, <3>6, OrphanerSendsDoes
      <4>3. c.tag = orphaners[i].count + 1
        OBVIOUS
      <4> HIDE DEF c
      <4>4. SendsTo(i, l) /\ SendsTo(i, l)'
        BY <1>1, <2>5, <4>1 DEF SendsTo
      <4>5. stream[l] # <<>> => c.tag = LastTag(l) + 1
        BY <1>2, <2>1, <4>3, <4>4 DEF CountedUp
      <4>6. Continuous(l)' /\ stream'[l] # <<>> /\ LastTag(l)' = c.tag
        BY <1>5, <2>1, <4>2, <4>5, ContinuedByOne
      <4>7. orphaners'[i].count <= tagOffset
        BY <3>4, <4>1
      <4>8. CountedUp(l)'
        BY <1>1, <1>2, <3>1, <3>2, <4>1, <4>3, <4>4, <4>6, <4>7 DEF CountedUp
      <4>9. Follows(l)'
        BY <1>1, <1>2, <1>3, <2>1, <4>1 DEF Follows, OffLeg, LegOver
      <4> QED BY <4>6, <4>8, <4>9
    <3>7. CASE OrphanerEnds(i)
      <4>1. /\ UNCHANGED stream /\ orphaners[i].pc = "send" /\ orphaners[i].count >= tagOffset
            /\ orphaners'[i].pc = "done" /\ sent'[l] = orphaners[i].count
        BY <2>2, <2>5, <3>7 DEF OrphanerStarts, OrphanerSends, OrphanerEnds
      <4>2. SendsTo(i, l)
        BY <2>5, <4>1 DEF SendsTo
      <4>3. orphaners[i].count <= tagOffset
            /\ (stream[l] # <<>> => LastTag(l) = orphaners[i].count)
        BY <1>2, <2>1, <4>2 DEF CountedUp
      <4>4. sent'[l] = tagOffset
        BY <3>4, <4>1, <4>3
      <4>5. LastTag(l)' = LastTag(l) /\ \A j \in 1 .. Len(orphaners) : ~SendsTo(j, l)'
        BY <3>2, <4>1 DEF LastTag, SendsTo
      <4>6. CountedUp(l)'
        BY <1>1, <1>2, <3>1, <4>1, <4>3, <4>4, <4>5 DEF CountedUp
      <4>7. OffLeg(l)'
        BY <1>2, <1>3, <3>3, <3>4, <4>4 DEF OffLeg, LegOver
      <4>8. Follows(l)'
        BY <1>1, <1>2, <2>1, <3>3, <4>7 DEF Follows
      <4> QED BY <2>1, <4>1, <4>6, <4>8 DEF Continuous
    <3> QED BY <3>5, <3>6, <3>7 DEF Orphaner
  <2> QED BY <2>4, <2>5
<1> QED BY <1>8, <1>9 DEF AnswerOf

LEMMA AnswersInit == Init => AnswerInv
<1> SUFFICES ASSUME Init, NEW l \in Listeners PROVE AnswerOf(l)
  BY DEF AnswerInv
<1>1. Len(<<>>) = 0 /\ \A i \in 1 .. 0 - 1 : FALSE
  OBVIOUS
<1>2. listenerPc[l] = "none" /\ stream[l] = <<>> /\ inbox[l] = <<>> /\ first[l]
      /\ orphaners = <<>> /\ reconnectPc = "ready"
  BY DEF Init
<1>3. Fresh(l) /\ Follows(l) /\ CountedUp(l) /\ Continuous(l)
  BY <1>1, <1>2 DEF Fresh, Follows, CountedUp, Continuous
<1> QED BY <1>3 DEF AnswerOf

LEMMA AnswersNext ==
    ASSUME ~program.late, Types, CountInv, InboxInv, FollowInv, WaitInv, ListedInv, ToldInv,
           AnswerInv, [Next]_vars
    PROVE  AnswerInv'
<1> SUFFICES ASSUME NEW l \in Listeners PROVE AnswerOf(l)'
  BY DEF AnswerInv
<1>1. AnswerOf(l)
  BY DEF AnswerInv
<1>2. CASE UNCHANGED vars
  BY <1>1, <1>2, AnswerKept DEF vars, Steady
<1>3. CASE Next
  BY <1>1, <1>3, NextSteps, AnswersQuiet, AnswersRedialing, AnswersSetOffset, AnswersLaunch,
     AnswersFetch, AnswersBroker, AnswersRegisters, AnswersRelay, AnswersOrphaner
<1> QED BY <1>2, <1>3

\* However often the Channel reconnects, for whatever reason, and however many listeners
\* it has, each gets one confirmation after another without a gap or a repetition.  The
\* exceptions are those that Unbroken names.
THEOREM ConfirmationsUnbroken == Spec => []Unbroken
<1> DEFINE Inv == /\ Types /\ CountInv /\ InboxInv /\ FollowInv /\ ListedInv
                  /\ ~program.late => WaitInv /\ ToldInv /\ AnswerInv
<1>1. Init => Inv
  BY TypesInit, InboxInit, WaitInit, ToldInit, AnswersInit
<1>2. Inv /\ [Next]_vars => Inv'
  BY TypesNext, InboxNext, ListedNext, WaitNext, ToldNext, AnswersNext, ProgramKept
<1>3. Inv => Unbroken
  BY DEF AnswerInv, AnswerOf, Steady, Continuous, Unbroken
<1> QED BY <1>1, <1>2, <1>3, PTL DEF Spec
=============================================================================
