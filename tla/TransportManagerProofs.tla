---------------------- MODULE TransportManagerProofs ----------------------
(***************************************************************************)
(* Proofs about TransportManager, for any number of callers, closers,      *)
(* subscribers and transports.  The argument about the transport lock is   *)
(* the inductive invariant LockInv: a redialer that replaces the transport *)
(* holds the lock for write and nobody holds it for read, and before the   *)
(* object is handed over, when the redialer takes no lock, nobody calls.   *)
(***************************************************************************)
EXTENDS TransportManager, TLAPS

\* Labels of the initial dial.
DialPcs == {"redial", "dialing", "announceUp", "announcingUp", "announceErr",
            "announcingErr", "done", "failed"}

\* The readers of the lock are the operations that run.
ReadersRun == \A p \in Callers : p \in readers <=> opPc[p] = "running"

\* Nobody calls before the object is handed over.
CallsWhenReady == \A p \in Callers : opPc[p] # "idle" => Ready

\* The initial dial goes through its own labels only.
InitialDial == redialPc[0] \in DialPcs

\* Who is at a label of the write lock has announced itself.
WriterAnnounced ==
    /\ \A r \in Redialers \ {0} : redialPc[r] \in Exclusive \cup {"draining"} => writer = r
    /\ \A c \in Closers : closePc[c] = "draining" => writer = c

\* A redialer that has the lock has it alone.
WriterAlone ==
    \A r \in Redialers \ {0} : redialPc[r] \in Exclusive => readers = {}

\* A dial starts with an empty error channel, and ends with a transport.
DialStartsClean == \A r \in Redialers : redialPc[r] = "dialing" => opErrorEncountered = 0
DialGivesTransport ==
    \A r \in Redialers : redialPc[r] \in {"announceUp", "announcingUp"} => current # 0

LockInv ==
    /\ ReadersRun
    /\ CallsWhenReady
    /\ InitialDial
    /\ WriterAnnounced
    /\ WriterAlone
    /\ DialStartsClean
    /\ DialGivesTransport
    /\ TransportStableDuringOp
    /\ ErrorOfCurrentTransport

-----------------------------------------------------------------------------
(***************************************************************************)
(* Types.                                                                  *)
(***************************************************************************)

\* A list of subscribers of one kind is a list of subscribers.
LEMMA ListOfSubs ==
    /\ Seq(DialSubs) \subseteq Seq(Subs)
    /\ Seq(DisconnectSubs) \subseteq Seq(Subs)
    /\ Seq(CloseSubs) \subseteq Seq(Subs)
BY DEF Subs

\* What the code's StartSending and FinishSending keep typed.
LEMMA TypeOfSending ==
    ASSUME TypeOK, NEW w \in Writers, NEW list \in Seq(Subs),
           StartSending(w, list) \/ FinishSending(w)
    PROVE  /\ subLock' \in Writers \cup {NoOne}
           /\ sending' \in Seq(Subs)
           /\ UNCHANGED <<dialSubs, disconnectSubs, closeSubs, chan, buffered>>
BY DEF TypeOK, StartSending, FinishSending

\* The first state is typed.
LEMMA TypeInit == Init => TypeOK
<1> SUFFICES ASSUME Init PROVE TypeOK
  OBVIOUS
<1>1. 0 \in Redialers
  BY ConstantsAssumption DEF Redialers
<1>2. dialRetry \in BOOLEAN
  BY ConstantsAssumption DEF Init
<1>3. redialPc \in [Redialers -> RedialPcs]
  BY DEF Init, RedialPcs
<1>4. /\ chan \in [Subs -> {"unused", "open", "closed"}]
      /\ buffered \in [Subs -> 0 .. ChanCap]
      /\ health \in [Transports -> {"none", "live", "failed", "closed"}]
  BY ConstantsAssumption DEF Init
<1>5. /\ opPc \in [Callers -> OpPcs]
      /\ opTransport \in [Callers -> Redialers]
      /\ closePc \in [Closers -> ClosePcs]
  BY <1>1 DEF Init, OpPcs, ClosePcs
<1> QED BY <1>1, <1>2, <1>3, <1>4, <1>5 DEF Init, TypeOK

\* An operation (retryOperationOnClosed) keeps every variable typed.
LEMMA TypeOp ==
    ASSUME TypeOK, NEW p \in Callers,
           OpCall(p) \/ OpCheckContext(p) \/ OpRLock(p) \/ OpSucceeds(p) \/ OpFails(p)
    PROVE  TypeOK'
<1>1. CASE OpCall(p)
  BY <1>1 DEF OpCall, TypeOK, OpPcs, lockVars, netVars, subVars, dialVars
<1>2. CASE OpCheckContext(p)
  BY <1>2 DEF OpCheckContext, TypeOK, OpPcs, lockVars, netVars, subVars, dialVars
<1>3. CASE OpRLock(p)
  BY <1>3 DEF OpRLock, TypeOK, OpPcs, netVars, subVars, dialVars
<1>4. CASE OpSucceeds(p)
  BY <1>4, ConstantsAssumption
     DEF OpSucceeds, TypeOK, OpPcs, Redialers, netVars, subVars, dialVars
<1>5. CASE OpFails(p)
  BY <1>5, ConstantsAssumption
     DEF OpFails, ErrorAfter, TypeOK, OpPcs, Redialers, netVars, subVars, dialVars
<1> QED BY <1>1, <1>2, <1>3, <1>4, <1>5

\* So do the registration of subscribers and the sends to them.
LEMMA TypeSubscribers ==
    ASSUME TypeOK,
           \/ \E s \in DialSubs : NotifyDial(s)
           \/ \E s \in DisconnectSubs : NotifyDisconnect(s)
           \/ \E s \in CloseSubs : NotifyClose(s)
           \/ SendNotification
           \/ \E s \in Subs : SubscriberReceives(s)
    PROVE  TypeOK'
<1>1. CASE \E s \in DialSubs : NotifyDial(s)
  BY <1>1 DEF NotifyDial, Register, ChanAtRegistration, TypeOK, Subs, lockVars,
              netVars, opVars, dialVars
<1>2. CASE \E s \in DisconnectSubs : NotifyDisconnect(s)
  BY <1>2 DEF NotifyDisconnect, Register, ChanAtRegistration, TypeOK, Subs, lockVars,
              netVars, opVars, dialVars
<1>3. CASE \E s \in CloseSubs : NotifyClose(s)
  BY <1>3 DEF NotifyClose, Register, ChanAtRegistration, TypeOK, Subs, lockVars,
              netVars, opVars, dialVars
<1>4. CASE SendNotification
  <2>1. Head(sending) \in Subs /\ Tail(sending) \in Seq(Subs)
    BY <1>4 DEF SendNotification, TypeOK
  <2>2. /\ panicked' \in BOOLEAN
        /\ sending' \in Seq(Subs)
        /\ UNCHANGED <<ctxDone, lockVars, opErrorEncountered, netVars, subLock, dialSubs,
                       disconnectSubs, closeSubs, opVars, redialPc, closePc, dialVars>>
    BY <1>4, <2>1 DEF SendNotification, TypeOK
  <2>3. chan' \in [Subs -> {"unused", "open", "closed"}]
    BY <1>4, <2>1 DEF SendNotification, ChanAfterSend, TypeOK
  <2>4. buffered' \in [Subs -> 0 .. ChanCap]
    <3>1. CASE UNCHANGED buffered
      BY <3>1 DEF TypeOK
    <3>2. CASE buffered[Head(sending)] < ChanCap
               /\ buffered' = [buffered EXCEPT ![Head(sending)] = @ + 1]
      <4>1. buffered[Head(sending)] + 1 \in 0 .. ChanCap
        BY <2>1, <3>2, ConstantsAssumption DEF TypeOK
      <4> QED BY <2>1, <3>2, <4>1 DEF TypeOK
    <3> QED BY <1>4, <3>1, <3>2 DEF SendNotification, HasRoom
  <2> QED BY <2>2, <2>3, <2>4 DEF TypeOK, lockVars, netVars, opVars, dialVars
<1>5. CASE \E s \in Subs : SubscriberReceives(s)
  BY <1>5, ConstantsAssumption
     DEF SubscriberReceives, TypeOK, lockVars, netVars, opVars, dialVars
<1> QED BY <1>1, <1>2, <1>3, <1>4, <1>5

\* So does every step of a redialer (transportManagerReconnect.go).
LEMMA TypeRedialer ==
    ASSUME TypeOK, NEW r \in Redialers, Redialer(r)
    PROVE  TypeOK'
<1> USE ConstantsAssumption DEF TypeOK, MoveRedialer, Writers
<1>1. CASE ReceiveCloseEvent(r)
  BY <1>1 DEF ReceiveCloseEvent, RedialPcs, lockVars, netVars, subVars, opVars, dialVars
<1>2. CASE ReceiveOpError(r)
  BY <1>2 DEF ReceiveOpError, RedialPcs, Redialers, lockVars, netVars, subVars, opVars,
              dialVars
<1>3. CASE RedialerAnnounceLock(r)
  BY <1>3 DEF RedialerAnnounceLock, RedialPcs, netVars, subVars, opVars, dialVars
<1>4. CASE RedialerLock(r)
  BY <1>4 DEF RedialerLock, RedialPcs, lockVars, netVars, subVars, opVars, dialVars
<1>5. CASE ReportDisconnect(r)
  BY <1>5, TypeOfSending, ListOfSubs
     DEF ReportDisconnect, RedialPcs, lockVars, netVars, opVars, dialVars
<1>6. CASE DisconnectReported(r)
  BY <1>6 DEF DisconnectReported, FinishSending, RedialPcs, lockVars, netVars, opVars,
              dialVars
<1>7. CASE RedialerExits(r)
  BY <1>7 DEF RedialerExits, ExitLabel, RedialPcs, lockVars, netVars, subVars, opVars,
              dialVars
<1>8. CASE RedialerDials(r)
  BY <1>8 DEF RedialerDials, ErrorAtDial, RedialPcs, Redialers, lockVars, netVars,
              subVars, opVars, dialVars
<1>9. CASE DialSucceeds(r)
  <2>1. current' \in Redialers
    BY <1>9 DEF DialSucceeds, Redialers
  <2> QED BY <1>9, <2>1 DEF DialSucceeds, RedialPcs, lockVars, subVars, opVars, dialVars
<1>10. CASE DialFails(r)
  BY <1>10 DEF DialFails, RedialPcs, lockVars, netVars, subVars, opVars, dialVars
<1>11. CASE AnnounceDial(r)
  BY <1>11, TypeOfSending, ListOfSubs
     DEF AnnounceDial, RedialPcs, lockVars, netVars, opVars, dialVars
<1>12. CASE FailureAnnounced(r)
  BY <1>12 DEF FailureAnnounced, FinishSending, RetryLabel, RedialPcs, lockVars,
               netVars, opVars, dialVars
<1>13. CASE SuccessAnnounced(r)
  BY <1>13 DEF SuccessAnnounced, FinishSending, RedialPcs, lockVars, netVars, opVars,
               dialVars
<1>14. CASE RedialerUnlock(r)
  BY <1>14 DEF RedialerUnlock, RedialPcs, netVars, subVars, opVars, dialVars
<1> QED BY <1>1, <1>2, <1>3, <1>4, <1>5, <1>6, <1>7, <1>8, <1>9, <1>10, <1>11, <1>12,
           <1>13, <1>14 DEF Redialer

\* So does every step of Close.
LEMMA TypeCloser ==
    ASSUME TypeOK, NEW c \in Closers, Closer(c)
    PROVE  TypeOK'
<1> USE ConstantsAssumption DEF TypeOK, MoveCloser, Writers
<1>1. CASE CloseCheckContext(c)
  BY <1>1 DEF CloseCheckContext, ClosePcs, lockVars, netVars, subVars, opVars, dialVars
<1>2. CASE CloseCancelsContext(c)
  BY <1>2 DEF CloseCancelsContext, ClosePcs, lockVars, netVars, subVars, opVars, dialVars
<1>3. CASE CloserAnnouncesLock(c)
  BY <1>3 DEF CloserAnnouncesLock, ClosePcs, netVars, subVars, opVars, dialVars
<1>4. CASE CloseTransport(c)
  <2>1. health' \in [Transports -> {"none", "live", "failed", "closed"}]
    BY <1>4 DEF CloseTransport, HealthAfterClose
  <2> QED BY <1>4, <2>1 DEF CloseTransport, ClosePcs, subVars, opVars, dialVars
<1>5. CASE CloseSubscribers(c)
  <2>1. panicked' \in BOOLEAN
    BY <1>5 DEF CloseSubscribers
  <2> QED BY <1>5, <2>1
             DEF CloseSubscribers, Cleared, ClosePcs, lockVars, netVars, opVars, dialVars
<1>6. CASE SendCloseNotifications(c)
  BY <1>6, TypeOfSending, ListOfSubs
     DEF SendCloseNotifications, ClosePcs, lockVars, netVars, opVars, dialVars
<1>7. CASE CloseReturns(c)
  BY <1>7 DEF CloseReturns, FinishSending, ClosePcs, lockVars, netVars, opVars, dialVars
<1> QED BY <1>1, <1>2, <1>3, <1>4, <1>5, <1>6, <1>7 DEF Closer

\* So do the losses, the signals and the cancellations from outside.
LEMMA TypeEnvironment ==
    ASSUME TypeOK,
           \/ \E t \in Transports : TransportFails(t) \/ StreadwaySignals(t)
           \/ ParentCancels
           \/ DialCtxCancelled
           \/ Abandoned
    PROVE  TypeOK'
<1>1. CASE \E t \in Transports : TransportFails(t)
  BY <1>1 DEF TransportFails, TypeOK, lockVars, subVars, opVars, dialVars
<1>2. CASE \E t \in Transports : StreadwaySignals(t)
  BY <1>2 DEF StreadwaySignals, TypeOK, lockVars, subVars, opVars, dialVars
<1>3. CASE ParentCancels
  BY <1>3 DEF ParentCancels, TypeOK, lockVars, netVars, subVars, opVars
<1>4. CASE DialCtxCancelled
  BY <1>4 DEF DialCtxCancelled, TypeOK, lockVars, netVars, subVars, opVars
<1>5. CASE Abandoned
  BY <1>5 DEF Abandoned, TypeOK, vars, lockVars, netVars, subVars, opVars, dialVars
<1> QED BY <1>1, <1>2, <1>3, <1>4, <1>5

\* Every step keeps every variable typed.
LEMMA TypeNext == TypeOK /\ [Next]_vars => TypeOK'
<1>1. ASSUME TypeOK, Next PROVE TypeOK'
  BY <1>1, TypeOp, TypeSubscribers, TypeRedialer, TypeCloser, TypeEnvironment DEF Next
<1>2. ASSUME TypeOK, UNCHANGED vars PROVE TypeOK'
  BY <1>2 DEF TypeOK, vars, lockVars, netVars, subVars, opVars, dialVars
<1> QED BY <1>1, <1>2

\* Every variable keeps its type in every reachable state (transportManager).
THEOREM TypeCorrect == Spec => []TypeOK
BY TypeInit, TypeNext, PTL DEF Spec

-----------------------------------------------------------------------------
(***************************************************************************)
(* The transport lock.                                                     *)
(***************************************************************************)

\* The variables LockInv speaks of.
lockInvVars == <<writer, readers, opErrorEncountered, current, opVars, redialPc, closePc>>

\* A step that touches none of the variables of LockInv keeps it.
LEMMA LockInvUnchanged ==
    ASSUME LockInv, UNCHANGED lockInvVars
    PROVE  LockInv'
BY DEF LockInv, lockInvVars, ReadersRun, CallsWhenReady, InitialDial, WriterAnnounced,
       WriterAlone, DialStartsClean, DialGivesTransport, TransportStableDuringOp,
       ErrorOfCurrentTransport, Ready, opVars

\* The lock invariant holds at first: nobody runs and nobody holds the lock.
LEMMA LockInit == Init => LockInv
<1> SUFFICES ASSUME Init PROVE LockInv
  OBVIOUS
<1>1. 0 \in Redialers
  BY ConstantsAssumption DEF Redialers
<1> QED BY <1>1
           DEF Init, LockInv, ReadersRun, CallsWhenReady, InitialDial, DialPcs,
               WriterAnnounced, WriterAlone, Exclusive, DialStartsClean,
               DialGivesTransport, TransportStableDuringOp, ErrorOfCurrentTransport

\* While a redialer dials, or has the lock, no operation runs.
LEMMA NobodyRuns ==
    ASSUME TypeOK, LockInv, NEW r \in Redialers,
           IF r = 0 THEN ~Ready ELSE redialPc[r] \in Exclusive
    PROVE  readers = {} /\ \A p \in Callers : opPc[p] # "running"
BY DEF TypeOK, LockInv, ReadersRun, CallsWhenReady, WriterAlone

\* An operation takes and leaves the lock for read as LockInv says.
LEMMA LockOp ==
    ASSUME TypeOK, LockInv, NEW p \in Callers,
           OpCall(p) \/ OpCheckContext(p) \/ OpRLock(p) \/ OpSucceeds(p) \/ OpFails(p)
    PROVE  LockInv'
<1> USE DEF TypeOK, LockInv, Ready
<1>1. UNCHANGED <<writer, current, redialPc, closePc>>
  BY DEF OpCall, OpCheckContext, OpRLock, OpSucceeds, OpFails, lockVars, netVars
<1>2. ReadersRun'
  BY DEF OpCall, OpCheckContext, OpRLock, OpSucceeds, OpFails, lockVars, ReadersRun
<1>3. CallsWhenReady'
  BY <1>1 DEF OpCall, OpCheckContext, OpRLock, OpSucceeds, OpFails, CallsWhenReady
<1>4. InitialDial' /\ WriterAnnounced' /\ DialGivesTransport'
  BY <1>1 DEF InitialDial, WriterAnnounced, DialGivesTransport
<1>5. WriterAlone'
  <2>1. ASSUME NEW r \in Redialers \ {0}, redialPc[r] \in Exclusive
        PROVE  readers' = {}
    <3>1. writer = r /\ writer # NoOne /\ readers = {}
      BY <2>1, ConstantsAssumption DEF WriterAnnounced, WriterAlone, Writers
    <3> QED BY <3>1 DEF OpCall, OpCheckContext, OpRLock, MayRead, OpSucceeds, OpFails,
                        lockVars
  <2> QED BY <1>1, <2>1 DEF WriterAlone
<1>6. TransportStableDuringOp'
  BY <1>1 DEF OpCall, OpCheckContext, OpRLock, OpSucceeds, OpFails, opVars,
              TransportStableDuringOp
<1>7. CASE UNCHANGED opErrorEncountered
  BY <1>1, <1>2, <1>3, <1>4, <1>5, <1>6, <1>7 DEF DialStartsClean, ErrorOfCurrentTransport
<1>8. CASE OpFails(p)
  <2>1. opPc[p] = "running" /\ opTransport[p] = current
    BY <1>8 DEF OpFails, TransportStableDuringOp
  <2>2. ErrorOfCurrentTransport'
    BY <1>1, <1>8, <2>1 DEF OpFails, ErrorAfter, ErrorOfCurrentTransport
  <2>3. \A r \in Redialers : redialPc[r] # "dialing"
    BY <2>1, NobodyRuns DEF Exclusive
  <2> QED BY <1>1, <1>2, <1>3, <1>4, <1>5, <1>6, <2>2, <2>3 DEF DialStartsClean
<1> QED BY <1>7, <1>8 DEF OpCall, OpCheckContext, OpRLock, OpSucceeds

\* Subscribers do not touch the transport lock.
LEMMA LockSubscribers ==
    ASSUME LockInv,
           \/ \E s \in DialSubs : NotifyDial(s)
           \/ \E s \in DisconnectSubs : NotifyDisconnect(s)
           \/ \E s \in CloseSubs : NotifyClose(s)
           \/ SendNotification
           \/ \E s \in Subs : SubscriberReceives(s)
    PROVE  LockInv'
<1>1. UNCHANGED lockInvVars
  BY DEF NotifyDial, NotifyDisconnect, NotifyClose, Register, SendNotification,
         SubscriberReceives, lockInvVars, lockVars, netVars
<1> QED BY <1>1, LockInvUnchanged

\* Nor do the losses, the signals and the cancellations from outside.
LEMMA LockEnvironment ==
    ASSUME LockInv,
           \/ \E t \in Transports : TransportFails(t) \/ StreadwaySignals(t)
           \/ ParentCancels
           \/ DialCtxCancelled
           \/ Abandoned
    PROVE  LockInv'
<1>1. UNCHANGED lockInvVars
  BY DEF TransportFails, StreadwaySignals, ParentCancels, DialCtxCancelled, Abandoned,
         lockInvVars, lockVars, netVars, vars
<1> QED BY <1>1, LockInvUnchanged

\* A redialer that goes on to a label of the same kind as its own, touching nothing
\* but the error channel, which it may empty, keeps the lock invariant.
LEMMA LockRelabel ==
    ASSUME TypeOK, LockInv, NEW r \in Redialers, NEW to \in RedialPcs,
           redialPc' = [redialPc EXCEPT ![r] = to],
           UNCHANGED <<writer, readers, current, opVars, closePc>>,
           opErrorEncountered' \in {0, opErrorEncountered},
           to = "dialing" => opErrorEncountered' = 0,
           to \in {"announceUp", "announcingUp"} => current # 0,
           redialPc[r] # "done",
           r = 0 => to \in DialPcs,
           r # 0 /\ to \in Exclusive \cup {"draining"}
               => redialPc[r] \in Exclusive \cup {"draining"},
           r # 0 /\ to \in Exclusive /\ redialPc[r] = "draining" => readers = {}
    PROVE  LockInv'
<1> USE DEF TypeOK, LockInv
<1>0. 0 \in Redialers
  BY ConstantsAssumption DEF Redialers
<1>1. ReadersRun'
  BY DEF ReadersRun, opVars
<1>2. InitialDial' /\ (Ready => Ready')
  BY <1>0 DEF InitialDial, Ready
<1>3. CallsWhenReady'
  BY <1>2 DEF CallsWhenReady, opVars
<1>4. WriterAnnounced'
  BY DEF WriterAnnounced
<1>5. WriterAlone'
  BY DEF WriterAlone, Exclusive
<1>6. DialStartsClean' /\ DialGivesTransport'
  BY DEF DialStartsClean, DialGivesTransport
<1>7. TransportStableDuringOp' /\ ErrorOfCurrentTransport'
  BY DEF TransportStableDuringOp, ErrorOfCurrentTransport, opVars
<1> QED BY <1>1, <1>2, <1>3, <1>4, <1>5, <1>6, <1>7

\* Every step of a redialer keeps the lock invariant: it swaps the transport alone.
LEMMA LockRedialer ==
    ASSUME TypeOK, LockInv, NEW r \in Redialers, Redialer(r)
    PROVE  LockInv'
<1>0. 0 \in Redialers /\ redialPc[0] \in DialPcs
  BY ConstantsAssumption DEF Redialers, LockInv, InitialDial
<1>1. CASE ReceiveCloseEvent(r)
  BY <1>0, <1>1, LockRelabel
     DEF ReceiveCloseEvent, MoveRedialer, RedialPcs, DialPcs, Exclusive, lockVars, netVars
<1>2. CASE ReceiveOpError(r)
  BY <1>0, <1>2, LockRelabel
     DEF ReceiveOpError, MoveRedialer, RedialPcs, DialPcs, Exclusive, lockVars, netVars
<1>3. CASE RedialerAnnounceLock(r)
  <2> USE <1>3 DEF RedialerAnnounceLock, MoveRedialer, TypeOK, LockInv
  <2>1. r # 0
    BY <1>0 DEF DialPcs
  <2>2. \A q \in Redialers \ {0} : redialPc[q] \notin Exclusive \cup {"draining"}
    BY ConstantsAssumption DEF WriterAnnounced, Writers
  <2>3. \A c \in Closers : closePc[c] # "draining"
    BY ConstantsAssumption DEF WriterAnnounced, Writers
  <2>4. WriterAnnounced' /\ WriterAlone'
    BY <2>1, <2>2, <2>3 DEF WriterAnnounced, WriterAlone, Exclusive
  <2>5. InitialDial' /\ (Ready => Ready')
    BY <1>0, <2>1 DEF InitialDial, Ready
  <2>6. ReadersRun' /\ CallsWhenReady' /\ TransportStableDuringOp'
    BY <2>5 DEF ReadersRun, CallsWhenReady, TransportStableDuringOp, opVars, netVars
  <2>7. DialStartsClean' /\ DialGivesTransport' /\ ErrorOfCurrentTransport'
    BY DEF DialStartsClean, DialGivesTransport, ErrorOfCurrentTransport, netVars
  <2> QED BY <2>4, <2>5, <2>6, <2>7
<1>4. CASE RedialerLock(r)
  BY <1>0, <1>4, LockRelabel
     DEF RedialerLock, Drained, MoveRedialer, RedialPcs, DialPcs, Exclusive, lockVars,
         netVars
<1>5. CASE ReportDisconnect(r)
  BY <1>0, <1>5, LockRelabel
     DEF ReportDisconnect, MoveRedialer, RedialPcs, DialPcs, Exclusive, lockVars, netVars
<1>6. CASE DisconnectReported(r)
  BY <1>0, <1>6, LockRelabel
     DEF DisconnectReported, MoveRedialer, RedialPcs, DialPcs, Exclusive, lockVars, netVars
<1>7. CASE RedialerExits(r)
  BY <1>0, <1>7, LockRelabel
     DEF RedialerExits, ExitLabel, MoveRedialer, RedialPcs, DialPcs, Exclusive, lockVars,
         netVars
<1>8. CASE RedialerDials(r)
  BY <1>0, <1>8, LockRelabel
     DEF RedialerDials, ErrorAtDial, MoveRedialer, RedialPcs, DialPcs, Exclusive, lockVars,
         netVars
<1>9. CASE DialSucceeds(r)
  <2> USE <1>9 DEF DialSucceeds, MoveRedialer, TypeOK, LockInv
  <2>1. readers = {} /\ \A p \in Callers : opPc[p] # "running"
    BY <1>0, NobodyRuns DEF Exclusive, Ready
  <2>2. opErrorEncountered = 0 /\ current' # 0
    BY ConstantsAssumption DEF DialStartsClean, Redialers
  <2>3. InitialDial' /\ (Ready => Ready')
    BY <1>0 DEF InitialDial, DialPcs, Ready
  <2>4. WriterAnnounced' /\ WriterAlone'
    BY <2>1 DEF WriterAnnounced, WriterAlone, Exclusive, lockVars
  <2>5. ReadersRun' /\ CallsWhenReady' /\ TransportStableDuringOp'
    BY <2>1, <2>3 DEF ReadersRun, CallsWhenReady, TransportStableDuringOp, lockVars, opVars
  <2>6. DialStartsClean' /\ DialGivesTransport' /\ ErrorOfCurrentTransport'
    BY <2>2 DEF DialStartsClean, DialGivesTransport, ErrorOfCurrentTransport
  <2> QED BY <2>3, <2>4, <2>5, <2>6
<1>10. CASE DialFails(r)
  BY <1>0, <1>10, LockRelabel
     DEF DialFails, MoveRedialer, RedialPcs, DialPcs, Exclusive, lockVars, netVars
<1>11. CASE AnnounceDial(r)
  <2>1. redialPc[r] = "announceUp" => current # 0
    BY DEF LockInv, DialGivesTransport
  <2> QED BY <1>0, <1>11, <2>1, LockRelabel
             DEF AnnounceDial, MoveRedialer, RedialPcs, DialPcs, Exclusive, lockVars,
                 netVars
<1>12. CASE FailureAnnounced(r)
  BY <1>0, <1>12, LockRelabel
     DEF FailureAnnounced, RetryLabel, MoveRedialer, RedialPcs, DialPcs, Exclusive,
         lockVars, netVars
<1>13. CASE SuccessAnnounced(r)
  <2> USE <1>13 DEF SuccessAnnounced, TypeOK, LockInv
  <2>1. current # 0
    BY DEF DialGivesTransport
  <2>2. InitialDial' /\ (Ready => Ready')
    BY <1>0, <2>1 DEF InitialDial, DialPcs, Ready
  <2>3. \A q \in Redialers : redialPc'[q] \in {redialPc[q], "waiting", "done", "unlock"}
    OBVIOUS
  <2>4. \A q \in Redialers \ {0} : redialPc'[q] = "unlock" => redialPc[q] \in Exclusive
    BY DEF Exclusive
  <2>5. WriterAnnounced' /\ WriterAlone'
    BY <2>3, <2>4 DEF WriterAnnounced, WriterAlone, Exclusive, lockVars
  <2>6. ReadersRun' /\ CallsWhenReady' /\ TransportStableDuringOp'
    BY <2>2 DEF ReadersRun, CallsWhenReady, TransportStableDuringOp, lockVars, opVars,
                netVars
  <2>7. DialStartsClean' /\ DialGivesTransport' /\ ErrorOfCurrentTransport'
    BY <2>1, <2>3 DEF DialStartsClean, DialGivesTransport, ErrorOfCurrentTransport, netVars
  <2> QED BY <2>2, <2>5, <2>6, <2>7
<1>14. CASE RedialerUnlock(r)
  <2> USE <1>14 DEF RedialerUnlock, MoveRedialer, TypeOK, LockInv
  <2>1. r # 0 /\ writer = r
    BY <1>0 DEF DialPcs, WriterAnnounced, Exclusive
  <2>2. \A q \in Redialers \ {0} : q # r => redialPc[q] \notin Exclusive \cup {"draining"}
    BY <2>1 DEF WriterAnnounced
  <2>3. \A c \in Closers : closePc[c] # "draining"
    BY <2>1, ConstantsAssumption DEF WriterAnnounced
  <2>4. WriterAnnounced' /\ WriterAlone'
    BY <2>2, <2>3 DEF WriterAnnounced, WriterAlone, Exclusive
  <2>5. InitialDial' /\ (Ready => Ready')
    BY <1>0, <2>1 DEF InitialDial, Ready
  <2>6. ReadersRun' /\ CallsWhenReady' /\ TransportStableDuringOp'
    BY <2>5 DEF ReadersRun, CallsWhenReady, TransportStableDuringOp, opVars, netVars
  <2>7. DialStartsClean' /\ DialGivesTransport' /\ ErrorOfCurrentTransport'
    BY DEF DialStartsClean, DialGivesTransport, ErrorOfCurrentTransport, netVars
  <2> QED BY <2>4, <2>5, <2>6, <2>7
<1> QED BY <1>1, <1>2, <1>3, <1>4, <1>5, <1>6, <1>7, <1>8, <1>9, <1>10, <1>11, <1>12,
           <1>13, <1>14 DEF Redialer

\* Every step of Close keeps the lock invariant.
LEMMA LockCloser ==
    ASSUME TypeOK, LockInv, NEW c \in Closers, Closer(c)
    PROVE  LockInv'
<1> USE DEF TypeOK, LockInv, MoveCloser
<1>1. UNCHANGED <<readers, opErrorEncountered, current, opVars, redialPc>>
  BY DEF Closer, CloseCheckContext, CloseCancelsContext, CloserAnnouncesLock,
         CloseTransport, CloseSubscribers, SendCloseNotifications, CloseReturns,
         lockVars, netVars
<1>2. ReadersRun' /\ CallsWhenReady' /\ InitialDial' /\ WriterAlone'
  BY <1>1 DEF ReadersRun, CallsWhenReady, InitialDial, Ready, WriterAlone, opVars
<1>3. /\ DialStartsClean' /\ DialGivesTransport'
      /\ TransportStableDuringOp' /\ ErrorOfCurrentTransport'
  BY <1>1 DEF DialStartsClean, DialGivesTransport, TransportStableDuringOp,
              ErrorOfCurrentTransport, opVars
<1>4. CASE CloserAnnouncesLock(c)
  BY <1>1, <1>2, <1>3, <1>4, ConstantsAssumption
     DEF CloserAnnouncesLock, WriterAnnounced, Writers
<1>5. CASE CloseTransport(c)
  <2>1. writer = c
    BY <1>5 DEF CloseTransport, WriterAnnounced
  <2>2. \A r \in Redialers \ {0} : redialPc[r] \notin Exclusive \cup {"draining"}
    BY <2>1, ConstantsAssumption DEF WriterAnnounced
  <2>3. \A d \in Closers : d # c => closePc[d] # "draining"
    BY <2>1 DEF WriterAnnounced
  <2>4. WriterAnnounced'
    BY <1>1, <1>5, <2>2, <2>3 DEF CloseTransport, WriterAnnounced
  <2> QED BY <1>2, <1>3, <2>4
<1>6. CASE ~ (CloserAnnouncesLock(c) \/ CloseTransport(c))
  <2>1. /\ writer' = writer
        /\ \A d \in Closers : closePc'[d] = "draining" => closePc[d] = "draining"
    BY <1>6 DEF Closer, CloseCheckContext, CloseCancelsContext, CloseSubscribers,
                SendCloseNotifications, CloseReturns, lockVars
  <2>2. WriterAnnounced'
    BY <1>1, <2>1 DEF WriterAnnounced
  <2> QED BY <1>2, <1>3, <2>2
<1> QED BY <1>4, <1>5, <1>6

\* Every step keeps the lock invariant.
LEMMA LockNext == TypeOK /\ LockInv /\ [Next]_vars => LockInv'
<1>1. ASSUME TypeOK, LockInv, Next PROVE LockInv'
  BY <1>1, LockOp, LockSubscribers, LockRedialer, LockCloser, LockEnvironment DEF Next
<1>2. ASSUME LockInv, UNCHANGED vars PROVE LockInv'
  BY <1>2, LockInvUnchanged DEF vars, lockInvVars, lockVars, netVars
<1> QED BY <1>1, <1>2

\* Whoever holds the transport lock holds it as receiveDisconnectEventAndLockChannel,
\* retryOperationOnClosedSingle and cancelCtxCloseTransport say: LockInv always holds.
THEOREM LockCorrect == Spec => []LockInv
BY LockInit, LockNext, TypeCorrect, PTL DEF Spec

\* No transport is swapped under an operation (retryOperationOnClosedSingle,
\* receiveDisconnectEventAndLockChannel), however many callers and losses there are.
THEOREM TransportStable == Spec => []TransportStableDuringOp
<1>1. LockInv => TransportStableDuringOp
  BY DEF LockInv
<1> QED BY <1>1, LockCorrect, PTL

\* The error channel never holds the error of an earlier transport, although an
\* operation may report one at any moment (reconnectRedialOnce).
THEOREM ErrorIsCurrent == Spec => []ErrorOfCurrentTransport
<1>1. LockInv => ErrorOfCurrentTransport
  BY DEF LockInv
<1> QED BY <1>1, LockCorrect, PTL

-----------------------------------------------------------------------------
(***************************************************************************)
(* The proof that TransportManager implements RobustTransport, for any     *)
(* number of callers, closers, subscribers and transports.  Each step of a *)
(* goroutine is a step of the abstract object or leaves it as it was.      *)
(***************************************************************************)

\* Goroutines that wait on a transport, and calls of Close, come after the object
\* is handed over.
RedialersWhenReady == \A r \in Redialers \ {0} : redialPc[r] # "none" => Ready
ClosersWhenReady   == \A c \in Closers : closePc[c] # "idle" => Ready

\* During the initial dial only the parent can have cancelled the context, and it
\* has cancelled the context of the dial with it.
ParentCancelsDial == ctxDone /\ ~Ready => dialCtxDone

\* The initial dial has no transport until it succeeds.
NoTransportYet ==
    redialPc[0] \in {"redial", "dialing", "announceErr", "announcingErr", "failed"}
        => current = 0

DialInv == RedialersWhenReady /\ ClosersWhenReady /\ ParentCancelsDial /\ NoTransportYet

\* The invariant of the first dial holds at first.
LEMMA DialInit == Init => DialInv
<1> SUFFICES ASSUME Init PROVE DialInv
  OBVIOUS
<1> QED BY ConstantsAssumption
           DEF Init, DialInv, RedialersWhenReady, ClosersWhenReady, ParentCancelsDial,
               NoTransportYet, Redialers

\* Once the object is handed over it stays so.
LEMMA ReadyStays ==
    ASSUME TypeOK, LockInv, Ready, NEW r \in Redialers, Redialer(r)
    PROVE  r # 0 /\ redialPc'[0] = "done"
<1>0. 0 \in Redialers /\ redialPc[0] = "done"
  BY ConstantsAssumption DEF Redialers, Ready
<1>1. r # 0
  BY <1>0 DEF Redialer, ReceiveCloseEvent, ReceiveOpError, RedialerAnnounceLock,
              RedialerLock, ReportDisconnect, DisconnectReported, RedialerExits,
              RedialerDials, DialSucceeds, DialFails, AnnounceDial, FailureAnnounced,
              SuccessAnnounced, RedialerUnlock, MoveRedialer
<1>2. CASE SuccessAnnounced(r)
  <2>1. current # 0
    BY <1>2 DEF SuccessAnnounced, LockInv, DialGivesTransport
  <2> QED BY <1>0, <1>1, <1>2, <2>1 DEF SuccessAnnounced, TypeOK
<1>3. CASE \E to \in RedialPcs : redialPc' = [redialPc EXCEPT ![r] = to]
  BY <1>0, <1>1, <1>3 DEF TypeOK
<1>4. SuccessAnnounced(r) \/ \E to \in RedialPcs : redialPc' = [redialPc EXCEPT ![r] = to]
  BY DEF Redialer, ReceiveCloseEvent, ReceiveOpError, RedialerAnnounceLock,
         RedialerLock, ReportDisconnect, DisconnectReported, RedialerExits, ExitLabel,
         RedialerDials, DialSucceeds, DialFails, AnnounceDial, FailureAnnounced,
         RetryLabel, RedialerUnlock, MoveRedialer, RedialPcs
<1> QED BY <1>1, <1>2, <1>3, <1>4

\* Every step keeps the invariant of the first dial.
LEMMA DialNextInv ==
    ASSUME TypeOK, LockInv, DialInv, [Next]_vars
    PROVE  DialInv'
<1> USE DEF DialInv
<1>0. 0 \in Redialers /\ redialPc[0] \in DialPcs
  BY ConstantsAssumption DEF Redialers, LockInv, InitialDial
<1>1. CASE \E r \in Redialers : Redialer(r)
  <2> PICK r \in Redialers : Redialer(r)
    BY <1>1
  <2>1. UNCHANGED <<ctxDone, closePc, dialCtxDone>>
    BY DEF Redialer, ReceiveCloseEvent, ReceiveOpError, RedialerAnnounceLock,
           RedialerLock, ReportDisconnect, DisconnectReported, RedialerExits,
           RedialerDials, DialSucceeds, DialFails, AnnounceDial, FailureAnnounced,
           SuccessAnnounced, RedialerUnlock, dialVars
  <2>2. CASE Ready
    <3>1. r # 0 /\ redialPc'[0] = "done"
      BY <2>2, ReadyStays
    <3> QED BY <2>1, <3>1 DEF Ready, RedialersWhenReady, ClosersWhenReady,
                              ParentCancelsDial, NoTransportYet
  <2>3. CASE ~Ready
    <3>1. r = 0
      BY <2>3 DEF RedialersWhenReady, Redialer, ReceiveCloseEvent, ReceiveOpError,
                  RedialerAnnounceLock, RedialerLock, ReportDisconnect,
                  DisconnectReported, RedialerExits, RedialerDials, DialSucceeds,
                  DialFails, AnnounceDial, FailureAnnounced, SuccessAnnounced,
                  RedialerUnlock, MoveRedialer
    <3>2. ParentCancelsDial' /\ ClosersWhenReady'
      BY <2>1, <2>3 DEF ParentCancelsDial, ClosersWhenReady, Ready
    <3>3. CASE SuccessAnnounced(0)
      <4>1. redialPc'[0] = "done"
        BY <1>0, <3>3 DEF SuccessAnnounced, TypeOK
      <4> QED BY <3>2, <4>1 DEF RedialersWhenReady, NoTransportYet, Ready
    <3>4. CASE ~SuccessAnnounced(0)
      <4>1. RedialersWhenReady'
        BY <1>0, <2>3, <3>1, <3>4
           DEF RedialersWhenReady, Redialer, ReceiveCloseEvent, ReceiveOpError,
               RedialerAnnounceLock, RedialerLock, ReportDisconnect, DisconnectReported,
               RedialerExits, RedialerDials, DialSucceeds, DialFails, AnnounceDial,
               FailureAnnounced, RedialerUnlock, MoveRedialer, TypeOK
      <4>2. NoTransportYet'
        BY <1>0, <3>1, <3>4
           DEF NoTransportYet, DialPcs, Redialer, ReceiveCloseEvent, ReceiveOpError,
               RedialerAnnounceLock, RedialerLock, ReportDisconnect, DisconnectReported,
               RedialerExits, RedialerDials, DialSucceeds, DialFails, AnnounceDial,
               FailureAnnounced, RedialerUnlock, MoveRedialer, TypeOK, netVars
      <4> QED BY <3>2, <4>1, <4>2
    <3> QED BY <3>3, <3>4
  <2> QED BY <2>2, <2>3
<1>2. CASE \E c \in Closers : Closer(c)
  <2> PICK c \in Closers : Closer(c)
    BY <1>2
  <2>1. Ready /\ UNCHANGED <<redialPc, current, dialCtxDone>>
    BY DEF ClosersWhenReady, Closer, CloseCheckContext, CloseCancelsContext,
           CloserAnnouncesLock, CloseTransport, CloseSubscribers,
           SendCloseNotifications, CloseReturns, MoveCloser, netVars, dialVars
  <2> QED BY <2>1 DEF Ready, RedialersWhenReady, ClosersWhenReady, ParentCancelsDial,
                      NoTransportYet
<1>3. CASE ParentCancels \/ DialCtxCancelled
  BY <1>3 DEF ParentCancels, DialCtxCancelled, RedialersWhenReady, ClosersWhenReady,
              ParentCancelsDial, NoTransportYet, Ready, netVars, TypeOK
<1>4. CASE UNCHANGED <<ctxDone, redialPc, closePc, current, dialCtxDone>>
  BY <1>4 DEF RedialersWhenReady, ClosersWhenReady, ParentCancelsDial, NoTransportYet,
              Ready
<1>5. \/ \E r \in Redialers : Redialer(r)
      \/ \E c \in Closers : Closer(c)
      \/ ParentCancels \/ DialCtxCancelled
      \/ UNCHANGED <<ctxDone, redialPc, closePc, current, dialCtxDone>>
  <2>1. CASE Next
    BY <2>1 DEF Next, OpCall, OpCheckContext, OpRLock, OpSucceeds, OpFails, NotifyDial,
                NotifyDisconnect, NotifyClose, Register, SendNotification,
                SubscriberReceives, TransportFails, StreadwaySignals, Abandoned, vars,
                netVars, dialVars
  <2>2. CASE UNCHANGED vars
    BY <2>2 DEF vars, netVars, dialVars
  <2> QED BY <2>1, <2>2
<1> QED BY <1>1, <1>2, <1>3, <1>4, <1>5

-----------------------------------------------------------------------------
(***************************************************************************)
(* The abstract state.                                                     *)
(***************************************************************************)

Dialing == \E r \in Redialers : redialPc[r] = "dialing"
Users   == {p \in Callers : opPc[p] = "running"}

\* What the invariants say of the redialers: at most one is at work on the transport,
\* and the abstract phase follows from which one.
LEMMA OneAtWork ==
    ASSUME TypeOK, LockInv, DialInv, NEW r \in Redialers, redialPc[r] \in Exclusive
    PROVE  /\ \A q \in Redialers : redialPc[q] \in Exclusive => q = r
           /\ Phase = IF r = 0 THEN "dialing" ELSE "swapping"
           /\ Dialing <=> redialPc[r] = "dialing"
           /\ Users = {}
<1> USE DEF TypeOK, LockInv, DialInv
<1>0. 0 \in Redialers /\ redialPc[0] \in DialPcs
  BY ConstantsAssumption DEF Redialers, InitialDial
<1>1. CASE r = 0
  <2>1. ~Ready /\ redialPc[0] # "failed"
    BY <1>1 DEF Ready, Exclusive
  <2>2. \A q \in Redialers \ {0} : redialPc[q] = "none"
    BY <2>1 DEF RedialersWhenReady
  <2> QED BY <1>0, <1>1, <2>1, <2>2, NobodyRuns DEF Phase, Dialing, Users, Exclusive
<1>2. CASE r # 0
  <2>1. Ready /\ redialPc[0] = "done"
    BY <1>2 DEF RedialersWhenReady, Ready, Exclusive
  <2>2. \A q \in Redialers : redialPc[q] \in Exclusive => q = r
    BY <1>2, <2>1 DEF WriterAnnounced, Exclusive
  <2>3. Dialing <=> redialPc[r] = "dialing"
    BY <2>2 DEF Dialing, Exclusive
  <2>4. Phase = "swapping"
    BY <2>1 DEF Phase
  <2>5. Users = {}
    BY <1>2, NobodyRuns DEF Users
  <2> QED BY <1>2, <2>2, <2>3, <2>4, <2>5
<1> QED BY <1>1, <1>2

\* With nobody at work the object is open, or could not be dialled.
LEMMA NoneAtWork ==
    ASSUME \A r \in Redialers : redialPc[r] \notin Exclusive
    PROVE  /\ Ready => Phase = "open"
           /\ Dialing = FALSE
BY DEF Phase, Dialing, Exclusive, Ready

\* The initial states are initial states of RobustTransport.
LEMMA RefinesInit == Init => Robust!Init
<1> SUFFICES ASSUME Init PROVE Robust!Init
  OBVIOUS
<1>1. 0 \in Redialers
  BY ConstantsAssumption DEF Redialers
<1> QED BY <1>1 DEF Init, Robust!Init, Phase, Ready

\* A step that moves no redialer and no running operation can only close the object.
LEMMA RefinesOthers ==
    ASSUME UNCHANGED <<redialPc, current>>,
           Users' = Users,
           ctxDone' = ctxDone \/ ctxDone' = TRUE
    PROVE  Robust!Next \/ UNCHANGED Robust!rtVars
<1>1. /\ Phase' = Phase
      /\ (\E r \in Redialers : redialPc[r] = "dialing")'
         = (\E r \in Redialers : redialPc[r] = "dialing")
      /\ {p \in Callers : opPc[p] = "running"}' = {p \in Callers : opPc[p] = "running"}
  BY DEF Phase, Ready, Users
<1>2. CASE ctxDone' = ctxDone
  BY <1>1, <1>2 DEF Robust!rtVars
<1>3. CASE ctxDone' = TRUE
  BY <1>1, <1>3 DEF Robust!Next, Robust!Close
<1> QED BY <1>2, <1>3

\* An operation begins and ends as the abstract object's do.
LEMMA RefinesOp ==
    ASSUME TypeOK, LockInv, DialInv, NEW p \in Callers,
           OpCall(p) \/ OpCheckContext(p) \/ OpRLock(p) \/ OpSucceeds(p) \/ OpFails(p)
    PROVE  Robust!Next \/ UNCHANGED Robust!rtVars
<1> USE DEF TypeOK, LockInv, DialInv
<1>1. CASE OpCall(p) \/ OpCheckContext(p)
  <2>1. Users' = Users /\ UNCHANGED <<redialPc, current, ctxDone>>
    BY <1>1 DEF OpCall, OpCheckContext, Users, netVars
  <2> QED BY <2>1, RefinesOthers
<1>2. CASE OpRLock(p)
  <2>1. Ready /\ writer = NoOne /\ opPc[p] = "wantRead"
    BY <1>2 DEF OpRLock, MayRead, CallsWhenReady
  <2>2. \A r \in Redialers : redialPc[r] \notin Exclusive
    BY <2>1, ConstantsAssumption DEF WriterAnnounced, Writers, Ready, Exclusive
  <2>3. Phase = "open" /\ Phase' = Phase
    BY <1>2, <2>1, <2>2, NoneAtWork DEF OpRLock, Phase, Ready
  <2>4. Users' = Users \cup {p} /\ p \notin Users
    BY <1>2, <2>1 DEF OpRLock, Users
  <2>5. Robust!Begin(p)
    BY <1>2, <2>3, <2>4 DEF OpRLock, Robust!Begin, Users, netVars
  <2> QED BY <2>5 DEF Robust!Next
<1>3. CASE OpSucceeds(p) \/ OpFails(p)
  <2>1. Users' = Users \ {p} /\ p \in Users
    BY <1>3 DEF OpSucceeds, OpFails, Users
  <2>2. UNCHANGED <<redialPc, current, ctxDone>>
    BY <1>3 DEF OpSucceeds, OpFails, netVars
  <2>3. Phase' = Phase
    BY <2>2 DEF Phase, Ready
  <2>4. Robust!End(p)
    BY <2>1, <2>2, <2>3 DEF Robust!End, Users
  <2> QED BY <2>4 DEF Robust!Next
<1> QED BY <1>1, <1>2, <1>3

\* A redialer that keeps to labels of the lock, or to labels without it, and neither
\* starts nor ends a dial, leaves the abstract state as it was.
LEMMA RefinesRelabel ==
    ASSUME TypeOK, NEW r \in Redialers, NEW to \in RedialPcs,
           redialPc' = [redialPc EXCEPT ![r] = to],
           UNCHANGED <<ctxDone, current, opPc>>,
           to \notin {"dialing", "done", "failed"},
           redialPc[r] \notin {"dialing", "done", "failed"},
           to \in Exclusive <=> redialPc[r] \in Exclusive
    PROVE  UNCHANGED Robust!rtVars
<1> USE DEF TypeOK
<1>1. \A q \in Redialers : redialPc'[q] \in Exclusive <=> redialPc[q] \in Exclusive
  OBVIOUS
<1>2. redialPc'[0] = "done" <=> redialPc[0] = "done"
  BY ConstantsAssumption DEF Redialers
<1>3. redialPc'[0] = "failed" <=> redialPc[0] = "failed"
  BY ConstantsAssumption DEF Redialers
<1>4. Phase' = Phase
  BY <1>1, <1>2, <1>3 DEF Phase, Ready
<1>5. \A q \in Redialers : redialPc'[q] = "dialing" <=> redialPc[q] = "dialing"
  OBVIOUS
<1> QED BY <1>4, <1>5 DEF Robust!rtVars

\* Every step of a redialer is an abstract step or leaves the abstract state as it was.
LEMMA RefinesRedialer ==
    ASSUME TypeOK, LockInv, DialInv, TypeOK', LockInv', DialInv',
           NEW r \in Redialers, Redialer(r)
    PROVE  Robust!Next \/ UNCHANGED Robust!rtVars
<1> USE DEF TypeOK
<1>0. /\ 0 \in Redialers
      /\ redialPc[0] \in DialPcs /\ redialPc'[0] \in DialPcs
  BY ConstantsAssumption DEF Redialers, LockInv, InitialDial
<1>u. UNCHANGED <<ctxDone, opPc>> /\ Users' = Users
  BY DEF Redialer, ReceiveCloseEvent, ReceiveOpError, RedialerAnnounceLock,
         RedialerLock, ReportDisconnect, DisconnectReported, RedialerExits,
         RedialerDials, DialSucceeds, DialFails, AnnounceDial, FailureAnnounced,
         SuccessAnnounced, RedialerUnlock, opVars, Users
\* The waiting labels.
<1>1. CASE ReceiveCloseEvent(r) \/ ReceiveOpError(r) \/ RedialerAnnounceLock(r)
  BY <1>u, <1>1, RefinesRelabel
     DEF ReceiveCloseEvent, ReceiveOpError, RedialerAnnounceLock, MoveRedialer, RedialPcs,
         Exclusive, netVars
<1>2. CASE RedialerLock(r)
  <2> USE <1>2 DEF RedialerLock, MoveRedialer
  <2>1. r # 0 /\ writer = r /\ Ready /\ redialPc[0] = "done"
    BY <1>0 DEF DialPcs, LockInv, WriterAnnounced, DialInv, RedialersWhenReady, Ready
  <2>2. \A q \in Redialers : redialPc[q] \notin Exclusive
    BY <2>1 DEF LockInv, WriterAnnounced, Exclusive
  <2>3. Phase = "open" /\ Dialing = FALSE
    BY <2>1, <2>2, NoneAtWork
  <2>4. redialPc'[r] = "report" /\ "report" \in Exclusive
    BY DEF Exclusive
  <2>5. Phase' = "swapping" /\ Dialing' = FALSE /\ Users' = {}
    <3>1. Ready' /\ redialPc'[0] = "done"
      BY <1>0, <2>1 DEF Ready
    <3>2. Phase' = "swapping"
      BY <2>4, <3>1 DEF Phase
    <3>3. Dialing' = FALSE
      BY <2>2 DEF Dialing, Exclusive
    <3>4. Users = {}
      BY DEF Drained, LockInv, ReadersRun, Users
    <3> QED BY <1>u, <3>2, <3>3, <3>4
  <2>6. Robust!Suspend
    BY <1>u, <2>3, <2>5 DEF Robust!Suspend, Dialing, Users, netVars
  <2> QED BY <2>6 DEF Robust!Next
\* The labels of the lock that do not touch a dial.
<1>3. CASE ReportDisconnect(r) \/ DisconnectReported(r) \/ AnnounceDial(r)
  BY <1>u, <1>3, RefinesRelabel
     DEF ReportDisconnect, DisconnectReported, AnnounceDial, MoveRedialer, RedialPcs,
         Exclusive, netVars
<1>4. CASE \/ RedialerExits(r) /\ r # 0
           \/ FailureAnnounced(r) /\ RetryLabel(r) = "redial"
  BY <1>u, <1>4, RefinesRelabel
     DEF RedialerExits, ExitLabel, FailureAnnounced, MoveRedialer, RedialPcs, Exclusive,
         netVars
\* The initial dial is given up.
<1>5. CASE \/ RedialerExits(r) /\ r = 0
           \/ FailureAnnounced(r) /\ RetryLabel(r) = "failed"
  <2>1. r = 0 /\ redialPc[0] \in {"redial", "announcingErr"}
        /\ redialPc' = [redialPc EXCEPT ![0] = "failed"] /\ current' = current
    BY <1>5 DEF RedialerExits, ExitLabel, FailureAnnounced, RetryLabel, MoveRedialer, netVars
  <2>2. current = 0
    BY <2>1 DEF DialInv, NoTransportYet
  <2>3. Phase = "dialing" /\ Dialing = FALSE
    BY <1>0, <2>1, OneAtWork DEF Exclusive
  <2>4. Phase' = "failed" /\ Dialing' = FALSE
    BY <1>0, <2>1, <2>3 DEF Phase, Dialing
  <2>5. Robust!HandOver
    BY <1>u, <2>1, <2>2, <2>3, <2>4 DEF Robust!HandOver, Dialing, Users
  <2> QED BY <2>5 DEF Robust!Next
<1>6. CASE RedialerDials(r)
  <2> USE <1>6 DEF RedialerDials, MoveRedialer
  <2>1. /\ Phase = IF r = 0 THEN "dialing" ELSE "swapping"
        /\ Dialing = FALSE
    BY OneAtWork DEF Exclusive
  <2>2. /\ Phase' = IF r = 0 THEN "dialing" ELSE "swapping"
        /\ Dialing' = TRUE
    <3>1. redialPc'[r] = "dialing"
      OBVIOUS
    <3>2. \A q \in Redialers : redialPc'[q] \in Exclusive <=> redialPc[q] \in Exclusive
      BY DEF Exclusive
    <3>3. Phase' = Phase
      BY <1>0, <3>2 DEF Phase, Ready
    <3> QED BY <2>1, <3>1, <3>3 DEF Dialing
  <2>3. ~ctxDone
    <3>1. r = 0 => ~Ready
      BY DEF Ready
    <3> QED BY <3>1 DEF RedialCtxDone, DialInv, ParentCancelsDial
  <2>4. r = 0 => current = 0
    BY DEF DialInv, NoTransportYet
  <2>5. Robust!StartDial
    BY <1>u, <2>1, <2>2, <2>3, <2>4 DEF Robust!StartDial, Dialing, Users, netVars
  <2> QED BY <2>5 DEF Robust!Next
\* The end of a dial.
<1>7. CASE DialSucceeds(r) \/ DialFails(r)
  <2> USE <1>7 DEF DialSucceeds, DialFails, MoveRedialer
  <2>1. /\ Phase = IF r = 0 THEN "dialing" ELSE "swapping"
        /\ Dialing = TRUE
        /\ Users = {}
        /\ \A q \in Redialers : redialPc[q] \in Exclusive => q = r
    BY OneAtWork DEF Exclusive
  <2>2. redialPc'[r] \in Exclusive /\ redialPc'[r] # "dialing"
    BY DEF Exclusive
  <2>3. Phase' = Phase
    <3>1. \A q \in Redialers : redialPc'[q] \in Exclusive <=> redialPc[q] \in Exclusive
      BY <2>2 DEF Exclusive
    <3> QED BY <1>0, <3>1 DEF Phase, Ready
  <2>4. Dialing' = FALSE
    <3>1. \A q \in Redialers : redialPc'[q] # "dialing"
      BY <2>1, <2>2 DEF Exclusive
    <3> QED BY <3>1 DEF Dialing
  <2>5. Robust!Replace \/ Robust!DialError
    BY <1>u, <2>1, <2>3, <2>4 DEF Robust!Replace, Robust!DialError, Dialing, Users, netVars
  <2> QED BY <2>5 DEF Robust!Next
\* The caller of Dial gets the object.
<1>8. CASE SuccessAnnounced(r) /\ r = 0
  <2> USE <1>8 DEF SuccessAnnounced
  <2>1. Phase = "dialing" /\ Dialing = FALSE /\ ~Ready
    BY OneAtWork DEF Exclusive, Ready
  <2>2. current # 0 /\ \A q \in Redialers \ {0} : redialPc[q] = "none"
    BY <2>1 DEF LockInv, DialGivesTransport, DialInv, RedialersWhenReady
  <2>3. \A q \in Redialers : redialPc'[q] \in {"none", "waiting", "done"}
    BY <1>0, <2>2
  <2>4. Phase' = "open" /\ Dialing' = FALSE
    BY <1>0, <2>3 DEF Phase, Ready, Dialing, Exclusive
  <2>5. Robust!HandOver
    BY <1>u, <2>1, <2>2, <2>4 DEF Robust!HandOver, Dialing, Users, netVars
  <2> QED BY <2>5 DEF Robust!Next
<1>9. CASE SuccessAnnounced(r) /\ r # 0
  <2> USE <1>9 DEF SuccessAnnounced
  <2>1. Phase = "swapping" /\ Dialing = FALSE
    BY OneAtWork DEF Exclusive
  <2>2. redialPc[0] = "done" /\ redialPc'[0] = "done"
    BY <1>0 DEF LockInv, DialGivesTransport, DialInv, RedialersWhenReady, Ready
  <2>3. redialPc'[r] = "unlock" /\ "unlock" \in Exclusive
    BY DEF Exclusive
  <2>4. Phase' = "swapping"
    BY <2>2, <2>3 DEF Phase, Ready
  <2>5. Dialing' = FALSE
    BY <2>1 DEF Dialing
  <2> QED BY <1>u, <2>1, <2>4, <2>5 DEF Robust!rtVars, Dialing, Users, netVars
<1>10. CASE RedialerUnlock(r)
  <2> USE <1>10 DEF RedialerUnlock, MoveRedialer
  <2>1. /\ Phase = "swapping" /\ Dialing = FALSE /\ r # 0
        /\ \A q \in Redialers : redialPc[q] \in Exclusive => q = r
    BY <1>0, OneAtWork DEF Exclusive, DialPcs
  <2>2. redialPc[0] = "done" /\ redialPc'[0] = "done"
    BY <1>0, <2>1 DEF DialInv, RedialersWhenReady, Ready
  <2>3. \A q \in Redialers : redialPc'[q] \notin Exclusive
    BY <2>1 DEF Exclusive
  <2>4. Phase' = "open" /\ Dialing' = FALSE
    BY <2>2, <2>3 DEF Phase, Ready, Dialing, Exclusive
  <2>5. Robust!Resume
    BY <1>u, <2>1, <2>4 DEF Robust!Resume, Dialing, Users, netVars
  <2> QED BY <2>5 DEF Robust!Next
<1>11. RetryLabel(r) = "redial" \/ RetryLabel(r) = "failed"
  BY DEF RetryLabel
<1> HIDE DEF TypeOK
<1>12. CASE RedialerExits(r)
  BY <1>4, <1>5, <1>12
<1>13. CASE FailureAnnounced(r)
  BY <1>4, <1>5, <1>11, <1>13
<1>14. CASE SuccessAnnounced(r)
  BY <1>8, <1>9, <1>14
<1> QED BY <1>1, <1>2, <1>3, <1>6, <1>7, <1>10, <1>12, <1>13, <1>14 DEF Redialer

\* Every step of the manager is a step of RobustTransport or a stutter.
LEMMA RefinesNext ==
    ASSUME TypeOK, LockInv, DialInv, TypeOK', LockInv', DialInv', [Next]_vars
    PROVE  Robust!Next \/ UNCHANGED Robust!rtVars
<1>1. CASE \E p \in Callers : \/ OpCall(p) \/ OpCheckContext(p) \/ OpRLock(p)
                               \/ OpSucceeds(p) \/ OpFails(p)
  BY <1>1, RefinesOp
<1>2. CASE \E r \in Redialers : Redialer(r)
  BY <1>2, RefinesRedialer
<1>3. CASE /\ UNCHANGED <<redialPc, current, opPc>>
           /\ ctxDone' = ctxDone \/ ctxDone' = TRUE
  BY <1>3, RefinesOthers DEF Users
<1>4. \/ \E p \in Callers : \/ OpCall(p) \/ OpCheckContext(p) \/ OpRLock(p)
                             \/ OpSucceeds(p) \/ OpFails(p)
      \/ \E r \in Redialers : Redialer(r)
      \/ /\ UNCHANGED <<redialPc, current, opPc>>
         /\ ctxDone' = ctxDone \/ ctxDone' = TRUE
  <2>1. CASE Next
    BY <2>1 DEF Next, NotifyDial, NotifyDisconnect, NotifyClose, Register,
                SendNotification, SubscriberReceives, Closer, CloseCheckContext,
                CloseCancelsContext, CloserAnnouncesLock, CloseTransport,
                CloseSubscribers, SendCloseNotifications, CloseReturns, TransportFails,
                StreadwaySignals, ParentCancels, DialCtxCancelled, Abandoned, vars,
                netVars, opVars
  <2>2. CASE UNCHANGED vars
    BY <2>2 DEF vars, netVars, opVars
  <2> QED BY <2>1, <2>2
<1> QED BY <1>1, <1>2, <1>3, <1>4

\* The manager implements RobustTransport: its operations each see one transport, a
\* change of transport excludes them, and no dial starts once the object is closed.
THEOREM Refinement == Spec => ImplementsRobustTransport
<1>1. Init => DialInv
  BY DialInit
<1>2. TypeOK /\ LockInv /\ DialInv /\ [Next]_vars => DialInv'
  BY DialNextInv
<1>3. Init => Robust!Init
  BY RefinesInit
<1>4. /\ TypeOK /\ LockInv /\ DialInv
      /\ TypeOK' /\ LockInv' /\ DialInv'
      /\ [Next]_vars
      => [Robust!Next]_Robust!rtVars
  BY RefinesNext
<1> QED BY <1>1, <1>2, <1>3, <1>4, TypeCorrect, LockCorrect, PTL
           DEF Spec, ImplementsRobustTransport, Robust!Spec
=============================================================================
