-------------------- MODULE TransportManagerCloseProofs --------------------
(***************************************************************************)
(* Proofs about the life of a TransportManager, for any number of callers, *)
(* closers, subscribers and transports: its transport is watched as long   *)
(* as the object is open (WatchInv), Close leaves no transport in use      *)
(* (CloseInv) and no subscriber on an open channel (SubsInv), and one call *)
(* of Close sends on no closed channel (SendInv).                          *)
(***************************************************************************)
EXTENDS TransportManagerProofs

-----------------------------------------------------------------------------
(***************************************************************************)
(* The invariants.                                                         *)
(***************************************************************************)

\* A redialer is launched once its transport has been dialled, not before.
LaunchedAfterDial == \A t \in Redialers : t > current => redialPc[t] = "none"

\* Who announces a new transport has still to launch its redialer.
SuccessorToCome ==
    \A r \in Redialers :
        redialPc[r] \in {"announceUp", "announcingUp"} => redialPc[current] = "none"

WatchInv == LaunchedAfterDial /\ SuccessorToCome /\ WatchedWhileOpen

\* An object that is handed over has had a transport.
ReadyHasTransport == Ready => current # 0

\* Who asks for the lock to close the transport has cancelled the context.
CloserHasCancelled ==
    \A c \in Closers : closePc[c] \notin {"idle", "cancel", "refused"} => ctxDone

\* No dial is under way once a transport has been closed by Close.
NoDialAfterClose ==
    \A c \in Closers : closePc[c] \in Closing =>
        \A r \in Redialers : redialPc[r] # "dialing"

CloseInv ==
    ReadyHasTransport /\ CloserHasCancelled /\ NoDialAfterClose /\ NoTransportAfterClose

\* An open channel is in the list of its kind.
OpenIsListed ==
    \A s \in Subs : chan[s] = "open" =>
        /\ s \in DialSubs => InList(s, dialSubs)
        /\ s \in DisconnectSubs => InList(s, disconnectSubs)
        /\ s \in CloseSubs => InList(s, closeSubs)

\* Close has emptied the lists of dial and disconnect subscribers.
ListsForgotten ==
    \A c \in Closers : closePc[c] \in {"notify", "notifying", "done"} =>
        dialSubs = <<>> /\ disconnectSubs = <<>>

\* While Close notifies, it holds the subscriber lock and the open channels are
\* those it has still to send to; afterwards there are none.
ClosersNotify ==
    \A c \in Closers :
        /\ closePc[c] = "notifying" =>
             /\ subLock = c
             /\ \A s \in CloseSubs : chan[s] = "open" => InList(s, sending)
        /\ closePc[c] = "done" => \A s \in CloseSubs : chan[s] # "open"

\* Who calls handlers holds the subscriber lock.
SendersHoldLock ==
    \A r \in Redialers :
        redialPc[r] \in {"reporting", "announcingUp", "announcingErr"} => subLock = r

SubsInv == OpenIsListed /\ ListsForgotten /\ ClosersNotify /\ SendersHoldLock

\* A channel of the lists of dial and disconnect subscribers is open, and so is a
\* close subscriber's until Close notifies.
ListedIsOpen ==
    \A s \in Subs :
        /\ Listening(s) => chan[s] = "open"
        /\ InList(s, closeSubs) =>
             \/ chan[s] = "open"
             \/ \E c \in Closers : closePc[c] \in {"notifying", "done"}

\* A close subscriber is registered once, and its handler is to be called once.
Once(list) ==
    \A i, j \in DOMAIN list : i # j /\ list[i] = list[j] => list[i] \notin CloseSubs

\* The handlers still to be called have open channels.
SendingIsOpen ==
    /\ subLock = NoOne => sending = <<>>
    /\ \A i \in DOMAIN sending : chan[sending[i]] = "open"
    /\ \A i \in DOMAIN sending :
           sending[i] \in CloseSubs => \E c \in Closers : closePc[c] = "notifying"
    /\ Once(sending)
    /\ Once(closeSubs)

SendInv == ListedIsOpen /\ SendingIsOpen /\ ~panicked

\* Two calls of Close have found the context alive.
Began(c) == closePc[c] \notin {"idle", "refused"}
TwoCloses == \E c, d \in Closers : c # d /\ Began(c) /\ Began(d)

-----------------------------------------------------------------------------
(***************************************************************************)
(* The chain of redialers.                                                 *)
(***************************************************************************)

\* Labels of a redialer that waits on its transport or replaces it.
WatchPcs == RedialPcs \ {"none", "unlock", "done", "failed"}

\* The invariant in terms of labels.
LEMMA WatchingLabels ==
    ASSUME TypeOK
    PROVE  Watching = {r \in Redialers : redialPc[r] \in WatchPcs}
BY DEF TypeOK, Watching, WatchPcs

\* At first the caller of Dial is about to dial, and nobody else is there.
LEMMA WatchInit == Init => WatchInv
<1> SUFFICES ASSUME Init PROVE WatchInv
  OBVIOUS
<1> QED BY ConstantsAssumption
           DEF Init, WatchInv, LaunchedAfterDial, SuccessorToCome, WatchedWhileOpen,
               Watching, Ready, Redialers

\* A step that moves no redialer and leaves the transport in use keeps the chain; the
\* context is never uncancelled.
LEMMA WatchUnchanged ==
    ASSUME WatchInv, UNCHANGED <<redialPc, current>>, ctxDone => ctxDone'
    PROVE  WatchInv'
BY DEF WatchInv, LaunchedAfterDial, SuccessorToCome, WatchedWhileOpen, Watching, Ready

\* A redialer that goes on to another label without a new transport keeps the chain:
\* it stops watching when the context is cancelled, or as the failed first dial.
LEMMA WatchRelabel ==
    ASSUME TypeOK, WatchInv, NEW r \in Redialers, NEW to \in RedialPcs,
           redialPc' = [redialPc EXCEPT ![r] = to],
           UNCHANGED <<current, ctxDone>>,
           redialPc[r] # "none",
           r = 0 => to # "done",
           to \in {"announceUp", "announcingUp"} => redialPc[r] = "announceUp",
           to \in WatchPcs => redialPc[r] \in WatchPcs,
           redialPc[r] \in WatchPcs /\ to \notin WatchPcs => ctxDone \/ r = 0
    PROVE  WatchInv'
<1> USE DEF TypeOK, WatchInv
<1>0. 0 \in Redialers
  BY ConstantsAssumption DEF Redialers
<1>1. LaunchedAfterDial'
  BY DEF LaunchedAfterDial
<1>2. SuccessorToCome'
  BY DEF SuccessorToCome
<1>3. Watching' = {q \in Redialers : redialPc'[q] \in WatchPcs}
  BY DEF Watching, WatchPcs
<1>4. Watching' \subseteq Watching
  BY <1>3, WatchingLabels
<1>5. \A q, t \in Watching' : q = t
  BY <1>4 DEF WatchedWhileOpen
<1>6. ASSUME Ready', ~ctxDone' PROVE Watching' # {}
  <2>1. r # 0 /\ Ready /\ ~ctxDone
    BY <1>0, <1>6 DEF Ready
  <2>2. PICK q \in Redialers : redialPc[q] \in WatchPcs
    BY <2>1, WatchingLabels DEF WatchedWhileOpen
  <2>3. redialPc'[q] \in WatchPcs
    BY <2>1, <2>2
  <2> QED BY <1>3, <2>3
<1> QED BY <1>1, <1>2, <1>5, <1>6 DEF WatchedWhileOpen

\* Every step of a redialer keeps the chain.
LEMMA WatchRedialer ==
    ASSUME TypeOK, LockInv, WatchInv, NEW r \in Redialers, Redialer(r)
    PROVE  WatchInv'
<1>0. 0 \in Redialers /\ redialPc[0] \in DialPcs
  BY ConstantsAssumption DEF Redialers, LockInv, InitialDial
<1>1. CASE DialSucceeds(r)
  <2> USE <1>1 DEF DialSucceeds, MoveRedialer, TypeOK, WatchInv
  <2>1. redialPc[r] = "dialing" /\ current' = current + 1 /\ current' \in Redialers
    BY ConstantsAssumption DEF Redialers
  <2>2. redialPc[current'] = "none" /\ redialPc'[current'] = "none"
    BY <2>1 DEF LaunchedAfterDial, Redialers
  <2>3. \A q \in Redialers : redialPc[q] \in {"announceUp", "announcingUp"} => q = r
    BY <2>1, WatchingLabels DEF WatchedWhileOpen, WatchPcs, RedialPcs
  <2>4. LaunchedAfterDial'
    BY <2>1 DEF LaunchedAfterDial, Redialers
  <2>5. SuccessorToCome'
    BY <2>2 DEF SuccessorToCome
  <2>6. Watching' = Watching /\ r \in Watching
    BY <2>1 DEF Watching
  <2>7. WatchedWhileOpen'
    BY <2>6 DEF WatchedWhileOpen
  <2> QED BY <2>4, <2>5, <2>7
<1>2. CASE SuccessAnnounced(r)
  <2> USE <1>2 DEF SuccessAnnounced, TypeOK, WatchInv
  <2>1. redialPc[r] = "announcingUp" /\ redialPc[current] = "none" /\ r # current
    BY DEF SuccessorToCome
  <2>2. /\ redialPc'[current] = "waiting"
        /\ redialPc'[r] \in {"done", "unlock"}
        /\ \A q \in Redialers \ {r, current} : redialPc'[q] = redialPc[q]
        /\ UNCHANGED <<current, ctxDone>>
    BY <2>1 DEF netVars
  <2>3. r \in Watching
    BY <2>1 DEF Watching
  <2>4. Watching = {r}
    BY <2>3 DEF WatchedWhileOpen, Watching
  <2>5. Watching' = {current}
    BY <2>2, <2>4 DEF Watching
  <2>6. LaunchedAfterDial'
    BY <2>1, <2>2 DEF LaunchedAfterDial, Redialers
  <2>7. SuccessorToCome'
    <3>1. ASSUME NEW q \in Redialers, redialPc'[q] \in {"announceUp", "announcingUp"}
          PROVE  FALSE
      BY <2>2, <2>5, <3>1 DEF Watching
    <3> QED BY <3>1 DEF SuccessorToCome
  <2>8. WatchedWhileOpen'
    BY <2>5 DEF WatchedWhileOpen
  <2> QED BY <2>6, <2>7, <2>8
<1> DEFINE Relabelled(to) ==
      /\ redialPc' = [redialPc EXCEPT ![r] = to]
      /\ UNCHANGED <<current, ctxDone>>
      /\ redialPc[r] # "none"
      /\ r = 0 => to # "done"
      /\ to \in {"announceUp", "announcingUp"} => redialPc[r] = "announceUp"
      /\ to \in WatchPcs => redialPc[r] \in WatchPcs
      /\ redialPc[r] \in WatchPcs /\ to \notin WatchPcs => ctxDone \/ r = 0
<1>3. CASE \E to \in RedialPcs : Relabelled(to)
  BY <1>3, WatchRelabel
<1>4. CASE ~ (DialSucceeds(r) \/ SuccessAnnounced(r))
  <2> USE DEF MoveRedialer, RedialPcs, WatchPcs, netVars
  <2>1. CASE ReceiveCloseEvent(r) \/ ReceiveOpError(r)
    <3>1. Relabelled("wantLock")
      BY <2>1 DEF ReceiveCloseEvent, ReceiveOpError
    <3> QED BY <1>3, <3>1
  <2>2. CASE RedialerAnnounceLock(r)
    <3>1. Relabelled("draining")
      BY <2>2 DEF RedialerAnnounceLock
    <3> QED BY <1>3, <3>1
  <2>3. CASE RedialerLock(r)
    <3>1. Relabelled("report")
      BY <2>3 DEF RedialerLock
    <3> QED BY <1>3, <3>1
  <2>4. CASE ReportDisconnect(r)
    <3>1. Relabelled("reporting")
      BY <2>4 DEF ReportDisconnect
    <3> QED BY <1>3, <3>1
  <2>5. CASE DisconnectReported(r)
    <3>1. Relabelled("redial")
      BY <2>5 DEF DisconnectReported
    <3> QED BY <1>3, <3>1
  <2>6. CASE RedialerExits(r)
    <3>1. Relabelled(ExitLabel(r))
      BY <2>6 DEF RedialerExits, RedialCtxDone, ExitLabel
    <3> QED BY <1>3, <3>1 DEF ExitLabel
  <2>7. CASE RedialerDials(r)
    <3>1. Relabelled("dialing")
      BY <2>7 DEF RedialerDials
    <3> QED BY <1>3, <3>1
  <2>8. CASE DialFails(r)
    <3>1. Relabelled("announceErr")
      BY <2>8 DEF DialFails
    <3> QED BY <1>3, <3>1
  <2>9. CASE AnnounceDial(r)
    <3>1. Relabelled("announcingUp") \/ Relabelled("announcingErr")
      BY <2>9 DEF AnnounceDial
    <3> QED BY <1>3, <3>1
  <2>10. CASE FailureAnnounced(r)
    <3>1. Relabelled(RetryLabel(r))
      BY <2>10 DEF FailureAnnounced, RetryLabel
    <3> QED BY <1>3, <3>1 DEF RetryLabel
  <2>11. CASE RedialerUnlock(r)
    <3>1. Relabelled("done")
      BY <1>0, <2>11 DEF RedialerUnlock, DialPcs
    <3> QED BY <1>3, <3>1
  <2> QED BY <1>4, <2>1, <2>2, <2>3, <2>4, <2>5, <2>6, <2>7, <2>8, <2>9, <2>10, <2>11
             DEF Redialer
<1> QED BY <1>1, <1>2, <1>4

\* Only redialers move redialers and dial, and no step uncancels the context.
LEMMA StepOfOthers ==
    ASSUME Next, ~ \E r \in Redialers : Redialer(r)
    PROVE  UNCHANGED <<redialPc, current>> /\ (ctxDone => ctxDone')
<1> USE DEF netVars
<1>1. CASE \E p \in Callers : \/ OpCall(p) \/ OpCheckContext(p) \/ OpRLock(p)
                              \/ OpSucceeds(p) \/ OpFails(p)
  BY <1>1 DEF OpCall, OpCheckContext, OpRLock, OpSucceeds, OpFails
<1>2. CASE \/ \E s \in DialSubs : NotifyDial(s)
           \/ \E s \in DisconnectSubs : NotifyDisconnect(s)
           \/ \E s \in CloseSubs : NotifyClose(s)
           \/ SendNotification
           \/ \E s \in Subs : SubscriberReceives(s)
  BY <1>2 DEF NotifyDial, NotifyDisconnect, NotifyClose, Register, SendNotification,
              SubscriberReceives
<1>3. CASE \E c \in Closers : Closer(c)
  <2> PICK c \in Closers : Closer(c)
    BY <1>3
  <2>1. CASE CloseCheckContext(c) \/ CloseCancelsContext(c) \/ CloserAnnouncesLock(c)
    BY <2>1 DEF CloseCheckContext, CloseCancelsContext, CloserAnnouncesLock
  <2>2. CASE CloseTransport(c)
    BY <2>2 DEF CloseTransport
  <2>3. CASE CloseSubscribers(c)
    BY <2>3 DEF CloseSubscribers
  <2>4. CASE SendCloseNotifications(c) \/ CloseReturns(c)
    BY <2>4 DEF SendCloseNotifications, CloseReturns
  <2> QED BY <2>1, <2>2, <2>3, <2>4 DEF Closer
<1>4. CASE \/ \E t \in Transports : TransportFails(t) \/ StreadwaySignals(t)
           \/ ParentCancels \/ DialCtxCancelled \/ Abandoned
  BY <1>4 DEF TransportFails, StreadwaySignals, ParentCancels, DialCtxCancelled,
              Abandoned, vars
<1> QED BY <1>1, <1>2, <1>3, <1>4 DEF Next

\* Every step keeps the chain.
LEMMA WatchNext == TypeOK /\ LockInv /\ WatchInv /\ [Next]_vars => WatchInv'
<1> SUFFICES ASSUME TypeOK, LockInv, WatchInv, [Next]_vars PROVE WatchInv'
  OBVIOUS
<1>1. CASE \E r \in Redialers : Redialer(r)
  BY <1>1, WatchRedialer
<1>2. CASE ~ \E r \in Redialers : Redialer(r)
  <2>1. CASE Next
    <3>1. UNCHANGED <<redialPc, current>> /\ (ctxDone => ctxDone')
      BY <1>2, <2>1, StepOfOthers
    <3> QED BY <3>1, WatchUnchanged
  <2>2. CASE UNCHANGED vars
    BY <2>2, WatchUnchanged DEF vars, netVars
  <2> QED BY <2>1, <2>2
<1> QED BY <1>1, <1>2

\* While the object is open exactly one goroutine watches its transport or replaces
\* it, however often the transport is lost (reconnectListenForClose, reconnect).
THEOREM Watched == Spec => []WatchedWhileOpen
<1>1. WatchInv => WatchedWhileOpen
  BY DEF WatchInv
<1> QED BY <1>1, WatchInit, WatchNext, TypeCorrect, LockCorrect, PTL DEF Spec

-----------------------------------------------------------------------------
(***************************************************************************)
(* The transport after Close.                                              *)
(***************************************************************************)

\* At first nobody has called Close.
LEMMA CloseInit == Init => CloseInv
<1> SUFFICES ASSUME Init PROVE CloseInv
  OBVIOUS
<1> QED BY ConstantsAssumption
           DEF Init, CloseInv, ReadyHasTransport, CloserHasCancelled, NoDialAfterClose,
               NoTransportAfterClose, Closing, Ready, Redialers

\* A redialer does not bring a transport back: it starts no dial once the context is
\* cancelled, and the last one ended before Close had the lock.
LEMMA CloseRedialer ==
    ASSUME TypeOK, LockInv, DialInv, CloseInv, NEW r \in Redialers, Redialer(r)
    PROVE  CloseInv'
<1> USE DEF TypeOK, LockInv, DialInv, CloseInv, netVars, MoveRedialer
<1>0. 0 \in Redialers /\ redialPc[0] \in DialPcs
  BY ConstantsAssumption DEF Redialers, InitialDial
<1>1. UNCHANGED <<ctxDone, closePc>>
  BY DEF Redialer, ReceiveCloseEvent, ReceiveOpError, RedialerAnnounceLock, RedialerLock,
         ReportDisconnect, DisconnectReported, RedialerExits, RedialerDials,
         DialSucceeds, DialFails, AnnounceDial, FailureAnnounced, SuccessAnnounced,
         RedialerUnlock
<1>2. \/ DialSucceeds(r) /\ current' = current + 1
      \/ ~DialSucceeds(r) /\ UNCHANGED <<current, health>>
  BY DEF Redialer, ReceiveCloseEvent, ReceiveOpError, RedialerAnnounceLock, RedialerLock,
         ReportDisconnect, DisconnectReported, RedialerExits, RedialerDials,
         DialSucceeds, DialFails, AnnounceDial, FailureAnnounced, SuccessAnnounced,
         RedialerUnlock
<1>3. ReadyHasTransport'
  <2>1. CASE current # 0
    <3>1. current' # 0
      BY <1>2, <2>1, ConstantsAssumption DEF Redialers
    <3> QED BY <3>1 DEF ReadyHasTransport
  <2>2. CASE current = 0 /\ DialSucceeds(r)
    BY <1>2, <2>2 DEF ReadyHasTransport
  <2>3. CASE current = 0 /\ ~DialSucceeds(r)
    <3>1. redialPc[0] # "done"
      BY <2>3 DEF ReadyHasTransport, Ready
    <3>2. redialPc'[0] # "done"
      BY <1>0, <2>3, <3>1
         DEF Redialer, ReceiveCloseEvent, ReceiveOpError, RedialerAnnounceLock,
             RedialerLock, ReportDisconnect, DisconnectReported, RedialerExits,
             ExitLabel, RedialerDials, DialFails, AnnounceDial, FailureAnnounced,
             RetryLabel, SuccessAnnounced, RedialerUnlock, DialPcs, DialGivesTransport
    <3> QED BY <3>2 DEF ReadyHasTransport, Ready
  <2> QED BY <2>1, <2>2, <2>3
<1>4. CloserHasCancelled'
  BY <1>1 DEF CloserHasCancelled
<1>5. ASSUME NEW c \in Closers, closePc'[c] \in Closing
      PROVE  health'[current'] # "live" /\ \A q \in Redialers : redialPc'[q] # "dialing"
  <2>1. closePc[c] \in Closing /\ Ready /\ ctxDone
    BY <1>1, <1>5 DEF Closing, ClosersWhenReady, CloserHasCancelled
  <2>2. health[current] # "live" /\ \A q \in Redialers : redialPc[q] # "dialing"
    BY <2>1 DEF NoTransportAfterClose, NoDialAfterClose
  <2>3. r # 0
    BY <2>1, ReadyStays
  <2>4. ~DialSucceeds(r) /\ ~RedialerDials(r)
    BY <2>1, <2>2, <2>3 DEF DialSucceeds, RedialerDials, RedialCtxDone
  <2>5. \A q \in Redialers : redialPc'[q] # "dialing"
    BY <2>2, <2>4
       DEF Redialer, ReceiveCloseEvent, ReceiveOpError, RedialerAnnounceLock,
           RedialerLock, ReportDisconnect, DisconnectReported, RedialerExits,
           ExitLabel, DialFails, AnnounceDial, FailureAnnounced, RetryLabel,
           SuccessAnnounced, RedialerUnlock
  <2> QED BY <1>2, <2>2, <2>4, <2>5
<1> QED BY <1>3, <1>4, <1>5 DEF NoDialAfterClose, NoTransportAfterClose

\* Close closes the transport in use, with the lock, when nobody dials.
LEMMA CloseCloser ==
    ASSUME TypeOK, LockInv, DialInv, CloseInv, NEW c \in Closers, Closer(c)
    PROVE  CloseInv'
<1> USE DEF TypeOK, LockInv, DialInv, CloseInv, netVars, MoveCloser
<1>1. UNCHANGED <<redialPc, current>> /\ (ctxDone => ctxDone')
  <2>1. CASE CloseSubscribers(c)
    BY <2>1 DEF CloseSubscribers
  <2>2. CASE CloseTransport(c)
    BY <2>2 DEF CloseTransport
  <2>3. CASE ~CloseSubscribers(c) /\ ~CloseTransport(c)
    BY <2>3 DEF Closer, CloseCheckContext, CloseCancelsContext, CloserAnnouncesLock,
                SendCloseNotifications, CloseReturns
  <2> QED BY <2>1, <2>2, <2>3
<1>2. ReadyHasTransport'
  BY <1>1 DEF ReadyHasTransport, Ready
<1>3. CASE CloseTransport(c)
  <2>1. Ready /\ ctxDone /\ writer = c /\ ctxDone'
    BY <1>1, <1>3 DEF CloseTransport, ClosersWhenReady, CloserHasCancelled, WriterAnnounced
  <2>2. \A q \in Redialers : redialPc[q] # "dialing"
    BY <2>1, ConstantsAssumption DEF Ready, WriterAnnounced, Exclusive
  <2>3. current \in Transports
    BY <2>1, ConstantsAssumption DEF ReadyHasTransport, Redialers, Transports
  <2>4. health'[current'] # "live"
    BY <1>1, <1>3, <2>3 DEF CloseTransport, HealthAfterClose
  <2>5. CloserHasCancelled'
    BY <2>1 DEF CloserHasCancelled
  <2> QED BY <1>1, <1>2, <2>2, <2>4, <2>5 DEF NoDialAfterClose, NoTransportAfterClose
<1>4. CASE ~CloseTransport(c)
  <2>1. /\ UNCHANGED health
        /\ \A d \in Closers : closePc'[d] \in Closing => closePc[d] \in Closing
    <3>1. CASE CloseSubscribers(c)
      BY <3>1 DEF CloseSubscribers, Closing
    <3>2. CASE ~CloseSubscribers(c)
      BY <1>4, <3>2
         DEF Closer, CloseCheckContext, CloseCancelsContext, CloserAnnouncesLock,
             SendCloseNotifications, CloseReturns, Closing
    <3> QED BY <3>1, <3>2
  <2>2. CloserHasCancelled'
    <3>1. CASE CloseSubscribers(c)
      BY <3>1 DEF CloseSubscribers, CloserHasCancelled
    <3>2. CASE ~CloseSubscribers(c)
      BY <1>4, <3>2
         DEF Closer, CloseCheckContext, CloseCancelsContext, CloserAnnouncesLock,
             SendCloseNotifications, CloseReturns, CloserHasCancelled
    <3> QED BY <3>1, <3>2
  <2> QED BY <1>1, <1>2, <2>1, <2>2 DEF NoDialAfterClose, NoTransportAfterClose
<1> QED BY <1>3, <1>4

\* Neither callers, nor subscribers, nor the environment bring a transport back.
LEMMA CloseOthers ==
    ASSUME TypeOK, DialInv, CloseInv, Next,
           ~ \E r \in Redialers : Redialer(r),
           ~ \E c \in Closers : Closer(c)
    PROVE  CloseInv'
<1> USE DEF netVars
<1>1. UNCHANGED <<redialPc, current>> /\ (ctxDone => ctxDone')
  BY StepOfOthers
<1>2. UNCHANGED closePc /\ \A t \in Transports : health'[t] \in {health[t], "failed"}
  <2>1. CASE \E p \in Callers : \/ OpCall(p) \/ OpCheckContext(p) \/ OpRLock(p)
                                \/ OpSucceeds(p) \/ OpFails(p)
    BY <2>1 DEF OpCall, OpCheckContext, OpRLock, OpSucceeds, OpFails
  <2>2. CASE \/ \E s \in DialSubs : NotifyDial(s)
             \/ \E s \in DisconnectSubs : NotifyDisconnect(s)
             \/ \E s \in CloseSubs : NotifyClose(s)
             \/ SendNotification
             \/ \E s \in Subs : SubscriberReceives(s)
    BY <2>2 DEF NotifyDial, NotifyDisconnect, NotifyClose, Register, SendNotification,
                SubscriberReceives
  <2>3. CASE \E t \in Transports : TransportFails(t)
    BY <2>3 DEF TransportFails, TypeOK
  <2>4. CASE \/ \E t \in Transports : StreadwaySignals(t)
             \/ ParentCancels \/ DialCtxCancelled \/ Abandoned
    BY <2>4 DEF StreadwaySignals, ParentCancels, DialCtxCancelled, Abandoned, vars
  <2> QED BY <2>1, <2>2, <2>3, <2>4 DEF Next
<1>3. ASSUME NEW c \in Closers, closePc[c] \in Closing
      PROVE  health'[current] # "live"
  <2>1. Ready
    BY <1>3 DEF DialInv, ClosersWhenReady, Closing
  <2>2. current \in Transports
    BY <2>1, ConstantsAssumption
       DEF TypeOK, CloseInv, ReadyHasTransport, Redialers, Transports
  <2> QED BY <1>2, <1>3, <2>2 DEF CloseInv, NoTransportAfterClose
<1> QED BY <1>1, <1>2, <1>3
           DEF CloseInv, ReadyHasTransport, CloserHasCancelled, NoDialAfterClose,
               NoTransportAfterClose, Ready

\* Every step keeps CloseInv.
LEMMA CloseNext == TypeOK /\ LockInv /\ DialInv /\ CloseInv /\ [Next]_vars => CloseInv'
<1>1. ASSUME TypeOK, LockInv, DialInv, CloseInv, Next PROVE CloseInv'
  BY <1>1, CloseRedialer, CloseCloser, CloseOthers
<1>2. ASSUME CloseInv, UNCHANGED vars PROVE CloseInv'
  BY <1>2 DEF vars, netVars, CloseInv, ReadyHasTransport, CloserHasCancelled,
              NoDialAfterClose, NoTransportAfterClose, Ready
<1> QED BY <1>1, <1>2

\* The invariants of the lock, of the first dial and of the close hold together.
LEMMA ClosedCorrect == Spec => [](TypeOK /\ LockInv /\ DialInv /\ CloseInv)
BY DialInit, DialNextInv, CloseInit, CloseNext, TypeCorrect, LockCorrect, PTL DEF Spec

\* Once Close has closed the transport there is none in use, even if a redial was under
\* way and succeeded after the context was cancelled (cancelCtxCloseTransport).
THEOREM TransportClosed == Spec => []NoTransportAfterClose
<1>1. CloseInv => NoTransportAfterClose
  BY DEF CloseInv
<1> QED BY <1>1, ClosedCorrect, PTL

-----------------------------------------------------------------------------
(***************************************************************************)
(* The subscribers after Close.                                            *)
(***************************************************************************)

\* Appending to a list adds one member to it.
LEMMA InListAppend ==
    ASSUME NEW S, NEW list \in Seq(S), NEW s \in S, NEW t
    PROVE  InList(t, Append(list, s)) <=> t = s \/ InList(t, list)
<1>1. /\ DOMAIN list = 1 .. Len(list)
      /\ DOMAIN Append(list, s) = 1 .. Len(list) + 1
      /\ Append(list, s)[Len(list) + 1] = s
      /\ \A i \in 1 .. Len(list) : Append(list, s)[i] = list[i]
      /\ Len(list) \in Nat
  OBVIOUS
<1>2. \A i : i \in 1 .. Len(list) + 1 <=> i \in 1 .. Len(list) \/ i = Len(list) + 1
  BY <1>1
<1> QED BY <1>1, <1>2 DEF InList

\* A list has its head and the members of its tail.
LEMMA InListTail ==
    ASSUME NEW S, NEW list \in Seq(S), list # <<>>, NEW t
    PROVE  InList(t, list) <=> t = Head(list) \/ InList(t, Tail(list))
<1>1. /\ DOMAIN list = 1 .. Len(list)
      /\ Len(list) \in Nat \ {0}
      /\ DOMAIN Tail(list) = 1 .. Len(list) - 1
      /\ Head(list) = list[1]
      /\ \A i \in 1 .. Len(list) - 1 : Tail(list)[i] = list[i + 1]
  OBVIOUS
<1>2. ASSUME InList(t, list), t # Head(list) PROVE InList(t, Tail(list))
  <2>1. PICK i \in 1 .. Len(list) : list[i] = t
    BY <1>1, <1>2 DEF InList
  <2>2. i - 1 \in 1 .. Len(list) - 1 /\ Tail(list)[i - 1] = list[i]
    BY <1>1, <1>2, <2>1
  <2> QED BY <1>1, <2>1, <2>2 DEF InList
<1>3. ASSUME InList(t, Tail(list)) PROVE InList(t, list)
  <2>1. PICK i \in 1 .. Len(list) - 1 : Tail(list)[i] = t
    BY <1>1, <1>3 DEF InList
  <2>2. i + 1 \in 1 .. Len(list) /\ list[i + 1] = t
    BY <1>1, <2>1
  <2> QED BY <1>1, <2>2 DEF InList
<1>4. InList(Head(list), list)
  BY <1>1 DEF InList
<1> QED BY <1>2, <1>3, <1>4

\* Nobody is in the empty list.
LEMMA InListEmpty == \A t : ~InList(t, <<>>)
BY DEF InList

\* The labels at which a redialer calls handlers.
SendingPcs == {"reporting", "announcingUp", "announcingErr"}

\* What a step of a redialer does to the subscribers: nothing, or it starts to call
\* the handlers of a list, or it has called them all.
LEMMA RedialerSends ==
    ASSUME TypeOK, NEW r \in Redialers, Redialer(r)
    PROVE  /\ UNCHANGED <<ctxDone, panicked, closePc, chan, dialSubs, disconnectSubs,
                          closeSubs>>
           /\ \A q \in Redialers :
                 redialPc'[q] \in SendingPcs => redialPc[q] \in SendingPcs \/ q = r
           /\ \/ /\ UNCHANGED <<subLock, sending>>
                 /\ redialPc'[r] \notin SendingPcs
                 /\ redialPc[r] \notin SendingPcs
              \/ StartSending(r, dialSubs) \/ StartSending(r, disconnectSubs)
              \/ FinishSending(r) /\ redialPc'[r] \notin SendingPcs
<1> USE DEF TypeOK, MoveRedialer, SendingPcs, subVars
<1>1. CASE \/ ReceiveCloseEvent(r) \/ ReceiveOpError(r) \/ RedialerAnnounceLock(r)
           \/ RedialerLock(r)
  BY <1>1 DEF ReceiveCloseEvent, ReceiveOpError, RedialerAnnounceLock, RedialerLock
<1>2. CASE RedialerExits(r) \/ RedialerDials(r) \/ DialFails(r) \/ RedialerUnlock(r)
  BY <1>2 DEF RedialerExits, ExitLabel, RedialerDials, DialFails, RedialerUnlock
<1>3. CASE DialSucceeds(r)
  BY <1>3 DEF DialSucceeds
<1>4. CASE ReportDisconnect(r) \/ AnnounceDial(r)
  BY <1>4 DEF ReportDisconnect, AnnounceDial, StartSending
<1>5. CASE DisconnectReported(r) \/ FailureAnnounced(r)
  BY <1>5 DEF DisconnectReported, FailureAnnounced, FinishSending, RetryLabel
<1>6. CASE SuccessAnnounced(r)
  <2>1. UNCHANGED <<ctxDone, panicked, closePc, chan, dialSubs, disconnectSubs, closeSubs>>
    BY <1>6 DEF SuccessAnnounced, FinishSending
  <2>2. FinishSending(r)
    BY <1>6 DEF SuccessAnnounced
  <2>3. \A q \in Redialers : redialPc'[q] \in {redialPc[q], "waiting", "done", "unlock"}
    BY <1>6 DEF SuccessAnnounced
  <2>4. redialPc'[r] \notin SendingPcs
    BY <1>6 DEF SuccessAnnounced
  <2> QED BY <2>1, <2>2, <2>3, <2>4
<1> QED BY <1>1, <1>2, <1>3, <1>4, <1>5, <1>6 DEF Redialer

\* At first no channel has been registered.
LEMMA SubsInit == Init => SubsInv
<1> SUFFICES ASSUME Init PROVE SubsInv
  OBVIOUS
<1> QED BY DEF Init, SubsInv, OpenIsListed, ListsForgotten, ClosersNotify, SendersHoldLock

\* The variables SubsInv speaks of, but for the context.
subsInvVars == <<subLock, sending, dialSubs, disconnectSubs, closeSubs, chan, redialPc,
                 closePc>>

\* A step that touches none of them keeps SubsInv.
LEMMA SubsUnchanged ==
    ASSUME SubsInv, UNCHANGED subsInvVars
    PROVE  SubsInv'
BY DEF SubsInv, subsInvVars, OpenIsListed, ListsForgotten, ClosersNotify,
       SendersHoldLock, InList

\* A redialer that calls handlers shuts out the closer, and closes no channel.
LEMMA SubsRedialer ==
    ASSUME TypeOK, SubsInv, NEW r \in Redialers, Redialer(r)
    PROVE  SubsInv'
<1> USE DEF SubsInv
<1>1. UNCHANGED <<closePc, chan, dialSubs, disconnectSubs, closeSubs>>
  BY RedialerSends
<1>2. OpenIsListed' /\ ListsForgotten'
  BY <1>1 DEF OpenIsListed, ListsForgotten, InList
<1>3. ClosersNotify'
  <2>1. ASSUME NEW c \in Closers, closePc[c] = "notifying"
        PROVE  UNCHANGED <<subLock, sending>>
    <3>1. subLock = c /\ c # NoOne /\ c # r
      BY <2>1, ConstantsAssumption DEF ClosersNotify, Writers
    <3> QED BY <3>1, RedialerSends DEF StartSending, FinishSending
  <2> QED BY <1>1, <2>1 DEF ClosersNotify, InList
<1>4. SendersHoldLock'
  <2>1. ASSUME NEW q \in Redialers, redialPc'[q] \in SendingPcs
        PROVE  subLock' = q
    <3>1. CASE q = r
      BY <2>1, <3>1, RedialerSends DEF StartSending
    <3>2. CASE q # r
      <4>1. subLock = q /\ q # NoOne
        BY <2>1, <3>2, RedialerSends, ConstantsAssumption
           DEF SendersHoldLock, SendingPcs, Writers
      <4> QED BY <3>2, <4>1, RedialerSends DEF StartSending, FinishSending
    <3> QED BY <3>1, <3>2
  <2> QED BY <2>1 DEF SendersHoldLock, SendingPcs
<1> QED BY <1>2, <1>3, <1>4

\* Close forgets and closes the channels of two lists, then takes the third.
LEMMA SubsCloser ==
    ASSUME TypeOK, SubsInv, NEW c \in Closers, Closer(c)
    PROVE  SubsInv'
<1> USE DEF TypeOK, SubsInv, subVars
<1>1. CASE CloseSubscribers(c)
  <2> USE <1>1 DEF CloseSubscribers, MoveCloser, Cleared
  <2>1. /\ UNCHANGED <<subLock, sending, closeSubs, redialPc>>
        /\ dialSubs' = <<>> /\ disconnectSubs' = <<>>
        /\ subLock = NoOne
    OBVIOUS
  <2>2. ASSUME NEW s \in Subs, chan'[s] = "open"
        PROVE  chan[s] = "open" /\ ~Listening(s)
    BY <2>2
  <2>3. ASSUME NEW s \in Subs, chan'[s] = "open"
        PROVE  s \notin DialSubs /\ s \notin DisconnectSubs
    BY <2>2, <2>3 DEF OpenIsListed, Listening
  <2>4. OpenIsListed'
    <3>1. ASSUME NEW s \in Subs, chan'[s] = "open", s \in CloseSubs
          PROVE  InList(s, closeSubs)
      BY <2>2, <3>1 DEF OpenIsListed
    <3> QED BY <2>1, <2>3, <3>1 DEF OpenIsListed, InList
  <2>5. ListsForgotten'
    BY <2>1 DEF ListsForgotten
  <2>6. ClosersNotify'
    <3>1. \A d \in Closers : closePc[d] # "notifying"
      BY <2>1, ConstantsAssumption DEF ClosersNotify, Writers
    <3>2. \A d \in Closers : closePc'[d] # "notifying"
                             /\ (closePc'[d] = "done" => closePc[d] = "done")
      BY <3>1
    <3>3. \A s \in CloseSubs : chan'[s] = "open" => chan[s] = "open"
      BY <2>2 DEF Subs
    <3> QED BY <3>2, <3>3 DEF ClosersNotify
  <2>7. SendersHoldLock'
    BY <2>1 DEF SendersHoldLock
  <2> QED BY <2>4, <2>5, <2>6, <2>7
<1>2. CASE SendCloseNotifications(c)
  <2> USE <1>2 DEF SendCloseNotifications, StartSending, MoveCloser
  <2>1. \A w \in Writers : subLock # w
    BY ConstantsAssumption
  <2>2. OpenIsListed' /\ ListsForgotten'
    BY DEF OpenIsListed, ListsForgotten, InList
  <2>3. \A d \in Closers : d # c => closePc'[d] # "notifying"
    BY <2>1 DEF ClosersNotify, Writers
  <2>4. \A s \in CloseSubs : chan[s] = "open" => InList(s, closeSubs)
    BY DEF OpenIsListed, Subs
  <2>5. ClosersNotify'
    BY <2>3, <2>4 DEF ClosersNotify, InList
  <2>6. SendersHoldLock'
    BY <2>1 DEF SendersHoldLock, Writers
  <2> QED BY <2>2, <2>5, <2>6
<1>3. CASE CloseReturns(c)
  <2> USE <1>3 DEF CloseReturns, FinishSending, MoveCloser
  <2>1. OpenIsListed' /\ ListsForgotten'
    BY DEF OpenIsListed, ListsForgotten, InList
  <2>2. \A d \in Closers : d # c => closePc'[d] # "notifying"
    BY DEF ClosersNotify
  <2>3. \A s \in CloseSubs : chan[s] # "open"
    BY InListEmpty DEF ClosersNotify
  <2>4. ClosersNotify'
    BY <2>2, <2>3 DEF ClosersNotify
  <2>5. SendersHoldLock'
    BY ConstantsAssumption DEF SendersHoldLock
  <2> QED BY <2>1, <2>4, <2>5
<1>4. CASE ~ (CloseSubscribers(c) \/ SendCloseNotifications(c) \/ CloseReturns(c))
  <2>1. /\ UNCHANGED <<subLock, sending, dialSubs, disconnectSubs, closeSubs, chan, redialPc>>
        /\ \A d \in Closers : closePc'[d] = closePc[d]
                              \/ closePc'[d] \notin {"notify", "notifying", "done"}
    BY <1>4 DEF Closer, CloseCheckContext, CloseCancelsContext, CloserAnnouncesLock,
                CloseTransport, MoveCloser
  <2> QED BY <2>1 DEF OpenIsListed, ListsForgotten, ClosersNotify, SendersHoldLock, InList
<1> QED BY <1>1, <1>2, <1>3, <1>4

\* A send closes the channel of a close subscriber and takes it off the handlers
\* still to be called.
LEMMA SubsSend ==
    ASSUME TypeOK, SubsInv, SendNotification
    PROVE  SubsInv'
<1> USE DEF TypeOK, SubsInv, SendNotification
<1>1. UNCHANGED <<subLock, dialSubs, disconnectSubs, closeSubs, redialPc, closePc>>
  OBVIOUS
<1>2. CASE UNCHANGED <<sending, chan>>
  BY <1>1, <1>2, SubsUnchanged DEF subsInvVars
<1>3. CASE /\ chan' = [chan EXCEPT ![Head(sending)] = ChanAfterSend(Head(sending))]
           /\ sending' = Tail(sending)
  <2>1. Head(sending) \in Subs
    OBVIOUS
  <2>2. \A s \in Subs : chan'[s] = "open" => chan[s] = "open"
    BY <1>3, <2>1 DEF ChanAfterSend
  <2>3. \A s \in CloseSubs : chan'[s] = "open" => s # Head(sending)
    BY <1>3, <2>1 DEF ChanAfterSend
  <2>4. OpenIsListed'
    BY <1>1, <2>2 DEF OpenIsListed, InList
  <2>5. ClosersNotify'
    <3>1. \A s \in CloseSubs : chan'[s] = "open" /\ InList(s, sending)
                                  => InList(s, Tail(sending))
      BY <2>3, InListTail
    <3>2. \A s \in CloseSubs : chan'[s] = "open" => chan[s] = "open"
      BY <2>2 DEF Subs
    <3> QED BY <1>1, <1>3, <3>1, <3>2 DEF ClosersNotify, InList
  <2> QED BY <1>1, <2>4, <2>5 DEF ListsForgotten, SendersHoldLock
<1> QED BY <1>2, <1>3

\* A registration adds an open channel to its list, or closes it when the context is
\* cancelled, so none is added once Close has begun.
LEMMA SubsRegister ==
    ASSUME TypeOK, CloserHasCancelled, SubsInv,
           \/ \E s \in DialSubs : NotifyDial(s)
           \/ \E s \in DisconnectSubs : NotifyDisconnect(s)
           \/ \E s \in CloseSubs : NotifyClose(s)
    PROVE  SubsInv'
<1> USE DEF TypeOK, SubsInv
<1>0. PICK s \in Subs :
        /\ Register(s)
        /\ dialSubs' = IF ctxDone \/ s \notin DialSubs THEN dialSubs
                       ELSE Append(dialSubs, s)
        /\ disconnectSubs' = IF ctxDone \/ s \notin DisconnectSubs THEN disconnectSubs
                             ELSE Append(disconnectSubs, s)
        /\ closeSubs' = IF ctxDone \/ s \notin CloseSubs THEN closeSubs
                        ELSE Append(closeSubs, s)
  BY ConstantsAssumption DEF NotifyDial, NotifyDisconnect, NotifyClose, Subs
<1> USE DEF Register
<1>1. UNCHANGED <<subLock, sending, redialPc, closePc>>
  BY <1>0
<1>2. chan' = [chan EXCEPT ![s] = IF ctxDone THEN "closed" ELSE "open"]
  BY <1>0 DEF ChanAtRegistration
<1>3. CASE ctxDone
  <2>1. UNCHANGED <<dialSubs, disconnectSubs, closeSubs>>
    BY <1>0, <1>3
  <2>2. \A t \in Subs : chan'[t] = "open" => chan[t] = "open"
    BY <1>2, <1>3
  <2>3. \A t \in CloseSubs : chan'[t] = "open" => chan[t] = "open"
    BY <2>2 DEF Subs
  <2>4. OpenIsListed'
    BY <1>1, <2>1, <2>2, <2>3 DEF OpenIsListed, InList
  <2>5. ListsForgotten' /\ ClosersNotify' /\ SendersHoldLock'
    BY <1>1, <2>1, <2>2, <2>3 DEF ListsForgotten, ClosersNotify, SendersHoldLock, InList
  <2> QED BY <2>4, <2>5
<1>4. CASE ~ctxDone
  <2>1. \A c \in Closers : closePc[c] \in {"idle", "cancel", "refused"}
    BY <1>4 DEF CloserHasCancelled
  <2>2. ASSUME NEW t \in Subs, chan'[t] = "open"
        PROVE  /\ t \in DialSubs => InList(t, dialSubs')
               /\ t \in DisconnectSubs => InList(t, disconnectSubs')
               /\ t \in CloseSubs => InList(t, closeSubs')
    <3>1. t = s \/ chan[t] = "open"
      BY <1>2, <2>2
    <3>2. ASSUME t \in DialSubs PROVE InList(t, dialSubs')
      BY <1>0, <1>4, <3>1, <3>2, InListAppend DEF OpenIsListed
    <3>3. ASSUME t \in DisconnectSubs PROVE InList(t, disconnectSubs')
      BY <1>0, <1>4, <3>1, <3>3, InListAppend DEF OpenIsListed
    <3>4. ASSUME t \in CloseSubs PROVE InList(t, closeSubs')
      BY <1>0, <1>4, <3>1, <3>4, InListAppend DEF OpenIsListed
    <3> QED BY <3>2, <3>3, <3>4
  <2>3. OpenIsListed'
    BY <2>2 DEF OpenIsListed, InList
  <2> QED BY <1>1, <2>1, <2>3 DEF ListsForgotten, ClosersNotify, SendersHoldLock
<1> QED BY <1>3, <1>4

\* Every step keeps SubsInv.
LEMMA SubsNext ==
    ASSUME TypeOK, CloserHasCancelled, SubsInv, [Next]_vars
    PROVE  SubsInv'
<1>1. CASE \E r \in Redialers : Redialer(r)
  BY <1>1, SubsRedialer
<1>2. CASE \E c \in Closers : Closer(c)
  BY <1>2, SubsCloser
<1>3. CASE SendNotification
  BY <1>3, SubsSend
<1>4. CASE \/ \E s \in DialSubs : NotifyDial(s)
           \/ \E s \in DisconnectSubs : NotifyDisconnect(s)
           \/ \E s \in CloseSubs : NotifyClose(s)
  BY <1>4, SubsRegister
<1>5. CASE \/ \E p \in Callers : \/ OpCall(p) \/ OpCheckContext(p) \/ OpRLock(p)
                                 \/ OpSucceeds(p) \/ OpFails(p)
           \/ \E s \in Subs : SubscriberReceives(s)
           \/ \E t \in Transports : TransportFails(t) \/ StreadwaySignals(t)
           \/ ParentCancels \/ DialCtxCancelled \/ Abandoned
           \/ UNCHANGED vars
  <2>1. UNCHANGED subsInvVars
    BY <1>5
       DEF OpCall, OpCheckContext, OpRLock, OpSucceeds, OpFails, SubscriberReceives,
           TransportFails, StreadwaySignals, ParentCancels, DialCtxCancelled, Abandoned,
           vars, subVars, subsInvVars
  <2> QED BY <2>1, SubsUnchanged
<1> QED BY <1>1, <1>2, <1>3, <1>4, <1>5 DEF Next

\* When Close has returned no subscriber is left on an open channel, whenever it
\* registered and however many calls of Close there were (createNotifyDial,
\* createNotifyDisconnect, createNotifyClose).
THEOREM SubscribersClosed == Spec => []NoSubscriberLeftBehind
<1>1. CloseInv => CloserHasCancelled
  BY DEF CloseInv
<1>2. SubsInv => NoSubscriberLeftBehind
  <2> SUFFICES ASSUME SubsInv, NEW c \in Closers, closePc[c] = "done", NEW s \in Subs
               PROVE  chan[s] # "open"
    BY DEF NoSubscriberLeftBehind
  <2> QED BY InListEmpty
             DEF SubsInv, OpenIsListed, ListsForgotten, ClosersNotify, Subs
<1>3. TypeOK /\ CloserHasCancelled /\ SubsInv /\ [Next]_vars => SubsInv'
  BY SubsNext
<1> QED BY <1>1, <1>2, <1>3, SubsInit, ClosedCorrect, PTL DEF Spec

-----------------------------------------------------------------------------
(***************************************************************************)
(* Sends on closed channels.                                               *)
(***************************************************************************)

\* Where the members of a tail stand in its list.
LEMMA TailAt ==
    ASSUME NEW S, NEW list \in Seq(S), list # <<>>
    PROVE  /\ 1 \in DOMAIN list /\ Head(list) = list[1] /\ Head(list) \in S
           /\ \A i \in DOMAIN Tail(list) : /\ i + 1 \in DOMAIN list /\ i + 1 # 1
                                           /\ Tail(list)[i] = list[i + 1]
           /\ \A i, j \in DOMAIN Tail(list) : i + 1 = j + 1 => i = j
<1>1. /\ DOMAIN list = 1 .. Len(list)
      /\ Len(list) \in Nat \ {0}
      /\ DOMAIN Tail(list) = 1 .. Len(list) - 1
      /\ Head(list) = list[1]
      /\ \A i \in 1 .. Len(list) - 1 : Tail(list)[i] = list[i + 1]
  OBVIOUS
<1> QED BY <1>1

\* The tail of a list without repetitions has none, and not the head if it is a
\* close subscriber.
LEMMA OnceTail ==
    ASSUME NEW S, NEW list \in Seq(S), list # <<>>, Once(list)
    PROVE  /\ Once(Tail(list))
           /\ \A i \in DOMAIN Tail(list) :
                 Head(list) \in CloseSubs => Tail(list)[i] # Head(list)
BY TailAt DEF Once

\* A close subscriber that is not in a list can be appended to it.
LEMMA OnceAppend ==
    ASSUME NEW S, NEW list \in Seq(S), NEW s \in S, Once(list), ~InList(s, list)
    PROVE  Once(Append(list, s))
<1>1. /\ DOMAIN list = 1 .. Len(list)
      /\ DOMAIN Append(list, s) = 1 .. Len(list) + 1
      /\ Append(list, s)[Len(list) + 1] = s
      /\ \A i \in 1 .. Len(list) : Append(list, s)[i] = list[i]
      /\ Len(list) \in Nat
  OBVIOUS
<1>2. \A i \in 1 .. Len(list) : list[i] # s
  BY <1>1 DEF InList
<1>3. ASSUME NEW i \in DOMAIN Append(list, s), NEW j \in DOMAIN Append(list, s),
             i # j, Append(list, s)[i] = Append(list, s)[j]
      PROVE  Append(list, s)[i] \notin CloseSubs
  <2>1. i \in 1 .. Len(list) /\ j \in 1 .. Len(list)
    BY <1>1, <1>2, <1>3
  <2> QED BY <1>1, <1>3, <2>1 DEF Once
<1> QED BY <1>3 DEF Once

\* At first there is no list and nobody sends.
LEMMA SendInit == Init => SendInv
<1> SUFFICES ASSUME Init PROVE SendInv
  OBVIOUS
<1> QED BY DEF Init, SendInv, ListedIsOpen, SendingIsOpen, Once, Listening, InList

\* The variables SendInv speaks of.
sendInvVars == <<subLock, sending, dialSubs, disconnectSubs, closeSubs, chan, closePc,
                 panicked>>

\* A step that touches none of them keeps SendInv.
LEMMA SendUnchanged ==
    ASSUME SendInv, UNCHANGED sendInvVars
    PROVE  SendInv'
BY DEF SendInv, sendInvVars, ListedIsOpen, SendingIsOpen, Once, Listening, InList

\* A redialer starts on handlers whose channels are open, none of a close subscriber.
LEMMA SendRedialer ==
    ASSUME TypeOK, SendInv, NEW r \in Redialers, Redialer(r)
    PROVE  SendInv'
<1> USE DEF TypeOK, SendInv
<1>1. UNCHANGED <<closePc, chan, panicked, dialSubs, disconnectSubs, closeSubs>>
  BY RedialerSends
<1>2. ListedIsOpen'
  BY <1>1 DEF ListedIsOpen, Listening, InList
<1>3. CASE UNCHANGED <<subLock, sending>>
  BY <1>1, <1>3, SendUnchanged DEF sendInvVars
<1>4. ASSUME NEW list \in Seq(Subs), StartSending(r, list),
             \A i \in DOMAIN list : list[i] \notin CloseSubs /\ chan[list[i]] = "open"
      PROVE  SendInv'
  <2>1. subLock' # NoOne /\ sending' = list
    BY <1>4, ConstantsAssumption DEF StartSending, Writers
  <2>2. SendingIsOpen'
    BY <1>1, <1>4, <2>1 DEF SendingIsOpen, Once
  <2> QED BY <1>1, <1>2, <2>2
<1>5. CASE StartSending(r, dialSubs)
  <2>1. \A i \in DOMAIN dialSubs : dialSubs[i] \in DialSubs
    OBVIOUS
  <2>2. \A i \in DOMAIN dialSubs :
            dialSubs[i] \notin CloseSubs /\ chan[dialSubs[i]] = "open"
    BY <2>1, ConstantsAssumption DEF ListedIsOpen, Listening, InList, Subs
  <2> QED BY <1>4, <1>5, <2>2, ListOfSubs
<1>6. CASE StartSending(r, disconnectSubs)
  <2>1. \A i \in DOMAIN disconnectSubs : disconnectSubs[i] \in DisconnectSubs
    OBVIOUS
  <2>2. \A i \in DOMAIN disconnectSubs :
            disconnectSubs[i] \notin CloseSubs /\ chan[disconnectSubs[i]] = "open"
    BY <2>1, ConstantsAssumption DEF ListedIsOpen, Listening, InList, Subs
  <2> QED BY <1>4, <1>6, <2>2, ListOfSubs
<1>7. CASE FinishSending(r)
  BY <1>1, <1>2, <1>7 DEF FinishSending, SendingIsOpen
<1> QED BY <1>3, <1>5, <1>6, <1>7, RedialerSends

\* The only call of Close closes open channels only, and sends to each close
\* subscriber once.
LEMMA SendCloser ==
    ASSUME TypeOK, SendInv, ~TwoCloses', NEW c \in Closers, Closer(c)
    PROVE  SendInv'
<1> USE DEF TypeOK, SendInv, subVars
<1>1. CASE CloseSubscribers(c)
  <2> USE <1>1 DEF CloseSubscribers, MoveCloser, Cleared
  <2>1. /\ sending = <<>>
        /\ UNCHANGED <<subLock, sending, closeSubs>>
        /\ dialSubs' = <<>> /\ disconnectSubs' = <<>>
    BY DEF SendingIsOpen
  <2>2. \A s \in Subs : Listening(s) => chan[s] = "open"
    BY DEF ListedIsOpen
  <2>3. ~panicked'
    BY <2>2
  <2>4. \A s \in Subs : ~Listening(s)'
    BY <2>1 DEF Listening, InList
  <2>5. \A s \in CloseSubs : chan'[s] = chan[s]
    <3>1. ASSUME NEW s \in CloseSubs PROVE ~Listening(s)
      BY ConstantsAssumption DEF Listening, InList
    <3> QED BY <3>1 DEF Subs
  <2>6. \A s \in Subs : InList(s, closeSubs) => s \in CloseSubs
    BY DEF InList
  <2>7. \A d \in Closers : closePc[d] \in {"notifying", "done"} => closePc'[d] = closePc[d]
    OBVIOUS
  <2>8. ListedIsOpen'
    <3>1. ASSUME NEW s \in Subs, InList(s, closeSubs)
          PROVE  \/ chan'[s] = "open"
                 \/ \E d \in Closers : closePc'[d] \in {"notifying", "done"}
      BY <2>5, <2>6, <2>7, <3>1 DEF ListedIsOpen
    <3> QED BY <2>1, <2>4, <3>1 DEF ListedIsOpen, InList
  <2>9. SendingIsOpen'
    BY <2>1 DEF SendingIsOpen, Once
  <2> QED BY <2>3, <2>8, <2>9
<1>2. CASE SendCloseNotifications(c)
  <2> USE <1>2 DEF SendCloseNotifications, StartSending, MoveCloser
  <2>1. \A d \in Closers : closePc[d] \notin {"notifying", "done"}
    BY DEF TwoCloses, Began
  <2>2. \A i \in DOMAIN closeSubs :
           closeSubs[i] \in CloseSubs /\ InList(closeSubs[i], closeSubs)
    BY DEF InList
  <2>3. \A i \in DOMAIN closeSubs : chan[closeSubs[i]] = "open"
    BY <2>1, <2>2 DEF ListedIsOpen, Subs
  <2>4. closePc'[c] = "notifying" /\ subLock' # NoOne
    BY ConstantsAssumption DEF Writers
  <2>5. SendingIsOpen'
    BY <2>3, <2>4 DEF SendingIsOpen, Once
  <2>6. ListedIsOpen'
    BY <2>4 DEF ListedIsOpen, Listening, InList
  <2> QED BY <2>5, <2>6
<1>3. CASE CloseReturns(c)
  <2> USE <1>3 DEF CloseReturns, FinishSending, MoveCloser
  <2>1. SendingIsOpen'
    BY DEF SendingIsOpen, Once
  <2>2. ListedIsOpen'
    BY DEF ListedIsOpen, Listening, InList
  <2> QED BY <2>1, <2>2
<1>4. CASE ~ (CloseSubscribers(c) \/ SendCloseNotifications(c) \/ CloseReturns(c))
  <2>1. /\ UNCHANGED <<subLock, sending, dialSubs, disconnectSubs, closeSubs, chan, panicked>>
        /\ \A d \in Closers :
              closePc[d] \in {"notifying", "done"} => closePc'[d] = closePc[d]
    BY <1>4 DEF Closer, CloseCheckContext, CloseCancelsContext, CloserAnnouncesLock,
                CloseTransport, MoveCloser
  <2>2. ListedIsOpen'
    BY <2>1 DEF ListedIsOpen, Listening, InList
  <2>3. SendingIsOpen'
    BY <2>1 DEF SendingIsOpen, Once
  <2> QED BY <2>1, <2>2, <2>3
<1> QED BY <1>1, <1>2, <1>3, <1>4

\* The next handler's channel is open; a close subscriber's is closed and is not
\* among those still to be sent to.
LEMMA SendSend ==
    ASSUME TypeOK, SendInv, SendNotification
    PROVE  SendInv'
<1> USE DEF TypeOK, SendInv, SendNotification
<1> DEFINE s == Head(sending)
<1>1. /\ 1 \in DOMAIN sending /\ s = sending[1] /\ s \in Subs
      /\ \A i \in DOMAIN Tail(sending) :
            i + 1 \in DOMAIN sending /\ Tail(sending)[i] = sending[i + 1]
  BY TailAt
<1>2. chan[s] = "open"
  BY <1>1 DEF SendingIsOpen
<1>3. /\ UNCHANGED <<subLock, dialSubs, disconnectSubs, closeSubs, closePc, panicked>>
      /\ chan' = [chan EXCEPT ![s] = ChanAfterSend(s)]
      /\ sending' = Tail(sending)
  BY <1>2
<1>4. \A t \in Subs : chan'[t] = chan[t] \/ (t = s /\ t \in CloseSubs)
  BY <1>1, <1>3 DEF ChanAfterSend
<1>5. ListedIsOpen'
  <2>1. ASSUME NEW t \in Subs, Listening(t) PROVE chan'[t] = "open"
    <3>1. t \notin CloseSubs
      BY <2>1, ConstantsAssumption DEF Listening, InList
    <3> QED BY <1>4, <2>1, <3>1 DEF ListedIsOpen
  <2>2. ASSUME NEW t \in Subs, InList(t, closeSubs)
        PROVE  chan'[t] = "open" \/ \E c \in Closers : closePc[c] \in {"notifying", "done"}
    <3>1. CASE t = s /\ t \in CloseSubs
      <4>1. \E c \in Closers : closePc[c] = "notifying"
        BY <1>1, <3>1 DEF SendingIsOpen
      <4> QED BY <4>1
    <3>2. CASE chan'[t] = chan[t]
      BY <2>2, <3>2 DEF ListedIsOpen
    <3> QED BY <1>4, <3>1, <3>2
  <2> QED BY <1>3, <2>1, <2>2 DEF ListedIsOpen, Listening, InList
<1>6. SendingIsOpen'
  <2>1. subLock # NoOne
    BY DEF SendingIsOpen
  <2>2. Once(Tail(sending))
    BY OnceTail DEF SendingIsOpen
  <2>3. ASSUME NEW i \in DOMAIN Tail(sending)
        PROVE  /\ chan'[Tail(sending)[i]] = "open"
               /\ Tail(sending)[i] \in CloseSubs
                     => \E c \in Closers : closePc[c] = "notifying"
    <3>1. i + 1 \in DOMAIN sending /\ Tail(sending)[i] = sending[i + 1]
      BY <1>1
    <3>2. Tail(sending)[i] \in Subs /\ chan[Tail(sending)[i]] = "open"
      BY <3>1 DEF SendingIsOpen
    <3>3. ~ (Tail(sending)[i] = s /\ s \in CloseSubs)
      BY OnceTail DEF SendingIsOpen
    <3>4. chan'[Tail(sending)[i]] = "open"
      BY <1>4, <3>2, <3>3
    <3> QED BY <3>1, <3>4 DEF SendingIsOpen
  <2> QED BY <1>3, <2>1, <2>2, <2>3 DEF SendingIsOpen, Once
<1> QED BY <1>3, <1>5, <1>6

\* A channel is registered once, while nobody sends.
LEMMA SendRegister ==
    ASSUME TypeOK, CloserHasCancelled, SendInv,
           \/ \E s \in DialSubs : NotifyDial(s)
           \/ \E s \in DisconnectSubs : NotifyDisconnect(s)
           \/ \E s \in CloseSubs : NotifyClose(s)
    PROVE  SendInv'
<1> USE DEF TypeOK, SendInv
<1>0. PICK s \in Subs :
        /\ Register(s)
        /\ dialSubs' = IF ctxDone \/ s \notin DialSubs THEN dialSubs
                       ELSE Append(dialSubs, s)
        /\ disconnectSubs' = IF ctxDone \/ s \notin DisconnectSubs THEN disconnectSubs
                             ELSE Append(disconnectSubs, s)
        /\ closeSubs' = IF ctxDone \/ s \notin CloseSubs THEN closeSubs
                        ELSE Append(closeSubs, s)
        /\ UNCHANGED panicked
  BY ConstantsAssumption DEF NotifyDial, NotifyDisconnect, NotifyClose, Register, Subs
<1>1. /\ UNCHANGED <<subLock, sending, closePc, panicked>>
      /\ subLock = NoOne /\ sending = <<>>
      /\ chan[s] = "unused" /\ ~Listening(s)
      /\ chan' = [chan EXCEPT ![s] = IF ctxDone THEN "closed" ELSE "open"]
  BY <1>0 DEF Register, ChanAtRegistration, SendingIsOpen, ListedIsOpen
<1>2. CASE ctxDone
  <2>1. UNCHANGED <<dialSubs, disconnectSubs, closeSubs>>
    BY <1>0, <1>2
  <2>2. \A t \in Subs : t # s => chan'[t] = chan[t]
    BY <1>1
  <2>3. InList(s, closeSubs) => \E c \in Closers : closePc[c] \in {"notifying", "done"}
    BY <1>1 DEF ListedIsOpen
  <2>4. ListedIsOpen'
    BY <1>1, <2>1, <2>2, <2>3 DEF ListedIsOpen, Listening, InList
  <2>5. SendingIsOpen'
    BY <1>1, <2>1 DEF SendingIsOpen, Once
  <2> QED BY <1>1, <2>4, <2>5
<1>3. CASE ~ctxDone
  <2>1. \A c \in Closers : closePc[c] \in {"idle", "cancel", "refused"}
    BY <1>3 DEF CloserHasCancelled
  <2>2. ~InList(s, closeSubs)
    BY <1>1, <2>1 DEF ListedIsOpen
  <2>3. ASSUME NEW t \in Subs, InList(t, dialSubs') \/ InList(t, disconnectSubs')
                               \/ InList(t, closeSubs')
        PROVE  chan'[t] = "open"
    <3>1. t = s \/ Listening(t) \/ InList(t, closeSubs)
      <4>1. CASE InList(t, dialSubs')
        BY <1>0, <1>3, <4>1, InListAppend DEF Listening
      <4>2. CASE InList(t, disconnectSubs')
        BY <1>0, <1>3, <4>2, InListAppend DEF Listening
      <4>3. CASE InList(t, closeSubs')
        BY <1>0, <1>3, <4>3, InListAppend
      <4> QED BY <2>3, <4>1, <4>2, <4>3
    <3>2. t = s \/ chan[t] = "open"
      BY <2>1, <3>1 DEF ListedIsOpen
    <3> QED BY <1>1, <1>3, <3>2
  <2>4. ListedIsOpen'
    BY <2>3 DEF ListedIsOpen, Listening, InList
  <2>5. Once(closeSubs')
    BY <1>0, <1>3, <2>2, OnceAppend DEF SendingIsOpen
  <2>6. SendingIsOpen'
    BY <1>1, <2>5 DEF SendingIsOpen, Once
  <2> QED BY <1>1, <2>4, <2>6
<1> QED BY <1>2, <1>3

\* Once two calls of Close have begun, two have.
LEMMA TwoClosesStays ==
    ASSUME TypeOK, TwoCloses, [Next]_vars
    PROVE  TwoCloses'
<1>1. CASE \E c \in Closers : Closer(c)
  <2> PICK c \in Closers : Closer(c)
    BY <1>1
  <2> USE DEF TypeOK, MoveCloser, Began
  <2>1. CASE CloseCheckContext(c)
    <3>1. \A d \in Closers : Began(d) => Began(d)'
      BY <2>1 DEF CloseCheckContext
    <3> QED BY <3>1 DEF TwoCloses
  <2>2. CASE ~CloseCheckContext(c)
    <3>1. \A d \in Closers : closePc'[d] = closePc[d] \/ Began(d)'
      <4>1. CASE CloseSubscribers(c)
        BY <4>1 DEF CloseSubscribers
      <4>2. CASE ~CloseSubscribers(c)
        BY <2>2, <4>2
           DEF Closer, CloseCancelsContext, CloserAnnouncesLock, CloseTransport,
               SendCloseNotifications, CloseReturns
      <4> QED BY <4>1, <4>2
    <3> QED BY <3>1 DEF TwoCloses
  <2> QED BY <2>1, <2>2
<1>2. CASE ~ \E c \in Closers : Closer(c)
  <2>1. UNCHANGED closePc
    <3>1. CASE \E r \in Redialers : Redialer(r)
      BY <3>1, RedialerSends
    <3>2. CASE ~ \E r \in Redialers : Redialer(r)
      BY <1>2, <3>2
         DEF Next, OpCall, OpCheckContext, OpRLock, OpSucceeds, OpFails, NotifyDial,
             NotifyDisconnect, NotifyClose, Register, SendNotification,
             SubscriberReceives, TransportFails, StreadwaySignals, ParentCancels,
             DialCtxCancelled, Abandoned, vars
    <3> QED BY <3>1, <3>2
  <2> QED BY <2>1 DEF TwoCloses, Began
<1> QED BY <1>1, <1>2

\* Every step keeps SendInv, as long as one call of Close at most has begun.
LEMMA SendNext ==
    ASSUME TypeOK, CloserHasCancelled, SendInv, ~TwoCloses', [Next]_vars
    PROVE  SendInv'
<1>1. CASE \E r \in Redialers : Redialer(r)
  BY <1>1, SendRedialer
<1>2. CASE \E c \in Closers : Closer(c)
  BY <1>2, SendCloser
<1>3. CASE SendNotification
  BY <1>3, SendSend
<1>4. CASE \/ \E s \in DialSubs : NotifyDial(s)
           \/ \E s \in DisconnectSubs : NotifyDisconnect(s)
           \/ \E s \in CloseSubs : NotifyClose(s)
  BY <1>4, SendRegister
<1>5. CASE \/ \E p \in Callers : \/ OpCall(p) \/ OpCheckContext(p) \/ OpRLock(p)
                                 \/ OpSucceeds(p) \/ OpFails(p)
           \/ \E s \in Subs : SubscriberReceives(s)
           \/ \E t \in Transports : TransportFails(t) \/ StreadwaySignals(t)
           \/ ParentCancels \/ DialCtxCancelled \/ Abandoned
           \/ UNCHANGED vars
  <2>1. UNCHANGED sendInvVars
    BY <1>5
       DEF OpCall, OpCheckContext, OpRLock, OpSucceeds, OpFails, SubscriberReceives,
           TransportFails, StreadwaySignals, ParentCancels, DialCtxCancelled, Abandoned,
           vars, subVars, sendInvVars
  <2> QED BY <2>1, SendUnchanged
<1> QED BY <1>1, <1>2, <1>3, <1>4, <1>5 DEF Next

\* SendInv says that neither has a closed channel been sent on nor is one about to be.
LEMMA SendImplies == TypeOK /\ SendInv => NoSendOnClosed /\ CloseHandlerCalledOnce
<1> SUFFICES ASSUME TypeOK, SendInv, NEW s \in CloseSubs, sending # <<>>, Head(sending) = s,
                    chan[s] = "closed"
             PROVE  FALSE
  BY DEF SendInv, NoSendOnClosed, CloseHandlerCalledOnce
<1> QED BY TailAt DEF TypeOK, SendInv, SendingIsOpen

\* A send on a closed channel takes two calls of Close that have both found the
\* context alive: until then each close handler runs once, as
\* transportManagerHandlersBuilder.go:67 says.
THEOREM CrashNeedsTwoCloses ==
    Spec => [](~TwoCloses => NoSendOnClosed /\ CloseHandlerCalledOnce)
<1>1. Init => (TwoCloses \/ SendInv)
  BY SendInit
<1>2. CloseInv => CloserHasCancelled
  BY DEF CloseInv
<1>3. TypeOK /\ CloserHasCancelled /\ (TwoCloses \/ SendInv) /\ [Next]_vars
          => (TwoCloses \/ SendInv)'
  BY TwoClosesStays, SendNext
<1>4. TypeOK /\ (TwoCloses \/ SendInv)
          => (~TwoCloses => NoSendOnClosed /\ CloseHandlerCalledOnce)
  BY SendImplies
<1> QED BY <1>1, <1>2, <1>3, <1>4, ClosedCorrect, PTL DEF Spec

\* Where one goroutine only calls Close, no notification is sent on a channel that has
\* been closed, whatever the redialers and the other subscribers do.
COROLLARY OneCloserSendsSafely ==
    ASSUME \A c, d \in Closers : c = d
    PROVE  Spec => []NoSendOnClosed
<1>1. ~TwoCloses
  BY DEF TwoCloses
<1>2. (~TwoCloses => NoSendOnClosed /\ CloseHandlerCalledOnce) => NoSendOnClosed
  BY <1>1
<1> QED BY <1>2, CrashNeedsTwoCloses, PTL
=============================================================================
