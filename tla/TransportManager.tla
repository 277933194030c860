-------------------------- MODULE TransportManager --------------------------
(***************************************************************************)
(* The transportManager embedded in every robust Connection and Channel    *)
(* (pkg/amqp/transportManager*.go).  It keeps one underlying transport of  *)
(* the streadway library alive on behalf of its callers:                   *)
(*                                                                         *)
(*  - operations (every exported method) run under the transport lock held *)
(*    for read, report their errors and retry when the error is one of a   *)
(*    lost connection;                                                     *)
(*  - one goroutine per underlying transport waits for it to close, takes  *)
(*    the lock for write, and redials until there is a new transport;      *)
(*  - Close cancels the manager's context, closes the transport and tells  *)
(*    the subscribers;                                                     *)
(*  - NotifyDial, NotifyDisconnect and NotifyClose register subscribers.   *)
(*                                                                         *)
(* Underlying transports are numbered in the order they are dialled.  The  *)
(* goroutine that waits on transport t is redialer t; redialer 0 is the    *)
(* caller of Dial or Connection.Channel, which dials without the lock.     *)
(***************************************************************************)
EXTENDS Integers, Sequences

CONSTANTS
    Callers,          \* goroutines that run operations
    Closers,          \* goroutines that call Close
    DialSubs,         \* channels that NotifyDial may register
    DisconnectSubs,   \* channels that NotifyDisconnect may register
    CloseSubs,        \* channels that NotifyClose may register
    MaxTransports,    \* bound: number of transports dialled successfully
    ChanCap,          \* capacity of a subscriber's channel
    HasParent,        \* TRUE for a Channel: its context is a child of the Connection's
    NoOne             \* holder of a free lock

Transports == 1 .. MaxTransports
Redialers  == 0 .. MaxTransports
Subs       == DialSubs \cup DisconnectSubs \cup CloseSubs
Writers    == Redialers \cup Closers

ASSUME ConstantsAssumption ==
    /\ MaxTransports \in Nat \ {0}
    /\ ChanCap \in Nat \ {0}
    /\ HasParent \in BOOLEAN
    /\ Redialers \cap Closers = {}
    /\ NoOne \notin Writers
    /\ DialSubs \cap DisconnectSubs = {}
    /\ DialSubs \cap CloseSubs = {}
    /\ DisconnectSubs \cap CloseSubs = {}

VARIABLES
    ctxDone,      \* manager.ctx is cancelled
    writer,       \* goroutine that has called transportLock.Lock (it may still wait for readers)
    readers,      \* callers that hold transportLock for read
    opErrorEncountered, \* the one-slot channel: 0 when empty, else the transport the error came from
    current,      \* the underlying transport in use, 0 before the first dial
    health,       \* state of each underlying transport
    signalled,    \* transports whose NotifyClose channel has delivered
    subLock,      \* holder of notificationSubscriberLock while it sends
    sending,      \* handlers its holder has still to call
    dialSubs,     \* registered subscribers, in order of registration
    disconnectSubs,
    closeSubs,
    chan,         \* state of each subscriber's channel
    buffered,     \* events waiting in it
    opPc,         \* where each caller is in retryOperationOnClosed
    opTransport,  \* the transport its operation took
    redialPc,     \* where each redialer is
    closePc,      \* where each call of Close is
    dialRetry,    \* retry argument of the first reconnect: FALSE for Dial
    dialCtxDone,  \* the context of DialCtx / the Connection is cancelled during the first dial
    panicked      \* a send on a closed channel has crashed the process

lockVars == <<writer, readers>>
subVars  == <<subLock, sending, dialSubs, disconnectSubs, closeSubs, chan, buffered>>
netVars  == <<current, health, signalled>>
opVars   == <<opPc, opTransport>>
dialVars == <<dialRetry, dialCtxDone>>

vars == <<ctxDone, lockVars, opErrorEncountered, netVars, subVars, opVars,
          redialPc, closePc, dialVars, panicked>>

\* Labels of the goroutines.
OpPcs == {"idle", "check", "wantRead", "running"}

RedialPcs == {"none",                        \* not launched
              "waiting",                     \* in the first select of receiveDisconnectEventAndLockChannel
              "wantLock", "draining",        \* in transportLock.Lock
              "report", "reporting",         \* in sendDisconnectNotifications
              "redial", "dialing",           \* in reconnectRedial, in tryReconnect
              "announceUp", "announcingUp",  \* in sendDialNotifications(nil)
              "announceErr", "announcingErr",\* in sendDialNotifications(err)
              "unlock",                      \* about to run the deferred Unlock
              "done", "failed"}              \* returned; Dial returned an error

ClosePcs == {"idle", "cancel", "wantLock", "draining", "closeSubs", "notify",
             "notifying", "done", "refused"}

\* The object is handed to its user once the first reconnect has returned.
Ready == redialPc[0] = "done"

Init ==
    /\ ctxDone = FALSE
    /\ writer = NoOne
    /\ readers = {}
    /\ opErrorEncountered = 0
    /\ current = 0
    /\ health = [t \in Transports |-> "none"]
    /\ signalled = {}
    /\ subLock = NoOne
    /\ sending = <<>>
    /\ dialSubs = <<>>
    /\ disconnectSubs = <<>>
    /\ closeSubs = <<>>
    /\ chan = [s \in Subs |-> "unused"]
    /\ buffered = [s \in Subs |-> 0]
    /\ opPc = [p \in Callers |-> "idle"]
    /\ opTransport = [p \in Callers |-> 0]
    /\ redialPc = [r \in Redialers |-> IF r = 0 THEN "redial" ELSE "none"]
    /\ closePc = [c \in Closers |-> "idle"]
    /\ dialRetry \in IF HasParent THEN {TRUE} ELSE BOOLEAN
    /\ dialCtxDone = FALSE
    /\ panicked = FALSE

-----------------------------------------------------------------------------
(***************************************************************************)
(* Operations: retryOperationOnClosed.                                     *)
(***************************************************************************)

OpCall(p) ==
    /\ Ready
    /\ opPc[p] = "idle"
    /\ opPc' = [opPc EXCEPT ![p] = "check"]
    /\ UNCHANGED <<ctxDone, lockVars, opErrorEncountered, netVars, subVars,
                   opTransport, redialPc, closePc, dialVars, panicked>>

\* A cancelled context ends the call before it asks for the lock.
OpCheckContext(p) ==
    /\ opPc[p] = "check"
    /\ opPc' = [opPc EXCEPT ![p] = IF ctxDone THEN "idle" ELSE "wantRead"]
    /\ UNCHANGED <<ctxDone, lockVars, opErrorEncountered, netVars, subVars,
                   opTransport, redialPc, closePc, dialVars, panicked>>

\* Variant: RLock does not see the writer.
MayRead_Always == TRUE
MayRead == writer = NoOne

\* RLock waits for a writer that holds the lock or is waiting for it.
OpRLock(p) ==
    /\ opPc[p] = "wantRead"
    /\ MayRead
    /\ readers' = readers \cup {p}
    /\ opPc' = [opPc EXCEPT ![p] = "running"]
    /\ opTransport' = [opTransport EXCEPT ![p] = current]
    /\ UNCHANGED <<ctxDone, writer, opErrorEncountered, netVars, subVars,
                   redialPc, closePc, dialVars, panicked>>

OpSucceeds(p) ==
    /\ opPc[p] = "running"
    /\ health[opTransport[p]] = "live"
    /\ readers' = readers \ {p}
    /\ opPc' = [opPc EXCEPT ![p] = "idle"]
    /\ opTransport' = [opTransport EXCEPT ![p] = 0]
    /\ UNCHANGED <<ctxDone, writer, opErrorEncountered, netVars, subVars,
                   redialPc, closePc, dialVars, panicked>>

\* Variant: the error is not reported.
ErrorAfter_Unreported(p) == opErrorEncountered
ErrorAfter(p) == IF opErrorEncountered = 0 THEN opTransport[p] ELSE opErrorEncountered

\* The error is reported without blocking while the read lock is still held.
\* A lost transport gives an error of either kind (isRepeatErr); an operation
\* may also fail on a live one, for a reason of its own, and then is not
\* repeated.  The last transport is not given such errors (MaxTransports).
\* Left out: an error on a live transport that isRepeatErr takes for a closed one.  It
\* would be repeated like those of a lost transport, on the next transport.
OpFails(p) ==
    \E repeatErr \in BOOLEAN :
      /\ opPc[p] = "running"
      /\ \/ health[opTransport[p]] # "live"
         \/ ~repeatErr /\ current < MaxTransports
      /\ opErrorEncountered' = ErrorAfter(p)
      /\ readers' = readers \ {p}
      /\ opPc' = [opPc EXCEPT ![p] = IF repeatErr /\ ~ctxDone THEN "check" ELSE "idle"]
      /\ opTransport' = [opTransport EXCEPT ![p] = 0]
      /\ UNCHANGED <<ctxDone, writer, netVars, subVars, redialPc, closePc,
                     dialVars, panicked>>

-----------------------------------------------------------------------------
(***************************************************************************)
(* Subscribers.  Each handler runs under notificationSubscriberLock and    *)
(* blocks on nothing while it holds it, so it is one step.                 *)
(***************************************************************************)

\* Variant: the context is not looked at.
ChanAtRegistration_Unchecked == "open"
ChanAtRegistration == IF ctxDone THEN "closed" ELSE "open"

\* A channel handed over after the context is cancelled is closed at once.
Register(s) ==
    /\ Ready
    /\ chan[s] = "unused"
    /\ subLock = NoOne
    /\ chan' = [chan EXCEPT ![s] = ChanAtRegistration]
    /\ UNCHANGED <<ctxDone, lockVars, opErrorEncountered, netVars, subLock, sending,
                   buffered, opVars, redialPc, closePc, dialVars, panicked>>

NotifyDial(s) ==
    /\ Register(s)
    /\ dialSubs' = IF ctxDone THEN dialSubs ELSE Append(dialSubs, s)
    /\ UNCHANGED <<disconnectSubs, closeSubs>>

NotifyDisconnect(s) ==
    /\ Register(s)
    /\ disconnectSubs' = IF ctxDone THEN disconnectSubs ELSE Append(disconnectSubs, s)
    /\ UNCHANGED <<dialSubs, closeSubs>>

NotifyClose(s) ==
    /\ Register(s)
    /\ closeSubs' = IF ctxDone THEN closeSubs ELSE Append(closeSubs, s)
    /\ UNCHANGED <<dialSubs, disconnectSubs>>

\* Variant: the send does not wait for room.
HasRoom_Always(s) == TRUE
HasRoom(s) == buffered[s] < ChanCap

\* Variant: the handler of a close subscriber leaves the channel open.
ChanAfterSend_LeftOpen(s) == chan[s]
ChanAfterSend(s) == IF s \in CloseSubs THEN "closed" ELSE chan[s]

\* The holder of the subscriber lock calls its next handler: a blocking send,
\* after which the handler of a close subscriber closes the channel.
SendNotification ==
    /\ sending # <<>>
    /\ LET s == Head(sending)
       IN  \/ /\ chan[s] = "closed"
              /\ panicked' = TRUE
              /\ UNCHANGED <<sending, chan, buffered>>
           \/ /\ chan[s] # "closed"
              /\ HasRoom(s)
              /\ buffered' = [buffered EXCEPT ![s] = @ + 1]
              /\ chan' = [chan EXCEPT ![s] = ChanAfterSend(s)]
              /\ sending' = Tail(sending)
              /\ UNCHANGED panicked
    /\ UNCHANGED <<ctxDone, lockVars, opErrorEncountered, netVars, subLock, dialSubs,
                   disconnectSubs, closeSubs, opVars, redialPc, closePc, dialVars>>

SubscriberReceives(s) ==
    /\ buffered[s] > 0
    /\ buffered' = [buffered EXCEPT ![s] = @ - 1]
    /\ UNCHANGED <<ctxDone, lockVars, opErrorEncountered, netVars, subLock, sending,
                   dialSubs, disconnectSubs, closeSubs, chan, opVars, redialPc,
                   closePc, dialVars, panicked>>

-----------------------------------------------------------------------------
(***************************************************************************)
(* The goroutine that redials: reconnectListenForClose and reconnect.      *)
(***************************************************************************)

MoveRedialer(r, from, to) ==
    /\ redialPc[r] = from
    /\ redialPc' = [redialPc EXCEPT ![r] = to]

\* First select of receiveDisconnectEventAndLockChannel: the close event of the
\* redialer's own transport, or the error of an operation.
ReceiveCloseEvent(r) ==
    /\ MoveRedialer(r, "waiting", "wantLock")
    /\ r \in signalled
    /\ UNCHANGED <<ctxDone, lockVars, opErrorEncountered, netVars, subVars, opVars,
                   closePc, dialVars, panicked>>

ReceiveOpError(r) ==
    /\ MoveRedialer(r, "waiting", "wantLock")
    /\ opErrorEncountered # 0
    /\ opErrorEncountered' = 0
    /\ UNCHANGED <<ctxDone, lockVars, netVars, subVars, opVars, closePc, dialVars,
                   panicked>>

\* transportLock.Lock: announce the writer, which stops new readers ...
RedialerAnnounceLock(r) ==
    /\ MoveRedialer(r, "wantLock", "draining")
    /\ writer = NoOne
    /\ writer' = r
    /\ UNCHANGED <<ctxDone, readers, opErrorEncountered, netVars, subVars, opVars,
                   closePc, dialVars, panicked>>

\* Variant: the writer does not wait for running operations.
Drained_Ignored == TRUE
Drained == readers = {}

\* ... then wait for the readers there are.  After an operation's error the
\* redialer waits 50ms more for streadway's event; that only chooses which
\* error it reports.
RedialerLock(r) ==
    /\ MoveRedialer(r, "draining", "report")
    /\ Drained
    /\ UNCHANGED <<ctxDone, lockVars, opErrorEncountered, netVars, subVars, opVars,
                   closePc, dialVars, panicked>>

\* Take notificationSubscriberLock and start on a list of handlers.
StartSending(holder, handlers) ==
    /\ subLock = NoOne
    /\ subLock' = holder
    /\ sending' = handlers
    /\ UNCHANGED <<dialSubs, disconnectSubs, closeSubs, chan, buffered>>

FinishSending(holder) ==
    /\ subLock = holder
    /\ sending = <<>>
    /\ subLock' = NoOne
    /\ UNCHANGED <<sending, dialSubs, disconnectSubs, closeSubs, chan, buffered>>

ReportDisconnect(r) ==
    /\ MoveRedialer(r, "report", "reporting")
    /\ StartSending(r, disconnectSubs)
    /\ UNCHANGED <<ctxDone, lockVars, opErrorEncountered, netVars, opVars, closePc,
                   dialVars, panicked>>

\* The check of the context after the report and the one at the head of the
\* redial loop follow each other and leave by the same way: RedialerExits.
DisconnectReported(r) ==
    /\ MoveRedialer(r, "reporting", "redial")
    /\ FinishSending(r)
    /\ UNCHANGED <<ctxDone, lockVars, opErrorEncountered, netVars, opVars, closePc,
                   dialVars, panicked>>

\* Variant: the redial loop does not look at the manager's context.
RedialCtxDone_Ignored(r) == r = 0 /\ dialCtxDone
\* The context given to reconnect: the caller's for the first one.
RedialCtxDone(r) == IF r = 0 THEN dialCtxDone ELSE ctxDone

\* Variant: the goroutine returns without its deferred Unlock.
ExitLabel_Locked(r) == IF r = 0 THEN "failed" ELSE "done"
ExitLabel(r) == IF r = 0 THEN "failed" ELSE "unlock"

RedialerExits(r) ==
    /\ RedialCtxDone(r)
    /\ MoveRedialer(r, "redial", ExitLabel(r))
    /\ UNCHANGED <<ctxDone, lockVars, opErrorEncountered, netVars, subVars, opVars,
                   closePc, dialVars, panicked>>

\* Variant: the channel is kept, and the error in it.
ErrorAtDial_Kept == opErrorEncountered
ErrorAtDial == 0

\* reconnectRedialOnce replaces the error channel before it dials.
RedialerDials(r) ==
    /\ ~RedialCtxDone(r)
    /\ MoveRedialer(r, "redial", "dialing")
    /\ opErrorEncountered' = ErrorAtDial
    /\ UNCHANGED <<ctxDone, lockVars, netVars, subVars, opVars, closePc, dialVars,
                   panicked>>

\* tryReconnect does not look at the context again: it may succeed after Close
\* has cancelled it.
DialSucceeds(r) ==
    /\ MoveRedialer(r, "dialing", "announceUp")
    /\ current < MaxTransports
    /\ current' = current + 1
    /\ health' = [health EXCEPT ![current'] = "live"]
    /\ UNCHANGED <<ctxDone, lockVars, opErrorEncountered, signalled, subVars, opVars,
                   closePc, dialVars, panicked>>

DialFails(r) ==
    /\ MoveRedialer(r, "dialing", "announceErr")
    /\ UNCHANGED <<ctxDone, lockVars, opErrorEncountered, netVars, subVars, opVars,
                   closePc, dialVars, panicked>>

AnnounceDial(r) ==
    /\ \/ MoveRedialer(r, "announceUp", "announcingUp")
       \/ MoveRedialer(r, "announceErr", "announcingErr")
    /\ StartSending(r, dialSubs)
    /\ UNCHANGED <<ctxDone, lockVars, opErrorEncountered, netVars, opVars, closePc,
                   dialVars, panicked>>

\* Variant: the redialer of a lost transport gives up as Dial does.
RetryLabel_GivesUp(r) == IF r = 0 /\ ~dialRetry THEN "failed" ELSE "unlock"
RetryLabel(r) == IF r = 0 /\ ~dialRetry THEN "failed" ELSE "redial"

\* A failed dial is tried again, unless the caller of Dial asked for one only.
FailureAnnounced(r) ==
    /\ MoveRedialer(r, "announcingErr", RetryLabel(r))
    /\ FinishSending(r)
    /\ UNCHANGED <<ctxDone, lockVars, opErrorEncountered, netVars, opVars, closePc,
                   dialVars, panicked>>

\* reconnect launches the goroutine that waits on the new transport and returns.
SuccessAnnounced(r) ==
    /\ redialPc[r] = "announcingUp"
    /\ FinishSending(r)
    /\ redialPc' = [redialPc EXCEPT ![current] = "waiting",
                                    ![r] = IF r = 0 THEN "done" ELSE "unlock"]
    /\ UNCHANGED <<ctxDone, lockVars, opErrorEncountered, netVars, opVars, closePc,
                   dialVars, panicked>>

\* The deferred Unlock of reconnectListenForClose.
RedialerUnlock(r) ==
    /\ MoveRedialer(r, "unlock", "done")
    /\ writer' = NoOne
    /\ UNCHANGED <<ctxDone, readers, opErrorEncountered, netVars, subVars, opVars,
                   closePc, dialVars, panicked>>

Redialer(r) ==
    \/ ReceiveCloseEvent(r)     \/ ReceiveOpError(r)
    \/ RedialerAnnounceLock(r)  \/ RedialerLock(r)
    \/ ReportDisconnect(r)      \/ DisconnectReported(r)
    \/ RedialerExits(r)         \/ RedialerDials(r)
    \/ DialSucceeds(r)          \/ DialFails(r)
    \/ AnnounceDial(r)          \/ FailureAnnounced(r)
    \/ SuccessAnnounced(r)      \/ RedialerUnlock(r)

-----------------------------------------------------------------------------
(***************************************************************************)
(* Close.                                                                  *)
(***************************************************************************)

MoveCloser(c, from, to) ==
    /\ closePc[c] = from
    /\ closePc' = [closePc EXCEPT ![c] = to]

\* A cancelled context means that someone else has closed: ErrClosed.
CloseCheckContext(c) ==
    /\ Ready
    /\ MoveCloser(c, "idle", IF ctxDone THEN "refused" ELSE "cancel")
    /\ UNCHANGED <<ctxDone, lockVars, opErrorEncountered, netVars, subVars, opVars,
                   redialPc, dialVars, panicked>>

\* cancelCtxCloseTransport: cancel under the subscriber lock, then release it.
CloseCancelsContext(c) ==
    /\ MoveCloser(c, "cancel", "wantLock")
    /\ subLock = NoOne
    /\ ctxDone' = TRUE
    /\ UNCHANGED <<lockVars, opErrorEncountered, netVars, subVars, opVars, redialPc,
                   dialVars, panicked>>

CloserAnnouncesLock(c) ==
    /\ MoveCloser(c, "wantLock", "draining")
    /\ writer = NoOne
    /\ writer' = c
    /\ UNCHANGED <<ctxDone, readers, opErrorEncountered, netVars, subVars, opVars,
                   redialPc, dialVars, panicked>>

\* Variant: the underlying transport is left open.
HealthAfterClose_Open(t) == health[t]
HealthAfterClose(t) == IF health[t] = "live" THEN "closed" ELSE health[t]

\* With the lock held for write: close the transport in use, then unlock.
CloseTransport(c) ==
    /\ MoveCloser(c, "draining", "closeSubs")
    /\ Drained
    /\ health' = [health EXCEPT ![current] = HealthAfterClose(current)]
    /\ writer' = NoOne
    /\ UNCHANGED <<ctxDone, readers, opErrorEncountered, current, signalled, subVars,
                   opVars, redialPc, dialVars, panicked>>

InList(s, list) == \E i \in DOMAIN list : list[i] = s
Listening(s)    == InList(s, dialSubs) \/ InList(s, disconnectSubs)

\* Variant: the lists are kept once their channels are closed.
Cleared_Kept(list) == list
Cleared(list) == <<>>

\* Close and forget the dial and disconnect subscribers; closing a closed
\* channel would panic.
CloseSubscribers(c) ==
    /\ MoveCloser(c, "closeSubs", "notify")
    /\ subLock = NoOne
    /\ chan' = [s \in Subs |-> IF Listening(s) THEN "closed" ELSE chan[s]]
    /\ panicked' = \E s \in Subs : Listening(s) /\ chan[s] = "closed"
    /\ dialSubs' = Cleared(dialSubs)
    /\ disconnectSubs' = Cleared(disconnectSubs)
    /\ UNCHANGED <<ctxDone, lockVars, opErrorEncountered, netVars, subLock, sending,
                   closeSubs, buffered, opVars, redialPc, dialVars>>

SendCloseNotifications(c) ==
    /\ MoveCloser(c, "notify", "notifying")
    /\ StartSending(c, closeSubs)
    /\ UNCHANGED <<ctxDone, lockVars, opErrorEncountered, netVars, opVars, redialPc,
                   dialVars, panicked>>

\* The cleanup that follows does nothing for either kind of transport.
CloseReturns(c) ==
    /\ MoveCloser(c, "notifying", "done")
    /\ FinishSending(c)
    /\ UNCHANGED <<ctxDone, lockVars, opErrorEncountered, netVars, opVars, redialPc,
                   dialVars, panicked>>

Closer(c) ==
    \/ CloseCheckContext(c)   \/ CloseCancelsContext(c)
    \/ CloserAnnouncesLock(c) \/ CloseTransport(c)
    \/ CloseSubscribers(c)
    \/ SendCloseNotifications(c) \/ CloseReturns(c)

-----------------------------------------------------------------------------
(***************************************************************************)
(* The streadway library, the broker and the parent Connection.            *)
(***************************************************************************)

\* The broker or the network ends a transport.  The last one lives until the
\* context is cancelled (MaxTransports).
TransportFails(t) ==
    /\ health[t] = "live"
    /\ t < MaxTransports \/ ctxDone
    /\ health' = [health EXCEPT ![t] = "failed"]
    /\ UNCHANGED <<ctxDone, lockVars, opErrorEncountered, current, signalled, subVars,
                   opVars, redialPc, closePc, dialVars, panicked>>

\* streadway delivers the close event some time after its methods start to fail.
StreadwaySignals(t) ==
    /\ health[t] \in {"failed", "closed"}
    /\ t \notin signalled
    /\ signalled' = signalled \cup {t}
    /\ UNCHANGED <<ctxDone, lockVars, opErrorEncountered, current, health, subVars,
                   opVars, redialPc, closePc, dialVars, panicked>>

\* Closing the Connection cancels the context of each of its Channels, without
\* their locks; Connection.Channel dials with the Connection's context.
ParentCancels ==
    /\ HasParent
    /\ ~ctxDone
    /\ ctxDone' = TRUE
    /\ dialCtxDone' = TRUE
    /\ UNCHANGED <<lockVars, opErrorEncountered, netVars, subVars, opVars, redialPc,
                   closePc, dialRetry, panicked>>

\* The context given to DialConfigCtx.
DialCtxCancelled ==
    /\ ~HasParent
    /\ ~Ready
    /\ dialRetry
    /\ ~dialCtxDone
    /\ dialCtxDone' = TRUE
    /\ UNCHANGED <<ctxDone, lockVars, opErrorEncountered, netVars, subVars, opVars,
                   redialPc, closePc, dialRetry, panicked>>

\* The first dial has failed: there is no object to use.
Abandoned ==
    /\ redialPc[0] = "failed"
    /\ UNCHANGED vars

Next ==
    /\ ~panicked
    /\ \/ \E p \in Callers : \/ OpCall(p) \/ OpCheckContext(p) \/ OpRLock(p)
                             \/ OpSucceeds(p) \/ OpFails(p)
       \/ \E s \in DialSubs : NotifyDial(s)
       \/ \E s \in DisconnectSubs : NotifyDisconnect(s)
       \/ \E s \in CloseSubs : NotifyClose(s)
       \/ SendNotification
       \/ \E s \in Subs : SubscriberReceives(s)
       \/ \E r \in Redialers : Redialer(r)
       \/ \E c \in Closers : Closer(c)
       \/ \E t \in Transports : TransportFails(t) \/ StreadwaySignals(t)
       \/ ParentCancels
       \/ DialCtxCancelled
       \/ Abandoned

Spec == Init /\ [][Next]_vars

(***************************************************************************)
(* Fairness.  A goroutine that can step does; subscribers read their       *)
(* channels; a dial ends, and dials do not all fail for ever (the only     *)
(* strong fairness: with finitely many writers no lock is contended for    *)
(* ever); streadway tells of a close it was asked for.  Nobody is made to  *)
(* call an operation or Close, and nothing forces streadway to signal the  *)
(* loss of a transport: the code does not count on it.                     *)
(***************************************************************************)
Fairness ==
    /\ \A p \in Callers : WF_vars(OpCheckContext(p) \/ OpRLock(p)
                                  \/ OpSucceeds(p) \/ OpFails(p))
    /\ WF_vars(SendNotification)
    /\ \A s \in Subs : WF_vars(SubscriberReceives(s))
    /\ \A r \in Redialers : WF_vars(Redialer(r)) /\ SF_vars(DialSucceeds(r))
    /\ \A c \in Closers : WF_vars(closePc[c] # "idle" /\ Closer(c))
    /\ \A t \in Transports : WF_vars(health[t] = "closed" /\ StreadwaySignals(t))

FairSpec == Spec /\ Fairness

-----------------------------------------------------------------------------
(***************************************************************************)
(* Properties.                                                             *)
(***************************************************************************)

\* Every variable keeps its type: the locks are held by goroutines that may hold
\* them, the error channel names a transport, the program counters are labels.
TypeOK ==
    /\ ctxDone \in BOOLEAN
    /\ writer \in Writers \cup {NoOne}
    /\ readers \subseteq Callers
    /\ opErrorEncountered \in Redialers
    /\ current \in Redialers
    /\ health \in [Transports -> {"none", "live", "failed", "closed"}]
    /\ signalled \subseteq Transports
    /\ subLock \in Writers \cup {NoOne}
    /\ sending \in Seq(Subs)
    /\ dialSubs \in Seq(DialSubs)
    /\ disconnectSubs \in Seq(DisconnectSubs)
    /\ closeSubs \in Seq(CloseSubs)
    /\ chan \in [Subs -> {"unused", "open", "closed"}]
    /\ buffered \in [Subs -> 0 .. ChanCap]
    /\ opPc \in [Callers -> OpPcs]
    /\ opTransport \in [Callers -> Redialers]
    /\ redialPc \in [Redialers -> RedialPcs]
    /\ closePc \in [Closers -> ClosePcs]
    /\ dialRetry \in BOOLEAN
    /\ dialCtxDone \in BOOLEAN
    /\ panicked \in BOOLEAN

\* The transport is never swapped under an operation: while one runs, the
\* transport it took is the manager's (the transport lock, retryOperationOnClosedSingle).
TransportStableDuringOp ==
    \A p \in Callers : opPc[p] = "running" => opTransport[p] = current

\* An error kept for the redialer is about the transport in use: no error of an
\* earlier transport can bring down the one that replaced it (reconnectRedialOnce).
ErrorOfCurrentTransport == opErrorEncountered \in {0, current}

\* While the object is open exactly one goroutine watches its transport or
\* replaces it: the chain of redialers neither breaks nor forks.
Watching == {r \in Redialers : redialPc[r] \notin {"none", "unlock", "done", "failed"}}

WatchedWhileOpen ==
    /\ Ready /\ ~ctxDone => Watching # {}
    /\ \A r, q \in Watching : r = q

\* Once Close has closed the transport there is none in use, even if a redial
\* was under way and succeeded after the context was cancelled.
Closing == {"closeSubs", "notify", "notifying", "done"}

NoTransportAfterClose ==
    \A c \in Closers : closePc[c] \in Closing => health[current] # "live"

\* When Close has returned no subscriber is left on an open channel, whenever it
\* registered (createNotifyDial, createNotifyDisconnect, createNotifyClose).
NoSubscriberLeftBehind ==
    \A c \in Closers : closePc[c] = "done" => \A s \in Subs : chan[s] # "open"

\* No notification is sent on a channel that has been closed.
NoSendOnClosed == ~panicked

\* The handler of a close subscriber runs once (transportManagerHandlersBuilder.go:67).
CloseHandlerCalledOnce ==
    \A s \in CloseSubs :
        ~ (chan[s] = "closed" /\ sending # <<>> /\ Head(sending) = s)

\* A call returns, however often its transport is lost: an operation that meets a
\* dead transport wakes the redialer itself if streadway does not.
OpReturns == \A p \in Callers : opPc[p] = "check" ~> opPc[p] = "idle"

\* Close returns.
CloseTerminates ==
    \A c \in Closers : closePc[c] = "cancel" ~> closePc[c] = "done"

\* Once the object is closed each subscriber's channel is closed.
SubscribersReleased ==
    \A s \in Subs : (ctxDone /\ chan[s] = "open") ~> chan[s] = "closed"

\* The goroutine that waits on the transport Close has closed ends too.
RedialersEnd ==
    \A r \in Transports :
        (health[r] = "closed" /\ redialPc[r] = "waiting") ~> redialPc[r] = "done"

-----------------------------------------------------------------------------
(***************************************************************************)
(* Refinement.                                                             *)
(***************************************************************************)

\* Labels at which a redialer owns the transport lock for write.
Exclusive == {"report", "reporting", "redial", "dialing", "announceUp", "announcingUp",
              "announceErr", "announcingErr", "unlock"}

Phase ==
    IF redialPc[0] = "failed" THEN "failed"
    ELSE IF ~Ready THEN "dialing"
    ELSE IF \E r \in Redialers : redialPc[r] \in Exclusive THEN "swapping"
    ELSE "open"

Robust == INSTANCE RobustTransport WITH
    phase      <- Phase,
    generation <- current,
    dialing    <- \E r \in Redialers : redialPc[r] = "dialing",
    closed     <- ctxDone,
    users      <- {p \in Callers : opPc[p] = "running"}

\* The manager keeps the promises of RobustTransport: operations see one transport,
\* swaps are exclusive, no dial starts after Close (or the parent's Close).
ImplementsRobustTransport == Robust!Spec
=============================================================================
