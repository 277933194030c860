---------------------------- MODULE ChannelReplay ---------------------------
(***************************************************************************)
(* What a Channel remembers to set up the next streadway channel: queues,  *)
(* exchanges and bindings (defaultmiddlewares/routeDeclaration.go) and     *)
(* QoS, flow and confirmation mode (qos.go, flow.go, confirms.go).  Every  *)
(* call is made at the broker first and recorded afterwards, both under    *)
(* the read lock of the transport; the redialer replays the record under   *)
(* the write lock.                                                         *)
(*                                                                         *)
(* A binding is a pair: <<queue, exchange>> or <<destination, source>>.    *)
(* Routing keys make no difference: where a name is given, as in every     *)
(* removal, the match of the key adds nothing to the match of the name.    *)
(***************************************************************************)
EXTENDS Naturals, Sequences, SequencesExt

CONSTANTS
    Callers,        \* goroutines that call the methods of the Channel
    Operations,     \* what each of them may call: <<method, argument, ...>>
    Foreign,        \* exchanges that others declared
    ServerNamed,    \* queues declared with the name "", as the server names them
    Fragile,        \* its queues and exchanges that may end with it (exclusive, auto-delete)
    MaxOps,         \* bound: calls
    MaxLosses,      \* bound: times a channel in use is lost
    MaxFailures     \* bound: attempts to reconnect that fail by themselves

NoName    == "server names it"
NoBinding == <<NoName, NoName>>
NoOp      == <<"none">>

\* The methods by the number of arguments that are kept.
OneArgument  == {"Qos", "Flow", "QueueDeclare", "QueueDelete", "ExchangeDeclare",
                 "ExchangeDelete"}
TwoArguments == {"QueueBind", "QueueUnbind", "ExchangeBind", "ExchangeUnbind"}

IsOperation(o) ==
    \/ o = <<"Confirm">>
    \/ Len(o) = 2 /\ o = <<o[1], o[2]>> /\ o[1] \in OneArgument
    \/ Len(o) = 3 /\ o = <<o[1], o[2], o[3]>> /\ o[1] \in TwoArguments

\* A queue or an exchange that a call is about has a name, also if the server gave it.
ASSUME ConstantsAssumption ==
    /\ \A c \in Callers : \A o \in Operations[c] :
          IsOperation(o) /\ \A i \in 2 .. Len(o) : o[i] # NoName
    /\ NoName \notin ServerNamed
    /\ Foreign \cap Fragile = {}
    /\ MaxOps \in Nat
    /\ MaxLosses \in Nat
    /\ MaxFailures \in Nat

VARIABLES
    declareQueues, declareExchanges,
    bindQueues,         \* the slice: its memory up to its capacity, and its length
    bindExchanges,
    qosArgs, active, confirmsOn,
    settings,           \* of the streadway channel in use
    topology,           \* what the broker has
    asked, askedFor,    \* the settings and the topology the callers have asked for
    live,               \* the streadway channel is open
    reconnectPc,        \* what the redialer does next
    opPc, op,           \* where each caller is, and what it calls
    calls, losses, failures,
    crashed,            \* a call has panicked
    raced,              \* two calls about one thing overlapped
    cut,                \* an exchange, or a binding of exchanges, was removed
    taken,              \* bindings of queues that the removal of another has taken too
    othersRemoved       \* another client deleted an exchange

recordVars   == <<declareQueues, declareExchanges, bindQueues, bindExchanges>>
settingVars  == <<qosArgs, active, confirmsOn>>
brokerVars   == <<settings, topology>>
askedVars    == <<asked, askedFor>>
channelVars  == <<live, reconnectPc>>
opVars       == <<opPc, op, calls>>
boundVars    == <<losses, failures>>
noteVars     == <<crashed, raced, cut, taken, othersRemoved>>

vars == <<recordVars, settingVars, brokerVars, askedVars, channelVars, opVars,
          boundVars, noteVars>>

Fresh == [qos |-> "unset", flow |-> "on", confirms |-> FALSE]
Empty == [queues |-> {}, exchanges |-> Foreign, queueBindings |-> {}, exchangeBindings |-> {}]

Init ==
    /\ declareQueues = {}
    /\ declareExchanges = {}
    /\ bindQueues = [memory |-> <<>>, length |-> 0]
    /\ bindExchanges = <<>>
    /\ qosArgs = "unset"
    /\ active = "on"
    /\ confirmsOn = FALSE
    /\ settings = Fresh
    /\ topology = Empty
    /\ asked = Fresh
    /\ askedFor = Empty
    /\ live = TRUE
    /\ reconnectPc = "ready"
    /\ opPc = [c \in Callers |-> "idle"]
    /\ op = [c \in Callers |-> NoOp]
    /\ calls = 0
    /\ losses = 0
    /\ failures = 0
    /\ crashed = FALSE
    /\ raced = FALSE
    /\ cut = FALSE
    /\ taken = {}
    /\ othersRemoved = FALSE

Method(c) == op[c][1]

-----------------------------------------------------------------------------
(***************************************************************************)
(* What the broker does with a call.                                       *)
(***************************************************************************)

WithoutQueue(t, q) ==
    [t EXCEPT !.queues = @ \ {q}, !.queueBindings = {b \in @ : b[1] # q}]

WithoutExchange(t, e) ==
    [t EXCEPT !.exchanges = @ \ {e},
              !.queueBindings = {b \in @ : b[2] # e},
              !.exchangeBindings = {b \in @ : b[1] # e /\ b[2] # e}]

Refuses(t, o) ==
    \/ o[1] = "QueueBind" /\ ~(o[2] \in t.queues /\ o[3] \in t.exchanges)
    \/ o[1] = "ExchangeBind" /\ ~({o[2], o[3]} \subseteq t.exchanges)

After(t, o) ==
    CASE o[1] = "QueueDeclare"    -> [t EXCEPT !.queues = @ \cup {o[2]}]
      [] o[1] = "QueueDelete"     -> WithoutQueue(t, o[2])
      [] o[1] = "QueueBind"       -> [t EXCEPT !.queueBindings = @ \cup {<<o[2], o[3]>>}]
      [] o[1] = "QueueUnbind"     -> [t EXCEPT !.queueBindings = @ \ {<<o[2], o[3]>>}]
      [] o[1] = "ExchangeDeclare" -> [t EXCEPT !.exchanges = @ \cup {o[2]}]
      [] o[1] = "ExchangeDelete"  -> WithoutExchange(t, o[2])
      [] o[1] = "ExchangeBind"    -> [t EXCEPT !.exchangeBindings = @ \cup {<<o[2], o[3]>>}]
      [] o[1] = "ExchangeUnbind"  -> [t EXCEPT !.exchangeBindings = @ \ {<<o[2], o[3]>>}]
      [] OTHER                    -> t

AfterSetting(s, o) ==
    CASE o[1] = "Qos"     -> [s EXCEPT !.qos = o[2]]
      [] o[1] = "Flow"    -> [s EXCEPT !.flow = o[2]]
      [] o[1] = "Confirm" -> [s EXCEPT !.confirms = TRUE]
      [] OTHER            -> s

WithoutFragile(t) ==
    [queues           |-> t.queues \ Fragile,
     exchanges        |-> t.exchanges \ Fragile,
     queueBindings    |-> {b \in t.queueBindings : ToSet(b) \cap Fragile = {}},
     exchangeBindings |-> {b \in t.exchangeBindings : ToSet(b) \cap Fragile = {}}]

\* A channel is lost alone or with its connection.
AfterLoss(t) == {t, WithoutFragile(t)}

-----------------------------------------------------------------------------
(***************************************************************************)
(* Calls.  The caller that waits for the reply holds the read lock, and so *)
(* does the one that has it and records it.                                *)
(***************************************************************************)

Call(c) ==
    /\ opPc[c] = "idle"
    /\ calls < MaxOps
    /\ \E o \in Operations[c] : op' = [op EXCEPT ![c] = o]
    /\ opPc' = [opPc EXCEPT ![c] = "called"]
    /\ calls' = calls + 1
    /\ UNCHANGED <<recordVars, settingVars, brokerVars, askedVars, channelVars, boundVars,
                   noteVars>>

\* Variant: Flow takes no lock of its own.
FlowLockFree_Ignored(c) == TRUE
FlowLockFree(c) ==
    Method(c) = "Flow" => \A d \in Callers \ {c} : opPc[d] = "record" => Method(d) # "Flow"

\* Two calls about one queue or exchange, or two that set the QoS.
About(o)   == {o[i] : i \in 2 .. Len(o)}
Overlap(o, p) ==
    IF "Flow" \in {o[1], p[1]} THEN FALSE
    ELSE (o[1] = "Qos" /\ p[1] = "Qos") \/ About(o) \cap About(p) # {}

\* The record forgets what an unbinding shares a queue or an exchange with (Matches).
Shares(o, b) == o[1] = "QueueUnbind" /\ (b[1] = o[2] \/ b[2] = o[3])

BrokerDoes(c) ==
    /\ reconnectPc = "ready" /\ live
    /\ opPc[c] = "called"
    /\ FlowLockFree(c)
    /\ ~Refuses(topology, op[c])
    /\ topology' = After(topology, op[c])
    /\ settings' = AfterSetting(settings, op[c])
    /\ askedFor' = After(askedFor, op[c])
    /\ asked' = AfterSetting(asked, op[c])
    /\ opPc' = [opPc EXCEPT ![c] = "record"]
    /\ raced' = (raced \/ \E d \in Callers \ {c} :
                            opPc[d] = "record" /\ Overlap(op[c], op[d]))
    /\ cut' = (cut \/ Method(c) \in {"ExchangeDelete", "ExchangeUnbind"})
    /\ taken' = IF Method(c) = "QueueBind" THEN taken \ {<<op[c][2], op[c][3]>>}
                ELSE taken \cup {b \in askedFor.queueBindings : Shares(op[c], b)}
    /\ UNCHANGED <<recordVars, settingVars, channelVars, op, calls, boundVars, crashed,
                   othersRemoved>>

\* A call that fails for good costs the channel and is not recorded.
BrokerRefuses(c) ==
    /\ reconnectPc = "ready" /\ live
    /\ opPc[c] = "called"
    /\ Refuses(topology, op[c])
    /\ losses < MaxLosses
    /\ topology' \in AfterLoss(topology)
    /\ live' = FALSE
    /\ losses' = losses + 1
    /\ opPc' = [opPc EXCEPT ![c] = "idle"]
    /\ op' = [op EXCEPT ![c] = NoOp]
    /\ UNCHANGED <<recordVars, settingVars, settings, askedVars, reconnectPc, calls,
                   failures, noteVars>>

\* The channel is lost with the reply under way.  The call will be repeated.
ReplyLost(c) ==
    /\ reconnectPc = "ready" /\ live
    /\ opPc[c] = "called"
    /\ FlowLockFree(c)
    /\ ~Refuses(topology, op[c])
    /\ losses < MaxLosses
    /\ topology' \in AfterLoss(After(topology, op[c]))
    /\ live' = FALSE
    /\ losses' = losses + 1
    /\ UNCHANGED <<recordVars, settingVars, settings, askedVars, reconnectPc, opVars,
                   failures, noteVars>>

Return(c) ==
    /\ opPc[c] = "record"
    /\ opPc' = [opPc EXCEPT ![c] = "idle"]
    /\ op' = [op EXCEPT ![c] = NoOp]
    /\ UNCHANGED <<brokerVars, askedVars, channelVars, calls, boundVars, raced, cut, taken,
                   othersRemoved>>

RecordSetting(c) ==
    /\ Method(c) \in {"Qos", "Flow", "Confirm"}
    /\ Return(c)
    /\ qosArgs' = IF Method(c) = "Qos" THEN op[c][2] ELSE qosArgs
    /\ active' = IF Method(c) = "Flow" THEN op[c][2] ELSE active
    /\ confirmsOn' = (confirmsOn \/ Method(c) = "Confirm")
    /\ UNCHANGED <<recordVars, crashed>>

\* A queue is kept under the name it was declared with.
DeclaredName(q) == IF q \in ServerNamed THEN NoName ELSE q

RecordDeclare(c) ==
    /\ Method(c) \in {"QueueDeclare", "ExchangeDeclare"}
    /\ Return(c)
    /\ IF Method(c) = "QueueDeclare"
       THEN /\ declareQueues' = declareQueues \cup {DeclaredName(op[c][2])}
            /\ UNCHANGED declareExchanges
       ELSE /\ declareExchanges' = declareExchanges \cup {op[c][2]}
            /\ UNCHANGED declareQueues
    /\ UNCHANGED <<bindQueues, bindExchanges, settingVars, crashed>>

\* append: a full slice is copied to one of twice the capacity.
Appended(slice, b) ==
    LET capacity == Len(slice.memory)
        memory   == IF slice.length < capacity THEN slice.memory
                    ELSE slice.memory \o [i \in 1 .. (IF capacity = 0 THEN 1 ELSE capacity)
                                              |-> NoBinding]
    IN  [memory |-> [memory EXCEPT ![slice.length + 1] = b], length |-> slice.length + 1]

Bound(slice) == SubSeq(slice.memory, 1, slice.length)

RecordBind(c) ==
    /\ Method(c) \in {"QueueBind", "ExchangeBind"}
    /\ Return(c)
    /\ IF Method(c) = "QueueBind"
       THEN /\ bindQueues' = Appended(bindQueues, <<op[c][2], op[c][3]>>)
            /\ UNCHANGED bindExchanges
       ELSE /\ bindExchanges' = Append(bindExchanges, <<op[c][2], op[c][3]>>)
            /\ UNCHANGED bindQueues
    /\ UNCHANGED <<declareQueues, declareExchanges, settingVars, crashed>>

\* A name that is not given removes nothing.
Matches(b, first, second) ==
    (first # NoName /\ b[1] = first) \/ (second # NoName /\ b[2] = second)

\* The bindings that stay, in their order.
Kept(slice, first, second) ==
    LET kept[i \in 0 .. Len(slice)] ==
            IF i = 0 THEN <<>>
            ELSE IF Matches(slice[i], first, second) THEN kept[i - 1]
            ELSE Append(kept[i - 1], slice[i])
    IN  kept[Len(slice)]

\* What is kept moves to the front of the memory; the rest of the memory stays.
MovedUp(kept, memory) == kept \o SubSeq(memory, Len(kept) + 1, Len(memory))

\* Variant: the bindings of a deleted queue are kept.
RemoveQueueBindings_Kept(first, second) == bindQueues' = bindQueues
RemoveQueueBindings(first, second) ==
    LET kept == Kept(Bound(bindQueues), first, second)
    IN  bindQueues' = [memory |-> MovedUp(kept, bindQueues.memory), length |-> Len(kept)]

\* Variant: a deleted queue is declared again.
DeclaredWithout_Same(q) == declareQueues
DeclaredWithout(q)      == declareQueues \ {q}

RecordQueueRemoval(c) ==
    /\ Method(c) \in {"QueueDelete", "QueueUnbind"}
    /\ Return(c)
    /\ IF Method(c) = "QueueDelete"
       THEN /\ declareQueues' = DeclaredWithout(op[c][2])
            /\ RemoveQueueBindings(op[c][2], NoName)
       ELSE /\ RemoveQueueBindings(op[c][2], op[c][3])
            /\ UNCHANGED declareQueues
    /\ UNCHANGED <<declareExchanges, bindExchanges, settingVars, crashed>>

\* The exchange bindings are filtered, and the slice of the queue bindings is cut to
\* their number: to less, to what its memory held before, or past its capacity.
RemoveExchangeBindings(slice, first, second) ==
    LET kept == Kept(bindExchanges, first, second)
    IN  /\ bindExchanges' = MovedUp(kept, bindExchanges)
        /\ IF Len(kept) <= Len(slice.memory)
           THEN /\ bindQueues' = [slice EXCEPT !.length = Len(kept)]
                /\ UNCHANGED crashed
           ELSE /\ bindQueues' = slice
                /\ crashed' = TRUE

RecordExchangeDelete(c) ==
    /\ Method(c) = "ExchangeDelete"
    /\ Return(c)
    /\ declareExchanges' = declareExchanges \ {op[c][2]}
    /\ LET e    == op[c][2]
           kept == Kept(Bound(bindQueues), NoName, e)
       IN  RemoveExchangeBindings(
             [memory |-> MovedUp(kept, bindQueues.memory), length |-> Len(kept)], e, e)
    /\ UNCHANGED <<declareQueues, settingVars>>

RecordExchangeUnbind(c) ==
    /\ Method(c) = "ExchangeUnbind"
    /\ Return(c)
    /\ RemoveExchangeBindings(bindQueues, op[c][2], op[c][3])
    /\ UNCHANGED <<declareQueues, declareExchanges, settingVars>>

Record(c) ==
    \/ RecordSetting(c) \/ RecordDeclare(c) \/ RecordBind(c)
    \/ RecordQueueRemoval(c) \/ RecordExchangeDelete(c) \/ RecordExchangeUnbind(c)

-----------------------------------------------------------------------------
(***************************************************************************)
(* The reconnection: the handlers ChannelReconnect, the first registered   *)
(* innermost.  An attempt that fails is repeated from the start.           *)
(***************************************************************************)

\* Variant: the redialer does not wait for calls that record.
NoReaders_Ignored == TRUE
NoReaders == \A c \in Callers : opPc[c] # "record"

Redial(from, to) == reconnectPc = from /\ reconnectPc' = to

StartReconnect ==
    /\ ~live
    /\ NoReaders
    /\ Redial("ready", "open")
    /\ UNCHANGED <<recordVars, settingVars, brokerVars, askedVars, live, opVars, boundVars,
                   noteVars>>

OpenChannel ==
    /\ Redial("open", "settings")
    /\ live' = TRUE
    /\ settings' = Fresh
    /\ UNCHANGED <<recordVars, settingVars, topology, askedVars, opVars, boundVars,
                   noteVars>>

\* Qos if it was set, Flow if it is off, Confirm if it is on.
ReplaySettings ==
    /\ Redial("settings", "queues")
    /\ settings' = [qos |-> qosArgs, flow |-> active, confirms |-> confirmsOn]
    /\ UNCHANGED <<recordVars, settingVars, topology, askedVars, live, opVars, boundVars,
                   noteVars>>

\* Declared, not looked up: what another client deleted comes back.  A queue without a
\* name comes back under a name that nobody knows.
RedeclareQueues ==
    /\ Redial("queues", "exchanges")
    /\ topology' = [topology EXCEPT !.queues = @ \cup (declareQueues \ {NoName})]
    /\ UNCHANGED <<recordVars, settingVars, settings, askedVars, live, opVars, boundVars,
                   noteVars>>

RedeclareExchanges ==
    /\ Redial("exchanges", "exchange bindings")
    /\ topology' = [topology EXCEPT !.exchanges = @ \cup declareExchanges]
    /\ UNCHANGED <<recordVars, settingVars, settings, askedVars, live, opVars, boundVars,
                   noteVars>>

ExchangesOfBindingsExist ==
    \A b \in ToSet(bindExchanges) : {b[1], b[2]} \subseteq topology.exchanges

RebindExchanges ==
    /\ Redial("exchange bindings", "queue bindings")
    /\ ExchangesOfBindingsExist
    /\ topology' = [topology EXCEPT !.exchangeBindings = @ \cup ToSet(bindExchanges)]
    /\ UNCHANGED <<recordVars, settingVars, settings, askedVars, live, opVars, boundVars,
                   noteVars>>

EndsOfBindingsExist ==
    \A b \in ToSet(Bound(bindQueues)) : b[1] \in topology.queues /\ b[2] \in topology.exchanges

RebindQueues ==
    /\ Redial("queue bindings", "ready")
    /\ EndsOfBindingsExist
    /\ topology' = [topology EXCEPT !.queueBindings = @ \cup ToSet(Bound(bindQueues))]
    /\ UNCHANGED <<recordVars, settingVars, settings, askedVars, live, opVars, boundVars,
                   noteVars>>

RebindRefused ==
    /\ \/ Redial("exchange bindings", "open") /\ ~ExchangesOfBindingsExist
       \/ Redial("queue bindings", "open") /\ ~EndsOfBindingsExist
    /\ live' = FALSE
    /\ UNCHANGED <<recordVars, settingVars, brokerVars, askedVars, opVars, boundVars,
                   noteVars>>

AttemptFails ==
    /\ reconnectPc # "ready"
    /\ failures < MaxFailures
    /\ failures' = failures + 1
    /\ reconnectPc' = "open"
    /\ live' = FALSE
    /\ UNCHANGED <<recordVars, settingVars, brokerVars, askedVars, opVars, losses,
                   noteVars>>

Redialer ==
    \/ StartReconnect \/ OpenChannel \/ ReplaySettings
    \/ RedeclareQueues \/ RedeclareExchanges
    \/ RebindExchanges \/ RebindQueues \/ RebindRefused

-----------------------------------------------------------------------------
(***************************************************************************)
(* The broker and other clients.                                           *)
(***************************************************************************)

ChannelDies ==
    /\ reconnectPc = "ready" /\ live
    /\ losses < MaxLosses
    /\ live' = FALSE
    /\ losses' = losses + 1
    /\ topology' \in AfterLoss(topology)
    /\ UNCHANGED <<recordVars, settingVars, settings, askedVars, reconnectPc, opVars,
                   failures, noteVars>>

OthersDelete ==
    /\ \E e \in Foreign \cap topology.exchanges : topology' = WithoutExchange(topology, e)
    /\ othersRemoved' = TRUE
    /\ UNCHANGED <<recordVars, settingVars, settings, askedVars, channelVars, opVars,
                   boundVars, crashed, raced, cut, taken>>

Step ==
    \/ \E c \in Callers :
        Call(c) \/ BrokerDoes(c) \/ BrokerRefuses(c) \/ ReplyLost(c) \/ Record(c)
    \/ Redialer \/ AttemptFails
    \/ ChannelDies \/ OthersDelete

\* A panic ends the program.
Next == ~crashed /\ Step

Spec == Init /\ [][Next]_vars

FairSpec ==
    /\ Spec
    /\ \A c \in Callers : WF_vars(~crashed /\ Record(c))
    /\ WF_vars(~crashed /\ Redialer)

-----------------------------------------------------------------------------
(***************************************************************************)
(* Properties.                                                             *)
(***************************************************************************)

NoneRecords == \A c \in Callers : opPc[c] # "record"

MadeBy(method) ==
    {<<o[2], o[3]>> : o \in {p \in UNION {Operations[c] : c \in Callers} : p[1] = method}}
QueueBindings    == MadeBy("QueueBind")
ExchangeBindings == MadeBy("ExchangeBind")

\* Every variable keeps its type, a slice is no longer than its memory, and nobody records
\* during a reconnection (routeDeclaration.go:385, "all methods that modify the binding
\* list must first acquire the same lock for read").
TypeOK ==
    /\ declareQueues \cap ServerNamed = {}
    /\ bindQueues.length \in 0 .. Len(bindQueues.memory)
    /\ bindQueues.memory \in Seq(QueueBindings \cup {NoBinding})
    /\ bindExchanges \in Seq(ExchangeBindings)
    /\ opPc \in [Callers -> {"idle", "called", "record"}]
    /\ \A c \in Callers : op[c] = NoOp <=> opPc[c] = "idle"
    /\ \A c \in Callers : op[c] \in Operations[c] \cup {NoOp}
    /\ reconnectPc \in {"ready", "open", "settings", "queues", "exchanges",
                        "exchange bindings", "queue bindings"}
    /\ reconnectPc = "open" => ~live
    /\ reconnectPc # "ready" => NoneRecords
    /\ settings.confirms \in BOOLEAN
    /\ calls \in 0 .. MaxOps
    /\ losses \in 0 .. MaxLosses
    /\ failures \in 0 .. MaxFailures

Settled == reconnectPc = "ready" /\ live

\* The channel in use is set up as the callers asked on any channel before it: paused as
\* the last call of Flow says, in confirmation mode once Confirm was called, and with the
\* last QoS unless two calls set it at once (flow.go:14, confirms.go:13, qos.go:15).
SettingsRestored ==
    Settled =>
        /\ settings.flow = asked.flow
        /\ settings.confirms = asked.confirms
        /\ ~raced => settings.qos = asked.qos

AllIdle == \A c \in Callers : opPc[c] = "idle"

\* After a reconnection the broker has every queue and exchange that was declared and not
\* deleted, and no other, except queues the server named and what calls raced about or
\* another client deleted (routeDeclaration.go:16).  It has the bindings between them, and
\* no other, as long as no exchange and no binding of exchanges was removed, which cuts the
\* slice of the queue bindings (line 235); but of queue bindings it may lack those that share
\* a queue or an exchange with one that was removed (line 142).
TopologyRestored ==
    Settled /\ AllIdle /\ ~raced /\ ~othersRemoved /\ ~crashed =>
        /\ topology.queues \ ServerNamed = askedFor.queues \ ServerNamed
        /\ topology.exchanges = askedFor.exchanges
        /\ ~cut =>
             /\ topology.exchangeBindings = askedFor.exchangeBindings
             /\ topology.queueBindings \subseteq askedFor.queueBindings
             /\ askedFor.queueBindings \ taken \subseteq topology.queueBindings

\* A binding was recorded to a queue or an exchange that is still being declared: its reply
\* was lost, and another goroutine has seen it at the broker.
Unrecorded ==
    \E c \in Callers :
        /\ opPc[c] = "called" /\ Method(c) \in {"QueueDeclare", "ExchangeDeclare"}
        /\ \E b \in ToSet(Bound(bindQueues)) \cup ToSet(bindExchanges) : op[c][2] \in ToSet(b)

\* A reconnection ends, unless a binding was recorded whose queue or exchange cannot come
\* back: calls raced, a declaration had not returned, the queue was named by the server,
\* another client deleted the exchange, or a removal cut the record
\* (routeDeclaration.go:303, "so that we don't get caught in an endless loop of reconnects").
ReconnectionEnds ==
    ~live ~> \/ Settled
             \/ crashed \/ raced \/ cut \/ othersRemoved
             \/ Unrecorded
             \/ ServerNamed \cap askedFor.queues # {}

\* The bindings asked for are there after a reconnection (routeDeclaration.go:547, QueueBind
\* "saves queue bind arguments, so they can be re-declared on channel reconnection").
BindingsReplayed ==
    Settled /\ AllIdle /\ ~raced /\ ~othersRemoved /\ ~crashed =>
        askedFor.queueBindings \subseteq topology.queueBindings
=============================================================================
