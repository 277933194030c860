------------------------ MODULE ChannelReplayProofs ------------------------
(***************************************************************************)
(* Proofs about ChannelReplay, for any callers, operations and number of   *)
(* losses.  The invariants say what the record lacks of what was asked for *)
(* while a call is being recorded, and what the broker has more or less    *)
(* than that while a call is under way or the channel is being set up.     *)
(***************************************************************************)
EXTENDS ChannelReplay, WellFoundedInduction, TLAPS

-----------------------------------------------------------------------------
(***************************************************************************)
(* Slices.  What a loop over a slice leaves follows by induction over the  *)
(* positions of the slice.                                                 *)
(***************************************************************************)

\* A set of naturals with 0 and the successor of each of its members has them all.
LEMMA Induction ==
    ASSUME NEW T, 0 \in T, \A n \in Nat : n \in T => n + 1 \in T
    PROVE  \A n \in Nat : n \in T
<1> DEFINE Before == {p \in Nat \X Nat : p[1] < p[2]}
           Rest   == Nat \ T
<1> SUFFICES ASSUME Rest # {} PROVE FALSE
  OBVIOUS
<1>1. IsWellFoundedOn(Before, Nat)
  BY NatLessThanWellFounded DEF OpToRel
<1>2. PICK n \in Rest : \A m \in Rest : <<m, n>> \notin Before
  <2> HIDE DEF Before
  <2>1. Rest \subseteq Nat
    OBVIOUS
  <2> HIDE DEF Rest
  <2> QED BY <1>1, <2>1, WFMin
<1>3. n - 1 \in Nat /\ <<n - 1, n>> \in Before
  OBVIOUS
<1> QED BY <1>2, <1>3

\* What has been kept after each position.
KeptAfter(k, s, first, second) ==
    /\ k[0] = <<>>
    /\ \A i \in 1 .. Len(s) :
          k[i] = IF Matches(s[i], first, second) THEN k[i - 1] ELSE Append(k[i - 1], s[i])

\* The loop of Kept comes to its end.
LEMMA KeptLoop ==
    ASSUME NEW S, NEW s \in Seq(S), NEW first, NEW second
    PROVE  \E k : KeptAfter(k, s, first, second) /\ Kept(s, first, second) = k[Len(s)]
<1> DEFINE Body(k, n) ==
             [i \in 0 .. n |->
                IF i = 0 THEN <<>>
                ELSE IF Matches(s[i], first, second) THEN k[i - 1]
                ELSE Append(k[i - 1], s[i])]
           kept[i \in 0 .. Len(s)] ==
                IF i = 0 THEN <<>>
                ELSE IF Matches(s[i], first, second) THEN kept[i - 1]
                ELSE Append(kept[i - 1], s[i])
<1>1. kept = CHOOSE k : k = Body(k, Len(s))
  OBVIOUS
<1>2. Kept(s, first, second) = kept[Len(s)]
  BY DEF Kept
<1> HIDE DEF kept
<1> DEFINE Reached == {n \in Nat : \E k : k = Body(k, n)}
<1>3. 0 \in Reached
  <2> DEFINE k == [i \in 0 .. 0 |-> <<>>]
  <2>1. k = Body(k, 0)
    OBVIOUS
  <2> QED BY <2>1
<1>4. ASSUME NEW n \in Nat, n \in Reached
      PROVE  n + 1 \in Reached
  <2>1. PICK k : k = Body(k, n)
    BY <1>4
  <2> DEFINE last == IF Matches(s[n + 1], first, second) THEN k[n] ELSE Append(k[n], s[n + 1])
             l    == [i \in 0 .. (n + 1) |-> IF i = n + 1 THEN last ELSE k[i]]
  <2>2. \A i \in 0 .. n : k[i] = Body(k, n)[i]
    BY <2>1
  <2>3. ASSUME NEW i \in 0 .. (n + 1)
        PROVE  l[i] = Body(l, n + 1)[i]
    <3>1. CASE i = n + 1
      BY <3>1
    <3>2. CASE i \in 0 .. n
      <4>1. l[i] = k[i] /\ (i # 0 => l[i - 1] = k[i - 1])
        BY <3>2
      <4>2. k[i] = IF i = 0 THEN <<>>
                   ELSE IF Matches(s[i], first, second) THEN k[i - 1]
                   ELSE Append(k[i - 1], s[i])
        BY <2>2, <3>2
      <4> QED BY <4>1, <4>2
    <3> QED BY <3>1, <3>2
  <2>4. l = Body(l, n + 1)
    <3> HIDE DEF last
    <3> QED BY <2>3
  <2>5. \E m : m = Body(m, n + 1)
    <3> HIDE DEF l, Body
    <3> QED BY <2>4
  <2> HIDE DEF Body
  <2> QED BY <2>5
<1>5. Len(s) \in Reached
  <2> HIDE DEF Reached
  <2>1. \A n \in Nat : n \in Reached
    BY <1>3, <1>4, Induction
  <2> QED BY <2>1
<1>6. kept = Body(kept, Len(s))
  <2>1. \E k : k = Body(k, Len(s))
    BY <1>5
  <2> HIDE DEF Body
  <2> QED BY <1>1, <2>1
<1>7. \A i \in 0 .. Len(s) : kept[i] = Body(kept, Len(s))[i]
  BY <1>6
<1>8. KeptAfter(kept, s, first, second)
  BY <1>7 DEF KeptAfter
<1> QED BY <1>2, <1>8

HasBinding(s, b) == \E i \in 1 .. Len(s) : s[i] = b

\* Kept is a part of the slice: the bindings that do not match.
LEMMA KeptFacts ==
    ASSUME NEW S, NEW s \in Seq(S), NEW first, NEW second
    PROVE  /\ Kept(s, first, second) \in Seq(S)
           /\ Len(Kept(s, first, second)) <= Len(s)
           /\ \A b : HasBinding(Kept(s, first, second), b)
                       <=> HasBinding(s, b) /\ ~Matches(b, first, second)
<1>1. PICK k : KeptAfter(k, s, first, second) /\ Kept(s, first, second) = k[Len(s)]
  BY KeptLoop
<1> DEFINE Upto(n) == \A b : HasBinding(k[n], b)
                         <=> (\E i \in 1 .. n : s[i] = b) /\ ~Matches(b, first, second)
           Fine == {n \in Nat : n <= Len(s) =>
                        k[n] \in Seq(S) /\ Len(k[n]) <= n /\ Upto(n)}
<1>2. 0 \in Fine
  <2>1. k[0] = <<>>
    BY <1>1 DEF KeptAfter
  <2>2. k[0] \in Seq(S) /\ Len(k[0]) = 0
    BY <2>1
  <2>3. \A b : ~HasBinding(k[0], b) /\ ~\E i \in 1 .. 0 : s[i] = b
    BY <2>2 DEF HasBinding
  <2> QED BY <2>2, <2>3
<1>3. ASSUME NEW n \in Nat, n \in Fine, n + 1 <= Len(s)
      PROVE  k[n + 1] \in Seq(S) /\ Len(k[n + 1]) <= n + 1 /\ Upto(n + 1)
  <2>1. k[n] \in Seq(S) /\ Len(k[n]) <= n /\ Upto(n)
    BY <1>3
  <2>2. /\ s[n + 1] \in S
        /\ k[n + 1] = IF Matches(s[n + 1], first, second) THEN k[n]
                      ELSE Append(k[n], s[n + 1])
    <3>1. n + 1 \in 1 .. Len(s) /\ (n + 1) - 1 = n
      BY <1>3
    <3> QED BY <1>1, <3>1 DEF KeptAfter
  <2>3. \A b : (\E i \in 1 .. (n + 1) : s[i] = b)
                 <=> (\E i \in 1 .. n : s[i] = b) \/ s[n + 1] = b
    OBVIOUS
  <2>4. CASE Matches(s[n + 1], first, second)
    BY <2>1, <2>2, <2>3, <2>4
  <2>5. CASE ~Matches(s[n + 1], first, second)
    <3>1. k[n + 1] = Append(k[n], s[n + 1])
      BY <2>2, <2>5
    <3>2. \A b : HasBinding(k[n + 1], b) <=> HasBinding(k[n], b) \/ s[n + 1] = b
      <4> DEFINE before == k[n]
                 after  == k[n + 1]
      <4>1. /\ before \in Seq(S) /\ Len(after) = Len(before) + 1
            /\ after[Len(before) + 1] = s[n + 1]
            /\ \A i \in 1 .. Len(before) : after[i] = before[i]
        BY <2>1, <2>2, <3>1
      <4> HIDE DEF before, after
      <4>2. \A i : i \in 1 .. Len(after) <=> i \in 1 .. Len(before) \/ i = Len(before) + 1
        BY <4>1
      <4>3. \A b : HasBinding(after, b) <=> HasBinding(before, b) \/ s[n + 1] = b
        BY <4>1, <4>2 DEF HasBinding
      <4> QED BY <4>3 DEF before, after
    <3> QED BY <2>1, <2>2, <2>3, <2>5, <3>1, <3>2
  <2> QED BY <2>4, <2>5
<1>4. Len(s) \in Fine
  <2>1. ASSUME NEW n \in Nat, n \in Fine
        PROVE  n + 1 \in Fine
    <3>1. CASE n + 1 <= Len(s)
      BY <1>3, <2>1, <3>1
    <3>2. CASE ~(n + 1 <= Len(s))
      BY <3>2
    <3> QED BY <3>1, <3>2
  <2> HIDE DEF Fine
  <2>2. \A n \in Nat : n \in Fine
    BY <1>2, <2>1, Induction
  <2> QED BY <2>2
<1> QED BY <1>1, <1>4 DEF HasBinding

\* What is kept of a part of the memory is moved to its front.
LEMMA MovedUpFacts ==
    ASSUME NEW S, NEW kept \in Seq(S), NEW memory \in Seq(S), Len(kept) <= Len(memory)
    PROVE  /\ MovedUp(kept, memory) \in Seq(S)
           /\ Len(MovedUp(kept, memory)) = Len(memory)
           /\ SubSeq(MovedUp(kept, memory), 1, Len(kept)) = kept
<1> DEFINE rest == SubSeq(memory, Len(kept) + 1, Len(memory))
<1>1. rest \in Seq(S) /\ Len(rest) = Len(memory) - Len(kept)
  OBVIOUS
<1> HIDE DEF rest
<1>2. /\ kept \o rest \in Seq(S)
      /\ Len(kept \o rest) = Len(memory)
      /\ SubSeq(kept \o rest, 1, Len(kept)) = kept
  BY <1>1
<1> QED BY <1>2 DEF MovedUp, rest

IsSlice(slice, S) ==
    /\ slice = [memory |-> slice.memory, length |-> slice.length]
    /\ slice.memory \in Seq(S)
    /\ slice.length \in 0 .. Len(slice.memory)

\* The bindings within the length of a slice.
LEMMA BoundFacts ==
    ASSUME NEW S, NEW slice, IsSlice(slice, S)
    PROVE  /\ Bound(slice) \in Seq(S)
           /\ Len(Bound(slice)) = slice.length
           /\ \A i \in 1 .. slice.length : Bound(slice)[i] = slice.memory[i]
BY DEF Bound, IsSlice

\* append adds a binding, whether or not the memory has room.
LEMMA AppendedFacts ==
    ASSUME NEW S, NEW slice, IsSlice(slice, S), NoBinding \in S, NEW new \in S
    PROVE  /\ IsSlice(Appended(slice, new), S)
           /\ \A b : HasBinding(Bound(Appended(slice, new)), b)
                       <=> HasBinding(Bound(slice), b) \/ b = new
<1> DEFINE capacity == Len(slice.memory)
           room     == IF capacity = 0 THEN 1 ELSE capacity
           longer   == slice.memory \o [i \in 1 .. room |-> NoBinding]
           memory   == IF slice.length < capacity THEN slice.memory ELSE longer
           added    == [memory EXCEPT ![slice.length + 1] = new]
<1>1. slice.memory \in Seq(S) /\ slice.length \in 0 .. capacity /\ capacity \in Nat
  BY DEF IsSlice
<1>2. /\ memory \in Seq(S)
      /\ slice.length + 1 \in 1 .. Len(memory)
      /\ \A i \in 1 .. slice.length : memory[i] = slice.memory[i]
  <2>1. room \in Nat /\ room >= 1
    BY <1>1
  <2> HIDE DEF room
  <2>2. [i \in 1 .. room |-> NoBinding] \in Seq(S) /\ Len([i \in 1 .. room |-> NoBinding]) = room
    BY <2>1
  <2>3. /\ longer \in Seq(S)
        /\ Len(longer) = capacity + room
        /\ \A i \in 1 .. capacity : longer[i] = slice.memory[i]
    BY <1>1, <2>1, <2>2
  <2> HIDE DEF longer
  <2> QED BY <1>1, <2>1, <2>3
<1>3. Appended(slice, new) = [memory |-> added, length |-> slice.length + 1]
  BY DEF Appended
<1> HIDE DEF memory
<1>4. /\ added \in Seq(S)
      /\ Len(added) = Len(memory)
      /\ added[slice.length + 1] = new
      /\ \A i \in 1 .. slice.length : added[i] = slice.memory[i]
  BY <1>1, <1>2
<1> HIDE DEF added
<1>5. IsSlice(Appended(slice, new), S)
  BY <1>1, <1>2, <1>3, <1>4 DEF IsSlice
<1>6. \A b : HasBinding(Bound(slice), b) <=> \E i \in 1 .. slice.length : slice.memory[i] = b
  BY BoundFacts DEF HasBinding
<1>7. \A b : HasBinding(Bound(Appended(slice, new)), b)
               <=> \E i \in 1 .. (slice.length + 1) : added[i] = b
  <2>1. /\ Appended(slice, new).memory = added
        /\ Appended(slice, new).length = slice.length + 1
    BY <1>3
  <2>2. /\ Len(Bound(Appended(slice, new))) = slice.length + 1
        /\ \A i \in 1 .. (slice.length + 1) : Bound(Appended(slice, new))[i] = added[i]
    BY <1>5, <2>1, BoundFacts
  <2> QED BY <2>2 DEF HasBinding
<1>8. \A b : (\E i \in 1 .. (slice.length + 1) : added[i] = b)
               <=> (\E i \in 1 .. slice.length : slice.memory[i] = b) \/ b = new
  <2>1. \A i : i \in 1 .. (slice.length + 1) <=> i \in 1 .. slice.length \/ i = slice.length + 1
    BY <1>1
  <2> QED BY <1>4, <2>1
<1> QED BY <1>5, <1>6, <1>7, <1>8

-----------------------------------------------------------------------------
(***************************************************************************)
(* Calls.  Each changes one thing, or removes what goes with it.           *)
(***************************************************************************)

ChangesQueue(o, x)    == o[1] \in {"QueueDeclare", "QueueDelete"} /\ o[2] = x
ChangesExchange(o, x) == o[1] \in {"ExchangeDeclare", "ExchangeDelete"} /\ o[2] = x

ChangesQueueBinding(o, b) ==
    \/ o[1] \in {"QueueBind", "QueueUnbind"} /\ b = <<o[2], o[3]>>
    \/ o[1] = "QueueDelete" /\ b[1] = o[2]
    \/ o[1] = "ExchangeDelete" /\ b[2] = o[2]

ChangesExchangeBinding(o, b) ==
    \/ o[1] \in {"ExchangeBind", "ExchangeUnbind"} /\ b = <<o[2], o[3]>>
    \/ o[1] = "ExchangeDelete" /\ (b[1] = o[2] \/ b[2] = o[2])

Makes(o) == o[1] \in {"QueueDeclare", "ExchangeDeclare", "QueueBind", "ExchangeBind"}
Cuts(o)  == o[1] \in {"ExchangeDelete", "ExchangeUnbind"}

IsTopology(t) ==
    t = [queues |-> t.queues, exchanges |-> t.exchanges,
         queueBindings |-> t.queueBindings, exchangeBindings |-> t.exchangeBindings]

IsSettings(s) == s = [qos |-> s.qos, flow |-> s.flow, confirms |-> s.confirms]

\* Bindings hold on to queues and exchanges that are there.
Closed(t) ==
    /\ t.queueBindings \subseteq t.queues \X t.exchanges
    /\ t.exchangeBindings \subseteq t.exchanges \X t.exchanges

\* A call changes what it is about, and leaves the rest.
LEMMA AfterFacts ==
    ASSUME NEW t, IsTopology(t), NEW o
    PROVE  /\ IsTopology(After(t, o))
           /\ \A x : x \in After(t, o).queues
                       <=> IF ChangesQueue(o, x) THEN Makes(o) ELSE x \in t.queues
           /\ \A x : x \in After(t, o).exchanges
                       <=> IF ChangesExchange(o, x) THEN Makes(o) ELSE x \in t.exchanges
           /\ \A b : b \in After(t, o).queueBindings
                       <=> IF ChangesQueueBinding(o, b) THEN Makes(o)
                           ELSE b \in t.queueBindings
           /\ \A b : b \in After(t, o).exchangeBindings
                       <=> IF ChangesExchangeBinding(o, b) THEN Makes(o)
                           ELSE b \in t.exchangeBindings
<1> USE DEF IsTopology, After, ChangesQueue, ChangesExchange, ChangesQueueBinding,
            ChangesExchangeBinding, Makes
<1>1. CASE o[1] = "QueueDeclare"
  BY <1>1
<1>2. CASE o[1] = "QueueDelete"
  BY <1>2 DEF WithoutQueue
<1>3. CASE o[1] = "QueueBind"
  BY <1>3
<1>4. CASE o[1] = "QueueUnbind"
  BY <1>4
<1>5. CASE o[1] = "ExchangeDeclare"
  BY <1>5
<1>6. CASE o[1] = "ExchangeDelete"
  BY <1>6 DEF WithoutExchange
<1>7. CASE o[1] = "ExchangeBind"
  BY <1>7
<1>8. CASE o[1] = "ExchangeUnbind"
  BY <1>8
<1>9. CASE o[1] \notin {"QueueDeclare", "QueueDelete", "QueueBind", "QueueUnbind",
                        "ExchangeDeclare", "ExchangeDelete", "ExchangeBind",
                        "ExchangeUnbind"}
  BY <1>9
<1> QED BY <1>1, <1>2, <1>3, <1>4, <1>5, <1>6, <1>7, <1>8, <1>9

\* A call that is not refused leaves no binding without its ends.
LEMMA AfterClosed ==
    ASSUME NEW t, IsTopology(t), Closed(t), NEW o, ~Refuses(t, o)
    PROVE  Closed(After(t, o))
<1> USE DEF IsTopology, After, Closed, Refuses
<1>1. CASE o[1] = "QueueDeclare"
  BY <1>1
<1>2. CASE o[1] = "QueueDelete"
  <2>1. After(t, o) = WithoutQueue(t, o[2])
    BY <1>2
  <2>2. /\ WithoutQueue(t, o[2]).queues = t.queues \ {o[2]}
        /\ WithoutQueue(t, o[2]).exchanges = t.exchanges
        /\ WithoutQueue(t, o[2]).queueBindings = {b \in t.queueBindings : b[1] # o[2]}
        /\ WithoutQueue(t, o[2]).exchangeBindings = t.exchangeBindings
    BY DEF WithoutQueue
  <2> HIDE DEF After
  <2> QED BY <2>1, <2>2
<1>3. CASE o[1] = "QueueBind"
  BY <1>3
<1>4. CASE o[1] = "QueueUnbind"
  BY <1>4
<1>5. CASE o[1] = "ExchangeDeclare"
  BY <1>5
<1>6. CASE o[1] = "ExchangeDelete"
  <2>1. After(t, o) = WithoutExchange(t, o[2])
    BY <1>6
  <2>2. /\ WithoutExchange(t, o[2]).queues = t.queues
        /\ WithoutExchange(t, o[2]).exchanges = t.exchanges \ {o[2]}
        /\ WithoutExchange(t, o[2]).queueBindings = {b \in t.queueBindings : b[2] # o[2]}
        /\ WithoutExchange(t, o[2]).exchangeBindings
              = {b \in t.exchangeBindings : b[1] # o[2] /\ b[2] # o[2]}
    BY DEF WithoutExchange
  <2> HIDE DEF After
  <2> QED BY <2>1, <2>2
<1>7. CASE o[1] = "ExchangeBind"
  BY <1>7
<1>8. CASE o[1] = "ExchangeUnbind"
  BY <1>8
<1>9. CASE o[1] \notin {"QueueDeclare", "QueueDelete", "QueueBind", "QueueUnbind",
                        "ExchangeDeclare", "ExchangeDelete", "ExchangeBind",
                        "ExchangeUnbind"}
  BY <1>9
<1> QED BY <1>1, <1>2, <1>3, <1>4, <1>5, <1>6, <1>7, <1>8, <1>9

\* A loss takes nothing but what is fragile, with its bindings.
LEMMA AfterLossFacts ==
    ASSUME NEW t, IsTopology(t), Closed(t), NEW u \in AfterLoss(t)
    PROVE  /\ IsTopology(u) /\ Closed(u)
           /\ u.queues \subseteq t.queues
           /\ u.exchanges \subseteq t.exchanges
           /\ t.exchanges \ Fragile \subseteq u.exchanges
           /\ u.queueBindings \subseteq t.queueBindings
           /\ u.exchangeBindings \subseteq t.exchangeBindings
<1>1. CASE u = t
  BY <1>1
<1>2. CASE u = WithoutFragile(t)
  <2>1. \A b : b \in t.queueBindings \cup t.exchangeBindings
                 => b[1] \in ToSet(b) /\ b[2] \in ToSet(b)
    <3>1. \A x, y : ToSet(<<x, y>>) = {x, y}
      BY DEF ToSet
    <3> QED BY <3>1 DEF Closed
  <2> QED BY <1>2, <2>1 DEF WithoutFragile, IsTopology, Closed
<1> QED BY <1>1, <1>2 DEF AfterLoss

\* What IsOperation says of the arguments of a call.
LEMMA Arguments ==
    ASSUME NEW o, IsOperation(o)
    PROVE  /\ o[1] \in {"Confirm"} \cup OneArgument \cup TwoArguments
           /\ o # NoOp
           /\ o[1] \in OneArgument \cup TwoArguments => o[2] \in About(o) /\ 2 \in 2 .. Len(o)
           /\ o[1] \in TwoArguments => o[3] \in About(o) /\ 3 \in 2 .. Len(o)
<1> USE DEF NoOp, OneArgument, TwoArguments
<1>1. CASE o = <<"Confirm">>
  BY <1>1
<1>2. CASE Len(o) = 2 /\ o = <<o[1], o[2]>> /\ o[1] \in OneArgument
  <2>1. o # NoOp
    BY <1>2
  <2> QED BY <1>2, <2>1 DEF About
<1>3. CASE Len(o) = 3 /\ o = <<o[1], o[2], o[3]>> /\ o[1] \in TwoArguments
  <2>1. o # NoOp
    BY <1>3
  <2> QED BY <1>3, <2>1 DEF About
<1> QED BY <1>1, <1>2, <1>3 DEF IsOperation

\* Two calls that change the same thing are about it.
LEMMA ChangesOverlap ==
    ASSUME NEW o, IsOperation(o), NEW p, IsOperation(p), ~Overlap(o, p)
    PROVE  /\ \A x : ~(ChangesQueue(o, x) /\ ChangesQueue(p, x))
           /\ \A x : ~(ChangesExchange(o, x) /\ ChangesExchange(p, x))
           /\ ~Cuts(o) /\ ~Cuts(p) =>
                /\ \A b : ~(ChangesQueueBinding(o, b) /\ ChangesQueueBinding(p, b))
                /\ \A b : ~(ChangesExchangeBinding(o, b) /\ ChangesExchangeBinding(p, b))
           /\ \A b : ~(Shares(o, b) /\ ChangesQueueBinding(p, b) /\ Makes(p))
           /\ \A b : ~(Shares(p, b) /\ ChangesQueueBinding(o, b) /\ Makes(o))
<1>1. /\ o[1] \in OneArgument \cup TwoArguments => o[2] \in About(o)
      /\ p[1] \in OneArgument \cup TwoArguments => p[2] \in About(p)
      /\ o[1] \in TwoArguments => o[3] \in About(o)
      /\ p[1] \in TwoArguments => p[3] \in About(p)
  BY Arguments
<1>2. o[1] # "Flow" /\ p[1] # "Flow" => About(o) \cap About(p) = {}
  BY DEF Overlap
<1> QED BY <1>1, <1>2
           DEF ChangesQueue, ChangesExchange, ChangesQueueBinding, ChangesExchangeBinding,
               Cuts, Shares, Makes, OneArgument, TwoArguments

-----------------------------------------------------------------------------
(***************************************************************************)
(* The invariants.                                                         *)
(***************************************************************************)

\* What the variables range over.
SliceTypes ==
    /\ declareQueues \cap ServerNamed = {}
    /\ IsSlice(bindQueues, QueueBindings \cup {NoBinding})
    /\ bindExchanges \in Seq(ExchangeBindings)

CallTypes ==
    /\ opPc \in [Callers -> {"idle", "called", "record"}]
    /\ op = [c \in Callers |-> op[c]]
    /\ \A c \in Callers : op[c] = NoOp <=> opPc[c] = "idle"
    /\ \A c \in Callers : op[c] \in Operations[c] \cup {NoOp}
    /\ calls \in 0 .. MaxOps

PhaseTypes ==
    /\ reconnectPc \in {"ready", "open", "settings", "queues", "exchanges",
                        "exchange bindings", "queue bindings"}
    /\ reconnectPc = "open" => ~live
    /\ reconnectPc # "ready" => NoneRecords
    /\ losses \in 0 .. MaxLosses
    /\ failures \in 0 .. MaxFailures

SettingTypes ==
    /\ IsSettings(settings) /\ settings.confirms \in BOOLEAN
    /\ IsSettings(asked) /\ asked.confirms \in BOOLEAN
    /\ confirmsOn \in BOOLEAN

TopologyTypes == IsTopology(topology) /\ IsTopology(askedFor) /\ Closed(topology)

Types == SliceTypes /\ CallTypes /\ PhaseTypes /\ SettingTypes /\ TopologyTypes

Records(c) == opPc[c] = "record"
Called(c)  == opPc[c] = "called"

\* Calls that are recorded at once are about different things, and only one is of Flow.
ApartInv ==
    \A c, d \in Callers : c # d /\ Records(c) /\ Records(d) =>
        /\ ~raced => ~Overlap(op[c], op[d])
        /\ ~(Method(c) = "Flow" /\ Method(d) = "Flow")

\* The setting that is kept is the one that was asked for, unless a call has it.
SettingsKept ==
    /\ \A c \in Callers : Records(c) =>
          /\ Method(c) = "Flow" => asked.flow = op[c][2]
          /\ Method(c) = "Confirm" => asked.confirms
          /\ Method(c) = "Qos" /\ ~raced => asked.qos = op[c][2]
    /\ (\A c \in Callers : Records(c) => Method(c) # "Flow") => active = asked.flow
    /\ (\A c \in Callers : Records(c) => Method(c) # "Confirm") => confirmsOn = asked.confirms
    /\ confirmsOn => asked.confirms
    /\ (\A c \in Callers : Records(c) => Method(c) # "Qos") /\ ~raced => qosArgs = asked.qos

\* The streadway channel has what was asked for once the settings are replayed.
SettingsSet ==
    reconnectPc \notin {"open", "settings"} =>
        /\ settings.flow = asked.flow
        /\ settings.confirms = asked.confirms
        /\ ~raced => settings.qos = asked.qos

\* The record has what was asked for, but for what is being recorded.
MadeAsAsked ==
    \A c \in Callers : Records(c) =>
        /\ \A x : ChangesQueue(op[c], x) => (x \in askedFor.queues <=> Makes(op[c]))
        /\ \A x : ChangesExchange(op[c], x) => (x \in askedFor.exchanges <=> Makes(op[c]))

QueuesKept ==
    \A x : x \notin ServerNamed \cup {NoName}
             /\ (\A c \in Callers : Records(c) => ~ChangesQueue(op[c], x))
           => (x \in declareQueues <=> x \in askedFor.queues)

ExchangesKept ==
    \A x : (\A c \in Callers : Records(c) => ~ChangesExchange(op[c], x)) =>
        /\ x \in declareExchanges => x \in askedFor.exchanges
        /\ x \notin Foreign => (x \in askedFor.exchanges => x \in declareExchanges)

BoundAsAsked ==
    \A c \in Callers : Records(c) =>
        /\ ~Cuts(op[c])
        /\ \A b : ChangesQueueBinding(op[c], b)
                    => (b \in askedFor.queueBindings <=> Makes(op[c]))
        /\ \A b : ChangesExchangeBinding(op[c], b)
                    => (b \in askedFor.exchangeBindings <=> Makes(op[c]))
        /\ \A b : Shares(op[c], b) /\ b \in askedFor.queueBindings => b \in taken

QueueBindingsKept ==
    \A b : (\A c \in Callers : Records(c) => ~ChangesQueueBinding(op[c], b)) =>
        /\ HasBinding(Bound(bindQueues), b) => b \in askedFor.queueBindings
        /\ b \in askedFor.queueBindings \ taken => HasBinding(Bound(bindQueues), b)

ExchangeBindingsKept ==
    \A b : (\A c \in Callers : Records(c) => ~ChangesExchangeBinding(op[c], b))
             => (HasBinding(bindExchanges, b) <=> b \in askedFor.exchangeBindings)

KeptInv ==
    ~raced => /\ MadeAsAsked /\ QueuesKept /\ ExchangesKept
              /\ ~cut => BoundAsAsked /\ QueueBindingsKept /\ ExchangeBindingsKept

\* The broker has what was asked for, but for the calls under way, whose replies may have
\* been lost; less than that until the reconnection has come so far.
HasQueues ==
    Settled \/ reconnectPc \in {"exchanges", "exchange bindings", "queue bindings"}
HasExchanges        == Settled \/ reconnectPc \in {"exchange bindings", "queue bindings"}
HasExchangeBindings == Settled \/ reconnectPc = "queue bindings"

QueuesThere ==
    \A x : x \notin ServerNamed /\ (\A c \in Callers : Called(c) => ~ChangesQueue(op[c], x)) =>
        /\ x \in topology.queues => x \in askedFor.queues
        /\ HasQueues /\ x \in askedFor.queues => x \in topology.queues

ExchangesThere ==
    \A x : (\A c \in Callers : Called(c) => ~ChangesExchange(op[c], x)) =>
        /\ x \in topology.exchanges => x \in askedFor.exchanges
        /\ (HasExchanges \/ x \in Foreign) /\ x \in askedFor.exchanges
             => x \in topology.exchanges

QueueBindingsThere ==
    \A b : (\A c \in Callers : Called(c) => ~ChangesQueueBinding(op[c], b)) =>
        /\ b \in topology.queueBindings => b \in askedFor.queueBindings
        /\ Settled /\ b \in askedFor.queueBindings \ taken => b \in topology.queueBindings

ExchangeBindingsThere ==
    \A b : (\A c \in Callers : Called(c) => ~ChangesExchangeBinding(op[c], b)) =>
        /\ b \in topology.exchangeBindings => b \in askedFor.exchangeBindings
        /\ HasExchangeBindings /\ b \in askedFor.exchangeBindings
             => b \in topology.exchangeBindings

ThereInv ==
    /\ NoName \notin askedFor.queues
    /\ ~raced /\ ~othersRemoved =>
         /\ QueuesThere /\ ExchangesThere
         /\ ~cut => QueueBindingsThere /\ ExchangeBindingsThere

-----------------------------------------------------------------------------
(***************************************************************************)
(* Types.                                                                  *)
(***************************************************************************)

LEMMA TypesInit == Init => Types
<1> SUFFICES ASSUME Init PROVE Types
  OBVIOUS
<1> USE DEF Init
<1>1. SliceTypes
  BY DEF SliceTypes, IsSlice
<1>2. CallTypes
  BY ConstantsAssumption DEF CallTypes
<1>3. PhaseTypes
  BY ConstantsAssumption DEF PhaseTypes
<1>4. SettingTypes
  BY DEF SettingTypes, IsSettings, Fresh
<1>5. TopologyTypes
  BY DEF TopologyTypes, IsTopology, Closed, Empty
<1> QED BY <1>1, <1>2, <1>3, <1>4, <1>5 DEF Types

LEMMA TypesGiveTypeOK == Types => TypeOK
BY DEF Types, TypeOK, SliceTypes, CallTypes, PhaseTypes, SettingTypes, IsSlice

\* A caller that is not idle has one of its operations.
LEMMA OperationOf ==
    ASSUME CallTypes, NEW c \in Callers, opPc[c] # "idle"
    PROVE  /\ op[c] \in Operations[c]
           /\ IsOperation(op[c])
           /\ \A i \in 2 .. Len(op[c]) : op[c][i] # NoName
<1>1. op[c] \in Operations[c]
  BY DEF CallTypes
<1> QED BY <1>1, ConstantsAssumption

LEMMA BindingOf ==
    ASSUME CallTypes, NEW c \in Callers, opPc[c] # "idle"
    PROVE  /\ Method(c) = "QueueBind" => <<op[c][2], op[c][3]>> \in QueueBindings
           /\ Method(c) = "ExchangeBind" => <<op[c][2], op[c][3]>> \in ExchangeBindings
BY OperationOf DEF Method, QueueBindings, ExchangeBindings, MadeBy

\* What a call that returns does to the caller.
LEMMA CallTypesNext ==
    ASSUME Types, [Next]_vars
    PROVE  CallTypes'
<1>1. CallTypes /\ calls \in 0 .. MaxOps /\ MaxOps \in Nat
  BY ConstantsAssumption DEF Types, CallTypes
<1>2. ASSUME NEW c \in Callers, Call(c)
      PROVE  CallTypes'
  <2>1. PICK o \in Operations[c] : op' = [op EXCEPT ![c] = o]
    BY <1>2 DEF Call
  <2>2. o # NoOp
    BY Arguments, ConstantsAssumption
  <2>3. opPc' = [opPc EXCEPT ![c] = "called"] /\ calls' = calls + 1 /\ calls < MaxOps
    BY <1>2 DEF Call
  <2> QED BY <1>1, <2>1, <2>2, <2>3 DEF CallTypes
<1>3. ASSUME NEW c \in Callers, BrokerDoes(c)
      PROVE  CallTypes'
  BY <1>1, <1>3 DEF CallTypes, BrokerDoes
<1>4. ASSUME NEW c \in Callers, BrokerRefuses(c) \/ Return(c)
      PROVE  CallTypes'
  BY <1>1, <1>4 DEF CallTypes, BrokerRefuses, Return
<1>5. ASSUME UNCHANGED opVars
      PROVE  CallTypes'
  BY <1>1, <1>5 DEF CallTypes, opVars
<1>6. ASSUME NEW c \in Callers, Record(c)
      PROVE  CallTypes'
  BY <1>4, <1>6 DEF Record, RecordSetting, RecordDeclare, RecordBind, RecordQueueRemoval,
                    RecordExchangeDelete, RecordExchangeUnbind
<1>7. ASSUME NEW c \in Callers, ReplyLost(c)
      PROVE  CallTypes'
  BY <1>5, <1>7 DEF ReplyLost
<1>8. CASE Redialer
  BY <1>5, <1>8 DEF Redialer, StartReconnect, OpenChannel, ReplaySettings, RedeclareQueues,
                    RedeclareExchanges, RebindExchanges, RebindQueues, RebindRefused
<1>9. CASE AttemptFails \/ ChannelDies \/ OthersDelete \/ UNCHANGED vars
  BY <1>5, <1>9 DEF AttemptFails, ChannelDies, OthersDelete, vars, opVars
<1> QED BY <1>2, <1>3, <1>4, <1>6, <1>7, <1>8, <1>9 DEF Next, Step

LEMMA PhaseTypesNext ==
    ASSUME Types, [Next]_vars
    PROVE  PhaseTypes'
<1>1. PhaseTypes /\ MaxLosses \in Nat /\ MaxFailures \in Nat
  BY ConstantsAssumption DEF Types
<1>2. opPc \in [Callers -> {"idle", "called", "record"}]
  BY DEF Types, CallTypes
<1> USE DEF PhaseTypes, NoneRecords
<1>3. ASSUME NEW c \in Callers, Call(c) \/ BrokerDoes(c)
      PROVE  PhaseTypes'
  <2>1. UNCHANGED <<reconnectPc, live, losses, failures>>
    BY <1>3 DEF Call, BrokerDoes, channelVars, boundVars
  <2>2. CASE Call(c)
    <3>1. opPc' = [opPc EXCEPT ![c] = "called"]
      BY <2>2 DEF Call
    <3> QED BY <1>1, <1>2, <2>1, <3>1
  <2>3. CASE BrokerDoes(c)
    <3>1. reconnectPc = "ready"
      BY <2>3 DEF BrokerDoes
    <3> QED BY <1>1, <2>1, <3>1
  <2> QED BY <1>3, <2>2, <2>3
<1>4. ASSUME NEW c \in Callers, BrokerRefuses(c) \/ ReplyLost(c)
      PROVE  PhaseTypes'
  <2>1. /\ reconnectPc = "ready" /\ live' = FALSE
        /\ losses < MaxLosses /\ losses' = losses + 1
        /\ UNCHANGED <<reconnectPc, failures>>
    BY <1>4 DEF BrokerRefuses, ReplyLost
  <2> QED BY <1>1, <2>1
<1>5. ASSUME NEW c \in Callers, Record(c)
      PROVE  PhaseTypes'
  <2>1. Return(c)
    BY <1>5 DEF Record, RecordSetting, RecordDeclare, RecordBind, RecordQueueRemoval,
                RecordExchangeDelete, RecordExchangeUnbind
  <2> QED BY <1>1, <1>2, <2>1 DEF Return, channelVars, boundVars
<1>6. CASE StartReconnect
  BY <1>1, <1>6 DEF StartReconnect, Redial, NoReaders, opVars, boundVars
<1>7. CASE OpenChannel \/ ReplaySettings \/ RedeclareQueues \/ RedeclareExchanges
           \/ RebindExchanges
  BY <1>1, <1>7 DEF OpenChannel, ReplaySettings, RedeclareQueues, RedeclareExchanges,
                    RebindExchanges, Redial, opVars, boundVars
<1>8. CASE RebindQueues \/ RebindRefused
  BY <1>1, <1>8 DEF RebindQueues, RebindRefused, Redial, opVars, boundVars
<1>9. CASE AttemptFails
  <2>1. /\ reconnectPc # "ready" /\ reconnectPc' = "open" /\ live' = FALSE
        /\ failures < MaxFailures /\ failures' = failures + 1
        /\ opPc' = opPc /\ losses' = losses
    BY <1>9 DEF AttemptFails, opVars
  <2>2. NoneRecords'
    BY <1>1, <2>1
  <2>3. losses' \in 0 .. MaxLosses /\ failures' \in 0 .. MaxFailures
    <3>1. losses \in 0 .. MaxLosses /\ failures \in 0 .. MaxFailures /\ MaxFailures \in Nat
      BY <1>1
    <3> QED BY <2>1, <3>1
  <2> HIDE DEF NoneRecords
  <2> QED BY <2>1, <2>2, <2>3
<1>10. CASE ChannelDies
  <2>1. /\ reconnectPc = "ready" /\ live' = FALSE
        /\ losses < MaxLosses /\ losses' = losses + 1
        /\ UNCHANGED <<reconnectPc, failures>>
    BY <1>10 DEF ChannelDies
  <2> QED BY <1>1, <2>1
<1>11. CASE OthersDelete \/ UNCHANGED vars
  <2>1. UNCHANGED <<reconnectPc, live, opPc, losses, failures>>
    BY <1>11 DEF OthersDelete, opVars, boundVars, channelVars, vars
  <2>2. PhaseTypes' <=> PhaseTypes
    BY <2>1
  <2> QED BY <1>1, <2>2
<1> QED BY <1>3, <1>4, <1>5, <1>6, <1>7, <1>8, <1>9, <1>10, <1>11 DEF Next, Step, Redialer

LEMMA SettingTypesNext ==
    ASSUME Types, [Next]_vars
    PROVE  SettingTypes'
<1>1. SettingTypes
  BY DEF Types
<1> USE DEF SettingTypes, IsSettings
<1>2. ASSUME NEW c \in Callers, BrokerDoes(c)
      PROVE  SettingTypes'
  <2>1. /\ settings' = AfterSetting(settings, op[c])
        /\ asked' = AfterSetting(asked, op[c])
        /\ UNCHANGED confirmsOn
    BY <1>2 DEF BrokerDoes, settingVars
  <2>2. ASSUME NEW t, IsSettings(t), t.confirms \in BOOLEAN
        PROVE  LET u == AfterSetting(t, op[c])
               IN  IsSettings(u) /\ u.confirms \in BOOLEAN
    BY <2>2 DEF AfterSetting
  <2> QED BY <1>1, <2>1, <2>2
<1>3. ASSUME NEW c \in Callers, RecordSetting(c)
      PROVE  SettingTypes'
  <2>1. UNCHANGED <<settings, asked>> /\ confirmsOn' \in BOOLEAN
    BY <1>3 DEF RecordSetting, Return, brokerVars, askedVars
  <2> QED BY <1>1, <2>1
<1>4. CASE OpenChannel
  BY <1>1, <1>4 DEF OpenChannel, settingVars, askedVars, Fresh
<1>5. CASE ReplaySettings
  BY <1>1, <1>5 DEF ReplaySettings, settingVars, askedVars
<1>6. ASSUME UNCHANGED <<settings, asked, confirmsOn>>
      PROVE  SettingTypes'
  BY <1>1, <1>6
<1>7. ASSUME NEW c \in Callers, Call(c) \/ BrokerRefuses(c) \/ ReplyLost(c)
      PROVE  SettingTypes'
  BY <1>6, <1>7 DEF Call, BrokerRefuses, ReplyLost, settingVars, askedVars, brokerVars
<1>8. ASSUME NEW c \in Callers,
             RecordDeclare(c) \/ RecordBind(c) \/ RecordQueueRemoval(c)
               \/ RecordExchangeDelete(c) \/ RecordExchangeUnbind(c)
      PROVE  SettingTypes'
  BY <1>6, <1>8 DEF RecordDeclare, RecordBind, RecordQueueRemoval, RecordExchangeDelete,
                    RecordExchangeUnbind, Return, settingVars, askedVars, brokerVars
<1>9. CASE StartReconnect \/ RedeclareQueues \/ RedeclareExchanges \/ RebindExchanges
           \/ RebindQueues \/ RebindRefused
  BY <1>6, <1>9 DEF StartReconnect, RedeclareQueues, RedeclareExchanges, RebindExchanges,
                    RebindQueues, RebindRefused, settingVars, askedVars, brokerVars
<1>10. CASE AttemptFails \/ ChannelDies \/ OthersDelete \/ UNCHANGED vars
  BY <1>6, <1>10 DEF AttemptFails, ChannelDies, OthersDelete, vars, settingVars, askedVars,
                     brokerVars
<1> QED BY <1>2, <1>3, <1>4, <1>5, <1>7, <1>8, <1>9, <1>10 DEF Next, Step, Record, Redialer

\* Another client that deletes an exchange takes the bindings with it.
LEMMA WithoutExchangeFacts ==
    ASSUME NEW t, IsTopology(t), Closed(t), NEW e
    PROVE  IsTopology(WithoutExchange(t, e)) /\ Closed(WithoutExchange(t, e))
<1> DEFINE o == <<"ExchangeDelete", e>>
<1>1. o[1] = "ExchangeDelete" /\ o[2] = e
  OBVIOUS
<1> HIDE DEF o
<1>2. After(t, o) = WithoutExchange(t, e) /\ ~Refuses(t, o)
  BY <1>1 DEF After, Refuses
<1> QED BY <1>2, AfterFacts, AfterClosed

LEMMA TopologyTypesNext ==
    ASSUME Types, [Next]_vars
    PROVE  TopologyTypes'
<1>1. TopologyTypes
  BY DEF Types
<1> USE DEF TopologyTypes
<1>2. ASSUME NEW c \in Callers, BrokerDoes(c)
      PROVE  TopologyTypes'
  <2>1. /\ topology' = After(topology, op[c])
        /\ askedFor' = After(askedFor, op[c])
        /\ ~Refuses(topology, op[c])
    BY <1>2 DEF BrokerDoes
  <2> QED BY <1>1, <2>1, AfterFacts, AfterClosed
<1>3. ASSUME NEW c \in Callers, ReplyLost(c)
      PROVE  TopologyTypes'
  <2>1. /\ topology' \in AfterLoss(After(topology, op[c]))
        /\ UNCHANGED askedFor
        /\ ~Refuses(topology, op[c])
    BY <1>3 DEF ReplyLost, askedVars
  <2>2. IsTopology(After(topology, op[c])) /\ Closed(After(topology, op[c]))
    BY <1>1, <2>1, AfterFacts, AfterClosed
  <2> QED BY <1>1, <2>1, <2>2, AfterLossFacts
<1>4. ASSUME topology' \in AfterLoss(topology), UNCHANGED askedFor
      PROVE  TopologyTypes'
  BY <1>1, <1>4, AfterLossFacts
<1>5. ASSUME NEW c \in Callers, BrokerRefuses(c)
      PROVE  TopologyTypes'
  BY <1>4, <1>5 DEF BrokerRefuses, askedVars
<1>6. CASE ChannelDies
  BY <1>4, <1>6 DEF ChannelDies, askedVars
<1>7. CASE OthersDelete
  <2>1. UNCHANGED askedFor /\ \E e : topology' = WithoutExchange(topology, e)
    BY <1>7 DEF OthersDelete, askedVars
  <2> QED BY <1>1, <2>1, WithoutExchangeFacts
<1>8. ASSUME UNCHANGED askedFor, UNCHANGED topology
      PROVE  TopologyTypes'
  BY <1>1, <1>8
<1>9. ASSUME NEW c \in Callers, Call(c) \/ Return(c)
      PROVE  TopologyTypes'
  BY <1>8, <1>9 DEF Call, Return, askedVars, brokerVars
<1>10. ASSUME NEW c \in Callers, Record(c)
       PROVE  TopologyTypes'
  BY <1>9, <1>10 DEF Record, RecordSetting, RecordDeclare, RecordBind, RecordQueueRemoval,
                     RecordExchangeDelete, RecordExchangeUnbind
<1>11. CASE RedeclareQueues \/ RedeclareExchanges
  <2>1. UNCHANGED askedFor
    BY <1>11 DEF RedeclareQueues, RedeclareExchanges, askedVars
  <2>2. IsTopology(topology')
    BY <1>1, <1>11 DEF RedeclareQueues, RedeclareExchanges, IsTopology
  <2>3. /\ topology.queues \subseteq topology'.queues
        /\ topology.exchanges \subseteq topology'.exchanges
        /\ topology'.queueBindings = topology.queueBindings
        /\ topology'.exchangeBindings = topology.exchangeBindings
    BY <1>1, <1>11 DEF RedeclareQueues, RedeclareExchanges, IsTopology
  <2>4. Closed(topology')
    BY <1>1, <2>3 DEF Closed
  <2> QED BY <1>1, <2>1, <2>2, <2>4
<1>12. CASE RebindExchanges
  <2>1. /\ topology' = [topology EXCEPT !.exchangeBindings = @ \cup ToSet(bindExchanges)]
        /\ ExchangesOfBindingsExist /\ UNCHANGED askedFor
    BY <1>12 DEF RebindExchanges, askedVars
  <2>2. ToSet(bindExchanges) \subseteq topology.exchanges \X topology.exchanges
    <3>1. ToSet(bindExchanges) \subseteq ExchangeBindings
      BY DEF Types, SliceTypes, ToSet
    <3>2. \A b \in ExchangeBindings : b = <<b[1], b[2]>>
      BY DEF ExchangeBindings, MadeBy
    <3> QED BY <2>1, <3>1, <3>2 DEF ExchangesOfBindingsExist
  <2> QED BY <1>1, <2>1, <2>2 DEF IsTopology, Closed
<1>13. CASE RebindQueues
  <2>1. /\ topology' = [topology EXCEPT !.queueBindings = @ \cup ToSet(Bound(bindQueues))]
        /\ EndsOfBindingsExist /\ UNCHANGED askedFor
    BY <1>13 DEF RebindQueues, askedVars
  <2>2. ToSet(Bound(bindQueues)) \subseteq topology.queues \X topology.exchanges
    <3>1. ToSet(Bound(bindQueues)) \subseteq QueueBindings \cup {NoBinding}
      BY BoundFacts DEF Types, SliceTypes, ToSet
    <3>2. \A b \in QueueBindings \cup {NoBinding} : b = <<b[1], b[2]>>
      BY DEF QueueBindings, MadeBy, NoBinding
    <3> QED BY <2>1, <3>1, <3>2 DEF EndsOfBindingsExist
  <2> QED BY <1>1, <2>1, <2>2 DEF IsTopology, Closed
<1>14. CASE StartReconnect \/ OpenChannel \/ ReplaySettings \/ RebindRefused \/ AttemptFails
            \/ UNCHANGED vars
  BY <1>8, <1>14 DEF StartReconnect, OpenChannel, ReplaySettings, RebindRefused, AttemptFails,
                     vars, askedVars, brokerVars
<1> QED BY <1>2, <1>3, <1>5, <1>6, <1>7, <1>9, <1>10, <1>11, <1>12, <1>13, <1>14
        DEF Next, Step, Redialer

\* The bindings of a slice that match are gone, and its memory stays.
LEMMA RemovalFacts ==
    ASSUME NEW S, NEW slice, IsSlice(slice, S), NEW first, NEW second, NEW new,
           new = [memory |-> MovedUp(Kept(Bound(slice), first, second), slice.memory),
                  length |-> Len(Kept(Bound(slice), first, second))]
    PROVE  /\ IsSlice(new, S)
           /\ \A b : HasBinding(Bound(new), b)
                       <=> HasBinding(Bound(slice), b) /\ ~Matches(b, first, second)
<1> DEFINE kept == Kept(Bound(slice), first, second)
<1>1. /\ slice.memory \in Seq(S) /\ slice.length \in 0 .. Len(slice.memory)
      /\ Bound(slice) \in Seq(S) /\ Len(Bound(slice)) = slice.length
  BY BoundFacts DEF IsSlice
<1>2. /\ kept \in Seq(S)
      /\ Len(kept) <= slice.length
      /\ \A b : HasBinding(kept, b) <=> HasBinding(Bound(slice), b) /\ ~Matches(b, first, second)
  BY <1>1, KeptFacts
<1> HIDE DEF kept
<1>3. /\ MovedUp(kept, slice.memory) \in Seq(S)
      /\ Len(MovedUp(kept, slice.memory)) = Len(slice.memory)
      /\ SubSeq(MovedUp(kept, slice.memory), 1, Len(kept)) = kept
  <2>1. Len(kept) <= Len(slice.memory)
    BY <1>1, <1>2
  <2> QED BY <1>1, <1>2, <2>1, MovedUpFacts
<1>4. new = [memory |-> MovedUp(kept, slice.memory), length |-> Len(kept)]
  BY DEF kept
<1>5. IsSlice(new, S)
  BY <1>1, <1>2, <1>3, <1>4 DEF IsSlice
<1>6. Bound(new) = kept
  BY <1>3, <1>4 DEF Bound
<1> QED BY <1>2, <1>5, <1>6

\* Cutting the queue bindings to another number leaves a slice of the same memory.
LEMMA CutFacts ==
    ASSUME Types, NEW slice, IsSlice(slice, QueueBindings \cup {NoBinding}),
           NEW first, NEW second, RemoveExchangeBindings(slice, first, second)
    PROVE  /\ IsSlice(bindQueues', QueueBindings \cup {NoBinding})
           /\ bindExchanges' \in Seq(ExchangeBindings)
<1> DEFINE kept == Kept(bindExchanges, first, second)
           S    == QueueBindings \cup {NoBinding}
<1>1. bindExchanges \in Seq(ExchangeBindings)
  BY DEF Types, SliceTypes
<1>2. kept \in Seq(ExchangeBindings) /\ Len(kept) <= Len(bindExchanges)
  BY <1>1, KeptFacts
<1>3. /\ bindExchanges' = MovedUp(kept, bindExchanges)
      /\ \/ Len(kept) <= Len(slice.memory) /\ bindQueues' = [slice EXCEPT !.length = Len(kept)]
         \/ bindQueues' = slice
  BY DEF RemoveExchangeBindings
<1> HIDE DEF kept, S
<1>4. bindExchanges' \in Seq(ExchangeBindings)
  BY <1>1, <1>2, <1>3, MovedUpFacts
<1>5. IsSlice(slice, S) => IsSlice(bindQueues', S)
  BY <1>2, <1>3 DEF IsSlice
<1> QED BY <1>4, <1>5 DEF S

\* What a call that returns leaves in the record: what it has made is there, what it has
\* removed is not, and the rest is as before but for the bindings an unbinding takes too.
QueuesChange(o) ==
    \A x : x \notin ServerNamed \cup {NoName} =>
       (x \in declareQueues' <=> IF ChangesQueue(o, x) THEN Makes(o) ELSE x \in declareQueues)

ExchangesChange(o) ==
    \A x : x \in declareExchanges'
              <=> IF ChangesExchange(o, x) THEN Makes(o) ELSE x \in declareExchanges

QueueBindingsChange(o) ==
    \A b : LET after == IF ChangesQueueBinding(o, b) THEN Makes(o)
                        ELSE HasBinding(Bound(bindQueues), b)
           IN  /\ HasBinding(Bound(bindQueues'), b) => after
               /\ after /\ ~Shares(o, b) => HasBinding(Bound(bindQueues'), b)

ExchangeBindingsChange(o) ==
    \A b : HasBinding(bindExchanges', b)
              <=> IF ChangesExchangeBinding(o, b) THEN Makes(o)
                  ELSE HasBinding(bindExchanges, b)

RecordsChange(o) ==
    /\ SliceTypes'
    /\ QueuesChange(o) /\ ExchangesChange(o)
    /\ ~Cuts(o) => QueueBindingsChange(o) /\ ExchangeBindingsChange(o)

LEMMA RecordFacts ==
    ASSUME Types, NEW c \in Callers, Record(c)
    PROVE  RecordsChange(op[c])
<1> DEFINE o == op[c]
           S == QueueBindings \cup {NoBinding}
<1>1. SliceTypes /\ IsSlice(bindQueues, S) /\ bindExchanges \in Seq(ExchangeBindings)
      /\ declareQueues \cap ServerNamed = {}
  BY DEF Types, SliceTypes
<1>2. Method(c) = o[1]
  BY DEF Method
<1>3. CallTypes /\ opPc[c] # "idle" /\ opPc[c] = "record"
  BY DEF Types, Record, RecordSetting, RecordDeclare, RecordBind, RecordQueueRemoval,
         RecordExchangeDelete, RecordExchangeUnbind, Return
<1>4. o[1] \in OneArgument \cup TwoArguments => o[2] # NoName
  BY <1>3, OperationOf, Arguments
<1>5. CASE RecordSetting(c)
  <2>1. o[1] \in {"Qos", "Flow", "Confirm"} /\ UNCHANGED recordVars
    BY <1>2, <1>5 DEF RecordSetting
  <2>2. /\ declareQueues' = declareQueues /\ declareExchanges' = declareExchanges
        /\ bindQueues' = bindQueues /\ bindExchanges' = bindExchanges
    BY <2>1 DEF recordVars
  <2>3. SliceTypes'
    BY <1>1, <2>2 DEF SliceTypes
  <2>4. QueuesChange(o) /\ ExchangesChange(o)
    BY <2>1, <2>2 DEF QueuesChange, ExchangesChange, ChangesQueue, ChangesExchange
  <2>5. QueueBindingsChange(o) /\ ExchangeBindingsChange(o)
    BY <2>1, <2>2 DEF QueueBindingsChange, ExchangeBindingsChange, ChangesQueueBinding,
                      ChangesExchangeBinding
  <2> QED BY <2>3, <2>4, <2>5 DEF RecordsChange
<1>6. CASE RecordDeclare(c)
  <2>1. /\ o[1] \in {"QueueDeclare", "ExchangeDeclare"}
        /\ IF o[1] = "QueueDeclare"
           THEN /\ declareQueues' = declareQueues \cup {DeclaredName(o[2])}
                /\ declareExchanges' = declareExchanges
           ELSE /\ declareExchanges' = declareExchanges \cup {o[2]}
                /\ declareQueues' = declareQueues
        /\ bindQueues' = bindQueues /\ bindExchanges' = bindExchanges
    BY <1>2, <1>6 DEF RecordDeclare
  <2>2. /\ DeclaredName(o[2]) \notin ServerNamed
        /\ \A x : x \notin ServerNamed \cup {NoName} => (x = DeclaredName(o[2]) <=> x = o[2])
    BY ConstantsAssumption DEF DeclaredName
  <2>3. SliceTypes'
    BY <1>1, <2>1, <2>2 DEF SliceTypes
  <2> HIDE DEF o
  <2>4. QueuesChange(o)
    <3>1. CASE o[1] = "QueueDeclare"
      BY <2>1, <2>2, <3>1 DEF QueuesChange, ChangesQueue, Makes
    <3>2. CASE o[1] = "ExchangeDeclare"
      BY <2>1, <3>2 DEF QueuesChange, ChangesQueue
    <3> QED BY <2>1, <3>1, <3>2
  <2>5. ExchangesChange(o)
    <3>1. CASE o[1] = "QueueDeclare"
      BY <2>1, <3>1 DEF ExchangesChange, ChangesExchange
    <3>2. CASE o[1] = "ExchangeDeclare"
      BY <2>1, <3>2 DEF ExchangesChange, ChangesExchange, Makes
    <3> QED BY <2>1, <3>1, <3>2
  <2>6. QueueBindingsChange(o) /\ ExchangeBindingsChange(o)
    BY <2>1 DEF QueueBindingsChange, ExchangeBindingsChange, ChangesQueueBinding,
                ChangesExchangeBinding
  <2> QED BY <2>3, <2>4, <2>5, <2>6 DEF RecordsChange, o
<1>7. CASE RecordBind(c)
  <2> DEFINE new == <<o[2], o[3]>>
  <2>1. /\ o[1] \in {"QueueBind", "ExchangeBind"}
        /\ IF o[1] = "QueueBind"
           THEN bindQueues' = Appended(bindQueues, new) /\ bindExchanges' = bindExchanges
           ELSE bindExchanges' = Append(bindExchanges, new) /\ bindQueues' = bindQueues
        /\ declareQueues' = declareQueues /\ declareExchanges' = declareExchanges
    BY <1>2, <1>7 DEF RecordBind
  <2>2. /\ o[1] = "QueueBind" => new \in S
        /\ o[1] = "ExchangeBind" => new \in ExchangeBindings
    BY <1>2, <1>3, BindingOf
  <2>3. o[1] = "QueueBind" =>
          /\ IsSlice(bindQueues', S)
          /\ \A b : HasBinding(Bound(bindQueues'), b)
                      <=> HasBinding(Bound(bindQueues), b) \/ b = new
    BY <1>1, <2>1, <2>2, AppendedFacts
  <2>4. o[1] = "ExchangeBind" =>
          /\ bindExchanges' \in Seq(ExchangeBindings)
          /\ \A b : HasBinding(bindExchanges', b) <=> HasBinding(bindExchanges, b) \/ b = new
    <3> HIDE DEF new, o
    <3> QED BY <1>1, <2>1, <2>2 DEF HasBinding
  <2>5. SliceTypes'
    BY <1>1, <2>1, <2>3, <2>4 DEF SliceTypes
  <2> HIDE DEF S, o
  <2>6. QueuesChange(o) /\ ExchangesChange(o)
    BY <2>1 DEF QueuesChange, ExchangesChange, ChangesQueue, ChangesExchange
  <2>7. QueueBindingsChange(o)
    BY <2>1, <2>3 DEF QueueBindingsChange, ChangesQueueBinding, Makes
  <2>8. ExchangeBindingsChange(o)
    BY <2>1, <2>4 DEF ExchangeBindingsChange, ChangesExchangeBinding, Makes
  <2> QED BY <2>5, <2>6, <2>7, <2>8 DEF RecordsChange, o
<1>8. CASE RecordQueueRemoval(c)
  <2>1. /\ o[1] \in {"QueueDelete", "QueueUnbind"}
        /\ IF o[1] = "QueueDelete"
           THEN /\ declareQueues' = declareQueues \ {o[2]}
                /\ RemoveQueueBindings(o[2], NoName)
           ELSE /\ declareQueues' = declareQueues
                /\ RemoveQueueBindings(o[2], o[3])
        /\ declareExchanges' = declareExchanges /\ bindExchanges' = bindExchanges
    BY <1>2, <1>8 DEF RecordQueueRemoval, DeclaredWithout
  <2>2. ASSUME NEW first, NEW second, RemoveQueueBindings(first, second)
        PROVE  /\ IsSlice(bindQueues', S)
               /\ \A b : HasBinding(Bound(bindQueues'), b)
                           <=> HasBinding(Bound(bindQueues), b) /\ ~Matches(b, first, second)
    BY <1>1, <2>2, RemovalFacts DEF RemoveQueueBindings
  <2>3. SliceTypes'
    BY <1>1, <2>1, <2>2 DEF SliceTypes
  <2>4. o[1] = "QueueDelete" =>
          \A b : HasBinding(Bound(bindQueues'), b)
                   <=> HasBinding(Bound(bindQueues), b) /\ b[1] # o[2]
    <3>1. o[1] = "QueueDelete" => o[2] # NoName
      BY <1>4 DEF OneArgument
    <3> QED BY <2>1, <2>2, <3>1 DEF Matches
  <2>8. o[1] = "QueueUnbind" =>
          /\ \A b : HasBinding(Bound(bindQueues'), b)
                      <=> HasBinding(Bound(bindQueues), b) /\ b[1] # o[2] /\ b[2] # o[3]
          /\ \A b : Shares(o, b) <=> b[1] = o[2] \/ b[2] = o[3]
    <3>1. o[1] = "QueueUnbind" => o[2] # NoName /\ o[3] # NoName
      BY <1>3, OperationOf, Arguments DEF TwoArguments
    <3> QED BY <2>1, <2>2, <3>1 DEF Matches, Shares
  <2> HIDE DEF o
  <2>5. QueuesChange(o) /\ ExchangesChange(o)
    BY <2>1 DEF QueuesChange, ExchangesChange, ChangesQueue, ChangesExchange, Makes
  <2>6. QueueBindingsChange(o)
    <3>1. CASE o[1] = "QueueDelete"
      BY <2>4, <3>1 DEF QueueBindingsChange, ChangesQueueBinding, Makes, Shares
    <3>2. CASE o[1] = "QueueUnbind"
      <4>1. \A b : b = <<o[2], o[3]>> => b[1] = o[2]
        OBVIOUS
      <4> QED BY <2>8, <3>2, <4>1 DEF QueueBindingsChange, ChangesQueueBinding, Makes
    <3> QED BY <2>1, <3>1, <3>2
  <2>7. ~Cuts(o) => ExchangeBindingsChange(o)
    BY <2>1 DEF Cuts, ExchangeBindingsChange, ChangesExchangeBinding
  <2> QED BY <2>3, <2>5, <2>6, <2>7 DEF RecordsChange, o
<1>9. CASE RecordExchangeDelete(c)
  <2>1. /\ o[1] = "ExchangeDelete"
        /\ declareExchanges' = declareExchanges \ {o[2]}
        /\ declareQueues' = declareQueues
        /\ \E new : /\ new = [memory |-> MovedUp(Kept(Bound(bindQueues), NoName, o[2]),
                                                bindQueues.memory),
                             length |-> Len(Kept(Bound(bindQueues), NoName, o[2]))]
                    /\ RemoveExchangeBindings(new, o[2], o[2])
    BY <1>2, <1>9 DEF RecordExchangeDelete
  <2>2. IsSlice(bindQueues', S) /\ bindExchanges' \in Seq(ExchangeBindings)
    BY <1>1, <2>1, RemovalFacts, CutFacts
  <2>3. SliceTypes'
    BY <1>1, <2>1, <2>2 DEF SliceTypes
  <2> HIDE DEF o
  <2>4. QueuesChange(o) /\ ExchangesChange(o)
    BY <2>1 DEF QueuesChange, ExchangesChange, ChangesQueue, ChangesExchange, Makes
  <2> QED BY <2>1, <2>3, <2>4 DEF RecordsChange, Cuts, o
<1>10. CASE RecordExchangeUnbind(c)
  <2>1. /\ o[1] = "ExchangeUnbind"
        /\ declareExchanges' = declareExchanges /\ declareQueues' = declareQueues
        /\ RemoveExchangeBindings(bindQueues, o[2], o[3])
    BY <1>2, <1>10 DEF RecordExchangeUnbind
  <2>2. IsSlice(bindQueues', S) /\ bindExchanges' \in Seq(ExchangeBindings)
    BY <1>1, <2>1, CutFacts
  <2>3. SliceTypes'
    BY <1>1, <2>1, <2>2 DEF SliceTypes
  <2> HIDE DEF o
  <2>4. QueuesChange(o) /\ ExchangesChange(o)
    BY <2>1 DEF QueuesChange, ExchangesChange, ChangesQueue, ChangesExchange, Makes
  <2> QED BY <2>1, <2>3, <2>4 DEF RecordsChange, Cuts, o
<1> QED BY <1>5, <1>6, <1>7, <1>8, <1>9, <1>10 DEF Record

\* What the steps but those of the broker's answer and of the return leave alone.
RecordStays ==
    /\ UNCHANGED <<declareQueues, declareExchanges, bindQueues, bindExchanges>>
    /\ UNCHANGED <<qosArgs, active, confirmsOn, asked, askedFor, raced, cut, taken>>
    /\ \A c \in Callers : Records(c)' <=> Records(c)
    /\ \A c \in Callers : Records(c) => op'[c] = op[c]

LEMMA StepKinds ==
    ASSUME CallTypes, [Next]_vars
    PROVE  \/ \E c \in Callers : BrokerDoes(c) \/ Record(c)
           \/ RecordStays
<1> USE DEF RecordStays, Records, recordVars, settingVars, askedVars, noteVars
<1>1. ASSUME NEW c \in Callers, Call(c)
      PROVE  RecordStays
  <2>1. /\ opPc[c] = "idle" /\ opPc' = [opPc EXCEPT ![c] = "called"]
        /\ \E o : op' = [op EXCEPT ![c] = o]
    BY <1>1 DEF Call
  <2>2. ASSUME NEW d \in Callers
        PROVE  (Records(d)' <=> Records(d)) /\ (Records(d) => op'[d] = op[d])
    BY <2>1 DEF CallTypes
  <2> QED BY <1>1, <2>2 DEF Call
<1>2. ASSUME NEW c \in Callers, BrokerRefuses(c)
      PROVE  RecordStays
  <2>1. /\ opPc[c] = "called" /\ opPc' = [opPc EXCEPT ![c] = "idle"]
        /\ op' = [op EXCEPT ![c] = NoOp]
    BY <1>2 DEF BrokerRefuses
  <2>2. ASSUME NEW d \in Callers
        PROVE  (Records(d)' <=> Records(d)) /\ (Records(d) => op'[d] = op[d])
    BY <2>1 DEF CallTypes
  <2> QED BY <1>2, <2>2 DEF BrokerRefuses
<1>3. ASSUME NEW c \in Callers, ReplyLost(c)
      PROVE  RecordStays
  BY <1>3 DEF ReplyLost, opVars
<1>4. CASE Redialer
  BY <1>4 DEF Redialer, StartReconnect, OpenChannel, ReplaySettings, RedeclareQueues,
              RedeclareExchanges, RebindExchanges, RebindQueues, RebindRefused, opVars
<1>5. CASE AttemptFails \/ ChannelDies \/ OthersDelete \/ UNCHANGED vars
  BY <1>5 DEF AttemptFails, ChannelDies, OthersDelete, vars, opVars
<1> QED BY <1>1, <1>2, <1>3, <1>4, <1>5 DEF Next, Step

LEMMA TypesNext ==
    ASSUME Types, [Next]_vars
    PROVE  Types'
<1>1. SliceTypes /\ CallTypes
  BY DEF Types
<1>2. ASSUME UNCHANGED <<declareQueues, bindQueues, bindExchanges>>
      PROVE  SliceTypes'
  BY <1>1, <1>2 DEF SliceTypes
<1>3. ASSUME NEW c \in Callers, BrokerDoes(c)
      PROVE  SliceTypes'
  BY <1>2, <1>3 DEF BrokerDoes, recordVars
<1>4. ASSUME NEW c \in Callers, Record(c)
      PROVE  SliceTypes'
  BY <1>4, RecordFacts DEF RecordsChange
<1>5. ASSUME RecordStays PROVE SliceTypes'
  BY <1>2, <1>5 DEF RecordStays
<1>6. SliceTypes'
  BY <1>1, <1>3, <1>4, <1>5, StepKinds
<1> QED BY <1>6, CallTypesNext, PhaseTypesNext, SettingTypesNext, TopologyTypesNext DEF Types

\* The record has the types above, and nobody records during a reconnection: the locks of
\* the transport order the calls and the handlers (channelHandlersBuilder.go, RLock of each
\* call; routeDeclaration.go:385).
THEOREM ChannelReplayTypeCorrect == Spec => []TypeOK
<1>1. Types /\ [Next]_vars => Types'
  BY TypesNext
<1>2. Spec => []Types
  BY <1>1, TypesInit, PTL DEF Spec
<1> QED BY <1>2, TypesGiveTypeOK, PTL

-----------------------------------------------------------------------------
(***************************************************************************)
(* Calls that are recorded at once.                                        *)
(***************************************************************************)

\* What the answer of the broker and the return do to the callers.
LEMMA BrokerDoesCallers ==
    ASSUME CallTypes, NEW c \in Callers, BrokerDoes(c)
    PROVE  /\ Called(c) /\ IsOperation(op[c]) /\ op' = op
           /\ \A d \in Callers : Records(d)' <=> Records(d) \/ d = c
           /\ \A d \in Callers : Called(d)' <=> Called(d) /\ d # c
           /\ ~raced' => /\ ~raced
                         /\ \A d \in Callers : d # c /\ Records(d) => ~Overlap(op[c], op[d])
           /\ ~cut' => ~cut /\ ~Cuts(op[c])
           /\ \A b : b \in askedFor.queueBindings /\ Shares(op[c], b) => b \in taken'
           /\ \A b : b \in taken =>
                b \in taken' \/ (ChangesQueueBinding(op[c], b) /\ Makes(op[c]))
<1>1. opPc[c] = "called" /\ opPc' = [opPc EXCEPT ![c] = "record"] /\ op' = op
  BY DEF BrokerDoes
<1>2. IsOperation(op[c])
  BY <1>1, OperationOf
<1>3. \A d \in Callers : /\ Records(d)' <=> Records(d) \/ d = c
                         /\ Called(d)' <=> Called(d) /\ d # c
  BY <1>1 DEF Records, Called, CallTypes
<1>4. ~raced' => /\ ~raced
                 /\ \A d \in Callers : d # c /\ Records(d) => ~Overlap(op[c], op[d])
  BY DEF BrokerDoes, Records
<1>5. ~cut' => ~cut /\ ~Cuts(op[c])
  BY DEF BrokerDoes, Cuts, Method
<1>6. taken' = IF op[c][1] = "QueueBind" THEN taken \ {<<op[c][2], op[c][3]>>}
               ELSE taken \cup {b \in askedFor.queueBindings : Shares(op[c], b)}
  BY DEF BrokerDoes, Method
<1>7. /\ \A b : b \in askedFor.queueBindings /\ Shares(op[c], b) => b \in taken'
      /\ \A b : b \in taken =>
           b \in taken' \/ (ChangesQueueBinding(op[c], b) /\ Makes(op[c]))
  BY <1>6 DEF Shares, ChangesQueueBinding, Makes
<1> QED BY <1>1, <1>2, <1>3, <1>4, <1>5, <1>7 DEF Called

LEMMA RecordCallers ==
    ASSUME CallTypes, NEW c \in Callers, Record(c)
    PROVE  /\ Records(c) /\ IsOperation(op[c])
           /\ \A d \in Callers : Records(d)' <=> Records(d) /\ d # c
           /\ \A d \in Callers : Called(d)' <=> Called(d)
           /\ \A d \in Callers : d # c => op'[d] = op[d]
           /\ UNCHANGED <<settings, topology, asked, askedFor, live, reconnectPc, raced,
                          cut, taken, othersRemoved>>
<1>1. Return(c)
  BY DEF Record, RecordSetting, RecordDeclare, RecordBind, RecordQueueRemoval,
         RecordExchangeDelete, RecordExchangeUnbind
<1>2. /\ opPc[c] = "record" /\ opPc' = [opPc EXCEPT ![c] = "idle"]
      /\ op' = [op EXCEPT ![c] = NoOp]
  BY <1>1 DEF Return
<1>3. ASSUME NEW d \in Callers
      PROVE  /\ Records(d)' <=> Records(d) /\ d # c
             /\ Called(d)' <=> Called(d)
             /\ d # c => op'[d] = op[d]
  BY <1>2 DEF Records, Called, CallTypes
<1>4. IsOperation(op[c])
  BY <1>2, OperationOf
<1> QED BY <1>1, <1>2, <1>3, <1>4 DEF Return, brokerVars, askedVars, channelVars, Records

LEMMA ApartNext ==
    ASSUME Types, ApartInv, [Next]_vars
    PROVE  ApartInv'
<1>1. CallTypes
  BY DEF Types
<1>2. ASSUME NEW c \in Callers, BrokerDoes(c)
      PROVE  ApartInv'
  <2>1. /\ op' = op
        /\ \A d \in Callers : Records(d)' <=> Records(d) \/ d = c
        /\ ~raced' => /\ ~raced
                      /\ \A d \in Callers : d # c /\ Records(d) => ~Overlap(op[c], op[d])
    BY <1>1, <1>2, BrokerDoesCallers
  <2>2. \A d \in Callers : d # c /\ Records(d) /\ Method(c) = "Flow" => Method(d) # "Flow"
    BY <1>2 DEF BrokerDoes, FlowLockFree, Records
  <2>3. \A o, p : Overlap(o, p) <=> Overlap(p, o)
    BY DEF Overlap
  <2>4. ASSUME NEW d \in Callers, NEW e \in Callers, d # e, Records(d)', Records(e)'
        PROVE  /\ ~raced' => ~Overlap(op[d], op[e])
               /\ ~(Method(d) = "Flow" /\ Method(e) = "Flow")
    <3>1. CASE d = c
      BY <2>1, <2>2, <2>4, <3>1
    <3>2. CASE e = c
      BY <2>1, <2>2, <2>3, <2>4, <3>2
    <3>3. CASE d # c /\ e # c
      BY <2>1, <2>4, <3>3 DEF ApartInv
    <3> QED BY <3>1, <3>2, <3>3
  <2> QED BY <2>1, <2>4 DEF ApartInv, Method
<1>3. ASSUME NEW c \in Callers, Record(c)
      PROVE  ApartInv'
  <2>1. /\ \A d \in Callers : Records(d)' <=> Records(d) /\ d # c
        /\ \A d \in Callers : d # c => op'[d] = op[d]
        /\ raced' = raced
    BY <1>1, <1>3, RecordCallers
  <2> QED BY <2>1 DEF ApartInv, Method
<1>4. CASE RecordStays
  BY <1>4 DEF RecordStays, ApartInv, Method
<1> QED BY <1>1, <1>2, <1>3, <1>4, StepKinds

-----------------------------------------------------------------------------
(***************************************************************************)
(* The settings.                                                           *)
(***************************************************************************)

LEMMA SettingsKeptNext ==
    ASSUME Types, ApartInv, SettingsKept, [Next]_vars
    PROVE  SettingsKept'
<1>1. CallTypes /\ IsSettings(asked) /\ confirmsOn \in BOOLEAN /\ asked.confirms \in BOOLEAN
  BY DEF Types, SettingTypes
<1>2. ASSUME NEW c \in Callers, BrokerDoes(c)
      PROVE  SettingsKept'
  <2>1. /\ op' = op
        /\ \A d \in Callers : Records(d)' <=> Records(d) \/ d = c
        /\ ~raced' => /\ ~raced
                      /\ \A d \in Callers : d # c /\ Records(d) => ~Overlap(op[c], op[d])
    BY <1>1, <1>2, BrokerDoesCallers
  <2>2. \A d \in Callers : d # c /\ Records(d) /\ Method(c) = "Flow" => Method(d) # "Flow"
    BY <1>2 DEF BrokerDoes, FlowLockFree, Records
  <2>3. /\ asked'.flow = IF Method(c) = "Flow" THEN op[c][2] ELSE asked.flow
        /\ asked'.confirms = IF Method(c) = "Confirm" THEN TRUE ELSE asked.confirms
        /\ asked'.qos = IF Method(c) = "Qos" THEN op[c][2] ELSE asked.qos
    <3>1. asked' = AfterSetting(asked, op[c])
      BY <1>2 DEF BrokerDoes
    <3> QED BY <1>1, <3>1 DEF AfterSetting, IsSettings, Method
  <2>4. UNCHANGED <<qosArgs, active, confirmsOn>>
    BY <1>2 DEF BrokerDoes, settingVars
  <2>5. \A d \in Callers :
           d # c /\ Records(d) /\ ~raced' => ~(Method(c) = "Qos" /\ Method(d) = "Qos")
    BY <2>1 DEF Overlap, Method
  <2> HIDE DEF Method
  <2>6. \A d \in Callers : Method(d)' = Method(d)
    BY <2>1 DEF Method
  <2>7. ASSUME NEW d \in Callers, Records(d)'
        PROVE  /\ Method(d) = "Flow" => asked'.flow = op[d][2]
               /\ Method(d) = "Confirm" => asked'.confirms
               /\ Method(d) = "Qos" /\ ~raced' => asked'.qos = op[d][2]
    <3>1. CASE d = c
      BY <2>3, <3>1
    <3>2. CASE d # c
      BY <2>1, <2>2, <2>3, <2>5, <2>7, <3>2 DEF SettingsKept
    <3> QED BY <3>1, <3>2
  <2>8. (\A d \in Callers : Records(d)' => Method(d) # "Flow") => active = asked'.flow
    BY <2>1, <2>3 DEF SettingsKept
  <2>9. /\ (\A d \in Callers : Records(d)' => Method(d) # "Confirm")
             => confirmsOn = asked'.confirms
        /\ confirmsOn => asked'.confirms
    BY <2>1, <2>3 DEF SettingsKept
  <2>10. (\A d \in Callers : Records(d)' => Method(d) # "Qos") /\ ~raced' => qosArgs = asked'.qos
    BY <2>1, <2>3 DEF SettingsKept
  <2> QED BY <2>1, <2>4, <2>6, <2>7, <2>8, <2>9, <2>10 DEF SettingsKept
<1>3. ASSUME NEW c \in Callers, Record(c)
      PROVE  SettingsKept'
  <2>1. /\ Records(c)
        /\ \A d \in Callers : Records(d)' <=> Records(d) /\ d # c
        /\ \A d \in Callers : d # c => op'[d] = op[d]
        /\ asked' = asked /\ raced' = raced
    BY <1>1, <1>3, RecordCallers
  <2>2. /\ qosArgs' = IF Method(c) = "Qos" THEN op[c][2] ELSE qosArgs
        /\ active' = IF Method(c) = "Flow" THEN op[c][2] ELSE active
        /\ confirmsOn' = (confirmsOn \/ Method(c) = "Confirm")
    <3>1. CASE RecordSetting(c)
      BY <3>1 DEF RecordSetting
    <3>2. CASE ~RecordSetting(c)
      <4>1. /\ Method(c) \notin {"Qos", "Flow", "Confirm"}
            /\ UNCHANGED <<qosArgs, active, confirmsOn>>
        BY <1>3, <3>2 DEF Record, RecordDeclare, RecordBind, RecordQueueRemoval,
                          RecordExchangeDelete, RecordExchangeUnbind, settingVars
      <4> QED BY <1>1, <4>1
    <3> QED BY <3>1, <3>2
  <2>3. \A d \in Callers : d # c /\ Records(d) =>
           /\ ~raced => ~(Method(c) = "Qos" /\ Method(d) = "Qos")
           /\ ~(Method(c) = "Flow" /\ Method(d) = "Flow")
    BY <2>1 DEF ApartInv, Overlap, Method
  <2>4. \A d \in Callers : d # c => Method(d)' = Method(d)
    BY <2>1 DEF Method
  <2>5. \A d \in Callers : Records(d)' =>
           /\ Method(d)' = "Flow" => asked.flow = op'[d][2]
           /\ Method(d)' = "Confirm" => asked.confirms
           /\ Method(d)' = "Qos" /\ ~raced => asked.qos = op'[d][2]
    BY <2>1, <2>4 DEF SettingsKept
  <2>6. (\A d \in Callers : Records(d)' => Method(d)' # "Flow") => active' = asked.flow
    BY <2>1, <2>2, <2>3, <2>4 DEF SettingsKept
  <2>7. /\ (\A d \in Callers : Records(d)' => Method(d)' # "Confirm")
             => confirmsOn' = asked.confirms
        /\ confirmsOn' => asked.confirms
    BY <1>1, <2>1, <2>2, <2>3, <2>4 DEF SettingsKept
  <2>8. (\A d \in Callers : Records(d)' => Method(d)' # "Qos") /\ ~raced => qosArgs' = asked.qos
    BY <2>1, <2>2, <2>3, <2>4 DEF SettingsKept
  <2> QED BY <2>1, <2>5, <2>6, <2>7, <2>8 DEF SettingsKept
<1>4. CASE RecordStays
  <2>1. /\ qosArgs' = qosArgs /\ active' = active /\ confirmsOn' = confirmsOn
        /\ asked' = asked /\ raced' = raced
        /\ \A c \in Callers : Records(c)' <=> Records(c)
        /\ \A c \in Callers : Records(c) => op'[c] = op[c]
    BY <1>4 DEF RecordStays
  <2>2. \A c \in Callers : Records(c) => Method(c)' = Method(c)
    BY <2>1 DEF Method
  <2> QED BY <2>1, <2>2 DEF SettingsKept
<1> QED BY <1>1, <1>2, <1>3, <1>4, StepKinds

LEMMA SettingsSetNext ==
    ASSUME Types, SettingsKept, SettingsSet, [Next]_vars
    PROVE  SettingsSet'
<1>1. IsSettings(settings) /\ IsSettings(asked) /\ PhaseTypes
  BY DEF Types, SettingTypes
<1>2. ASSUME NEW c \in Callers, BrokerDoes(c)
      PROVE  SettingsSet'
  <2>1. /\ settings' = AfterSetting(settings, op[c])
        /\ asked' = AfterSetting(asked, op[c])
        /\ reconnectPc' = reconnectPc
        /\ ~raced' => ~raced
    BY <1>2 DEF BrokerDoes, channelVars
  <2>2. \A t : IsSettings(t) =>
          /\ AfterSetting(t, op[c]).flow = IF Method(c) = "Flow" THEN op[c][2] ELSE t.flow
          /\ AfterSetting(t, op[c]).confirms = IF Method(c) = "Confirm" THEN TRUE ELSE t.confirms
          /\ AfterSetting(t, op[c]).qos = IF Method(c) = "Qos" THEN op[c][2] ELSE t.qos
    BY DEF AfterSetting, IsSettings, Method
  <2> QED BY <1>1, <2>1, <2>2 DEF SettingsSet
<1>3. ASSUME UNCHANGED <<settings, asked, raced>>,
             reconnectPc' \in {reconnectPc, "open"} \/ reconnectPc \notin {"open", "settings"}
      PROVE  SettingsSet'
  BY <1>3 DEF SettingsSet
<1>4. ASSUME NEW c \in Callers, Record(c)
      PROVE  SettingsSet'
  BY <1>3, <1>4, RecordCallers DEF Types
<1>5. ASSUME NEW c \in Callers, Call(c) \/ BrokerRefuses(c) \/ ReplyLost(c)
      PROVE  SettingsSet'
  BY <1>3, <1>5 DEF Call, BrokerRefuses, ReplyLost, brokerVars, askedVars, channelVars, noteVars
<1>6. CASE OpenChannel
  BY <1>6 DEF OpenChannel, Redial, SettingsSet
<1>7. CASE ReplaySettings
  <2>1. /\ settings' = [qos |-> qosArgs, flow |-> active, confirms |-> confirmsOn]
        /\ reconnectPc = "settings"
        /\ UNCHANGED <<asked, raced>>
    BY <1>7 DEF ReplaySettings, Redial, askedVars, noteVars
  <2>2. \A c \in Callers : ~Records(c)
    BY <1>1, <2>1 DEF PhaseTypes, NoneRecords, Records
  <2> QED BY <2>1, <2>2 DEF SettingsKept, SettingsSet
<1>8. CASE StartReconnect \/ RedeclareQueues \/ RedeclareExchanges \/ RebindExchanges
           \/ RebindQueues \/ RebindRefused
  <2>1. UNCHANGED <<settings, asked, raced>>
    BY <1>8 DEF StartReconnect, RedeclareQueues, RedeclareExchanges, RebindExchanges,
                RebindQueues, RebindRefused, brokerVars, askedVars, noteVars
  <2>2. reconnectPc \notin {"open", "settings"}
    BY <1>8 DEF StartReconnect, RedeclareQueues, RedeclareExchanges, RebindExchanges,
                RebindQueues, RebindRefused, Redial
  <2> QED BY <1>3, <2>1, <2>2
<1>9. CASE AttemptFails \/ ChannelDies \/ OthersDelete \/ UNCHANGED vars
  <2>1. UNCHANGED <<settings, asked, raced>> /\ reconnectPc' \in {reconnectPc, "open"}
    BY <1>9 DEF AttemptFails, ChannelDies, OthersDelete, vars, brokerVars, askedVars,
                channelVars, noteVars
  <2> QED BY <1>3, <2>1
<1> QED BY <1>2, <1>4, <1>5, <1>6, <1>7, <1>8, <1>9 DEF Next, Step, Redialer

\* What the Channel keeps of Flow, Confirm and Qos is what was asked for as soon as no call
\* is being recorded, and it is replayed when none is: the read lock is held until the call
\* is recorded (flow.go:14, confirms.go:13, qos.go:15).
THEOREM SettingsAreRestored == Spec => []SettingsRestored
<1>1. Init => ApartInv /\ SettingsKept /\ SettingsSet
  <2>1. Init => \A c \in Callers : ~Records(c)
    BY DEF Init, Records
  <2>2. Init => /\ settings = Fresh /\ asked = Fresh
                /\ qosArgs = "unset" /\ active = "on" /\ confirmsOn = FALSE
                /\ asked.qos = "unset" /\ asked.flow = "on" /\ asked.confirms = FALSE
    BY DEF Init, Fresh
  <2>3. Init => ApartInv
    BY <2>1 DEF ApartInv
  <2>4. Init => SettingsKept
    BY <2>1, <2>2 DEF SettingsKept
  <2>5. Init => SettingsSet
    BY <2>2 DEF SettingsSet
  <2> QED BY <2>3, <2>4, <2>5
<1>2. Types /\ ApartInv /\ SettingsKept /\ SettingsSet /\ [Next]_vars
        => (Types /\ ApartInv /\ SettingsKept /\ SettingsSet)'
  BY TypesNext, ApartNext, SettingsKeptNext, SettingsSetNext
<1>3. SettingsSet => SettingsRestored
  BY DEF SettingsSet, SettingsRestored, Settled
<1> QED BY <1>1, <1>2, <1>3, TypesInit, PTL DEF Spec

-----------------------------------------------------------------------------
(***************************************************************************)
(* The record of the topology.                                             *)
(***************************************************************************)

LEMMA KeptAfterBrokerDoes ==
    ASSUME Types, KeptInv, NEW c \in Callers, BrokerDoes(c)
    PROVE  KeptInv'
<1> SUFFICES ASSUME ~raced'
             PROVE  /\ MadeAsAsked' /\ QueuesKept' /\ ExchangesKept'
                    /\ ~cut' => (BoundAsAsked /\ QueueBindingsKept /\ ExchangeBindingsKept)'
  BY DEF KeptInv
<1>1. CallTypes /\ IsTopology(askedFor)
  BY DEF Types, TopologyTypes
<1>2. /\ IsOperation(op[c]) /\ op' = op
      /\ \A d \in Callers : Records(d)' <=> Records(d) \/ d = c
      /\ ~raced
      /\ \A d \in Callers : d # c /\ Records(d) => ~Overlap(op[c], op[d])
      /\ ~cut' => ~cut /\ ~Cuts(op[c])
      /\ \A b : b \in askedFor.queueBindings /\ Shares(op[c], b) => b \in taken'
      /\ \A b : b \in taken =>
           b \in taken' \/ (ChangesQueueBinding(op[c], b) /\ Makes(op[c]))
  BY <1>1, BrokerDoesCallers
<1>3. /\ MadeAsAsked /\ QueuesKept /\ ExchangesKept
      /\ ~cut => BoundAsAsked /\ QueueBindingsKept /\ ExchangeBindingsKept
  BY <1>2 DEF KeptInv
<1>4. /\ askedFor' = After(askedFor, op[c])
      /\ declareQueues' = declareQueues /\ declareExchanges' = declareExchanges
      /\ bindQueues' = bindQueues /\ bindExchanges' = bindExchanges
  BY DEF BrokerDoes, recordVars
<1>5. /\ \A x : x \in askedFor'.queues
                  <=> IF ChangesQueue(op[c], x) THEN Makes(op[c]) ELSE x \in askedFor.queues
      /\ \A x : x \in askedFor'.exchanges
                  <=> IF ChangesExchange(op[c], x) THEN Makes(op[c])
                      ELSE x \in askedFor.exchanges
      /\ \A b : b \in askedFor'.queueBindings
                  <=> IF ChangesQueueBinding(op[c], b) THEN Makes(op[c])
                      ELSE b \in askedFor.queueBindings
      /\ \A b : b \in askedFor'.exchangeBindings
                  <=> IF ChangesExchangeBinding(op[c], b) THEN Makes(op[c])
                      ELSE b \in askedFor.exchangeBindings
  BY <1>1, <1>4, AfterFacts
<1>6. ASSUME NEW d \in Callers, d # c, Records(d)
      PROVE  /\ \A x : ~(ChangesQueue(op[c], x) /\ ChangesQueue(op[d], x))
             /\ \A x : ~(ChangesExchange(op[c], x) /\ ChangesExchange(op[d], x))
             /\ ~Cuts(op[c]) /\ ~Cuts(op[d]) =>
                  /\ \A b : ~(ChangesQueueBinding(op[c], b) /\ ChangesQueueBinding(op[d], b))
                  /\ \A b : ~(ChangesExchangeBinding(op[c], b)
                                /\ ChangesExchangeBinding(op[d], b))
             /\ \A b : ~(Shares(op[d], b) /\ ChangesQueueBinding(op[c], b) /\ Makes(op[c]))
  <2>1. IsOperation(op[d])
    BY <1>1, <1>6, OperationOf DEF Records
  <2> QED BY <1>2, <1>6, <2>1, ChangesOverlap
<1>7. MadeAsAsked'
  <2>1. ASSUME NEW d \in Callers, Records(d)'
        PROVE  /\ \A x : ChangesQueue(op[d], x) => (x \in askedFor'.queues <=> Makes(op[d]))
               /\ \A x : ChangesExchange(op[d], x)
                           => (x \in askedFor'.exchanges <=> Makes(op[d]))
    <3>1. CASE d = c
      BY <1>5, <3>1
    <3>2. CASE d # c
      BY <1>2, <1>3, <1>5, <1>6, <2>1, <3>2 DEF MadeAsAsked
    <3> QED BY <3>1, <3>2
  <2>2. \A d \in Callers : op'[d] = op[d]
    BY <1>2
  <2> QED BY <2>1, <2>2
          DEF MadeAsAsked, ChangesQueue, ChangesExchange, Makes
<1>8. QueuesKept'
  <2>1. ASSUME NEW x, x \notin ServerNamed \cup {NoName},
               \A d \in Callers : Records(d)' => ~ChangesQueue(op[d], x)
        PROVE  x \in declareQueues <=> x \in askedFor'.queues
    BY <1>2, <1>3, <1>5, <2>1 DEF QueuesKept
  <2> QED BY <1>2, <1>4, <2>1 DEF QueuesKept, ChangesQueue
<1>9. ExchangesKept'
  <2>1. ASSUME NEW x, \A d \in Callers : Records(d)' => ~ChangesExchange(op[d], x)
        PROVE  /\ x \in declareExchanges => x \in askedFor'.exchanges
               /\ x \notin Foreign => (x \in askedFor'.exchanges => x \in declareExchanges)
    BY <1>2, <1>3, <1>5, <2>1 DEF ExchangesKept
  <2> QED BY <1>2, <1>4, <2>1 DEF ExchangesKept, ChangesExchange
<1>10. ASSUME ~cut'
       PROVE  BoundAsAsked'
  <2>1. ASSUME NEW d \in Callers, Records(d)'
        PROVE  /\ ~Cuts(op[d])
               /\ \A b : ChangesQueueBinding(op[d], b)
                           => (b \in askedFor'.queueBindings <=> Makes(op[d]))
               /\ \A b : ChangesExchangeBinding(op[d], b)
                           => (b \in askedFor'.exchangeBindings <=> Makes(op[d]))
               /\ \A b : Shares(op[d], b) /\ b \in askedFor'.queueBindings => b \in taken'
    <3>1. CASE d = c
      <4>1. \A b : Shares(op[c], b) => ~Makes(op[c])
        BY DEF Shares, Makes
      <4> QED BY <1>2, <1>5, <1>10, <3>1, <4>1
    <3>2. CASE d # c
      BY <1>2, <1>3, <1>5, <1>6, <1>10, <2>1, <3>2 DEF BoundAsAsked
    <3> QED BY <3>1, <3>2
  <2> QED BY <1>2, <2>1
          DEF BoundAsAsked, ChangesQueueBinding, ChangesExchangeBinding, Makes, Cuts, Shares
<1>11. ASSUME ~cut'
       PROVE  QueueBindingsKept' /\ ExchangeBindingsKept'
  <2>1. ASSUME NEW b, \A d \in Callers : Records(d)' => ~ChangesQueueBinding(op[d], b)
        PROVE  /\ HasBinding(Bound(bindQueues), b) => b \in askedFor'.queueBindings
               /\ b \in askedFor'.queueBindings \ taken' => HasBinding(Bound(bindQueues), b)
    BY <1>2, <1>3, <1>5, <1>11, <2>1 DEF QueueBindingsKept
  <2>2. ASSUME NEW b, \A d \in Callers : Records(d)' => ~ChangesExchangeBinding(op[d], b)
        PROVE  HasBinding(bindExchanges, b) <=> b \in askedFor'.exchangeBindings
    BY <1>2, <1>3, <1>5, <1>11, <2>2 DEF ExchangeBindingsKept
  <2>3. QueueBindingsKept'
    BY <1>2, <1>4, <2>1 DEF QueueBindingsKept, ChangesQueueBinding
  <2>4. ExchangeBindingsKept'
    BY <1>2, <1>4, <2>2 DEF ExchangeBindingsKept, ChangesExchangeBinding
  <2> QED BY <2>3, <2>4
<1> QED BY <1>7, <1>8, <1>9, <1>10, <1>11

LEMMA KeptAfterRecord ==
    ASSUME Types, KeptInv, NEW c \in Callers, Record(c)
    PROVE  KeptInv'
<1> SUFFICES ASSUME ~raced'
             PROVE  /\ MadeAsAsked' /\ QueuesKept' /\ ExchangesKept'
                    /\ ~cut' => (BoundAsAsked /\ QueueBindingsKept /\ ExchangeBindingsKept)'
  BY DEF KeptInv
<1>1. CallTypes
  BY DEF Types
<1>2. /\ Records(c)
      /\ \A d \in Callers : Records(d)' <=> Records(d) /\ d # c
      /\ \A d \in Callers : d # c => op'[d] = op[d]
      /\ askedFor' = askedFor /\ ~raced /\ cut' = cut /\ taken' = taken
  BY <1>1, RecordCallers
<1>3. /\ MadeAsAsked /\ QueuesKept /\ ExchangesKept
      /\ ~cut => BoundAsAsked /\ QueueBindingsKept /\ ExchangeBindingsKept
  BY <1>2 DEF KeptInv
<1>4. /\ QueuesChange(op[c]) /\ ExchangesChange(op[c])
      /\ ~Cuts(op[c]) => QueueBindingsChange(op[c]) /\ ExchangeBindingsChange(op[c])
  BY RecordFacts DEF RecordsChange
<1>5. MadeAsAsked'
  BY <1>2, <1>3 DEF MadeAsAsked, ChangesQueue, ChangesExchange, Makes
<1>6. QueuesKept'
  <2>1. ASSUME NEW x, x \notin ServerNamed \cup {NoName},
               \A d \in Callers : d # c /\ Records(d) => ~ChangesQueue(op[d], x)
        PROVE  x \in declareQueues' <=> x \in askedFor.queues
    <3>1. CASE ChangesQueue(op[c], x)
      BY <1>2, <1>3, <1>4, <2>1, <3>1 DEF MadeAsAsked, QueuesChange
    <3>2. CASE ~ChangesQueue(op[c], x)
      BY <1>3, <1>4, <2>1, <3>2 DEF QueuesKept, QueuesChange
    <3> QED BY <3>1, <3>2
  <2> QED BY <1>2, <2>1 DEF QueuesKept, ChangesQueue
<1>7. ExchangesKept'
  <2>1. ASSUME NEW x, \A d \in Callers : d # c /\ Records(d) => ~ChangesExchange(op[d], x)
        PROVE  /\ x \in declareExchanges' => x \in askedFor.exchanges
               /\ x \notin Foreign => (x \in askedFor.exchanges => x \in declareExchanges')
    <3>1. CASE ChangesExchange(op[c], x)
      BY <1>2, <1>3, <1>4, <2>1, <3>1 DEF MadeAsAsked, ExchangesChange
    <3>2. CASE ~ChangesExchange(op[c], x)
      BY <1>3, <1>4, <2>1, <3>2 DEF ExchangesKept, ExchangesChange
    <3> QED BY <3>1, <3>2
  <2> QED BY <1>2, <2>1 DEF ExchangesKept, ChangesExchange
<1>8. ASSUME ~cut'
      PROVE  BoundAsAsked'
  BY <1>2, <1>3, <1>8
     DEF BoundAsAsked, ChangesQueueBinding, ChangesExchangeBinding, Makes, Cuts, Shares
<1>9. ASSUME ~cut'
      PROVE  QueueBindingsKept' /\ ExchangeBindingsKept'
  <2>1. ~Cuts(op[c])
    BY <1>2, <1>3, <1>9 DEF BoundAsAsked
  <2>2. ASSUME NEW b, \A d \in Callers : d # c /\ Records(d) => ~ChangesQueueBinding(op[d], b)
        PROVE  /\ HasBinding(Bound(bindQueues'), b) => b \in askedFor.queueBindings
               /\ b \in askedFor.queueBindings \ taken => HasBinding(Bound(bindQueues'), b)
    <3>1. CASE ChangesQueueBinding(op[c], b)
      BY <1>2, <1>3, <1>4, <1>9, <2>1, <3>1 DEF BoundAsAsked, QueueBindingsChange
    <3>2. CASE ~ChangesQueueBinding(op[c], b)
      <4>1. b \in askedFor.queueBindings => (Shares(op[c], b) => b \in taken)
        BY <1>2, <1>3, <1>9 DEF BoundAsAsked
      <4> QED BY <1>2, <1>3, <1>4, <1>9, <2>1, <2>2, <3>2, <4>1
              DEF QueueBindingsKept, QueueBindingsChange
    <3> QED BY <3>1, <3>2
  <2>3. ASSUME NEW b,
               \A d \in Callers : d # c /\ Records(d) => ~ChangesExchangeBinding(op[d], b)
        PROVE  HasBinding(bindExchanges', b) <=> b \in askedFor.exchangeBindings
    <3>1. CASE ChangesExchangeBinding(op[c], b)
      BY <1>2, <1>3, <1>4, <1>9, <2>1, <3>1 DEF BoundAsAsked, ExchangeBindingsChange
    <3>2. CASE ~ChangesExchangeBinding(op[c], b)
      BY <1>2, <1>3, <1>4, <1>9, <2>1, <2>3, <3>2
         DEF ExchangeBindingsKept, ExchangeBindingsChange
    <3> QED BY <3>1, <3>2
  <2>4. QueueBindingsKept'
    BY <1>2, <2>2 DEF QueueBindingsKept, ChangesQueueBinding
  <2>5. ExchangeBindingsKept'
    BY <1>2, <2>3 DEF ExchangeBindingsKept, ChangesExchangeBinding
  <2> QED BY <2>4, <2>5
<1> QED BY <1>5, <1>6, <1>7, <1>8, <1>9

LEMMA KeptNext ==
    ASSUME Types, KeptInv, [Next]_vars
    PROVE  KeptInv'
<1>1. CASE RecordStays
  <2>1. /\ declareQueues' = declareQueues /\ declareExchanges' = declareExchanges
        /\ bindQueues' = bindQueues /\ bindExchanges' = bindExchanges
        /\ askedFor' = askedFor /\ raced' = raced /\ cut' = cut /\ taken' = taken
        /\ \A c \in Callers : Records(c)' <=> Records(c)
        /\ \A c \in Callers : Records(c) => op'[c] = op[c]
    BY <1>1 DEF RecordStays
  <2>2. MadeAsAsked => MadeAsAsked'
    BY <2>1 DEF MadeAsAsked, ChangesQueue, ChangesExchange, Makes
  <2>3. QueuesKept => QueuesKept'
    BY <2>1 DEF QueuesKept, ChangesQueue
  <2>4. ExchangesKept => ExchangesKept'
    BY <2>1 DEF ExchangesKept, ChangesExchange
  <2>5. BoundAsAsked => BoundAsAsked'
    BY <2>1 DEF BoundAsAsked, ChangesQueueBinding, ChangesExchangeBinding, Makes, Cuts, Shares
  <2>6. QueueBindingsKept => QueueBindingsKept'
    BY <2>1 DEF QueueBindingsKept, ChangesQueueBinding
  <2>7. ExchangeBindingsKept => ExchangeBindingsKept'
    BY <2>1 DEF ExchangeBindingsKept, ChangesExchangeBinding
  <2> QED BY <2>1, <2>2, <2>3, <2>4, <2>5, <2>6, <2>7 DEF KeptInv
<1>2. CallTypes
  BY DEF Types
<1> QED BY <1>1, <1>2, StepKinds, KeptAfterBrokerDoes, KeptAfterRecord

-----------------------------------------------------------------------------
(***************************************************************************)
(* The topology at the broker.                                             *)
(***************************************************************************)

\* What ThereInv says when no two calls raced and nobody else deleted an exchange.
AllThere ==
    /\ QueuesThere /\ ExchangesThere
    /\ ~cut => QueueBindingsThere /\ ExchangeBindingsThere

\* A call that the broker carries out is there and asked for.
LEMMA ThereAfterBrokerDoes ==
    ASSUME Types, AllThere, NEW c \in Callers, BrokerDoes(c)
    PROVE  AllThere'
<1>1. CallTypes /\ IsTopology(askedFor) /\ IsTopology(topology)
  BY DEF Types, TopologyTypes
<1>2. /\ op' = op
      /\ \A d \in Callers : Called(d)' <=> Called(d) /\ d # c
      /\ ~cut' => ~cut
      /\ \A b : b \in taken =>
           b \in taken' \/ (ChangesQueueBinding(op[c], b) /\ Makes(op[c]))
  BY <1>1, BrokerDoesCallers
<1>3. /\ topology' = After(topology, op[c]) /\ askedFor' = After(askedFor, op[c])
      /\ reconnectPc = "ready" /\ live /\ reconnectPc' = reconnectPc /\ live' = live
  BY DEF BrokerDoes, channelVars
<1> DEFINE o == op[c]
<1>4. /\ \A x : x \in askedFor'.queues
                  <=> IF ChangesQueue(o, x) THEN Makes(o) ELSE x \in askedFor.queues
      /\ \A x : x \in askedFor'.exchanges
                  <=> IF ChangesExchange(o, x) THEN Makes(o) ELSE x \in askedFor.exchanges
      /\ \A b : b \in askedFor'.queueBindings
                  <=> IF ChangesQueueBinding(o, b) THEN Makes(o) ELSE b \in askedFor.queueBindings
      /\ \A b : b \in askedFor'.exchangeBindings
                  <=> IF ChangesExchangeBinding(o, b) THEN Makes(o)
                      ELSE b \in askedFor.exchangeBindings
  BY <1>1, <1>3, AfterFacts
<1>5. /\ \A x : x \in topology'.queues
                  <=> IF ChangesQueue(o, x) THEN Makes(o) ELSE x \in topology.queues
      /\ \A x : x \in topology'.exchanges
                  <=> IF ChangesExchange(o, x) THEN Makes(o) ELSE x \in topology.exchanges
      /\ \A b : b \in topology'.queueBindings
                  <=> IF ChangesQueueBinding(o, b) THEN Makes(o) ELSE b \in topology.queueBindings
      /\ \A b : b \in topology'.exchangeBindings
                  <=> IF ChangesExchangeBinding(o, b) THEN Makes(o)
                      ELSE b \in topology.exchangeBindings
  BY <1>1, <1>3, AfterFacts
<1>6. /\ Settled /\ HasQueues /\ HasExchanges /\ HasExchangeBindings
      /\ Settled' /\ HasQueues' /\ HasExchanges' /\ HasExchangeBindings'
  BY <1>3 DEF Settled, HasQueues, HasExchanges, HasExchangeBindings
<1>7. QueuesThere'
  <2>1. ASSUME NEW x, x \notin ServerNamed,
               \A d \in Callers : Called(d) /\ d # c => ~ChangesQueue(op[d], x)
        PROVE  x \in topology'.queues <=> x \in askedFor'.queues
    <3>1. CASE ChangesQueue(o, x)
      BY <1>4, <1>5, <3>1
    <3>2. CASE ~ChangesQueue(o, x)
      BY <1>4, <1>5, <1>6, <2>1, <3>2 DEF AllThere, QueuesThere
    <3> QED BY <3>1, <3>2
  <2> QED BY <1>2, <2>1 DEF QueuesThere, ChangesQueue
<1>8. ExchangesThere'
  <2>1. ASSUME NEW x, \A d \in Callers : Called(d) /\ d # c => ~ChangesExchange(op[d], x)
        PROVE  x \in topology'.exchanges <=> x \in askedFor'.exchanges
    <3>1. CASE ChangesExchange(o, x)
      BY <1>4, <1>5, <3>1
    <3>2. CASE ~ChangesExchange(o, x)
      BY <1>4, <1>5, <1>6, <2>1, <3>2 DEF AllThere, ExchangesThere
    <3> QED BY <3>1, <3>2
  <2> QED BY <1>2, <2>1 DEF ExchangesThere, ChangesExchange
<1>9. ASSUME ~cut'
      PROVE  QueueBindingsThere' /\ ExchangeBindingsThere'
  <2>1. ASSUME NEW b, \A d \in Callers : Called(d) /\ d # c => ~ChangesQueueBinding(op[d], b)
        PROVE  /\ b \in topology'.queueBindings => b \in askedFor'.queueBindings
               /\ b \in askedFor'.queueBindings \ taken' => b \in topology'.queueBindings
    <3>1. CASE ChangesQueueBinding(o, b)
      BY <1>4, <1>5, <3>1
    <3>2. CASE ~ChangesQueueBinding(o, b)
      BY <1>2, <1>4, <1>5, <1>6, <1>9, <2>1, <3>2 DEF AllThere, QueueBindingsThere
    <3> QED BY <3>1, <3>2
  <2>2. ASSUME NEW b,
               \A d \in Callers : Called(d) /\ d # c => ~ChangesExchangeBinding(op[d], b)
        PROVE  b \in topology'.exchangeBindings <=> b \in askedFor'.exchangeBindings
    <3>1. CASE ChangesExchangeBinding(o, b)
      BY <1>4, <1>5, <3>1
    <3>2. CASE ~ChangesExchangeBinding(o, b)
      BY <1>2, <1>4, <1>5, <1>6, <1>9, <2>2, <3>2 DEF AllThere, ExchangeBindingsThere
    <3> QED BY <3>1, <3>2
  <2>3. QueueBindingsThere'
    BY <1>2, <2>1 DEF QueueBindingsThere, ChangesQueueBinding
  <2>4. ExchangeBindingsThere'
    BY <1>2, <2>2 DEF ExchangeBindingsThere, ChangesExchangeBinding
  <2> QED BY <2>3, <2>4
<1> QED BY <1>7, <1>8, <1>9 DEF AllThere

\* A loss leaves no more than was there, and what is foreign.
LEMMA ThereAfterLoss ==
    ASSUME Types, AllThere, NEW t, IsTopology(t), Closed(t), topology' \in AfterLoss(t),
           UNCHANGED <<askedFor, cut, taken, reconnectPc>>, reconnectPc = "ready", ~live',
           \A x : (\A c \in Callers : Called(c)' => ~ChangesQueue(op'[c], x)) =>
              /\ \A c \in Callers : Called(c) => ~ChangesQueue(op[c], x)
              /\ x \in t.queues => x \in topology.queues,
           \A x : (\A c \in Callers : Called(c)' => ~ChangesExchange(op'[c], x)) =>
              /\ \A c \in Callers : Called(c) => ~ChangesExchange(op[c], x)
              /\ x \in t.exchanges <=> x \in topology.exchanges,
           \A b \in t.queueBindings :
              (\A c \in Callers : Called(c)' => ~ChangesQueueBinding(op'[c], b)) =>
                /\ \A c \in Callers : Called(c) => ~ChangesQueueBinding(op[c], b)
                /\ b \in topology.queueBindings,
           \A b \in t.exchangeBindings :
              (\A c \in Callers : Called(c)' => ~ChangesExchangeBinding(op'[c], b)) =>
                /\ \A c \in Callers : Called(c) => ~ChangesExchangeBinding(op[c], b)
                /\ b \in topology.exchangeBindings
    PROVE  AllThere'
<1>1. /\ topology'.queues \subseteq t.queues
      /\ topology'.exchanges \subseteq t.exchanges
      /\ t.exchanges \ Fragile \subseteq topology'.exchanges
      /\ topology'.queueBindings \subseteq t.queueBindings
      /\ topology'.exchangeBindings \subseteq t.exchangeBindings
  BY AfterLossFacts
<1>2. ~Settled' /\ ~HasQueues' /\ ~HasExchanges' /\ ~HasExchangeBindings'
  BY DEF Settled, HasQueues, HasExchanges, HasExchangeBindings
<1>3. QueuesThere'
  <2>1. ASSUME NEW x, x \notin ServerNamed,
               \A c \in Callers : Called(c)' => ~ChangesQueue(op'[c], x)
        PROVE  x \in topology'.queues => x \in askedFor.queues
    BY <1>1, <2>1 DEF AllThere, QueuesThere
  <2> QED BY <1>2, <2>1 DEF QueuesThere, ChangesQueue
<1>4. ExchangesThere'
  <2>1. ASSUME NEW x, \A c \in Callers : Called(c)' => ~ChangesExchange(op'[c], x)
        PROVE  /\ x \in topology'.exchanges => x \in askedFor.exchanges
               /\ x \in Foreign /\ x \in askedFor.exchanges => x \in topology'.exchanges
    <3>1. x \in Foreign => x \notin Fragile
      BY ConstantsAssumption
    <3> QED BY <1>1, <2>1, <3>1 DEF AllThere, ExchangesThere
  <2> QED BY <1>2, <2>1 DEF ExchangesThere, ChangesExchange
<1>5. ~cut => QueueBindingsThere'
  <2>1. ASSUME NEW b, \A c \in Callers : Called(c)' => ~ChangesQueueBinding(op'[c], b),
               ~cut
        PROVE  b \in topology'.queueBindings => b \in askedFor.queueBindings
    BY <1>1, <2>1 DEF AllThere, QueueBindingsThere
  <2> QED BY <1>2, <2>1 DEF QueueBindingsThere, ChangesQueueBinding
<1>6. ~cut => ExchangeBindingsThere'
  <2>1. ASSUME NEW b, \A c \in Callers : Called(c)' => ~ChangesExchangeBinding(op'[c], b),
               ~cut
        PROVE  b \in topology'.exchangeBindings => b \in askedFor.exchangeBindings
    BY <1>1, <2>1 DEF AllThere, ExchangeBindingsThere
  <2> QED BY <1>2, <2>1 DEF ExchangeBindingsThere, ChangesExchangeBinding
<1> QED BY <1>3, <1>4, <1>5, <1>6 DEF AllThere

LEMMA ThereAfterReplyLost ==
    ASSUME Types, AllThere, NEW c \in Callers, ReplyLost(c)
    PROVE  AllThere'
<1>1. IsTopology(topology) /\ Closed(topology)
  BY DEF Types, TopologyTypes
<1>2. /\ opPc[c] = "called" /\ ~Refuses(topology, op[c])
      /\ topology' \in AfterLoss(After(topology, op[c]))
      /\ reconnectPc = "ready" /\ ~live'
      /\ UNCHANGED <<askedFor, cut, taken, reconnectPc, opPc, op>>
  BY DEF ReplyLost, askedVars, noteVars, opVars
<1> DEFINE t == After(topology, op[c])
<1>3. IsTopology(t) /\ Closed(t)
  BY <1>1, <1>2, AfterFacts, AfterClosed
<1>4. /\ \A x : ~ChangesQueue(op[c], x) => (x \in t.queues <=> x \in topology.queues)
      /\ \A x : ~ChangesExchange(op[c], x) => (x \in t.exchanges <=> x \in topology.exchanges)
      /\ \A b : ~ChangesQueueBinding(op[c], b)
                  => (b \in t.queueBindings <=> b \in topology.queueBindings)
      /\ \A b : ~ChangesExchangeBinding(op[c], b)
                  => (b \in t.exchangeBindings <=> b \in topology.exchangeBindings)
  BY <1>1, AfterFacts
<1>5. Called(c)' /\ op' = op /\ \A d \in Callers : Called(d)' <=> Called(d)
  BY <1>2 DEF Called
<1>6. topology' \in AfterLoss(t)
  BY <1>2
<1> HIDE DEF t
<1> QED BY <1>2, <1>3, <1>4, <1>5, <1>6, ThereAfterLoss

LEMMA ThereAfterBrokerRefuses ==
    ASSUME Types, AllThere, NEW c \in Callers, BrokerRefuses(c)
    PROVE  AllThere'
<1>1. CallTypes /\ IsTopology(topology) /\ Closed(topology)
  BY DEF Types, TopologyTypes
<1>2. /\ opPc[c] = "called" /\ Refuses(topology, op[c])
      /\ topology' \in AfterLoss(topology)
      /\ reconnectPc = "ready" /\ ~live'
      /\ opPc' = [opPc EXCEPT ![c] = "idle"] /\ op' = [op EXCEPT ![c] = NoOp]
      /\ UNCHANGED <<askedFor, cut, taken, reconnectPc>>
  BY DEF BrokerRefuses, askedVars, noteVars
<1>3. ASSUME NEW d \in Callers
      PROVE  (Called(d)' <=> Called(d) /\ d # c) /\ (d # c => op'[d] = op[d])
  BY <1>1, <1>2 DEF Called, CallTypes
<1>4. /\ \A x : ~ChangesQueue(op[c], x) /\ ~ChangesExchange(op[c], x)
      /\ \A b : ChangesQueueBinding(op[c], b) => b \notin topology.queueBindings
      /\ \A b : ChangesExchangeBinding(op[c], b) => b \notin topology.exchangeBindings
  <2>1. CASE op[c][1] = "QueueBind"
    BY <1>1, <1>2, <2>1 DEF Refuses, Closed, ChangesQueue, ChangesExchange,
                            ChangesQueueBinding, ChangesExchangeBinding
  <2>2. CASE op[c][1] = "ExchangeBind"
    BY <1>1, <1>2, <2>2 DEF Refuses, Closed, ChangesQueue, ChangesExchange,
                            ChangesQueueBinding, ChangesExchangeBinding
  <2> QED BY <1>2, <2>1, <2>2 DEF Refuses
<1> QED BY <1>1, <1>2, <1>3, <1>4, ThereAfterLoss

LEMMA ThereAfterChannelDies ==
    ASSUME Types, AllThere, ChannelDies
    PROVE  AllThere'
<1>1. IsTopology(topology) /\ Closed(topology)
  BY DEF Types, TopologyTypes
<1>2. /\ topology' \in AfterLoss(topology) /\ reconnectPc = "ready" /\ ~live'
      /\ UNCHANGED <<askedFor, cut, taken, reconnectPc, opPc, op>>
  BY DEF ChannelDies, askedVars, noteVars, opVars
<1>3. op' = op /\ \A d \in Callers : Called(d)' <=> Called(d)
  BY <1>2 DEF Called
<1> QED BY <1>1, <1>2, <1>3, ThereAfterLoss

\* A step that leaves the topology alone, ends no call and sets up nothing.
LEMMA ThereStays ==
    ASSUME AllThere, UNCHANGED <<topology, askedFor, cut, taken>>,
           Settled' => Settled, HasQueues' => HasQueues, HasExchanges' => HasExchanges,
           HasExchangeBindings' => HasExchangeBindings,
           \A c \in Callers : Called(c) => Called(c)' /\ op'[c] = op[c]
    PROVE  AllThere'
<1>1. QueuesThere'
  BY DEF AllThere, QueuesThere, ChangesQueue
<1>2. ExchangesThere'
  BY DEF AllThere, ExchangesThere, ChangesExchange
<1>3. ~cut => QueueBindingsThere'
  BY DEF AllThere, QueueBindingsThere, ChangesQueueBinding
<1>4. ~cut => ExchangeBindingsThere'
  BY DEF AllThere, ExchangeBindingsThere, ChangesExchangeBinding
<1> QED BY <1>1, <1>2, <1>3, <1>4 DEF AllThere

LEMMA ThereAfterCall ==
    ASSUME Types, AllThere, NEW c \in Callers, Call(c)
    PROVE  AllThere'
<1>1. /\ opPc[c] = "idle" /\ opPc' = [opPc EXCEPT ![c] = "called"]
      /\ \E o : op' = [op EXCEPT ![c] = o]
      /\ UNCHANGED <<topology, askedFor, cut, taken, live, reconnectPc>>
  BY DEF Call, brokerVars, askedVars, noteVars, channelVars
<1>2. \A d \in Callers : Called(d) => Called(d)' /\ op'[d] = op[d]
  BY <1>1 DEF Called, Types, CallTypes
<1>3. /\ Settled' <=> Settled
      /\ HasQueues' <=> HasQueues
      /\ HasExchanges' <=> HasExchanges
      /\ HasExchangeBindings' <=> HasExchangeBindings
  BY <1>1 DEF Settled, HasQueues, HasExchanges, HasExchangeBindings
<1> QED BY <1>1, <1>2, <1>3, ThereStays

LEMMA ThereAfterRecord ==
    ASSUME Types, AllThere, NEW c \in Callers, Record(c)
    PROVE  AllThere'
<1>1. /\ Records(c)
      /\ \A d \in Callers : Called(d)' <=> Called(d)
      /\ \A d \in Callers : d # c => op'[d] = op[d]
      /\ UNCHANGED <<topology, askedFor, cut, taken, live, reconnectPc>>
  BY RecordCallers DEF Types
<1>2. \A d \in Callers : Called(d) => Called(d)' /\ op'[d] = op[d]
  BY <1>1 DEF Called, Records
<1>3. /\ Settled' <=> Settled
      /\ HasQueues' <=> HasQueues
      /\ HasExchanges' <=> HasExchanges
      /\ HasExchangeBindings' <=> HasExchangeBindings
  BY <1>1 DEF Settled, HasQueues, HasExchanges, HasExchangeBindings
<1> QED BY <1>1, <1>2, <1>3, ThereStays

\* The redialer sets up queues, exchanges and bindings in the order in which they need
\* each other, from a record that has all that was asked for: nobody is recording.
LEMMA ThereAfterRedialer ==
    ASSUME Types, AllThere, KeptInv, ~raced, NoName \notin askedFor.queues,
           Redialer \/ AttemptFails
    PROVE  AllThere'
<1> USE DEF Redialer, Redial, Settled, HasQueues, HasExchanges, HasExchangeBindings
<1>1. UNCHANGED <<askedFor, opPc, op, cut, taken>>
  BY DEF StartReconnect, OpenChannel, ReplaySettings, RedeclareQueues, RedeclareExchanges,
         RebindExchanges, RebindQueues, RebindRefused, AttemptFails, askedVars, opVars, noteVars
<1>2. op' = op /\ \A c \in Callers : Called(c)' <=> Called(c)
  BY <1>1 DEF Called
<1>3. IsTopology(topology)
  BY DEF Types, TopologyTypes
<1>4. reconnectPc # "ready" => \A c \in Callers : ~Records(c)
  BY DEF Types, PhaseTypes, NoneRecords, Records
<1>5. /\ MadeAsAsked /\ QueuesKept /\ ExchangesKept
      /\ ~cut => BoundAsAsked /\ QueueBindingsKept /\ ExchangeBindingsKept
  BY DEF KeptInv
<1>6. ASSUME StartReconnect \/ OpenChannel \/ ReplaySettings \/ RebindRefused \/ AttemptFails
      PROVE  AllThere'
  <2>1. topology' = topology
    BY <1>6 DEF StartReconnect, OpenChannel, ReplaySettings, RebindRefused, AttemptFails,
                brokerVars
  <2>2. ~Settled' /\ ~HasQueues' /\ ~HasExchanges' /\ ~HasExchangeBindings'
    BY <1>6 DEF StartReconnect, OpenChannel, ReplaySettings, RebindRefused, AttemptFails
  <2> QED BY <1>1, <1>2, <2>1, <2>2, ThereStays
<1>7. ASSUME RedeclareQueues
      PROVE  AllThere'
  <2>1. /\ reconnectPc = "queues" /\ reconnectPc' = "exchanges"
        /\ topology' = [topology EXCEPT !.queues = @ \cup (declareQueues \ {NoName})]
    BY <1>7 DEF RedeclareQueues
  <2>2. /\ topology'.queues = topology.queues \cup (declareQueues \ {NoName})
        /\ topology'.exchanges = topology.exchanges
        /\ topology'.queueBindings = topology.queueBindings
        /\ topology'.exchangeBindings = topology.exchangeBindings
    BY <1>3, <2>1 DEF IsTopology
  <2>3. ~Settled' /\ ~HasExchanges' /\ ~HasExchangeBindings'
    BY <2>1
  <2>4. \A x : x \notin ServerNamed \cup {NoName}
                 => (x \in declareQueues <=> x \in askedFor.queues)
    BY <1>4, <1>5, <2>1 DEF QueuesKept
  <2> HIDE DEF Settled, HasQueues, HasExchanges, HasExchangeBindings
  <2>5. QueuesThere'
    <3>1. ASSUME NEW x, x \notin ServerNamed,
                 \A c \in Callers : Called(c) => ~ChangesQueue(op[c], x)
          PROVE  x \in topology'.queues <=> x \in askedFor.queues
      BY <2>2, <2>4, <3>1 DEF AllThere, QueuesThere
    <3> QED BY <1>1, <1>2, <3>1 DEF QueuesThere, ChangesQueue
  <2>6. ExchangesThere'
    BY <1>1, <1>2, <2>2, <2>3 DEF AllThere, ExchangesThere, ChangesExchange
  <2>7. ~cut => QueueBindingsThere'
    BY <1>1, <1>2, <2>2, <2>3 DEF AllThere, QueueBindingsThere, ChangesQueueBinding
  <2>8. ~cut => ExchangeBindingsThere'
    BY <1>1, <1>2, <2>2, <2>3 DEF AllThere, ExchangeBindingsThere, ChangesExchangeBinding
  <2> QED BY <1>1, <2>5, <2>6, <2>7, <2>8 DEF AllThere
<1>8. ASSUME RedeclareExchanges
      PROVE  AllThere'
  <2>1. /\ reconnectPc = "exchanges" /\ reconnectPc' = "exchange bindings"
        /\ topology' = [topology EXCEPT !.exchanges = @ \cup declareExchanges]
    BY <1>8 DEF RedeclareExchanges
  <2>2. /\ topology'.queues = topology.queues
        /\ topology'.exchanges = topology.exchanges \cup declareExchanges
        /\ topology'.queueBindings = topology.queueBindings
        /\ topology'.exchangeBindings = topology.exchangeBindings
    BY <1>3, <2>1 DEF IsTopology
  <2>3. ~Settled' /\ ~HasExchangeBindings' /\ HasQueues
    BY <2>1
  <2>4. \A x : /\ x \in declareExchanges => x \in askedFor.exchanges
               /\ x \notin Foreign => (x \in askedFor.exchanges => x \in declareExchanges)
    BY <1>4, <1>5, <2>1 DEF ExchangesKept
  <2> HIDE DEF Settled, HasQueues, HasExchanges, HasExchangeBindings
  <2>5. QueuesThere'
    BY <1>1, <1>2, <2>2, <2>3 DEF AllThere, QueuesThere, ChangesQueue
  <2>6. ExchangesThere'
    <3>1. ASSUME NEW x, \A c \in Callers : Called(c) => ~ChangesExchange(op[c], x)
          PROVE  x \in topology'.exchanges <=> x \in askedFor.exchanges
      BY <2>2, <2>4, <3>1 DEF AllThere, ExchangesThere
    <3> QED BY <1>1, <1>2, <3>1 DEF ExchangesThere, ChangesExchange
  <2>7. ~cut => QueueBindingsThere'
    BY <1>1, <1>2, <2>2, <2>3 DEF AllThere, QueueBindingsThere, ChangesQueueBinding
  <2>8. ~cut => ExchangeBindingsThere'
    BY <1>1, <1>2, <2>2, <2>3 DEF AllThere, ExchangeBindingsThere, ChangesExchangeBinding
  <2> QED BY <1>1, <2>5, <2>6, <2>7, <2>8 DEF AllThere
<1>9. ASSUME RebindExchanges
      PROVE  AllThere'
  <2>1. /\ reconnectPc = "exchange bindings" /\ reconnectPc' = "queue bindings"
        /\ topology' = [topology EXCEPT !.exchangeBindings = @ \cup ToSet(bindExchanges)]
    BY <1>9 DEF RebindExchanges
  <2>2. /\ topology'.queues = topology.queues
        /\ topology'.exchanges = topology.exchanges
        /\ topology'.queueBindings = topology.queueBindings
        /\ topology'.exchangeBindings = topology.exchangeBindings \cup ToSet(bindExchanges)
    BY <1>3, <2>1 DEF IsTopology
  <2>3. ~Settled' /\ HasQueues /\ HasExchanges
    BY <2>1
  <2>4. ~cut => \A b : b \in ToSet(bindExchanges) <=> b \in askedFor.exchangeBindings
    <3>1. \A b : b \in ToSet(bindExchanges) <=> HasBinding(bindExchanges, b)
      BY DEF ToSet, HasBinding
    <3>2. ~cut => \A b : HasBinding(bindExchanges, b) <=> b \in askedFor.exchangeBindings
      BY <1>4, <1>5, <2>1 DEF ExchangeBindingsKept
    <3> QED BY <3>1, <3>2
  <2> HIDE DEF Settled, HasQueues, HasExchanges, HasExchangeBindings
  <2>5. QueuesThere'
    BY <1>1, <1>2, <2>2, <2>3 DEF AllThere, QueuesThere, ChangesQueue
  <2>6. ExchangesThere'
    BY <1>1, <1>2, <2>2, <2>3 DEF AllThere, ExchangesThere, ChangesExchange
  <2>7. ~cut => QueueBindingsThere'
    BY <1>1, <1>2, <2>2, <2>3 DEF AllThere, QueueBindingsThere, ChangesQueueBinding
  <2>8. ~cut => ExchangeBindingsThere'
    <3>1. ASSUME ~cut, NEW b,
                 \A c \in Callers : Called(c) => ~ChangesExchangeBinding(op[c], b)
          PROVE  b \in topology'.exchangeBindings <=> b \in askedFor.exchangeBindings
      BY <2>2, <2>4, <3>1 DEF AllThere, ExchangeBindingsThere
    <3> QED BY <1>1, <1>2, <3>1 DEF ExchangeBindingsThere, ChangesExchangeBinding
  <2> QED BY <1>1, <2>5, <2>6, <2>7, <2>8 DEF AllThere
<1>10. ASSUME RebindQueues
       PROVE  AllThere'
  <2>1. /\ reconnectPc = "queue bindings"
        /\ topology' = [topology EXCEPT !.queueBindings = @ \cup ToSet(Bound(bindQueues))]
    BY <1>10 DEF RebindQueues
  <2>2. /\ topology'.queues = topology.queues
        /\ topology'.exchanges = topology.exchanges
        /\ topology'.queueBindings = topology.queueBindings \cup ToSet(Bound(bindQueues))
        /\ topology'.exchangeBindings = topology.exchangeBindings
    BY <1>3, <2>1 DEF IsTopology
  <2>3. HasQueues /\ HasExchanges /\ HasExchangeBindings
    BY <2>1
  <2>4. ~cut => /\ ToSet(Bound(bindQueues)) \subseteq askedFor.queueBindings
                /\ askedFor.queueBindings \ taken \subseteq ToSet(Bound(bindQueues))
    <3>1. \A b : b \in ToSet(Bound(bindQueues)) <=> HasBinding(Bound(bindQueues), b)
      BY DEF ToSet, HasBinding
    <3>2. ~cut => \A b :
            /\ HasBinding(Bound(bindQueues), b) => b \in askedFor.queueBindings
            /\ b \in askedFor.queueBindings \ taken => HasBinding(Bound(bindQueues), b)
      BY <1>4, <1>5, <2>1 DEF QueueBindingsKept
    <3> QED BY <3>1, <3>2
  <2> HIDE DEF Settled, HasQueues, HasExchanges, HasExchangeBindings
  <2>5. QueuesThere'
    BY <1>1, <1>2, <2>2, <2>3 DEF AllThere, QueuesThere, ChangesQueue
  <2>6. ExchangesThere'
    BY <1>1, <1>2, <2>2, <2>3 DEF AllThere, ExchangesThere, ChangesExchange
  <2>7. ~cut => QueueBindingsThere'
    <3>1. ASSUME ~cut, NEW b,
                 \A c \in Callers : Called(c) => ~ChangesQueueBinding(op[c], b)
          PROVE  /\ b \in topology'.queueBindings => b \in askedFor.queueBindings
                 /\ b \in askedFor.queueBindings \ taken => b \in topology'.queueBindings
      BY <2>2, <2>4, <3>1 DEF AllThere, QueueBindingsThere
    <3> QED BY <1>1, <1>2, <3>1 DEF QueueBindingsThere, ChangesQueueBinding
  <2>8. ~cut => ExchangeBindingsThere'
    BY <1>1, <1>2, <2>2, <2>3 DEF AllThere, ExchangeBindingsThere, ChangesExchangeBinding
  <2> QED BY <1>1, <2>5, <2>6, <2>7, <2>8 DEF AllThere
<1> QED BY <1>6, <1>7, <1>8, <1>9, <1>10

\* The queues that are asked for have names.
LEMMA NamesNext ==
    ASSUME Types, NoName \notin askedFor.queues, [Next]_vars
    PROVE  NoName \notin askedFor'.queues
<1>1. CallTypes /\ IsTopology(askedFor)
  BY DEF Types, TopologyTypes
<1>2. ASSUME NEW c \in Callers, BrokerDoes(c)
      PROVE  NoName \notin askedFor'.queues
  <2>1. opPc[c] # "idle" /\ askedFor' = After(askedFor, op[c])
    BY <1>2 DEF BrokerDoes
  <2>2. ~ChangesQueue(op[c], NoName)
    <3>1. op[c][1] \in OneArgument => op[c][2] # NoName
      BY <1>1, <2>1, OperationOf, Arguments
    <3> QED BY <3>1 DEF ChangesQueue, OneArgument
  <2> QED BY <1>1, <2>1, <2>2, AfterFacts
<1>3. ASSUME NEW c \in Callers, Record(c)
      PROVE  NoName \notin askedFor'.queues
  BY <1>1, <1>3, RecordCallers
<1>4. ASSUME RecordStays
      PROVE  NoName \notin askedFor'.queues
  BY <1>4 DEF RecordStays
<1> QED BY <1>1, <1>2, <1>3, <1>4, StepKinds

LEMMA ThereNext ==
    ASSUME Types, KeptInv, ThereInv, [Next]_vars
    PROVE  ThereInv'
<1>1. NoName \notin askedFor'.queues
  BY NamesNext DEF ThereInv
<1>2. SUFFICES ASSUME ~raced', ~othersRemoved' PROVE AllThere'
  BY <1>1 DEF ThereInv, AllThere
<1>3. ~raced /\ ~othersRemoved
  <2>1. raced => raced'
    <3>1. CASE RecordStays
      BY <3>1 DEF RecordStays
    <3>2. ASSUME NEW c \in Callers, BrokerDoes(c) PROVE raced => raced'
      BY <3>2 DEF BrokerDoes
    <3>3. ASSUME NEW c \in Callers, Record(c) PROVE raced => raced'
      BY <3>3, RecordCallers DEF Types
    <3>4. CallTypes
      BY DEF Types
    <3> QED BY <3>1, <3>2, <3>3, <3>4, StepKinds
  <2>2. othersRemoved => othersRemoved'
    <3>1. ASSUME NEW c \in Callers, Record(c) PROVE othersRemoved' = othersRemoved
      BY <3>1, RecordCallers DEF Types
    <3>2. ASSUME NEW c \in Callers, Call(c) \/ BrokerDoes(c) \/ BrokerRefuses(c) \/ ReplyLost(c)
          PROVE  othersRemoved' = othersRemoved
      BY <3>2 DEF Call, BrokerDoes, BrokerRefuses, ReplyLost, noteVars
    <3>3. ASSUME Redialer \/ AttemptFails \/ ChannelDies \/ UNCHANGED vars
          PROVE  othersRemoved' = othersRemoved
      BY <3>3 DEF Redialer, StartReconnect, OpenChannel, ReplaySettings, RedeclareQueues,
                  RedeclareExchanges, RebindExchanges, RebindQueues, RebindRefused,
                  AttemptFails, ChannelDies, vars, noteVars
    <3>4. OthersDelete => othersRemoved'
      BY DEF OthersDelete
    <3> QED BY <3>1, <3>2, <3>3, <3>4 DEF Next, Step
  <2> QED BY <1>2, <2>1, <2>2
<1>4. AllThere /\ NoName \notin askedFor.queues
  BY <1>3 DEF ThereInv, AllThere
<1>5. ASSUME NEW c \in Callers,
             Call(c) \/ BrokerDoes(c) \/ BrokerRefuses(c) \/ ReplyLost(c) \/ Record(c)
      PROVE  AllThere'
  BY <1>4, <1>5, ThereAfterCall, ThereAfterBrokerDoes, ThereAfterBrokerRefuses,
     ThereAfterReplyLost, ThereAfterRecord
<1>6. CASE Redialer \/ AttemptFails
  BY <1>3, <1>4, <1>6, ThereAfterRedialer
<1>7. CASE ChannelDies
  BY <1>4, <1>7, ThereAfterChannelDies
<1>8. CASE OthersDelete
  BY <1>2, <1>8 DEF OthersDelete
<1>9. CASE UNCHANGED vars
  <2>1. UNCHANGED <<topology, askedFor, cut, taken, live, reconnectPc, opPc, op>>
    BY <1>9 DEF vars, brokerVars, askedVars, noteVars, channelVars, opVars
  <2>2. /\ Settled' <=> Settled
        /\ HasQueues' <=> HasQueues
        /\ HasExchanges' <=> HasExchanges
        /\ HasExchangeBindings' <=> HasExchangeBindings
    BY <2>1 DEF Settled, HasQueues, HasExchanges, HasExchangeBindings
  <2>3. op' = op /\ \A c \in Callers : Called(c)' <=> Called(c)
    BY <2>1 DEF Called
  <2> QED BY <1>4, <2>1, <2>2, <2>3, ThereStays
<1> QED BY <1>5, <1>6, <1>7, <1>8, <1>9 DEF Next, Step

LEMMA TopologyInit ==
    ASSUME Init
    PROVE  KeptInv /\ ThereInv
<1>1. \A c \in Callers : ~Records(c) /\ ~Called(c)
  BY DEF Init, Records, Called
<1>2. /\ declareQueues = {} /\ declareExchanges = {}
      /\ topology = askedFor
      /\ askedFor.queues = {} /\ askedFor.exchanges = Foreign
      /\ askedFor.queueBindings = {} /\ askedFor.exchangeBindings = {}
  BY DEF Init, Empty
<1>3. \A b : ~HasBinding(bindExchanges, b) /\ ~HasBinding(Bound(bindQueues), b)
  <2>1. Len(bindExchanges) = 0 /\ Len(Bound(bindQueues)) = 0
    BY DEF Init, Bound
  <2> QED BY <2>1 DEF HasBinding
<1>4. KeptInv
  BY <1>1, <1>2, <1>3 DEF KeptInv, MadeAsAsked, QueuesKept, ExchangesKept, BoundAsAsked,
                          QueueBindingsKept, ExchangeBindingsKept
<1>5. ThereInv
  BY <1>2 DEF ThereInv, QueuesThere, ExchangesThere, QueueBindingsThere, ExchangeBindingsThere
<1> QED BY <1>4, <1>5

\* The queues and exchanges that were asked for come back, and no others, in however many
\* losses, failed attempts, lost replies and refused calls, unless two calls about one thing
\* overlapped, another client deleted an exchange, the server named the queue, or a call
\* panicked: the record has them once the call has returned (routeDeclaration.go:16), and the
\* handlers declare before they bind (line 393).  So do the bindings of exchanges as long as no
\* exchange and none of these bindings was removed, and then also the bindings of queues but
\* for those that share a queue or an exchange with one that was unbound.
THEOREM TopologyIsRestored == Spec => []TopologyRestored
<1>1. Types /\ KeptInv /\ ThereInv /\ [Next]_vars => (Types /\ KeptInv /\ ThereInv)'
  BY TypesNext, KeptNext, ThereNext
<1>2. ThereInv => TopologyRestored
  <2>1. SUFFICES ASSUME ThereInv, Settled, AllIdle, ~raced, ~othersRemoved
                 PROVE  /\ topology.queues \ ServerNamed = askedFor.queues \ ServerNamed
                        /\ topology.exchanges = askedFor.exchanges
                        /\ ~cut =>
                             /\ topology.exchangeBindings = askedFor.exchangeBindings
                             /\ topology.queueBindings \subseteq askedFor.queueBindings
                             /\ askedFor.queueBindings \ taken \subseteq topology.queueBindings
    BY DEF TopologyRestored
  <2>2. \A c \in Callers : ~Called(c)
    BY <2>1 DEF AllIdle, Called
  <2>3. HasQueues /\ HasExchanges /\ HasExchangeBindings
    BY <2>1 DEF HasQueues, HasExchanges, HasExchangeBindings
  <2>4. topology.queues \ ServerNamed = askedFor.queues \ ServerNamed
    BY <2>1, <2>2, <2>3 DEF ThereInv, QueuesThere
  <2>5. topology.exchanges = askedFor.exchanges
    BY <2>1, <2>2, <2>3 DEF ThereInv, ExchangesThere
  <2>6. ~cut => /\ topology.queueBindings \subseteq askedFor.queueBindings
                /\ askedFor.queueBindings \ taken \subseteq topology.queueBindings
    BY <2>1, <2>2 DEF ThereInv, QueueBindingsThere
  <2>7. ~cut => topology.exchangeBindings = askedFor.exchangeBindings
    BY <2>1, <2>2, <2>3 DEF ThereInv, ExchangeBindingsThere
  <2> QED BY <2>4, <2>5, <2>6, <2>7
<1> QED BY <1>1, <1>2, TypesInit, TopologyInit, PTL DEF Spec
=============================================================================
