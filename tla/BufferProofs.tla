---------------------------- MODULE BufferProofs ----------------------------
(***************************************************************************)
(* Proofs about Buffer, for any sets of sessions, values and nodes, any     *)
(* retention policy and all bounds: the invariants, then that Buffer        *)
(* implements BufferContract, where the reversed queue of each session,     *)
(* read backwards, is the queue that the retention policy promises.         *)
(***************************************************************************)
EXTENDS Buffer, QueueLemmas, SequenceTheorems

-----------------------------------------------------------------------------
(* The operations of the storage *)

\* q is a queue that the retention policy allows.
Fits(q) == q \in Seq(Values) /\ (retention.keep # KeepAll => Len(q) <= retention.limit)

PolicyOK == retention \in Retention

LEMMA Policy ==
    ASSUME PolicyOK
    PROVE  /\ retention.keep \in {KeepAll, KeepFirst, KeepLast} /\ retention.limit \in Nat
           /\ retention.keep = KeepFirst => retention.limit > 0
BY BufferAssumption DEF PolicyOK, Policies

LEMMA PushFits ==
    ASSUME PolicyOK, NEW q, Fits(q), NEW v \in Values
    PROVE  Fits(ImplPush(q, retention, v).queue)
<1> USE Policy DEF Fits, ImplPush, Full, Outcome, WithoutOldest, Front
<1>1. CASE retention.keep = KeepAll
  <2>1. ImplPush(q, retention, v).queue = <<v>> \o q
    BY <1>1 DEF KeepAll, KeepFirst, KeepLast
  <2> QED
    BY <1>1, <2>1
<1>2. CASE retention.keep = KeepFirst
  <2>1. CASE Len(q) >= retention.limit
    BY <1>2, <2>1 DEF KeepAll, KeepFirst
  <2>2. CASE Len(q) < retention.limit
    <3>1. ImplPush(q, retention, v).queue = <<v>> \o q
      BY <1>2, <2>2 DEF KeepAll, KeepFirst, KeepLast
    <3> QED
      BY <2>2, <3>1
  <2> QED
    BY <2>1, <2>2
<1>3. CASE retention.keep = KeepLast
  <2>1. CASE retention.limit = 0
    BY <1>3, <2>1 DEF KeepAll, KeepFirst, KeepLast
  <2>2. CASE retention.limit > 0 /\ Len(q) >= retention.limit
    <3>1. Len(q) = retention.limit /\ q # <<>>
      BY <1>3, <2>2 DEF KeepAll, KeepLast
    <3>2. Front(q) \in Seq(Values) /\ Len(Front(q)) = Len(q) - 1
      BY <3>1
    <3>3. ImplPush(q, retention, v).queue = <<v>> \o Front(q)
      BY <1>3, <2>2 DEF KeepAll, KeepFirst, KeepLast
    <3> QED
      BY <3>1, <3>2, <3>3
  <2>3. CASE retention.limit > 0 /\ Len(q) < retention.limit
    <3>1. ImplPush(q, retention, v).queue = <<v>> \o q
      BY <1>3, <2>3 DEF KeepAll, KeepFirst, KeepLast
    <3> QED
      BY <2>3, <3>1
  <2> QED
    BY <2>1, <2>2, <2>3
<1> QED
  BY <1>1, <1>2, <1>3

LEMMA PushAsOldestFits ==
    ASSUME PolicyOK, NEW q, Fits(q), NEW v \in Values
    PROVE  Fits(ImplPushAsOldest(q, retention, v).queue)
<1> USE Policy DEF Fits, ImplPushAsOldest, Full, Outcome, WithoutNewest
<1>1. CASE retention.keep = KeepAll
  BY <1>1 DEF KeepAll, KeepFirst, KeepLast
<1>2. CASE retention.keep = KeepFirst
  BY <1>2 DEF KeepAll, KeepFirst, KeepLast
<1>3. CASE retention.keep = KeepLast
  BY <1>3 DEF KeepAll, KeepFirst, KeepLast
<1> QED
  BY <1>1, <1>2, <1>3

LEMMA TakeFits ==
    ASSUME PolicyOK, NEW q, Fits(q)
    PROVE  Fits(Pull(q).queue) /\ Fits(PullNewest(q).queue)
BY Policy DEF Fits, Pull, PullNewest, Outcome, WithoutOldest, WithoutNewest, Front

LEMMA SetFits ==
    ASSUME PolicyOK, NEW q, Fits(q), NEW v \in Values
    PROVE  Fits(SetNewest(q, v)) /\ Fits(SetOldest(q, v))
BY Policy DEF Fits, SetNewest, SetOldest, WithoutOldest, WithoutNewest, Front

LEMMA DrainFits ==
    ASSUME PolicyOK, NEW q, Fits(q), NEW from \in 1..Len(q), NEW to \in 1..Len(q), from <= to
    PROVE  Fits(Drain(q, from, to).queue)
<1> DEFINE a == SubSeq(q, 1, from - 1)
           b == SubSeq(q, to + 1, Len(q))
<1>1. Drain(q, from, to).queue = a \o b
  BY DEF Drain, Outcome
<1>2. a \in Seq(Values) /\ b \in Seq(Values) /\ Len(a) = from - 1 /\ Len(b) = Len(q) - to
  BY DEF Fits
<1>3. Len(q) \in Nat /\ (retention.keep # KeepAll => Len(q) <= retention.limit)
  BY DEF Fits
<1> HIDE DEF a, b
<1>4. a \o b \in Seq(Values) /\ Len(a \o b) = Len(a) + Len(b)
  BY <1>2
<1>5. Len(a \o b) <= Len(q)
  BY <1>2, <1>3, <1>4
<1> DEFINE d == a \o b
<1>6. d \in Seq(Values) /\ Len(d) \in Nat /\ (retention.keep # KeepAll => Len(d) <= retention.limit)
  BY <1>3, <1>4, <1>5, Policy
<1> HIDE DEF d
<1> QED
  BY <1>1, <1>6 DEF Fits, d

\* What a cleanup stores, one input after another (StoredUpTo).
StorageOK ==
    /\ PolicyOK
    /\ storage \in [Sessions -> Seq(Values) \cup {None}]
    /\ \A s \in Sessions : retention.keep # KeepAll => Len(Queue(s)) <= retention.limit
    /\ input \in [Sessions -> Seq(Values)]

LEMMA QueueFits ==
    ASSUME StorageOK, NEW s \in Sessions
    PROVE  Fits(Queue(s))
BY DEF StorageOK, Queue, Fits

LEMMA StoredStep ==
    ASSUME StorageOK, NEW s \in Sessions
    PROVE  /\ StoredUpTo(s)[0] = Queue(s)
           /\ \A i \in 1..Len(input[s]) :
                 /\ Fits(StoredUpTo(s)[i - 1])
                 /\ StoredUpTo(s)[i] =
                       ForcePush(StoredUpTo(s)[i - 1], input[s][Len(input[s]) + 1 - i])
<1> DEFINE n == Len(input[s])
           v(i) == input[s][n + 1 - i]
           X == {q \in Seq(Values) : Fits(q)}
           step == [i \in 1..n |-> [q \in X |-> ForcePush(q, v(i))]]
           Def(f) == [i \in 0..n |-> IF i = 0 THEN Queue(s) ELSE ForcePush(f[i - 1], v(i))]
<1>1. n \in Nat /\ \A i \in 1..n : v(i) \in Values
  BY DEF StorageOK
<1>2. Queue(s) \in X
  BY QueueFits DEF Fits
<1>3. step \in StepsIn(n, X)
  <2>1. ASSUME NEW i \in 1..n, NEW q \in X PROVE ForcePush(q, v(i)) \in X
    <3>1. Fits(ForcePush(q, v(i)))
      BY <1>1, PushFits DEF ForcePush, StorageOK
    <3> QED
      BY <3>1 DEF Fits
  <2> HIDE DEF n, v, X
  <2> QED
    BY <2>1 DEF StepsIn
<1> HIDE DEF n, X
<1>4. PICK f : Follows(f, n, X, Queue(s), step)
  <2> HIDE DEF step
  <2> QED
    BY <1>1, <1>2, <1>3, Recursion
<1>5. f \in [0..n -> X] /\ f[0] = Queue(s) /\ \A i \in 1..n : f[i] = step[i][f[i - 1]]
  BY <1>4 DEF Follows
<1>6. \A i \in 1..n : f[i - 1] \in X /\ f[i] = ForcePush(f[i - 1], v(i))
  <2> SUFFICES ASSUME NEW i \in 1..n PROVE f[i - 1] \in X /\ f[i] = ForcePush(f[i - 1], v(i))
    OBVIOUS
  <2>1. f[i - 1] \in X
    BY <1>1, <1>5
  <2> QED
    BY <1>5, <2>1
<1> HIDE DEF step, v
<1>7. f = Def(f)
  <2>1. ASSUME NEW i \in 0..n PROVE f[i] = Def(f)[i]
    BY <1>5, <1>6
  <2>2. f = [i \in 0..n |-> f[i]] /\ DOMAIN Def(f) = 0..n /\ DOMAIN f = 0..n
    BY <1>5
  <2> QED
    BY <2>1, <2>2
<1>8. StoredUpTo(s) = CHOOSE g : g = Def(g)
  BY DEF StoredUpTo, n, v
<1> DEFINE k == StoredUpTo(s)
<1> HIDE DEF Def
<1>9. k = Def(k)
  BY <1>7, <1>8
<1> HIDE DEF k
<1>10. k[0] = Queue(s) /\ \A i \in 1..n : k[i] = ForcePush(k[i - 1], v(i))
  <2>1. k[0] = Queue(s)
    BY <1>1, <1>9 DEF Def
  <2>2. ASSUME NEW i \in 1..n PROVE k[i] = ForcePush(k[i - 1], v(i))
    <3>1. Def(k)[i] = ForcePush(k[i - 1], v(i))
      BY <1>1 DEF Def
    <3> QED
      BY <1>9, <3>1
  <2> QED
    BY <2>1, <2>2
<1> DEFINE T == {i \in 0..n : k[i] \in X}
<1>11. 0..n \subseteq T
  <2>1. 0 \in T
    BY <1>1, <1>2, <1>10
  <2>2. ASSUME NEW i \in 1..n, i - 1 \in T PROVE i \in T
    <3>1. Fits(k[i - 1])
      BY <2>2 DEF X
    <3>2. v(i) \in Values
      BY <1>1
    <3>3. Fits(ForcePush(k[i - 1], v(i)))
      BY <3>1, <3>2, PushFits DEF ForcePush, StorageOK
    <3>4. k[i] \in X
      BY <1>10, <3>3 DEF X, Fits
    <3> QED
      BY <1>1, <3>4
  <2> HIDE DEF T
  <2> QED
    BY <1>1, <2>1, <2>2, UpTo
<1>12. ASSUME NEW i \in 1..n PROVE Fits(k[i - 1])
  <2>1. k[i - 1] \in X
    BY <1>1, <1>11
  <2> QED
    BY <2>1 DEF X
<1> QED
  BY <1>10, <1>12 DEF k, n, v

LEMMA StoredFits ==
    ASSUME StorageOK, NEW s \in Sessions
    PROVE  Fits(StoredAtCleanup(s))
<1> DEFINE n == Len(input[s])
<1>1. n \in Nat /\ input[s] \in [1..n -> Values]
  BY DEF StorageOK
<1>2. CASE n = 0
  BY <1>2, StoredStep, QueueFits DEF StoredAtCleanup
<1>3. CASE n # 0
  <2>1. n \in 1..n /\ input[s][1] \in Values
    BY <1>1, <1>3
  <2>2. n + 1 - n = 1
    BY <1>1
  <2>3. Fits(StoredUpTo(s)[n - 1]) /\ StoredUpTo(s)[n] = ForcePush(StoredUpTo(s)[n - 1], input[s][1])
    BY <2>1, <2>2, StoredStep
  <2> QED
    BY <2>1, <2>3, PushFits DEF StoredAtCleanup, ForcePush, StorageOK
<1> QED
  BY <1>2, <1>3

-----------------------------------------------------------------------------
(* Type correctness *)

StoreType == StorageOK /\ \A s \in Sessions : Len(input[s]) <= MaxInputs

NodeType ==
    /\ gate \in [Sessions -> {"open", "closed", None}]
    /\ waiting \in Counters(Nodes, MaxWaiting)
    /\ keyed \in [Accessors -> SUBSET Sessions]
    /\ keys \in Counters(Accessors, MaxKeys)
    /\ leaving \in Counters(Accessors, MaxKeys)
    /\ \A a \in Accessors, s \in Sessions : InFlow(a, s) <= MaxKeys
    /\ channel \in [Sessions -> {0, 1}]
    /\ status \in [Sessions -> {"active", "cleaned", "cleared"}]
    /\ unseen \in [Listeners -> [Sessions -> {None, Silent, Told}]]

\* A BufferMut that is open has room for the notice its end may queue.
SystemType ==
    /\ mut \in Mutation \cup {NoMut}
    /\ commands \in Seq(Notice) /\ Len(commands) <= MaxCommands
    /\ mut # NoMut => Len(commands) < MaxCommands

Typed == StoreType /\ NodeType /\ SystemType

LEMMA Bounds ==
    /\ MaxInputs \in Nat /\ MaxWaiting \in Nat /\ MaxKeys \in Nat
    /\ MaxCommands \in Nat \ {0}
    /\ Listeners \subseteq Nodes /\ Joins \subseteq Listeners /\ Listens \subseteq Listeners
    /\ Accessors \subseteq Nodes /\ Listens \subseteq Accessors /\ Accesses \subseteq Accessors
    /\ Accesses \cap Listeners = {} /\ None \notin Nodes
BY BufferAssumption DEF Listeners, Nodes, Accessors

LEMMA TypedTypeOK == Typed => TypeOK
BY DEF Typed, TypeOK, StoreType, StorageOK, PolicyOK, NodeType, SystemType

LEMMA InitTyped == Init => Typed
<1> SUFFICES ASSUME Init PROVE Typed
  OBVIOUS
<1> USE DEF Init
<1>1. StoreType
  BY Policy, Bounds DEF StoreType, StorageOK, PolicyOK, Queue
<1>2. NodeType
  BY Bounds DEF NodeType, Counters, InFlow
<1>3. SystemType
  BY Bounds DEF SystemType, NoMut
<1> QED
  BY <1>1, <1>2, <1>3 DEF Typed

\* The queue of one session is replaced, or dropped.
LEMMA StoreSet ==
    ASSUME StoreType, NEW s \in Sessions, NEW q, Fits(q) \/ q = None,
           UNCHANGED <<retention, input>>, storage' = [storage EXCEPT ![s] = q]
    PROVE  StoreType'
<1>1. retention \in Retention /\ storage \in [Sessions -> Seq(Values) \cup {None}]
  BY DEF StoreType, StorageOK, PolicyOK
<1>2. storage' \in [Sessions -> Seq(Values) \cup {None}]
  BY <1>1 DEF Fits
<1>3. ASSUME NEW t \in Sessions, retention'.keep # KeepAll
      PROVE  Len(Queue(t)') <= retention'.limit
  <2>1. CASE t = s
    <3>1. Queue(t)' = IF q = None THEN <<>> ELSE q
      BY <1>1, <2>1 DEF Queue
    <3>2. 0 <= retention.limit
      BY <1>1, Policy DEF PolicyOK
    <3> QED
      BY <1>3, <3>1, <3>2 DEF Fits
  <2>2. CASE t # s
    <3>1. Queue(t)' = Queue(t)
      BY <1>1, <2>2 DEF Queue
    <3> QED
      BY <1>3, <3>1 DEF StoreType, StorageOK
  <2> QED
    BY <2>1, <2>2
<1> QED
  BY <1>1, <1>2, <1>3 DEF StoreType, StorageOK, PolicyOK

LEMMA StoreSame ==
    ASSUME StoreType, UNCHANGED <<retention, storage, input>>
    PROVE  StoreType'
BY DEF StoreType, StorageOK, PolicyOK, Queue

\* What wakes nodes keeps within the bound that it asked for.
LEMMA WokenType ==
    ASSUME NodeType, NEW s \in Sessions, NEW to \in SUBSET Nodes, MayWake(to, s)
    PROVE  Woken(to, s) \in Counters(Nodes, MaxWaiting)
<1>1. ASSUME NEW n \in to PROVE waiting[n][s] + 1 \in 0..MaxWaiting
  BY Bounds DEF NodeType, Counters, MayWake
<1>2. waiting \in [Nodes -> [Sessions -> 0..MaxWaiting]]
  BY DEF NodeType, Counters
<1> QED
  BY <1>1, <1>2 DEF Woken, Counters

LEMMA NotifyType ==
    ASSUME NodeType, NEW s \in Sessions, NEW to \in SUBSET Nodes, Notify(to, s)
    PROVE  waiting' \in Counters(Nodes, MaxWaiting)
BY WokenType DEF NodeType, Notify

LEMMA TakeType ==
    ASSUME NodeType, NEW s \in Sessions, NEW n \in Nodes, waiting[n][s] > 0, Take(n, s)
    PROVE  waiting' \in Counters(Nodes, MaxWaiting)
<1>1. waiting \in [Nodes -> [Sessions -> 0..MaxWaiting]]
  BY DEF NodeType, Counters
<1>2. waiting[n][s] - 1 \in 0..MaxWaiting
  BY <1>1, Bounds
<1> QED
  BY <1>1, <1>2 DEF Take, Counters

LEMMA SeenType ==
    ASSUME NodeType, NEW s \in Sessions, NEW l
    PROVE  /\ Seen(l, s) \in [Listeners -> [Sessions -> {None, Silent, Told}]]
           /\ Changed(l, s) \in [Listeners -> [Sessions -> {None, Silent, Told}]]
           /\ ChangedSilently(l, s) \in [Listeners -> [Sessions -> {None, Silent, Told}]]
BY DEF NodeType, Seen, Changed, ChangedSilently

LEMMA CleanBufferType ==
    ASSUME StoreType, NEW s \in Sessions, UNCHANGED retention, CleanBuffer(s)
    PROVE  StoreType'
<1>1. input \in [Sessions -> Seq(Values)] /\ \A t \in Sessions : Len(input[t]) <= MaxInputs
  BY DEF StoreType, StorageOK
<1>2. input' \in [Sessions -> Seq(Values)] /\ \A t \in Sessions : Len(input'[t]) <= MaxInputs
  BY <1>1, Bounds DEF CleanBuffer
<1>3. retention' \in Retention
  BY DEF StoreType, StorageOK, PolicyOK
<1>4. /\ storage' \in [Sessions -> Seq(Values) \cup {None}]
      /\ \A t \in Sessions : retention'.keep # KeepAll => Len(Queue(t)') <= retention'.limit
  <2>1. CASE input[s] = <<>>
    BY <2>1 DEF CleanBuffer, StoreType, StorageOK, Queue
  <2>2. CASE input[s] # <<>>
    <3>1. Fits(StoredAtCleanup(s))
      BY StoredFits DEF StoreType
    <3> DEFINE q == StoredAtCleanup(s)
    <3>2. storage' = [storage EXCEPT ![s] = q]
      BY <2>2 DEF CleanBuffer
    <3> HIDE DEF q
    <3>3. storage \in [Sessions -> Seq(Values) \cup {None}]
      BY DEF StoreType, StorageOK
    <3>4. \A t \in Sessions : Queue(t)' = IF t = s THEN (IF q = None THEN <<>> ELSE q) ELSE Queue(t)
      BY <3>2, <3>3 DEF Queue
    <3>5. q \in Seq(Values) /\ q # None /\ (retention.keep # KeepAll => Len(q) <= retention.limit)
      BY <3>1, NoneAssumption DEF q, Fits
    <3>6. storage' \in [Sessions -> Seq(Values) \cup {None}]
      BY <3>2, <3>3, <3>5
    <3> QED
      BY <3>4, <3>5, <3>6 DEF StoreType, StorageOK
  <2> QED
    BY <2>1, <2>2
<1> QED
  BY <1>2, <1>3, <1>4 DEF StoreType, StorageOK, PolicyOK

LEMMA AccessKeysType ==
    ASSUME StoreType, NodeType, NEW s \in Sessions, NEW a \in Accessors,
           GetAccessKeys(a, s), UNCHANGED <<retention, input, leaving>>
    PROVE  /\ StoreType'
           /\ keys' \in Counters(Accessors, MaxKeys)
           /\ \A b \in Accessors, t \in Sessions : InFlow(b, t)' <= MaxKeys
           /\ keyed' \in [Accessors -> SUBSET Sessions]
<1>1. StoreType'
  <2>1. CASE s \notin keyed[a] /\ storage[s] = None
    <3>1. Fits(<<>>)
      BY Policy DEF Fits, StoreType, StorageOK
    <3>2. storage' = [storage EXCEPT ![s] = <<>>]
      BY <2>1 DEF GetAccessKeys
    <3> QED
      BY <3>1, <3>2, StoreSet
  <2>2. CASE ~(s \notin keyed[a] /\ storage[s] = None)
    BY <2>2, StoreSame DEF GetAccessKeys
  <2> QED
    BY <2>1, <2>2
<1>2. keys' \in Counters(Accessors, MaxKeys)
  <2>1. keys \in [Accessors -> [Sessions -> 0..MaxKeys]]
    BY DEF NodeType, Counters
  <2>2. keys[a][s] + 1 \in 0..MaxKeys
    BY <2>1, Bounds DEF GetAccessKeys, InFlow, NodeType, Counters
  <2> QED
    BY <2>1, <2>2 DEF GetAccessKeys, Counters
<1>4. \A b \in Accessors, t \in Sessions : InFlow(b, t)' <= MaxKeys
  <2>1. keys \in [Accessors -> [Sessions -> 0..MaxKeys]]
        /\ leaving \in [Accessors -> [Sessions -> 0..MaxKeys]]
    BY DEF NodeType, Counters
  <2>2. InFlow(a, s) + 1 <= MaxKeys /\ \A b \in Accessors, t \in Sessions : InFlow(b, t) <= MaxKeys
    BY <2>1, Bounds DEF GetAccessKeys, NodeType, InFlow
  <2>3. keys' = [keys EXCEPT ![a][s] = @ + 1] /\ UNCHANGED leaving
    BY DEF GetAccessKeys
  <2> QED
    BY <2>1, <2>2, <2>3, Bounds DEF InFlow
<1>3. keyed' \in [Accessors -> SUBSET Sessions]
  BY DEF GetAccessKeys, NodeType
<1> QED
  BY <1>1, <1>2, <1>3, <1>4

\* What each call on a BufferMut has in common.
LEMMA ModifiedType ==
    ASSUME Typed, Modified
    PROVE  /\ NodeType' /\ SystemType'
           /\ mut.session \in Sessions /\ UNCHANGED <<retention, input, gate, nodeVars, commands>>
<1>1. mut \in Mutation
  BY DEF Typed, SystemType, Modified
<1>2. mut.session \in Sessions /\ mut' \in Mutation
  BY <1>1 DEF Modified, Mutation
<1>3. unseen' \in [Listeners -> [Sessions -> {None, Silent, Told}]]
  BY <1>2, SeenType DEF Typed, NodeType, Modified
<1>4. NodeType'
  BY <1>3 DEF Typed, NodeType, Modified, nodeVars, InFlow
<1>5. SystemType'
  BY <1>2 DEF Typed, SystemType, Modified
<1> QED
  BY <1>2, <1>4, <1>5 DEF Modified

LEMMA UpdateType ==
    ASSUME Typed, Modified, NEW q, Fits(q), Update(q)
    PROVE  Typed'
<1>1. mut.session \in Sessions /\ NodeType' /\ SystemType' /\ UNCHANGED <<retention, input>>
  BY ModifiedType
<1>2. StoreType'
  <2> DEFINE s == mut.session
             r == IF storage[s] = None THEN None ELSE q
  <2>1. storage' = [storage EXCEPT ![s] = r]
    BY DEF Update
  <2>2. Fits(r) \/ r = None
    OBVIOUS
  <2>3. s \in Sessions
    BY <1>1
  <2> HIDE DEF r, s
  <2> QED
    BY <1>1, <2>1, <2>2, <2>3, StoreSet DEF Typed
<1> QED
  BY <1>1, <1>2 DEF Typed

\* The actions that a system does on the queue of the BufferMut it has opened.
MutStep ==
    \/ \E v \in Values : MutPush(v) \/ MutPushAsOldest(v) \/ MutNewest(v) \/ MutOldest(v)
    \/ MutPull \/ MutPullNewest \/ Pulse
    \/ \E from, to \in 1..MaxLength : MutDrain(from, to)

LEMMA MutStepTyped ==
    ASSUME Typed, MutStep
    PROVE  Typed' /\ Modified
<1>1. PolicyOK
  BY DEF Typed, StoreType, StorageOK
<1>2. ASSUME Modified PROVE Fits(Queue(mut.session))
  BY <1>2, ModifiedType, QueueFits DEF Typed, StoreType
<1>3. ASSUME NEW v \in Values, MutPush(v) PROVE Typed' /\ Modified
  BY <1>1, <1>2, <1>3, PushFits, UpdateType DEF MutPush
<1>4. ASSUME NEW v \in Values, MutPushAsOldest(v) PROVE Typed' /\ Modified
  BY <1>1, <1>2, <1>4, PushAsOldestFits, UpdateType DEF MutPushAsOldest
<1>5. ASSUME NEW v \in Values, MutNewest(v) PROVE Typed' /\ Modified
  BY <1>1, <1>2, <1>5, SetFits, UpdateType DEF MutNewest
<1>6. ASSUME NEW v \in Values, MutOldest(v) PROVE Typed' /\ Modified
  BY <1>1, <1>2, <1>6, SetFits, UpdateType DEF MutOldest
<1>7. CASE MutPull
  BY <1>1, <1>2, <1>7, TakeFits, UpdateType DEF MutPull
<1>8. CASE MutPullNewest
  BY <1>1, <1>2, <1>8, TakeFits, UpdateType DEF MutPullNewest
<1>9. ASSUME NEW from \in 1..MaxLength, NEW to \in 1..MaxLength, MutDrain(from, to)
      PROVE  Typed' /\ Modified
  <2>1. MaxLength \in Nat
    BY BufferAssumption
  <2>2. Modified /\ Update(Drain(Queue(mut.session), from, to).queue)
    BY <1>9 DEF MutDrain
  <2>3. Fits(Queue(mut.session))
    BY <1>2, <2>2
  <2>4. from \in 1..Len(Queue(mut.session)) /\ to \in 1..Len(Queue(mut.session)) /\ from <= to
    BY <1>9, <2>1, <2>3 DEF MutDrain, Fits
  <2>5. Fits(Drain(Queue(mut.session), from, to).queue)
    BY <1>1, <2>3, <2>4, DrainFits
  <2> QED
    BY <2>2, <2>5, UpdateType
<1>10. CASE Pulse
  BY <1>10, ModifiedType, StoreSame DEF Pulse, Typed
<1> QED
  BY <1>3, <1>4, <1>5, <1>6, <1>7, <1>8, <1>9, <1>10 DEF MutStep

LEMMA StepTyped == Typed /\ [Next]_vars => Typed'
<1> SUFFICES ASSUME Typed, [Next]_vars PROVE Typed'
  OBVIOUS
<1>0. StoreType /\ NodeType /\ SystemType
  BY DEF Typed
<1> USE DEF nodeVars, systemVars, InFlow
<1>1. ASSUME NEW s \in Sessions, NEW v \in Values, Arrive(s, v) PROVE Typed'
  <2>1. StoreType'
    <3>1. Len(input[s]) < MaxInputs /\ input[s] \in Seq(Values)
      BY <1>0, <1>1 DEF Arrive, StoreType, StorageOK
    <3>2. Append(input[s], v) \in Seq(Values) /\ Len(Append(input[s], v)) <= MaxInputs
      BY <3>1, Bounds
    <3> QED
      BY <1>0, <1>1, <3>2 DEF Arrive, StoreType, StorageOK, PolicyOK, Queue
  <2> QED
    BY <1>0, <1>1, <2>1 DEF Arrive, Typed, NodeType, SystemType
<1>2. ASSUME NEW s \in Sessions, Execute(s) PROVE Typed'
  <2>1. StoreType'
    <3> DEFINE q == ForcePush(Queue(s), Head(input[s]))
    <3>1. input[s] \in Seq(Values) /\ input[s] # <<>> /\ Len(input[s]) <= MaxInputs
      BY <1>0, <1>2 DEF Execute, StoreType, StorageOK
    <3>2. Head(input[s]) \in Values /\ Tail(input[s]) \in Seq(Values) /\ Len(Tail(input[s])) <= MaxInputs
      BY <3>1, Bounds
    <3>3. Fits(q)
      BY <1>0, <3>2, QueueFits, PushFits DEF ForcePush, StoreType, StorageOK
    <3>4. storage' = [storage EXCEPT ![s] = q] /\ UNCHANGED retention
          /\ input' = [input EXCEPT ![s] = Tail(@)]
      BY <1>2 DEF Execute
    <3> HIDE DEF q
    <3>5. q \in Seq(Values) /\ q # None /\ (retention.keep # KeepAll => Len(q) <= retention.limit)
      BY <3>3, NoneAssumption DEF Fits
    <3>6. storage \in [Sessions -> Seq(Values) \cup {None}] /\ input \in [Sessions -> Seq(Values)]
      BY <1>0 DEF StoreType, StorageOK
    <3>7. \A t \in Sessions : Queue(t)' = IF t = s THEN q ELSE Queue(t)
      BY <3>4, <3>5, <3>6 DEF Queue
    <3> QED
      BY <1>0, <3>2, <3>4, <3>5, <3>6, <3>7 DEF StoreType, StorageOK, PolicyOK
  <2>2. NodeType'
    BY <1>0, <1>2, Bounds, NotifyType, SeenType DEF Execute, NodeType
  <2> QED
    BY <1>0, <1>2, <2>1, <2>2 DEF Execute, Typed, SystemType
<1>3. ASSUME NEW s \in Sessions, Collect(s) PROVE Typed'
  BY <1>0, <1>3, StoreSame DEF Collect, Typed, NodeType, SystemType
<1>4. ASSUME NEW s \in Sessions, CleanSession(s) PROVE Typed'
  <2>1. StoreType'
    BY <1>0, <1>4, CleanBufferType DEF CleanSession
  <2>2. NodeType'
    <3>1. waiting' \in Counters(Nodes, MaxWaiting)
      BY <1>0, <1>4, Bounds DEF CleanSession, NodeType, Counters
    <3>2. keyed' \in [Accessors -> SUBSET Sessions] /\ unseen' \in [Listeners -> [Sessions -> {None, Silent, Told}]]
      BY <1>0, <1>4 DEF CleanSession, NodeType
    <3> QED
      BY <1>0, <1>4, <3>1, <3>2 DEF CleanSession, NodeType
  <2> QED
    BY <1>0, <1>4, <2>1, <2>2 DEF CleanSession, Typed, SystemType
<1>5. ASSUME NEW s \in Sessions, ClearSession(s) PROVE Typed'
  <2>1. StoreType'
    BY <1>0, <1>5, StoreSet DEF ClearSession
  <2> QED
    BY <1>0, <1>5, <2>1 DEF ClearSession, Typed, NodeType, SystemType
<1>6. ASSUME NEW s \in Sessions, TrimBuffer(s) PROVE Typed'
  <2>1. StoreType'
    BY <1>0, <1>6, CleanBufferType DEF TrimBuffer
  <2>2. NodeType'
    BY <1>0, <1>6, SeenType DEF TrimBuffer, NodeType, InFlow
  <2> QED
    BY <1>0, <1>6, <2>1, <2>2 DEF TrimBuffer, Typed, SystemType
<1>7. ASSUME NEW s \in Sessions, OpenCleanupMut(s) PROVE Typed'
  <2>1. mut' \in Mutation
    BY <1>7 DEF OpenCleanupMut, Mutation
  <2>2. SystemType'
    BY <1>0, <1>7, <2>1, Bounds DEF OpenCleanupMut, NoSystem, SystemType
  <2> QED
    BY <1>0, <1>7, <2>2, StoreSame DEF OpenCleanupMut, Typed, NodeType
<1>8. ASSUME NEW s \in Sessions, NEW j \in Joins, RunJoin(j, s) PROVE Typed'
  <2>1. StoreType'
    <3>1. CASE UNCHANGED storage
      BY <1>0, <1>8, <3>1, StoreSame DEF RunJoin
    <3>2. CASE storage[s] # None /\ storage' = [storage EXCEPT ![s] = Pull(@).queue]
      <4>1. Fits(storage[s])
        BY <1>0, <3>2, QueueFits DEF Queue, StoreType
      <4>2. Fits(Pull(storage[s]).queue)
        BY <1>0, <4>1, TakeFits DEF StoreType, StorageOK
      <4> QED
        BY <1>0, <1>8, <3>2, <4>2, StoreSet DEF RunJoin
    <3> QED
      BY <1>8, <3>1, <3>2 DEF RunJoin
  <2>2. NodeType'
    <3>1. j \in Listeners /\ j \in Nodes
      BY Bounds
    <3>2. unseen' \in [Listeners -> [Sessions -> {None, Silent, Told}]]
      <4>1. ChangedSilently(Listeners, s) \in [Listeners -> [Sessions -> {None, Silent, Told}]]
        BY <1>0, SeenType
      <4>2. [ChangedSilently(Listeners, s) EXCEPT ![j][s] = None]
              \in [Listeners -> [Sessions -> {None, Silent, Told}]]
        BY <3>1, <4>1
      <4>3. unseen' = Seen(j, s) \/ unseen' = [ChangedSilently(Listeners, s) EXCEPT ![j][s] = None]
        BY <1>8 DEF RunJoin
      <4>4. Seen(j, s) \in [Listeners -> [Sessions -> {None, Silent, Told}]]
        BY <1>0, SeenType
      <4> QED
        BY <4>2, <4>3, <4>4
    <3>3. waiting' \in Counters(Nodes, MaxWaiting)
      BY <1>0, <1>8, <3>1, TakeType DEF RunJoin
    <3> QED
      BY <1>0, <1>8, <3>2, <3>3 DEF RunJoin, NodeType
  <2> QED
    BY <1>0, <1>8, <2>1, <2>2 DEF RunJoin, Typed, SystemType
<1>9. ASSUME NEW s \in Sessions, NEW l \in Listens, RunListen(l, s) PROVE Typed'
  <2>1. /\ StoreType' /\ keys' \in Counters(Accessors, MaxKeys)
        /\ keyed' \in [Accessors -> SUBSET Sessions]
        /\ \A b \in Accessors, t \in Sessions : InFlow(b, t)' <= MaxKeys
    BY <1>0, <1>9, Bounds, AccessKeysType DEF RunListen
  <2>2. NodeType'
    BY <1>0, <1>9, <2>1, Bounds, TakeType, SeenType DEF RunListen, NodeType
  <2> QED
    BY <1>0, <1>9, <2>1, <2>2 DEF RunListen, Typed, SystemType
<1>10. ASSUME NEW s \in Sessions, NEW a \in Accesses, Ask(a, s) PROVE Typed'
  <2>1. NodeType'
    BY <1>0, <1>10, Bounds, WokenType DEF Ask, NodeType
  <2> QED
    BY <1>0, <1>10, <2>1, StoreSame DEF Ask, Typed, SystemType
<1>11. ASSUME NEW s \in Sessions, NEW a \in Accesses, RunAccess(a, s) PROVE Typed'
  <2>1. /\ StoreType' /\ keys' \in Counters(Accessors, MaxKeys)
        /\ keyed' \in [Accessors -> SUBSET Sessions]
        /\ \A b \in Accessors, t \in Sessions : InFlow(b, t)' <= MaxKeys
    BY <1>0, <1>11, Bounds, AccessKeysType DEF RunAccess
  <2>2. NodeType'
    BY <1>0, <1>11, <2>1, Bounds, TakeType DEF RunAccess, NodeType
  <2> QED
    BY <1>0, <1>11, <2>1, <2>2 DEF RunAccess, Typed, SystemType
<1>12. ASSUME NEW s \in Sessions, NEW action \in {"open", "closed"}, RunGate(s, action)
       PROVE  Typed'
  <2>1. NodeType'
    BY <1>0, <1>12, Bounds, WokenType DEF RunGate, NodeType
  <2> QED
    BY <1>0, <1>12, <2>1, StoreSame DEF RunGate, Typed, SystemType
<1>13. ASSUME NEW s \in Sessions, NEW a \in Accessors, DropKey(a, s) PROVE Typed'
  <2>1. keys' \in Counters(Accessors, MaxKeys)
    <3>1. keys \in [Accessors -> [Sessions -> 0..MaxKeys]]
      BY <1>0 DEF NodeType, Counters
    <3>2. keys[a][s] - 1 \in 0..MaxKeys
      BY <1>13, <3>1, Bounds DEF DropKey
    <3> QED
      BY <1>13, <3>1, <3>2 DEF DropKey, Counters
  <2>2. leaving' \in Counters(Accessors, MaxKeys)
        /\ \A b \in Accessors, t \in Sessions : InFlow(b, t)' <= MaxKeys
    <3>1. /\ keys \in [Accessors -> [Sessions -> 0..MaxKeys]]
          /\ leaving \in [Accessors -> [Sessions -> 0..MaxKeys]]
          /\ \A b \in Accessors, t \in Sessions : InFlow(b, t) <= MaxKeys
      BY <1>0 DEF NodeType, Counters
    <3>2. /\ keys[a][s] > 0 /\ keys' = [keys EXCEPT ![a][s] = @ - 1]
          /\ leaving' = [leaving EXCEPT ![a][s] = @ + 1]
      BY <1>13 DEF DropKey
    <3>3. leaving[a][s] + 1 \in 0..MaxKeys
      BY <3>1, <3>2, Bounds DEF InFlow
    <3>4. ASSUME NEW b \in Accessors, NEW t \in Sessions PROVE InFlow(b, t)' = InFlow(b, t)
      <4>1. CASE b = a /\ t = s
        <5>1. keys'[a][s] = keys[a][s] - 1 /\ leaving'[a][s] = leaving[a][s] + 1
          BY <3>1, <3>2
        <5>2. keys[a][s] \in Nat /\ leaving[a][s] \in Nat
          BY <3>1, Bounds
        <5> QED
          BY <4>1, <5>1, <5>2 DEF InFlow
      <4>2. CASE ~(b = a /\ t = s)
        <5>1. keys'[b][t] = keys[b][t] /\ leaving'[b][t] = leaving[b][t]
          BY <3>1, <3>2, <4>2
        <5> QED
          BY <5>1 DEF InFlow
      <4> QED
        BY <4>1, <4>2
    <3> QED
      BY <3>1, <3>2, <3>3, <3>4 DEF Counters
  <2>3. NodeType'
    BY <1>0, <1>13, <2>1, <2>2 DEF DropKey, NodeType
  <2> QED
    BY <1>0, <1>13, <2>3, StoreSame DEF DropKey, Typed, SystemType
<1>22. ASSUME NEW s \in Sessions, NEW a \in Accessors, ReleaseTracker(a, s) PROVE Typed'
  <2>1. /\ keys \in [Accessors -> [Sessions -> 0..MaxKeys]]
        /\ leaving \in [Accessors -> [Sessions -> 0..MaxKeys]]
        /\ \A b \in Accessors, t \in Sessions : InFlow(b, t) <= MaxKeys
    BY <1>0 DEF NodeType, Counters
  <2>2. leaving[a][s] > 0 /\ leaving' = [leaving EXCEPT ![a][s] = @ - 1] /\ UNCHANGED keys
    BY <1>22 DEF ReleaseTracker
  <2>3. leaving[a][s] - 1 \in 0..MaxKeys
    BY <2>1, <2>2, Bounds
  <2>4. leaving' \in Counters(Accessors, MaxKeys)
    BY <2>1, <2>2, <2>3 DEF Counters
  <2>5. \A b \in Accessors, t \in Sessions : InFlow(b, t)' <= MaxKeys
    BY <2>1, <2>2, <2>3, Bounds DEF InFlow
  <2>6. NodeType'
    BY <1>0, <1>22, <2>4, <2>5 DEF ReleaseTracker, NodeType
  <2> QED
    BY <1>0, <1>22, <2>6, StoreSame DEF ReleaseTracker, Typed, SystemType
<1>14. ASSUME NEW s \in Sessions, NEW a \in Accessors, NEW allow \in BOOLEAN, OpenMut(a, s, allow)
       PROVE  Typed'
  <2>1. mut' \in Mutation
    BY <1>14 DEF OpenMut, Mutation
  <2>2. SystemType'
    BY <1>0, <1>14, <2>1 DEF OpenMut, SystemType
  <2> QED
    BY <1>0, <1>14, <2>2, StoreSame DEF OpenMut, Typed, NodeType
<1>15. ASSUME NEW s \in Sessions, NEW n \in Nodes, TrimNode(n, s) PROVE Typed'
  <2>1. NodeType'
    BY <1>0, <1>15, Bounds, SeenType DEF TrimNode, NodeType, Counters
  <2> QED
    BY <1>0, <1>15, <2>1, StoreSame DEF TrimNode, Typed, SystemType
<1>16. CASE MutStep
  BY <1>16, MutStepTyped
<1>17. CASE MutOpenGate
  <2>1. mut \in Mutation /\ mut' \in Mutation /\ mut.session \in Sessions
    BY <1>0, <1>17 DEF MutOpenGate, SystemType, Mutation
  <2>2. NodeType'
    <3>1. gate' \in [Sessions -> {"open", "closed", None}]
      BY <1>0, <1>17, <2>1 DEF MutOpenGate, NodeType
    <3>2. unseen' \in [Listeners -> [Sessions -> {None, Silent, Told}]]
      BY <1>0, <1>17, <2>1, SeenType DEF MutOpenGate, NodeType
    <3> QED
      BY <1>0, <1>17, <3>1, <3>2 DEF MutOpenGate, NodeType
  <2>3. SystemType'
    BY <1>0, <1>17, <2>1 DEF MutOpenGate, SystemType
  <2> QED
    BY <1>0, <1>17, <2>2, <2>3, StoreSame DEF MutOpenGate, Typed
<1>18. CASE MutCloseGate
  <2>1. NodeType'
    BY <1>0, <1>18 DEF MutCloseGate, NodeType
  <2> QED
    BY <1>0, <1>18, <2>1, StoreSame DEF MutCloseGate, Typed, SystemType
<1>19. CASE DropMut
  <2>1. mut \in Mutation
    BY <1>0, <1>19 DEF DropMut, SystemType
  <2>2. [accessor |-> mut.accessor, session |-> mut.session] \in Notice
    BY <2>1 DEF Mutation, Notice
  <2>3. SystemType'
    BY <1>0, <1>19, <2>2, Bounds DEF DropMut, SystemType
  <2> QED
    BY <1>0, <1>19, <2>3, StoreSame DEF DropMut, Typed, NodeType
<1>20. CASE NotifyBufferUpdate
  <2>1. Head(commands) \in Notice /\ Tail(commands) \in Seq(Notice) /\ Len(Tail(commands)) <= MaxCommands
    BY <1>0, <1>20, Bounds DEF NotifyBufferUpdate, SystemType
  <2>2. SystemType'
    BY <1>0, <1>20, <2>1 DEF NotifyBufferUpdate, SystemType
  <2>3. waiting' \in Counters(Nodes, MaxWaiting)
    <3>1. Head(commands).session \in Sessions
      BY <2>1 DEF Notice
    <3>2. Listeners \ {Head(commands).accessor} \in SUBSET Nodes
      BY Bounds
    <3> QED
      BY <1>0, <1>20, <3>1, <3>2, NotifyType DEF NotifyBufferUpdate
  <2>4. NodeType'
    BY <1>0, <1>20, <2>3 DEF NotifyBufferUpdate, NodeType
  <2> QED
    BY <1>0, <1>20, <2>2, <2>4, StoreSame DEF NotifyBufferUpdate, Typed
<1>21. CASE UNCHANGED vars
  BY <1>0, <1>21, StoreSame DEF vars, Typed, NodeType, SystemType
<1> QED
  BY <1>1, <1>2, <1>3, <1>4, <1>5, <1>6, <1>7, <1>8, <1>9, <1>10, <1>11, <1>12, <1>13,
     <1>14, <1>15, <1>16, <1>17, <1>18, <1>19, <1>20, <1>21, <1>22 DEF Next, MutStep

THEOREM BufferTypeCorrect == Spec => []TypeOK
<1>1. Spec => []Typed
  BY InitTyped, StepTyped, PTL DEF Spec
<1> QED
  BY <1>1, TypedTypeOK, PTL

-----------------------------------------------------------------------------
(* What the buffer knows of its sessions *)

\* While a session is active, the accessor has a key of its own for as long as
\* one that it sent out is in the workflow.
KeyStored ==
    \A a \in Accessors, s \in Sessions : Active(s) /\ InFlow(a, s) > 0 => s \in keyed[a]

LEMMA KeyStoredStep ==
    ASSUME Typed, KeyStored, [Next]_vars
    PROVE  KeyStored'
<1> SUFFICES ASSUME NEW b \in Accessors, NEW t \in Sessions, Active(t)', InFlow(b, t)' > 0
             PROVE  t \in keyed'[b]
  BY DEF KeyStored
<1>0. /\ keys \in [Accessors -> [Sessions -> 0..MaxKeys]]
      /\ leaving \in [Accessors -> [Sessions -> 0..MaxKeys]]
      /\ keyed \in [Accessors -> SUBSET Sessions]
      /\ status \in [Sessions -> {"active", "cleaned", "cleared"}]
  BY DEF Typed, NodeType, Counters
<1> USE DEF InFlow
<1>1. CASE UNCHANGED <<status, keys, leaving, keyed>>
  BY <1>1 DEF KeyStored, Active
<1>2. ASSUME NEW a \in Accessors, NEW s \in Sessions, GetAccessKeys(a, s),
             UNCHANGED <<status, leaving>>
      PROVE  t \in keyed'[b]
  BY <1>0, <1>2 DEF GetAccessKeys, KeyStored, Active
<1>3. ASSUME NEW a \in Accessors, NEW s \in Sessions, DropKey(a, s) PROVE t \in keyed'[b]
  BY <1>0, <1>3, Bounds DEF DropKey, KeyStored, Active
<1>10. ASSUME NEW a \in Accessors, NEW s \in Sessions, ReleaseTracker(a, s)
       PROVE  t \in keyed'[b]
  BY <1>0, <1>10, Bounds DEF ReleaseTracker, KeyStored, Active
<1>4. ASSUME NEW s \in Sessions, CleanSession(s) PROVE t \in keyed'[b]
  BY <1>0, <1>4 DEF CleanSession, KeyStored, Active
<1>5. ASSUME NEW s \in Sessions, ClearSession(s) PROVE t \in keyed'[b]
  BY <1>0, <1>5 DEF ClearSession, KeyStored, Active
<1> USE DEF nodeVars
<1>6. ASSUME NEW s \in Sessions,
             \/ \E v \in Values : Arrive(s, v)
             \/ Execute(s) \/ Collect(s) \/ TrimBuffer(s) \/ OpenCleanupMut(s)
             \/ \E j \in Joins : RunJoin(j, s)
             \/ \E a \in Accesses : Ask(a, s)
             \/ \E action \in {"open", "closed"} : RunGate(s, action)
             \/ \E a \in Accessors, allow \in BOOLEAN : OpenMut(a, s, allow)
             \/ \E n \in Nodes : TrimNode(n, s)
      PROVE  UNCHANGED <<status, keys, leaving, keyed>>
  BY <1>6 DEF Arrive, Execute, Collect, TrimBuffer, OpenCleanupMut, RunJoin, Ask, RunGate,
              OpenMut, TrimNode
<1>7. ASSUME NEW s \in Sessions,
             \/ \E l \in Listens : RunListen(l, s)
             \/ \E a \in Accesses : RunAccess(a, s)
      PROVE  UNCHANGED <<status, leaving>> /\ \E a \in Accessors : GetAccessKeys(a, s)
  BY <1>7, Bounds DEF RunListen, RunAccess
<1>8. CASE MutStep
  BY <1>1, <1>8, MutStepTyped, ModifiedType
<1>9. CASE MutOpenGate \/ MutCloseGate \/ DropMut \/ NotifyBufferUpdate \/ UNCHANGED vars
  BY <1>1, <1>9 DEF MutOpenGate, MutCloseGate, DropMut, NotifyBufferUpdate, vars
<1> QED
  BY <1>1, <1>2, <1>3, <1>4, <1>5, <1>6, <1>7, <1>8, <1>9, <1>10 DEF Next, MutStep

\* A session that has ended is forgotten by the nodes, and by the buffer once
\* it is cleared.
Quiet(s) ==
    ~Active(s) =>
        /\ input[s] = <<>>
        /\ \A n \in Nodes : waiting[n][s] = 0
        /\ \A a \in Accessors : s \notin keyed[a]
        /\ status[s] = "cleared" => storage[s] = None

LEMMA WokenQuiet ==
    ASSUME Typed, NEW s \in Sessions, NEW t \in Sessions, ~Active(t), NEW to, NEW n \in Nodes,
           waiting' = Woken(to, s) \/ UNCHANGED waiting
    PROVE  waiting'[n][t] = waiting[n][t]
<1>1. waiting \in [Nodes -> [Sessions -> 0..MaxWaiting]]
  BY DEF Typed, NodeType, Counters
<1> QED
  BY <1>1 DEF Woken

LEMMA QuietStep ==
    ASSUME Typed, [Next]_vars, NEW t \in Sessions, Quiet(t)
    PROVE  Quiet(t)'
<1>0. /\ keyed \in [Accessors -> SUBSET Sessions]
      /\ waiting \in [Nodes -> [Sessions -> 0..MaxWaiting]]
      /\ status \in [Sessions -> {"active", "cleaned", "cleared"}]
      /\ storage \in [Sessions -> Seq(Values) \cup {None}]
      /\ input \in [Sessions -> Seq(Values)]
  BY DEF Typed, NodeType, Counters, StoreType, StorageOK
<1> USE DEF Quiet, Active, nodeVars, systemVars
<1>1. ASSUME NEW s \in Sessions, NEW v \in Values, Arrive(s, v) PROVE Quiet(t)'
  BY <1>0, <1>1 DEF Arrive
<1>2. ASSUME NEW s \in Sessions, Execute(s) PROVE Quiet(t)'
  <2>1. CASE Active(t)
    BY <1>2, <2>1 DEF Execute
  <2>2. CASE ~Active(t)
    <3>1. t # s
      BY <1>2, <2>2 DEF Execute
    <3>2. \A n \in Nodes : waiting'[n][t] = waiting[n][t]
      BY <1>2, <2>2, WokenQuiet DEF Execute, Notify
    <3> QED
      BY <1>0, <1>2, <2>2, <3>1, <3>2 DEF Execute
  <2> QED
    BY <2>1, <2>2
<1>3. ASSUME NEW s \in Sessions, Collect(s) PROVE Quiet(t)'
  BY <1>0, <1>3 DEF Collect
<1>4. ASSUME NEW s \in Sessions, CleanSession(s) PROVE Quiet(t)'
  <2>1. CASE t = s
    BY <1>0, <1>4, <2>1 DEF CleanSession, CleanBuffer
  <2>2. CASE t # s
    <3>1. storage'[t] = storage[t] /\ input'[t] = input[t] /\ status'[t] = status[t]
      BY <1>0, <1>4, <2>2 DEF CleanSession, CleanBuffer
    <3> QED
      BY <1>0, <1>4, <2>2, <3>1 DEF CleanSession
  <2> QED
    BY <2>1, <2>2
<1>5. ASSUME NEW s \in Sessions, ClearSession(s) PROVE Quiet(t)'
  BY <1>0, <1>5 DEF ClearSession
<1>6. ASSUME NEW s \in Sessions, TrimBuffer(s) PROVE Quiet(t)'
  <2>1. CASE t = s
    BY <1>6, <2>1 DEF TrimBuffer
  <2>2. CASE t # s
    <3>1. storage'[t] = storage[t] /\ input'[t] = input[t]
      BY <1>0, <1>6, <2>2 DEF TrimBuffer, CleanBuffer
    <3> QED
      BY <1>6, <3>1 DEF TrimBuffer
  <2> QED
    BY <2>1, <2>2
<1>7. ASSUME NEW s \in Sessions, OpenCleanupMut(s) PROVE Quiet(t)'
  BY <1>7 DEF OpenCleanupMut
<1>8. ASSUME NEW s \in Sessions, NEW j \in Joins, RunJoin(j, s) PROVE Quiet(t)'
  <2>1. ~Active(t) => t # s
    BY <1>8, Bounds DEF RunJoin
  <2>2. t # s => storage'[t] = storage[t] /\ \A n \in Nodes : waiting'[n][t] = waiting[n][t]
    BY <1>0, <1>8 DEF RunJoin, Take
  <2> QED
    BY <1>8, <2>1, <2>2 DEF RunJoin
<1>9. ASSUME NEW s \in Sessions, NEW a \in Accessors, NEW n \in Nodes, waiting[n][s] > 0,
             Take(n, s), GetAccessKeys(a, s), UNCHANGED <<input, status>>
      PROVE  Quiet(t)'
  <2>1. ~Active(t) => t # s
    BY <1>9
  <2>2. t # s => /\ storage'[t] = storage[t]
                 /\ \A m \in Nodes : waiting'[m][t] = waiting[m][t]
                 /\ \A b \in Accessors : t \in keyed'[b] => t \in keyed[b]
    BY <1>0, <1>9 DEF GetAccessKeys, Take
  <2> QED
    BY <1>9, <2>1, <2>2
<1>10. ASSUME NEW s \in Sessions, NEW a \in Accesses, Ask(a, s) PROVE Quiet(t)'
  <2>1. ~Active(t) => \A n \in Nodes : waiting'[n][t] = waiting[n][t]
    BY <1>10, WokenQuiet DEF Ask
  <2> QED
    BY <1>10, <2>1 DEF Ask
<1>11. ASSUME NEW s \in Sessions, NEW action \in {"open", "closed"}, RunGate(s, action)
       PROVE  Quiet(t)'
  <2>1. ~Active(t) => \A n \in Nodes : waiting'[n][t] = waiting[n][t]
    BY <1>11, WokenQuiet DEF RunGate
  <2> QED
    BY <1>11, <2>1 DEF RunGate
<1>12. ASSUME NEW s \in Sessions, NEW a \in Accessors, DropKey(a, s) \/ ReleaseTracker(a, s)
       PROVE  Quiet(t)'
  BY <1>12 DEF DropKey, ReleaseTracker
<1>13. ASSUME NEW s \in Sessions, NEW a \in Accessors, NEW allow \in BOOLEAN, OpenMut(a, s, allow)
       PROVE  Quiet(t)'
  BY <1>13 DEF OpenMut
<1>14. ASSUME NEW s \in Sessions, NEW n \in Nodes, TrimNode(n, s) PROVE Quiet(t)'
  <2>1. ~Active(t) => \A m \in Nodes : waiting'[m][t] = waiting[m][t]
    BY <1>0, <1>14 DEF TrimNode
  <2> QED
    BY <1>14, <2>1 DEF TrimNode
<1>15. CASE MutStep
  <2>1. Modified /\ UNCHANGED <<input, waiting, keyed, status>>
    BY <1>15, MutStepTyped, ModifiedType
  <2>2. storage[t] = None => storage'[t] = None
    <3>1. UNCHANGED storage \/ \E q : Update(q)
      BY <1>15 DEF MutStep, MutPush, MutPushAsOldest, MutNewest, MutOldest, MutPull,
                   MutPullNewest, Pulse, MutDrain
    <3> QED
      BY <1>0, <3>1 DEF Update
  <2> QED
    BY <2>1, <2>2
<1>16. CASE MutOpenGate \/ MutCloseGate \/ DropMut \/ UNCHANGED vars
  BY <1>16 DEF MutOpenGate, MutCloseGate, DropMut, vars
<1>17. CASE NotifyBufferUpdate
  <2>1. Head(commands).session \in Sessions
    <3>1. Head(commands) \in Notice
      BY <1>17 DEF NotifyBufferUpdate, Typed, SystemType
    <3> QED
      BY <3>1 DEF Notice
  <2>2. ~Active(t) => \A n \in Nodes : waiting'[n][t] = waiting[n][t]
    BY <1>17, <2>1, WokenQuiet DEF NotifyBufferUpdate, Notify
  <2> QED
    BY <1>17, <2>2 DEF NotifyBufferUpdate
<1>18. ASSUME NEW s \in Sessions, NEW l \in Listens, RunListen(l, s) PROVE Quiet(t)'
  BY <1>9, <1>18, Bounds DEF RunListen
<1>19. ASSUME NEW s \in Sessions, NEW a \in Accesses, RunAccess(a, s) PROVE Quiet(t)'
  BY <1>9, <1>19, Bounds DEF RunAccess
<1> QED
  BY <1>1, <1>2, <1>3, <1>4, <1>5, <1>6, <1>7, <1>8, <1>10, <1>11, <1>12, <1>13, <1>14,
     <1>15, <1>16, <1>17, <1>18, <1>19 DEF Next, MutStep

-----------------------------------------------------------------------------
(* Every change is seen *)

\* What will make l look at the session: an input that waits for it, the
\* BufferMut that is open, once it is dropped, or a notice that is queued.
Due(l, s) ==
    \/ waiting[l][s] > 0
    \/ mut # NoMut /\ mut.session = s /\ mut.modified /\ mut.accessor # l
    \/ \E c \in ToSet(commands) : c.session = s /\ c.accessor # l

NoticeDue(l, s) == unseen[l][s] = Told /\ Active(s) /\ ~Closed(s) => Due(l, s)

\* Steps that take nothing from what is due, and tell nobody of a change.
LEMMA DueKept ==
    ASSUME NEW l, NEW s, NoticeDue(l, s), UNCHANGED systemVars,
           waiting'[l][s] > 0 \/ waiting'[l][s] = waiting[l][s],
           unseen'[l][s] = Told => unseen[l][s] = Told,
           Active(s)' => Active(s), Closed(s) => Closed(s)'
    PROVE  NoticeDue(l, s)'
BY DEF NoticeDue, Due, systemVars

\* An input that is given to a node stays, or it is told.
LEMMA WokenDue ==
    ASSUME NodeType, NEW s \in Sessions, NEW to \in SUBSET Nodes,
           NEW n \in Nodes, NEW t \in Sessions, waiting' = Woken(to, s)
    PROVE  /\ waiting'[n][t] > 0 \/ waiting'[n][t] = waiting[n][t]
           /\ n \in to /\ t = s /\ Active(s) => waiting'[n][t] > 0
<1>1. waiting \in [Nodes -> [Sessions -> 0..MaxWaiting]]
  BY DEF NodeType, Counters
<1>2. waiting[n][t] \in Nat
  BY <1>1, Bounds
<1> QED
  BY <1>1, <1>2 DEF Woken

LEMMA NoticeIsDue ==
    ASSUME Typed, mut # NoMut
    PROVE  [accessor |-> mut.accessor, session |-> mut.session] \in Notice
BY DEF Typed, SystemType, Mutation, Notice

LEMMA NoticeDueStep ==
    ASSUME Typed, [Next]_vars, NEW l \in Listeners, NEW t \in Sessions, NoticeDue(l, t)
    PROVE  NoticeDue(l, t)'
<1>0. /\ waiting \in [Nodes -> [Sessions -> 0..MaxWaiting]]
      /\ status \in [Sessions -> {"active", "cleaned", "cleared"}]
      /\ unseen \in [Listeners -> [Sessions -> {None, Silent, Told}]]
      /\ gate \in [Sessions -> {"open", "closed", None}]
      /\ commands \in Seq(Notice) /\ NodeType /\ l \in Nodes
  BY Bounds DEF Typed, NodeType, Counters, SystemType
<1> USE DEF nodeVars, systemVars
<1>1. ASSUME UNCHANGED systemVars, UNCHANGED <<status, gate, waiting>>,
             unseen'[l][t] = Told => unseen[l][t] = Told
      PROVE  NoticeDue(l, t)'
  BY <1>1, DueKept DEF Active, Closed
<1>2. ASSUME NEW s \in Sessions, Execute(s) PROVE NoticeDue(l, t)'
  <2>1. CASE t = s
    <3>1. ASSUME ~Closed(s), Active(s) PROVE waiting'[l][s] > 0
      <4>1. waiting' = Woken(Listeners, s)
        BY <1>2, <3>1 DEF Execute, Notify
      <4> QED
        BY <1>0, <3>1, <4>1, WokenDue, Bounds
    <3> QED
      BY <1>2, <2>1, <3>1 DEF Execute, NoticeDue, Due, Active, Closed
  <2>2. CASE t # s
    <3>1. unseen'[l][t] = Told => unseen[l][t] = Told
      BY <1>0, <1>2, <2>2 DEF Execute, Changed
    <3>2. waiting' = Woken(Listeners, s) \/ UNCHANGED waiting
      BY <1>2 DEF Execute, Notify
    <3>3. waiting'[l][t] > 0 \/ waiting'[l][t] = waiting[l][t]
      BY <1>0, <3>2, WokenDue, Bounds
    <3> QED
      BY <1>2, <3>1, <3>3, DueKept DEF Execute, Active, Closed
  <2> QED
    BY <2>1, <2>2
<1>3. ASSUME NEW s \in Sessions, CleanSession(s) PROVE NoticeDue(l, t)'
  <2>1. CASE t = s
    BY <1>0, <1>3, <2>1 DEF CleanSession, NoticeDue, Active
  <2>2. CASE t # s
    <3>1. /\ unseen'[l][t] = Told => unseen[l][t] = Told
          /\ waiting'[l][t] = waiting[l][t] /\ Active(t)' = Active(t) /\ UNCHANGED gate
          /\ UNCHANGED systemVars
      BY <1>0, <1>3, <2>2 DEF CleanSession, Active
    <3> QED
      BY <3>1, DueKept DEF Closed
  <2> QED
    BY <2>1, <2>2
<1>4. ASSUME NEW s \in Sessions, ClearSession(s) PROVE NoticeDue(l, t)'
  <2>1. Active(t)' => Active(t)
    BY <1>0, <1>4 DEF ClearSession, Active
  <2> QED
    BY <1>4, <2>1, DueKept DEF ClearSession, Closed
<1>5. ASSUME NEW s \in Sessions, NEW n \in Listeners, Take(n, s),
             unseen'[n][s] # Told,
             \A m \in Listeners, u \in Sessions : unseen'[m][u] = Told => unseen[m][u] = Told,
             UNCHANGED <<gate, status, systemVars>>
      PROVE  NoticeDue(l, t)'
  <2>1. CASE n = l /\ t = s
    BY <1>0, <1>5, <2>1 DEF NoticeDue
  <2>2. CASE ~(n = l /\ t = s)
    <3>1. unseen'[l][t] = Told => unseen[l][t] = Told
      BY <1>5
    <3>2. waiting'[l][t] = waiting[l][t]
      BY <1>0, <1>5, <2>2, Bounds DEF Take
    <3> QED
      BY <1>5, <3>1, <3>2, DueKept DEF Active, Closed
  <2> QED
    BY <2>1, <2>2
<1>6. ASSUME NEW s \in Sessions, NEW a \in Accesses, Ask(a, s) PROVE NoticeDue(l, t)'
  <2>1. waiting'[l][t] > 0 \/ waiting'[l][t] = waiting[l][t]
    BY <1>0, <1>6, WokenDue, Bounds DEF Ask
  <2> QED
    BY <1>6, <2>1, DueKept DEF Ask, Active, Closed
<1>7. ASSUME NEW s \in Sessions, NEW a \in Accesses, RunAccess(a, s) PROVE NoticeDue(l, t)'
  <2>1. waiting'[l][t] = waiting[l][t]
    BY <1>0, <1>7, Bounds DEF RunAccess, Take
  <2> QED
    BY <1>7, <2>1, DueKept DEF RunAccess, Active, Closed
<1>8. ASSUME NEW s \in Sessions, NEW action \in {"open", "closed"}, RunGate(s, action)
      PROVE  NoticeDue(l, t)'
  <2>1. waiting'[l][t] > 0 \/ waiting'[l][t] = waiting[l][t]
    BY <1>0, <1>8, WokenDue, Bounds DEF RunGate
  <2>2. CASE t = s /\ Opens(s, action)
    <3>1. waiting'[l][t] > 0
      BY <1>0, <1>8, <2>2, WokenDue, Bounds DEF RunGate
    <3> QED
      BY <3>1 DEF NoticeDue, Due
  <2>3. CASE ~(t = s /\ Opens(s, action))
    <3>1. Closed(t) => Closed(t)'
      BY <1>0, <1>8, <2>3 DEF RunGate, Opens, Closed
    <3> QED
      BY <1>8, <2>1, <3>1, DueKept DEF RunGate, Active
  <2> QED
    BY <2>2, <2>3
<1>9. ASSUME NEW s \in Sessions, NEW n \in Nodes, TrimNode(n, s) PROVE NoticeDue(l, t)'
  <2>1. CASE n = l /\ t = s
    <3>1. unseen' = [unseen EXCEPT ![l][t] = None]
      BY <1>9, <2>1 DEF Seen, TrimNode
    <3>2. unseen'[l][t] # Told
      BY <1>0, <3>1, NoneAssumption
    <3> QED
      BY <3>2 DEF NoticeDue
  <2>2. CASE ~(n = l /\ t = s)
    <3>1. unseen'[l][t] = Told => unseen[l][t] = Told
      BY <1>0, <1>9, NoneAssumption DEF Seen, TrimNode
    <3>2. waiting'[l][t] = waiting[l][t]
      BY <1>0, <1>9, <2>2 DEF TrimNode
    <3> QED
      BY <1>9, <3>1, <3>2, DueKept DEF Active, Closed, TrimNode
  <2> QED
    BY <2>1, <2>2
<1>10. ASSUME NEW s \in Sessions,
              \/ OpenCleanupMut(s)
              \/ \E a \in Accessors, allow \in BOOLEAN : OpenMut(a, s, allow)
       PROVE  NoticeDue(l, t)'
  <2>1. mut = NoMut /\ UNCHANGED <<waiting, status, gate, commands, unseen>>
    BY <1>10 DEF OpenCleanupMut, OpenMut, NoSystem
  <2> QED
    BY <2>1 DEF NoticeDue, Due, Active, Closed
<1>11. CASE MutStep
  <2>1. /\ Modified /\ mut \in Mutation
        /\ UNCHANGED <<waiting, status, gate, commands>>
    BY <1>11, MutStepTyped, ModifiedType DEF Modified, Typed, SystemType
  <2>2. mut'.session = mut.session /\ mut'.accessor = mut.accessor /\ mut'.modified /\ mut' # NoMut
    <3>1. mut' \in Mutation /\ mut'.modified = TRUE
      BY <2>1 DEF Modified, Mutation
    <3> QED
      BY <2>1, <3>1, NoneAssumption DEF Modified, Mutation, NoMut
  <2>3. unseen' = Changed(Listeners \ {mut.accessor}, mut.session)
    BY <2>1 DEF Modified
  <2>4. CASE t = mut.session /\ l # mut.accessor
    BY <2>2, <2>4 DEF NoticeDue, Due
  <2>5. CASE ~(t = mut.session /\ l # mut.accessor)
    <3>1. unseen'[l][t] = Told => unseen[l][t] = Told
      BY <1>0, <2>3, <2>5 DEF Changed
    <3> QED
      BY <2>1, <2>2, <3>1 DEF NoticeDue, Due, Active, Closed
  <2> QED
    BY <2>4, <2>5
<1>12. CASE MutOpenGate
  <2>1. CASE ~Closed(mut.session)
    BY <1>1, <1>12, <2>1 DEF MutOpenGate
  <2>2. CASE Closed(mut.session)
    <3>1. mut \in Mutation /\ mut.session \in Sessions
      BY <1>12 DEF MutOpenGate, Typed, SystemType, Mutation
    <3>2. mut'.session = mut.session /\ mut'.accessor = mut.accessor /\ mut'.modified /\ mut' # NoMut
      <4>1. mut' \in Mutation /\ mut'.modified = TRUE
        BY <1>12, <2>2, <3>1 DEF MutOpenGate, Mutation
      <4> QED
        BY <1>12, <2>2, <3>1, <4>1, NoneAssumption DEF MutOpenGate, Mutation, NoMut
    <3>3. unseen'[l][t] = Told => unseen[l][t] = Told /\ ~(l = mut.accessor /\ t = mut.session)
      BY <1>0, <1>12, <2>2, NoneAssumption DEF MutOpenGate, Seen
    <3>4. t # mut.session => Closed(t)' = Closed(t)
      BY <1>0, <1>12, <2>2 DEF MutOpenGate, Closed
    <3> QED
      BY <1>12, <3>2, <3>3, <3>4 DEF MutOpenGate, NoticeDue, Due, Active
  <2> QED
    BY <2>1, <2>2
<1>13. CASE MutCloseGate
  <2>1. Closed(t) => Closed(t)'
    BY <1>0, <1>13, NoneAssumption DEF MutCloseGate, Closed
  <2> QED
    BY <1>13, <2>1, DueKept DEF MutCloseGate, Active
<1>14. CASE DropMut
  <2>1. UNCHANGED <<waiting, status, gate, unseen>>
    BY <1>14 DEF DropMut
  <2>2. \A c \in ToSet(commands) : c \in ToSet(commands')
    <3>1. CASE ~mut.modified
      BY <1>14, <3>1 DEF DropMut
    <3>2. CASE mut.modified
      BY <1>0, <1>14, <3>2, AppendSet, NoticeIsDue DEF DropMut
    <3> QED
      BY <3>1, <3>2
  <2>3. ASSUME mut.modified
        PROVE  \E c \in ToSet(commands') : c.session = mut.session /\ c.accessor = mut.accessor
    <3> DEFINE c == [accessor |-> mut.accessor, session |-> mut.session]
    <3>1. c \in Notice /\ commands' = Append(commands, c)
      BY <1>14, <2>3, NoticeIsDue DEF DropMut
    <3>2. c.session = mut.session /\ c.accessor = mut.accessor
      OBVIOUS
    <3> HIDE DEF c
    <3>3. c \in ToSet(commands')
      BY <1>0, <3>1, AppendSet
    <3> QED
      BY <3>2, <3>3
  <2> QED
    BY <2>1, <2>2, <2>3 DEF NoticeDue, Due, Active, Closed
<1>15. CASE NotifyBufferUpdate
  <2> DEFINE c == Head(commands)
  <2>1. /\ c \in Notice /\ commands' = Tail(commands)
        /\ ToSet(commands) = {c} \cup ToSet(commands')
        /\ mut = NoMut /\ UNCHANGED <<status, gate, mut, unseen>>
        /\ Notify(Listeners \ {c.accessor}, c.session)
    BY <1>0, <1>15, TailSet DEF NotifyBufferUpdate
  <2> HIDE DEF c
  <2>2. c.session \in Sessions
    BY <2>1 DEF Notice
  <2>3. waiting'[l][t] > 0 \/ waiting'[l][t] = waiting[l][t]
    BY <1>0, <2>1, <2>2, WokenDue, Bounds DEF Notify
  <2>4. CASE c.session = t /\ c.accessor # l /\ Active(t) /\ ~Closed(t)
    <3>1. waiting' = Woken(Listeners \ {c.accessor}, t)
      BY <2>1, <2>4 DEF Notify
    <3>2. Listeners \ {c.accessor} \in SUBSET Nodes /\ l \in Listeners \ {c.accessor}
      BY <2>4, Bounds
    <3>3. waiting'[l][t] > 0
      BY <1>0, <2>4, <3>1, <3>2, WokenDue
    <3> QED
      BY <3>3 DEF NoticeDue, Due
  <2>5. CASE ~(c.session = t /\ c.accessor # l /\ Active(t) /\ ~Closed(t))
    BY <2>1, <2>3, <2>5 DEF NoticeDue, Due, Active, Closed
  <2> QED
    BY <2>4, <2>5
<1>16. ASSUME NEW s \in Sessions,
              \/ \E v \in Values : Arrive(s, v)
              \/ Collect(s)
              \/ \E a \in Accessors : DropKey(a, s) \/ ReleaseTracker(a, s)
       PROVE  NoticeDue(l, t)'
  BY <1>1, <1>16 DEF Arrive, Collect, DropKey, ReleaseTracker
<1>20. ASSUME NEW s \in Sessions, TrimBuffer(s) PROVE NoticeDue(l, t)'
  <2>1. unseen'[l][t] = Told => unseen[l][t] = Told
    BY <1>0, <1>20 DEF TrimBuffer, ChangedSilently, Silent, Told
  <2> QED
    BY <1>1, <1>20, <2>1 DEF TrimBuffer
<1>17. CASE UNCHANGED vars
  BY <1>1, <1>17 DEF vars
<1>18. ASSUME NEW s \in Sessions, NEW j \in Joins, RunJoin(j, s) PROVE NoticeDue(l, t)'
  <2>1. j \in Listeners
    BY Bounds
  <2>2. /\ unseen'[j][s] # Told
        /\ \A m \in Listeners, u \in Sessions : unseen'[m][u] = Told => unseen[m][u] = Told
    <3>1. CASE unseen' = Seen(j, s)
      BY <1>0, <2>1, <3>1, NoneAssumption DEF Seen
    <3>2. CASE unseen' = [ChangedSilently(Listeners, s) EXCEPT ![j][s] = None]
      <4> DEFINE c == ChangedSilently(Listeners, s)
      <4>1. c \in [Listeners -> [Sessions -> {None, Silent, Told}]]
        BY <1>0, SeenType
      <4>2. \A m \in Listeners, u \in Sessions : c[m][u] = Told => unseen[m][u] = Told
        BY <1>0 DEF ChangedSilently, Silent, Told
      <4> HIDE DEF c
      <4>3. unseen' = [c EXCEPT ![j][s] = None]
        BY <3>2 DEF c
      <4> QED
        BY <2>1, <4>1, <4>2, <4>3, NoneAssumption
    <3> QED
      BY <1>18, <3>1, <3>2 DEF RunJoin
  <2> QED
    BY <1>5, <1>18, <2>1, <2>2 DEF RunJoin
<1>19. ASSUME NEW s \in Sessions, NEW m \in Listens, RunListen(m, s) PROVE NoticeDue(l, t)'
  <2>1. m \in Listeners
    BY Bounds
  <2>2. /\ unseen'[m][s] # Told
        /\ \A n \in Listeners, u \in Sessions : unseen'[n][u] = Told => unseen[n][u] = Told
    BY <1>0, <1>19, <2>1, NoneAssumption DEF RunListen, Seen
  <2> QED
    BY <1>5, <1>19, <2>1, <2>2 DEF RunListen
<1> QED
  BY <1>2, <1>3, <1>4, <1>6, <1>7, <1>8, <1>9, <1>10, <1>11, <1>12, <1>13, <1>14, <1>15,
     <1>16, <1>17, <1>18, <1>19, <1>20 DEF Next, MutStep

-----------------------------------------------------------------------------
(* The inductive invariant, and what follows from it *)

IInv ==
    /\ Typed
    /\ KeyStored
    /\ \A s \in Sessions : Quiet(s)
    /\ \A l \in Listeners, s \in Sessions : NoticeDue(l, s)

LEMMA InitIInv == Init => IInv
<1> SUFFICES ASSUME Init PROVE IInv
  OBVIOUS
<1> USE DEF Init
<1>1. KeyStored
  BY DEF KeyStored, InFlow
<1>2. \A s \in Sessions : Quiet(s)
  BY DEF Quiet, Active
<1>3. \A l \in Listeners, s \in Sessions : NoticeDue(l, s)
  BY NoneAssumption DEF NoticeDue
<1> QED
  BY <1>1, <1>2, <1>3, InitTyped DEF IInv

LEMMA StepIInv == IInv /\ [Next]_vars => IInv'
<1> SUFFICES ASSUME IInv, [Next]_vars PROVE IInv'
  OBVIOUS
<1>1. Typed'
  BY StepTyped DEF IInv
<1>2. KeyStored'
  BY KeyStoredStep DEF IInv
<1>3. ASSUME NEW s \in Sessions PROVE Quiet(s)'
  BY QuietStep DEF IInv
<1>4. ASSUME NEW l \in Listeners, NEW s \in Sessions PROVE NoticeDue(l, s)'
  BY NoticeDueStep DEF IInv
<1> QED
  BY <1>1, <1>2, <1>3, <1>4 DEF IInv

LEMMA Inductive == Spec => []IInv
BY InitIInv, StepIInv, PTL DEF Spec

\* Whenever an operation stores an input, or a system changes the buffer or
\* opens its gate, and whatever the gate does, a listener of an active session
\* that has not looked since has a wake-up waiting, once the gate is not closed
\* and no system is running.  Only the silent changes, what a join pulled and
\* what a trim moved in, may pass without.
THEOREM ChangesAreSeen == Spec => []EveryChangeIsSeen
<1>1. IInv => EveryChangeIsSeen
  <2> SUFFICES ASSUME IInv, NoSystem, NEW l \in Listeners, NEW s \in Sessions,
                      unseen[l][s] = Told, Active(s), ~Closed(s)
               PROVE  waiting[l][s] > 0
    BY DEF EveryChangeIsSeen
  <2>1. Due(l, s)
    BY DEF IInv, NoticeDue
  <2>2. mut = NoMut /\ ToSet(commands) = {}
    BY DEF NoSystem, ToSet
  <2> QED
    BY <2>1, <2>2 DEF Due
<1> QED
  BY <1>1, Inductive, PTL

LEMMA Multiple ==
    ASSUME NEW k \in Nat \ {0}, NEW n \in Nat, NEW d \in Nat, n + d > 0
    PROVE  k * (n + 1) + d > 1
<1>1. k * (n + 1) = k * n + k
  OBVIOUS
<1>2. k * n \in Nat
  OBVIOUS
<1>3. n > 0 => k * n >= 1
  <2>1. n > 0 => k * n = k * (n - 1) + k /\ k * (n - 1) \in Nat
    OBVIOUS
  <2> QED
    BY <2>1
<1> QED
  BY <1>1, <1>2, <1>3

\* While a session is active, a key of it in the workflow counts as in use,
\* down to the moment in which its drop releases the tracker, so that a scope
\* never takes the buffer for unreachable although it can still be used; and if
\* the keys of the accessor are for one buffer, nothing else counts as in use.
THEOREM KeysTracked == Spec => []KeysAreTracked
<1>1. IInv => KeysAreTracked
  <2> SUFFICES ASSUME IInv, NEW a \in Accessors, NEW s \in Sessions, Active(s)
               PROVE  /\ InFlow(a, s) > 0 => InUse(a, s)
                      /\ InUse(a, s) => InFlow(a, s) > 0 \/ KeyParts[a] > 1
    BY DEF KeysAreTracked
  <2>1. keys[a][s] \in Nat /\ leaving[a][s] \in Nat
    BY Bounds DEF IInv, Typed, NodeType, Counters
  <2>2. InFlow(a, s) > 0 => s \in keyed[a]
    BY DEF IInv, KeyStored
  <2>3. s \in keyed[a] => StrongCount(a, s) = KeyParts[a] * (keys[a][s] + 1) + leaving[a][s]
    BY DEF StrongCount
  <2>4. KeyParts[a] \in Nat \ {0}
    BY BufferAssumption
  <2>5. InFlow(a, s) > 0 => InUse(a, s)
    BY <2>1, <2>2, <2>3, <2>4, Multiple DEF InUse, InFlow
  <2>6. KeyParts[a] = 1 /\ InUse(a, s) => InFlow(a, s) > 0
    BY <2>1, <2>3 DEF InUse, InFlow
  <2> QED
    BY <2>4, <2>5, <2>6
<1> QED
  BY <1>1, Inductive, PTL

\* Nothing of a cleared session comes back into the buffer or to its nodes,
\* whatever keys of it are still used.
THEOREM ClearedStaysCleared == Spec => []ClearedForGood
<1>1. IInv => ClearedForGood
  BY DEF IInv, Quiet, Active, ClearedForGood
<1> QED
  BY <1>1, Inductive, PTL

-----------------------------------------------------------------------------
(* A closed gate *)

GateWithholds ==
    \A l \in Listeners, s \in Sessions :
        waiting'[l][s] > waiting[l][s] => gate'[s] # "closed"

\* No step gives a listener a wake-up and leaves the gate of the session
\* closed: neither a change of the buffer nor a notice that a system queued
\* before the gate closed.
THEOREM GateIsRespected == Spec => ClosedGateWithholds
<1>1. ASSUME Typed, [Next]_vars PROVE GateWithholds
  <2> SUFFICES ASSUME NEW l \in Listeners, NEW t \in Sessions, waiting'[l][t] > waiting[l][t]
               PROVE  gate'[t] # "closed"
    BY DEF GateWithholds
  <2>0. /\ waiting \in [Nodes -> [Sessions -> 0..MaxWaiting]]
        /\ gate \in [Sessions -> {"open", "closed", None}]
        /\ commands \in Seq(Notice) /\ NodeType /\ l \in Nodes
    BY <1>1, Bounds DEF Typed, NodeType, Counters, SystemType
  <2>1. waiting[l][t] \in Nat
    BY <2>0, Bounds
  <2> USE DEF nodeVars
  <2>2. ASSUME waiting'[l][t] = waiting[l][t] \/ waiting'[l][t] = 0 \/ waiting'[l][t] = waiting[l][t] - 1
        PROVE  FALSE
    BY <2>1, <2>2
  <2>3. ASSUME NEW s \in Sessions, NEW to, Notify(to, s), UNCHANGED gate
        PROVE  gate'[t] # "closed"
    <3>1. CASE t = s
      BY <2>2, <2>3, <3>1 DEF Notify, Closed
    <3>2. CASE t # s
      BY <2>0, <2>2, <2>3, <3>2 DEF Notify, Woken
    <3> QED
      BY <3>1, <3>2
  <2>4. ASSUME NEW s \in Sessions, NEW n \in Nodes, Take(n, s) PROVE FALSE
    BY <2>0, <2>2, <2>4 DEF Take
  <2>5. ASSUME NEW s \in Sessions, NEW action \in {"open", "closed"}, RunGate(s, action)
        PROVE  gate'[t] # "closed"
    <3>1. CASE Opens(s, action) /\ t = s
      BY <2>0, <2>5, <3>1 DEF RunGate, Opens
    <3>2. CASE Opens(s, action) /\ t # s
      BY <2>0, <2>2, <2>5, <3>2 DEF RunGate, Woken
    <3>3. CASE ~Opens(s, action)
      BY <2>2, <2>5, <3>3 DEF RunGate
    <3> QED
      BY <3>1, <3>2, <3>3
  <2>6. ASSUME NEW s \in Sessions, NEW a \in Accesses, Ask(a, s) PROVE FALSE
    BY <2>0, <2>2, <2>6, Bounds DEF Ask, Woken
  <2>7. ASSUME NEW s \in Sessions, CleanSession(s) PROVE FALSE
    BY <2>0, <2>2, <2>7 DEF CleanSession
  <2>8. ASSUME NEW s \in Sessions, NEW n \in Nodes, TrimNode(n, s) PROVE FALSE
    BY <2>0, <2>2, <2>8 DEF TrimNode
  <2>9. CASE MutStep
    BY <1>1, <2>2, <2>9, MutStepTyped, ModifiedType
  <2>10. CASE NotifyBufferUpdate
    <3>1. Head(commands) \in Notice
      BY <2>0, <2>10 DEF NotifyBufferUpdate
    <3>2. Head(commands).session \in Sessions
      BY <3>1 DEF Notice
    <3> QED
      BY <2>3, <2>10, <3>2 DEF NotifyBufferUpdate
  <2>11. ASSUME \/ MutOpenGate \/ MutCloseGate \/ DropMut \/ UNCHANGED vars
                \/ \E s \in Sessions :
                      \/ \E v \in Values : Arrive(s, v)
                      \/ Collect(s) \/ ClearSession(s) \/ TrimBuffer(s) \/ OpenCleanupMut(s)
                      \/ \E a \in Accessors :
                            \/ DropKey(a, s) \/ ReleaseTracker(a, s)
                            \/ \E allow \in BOOLEAN : OpenMut(a, s, allow)
         PROVE  FALSE
    BY <2>2, <2>11 DEF MutOpenGate, MutCloseGate, DropMut, vars, Arrive, Collect,
       ClearSession, TrimBuffer, OpenCleanupMut, DropKey, ReleaseTracker, OpenMut
  <2>12. ASSUME NEW s \in Sessions, Execute(s) PROVE gate'[t] # "closed"
    BY <2>3, <2>12 DEF Execute
  <2>13. ASSUME NEW s \in Sessions, NEW j \in Joins, RunJoin(j, s) PROVE FALSE
    BY <2>4, <2>13, Bounds DEF RunJoin
  <2>14. ASSUME NEW s \in Sessions, NEW m \in Listens, RunListen(m, s) PROVE FALSE
    BY <2>4, <2>14, Bounds DEF RunListen
  <2>15. ASSUME NEW s \in Sessions, NEW a \in Accesses, RunAccess(a, s) PROVE FALSE
    BY <2>4, <2>15, Bounds DEF RunAccess
  <2> QED
    BY <1>1, <2>5, <2>6, <2>7, <2>8, <2>9, <2>10, <2>11, <2>12, <2>13, <2>14, <2>15
       DEF Next, MutStep
<1>2. Spec => []Typed
  BY InitTyped, StepTyped, PTL DEF Spec
<1>3. Typed /\ [Next]_vars => [GateWithholds]_vars
  BY <1>1
<1> QED
  BY <1>2, <1>3, PTL DEF Spec, ClosedGateWithholds, GateWithholds
-----------------------------------------------------------------------------
(* Queues read backwards *)

LEMMA Backwards ==
    ASSUME NEW q \in Seq(Values)
    PROVE  /\ Reverse(q) \in Seq(Values) /\ Len(Reverse(q)) = Len(q)
           /\ \A i \in 1..Len(q) : Reverse(q)[i] = q[Len(q) + 1 - i]
<1> DEFINE n == Len(q)
<1>1. n \in Nat /\ q \in [1..n -> Values]
  OBVIOUS
<1>2. \A i \in 1..n : (n - i) + 1 \in 1..n /\ (n - i) + 1 = n + 1 - i
  BY <1>1
<1>3. Reverse(q) = [i \in 1..n |-> q[(n - i) + 1]]
  BY DEF Reverse
<1> HIDE DEF n
<1>4. Reverse(q) \in [1..n -> Values]
  BY <1>1, <1>2, <1>3
<1>5. Reverse(q) \in Seq(Values) /\ Len(Reverse(q)) = n
  BY <1>1, <1>4
<1> QED
  BY <1>2, <1>3, <1>5 DEF n

LEMMA BackwardsNewest ==
    ASSUME NEW q \in Seq(Values), NEW v \in Values
    PROVE  Reverse(<<v>> \o q) = Reverse(q) \o <<v>>
<1> DEFINE a == <<v>> \o q
           b == Reverse(q) \o <<v>>
<1>1. a \in Seq(Values) /\ Len(a) = Len(q) + 1 /\ a[1] = v /\ \A i \in 1..Len(q) : a[i + 1] = q[i]
  OBVIOUS
<1>2. /\ b \in Seq(Values) /\ Len(b) = Len(q) + 1 /\ b[Len(q) + 1] = v
      /\ \A i \in 1..Len(q) : b[i] = q[Len(q) + 1 - i]
  BY Backwards
<1> HIDE DEF a, b
<1>3. /\ Reverse(a) \in Seq(Values) /\ Len(Reverse(a)) = Len(q) + 1
      /\ \A i \in 1..(Len(q) + 1) : Reverse(a)[i] = a[Len(q) + 2 - i]
  <2>1. \A i \in 1..(Len(q) + 1) : Len(q) + 1 + 1 - i = Len(q) + 2 - i
    OBVIOUS
  <2> QED
    BY <1>1, <2>1, Backwards
<1>4. ASSUME NEW i \in 1..(Len(q) + 1) PROVE Reverse(a)[i] = b[i]
  <2>1. CASE i = Len(q) + 1
    BY <1>1, <1>2, <1>3, <2>1
  <2>2. CASE i # Len(q) + 1
    <3>1. i \in 1..Len(q) /\ Len(q) + 1 - i \in 1..Len(q) /\ Len(q) + 2 - i = (Len(q) + 1 - i) + 1
      BY <2>2
    <3>2. a[(Len(q) + 1 - i) + 1] = q[Len(q) + 1 - i]
      BY <1>1, <3>1
    <3> QED
      BY <1>2, <1>3, <3>1, <3>2
  <2> QED
    BY <2>1, <2>2
<1>5. Reverse(a) = b
  BY <1>2, <1>3, <1>4, SeqEqual
<1> QED
  BY <1>5 DEF a, b

LEMMA BackwardsOldest ==
    ASSUME NEW q \in Seq(Values), NEW v \in Values
    PROVE  Reverse(Append(q, v)) = <<v>> \o Reverse(q)
<1> DEFINE a == Append(q, v)
           b == <<v>> \o Reverse(q)
           r == Reverse(q)
<1>1. a \in Seq(Values) /\ Len(a) = Len(q) + 1 /\ a[Len(q) + 1] = v /\ \A i \in 1..Len(q) : a[i] = q[i]
  OBVIOUS
<1>2. r \in Seq(Values) /\ Len(r) = Len(q) /\ \A i \in 1..Len(q) : r[i] = q[Len(q) + 1 - i]
  BY Backwards
<1> HIDE DEF r
<1>3. /\ b \in Seq(Values) /\ Len(b) = Len(q) + 1 /\ b[1] = v
      /\ \A i \in 1..Len(q) : b[i + 1] = r[i]
  BY <1>2 DEF r
<1> HIDE DEF a, b
<1>4. /\ Reverse(a) \in Seq(Values) /\ Len(Reverse(a)) = Len(q) + 1
      /\ \A i \in 1..(Len(q) + 1) : Reverse(a)[i] = a[Len(q) + 2 - i]
  <2>1. \A i \in 1..(Len(q) + 1) : Len(q) + 1 + 1 - i = Len(q) + 2 - i
    OBVIOUS
  <2> QED
    BY <1>1, <2>1, Backwards
<1>5. ASSUME NEW i \in 1..(Len(q) + 1) PROVE Reverse(a)[i] = b[i]
  <2>1. CASE i = 1
    BY <1>1, <1>3, <1>4, <2>1
  <2>2. CASE i # 1
    <3>1. /\ i - 1 \in 1..Len(q) /\ (i - 1) + 1 = i /\ Len(q) + 2 - i \in 1..Len(q)
          /\ Len(q) + 1 - (i - 1) = Len(q) + 2 - i
      BY <2>2
    <3>2. b[(i - 1) + 1] = r[i - 1]
      BY <1>3, <3>1
    <3>3. b[i] = q[Len(q) + 2 - i]
      BY <1>2, <3>1, <3>2
    <3> QED
      BY <1>1, <1>4, <3>1, <3>3
  <2> QED
    BY <2>1, <2>2
<1>6. Reverse(a) = b
  BY <1>3, <1>4, <1>5, SeqEqual
<1> QED
  BY <1>6 DEF a, b

LEMMA BackwardsTake ==
    ASSUME NEW q \in Seq(Values), q # <<>>
    PROVE  /\ Reverse(q) # <<>>
           /\ Reverse(Front(q)) = Tail(Reverse(q))
           /\ Reverse(Tail(q)) = Front(Reverse(q))
<1> DEFINE r == Reverse(q)
           n == Len(q)
<1>1. n \in Nat /\ n > 0
  OBVIOUS
<1>2. r \in Seq(Values) /\ Len(r) = n /\ \A i \in 1..n : r[i] = q[n + 1 - i]
  BY Backwards
<1> DEFINE f == Front(q)
           t == Tail(q)
<1>3. /\ f \in Seq(Values) /\ Len(f) = n - 1 /\ \A i \in 1..(n - 1) : f[i] = q[i]
      /\ t \in Seq(Values) /\ Len(t) = n - 1 /\ \A i \in 1..(n - 1) : t[i] = q[i + 1]
  <2>1. /\ f \in Seq(Values) /\ Len(f) = n - 1 /\ \A i \in 1..(n - 1) : f[i] = q[i]
    <3>1. f = SubSeq(q, 1, n - 1) /\ 1 \in Int /\ n - 1 \in Int /\ \A i \in 1..(n - 1) : q[i] \in Values
      BY <1>1 DEF Front
    <3>2. /\ f \in Seq(Values) /\ Len(f) = IF 1 <= n - 1 THEN n - 1 - 1 + 1 ELSE 0
          /\ \A i \in 1..(n - 1 - 1 + 1) : f[i] = q[1 + i - 1]
      BY <3>1, SubSeqProperties
    <3> HIDE DEF f, n
    <3> QED
      BY <1>1, <3>2
  <2>2. /\ t \in Seq(Values) /\ Len(t) = n - 1 /\ \A i \in 1..(n - 1) : t[i] = q[i + 1]
    BY <1>1
  <2> QED
    BY <2>1, <2>2
<1> HIDE DEF r, n, f, t
<1>4. /\ r # <<>>
      /\ Front(r) \in Seq(Values) /\ Len(Front(r)) = n - 1 /\ \A i \in 1..(n - 1) : Front(r)[i] = r[i]
      /\ Tail(r) \in Seq(Values) /\ Len(Tail(r)) = n - 1 /\ \A i \in 1..(n - 1) : Tail(r)[i] = r[i + 1]
  <2>1. r # <<>> /\ Len(r) \in Nat
    BY <1>1, <1>2
  <2>2. Front(r) \in Seq(Values) /\ Len(Front(r)) = n - 1 /\ \A i \in 1..(n - 1) : Front(r)[i] = r[i]
    BY <1>1, <1>2, <2>1 DEF Front
  <2>3. Tail(r) \in Seq(Values) /\ Len(Tail(r)) = n - 1 /\ \A i \in 1..(n - 1) : Tail(r)[i] = r[i + 1]
    BY <1>1, <1>2, <2>1
  <2> QED
    BY <2>1, <2>2, <2>3
<1>5. /\ Reverse(f) \in Seq(Values) /\ Len(Reverse(f)) = n - 1
      /\ \A i \in 1..(n - 1) : Reverse(f)[i] = f[(n - 1) + 1 - i]
  BY <1>3, Backwards
<1>6. /\ Reverse(t) \in Seq(Values) /\ Len(Reverse(t)) = n - 1
      /\ \A i \in 1..(n - 1) : Reverse(t)[i] = t[(n - 1) + 1 - i]
  BY <1>3, Backwards
<1>7. ASSUME NEW i \in 1..(n - 1)
      PROVE  Reverse(f)[i] = Tail(r)[i] /\ Reverse(t)[i] = Front(r)[i]
  <2>1. /\ (n - 1) + 1 - i \in 1..(n - 1) /\ (n - 1) + 1 - i = n - i /\ (n - i) + 1 = n + 1 - i
        /\ n + 1 - (i + 1) = n - i /\ i \in 1..n /\ i + 1 \in 1..n
    BY <1>1
  <2>2. Reverse(f)[i] = q[n - i] /\ Tail(r)[i] = q[n - i]
    BY <1>2, <1>3, <1>4, <1>5, <2>1
  <2>3. Reverse(t)[i] = q[n + 1 - i] /\ Front(r)[i] = q[n + 1 - i]
    <3>1. Reverse(t)[i] = t[n - i]
      BY <1>6, <2>1
    <3>2. n - i \in 1..(n - 1)
      BY <2>1
    <3>3. t[n - i] = q[(n - i) + 1]
      BY <1>3, <3>2
    <3>4. Front(r)[i] = r[i]
      BY <1>4
    <3>5. r[i] = q[n + 1 - i]
      BY <1>2, <2>1
    <3> QED
      BY <2>1, <3>1, <3>3, <3>4, <3>5
  <2> QED
    BY <2>2, <2>3
<1>8. Reverse(f) = Tail(r) /\ Reverse(t) = Front(r)
  BY <1>1, <1>4, <1>5, <1>6, <1>7, SeqEqual
<1> QED
  BY <1>4, <1>8 DEF r, f, t

LEMMA BackwardsConcat ==
    ASSUME NEW a \in Seq(Values), NEW b \in Seq(Values)
    PROVE  Reverse(a \o b) = Reverse(b) \o Reverse(a)
<1> DEFINE m == Len(a)
           n == Len(b)
           c == a \o b
           ra == Reverse(a)
           rb == Reverse(b)
           rc == Reverse(c)
           d == rb \o ra
<1>1. m \in Nat /\ n \in Nat
  OBVIOUS
<1>2. /\ c \in Seq(Values) /\ Len(c) = m + n
      /\ \A i \in 1..(m + n) : c[i] = IF i <= m THEN a[i] ELSE b[i - m]
  BY ConcatProperties
<1>3. ra \in Seq(Values) /\ Len(ra) = m /\ \A i \in 1..m : ra[i] = a[m + 1 - i]
  BY Backwards
<1>4. rb \in Seq(Values) /\ Len(rb) = n /\ \A i \in 1..n : rb[i] = b[n + 1 - i]
  BY Backwards
<1> HIDE DEF c, ra, rb, m, n
<1>5. /\ d \in Seq(Values) /\ Len(d) = n + m
      /\ \A i \in 1..(n + m) : d[i] = IF i <= n THEN rb[i] ELSE ra[i - n]
  <2>1. /\ d \in Seq(Values) /\ Len(d) = Len(rb) + Len(ra)
        /\ \A i \in 1..(Len(rb) + Len(ra)) : d[i] = IF i <= Len(rb) THEN rb[i] ELSE ra[i - Len(rb)]
    BY <1>3, <1>4, ConcatProperties
  <2> HIDE DEF d
  <2> QED
    BY <1>3, <1>4, <2>1
<1>6. rc \in Seq(Values) /\ Len(rc) = m + n /\ \A i \in 1..(m + n) : rc[i] = c[m + n + 1 - i]
  BY <1>2, Backwards
<1> HIDE DEF rc, d
<1>7. ASSUME NEW i \in 1..(m + n) PROVE rc[i] = d[i]
  <2>1. CASE i <= n
    <3>1. /\ m + n + 1 - i \in 1..(m + n) /\ ~(m + n + 1 - i <= m) /\ (m + n + 1 - i) - m = n + 1 - i
          /\ i \in 1..n /\ i \in 1..(n + m)
      BY <1>1, <2>1
    <3>2. rc[i] = b[n + 1 - i]
      BY <1>2, <1>6, <3>1
    <3>3. d[i] = b[n + 1 - i]
      BY <1>4, <1>5, <2>1, <3>1
    <3> QED
      BY <3>2, <3>3
  <2>2. CASE ~(i <= n)
    <3>1. /\ m + n + 1 - i \in 1..(m + n) /\ m + n + 1 - i <= m /\ i - n \in 1..m
          /\ m + 1 - (i - n) = m + n + 1 - i /\ i \in 1..(n + m)
      BY <1>1, <2>2
    <3>2. rc[i] = a[m + n + 1 - i]
      BY <1>2, <1>6, <3>1
    <3>3. d[i] = a[m + n + 1 - i]
      BY <1>3, <1>5, <2>2, <3>1
    <3> QED
      BY <3>2, <3>3
  <2> QED
    BY <2>1, <2>2
<1>8. rc = d
  <2>1. Len(rc) = Len(d)
    BY <1>1, <1>5, <1>6
  <2> QED
    BY <1>5, <1>6, <1>7, <2>1, SeqEqual
<1> QED
  BY <1>8 DEF rc, d, c, ra, rb

LEMMA BackwardsPart ==
    ASSUME NEW q \in Seq(Values), NEW i \in 1..(Len(q) + 1), NEW j \in 0..Len(q), i <= j + 1
    PROVE  Reverse(SubSeq(q, i, j)) = SubSeq(Reverse(q), Len(q) + 1 - j, Len(q) + 1 - i)
<1> DEFINE n == Len(q)
           k == j + 1 - i
           r == Reverse(q)
           p == SubSeq(q, i, j)
           t == SubSeq(r, n + 1 - j, n + 1 - i)
           rp == Reverse(p)
<1>1. n \in Nat /\ k \in Nat
  OBVIOUS
<1>2. r \in Seq(Values) /\ Len(r) = n /\ \A x \in 1..n : r[x] = q[n + 1 - x]
  BY Backwards
<1>3. p \in Seq(Values) /\ Len(p) = k /\ \A x \in 1..k : p[x] = q[i + x - 1]
  <2>1. i \in Int /\ j \in Int /\ \A x \in i..j : q[x] \in Values
    OBVIOUS
  <2>2. /\ p \in Seq(Values) /\ Len(p) = IF i <= j THEN j - i + 1 ELSE 0
        /\ \A x \in 1..(j - i + 1) : p[x] = q[i + x - 1]
    BY <2>1, SubSeqProperties
  <2>3. j - i + 1 = k /\ (i <= j <=> k # 0)
    OBVIOUS
  <2> HIDE DEF p, k, n
  <2> QED
    BY <1>1, <2>2, <2>3
<1> HIDE DEF r
<1>4. t \in Seq(Values) /\ Len(t) = k /\ \A x \in 1..k : t[x] = r[n - j + x]
  <2>1. n + 1 - j \in Int /\ n + 1 - i \in Int /\ \A x \in (n + 1 - j)..(n + 1 - i) : r[x] \in Values
    BY <1>1, <1>2
  <2>2. /\ t \in Seq(Values)
        /\ Len(t) = IF n + 1 - j <= n + 1 - i THEN (n + 1 - i) - (n + 1 - j) + 1 ELSE 0
        /\ \A x \in 1..((n + 1 - i) - (n + 1 - j) + 1) : t[x] = r[(n + 1 - j) + x - 1]
    BY <2>1, SubSeqProperties
  <2>3. /\ (n + 1 - i) - (n + 1 - j) + 1 = k /\ (n + 1 - j <= n + 1 - i <=> k # 0)
        /\ \A x \in 1..k : (n + 1 - j) + x - 1 = n - j + x
    BY <1>1
  <2> HIDE DEF t, k, n
  <2> QED
    BY <1>1, <2>2, <2>3
<1> HIDE DEF p, t, n, k
<1>5. rp \in Seq(Values) /\ Len(rp) = k /\ \A x \in 1..k : rp[x] = p[k + 1 - x]
  BY <1>3, Backwards
<1> HIDE DEF rp
<1>6. ASSUME NEW x \in 1..k PROVE rp[x] = t[x]
  <2>1. /\ k + 1 - x \in 1..k /\ n - j + x \in 1..n /\ i + (k + 1 - x) - 1 = j + 1 - x
        /\ n + 1 - (n - j + x) = j + 1 - x
    BY <1>1 DEF n, k
  <2>2. rp[x] = q[j + 1 - x]
    BY <1>3, <1>5, <2>1
  <2>3. t[x] = q[j + 1 - x]
    BY <1>2, <1>4, <2>1
  <2> QED
    BY <2>2, <2>3
<1>7. rp = t
  BY <1>4, <1>5, <1>6, SeqEqual
<1> QED
  BY <1>7 DEF rp, t, p, r, n

LEMMA BackwardsDrain ==
    ASSUME NEW q \in Seq(Values), NEW from \in 1..Len(q), NEW to \in 1..Len(q), from <= to
    PROVE  LET h == Reverse(q)
               i == Len(q) + 1 - to
               j == Len(q) + 1 - from
           IN  /\ i \in 1..Len(h) /\ j \in 1..Len(h) /\ i <= j
               /\ Reverse(Drain(q, from, to).queue) = SubSeq(h, 1, i - 1) \o SubSeq(h, j + 1, Len(h))
<1> DEFINE n == Len(q)
           h == Reverse(q)
           a == SubSeq(q, 1, from - 1)
           b == SubSeq(q, to + 1, n)
<1>1. n \in Nat /\ Len(h) = n
  BY Backwards
<1>2. Drain(q, from, to).queue = a \o b
  BY DEF Drain, Outcome
<1>3. a \in Seq(Values) /\ b \in Seq(Values)
  OBVIOUS
<1>4. Reverse(a \o b) = Reverse(b) \o Reverse(a)
  <2> HIDE DEF a, b
  <2> QED
    BY <1>3, BackwardsConcat
<1>5. Reverse(a) = SubSeq(h, n + 1 - (from - 1), n + 1 - 1)
  <2>1. 1 \in 1..(n + 1) /\ from - 1 \in 0..n /\ 1 <= from - 1 + 1
    BY <1>1
  <2> QED
    BY <2>1, BackwardsPart
<1>6. Reverse(b) = SubSeq(h, n + 1 - n, n + 1 - (to + 1))
  <2>1. to + 1 \in 1..(n + 1) /\ n \in 0..n /\ to + 1 <= n + 1
    BY <1>1
  <2> QED
    BY <2>1, BackwardsPart
<1>7. /\ n + 1 - (from - 1) = (n + 1 - from) + 1 /\ n + 1 - 1 = n
      /\ n + 1 - n = 1 /\ n + 1 - (to + 1) = (n + 1 - to) - 1
      /\ n + 1 - to \in 1..n /\ n + 1 - from \in 1..n /\ n + 1 - to <= n + 1 - from
  BY <1>1
<1> HIDE DEF n, h, a, b
<1> QED
  BY <1>1, <1>2, <1>4, <1>5, <1>6, <1>7 DEF n, h

LEMMA BackwardsSet ==
    ASSUME NEW q \in Seq(Values), q # <<>>, NEW v \in Values
    PROVE  /\ Reverse(SetNewest(q, v)) = [Reverse(q) EXCEPT ![Len(q)] = v]
           /\ Reverse(SetOldest(q, v)) = [Reverse(q) EXCEPT ![1] = v]
<1> DEFINE n == Len(q)
           h == Reverse(q)
           a == [h EXCEPT ![n] = v]
           c == [h EXCEPT ![1] = v]
<1>1. n \in Nat /\ n > 0
  OBVIOUS
<1>2. h \in Seq(Values) /\ Len(h) = n /\ h # <<>>
  BY Backwards, BackwardsTake
<1>3. /\ Tail(q) \in Seq(Values) /\ Front(q) \in Seq(Values)
      /\ Reverse(Front(q)) = Tail(h) /\ Reverse(Tail(q)) = Front(h)
  BY BackwardsTake DEF Front
<1>4. Reverse(SetNewest(q, v)) = Front(h) \o <<v>>
  BY <1>3, BackwardsNewest DEF SetNewest, WithoutNewest
<1>5. Reverse(SetOldest(q, v)) = <<v>> \o Tail(h)
  BY <1>3, BackwardsOldest DEF SetOldest, WithoutOldest
<1> HIDE DEF h, n
<1>6. n \in 1..Len(h) /\ 1 \in 1..Len(h)
  BY <1>1, <1>2
<1>7. /\ a \in Seq(Values) /\ Len(a) = n /\ \A i \in 1..n : a[i] = IF i = n THEN v ELSE h[i]
      /\ c \in Seq(Values) /\ Len(c) = n /\ \A i \in 1..n : c[i] = IF i = 1 THEN v ELSE h[i]
  BY <1>2, <1>6, ExceptSeq
<1> DEFINE f == Front(h)
           t == Tail(h)
<1>8. f \in Seq(Values) /\ Len(f) = n - 1 /\ \A i \in 1..(n - 1) : f[i] = h[i]
  <2>1. f = SubSeq(h, 1, n - 1) /\ 1 \in Int /\ n - 1 \in Int /\ \A i \in 1..(n - 1) : h[i] \in Values
    BY <1>1, <1>2 DEF Front
  <2>2. /\ f \in Seq(Values) /\ Len(f) = IF 1 <= n - 1 THEN n - 1 - 1 + 1 ELSE 0
        /\ \A i \in 1..(n - 1 - 1 + 1) : f[i] = h[1 + i - 1]
    BY <2>1, SubSeqProperties
  <2> HIDE DEF f
  <2> QED
    BY <1>1, <2>2
<1>9. t \in Seq(Values) /\ Len(t) = n - 1 /\ \A i \in 1..(n - 1) : t[i] = h[i + 1]
  BY <1>1, <1>2
<1> HIDE DEF f, t, a, c
<1> DEFINE x == f \o <<v>>
           y == <<v>> \o t
<1>10. x \in Seq(Values) /\ Len(x) = n /\ x[n] = v /\ \A i \in 1..(n - 1) : x[i] = f[i]
  BY <1>1, <1>8
<1>11. y \in Seq(Values) /\ Len(y) = n /\ y[1] = v /\ \A i \in 1..(n - 1) : y[i + 1] = t[i]
  BY <1>1, <1>9
<1> HIDE DEF x, y
<1>12. ASSUME NEW i \in 1..n PROVE x[i] = a[i] /\ y[i] = c[i]
  <2>1. x[i] = a[i]
    <3>1. i # n => i \in 1..(n - 1)
      BY <1>1
    <3> QED
      BY <1>7, <1>8, <1>10, <3>1
  <2>2. y[i] = c[i]
    <3>1. i # 1 => i - 1 \in 1..(n - 1) /\ (i - 1) + 1 = i
      BY <1>1
    <3>2. i # 1 => y[(i - 1) + 1] = h[(i - 1) + 1]
      BY <1>9, <1>11, <3>1
    <3> QED
      BY <1>7, <1>11, <3>1, <3>2
  <2> QED
    BY <2>1, <2>2
<1>13. x = a /\ y = c
  <2>1. x = a
    BY <1>7, <1>10, <1>12, SeqEqual
  <2>2. y = c
    BY <1>7, <1>11, <1>12, SeqEqual
  <2> QED
    BY <2>1, <2>2
<1> QED
  BY <1>4, <1>5, <1>13 DEF x, y, a, c, f, t, h, n

-----------------------------------------------------------------------------
(* What the policy keeps *)

LEMMA LimitIs ==
    ASSUME PolicyOK, NEW q \in Seq(Values)
    PROVE  /\ retention.keep = KeepAll \/ Len(q) <= retention.limit => Contract!Limit(q) = q
           /\ retention.keep = KeepFirst /\ Len(q) > retention.limit =>
                 Contract!Limit(q) = SubSeq(q, 1, retention.limit)
           /\ retention.keep = KeepLast /\ Len(q) > retention.limit =>
                 Contract!Limit(q) = SubSeq(q, Len(q) - retention.limit + 1, Len(q))
<1>1. Len(q) \in Nat /\ retention.limit \in Nat
  BY Policy
<1> USE DEF Contract!Limit, KeepAll, KeepFirst, KeepLast
<1>2. ASSUME retention.keep = KeepAll \/ Len(q) <= retention.limit
      PROVE  Contract!Limit(q) = q
  <2>1. CASE retention.keep = KeepAll
    BY <2>1
  <2>2. CASE Len(q) <= retention.limit
    BY <1>1, <2>2
  <2> QED
    BY <1>2, <2>1, <2>2
<1>3. ASSUME retention.keep = KeepFirst, Len(q) > retention.limit
      PROVE  Contract!Limit(q) = SubSeq(q, 1, retention.limit)
  BY <1>1, <1>3
<1>4. ASSUME retention.keep = KeepLast, Len(q) > retention.limit
      PROVE  Contract!Limit(q) = SubSeq(q, Len(q) - retention.limit + 1, Len(q))
  <2>1. /\ retention.keep # "KeepAll" /\ ~(Len(q) <= retention.limit)
        /\ ~(retention.keep = "KeepFirst" /\ Len(q) > retention.limit)
        /\ retention.keep = "KeepLast" /\ Len(q) > retention.limit
    BY <1>1, <1>4
  <2> QED
    BY <2>1, Zenon
<1> QED
  BY <1>2, <1>3, <1>4

LEMMA LimitFits ==
    ASSUME PolicyOK, NEW q, Fits(q)
    PROVE  Contract!Limit(Reverse(q)) = Reverse(q)
<1>1. q \in Seq(Values) /\ Reverse(q) \in Seq(Values) /\ Len(Reverse(q)) = Len(q)
  BY Backwards DEF Fits
<1> QED
  BY <1>1, LimitIs DEF Fits

\* A value that is stored as the newest.
LEMMA PushNewest ==
    ASSUME PolicyOK, NEW q, Fits(q), NEW v \in Values
    PROVE  Reverse(ImplPush(q, retention, v).queue) = Contract!Limit(Reverse(q) \o <<v>>)
<1> DEFINE h == Reverse(q)
           n == retention.limit
<1>0. /\ q \in Seq(Values) /\ h \in Seq(Values) /\ Len(h) = Len(q) /\ Len(q) \in Nat
      /\ retention.keep # KeepAll => Len(q) <= n
  BY Backwards DEF Fits
<1>1. h \o <<v>> \in Seq(Values) /\ Len(h \o <<v>>) = Len(q) + 1
  BY <1>0
<1>2. n \in Nat /\ retention.keep \in {KeepAll, KeepFirst, KeepLast}
  BY Policy
<1>3. Reverse(<<v>> \o q) = h \o <<v>>
  BY <1>0, BackwardsNewest
<1>4. CASE retention.keep = KeepAll \/ Len(q) + 1 <= n
  <2>1. ImplPush(q, retention, v).queue = <<v>> \o q
    BY <1>0, <1>2, <1>4 DEF ImplPush, Full, Outcome, KeepAll, KeepFirst, KeepLast
  <2> QED
    BY <1>1, <1>3, <1>4, <2>1, LimitIs
<1>5. CASE retention.keep = KeepFirst /\ Len(q) = n
  <2>1. ImplPush(q, retention, v).queue = q
    BY <1>0, <1>2, <1>5 DEF ImplPush, Full, Outcome, KeepAll, KeepFirst, KeepLast
  <2>2. Contract!Limit(h \o <<v>>) = SubSeq(h \o <<v>>, 1, n)
    <3>1. Len(h \o <<v>>) > n
      BY <1>1, <1>2, <1>5
    <3> QED
      BY <1>1, <1>5, <3>1, LimitIs
  <2> HIDE DEF h, n
  <2>3. SubSeq(h \o <<v>>, 1, n) = h
    BY <1>0, <1>2, <1>5
  <2> QED
    BY <2>1, <2>2, <2>3 DEF h
<1>6. CASE retention.keep = KeepLast /\ Len(q) = n
  <2>1. Contract!Limit(h \o <<v>>) = SubSeq(h \o <<v>>, 2, n + 1)
    <3>1. Len(h \o <<v>>) > n /\ Len(h \o <<v>>) - n + 1 = 2
      BY <1>1, <1>2, <1>6
    <3> QED
      BY <1>1, <1>6, <3>1, LimitIs
  <2>2. CASE n = 0
    <3>1. q = <<>> /\ ImplPush(q, retention, v).queue = q
      BY <1>0, <1>6, <2>2 DEF ImplPush, Outcome, KeepFirst, KeepLast
    <3>2. SubSeq(h \o <<v>>, 2, n + 1) = <<>>
      BY <2>2, SubSeqEmpty
    <3>3. h = <<>>
      BY <1>0, <3>1
    <3> QED
      BY <2>1, <3>1, <3>2, <3>3
  <2>3. CASE n > 0
    <3>1. q # <<>> /\ h # <<>> /\ Reverse(Front(q)) = Tail(h)
      BY <1>0, <1>6, <2>3, BackwardsTake
    <3>2. ImplPush(q, retention, v).queue = <<v>> \o Front(q)
      BY <1>2, <1>6, <2>3 DEF ImplPush, Full, Outcome, WithoutOldest, KeepAll, KeepFirst, KeepLast
    <3>3. Front(q) \in Seq(Values)
      BY <1>0, <3>1 DEF Front
    <3>4. Reverse(<<v>> \o Front(q)) = Tail(h) \o <<v>>
      BY <3>1, <3>3, BackwardsNewest
    <3> HIDE DEF h, n
    <3>5. Tail(h) \o <<v>> = SubSeq(h \o <<v>>, 2, n + 1)
      <4>1. Tail(h \o <<v>>) = SubSeq(h \o <<v>>, 2, n + 1)
        BY <1>0, <1>1, <1>6, <3>1, TailIsSubSeq
      <4>2. Tail(Append(h, v)) = Append(Tail(h), v)
        BY <1>0, <3>1, HeadTailAppend
      <4>3. Append(h, v) = h \o <<v>> /\ Append(Tail(h), v) = Tail(h) \o <<v>>
        <5>1. Tail(h) \in Seq(Values)
          BY <1>0, <3>1
        <5> QED
          BY <1>0, <5>1, AppendIsConcat
      <4> QED
        BY <4>1, <4>2, <4>3
    <3> QED
      BY <2>1, <3>2, <3>4, <3>5 DEF h
  <2> QED
    BY <1>2, <2>2, <2>3
<1> QED
  BY <1>0, <1>2, <1>4, <1>5, <1>6

\* A value that is stored as the oldest.
LEMMA PushOldest ==
    ASSUME PolicyOK, NEW q, Fits(q), NEW v \in Values
    PROVE  Reverse(ImplPushAsOldest(q, retention, v).queue) = Contract!Limit(<<v>> \o Reverse(q))
<1> DEFINE h == Reverse(q)
           n == retention.limit
<1>0. /\ q \in Seq(Values) /\ h \in Seq(Values) /\ Len(h) = Len(q) /\ Len(q) \in Nat
      /\ retention.keep # KeepAll => Len(q) <= n
  BY Backwards DEF Fits
<1>1. <<v>> \o h \in Seq(Values) /\ Len(<<v>> \o h) = Len(q) + 1
  BY <1>0
<1>2. /\ n \in Nat /\ retention.keep \in {KeepAll, KeepFirst, KeepLast}
      /\ retention.keep = KeepFirst => n > 0
  BY Policy
<1>3. Reverse(Append(q, v)) = <<v>> \o h
  BY <1>0, BackwardsOldest
<1>4. CASE retention.keep = KeepAll \/ Len(q) + 1 <= n
  <2>1. ImplPushAsOldest(q, retention, v).queue = Append(q, v)
    BY <1>0, <1>2, <1>4 DEF ImplPushAsOldest, Full, Outcome, KeepAll, KeepFirst, KeepLast
  <2> QED
    BY <1>1, <1>3, <1>4, <2>1, LimitIs
<1>5. CASE retention.keep = KeepFirst /\ Len(q) = n
  <2>1. ImplPushAsOldest(q, retention, v).queue = Append(Tail(q), v)
    BY <1>0, <1>2, <1>5 DEF ImplPushAsOldest, Full, Outcome, WithoutNewest, KeepAll, KeepFirst, KeepLast
  <2>2. Contract!Limit(<<v>> \o h) = SubSeq(<<v>> \o h, 1, n)
    <3>1. Len(<<v>> \o h) > n
      BY <1>1, <1>2, <1>5
    <3> QED
      BY <1>1, <1>5, <3>1, LimitIs
  <2>3. q # <<>> /\ h # <<>> /\ Reverse(Tail(q)) = Front(h) /\ Tail(q) \in Seq(Values)
    BY <1>0, <1>2, <1>5, BackwardsTake
  <2>4. Reverse(Append(Tail(q), v)) = <<v>> \o Front(h)
    BY <2>3, BackwardsOldest
  <2> HIDE DEF h, n
  <2>5. <<v>> \o Front(h) = SubSeq(<<v>> \o h, 1, n)
    <3> DEFINE a == <<v>> \o h
               f == Front(h)
    <3>1. a \in Seq(Values) /\ Len(a) = n + 1 /\ a[1] = v /\ \A i \in 1..n : a[i + 1] = h[i]
      BY <1>0, <1>5
    <3>2. f \in Seq(Values) /\ Len(f) = n - 1 /\ \A i \in 1..(n - 1) : f[i] = h[i]
      <4>1. f = SubSeq(h, 1, n - 1) /\ 1 \in Int /\ n - 1 \in Int /\ \A i \in 1..(n - 1) : h[i] \in Values
        BY <1>0, <1>2, <1>5 DEF Front
      <4>2. /\ f \in Seq(Values) /\ Len(f) = IF 1 <= n - 1 THEN n - 1 - 1 + 1 ELSE 0
            /\ \A i \in 1..(n - 1 - 1 + 1) : f[i] = h[1 + i - 1]
        BY <4>1, SubSeqProperties
      <4> HIDE DEF f
      <4> QED
        BY <1>2, <1>5, <4>2
    <3> HIDE DEF a, f
    <3> DEFINE b == <<v>> \o f
               c == SubSeq(a, 1, n)
    <3>3. b \in Seq(Values) /\ Len(b) = n /\ b[1] = v /\ \A i \in 1..(n - 1) : b[i + 1] = f[i]
      BY <1>2, <1>5, <3>2
    <3>4. c \in Seq(Values) /\ Len(c) = n /\ \A i \in 1..n : c[i] = a[i]
      <4>1. 1 \in Int /\ n \in Int /\ \A i \in 1..n : a[i] \in Values
        BY <1>2, <3>1
      <4>2. /\ c \in Seq(Values) /\ Len(c) = IF 1 <= n THEN n - 1 + 1 ELSE 0
            /\ \A i \in 1..(n - 1 + 1) : c[i] = a[1 + i - 1]
        BY <4>1, SubSeqProperties
      <4> HIDE DEF c
      <4> QED
        BY <1>2, <1>5, <4>2
    <3> HIDE DEF b, c
    <3>5. ASSUME NEW i \in 1..n PROVE b[i] = c[i]
      <4>1. CASE i = 1
        BY <3>1, <3>3, <3>4, <4>1
      <4>2. CASE i # 1
        <5>1. i - 1 \in 1..(n - 1) /\ i - 1 \in 1..n /\ (i - 1) + 1 = i
          BY <1>2, <4>2
        <5>2. b[(i - 1) + 1] = h[i - 1] /\ a[(i - 1) + 1] = h[i - 1]
          BY <3>1, <3>2, <3>3, <5>1
        <5> QED
          BY <3>4, <5>1, <5>2
      <4> QED
        BY <4>1, <4>2
    <3>6. b = c
      BY <3>3, <3>4, <3>5, SeqEqual
    <3> QED
      BY <3>6 DEF a, b, c, f
  <2> QED
    BY <2>1, <2>2, <2>4, <2>5 DEF h
<1>6. CASE retention.keep = KeepLast /\ Len(q) = n
  <2>1. ImplPushAsOldest(q, retention, v).queue = q
    BY <1>2, <1>6 DEF ImplPushAsOldest, Full, Outcome, KeepAll, KeepFirst, KeepLast
  <2>2. Contract!Limit(<<v>> \o h) = SubSeq(<<v>> \o h, 2, n + 1)
    <3>1. Len(<<v>> \o h) > n /\ Len(<<v>> \o h) - n + 1 = 2
      BY <1>1, <1>2, <1>6
    <3> QED
      BY <1>1, <1>6, <3>1, LimitIs
  <2> HIDE DEF h, n
  <2>3. SubSeq(<<v>> \o h, 2, n + 1) = h
    <3>1. <<v>> \o h # <<>> /\ Tail(<<v>> \o h) = h
      BY <1>0, <1>1
    <3> QED
      BY <1>0, <1>1, <1>6, <3>1, TailIsSubSeq
  <2> QED
    BY <2>1, <2>2, <2>3 DEF h
<1> QED
  BY <1>0, <1>2, <1>4, <1>5, <1>6

\* To cut a queue to size before a value is added makes no difference.
LEMMA LimitTwice ==
    ASSUME PolicyOK, NEW h \in Seq(Values), NEW v \in Values
    PROVE  /\ Contract!Limit(h) \in Seq(Values)
           /\ Contract!Limit(Contract!Limit(h) \o <<v>>) = Contract!Limit(h \o <<v>>)
<1> DEFINE n == retention.limit
           m == Len(h)
           e == h \o <<v>>
<1>1. /\ n \in Nat /\ retention.keep \in {KeepAll, KeepFirst, KeepLast} /\ m \in Nat
      /\ retention.keep = KeepFirst => n > 0
  BY Policy
<1>2. e \in Seq(Values) /\ Len(e) = m + 1 /\ \A i \in 1..(m + 1) : e[i] = IF i <= m THEN h[i] ELSE v
  <2>1. <<v>> \in Seq(Values) /\ Len(<<v>>) = 1 /\ <<v>>[1] = v
    OBVIOUS
  <2>2. /\ e \in Seq(Values) /\ Len(e) = m + 1
        /\ \A i \in 1..(m + 1) : e[i] = IF i <= m THEN h[i] ELSE <<v>>[i - m]
    BY <2>1, ConcatProperties
  <2>3. \A i \in 1..(m + 1) : ~(i <= m) => i - m = 1
    BY <1>1
  <2> HIDE DEF e, m
  <2> QED
    BY <2>1, <2>2, <2>3
<1>3. CASE retention.keep = KeepAll \/ m <= n
  BY <1>3, LimitIs
<1>4. CASE retention.keep = KeepFirst /\ m > n
  <2> DEFINE p == SubSeq(h, 1, n)
  <2>1. Contract!Limit(h) = p
    BY <1>4, LimitIs
  <2>2. p \in Seq(Values) /\ Len(p) = n
    BY <1>1, <1>4
  <2>3. Contract!Limit(e) = SubSeq(e, 1, n)
    <3>1. Len(e) > n
      BY <1>1, <1>2, <1>4
    <3> QED
      BY <1>2, <1>4, <3>1, LimitIs
  <2>4. SubSeq(e, 1, n) = p
    <3>1. <<v>> \in Seq(Values) /\ 1 \in 1..Len(h) /\ n \in 1..Len(h)
      BY <1>1, <1>4
    <3> QED
      BY <3>1, SubSeqOfConcat1
  <2> HIDE DEF p
  <2>5. p \o <<v>> \in Seq(Values) /\ Len(p \o <<v>>) = n + 1
    BY <2>2
  <2>6. Contract!Limit(p \o <<v>>) = SubSeq(p \o <<v>>, 1, n)
    <3>1. Len(p \o <<v>>) > n
      BY <1>1, <2>5
    <3> QED
      BY <1>4, <2>5, <3>1, LimitIs
  <2>7. SubSeq(p \o <<v>>, 1, n) = p
    <3>1. <<v>> \in Seq(Values) /\ 1 \in 1..Len(p) /\ n \in 1..Len(p)
      BY <1>1, <1>4, <2>2
    <3>2. SubSeq(p \o <<v>>, 1, n) = SubSeq(p, 1, n)
      BY <2>2, <3>1, SubSeqOfConcat1
    <3> QED
      BY <2>2, <3>2, SubSeqFull
  <2> QED
    BY <2>1, <2>2, <2>3, <2>4, <2>6, <2>7
<1>5. CASE retention.keep = KeepLast /\ m > n
  <2> DEFINE p == SubSeq(h, m - n + 1, m)
             d == p \o <<v>>
             l == SubSeq(d, 2, n + 1)
             r == SubSeq(e, m - n + 2, m + 1)
  <2>1. Contract!Limit(h) = p
    BY <1>5, LimitIs
  <2>2. p \in Seq(Values) /\ Len(p) = n /\ \A i \in 1..n : p[i] = h[m - n + i]
    <3>1. m - n + 1 \in Int /\ m \in Int /\ \A i \in (m - n + 1)..m : h[i] \in Values
      BY <1>1, <1>5
    <3>2. /\ p \in Seq(Values) /\ Len(p) = IF m - n + 1 <= m THEN m - (m - n + 1) + 1 ELSE 0
          /\ \A i \in 1..(m - (m - n + 1) + 1) : p[i] = h[(m - n + 1) + i - 1]
      BY <3>1, SubSeqProperties
    <3>3. /\ m - (m - n + 1) + 1 = n /\ (m - n + 1 <= m <=> n # 0)
          /\ \A i \in 1..n : (m - n + 1) + i - 1 = m - n + i
      BY <1>1
    <3> HIDE DEF p, m, n
    <3> QED
      BY <1>1, <3>2, <3>3
  <2>3. Contract!Limit(e) = r
    <3>1. Len(e) > n /\ Len(e) - n + 1 = m - n + 2
      BY <1>1, <1>2, <1>5
    <3> QED
      BY <1>2, <1>5, <3>1, LimitIs
  <2> HIDE DEF p
  <2>4. d \in Seq(Values) /\ Len(d) = n + 1 /\ \A i \in 1..(n + 1) : d[i] = IF i <= n THEN p[i] ELSE v
    <3>1. <<v>> \in Seq(Values) /\ Len(<<v>>) = 1 /\ <<v>>[1] = v
      OBVIOUS
    <3>2. /\ d \in Seq(Values) /\ Len(d) = n + 1
          /\ \A i \in 1..(n + 1) : d[i] = IF i <= n THEN p[i] ELSE <<v>>[i - n]
      BY <2>2, <3>1, ConcatProperties
    <3>3. \A i \in 1..(n + 1) : ~(i <= n) => i - n = 1
      BY <1>1
    <3> HIDE DEF d, n
    <3> QED
      BY <3>1, <3>2, <3>3
  <2>5. Contract!Limit(d) = l
    <3>1. Len(d) > n /\ Len(d) - n + 1 = 2
      BY <1>1, <2>4
    <3> QED
      BY <1>5, <2>4, <3>1, LimitIs
  <2> HIDE DEF d, e
  <2>6. l \in Seq(Values) /\ Len(l) = n /\ \A i \in 1..n : l[i] = d[i + 1]
    <3>1. 2 \in Int /\ n + 1 \in Int /\ \A i \in 2..(n + 1) : d[i] \in Values
      BY <1>1, <2>4
    <3>2. /\ l \in Seq(Values) /\ Len(l) = IF 2 <= n + 1 THEN (n + 1) - 2 + 1 ELSE 0
          /\ \A i \in 1..((n + 1) - 2 + 1) : l[i] = d[2 + i - 1]
      BY <3>1, SubSeqProperties
    <3>3. (n + 1) - 2 + 1 = n /\ (2 <= n + 1 <=> n # 0) /\ \A i \in 1..n : 2 + i - 1 = i + 1
      BY <1>1
    <3> HIDE DEF l, n
    <3> QED
      BY <1>1, <3>2, <3>3
  <2>7. r \in Seq(Values) /\ Len(r) = n /\ \A i \in 1..n : r[i] = e[m - n + i + 1]
    <3>1. m - n + 2 \in Int /\ m + 1 \in Int /\ \A i \in (m - n + 2)..(m + 1) : e[i] \in Values
      <4>1. \A i \in (m - n + 2)..(m + 1) : i \in 1..(m + 1)
        BY <1>1, <1>5
      <4> QED
        BY <1>1, <1>2, <4>1
    <3>2. /\ r \in Seq(Values)
          /\ Len(r) = IF m - n + 2 <= m + 1 THEN (m + 1) - (m - n + 2) + 1 ELSE 0
          /\ \A i \in 1..((m + 1) - (m - n + 2) + 1) : r[i] = e[(m - n + 2) + i - 1]
      BY <3>1, SubSeqProperties
    <3>3. /\ (m + 1) - (m - n + 2) + 1 = n /\ (m - n + 2 <= m + 1 <=> n # 0)
          /\ \A i \in 1..n : (m - n + 2) + i - 1 = m - n + i + 1
      BY <1>1
    <3> HIDE DEF r, m, n
    <3> QED
      BY <1>1, <3>2, <3>3
  <2> HIDE DEF l, r, n, m
  <2>8. ASSUME NEW i \in 1..n PROVE l[i] = r[i]
    <3>1. i + 1 \in 1..(n + 1) /\ m - n + i + 1 \in 1..(m + 1) /\ (m - n + i + 1 <= m <=> i + 1 <= n)
          /\ m - n + (i + 1) = m - n + i + 1
      BY <1>1, <1>5
    <3>2. d[i + 1] = IF i + 1 <= n THEN p[i + 1] ELSE v
      BY <2>4, <3>1
    <3>3. i + 1 <= n => p[i + 1] = h[m - n + i + 1]
      <4>1. i + 1 <= n => i + 1 \in 1..n
        BY <1>1
      <4> QED
        BY <2>2, <3>1, <4>1
    <3>4. e[m - n + i + 1] = IF i + 1 <= n THEN h[m - n + i + 1] ELSE v
      BY <1>2, <3>1
    <3> QED
      BY <2>6, <2>7, <3>2, <3>3, <3>4
  <2>9. l = r
    BY <2>6, <2>7, <2>8, SeqEqual
  <2> QED
    BY <2>1, <2>2, <2>3, <2>5, <2>9 DEF d, e
<1> QED
  BY <1>1, <1>3, <1>4, <1>5

\* What a cleanup stores is what the policy keeps of all of it together.
LEMMA StoredBackwards ==
    ASSUME StorageOK, NEW s \in Sessions, Len(input[s]) > 0
    PROVE  Reverse(StoredAtCleanup(s)) = Contract!Limit(Reverse(Queue(s)) \o Reverse(input[s]))
<1> DEFINE n == Len(input[s])
           h == Reverse(Queue(s))
           w == Reverse(input[s])
           k == StoredUpTo(s)
           g(i) == h \o SubSeq(w, 1, i)
           T == {i \in 0..n : Reverse(k[i]) = Contract!Limit(g(i))}
<1>0. PolicyOK /\ Fits(Queue(s))
  BY QueueFits DEF StorageOK
<1>1. input[s] \in Seq(Values) /\ n \in Nat /\ n > 0
  BY DEF StorageOK
<1>2. /\ w \in Seq(Values) /\ Len(w) = n /\ h \in Seq(Values)
      /\ \A i \in 1..n : w[i] = input[s][n + 1 - i]
  BY <1>0, <1>1, Backwards DEF Fits
<1>3. k[0] = Queue(s) /\ \A i \in 1..n : Fits(k[i - 1]) /\ k[i] = ForcePush(k[i - 1], input[s][n + 1 - i])
  BY StoredStep
<1>4. \A i \in 1..n : w[i] \in Values /\ k[i] = ImplPush(k[i - 1], retention, w[i]).queue
  BY <1>1, <1>2, <1>3 DEF ForcePush
<1> HIDE DEF n, h, w, k
<1>5. 0 \in T
  <2>1. SubSeq(w, 1, 0) = <<>>
    BY SubSeqEmpty
  <2>2. g(0) = h
    BY <1>2, <2>1, ConcatEmptySeq
  <2>3. Contract!Limit(h) = h
    BY <1>0, LimitFits DEF h
  <2>4. Reverse(k[0]) = h
    BY <1>3 DEF h
  <2> HIDE DEF g
  <2> QED
    BY <1>1, <2>2, <2>3, <2>4
<1>6. ASSUME NEW i \in 1..n, i - 1 \in T PROVE i \in T
  <2>1. Reverse(k[i]) = Contract!Limit(Reverse(k[i - 1]) \o <<w[i]>>)
    BY <1>0, <1>3, <1>4, PushNewest
  <2>2. Reverse(k[i - 1]) = Contract!Limit(g(i - 1))
    BY <1>6
  <2>3. SubSeq(w, 1, i - 1) \in Seq(Values)
    BY <1>1, <1>2
  <2>4. g(i - 1) \in Seq(Values)
    BY <1>2, <2>3
  <2>5. Reverse(k[i]) = Contract!Limit(g(i - 1) \o <<w[i]>>)
    <3> HIDE DEF g
    <3> QED
      BY <1>0, <1>4, <2>1, <2>2, <2>4, LimitTwice
  <2>6. SubSeq(w, 1, i) = SubSeq(w, 1, i - 1) \o <<w[i]>>
    <3>1. 1 \in 1..Len(w) /\ i \in 1..Len(w)
      BY <1>1, <1>2
    <3> QED
      BY <1>2, <3>1, SubSeqRecursiveSecond
  <2>7. g(i - 1) \o <<w[i]>> = g(i)
    <3> DEFINE a == SubSeq(w, 1, i - 1)
               b == <<w[i]>>
    <3>1. a \in Seq(Values) /\ b \in Seq(Values) /\ SubSeq(w, 1, i) = a \o b
      BY <1>4, <2>3, <2>6
    <3>2. g(i - 1) \o b = (h \o a) \o b /\ g(i) = h \o SubSeq(w, 1, i)
      OBVIOUS
    <3> HIDE DEF a, b, g
    <3>3. (h \o a) \o b = h \o (a \o b)
      <4>1. h \in Seq(Values) /\ a \in Seq(Values) /\ b \in Seq(Values)
        BY <1>2, <3>1
      <4> QED
        BY <4>1, ConcatAssociative
    <3>4. g(i - 1) \o b = g(i)
      BY <3>1, <3>2, <3>3
    <3> QED
      BY <3>4 DEF b
  <2>8. i \in 0..n
    BY <1>1
  <2> HIDE DEF g
  <2> QED
    BY <2>5, <2>7, <2>8
<1>7. n \in T
  <2>1. 0..n \subseteq T
    <3> HIDE DEF T
    <3> QED
      BY <1>1, <1>5, <1>6, UpTo
  <2> QED
    BY <1>1, <2>1
<1>8. SubSeq(w, 1, n) = w
  BY <1>2, SubSeqFull
<1> QED
  BY <1>7, <1>8 DEF StoredAtCleanup, n, h, w, k

-----------------------------------------------------------------------------
(* Each step of the buffer is a step of the contract *)

Held == [s \in Sessions |-> Reverse(Queue(s))]
Opened == [s \in Sessions |-> storage[s] # None]

LEMMA HeldOf ==
    ASSUME Typed, NEW s \in Sessions
    PROVE  /\ PolicyOK /\ Fits(Queue(s)) /\ Queue(s) \in Seq(Values)
           /\ Held[s] = Reverse(Queue(s)) /\ (Opened[s] <=> storage[s] # None)
           /\ Held[s] \in Seq(Values) /\ Len(Held[s]) = Len(Queue(s))
<1>1. PolicyOK /\ Fits(Queue(s))
  BY QueueFits DEF Typed, StoreType, StorageOK
<1>2. Queue(s) \in Seq(Values)
  BY <1>1 DEF Fits
<1> QED
  BY <1>1, <1>2, Backwards DEF Held, Opened

LEMMA Replaced ==
    ASSUME Typed, NEW s \in Sessions, NEW q \in Seq(Values), storage' = [storage EXCEPT ![s] = q]
    PROVE  /\ Held' = [Held EXCEPT ![s] = Reverse(q)]
           /\ Opened' = [Opened EXCEPT ![s] = TRUE]
           /\ storage[s] # None => UNCHANGED Opened
<1>1. storage \in [Sessions -> Seq(Values) \cup {None}] /\ q # None
  BY NoneAssumption DEF Typed, StoreType, StorageOK
<1>2. \A t \in Sessions : Queue(t)' = (IF t = s THEN q ELSE Queue(t))
                          /\ (storage'[t] # None <=> t = s \/ storage[t] # None)
  BY <1>1 DEF Queue
<1>3. \A t \in Sessions : Reverse(Queue(t)') = IF t = s THEN Reverse(q) ELSE Reverse(Queue(t))
  BY <1>2
<1>4. Held' = [Held EXCEPT ![s] = Reverse(q)]
  BY <1>3 DEF Held
<1> QED
  BY <1>2, <1>4 DEF Opened

LEMMA Untouched ==
    ASSUME UNCHANGED storage
    PROVE  UNCHANGED <<Held, Opened>>
BY DEF Held, Opened, Queue

\* The state of the contract
LEMMA ContractVars == UNCHANGED <<retention, Held, Opened>> => UNCHANGED Contract!vars
BY DEF Contract!vars, Held, Opened

ContractStep == Contract!Next \/ UNCHANGED Contract!vars

\* A step of the contract, unless it changes nothing.
LEMMA AsStep ==
    ASSUME UNCHANGED retention, NEW s \in Sessions, Contract!Step(s)
    PROVE  ContractStep
<1>1. CASE UNCHANGED <<Held, Opened>>
  BY <1>1, ContractVars DEF ContractStep
<1>2. CASE <<Held, Opened>>' # <<Held, Opened>>
  <2>1. <<Opened, Held>>' # <<Opened, Held>>
    BY <1>2
  <2> QED
    BY <2>1 DEF ContractStep, Contract!Next, Held, Opened
<1> QED
  BY <1>1, <1>2

LEMMA AsPutNewest ==
    ASSUME Typed, UNCHANGED retention, NEW s \in Sessions, NEW n \in 1..MaxInputs \cup {1},
           NEW vs \in [1..n -> Values],
           Held' = [Held EXCEPT ![s] = Contract!Limit(Held[s] \o vs)],
           Opened' = [Opened EXCEPT ![s] = TRUE]
    PROVE  ContractStep
<1>1. vs \in Groups
  BY DEF Groups
<1>2. Contract!PutNewest(s, vs)
  BY DEF Contract!PutNewest, Held, Opened
<1> QED
  BY <1>1, <1>2, AsStep DEF Contract!Step

LEMMA AsOpen ==
    ASSUME Typed, UNCHANGED <<retention, Held>>, NEW s \in Sessions, ~Opened[s],
           Opened' = [Opened EXCEPT ![s] = TRUE]
    PROVE  ContractStep
<1>1. Contract!Open(s)
  BY DEF Contract!Open, Held, Opened
<1> QED
  BY <1>1, AsStep DEF Contract!Step

LEMMA AsClose ==
    ASSUME Typed, UNCHANGED retention, NEW s \in Sessions, Opened[s],
           Opened' = [Opened EXCEPT ![s] = FALSE], Held' = [Held EXCEPT ![s] = <<>>]
    PROVE  ContractStep
<1>1. Contract!Close(s)
  BY DEF Contract!Close, Held, Opened
<1> QED
  BY <1>1, AsStep DEF Contract!Step

\* The other actions of the contract leave open sessions open.
LEMMA AsChange ==
    ASSUME Typed, UNCHANGED <<retention, Opened>>, NEW s \in Sessions, Opened[s], NEW h,
           Held' = [Held EXCEPT ![s] = h],
           \/ Held[s] # <<>> /\ h \in {Tail(Held[s]), Front(Held[s])}
           \/ \E v \in Values : h = Contract!Limit(<<v>> \o Held[s])
           \/ \E i, j \in 1..Len(Held[s]) :
                 i <= j /\ h = SubSeq(Held[s], 1, i - 1) \o SubSeq(Held[s], j + 1, Len(Held[s]))
           \/ \E i \in 1..Len(Held[s]), v \in Values : h = [Held[s] EXCEPT ![i] = v]
    PROVE  ContractStep
<1>0. DOMAIN Held[s] = 1..Len(Held[s])
  BY HeldOf
<1> USE DEF Held, Opened
<1>1. Contract!Becomes(s, h)
  BY DEF Contract!Becomes
<1>2. ASSUME Held[s] # <<>>, h = Tail(Held[s]) PROVE Contract!TakeOldest(s)
  BY <1>1, <1>2 DEF Contract!TakeOldest
<1>3. ASSUME Held[s] # <<>>, h = Front(Held[s]) PROVE Contract!TakeNewest(s)
  BY <1>1, <1>3 DEF Contract!TakeNewest, Contract!Front, Front
<1>4. ASSUME NEW v \in Values, h = Contract!Limit(<<v>> \o Held[s]) PROVE Contract!PutOldest(s, v)
  BY <1>1, <1>4 DEF Contract!PutOldest
<1>5. ASSUME NEW i \in 1..Len(Held[s]), NEW j \in 1..Len(Held[s]), i <= j,
             h = SubSeq(Held[s], 1, i - 1) \o SubSeq(Held[s], j + 1, Len(Held[s]))
      PROVE  Contract!TakeRange(s, i, j)
  BY <1>1, <1>5 DEF Contract!TakeRange
<1>6. ASSUME NEW i \in 1..Len(Held[s]), NEW v \in Values, h = [Held[s] EXCEPT ![i] = v]
      PROVE  Contract!Overwrite(s, i, v)
  BY <1>1, <1>6 DEF Contract!Overwrite
<1>7. ASSUME Contract!Step(s) PROVE ContractStep
  BY <1>7, AsStep
<1>8. Contract!Step(s)
  BY <1>0, <1>2, <1>3, <1>4, <1>5, <1>6 DEF Contract!Step
<1> QED
  BY <1>7, <1>8

\* One value is stored as the newest.
LEMMA PushStep ==
    ASSUME Typed, UNCHANGED retention, NEW s \in Sessions, NEW v \in Values,
           storage' = [storage EXCEPT ![s] = ImplPush(Queue(s), retention, v).queue]
    PROVE  ContractStep
<1> DEFINE q == ImplPush(Queue(s), retention, v).queue
           vs == <<v>>
<1>1. PolicyOK /\ Fits(Queue(s)) /\ Held[s] = Reverse(Queue(s))
  BY HeldOf
<1>2. q \in Seq(Values) /\ Reverse(q) = Contract!Limit(Held[s] \o vs)
  BY <1>1, PushFits, PushNewest DEF Fits
<1>3. storage' = [storage EXCEPT ![s] = q]
  OBVIOUS
<1>4. vs \in [1..1 -> Values] /\ 1 \in 1..MaxInputs \cup {1}
  OBVIOUS
<1> HIDE DEF q, vs
<1>5. Held' = [Held EXCEPT ![s] = Reverse(q)] /\ Opened' = [Opened EXCEPT ![s] = TRUE]
  BY <1>2, <1>3, Replaced
<1>6. Held' = [Held EXCEPT ![s] = Contract!Limit(Held[s] \o vs)]
  BY <1>2, <1>5
<1> QED
  BY <1>4, <1>5, <1>6, AsPutNewest

\* The inputs of a session are stored at a cleanup.
LEMMA CleanStep ==
    ASSUME Typed, UNCHANGED retention, NEW s \in Sessions, CleanBuffer(s)
    PROVE  ContractStep
<1>1. CASE input[s] = <<>>
  BY <1>1, Untouched, ContractVars DEF CleanBuffer, ContractStep
<1>2. CASE input[s] # <<>>
  <2> DEFINE q == StoredAtCleanup(s)
             n == Len(input[s])
             vs == Reverse(input[s])
  <2>1. StorageOK /\ input[s] \in Seq(Values) /\ n \in 1..MaxInputs
    BY <1>2 DEF Typed, StoreType, StorageOK
  <2>2. q \in Seq(Values)
    BY <2>1, StoredFits DEF Fits
  <2>3. Reverse(q) = Contract!Limit(Held[s] \o vs)
    BY <2>1, StoredBackwards, HeldOf
  <2>4. storage' = [storage EXCEPT ![s] = q]
    BY <1>2 DEF CleanBuffer
  <2>5. vs \in [1..n -> Values]
    <3>1. vs \in Seq(Values) /\ Len(vs) = n
      BY <2>1, Backwards
    <3> HIDE DEF vs, n
    <3> QED
      BY <3>1
  <2> HIDE DEF q, vs, n
  <2>6. Held' = [Held EXCEPT ![s] = Reverse(q)] /\ Opened' = [Opened EXCEPT ![s] = TRUE]
    BY <2>2, <2>4, Replaced
  <2>7. Held' = [Held EXCEPT ![s] = Contract!Limit(Held[s] \o vs)]
    BY <2>3, <2>6
  <2> QED
    BY <2>1, <2>5, <2>6, <2>7, AsPutNewest
<1> QED
  BY <1>1, <1>2

\* The accessor makes a key, for which the buffer has to know the session.
LEMMA AccessStep ==
    ASSUME Typed, UNCHANGED retention, NEW s \in Sessions, NEW a, GetAccessKeys(a, s)
    PROVE  ContractStep
<1>1. CASE s \notin keyed[a] /\ storage[s] = None
  <2>1. storage' = [storage EXCEPT ![s] = <<>>] /\ <<>> \in Seq(Values)
    BY <1>1 DEF GetAccessKeys
  <2>2. Held' = [Held EXCEPT ![s] = Reverse(<<>>)] /\ Opened' = [Opened EXCEPT ![s] = TRUE]
    BY <2>1, Replaced
  <2>3. Held[s] = Reverse(<<>>) /\ ~Opened[s]
    BY <1>1 DEF Held, Opened, Queue
  <2>4. Held' = Held
    BY <2>2, <2>3 DEF Held
  <2> QED
    BY <2>2, <2>3, <2>4, AsOpen
<1>2. CASE ~(s \notin keyed[a] /\ storage[s] = None)
  BY <1>2, Untouched, ContractVars DEF GetAccessKeys, ContractStep
<1> QED
  BY <1>1, <1>2

\* A call that leaves q in the storage of a session that the buffer knows.
LEMMA ChangeStep ==
    ASSUME Typed, UNCHANGED retention, NEW s \in Sessions, storage[s] # None, NEW q \in Seq(Values),
           storage' = [storage EXCEPT ![s] = q],
           \/ Held[s] # <<>> /\ Reverse(q) \in {Tail(Held[s]), Front(Held[s])}
           \/ \E v \in Values : Reverse(q) = Contract!Limit(<<v>> \o Held[s])
           \/ \E i, j \in 1..Len(Held[s]) :
                 /\ i <= j
                 /\ Reverse(q) = SubSeq(Held[s], 1, i - 1) \o SubSeq(Held[s], j + 1, Len(Held[s]))
           \/ \E i \in 1..Len(Held[s]), v \in Values : Reverse(q) = [Held[s] EXCEPT ![i] = v]
    PROVE  ContractStep
<1> DEFINE h == Reverse(q)
<1>1. Held' = [Held EXCEPT ![s] = h] /\ UNCHANGED Opened /\ Opened[s]
  BY Replaced, HeldOf
<1>2. \/ Held[s] # <<>> /\ h \in {Tail(Held[s]), Front(Held[s])}
      \/ \E v \in Values : h = Contract!Limit(<<v>> \o Held[s])
      \/ \E i, j \in 1..Len(Held[s]) :
            i <= j /\ h = SubSeq(Held[s], 1, i - 1) \o SubSeq(Held[s], j + 1, Len(Held[s]))
      \/ \E i \in 1..Len(Held[s]), v \in Values : h = [Held[s] EXCEPT ![i] = v]
  OBVIOUS
<1> HIDE DEF h
<1> QED
  BY <1>1, <1>2, AsChange

\* The oldest value is taken, if there is one: a join, or pull().
LEMMA PullStep ==
    ASSUME Typed, UNCHANGED retention, NEW s \in Sessions, storage[s] # None,
           storage' = [storage EXCEPT ![s] = Pull(Queue(s)).queue]
    PROVE  ContractStep
<1> DEFINE q == Queue(s)
<1>1. q \in Seq(Values) /\ Held[s] = Reverse(q)
  BY HeldOf
<1>2. q = storage[s] /\ storage \in [Sessions -> Seq(Values) \cup {None}]
  BY DEF Queue, Typed, StoreType, StorageOK
<1> HIDE DEF q
<1>3. CASE q = <<>>
  <2>1. UNCHANGED storage
    BY <1>2, <1>3 DEF Pull, Outcome, q
  <2> QED
    BY <2>1, Untouched, ContractVars DEF ContractStep
<1>4. CASE q # <<>>
  <2>1. storage' = [storage EXCEPT ![s] = Front(q)]
    BY <1>4 DEF Pull, Outcome, WithoutOldest, q
  <2>2. Front(q) \in Seq(Values) /\ Held[s] # <<>> /\ Reverse(Front(q)) = Tail(Held[s])
    <3>1. Front(q) \in Seq(Values)
      BY <1>1, <1>4 DEF Front
    <3> QED
      BY <1>1, <1>4, <3>1, BackwardsTake
  <2> QED
    BY <2>1, <2>2, ChangeStep
<1> QED
  BY <1>3, <1>4

LEMMA MutContractStep ==
    ASSUME Typed, MutStep
    PROVE  ContractStep
<1> DEFINE s == mut.session
           q == Queue(s)
<1>1. Modified /\ s \in Sessions /\ UNCHANGED retention
  BY MutStepTyped, ModifiedType
<1>2. PolicyOK /\ Fits(q) /\ q \in Seq(Values) /\ Held[s] = Reverse(q) /\ Len(Held[s]) = Len(q)
  BY <1>1, HeldOf
<1>3. storage \in [Sessions -> Seq(Values) \cup {None}]
  BY DEF Typed, StoreType, StorageOK
<1>4. CASE storage[s] = None
  <2>1. ASSUME NEW x, Update(x) PROVE UNCHANGED storage
    BY <1>1, <1>3, <1>4, <2>1 DEF Update
  <2>2. UNCHANGED storage
    BY <2>1 DEF MutStep, MutPush, MutPushAsOldest, MutNewest, MutOldest, MutPull,
                MutPullNewest, Pulse, MutDrain
  <2> QED
    BY <1>1, <2>2, Untouched, ContractVars DEF ContractStep
<1>5. CASE storage[s] # None
  <2>0. ASSUME NEW x, Update(x) PROVE storage' = [storage EXCEPT ![s] = x]
    BY <1>1, <1>3, <1>5, <2>0 DEF Update
  <2>1. q = storage[s]
    BY <1>5 DEF Queue
  <2>2. ASSUME storage' = [storage EXCEPT ![s] = q] PROVE ContractStep
    <3>1. UNCHANGED storage
      BY <1>1, <1>3, <2>1, <2>2
    <3> QED
      BY <1>1, <3>1, Untouched, ContractVars DEF ContractStep
  <2> HIDE DEF s, q
  <2>3. ASSUME NEW v \in Values, MutPush(v) PROVE ContractStep
    <3>1. storage' = [storage EXCEPT ![s] = ImplPush(Queue(s), retention, v).queue]
      BY <2>0, <2>3 DEF MutPush, s
    <3> QED
      BY <1>1, <3>1, PushStep
  <2>4. ASSUME NEW v \in Values, MutPushAsOldest(v) PROVE ContractStep
    <3> DEFINE x == ImplPushAsOldest(q, retention, v).queue
    <3>1. storage' = [storage EXCEPT ![s] = x]
      BY <2>0, <2>4 DEF MutPushAsOldest, s, q
    <3>2. x \in Seq(Values) /\ Reverse(x) = Contract!Limit(<<v>> \o Held[s])
      BY <1>2, PushAsOldestFits, PushOldest DEF Fits
    <3> HIDE DEF x
    <3> QED
      BY <1>1, <1>5, <3>1, <3>2, ChangeStep
  <2>5. ASSUME NEW v \in Values, MutNewest(v) \/ MutOldest(v) PROVE ContractStep
    <3>1. CASE q = <<>>
      <4>1. storage' = [storage EXCEPT ![s] = q]
        BY <2>0, <2>5, <3>1 DEF MutNewest, MutOldest, SetNewest, SetOldest, s, q
      <4> QED
        BY <2>2, <4>1
    <3>2. CASE q # <<>>
      <4>1. ASSUME NEW x \in Seq(Values), NEW i \in 1..Len(Held[s]),
                   storage' = [storage EXCEPT ![s] = x], Reverse(x) = [Held[s] EXCEPT ![i] = v]
            PROVE  ContractStep
        <5>1. \E j \in 1..Len(Held[s]), u \in Values : Reverse(x) = [Held[s] EXCEPT ![j] = u]
          BY <4>1
        <5> QED
          BY <1>1, <1>5, <4>1, <5>1, ChangeStep
      <4>2. 1 \in 1..Len(Held[s]) /\ Len(q) \in 1..Len(Held[s])
        BY <1>2, <3>2
      <4>3. CASE MutNewest(v)
        <5> DEFINE x == SetNewest(q, v)
        <5>1. storage' = [storage EXCEPT ![s] = x]
          BY <2>0, <4>3 DEF MutNewest, s, q
        <5>2. x \in Seq(Values) /\ Reverse(x) = [Held[s] EXCEPT ![Len(q)] = v]
          BY <1>2, <3>2, SetFits, BackwardsSet DEF Fits
        <5> HIDE DEF x
        <5> QED
          BY <4>1, <4>2, <5>1, <5>2
      <4>4. CASE MutOldest(v)
        <5> DEFINE x == SetOldest(q, v)
        <5>1. storage' = [storage EXCEPT ![s] = x]
          BY <2>0, <4>4 DEF MutOldest, s, q
        <5>2. x \in Seq(Values) /\ Reverse(x) = [Held[s] EXCEPT ![1] = v]
          BY <1>2, <3>2, SetFits, BackwardsSet DEF Fits
        <5> HIDE DEF x
        <5> QED
          BY <4>1, <4>2, <5>1, <5>2
      <4> QED
        BY <2>5, <4>3, <4>4
    <3> QED
      BY <3>1, <3>2
  <2>6. CASE MutPull
    <3>1. storage' = [storage EXCEPT ![s] = Pull(Queue(s)).queue]
      BY <2>0, <2>6 DEF MutPull, s
    <3> QED
      BY <1>1, <1>5, <3>1, PullStep
  <2>7. CASE MutPullNewest
    <3>1. CASE q = <<>>
      <4>1. storage' = [storage EXCEPT ![s] = q]
        BY <2>0, <2>7, <3>1 DEF MutPullNewest, PullNewest, Outcome, s, q
      <4> QED
        BY <2>2, <4>1
    <3>2. CASE q # <<>>
      <4>1. storage' = [storage EXCEPT ![s] = Tail(q)]
        BY <2>0, <2>7, <3>2 DEF MutPullNewest, PullNewest, Outcome, WithoutNewest, s, q
      <4>2. Tail(q) \in Seq(Values) /\ Held[s] # <<>> /\ Reverse(Tail(q)) = Front(Held[s])
        BY <1>2, <3>2, BackwardsTake
      <4> QED
        BY <1>1, <1>5, <4>1, <4>2, ChangeStep
    <3> QED
      BY <3>1, <3>2
  <2>8. ASSUME NEW from \in 1..MaxLength, NEW to \in 1..MaxLength, MutDrain(from, to)
        PROVE  ContractStep
    <3> DEFINE x == Drain(q, from, to).queue
    <3>1. MaxLength \in Nat
      BY BufferAssumption
    <3>2. from \in 1..Len(q) /\ to \in 1..Len(q) /\ from <= to
      BY <1>2, <2>8, <3>1 DEF MutDrain, s, q
    <3>3. storage' = [storage EXCEPT ![s] = x]
      BY <2>0, <2>8 DEF MutDrain, s, q
    <3>4. x \in Seq(Values)
      BY <1>2, <3>2, DrainFits DEF Fits
    <3>5. \E i, j \in 1..Len(Held[s]) :
             /\ i <= j
             /\ Reverse(x) = SubSeq(Held[s], 1, i - 1) \o SubSeq(Held[s], j + 1, Len(Held[s]))
      <4> DEFINE i == Len(q) + 1 - to
                 j == Len(q) + 1 - from
      <4>1. /\ i \in 1..Len(Held[s]) /\ j \in 1..Len(Held[s]) /\ i <= j
            /\ Reverse(x) = SubSeq(Held[s], 1, i - 1) \o SubSeq(Held[s], j + 1, Len(Held[s]))
        BY <1>2, <3>2, BackwardsDrain
      <4> HIDE DEF i, j, x
      <4> QED
        BY <4>1
    <3> HIDE DEF x
    <3> QED
      BY <1>1, <1>5, <3>3, <3>4, <3>5, ChangeStep
  <2>9. CASE Pulse
    BY <1>1, <2>9, Untouched, ContractVars DEF Pulse, ContractStep
  <2> QED
    BY <2>3, <2>4, <2>5, <2>6, <2>7, <2>8, <2>9 DEF MutStep
<1> QED
  BY <1>4, <1>5

LEMMA StepContract ==
    ASSUME Typed, [Next]_vars
    PROVE  ContractStep
<1>0. storage \in [Sessions -> Seq(Values) \cup {None}] /\ input \in [Sessions -> Seq(Values)]
  BY DEF Typed, StoreType, StorageOK
<1>1. ASSUME UNCHANGED <<retention, storage>> PROVE ContractStep
  BY <1>1, Untouched, ContractVars DEF ContractStep
<1>2. ASSUME NEW s \in Sessions, Execute(s) PROVE ContractStep
  <2>1. Head(input[s]) \in Values
    <3>1. input[s] \in Seq(Values) /\ input[s] # <<>>
      BY <1>0, <1>2 DEF Execute
    <3> QED
      BY <3>1
  <2>2. storage' = [storage EXCEPT ![s] = ImplPush(Queue(s), retention, Head(input[s])).queue]
    BY <1>2 DEF Execute, ForcePush
  <2>3. UNCHANGED retention
    BY <1>2 DEF Execute
  <2> QED
    BY <2>1, <2>2, <2>3, PushStep
<1>3. ASSUME NEW s \in Sessions, CleanSession(s) \/ TrimBuffer(s) PROVE ContractStep
  BY <1>3, CleanStep DEF CleanSession, TrimBuffer
<1>4. ASSUME NEW s \in Sessions, ClearSession(s) PROVE ContractStep
  <2>1. storage' = [storage EXCEPT ![s] = None] /\ UNCHANGED retention
    BY <1>4 DEF ClearSession
  <2>2. CASE storage[s] = None
    <3>1. UNCHANGED storage
      BY <1>0, <2>1, <2>2
    <3> QED
      BY <1>1, <2>1, <3>1
  <2>3. CASE storage[s] # None
    <3>1. \A t \in Sessions : Queue(t)' = (IF t = s THEN <<>> ELSE Queue(t))
                              /\ (storage'[t] # None <=> t # s /\ storage[t] # None)
      BY <1>0, <2>1 DEF Queue
    <3>2. Opened' = [Opened EXCEPT ![s] = FALSE]
      BY <3>1 DEF Opened
    <3>3. Reverse(<<>>) = <<>>
      BY DEF Reverse
    <3>4. \A t \in Sessions : Reverse(Queue(t)') = IF t = s THEN <<>> ELSE Reverse(Queue(t))
      BY <3>1, <3>3
    <3>5. Held' = [Held EXCEPT ![s] = <<>>]
      BY <3>4 DEF Held
    <3>6. Opened[s]
      BY <2>3 DEF Opened
    <3> QED
      BY <2>1, <3>2, <3>5, <3>6, AsClose
  <2> QED
    BY <2>2, <2>3
<1>5. ASSUME NEW s \in Sessions, NEW j \in Joins, RunJoin(j, s) PROVE ContractStep
  <2>1. CASE UNCHANGED storage
    BY <1>1, <1>5, <2>1 DEF RunJoin
  <2>2. CASE storage[s] # None /\ storage' = [storage EXCEPT ![s] = Pull(@).queue]
    <3>1. storage' = [storage EXCEPT ![s] = Pull(Queue(s)).queue] /\ UNCHANGED retention
      BY <1>5, <2>2 DEF RunJoin, Queue
    <3> QED
      BY <2>2, <3>1, PullStep
  <2> QED
    BY <1>5, <2>1, <2>2 DEF RunJoin
<1>6. ASSUME NEW s \in Sessions,
             \/ \E l \in Listens : RunListen(l, s)
             \/ \E a \in Accesses : RunAccess(a, s)
      PROVE  ContractStep
  BY <1>6, AccessStep DEF RunListen, RunAccess
<1>7. CASE MutStep
  BY <1>7, MutContractStep
<1>8. ASSUME NEW s \in Sessions,
             \/ \E v \in Values : Arrive(s, v)
             \/ Collect(s) \/ OpenCleanupMut(s)
             \/ \E a \in Accesses : Ask(a, s)
             \/ \E action \in {"open", "closed"} : RunGate(s, action)
             \/ \E a \in Accessors :
                   \/ DropKey(a, s) \/ ReleaseTracker(a, s)
                   \/ \E allow \in BOOLEAN : OpenMut(a, s, allow)
             \/ \E n \in Nodes : TrimNode(n, s)
      PROVE  UNCHANGED <<retention, storage>>
  BY <1>8 DEF Arrive, Collect, OpenCleanupMut, Ask, RunGate, DropKey, ReleaseTracker, OpenMut,
              TrimNode
<1>9. CASE MutOpenGate \/ MutCloseGate \/ DropMut \/ NotifyBufferUpdate \/ UNCHANGED vars
  BY <1>1, <1>9 DEF MutOpenGate, MutCloseGate, DropMut, NotifyBufferUpdate, vars
<1> QED
  BY <1>1, <1>2, <1>3, <1>4, <1>5, <1>6, <1>7, <1>8, <1>9 DEF Next, MutStep

\* Whatever nodes, systems and cleanups do to it, the buffer keeps for each
\* session the values that its retention policy promises, in order.
THEOREM BufferImplementsContract == Spec => ImplementsContract
<1>1. Init => Contract!Init
  <2> SUFFICES ASSUME Init PROVE Contract!Init
    OBVIOUS
  <2>1. \A s \in Sessions : Queue(s) = <<>> /\ storage[s] = None
    BY DEF Init, Queue
  <2>2. Reverse(<<>>) = <<>>
    BY DEF Reverse
  <2>3. \A s \in Sessions : Reverse(Queue(s)) = <<>>
    BY <2>1, <2>2
  <2> QED
    BY <2>1, <2>3 DEF Init, Contract!Init
<1>2. Typed /\ [Next]_vars => [Contract!Next]_(Contract!vars)
  BY StepContract DEF ContractStep
<1>3. Spec => []Typed
  BY InitTyped, StepTyped, PTL DEF Spec
<1> QED
  BY <1>1, <1>2, <1>3, PTL DEF Spec, ImplementsContract, Contract!Spec
=============================================================================
