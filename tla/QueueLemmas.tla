---------------------------- MODULE QueueLemmas ----------------------------
(***************************************************************************)
(* What the proofs about queues rest on: induction and recursion over the   *)
(* numbers, for sets and functions in place of predicates and operators,    *)
(* and how Append, Tail and Without change the elements of a queue.         *)
(***************************************************************************)
EXTENDS Queues, WellFoundedInduction, TLAPS

-----------------------------------------------------------------------------
(* Induction and recursion *)

\* A nonempty set of numbers has a least one.
LEMMA LeastNumber ==
    ASSUME NEW T \in SUBSET Nat, T # {}
    PROVE  \E n \in T : \A m \in T : n <= m
<1> DEFINE R == OpToRel(<, Nat)
<1>1. IsWellFoundedOn(R, Nat)
  BY NatLessThanWellFounded
<1>2. \A m, n \in Nat : <<m, n>> \in R <=> m < n
  BY DEF R, OpToRel
<1> HIDE DEF R
<1>3. PICK n \in T : \A m \in T : <<m, n>> \notin R
  BY <1>1, WFMin
<1>4. ASSUME NEW m \in T PROVE n <= m
  <2>1. m \in Nat /\ n \in Nat /\ ~(m < n)
    BY <1>2, <1>3
  <2> QED
    BY <2>1
<1> QED
  BY <1>4

\* Induction up to n, for a set of numbers.
LEMMA UpTo ==
    ASSUME NEW n \in Nat, NEW T, 0 \in T,
           \A i \in 1..n : i - 1 \in T => i \in T
    PROVE  0..n \subseteq T
<1> SUFFICES ASSUME (0..n) \ T # {} PROVE FALSE
  OBVIOUS
<1>1. (0..n) \ T \in SUBSET Nat
  OBVIOUS
<1>2. PICK k \in (0..n) \ T : \A m \in (0..n) \ T : k <= m
  BY <1>1, LeastNumber
<1>3. k # 0 /\ k \in 1..n /\ k - 1 \in 0..n
  BY <1>2
<1>4. k - 1 \in T
  BY <1>2, <1>3
<1> QED
  BY <1>2, <1>3, <1>4

\* Definitions by recursion up to n, with values in X: what each step does, and
\* that f follows the steps.
StepsIn(n, X) == [1..n -> [X -> X]]
Follows(f, n, X, base, step) ==
    /\ f \in [0..n -> X] /\ f[0] = base
    /\ \A i \in 1..n : f[i] = step[i][f[i - 1]]

\* A function that is defined by recursion exists.
LEMMA Recursion ==
    ASSUME NEW n \in Nat, NEW X, NEW base \in X, NEW step \in StepsIn(n, X)
    PROVE  \E f : Follows(f, n, X, base, step)
<1> DEFINE Good(f, k) == Follows(f, k, X, base, step)
           T == {k \in 0..n : \E f : Good(f, k)}
<1> USE DEF Follows, StepsIn
<1>1. 0 \in T
  <2>1. Good([i \in 0..0 |-> base], 0)
    OBVIOUS
  <2> HIDE DEF Good
  <2> QED
    BY <2>1
<1>2. ASSUME NEW k \in 1..n, k - 1 \in T PROVE k \in T
  <2>1. PICK f : Good(f, k - 1)
    BY <1>2
  <2> DEFINE g == [i \in 0..k |-> IF i = k THEN step[k][f[k - 1]] ELSE f[i]]
  <2>2. f[k - 1] \in X /\ step[k][f[k - 1]] \in X
    BY <2>1
  <2>3. g \in [0..k -> X] /\ g[0] = base
    BY <2>1, <2>2
  <2>4. ASSUME NEW i \in 1..k PROVE g[i] = step[i][g[i - 1]]
    <3>1. CASE i = k
      BY <3>1
    <3>2. CASE i # k
      BY <2>1, <3>2
    <3> QED
      BY <3>1, <3>2
  <2>5. Good(g, k)
    BY <2>3, <2>4
  <2> HIDE DEF Good, g
  <2> QED
    BY <2>5
<1> HIDE DEF T, Follows
<1>3. 0..n \subseteq T
  BY <1>1, <1>2, UpTo
<1> QED
  BY <1>3 DEF T

-----------------------------------------------------------------------------
(* Queues *)

\* Kept satisfies the recursion that defines it (the closure of retain).
LEMMA KeptStep ==
    ASSUME NEW X, NEW q \in Seq(X), NEW gone
    PROVE  /\ Kept(q, gone)[0] = <<>>
           /\ \A i \in 1..Len(q) :
                 Kept(q, gone)[i] = IF q[i] \in gone THEN Kept(q, gone)[i - 1]
                                    ELSE Append(Kept(q, gone)[i - 1], q[i])
<1> DEFINE n == Len(q)
           step == [i \in 1..n |-> [k \in Seq(X) |->
                      IF q[i] \in gone THEN k ELSE Append(k, q[i])]]
           Def(f) == [i \in 0..n |-> IF i = 0 THEN <<>>
                        ELSE IF q[i] \in gone THEN f[i - 1] ELSE Append(f[i - 1], q[i])]
<1>1. n \in Nat /\ <<>> \in Seq(X)
  OBVIOUS
<1>2. step \in [1..n -> [Seq(X) -> Seq(X)]]
  <2>1. ASSUME NEW i \in 1..n, NEW k \in Seq(X)
        PROVE  (IF q[i] \in gone THEN k ELSE Append(k, q[i])) \in Seq(X)
    <3>1. q[i] \in X
      OBVIOUS
    <3> QED
      BY <3>1
  <2> QED
    BY <2>1
<1>3. PICK f \in [0..n -> Seq(X)] :
         f[0] = <<>> /\ \A i \in 1..n : f[i] = step[i][f[i - 1]]
  <2> DEFINE queues == Seq(X)
             empty == <<>>
  <2>1. n \in Nat /\ empty \in queues /\ step \in StepsIn(n, queues)
    BY <1>1, <1>2 DEF StepsIn
  <2> HIDE DEF n, step, queues, empty
  <2>2. \E f : Follows(f, n, queues, empty, step)
    BY <2>1, Recursion
  <2> QED
    BY <2>2 DEF queues, empty, Follows
<1>4. f = Def(f)
  <2>1. ASSUME NEW i \in 0..n PROVE f[i] = Def(f)[i]
    <3>1. CASE i = 0
      BY <1>3, <3>1
    <3>2. CASE i # 0
      <4>1. i \in 1..n /\ i - 1 \in 0..n
        BY <3>2
      <4>2. f[i - 1] \in Seq(X) /\ f[i] = step[i][f[i - 1]]
        BY <1>3, <4>1
      <4> QED
        BY <3>2, <4>1, <4>2
    <3> QED
      BY <3>1, <3>2
  <2>2. DOMAIN f = 0..n /\ DOMAIN Def(f) = 0..n /\ f = [i \in 0..n |-> f[i]]
    OBVIOUS
  <2> QED
    BY <2>1, <2>2
<1>5. Kept(q, gone) = CHOOSE g : g = Def(g)
  BY DEF Kept
<1> DEFINE k == Kept(q, gone)
<1> HIDE DEF Def
<1>6. k = Def(k)
  BY <1>4, <1>5
<1> HIDE DEF k
<1>7. k[0] = <<>>
  BY <1>1, <1>6 DEF Def
<1>8. ASSUME NEW i \in 1..n
      PROVE  k[i] = IF q[i] \in gone THEN k[i - 1] ELSE Append(k[i - 1], q[i])
  <2>1. i \in 0..n /\ i # 0
    BY <1>1
  <2>2. Def(k)[i] = IF q[i] \in gone THEN k[i - 1] ELSE Append(k[i - 1], q[i])
    BY <2>1 DEF Def
  <2> QED
    BY <1>6, <2>2
<1> QED
  BY <1>7, <1>8 DEF k

\* Append adds an element.
LEMMA AppendSet ==
    ASSUME NEW X, NEW q \in Seq(X), NEW x \in X
    PROVE  /\ Append(q, x) \in Seq(X) /\ Append(q, x) # <<>>
           /\ ToSet(Append(q, x)) = ToSet(q) \cup {x}
           /\ IsInjective(q) /\ x \notin ToSet(q) => IsInjective(Append(q, x))
<1> DEFINE p == Append(q, x)
<1>1. /\ p \in Seq(X) /\ p # <<>> /\ Len(p) = Len(q) + 1 /\ DOMAIN p = 1..(Len(q) + 1)
      /\ DOMAIN q = 1..Len(q) /\ Len(q) \in Nat
      /\ \A i \in 1..Len(q) : p[i] = q[i]
      /\ p[Len(q) + 1] = x
  OBVIOUS
<1> HIDE DEF p
<1>2. ToSet(p) = ToSet(q) \cup {x}
  <2>1. ASSUME NEW y \in ToSet(p) PROVE y \in ToSet(q) \cup {x}
    BY <1>1 DEF ToSet
  <2>2. ASSUME NEW y \in ToSet(q) PROVE y \in ToSet(p)
    BY <1>1 DEF ToSet
  <2>3. x \in ToSet(p)
    BY <1>1 DEF ToSet
  <2> QED
    BY <2>1, <2>2, <2>3
<1>3. IsInjective(q) /\ x \notin ToSet(q) => IsInjective(p)
  BY <1>1 DEF ToSet, IsInjective
<1> QED
  BY <1>1, <1>2, <1>3 DEF p

\* Tail removes the first element.
LEMMA TailSet ==
    ASSUME NEW X, NEW q \in Seq(X), q # <<>>
    PROVE  /\ Head(q) \in ToSet(q) /\ Head(q) \in X
           /\ Tail(q) \in Seq(X)
           /\ ToSet(q) = {Head(q)} \cup ToSet(Tail(q))
           /\ IsInjective(q) => Head(q) \notin ToSet(Tail(q)) /\ IsInjective(Tail(q))
<1> DEFINE t == Tail(q)
<1>1. /\ t \in Seq(X) /\ Len(t) = Len(q) - 1 /\ DOMAIN t = 1..(Len(q) - 1)
      /\ DOMAIN q = 1..Len(q) /\ Len(q) \in Nat \ {0}
      /\ \A i \in 1..(Len(q) - 1) : t[i] = q[i + 1]
      /\ Head(q) = q[1]
  OBVIOUS
<1> HIDE DEF t
<1>2. Head(q) \in ToSet(q) /\ Head(q) \in X
  BY <1>1 DEF ToSet
<1>3. ToSet(q) = {Head(q)} \cup ToSet(t)
  <2>1. ASSUME NEW y \in ToSet(q) PROVE y \in {Head(q)} \cup ToSet(t)
    <3>1. PICK i \in 1..Len(q) : y = q[i]
      BY <1>1 DEF ToSet
    <3>2. CASE i = 1
      BY <1>1, <3>1, <3>2
    <3>3. CASE i # 1
      <4>1. i - 1 \in 1..(Len(q) - 1) /\ q[i] = t[i - 1]
        BY <1>1, <3>3
      <4> QED
        BY <1>1, <3>1, <4>1 DEF ToSet
    <3> QED
      BY <3>2, <3>3
  <2>2. ASSUME NEW y \in ToSet(t) PROVE y \in ToSet(q)
    BY <1>1 DEF ToSet
  <2> QED
    BY <1>2, <2>1, <2>2
<1>4. ASSUME IsInjective(q) PROVE Head(q) \notin ToSet(t) /\ IsInjective(t)
  <2>1. \A i, j \in 1..Len(q) : q[i] = q[j] => i = j
    BY <1>1, <1>4 DEF IsInjective
  <2>2. ASSUME NEW i \in 1..(Len(q) - 1) PROVE t[i] # q[1]
    BY <1>1, <2>1
  <2>3. ASSUME NEW i \in 1..(Len(q) - 1), NEW j \in 1..(Len(q) - 1), t[i] = t[j]
        PROVE  i = j
    <3>1. q[i + 1] = q[j + 1] /\ i + 1 \in 1..Len(q) /\ j + 1 \in 1..Len(q)
      BY <1>1, <2>3
    <3> QED
      BY <2>1, <3>1
  <2> QED
    BY <1>1, <2>2, <2>3 DEF ToSet, IsInjective
<1> QED
  BY <1>1, <1>2, <1>3, <1>4 DEF t

\* What leaves a queue, and what is kept.
LEMMA WithoutSet ==
    ASSUME NEW X, NEW q \in Seq(X), NEW gone
    PROVE  /\ Without(q, gone) \in Seq(X)
           /\ ToSet(Without(q, gone)) = ToSet(q) \ gone
           /\ IsInjective(q) => IsInjective(Without(q, gone))
<1> DEFINE n == Len(q)
           k == Kept(q, gone)
           first(i) == {q[j] : j \in 1..i}
           Good(i) == /\ k[i] \in Seq(X)
                      /\ ToSet(k[i]) = first(i) \ gone
                      /\ IsInjective(q) => IsInjective(k[i])
           T == {i \in 0..n : Good(i)}
<1>1. n \in Nat /\ q \in [1..n -> X]
  OBVIOUS
<1>2. k[0] = <<>>
  BY KeptStep
<1>3. \A i \in 1..n : k[i] = IF q[i] \in gone THEN k[i - 1] ELSE Append(k[i - 1], q[i])
  BY KeptStep
<1> HIDE DEF k, n
<1>4. 0 \in T
  <2>1. ToSet(k[0]) = {} /\ IsInjective(k[0]) /\ k[0] \in Seq(X)
    BY <1>2 DEF ToSet, IsInjective
  <2>2. first(0) = {}
    OBVIOUS
  <2> QED
    BY <1>1, <2>1, <2>2
<1>5. ASSUME NEW i \in 1..n, i - 1 \in T PROVE i \in T
  <2>1. Good(i - 1) /\ q[i] \in X
    BY <1>1, <1>5
  <2>2. first(i) = first(i - 1) \cup {q[i]}
    <3>1. 1..i = (1..(i - 1)) \cup {i}
      OBVIOUS
    <3> QED
      BY <3>1
  <2>3. CASE q[i] \in gone
    BY <1>3, <2>1, <2>2, <2>3
  <2>4. CASE q[i] \notin gone
    <3>1. k[i] = Append(k[i - 1], q[i])
      BY <1>3, <2>4
    <3>2. ToSet(k[i]) = first(i) \ gone
      BY <2>1, <2>2, <2>4, <3>1, AppendSet
    <3>3. k[i] \in Seq(X)
      BY <2>1, <3>1, AppendSet
    <3>4. ASSUME IsInjective(q) PROVE IsInjective(k[i])
      <4>1. q[i] \notin first(i - 1)
        BY <1>1, <3>4 DEF IsInjective
      <4> QED
        BY <2>1, <3>1, <3>4, <4>1, AppendSet
    <3> QED
      BY <3>2, <3>3, <3>4
  <2> QED
    BY <2>3, <2>4
<1>6. n \in T
  <2> HIDE DEF T
  <2> QED
    BY <1>1, <1>4, <1>5, UpTo
<1>7. first(n) = ToSet(q)
  BY <1>1 DEF ToSet
<1> QED
  BY <1>6, <1>7 DEF Without, k, n

\* A queue that none of them is in stays as it is.
LEMMA WithoutNone ==
    ASSUME NEW X, NEW q \in Seq(X), NEW gone, ToSet(q) \cap gone = {}
    PROVE  Without(q, gone) = q
<1> DEFINE n == Len(q)
           k == Kept(q, gone)
           T == {i \in 0..n : k[i] = SubSeq(q, 1, i)}
<1>1. n \in Nat /\ q \in [1..n -> X] /\ \A i \in 1..n : q[i] \notin gone
  BY DEF ToSet
<1>2. \A i \in 1..n : k[i] = IF q[i] \in gone THEN k[i - 1] ELSE Append(k[i - 1], q[i])
  BY KeptStep
<1>3. k[0] = <<>> /\ \A i \in 1..n : k[i] = Append(k[i - 1], q[i])
  BY <1>1, <1>2, KeptStep
<1> HIDE DEF k
<1>4. 0 \in T
  <2>1. SubSeq(q, 1, 0) = <<>>
    OBVIOUS
  <2>2. 0 \in 0..n /\ k[0] = SubSeq(q, 1, 0)
    BY <1>1, <1>3, <2>1
  <2> QED
    BY <2>2, Zenon
<1>5. ASSUME NEW i \in 1..n, i - 1 \in T PROVE i \in T
  <2>1. k[i] = Append(SubSeq(q, 1, i - 1), q[i])
    BY <1>3, <1>5
  <2>2. Append(SubSeq(q, 1, i - 1), q[i]) = SubSeq(q, 1, i)
    BY <1>1
  <2> QED
    BY <2>1, <2>2
<1>6. n \in T
  <2> HIDE DEF T, n
  <2> QED
    BY <1>1, <1>4, <1>5, UpTo
<1> QED
  BY <1>6 DEF Without, k

\* It does not matter which of those that leave were never in the queue.
LEMMA WithoutSame ==
    ASSUME NEW X, NEW q \in Seq(X), NEW gone, NEW left,
           ToSet(q) \cap gone = ToSet(q) \cap left
    PROVE  Without(q, gone) = Without(q, left)
<1> DEFINE n == Len(q)
           k == Kept(q, gone)
           h == Kept(q, left)
           T == {i \in 0..n : k[i] = h[i]}
<1>1. n \in Nat /\ \A i \in 1..n : q[i] \in gone <=> q[i] \in left
  BY DEF ToSet
<1>2. /\ k[0] = <<>> /\ h[0] = <<>>
      /\ \A i \in 1..n : k[i] = IF q[i] \in gone THEN k[i - 1] ELSE Append(k[i - 1], q[i])
      /\ \A i \in 1..n : h[i] = IF q[i] \in left THEN h[i - 1] ELSE Append(h[i - 1], q[i])
  BY KeptStep
<1> HIDE DEF k, h
<1>3. 0 \in T
  BY <1>1, <1>2
<1>4. ASSUME NEW i \in 1..n, i - 1 \in T PROVE i \in T
  BY <1>1, <1>2, <1>4
<1>5. n \in T
  <2>1. n \in Nat
    BY <1>1
  <2> HIDE DEF T, n
  <2>2. \A i \in 1..n : i - 1 \in T => i \in T
    BY <1>4
  <2>3. 0..n \subseteq T
    BY <2>1, <2>2, <1>3, UpTo
  <2> QED
    BY <2>1, <2>3
<1> QED
  BY <1>5 DEF Without, k, h, n

\* If all of them leave, nothing is kept.
LEMMA WithoutAll ==
    ASSUME NEW X, NEW q \in Seq(X), NEW gone, ToSet(q) \subseteq gone
    PROVE  Without(q, gone) = <<>>
<1>1. Without(q, gone) \in Seq(X) /\ ToSet(Without(q, gone)) = {}
  BY WithoutSet
<1> QED
  BY <1>1, TailSet

\* What remove(i) leaves of a queue.
LEMMA RemoveAtIs ==
    ASSUME NEW X, NEW q \in Seq(X), NEW i \in 1..Len(q)
    PROVE  LET p == RemoveAt(q, i)
           IN  /\ p \in Seq(X) /\ Len(p) = Len(q) - 1
               /\ \A j \in 1..(i - 1) : p[j] = q[j]
               /\ \A j \in i..(Len(q) - 1) : p[j] = q[j + 1]
<1> DEFINE a == SubSeq(q, 1, i - 1)
           b == SubSeq(q, i + 1, Len(q))
<1>1. /\ a \in Seq(X) /\ Len(a) = i - 1 /\ \A j \in 1..(i - 1) : a[j] = q[j]
      /\ b \in Seq(X) /\ Len(b) = Len(q) - i /\ \A j \in 1..(Len(q) - i) : b[j] = q[j + i]
  OBVIOUS
<1> HIDE DEF a, b
<1>2. /\ a \o b \in Seq(X) /\ Len(a \o b) = Len(q) - 1
      /\ \A j \in 1..(i - 1) : (a \o b)[j] = a[j]
      /\ \A j \in i..(Len(q) - 1) : (a \o b)[j] = b[j - (i - 1)]
  <2>1. a \in Seq(X) /\ b \in Seq(X) /\ Len(a) = i - 1 /\ Len(b) = Len(q) - i
    BY <1>1
  <2>2. /\ a \o b \in Seq(X) /\ Len(a \o b) = Len(a) + Len(b)
        /\ \A j \in 1..Len(a) : (a \o b)[j] = a[j]
        /\ \A j \in (Len(a) + 1)..(Len(a) + Len(b)) : (a \o b)[j] = b[j - Len(a)]
    BY <2>1, SMTT(30)
  <2> QED
    BY <2>1, <2>2, SMTT(30)
<1>3. ASSUME NEW j \in i..(Len(q) - 1) PROVE (a \o b)[j] = q[j + 1]
  <2>1. j - (i - 1) \in 1..(Len(q) - i) /\ j - (i - 1) + i = j + 1
    OBVIOUS
  <2> QED
    BY <1>1, <1>2, <2>1
<1>4. RemoveAt(q, i) = a \o b
  BY DEF RemoveAt, a, b
<1> QED
  BY <1>1, <1>2, <1>3, <1>4

\* One element leaves, if they are all different.
LEMMA RemoveAtSet ==
    ASSUME NEW X, NEW q \in Seq(X), NEW i \in 1..Len(q), IsInjective(q)
    PROVE  LET p == RemoveAt(q, i)
           IN  /\ \A x : x \in ToSet(p) <=> x \in ToSet(q) /\ x # q[i]
               /\ IsInjective(p)
<1> DEFINE p == RemoveAt(q, i)
           n == Len(q)
<1>1. /\ DOMAIN p = 1..(n - 1) /\ DOMAIN q = 1..n /\ n \in Nat /\ i \in 1..n
      /\ \A j \in 1..(i - 1) : p[j] = q[j]
      /\ \A j \in i..(n - 1) : p[j] = q[j + 1]
  BY RemoveAtIs
<1>2. \A j, k \in 1..n : q[j] = q[k] => j = k
  BY DEF IsInjective
<1> HIDE DEF p, n
<1>3. ASSUME NEW j \in 1..(n - 1)
      PROVE  \E k \in 1..n : p[j] = q[k] /\ k # i /\ (j < i => k = j) /\ (j >= i => k = j + 1)
  <2>1. CASE j < i
    BY <1>1, <2>1
  <2>2. CASE j >= i
    <3>1. j \in i..(n - 1) /\ j + 1 \in 1..n /\ j + 1 # i
      BY <1>1, <2>2
    <3> QED
      BY <1>1, <2>2, <3>1
  <2> QED
    BY <1>1, <2>1, <2>2
<1>4. ASSUME NEW k \in 1..n, k # i
      PROVE  \E j \in 1..(n - 1) : p[j] = q[k]
  <2>1. CASE k < i
    <3>1. k \in 1..(i - 1) /\ k \in 1..(n - 1)
      BY <1>1, <2>1
    <3> QED
      BY <1>1, <3>1
  <2>2. CASE k > i
    <3>1. k - 1 \in i..(n - 1) /\ k - 1 \in 1..(n - 1) /\ (k - 1) + 1 = k
      BY <1>1, <2>2
    <3> QED
      BY <1>1, <3>1
  <2> QED
    BY <1>1, <1>4, <2>1, <2>2
<1>5. ASSUME NEW x PROVE x \in ToSet(p) <=> x \in ToSet(q) /\ x # q[i]
  <2>1. ASSUME x \in ToSet(p) PROVE x \in ToSet(q) /\ x # q[i]
    <3>1. PICK j \in 1..(n - 1) : x = p[j]
      BY <1>1, <2>1 DEF ToSet
    <3>2. PICK k \in 1..n : p[j] = q[k] /\ k # i
      BY <1>3
    <3> QED
      BY <1>1, <1>2, <3>1, <3>2 DEF ToSet
  <2>2. ASSUME x \in ToSet(q), x # q[i] PROVE x \in ToSet(p)
    <3>1. PICK k \in 1..n : x = q[k]
      BY <1>1, <2>2 DEF ToSet
    <3>2. PICK j \in 1..(n - 1) : p[j] = q[k]
      BY <1>4, <2>2, <3>1
    <3> QED
      BY <1>1, <3>1, <3>2 DEF ToSet
  <2> QED
    BY <2>1, <2>2
<1>6. ASSUME NEW j \in 1..(n - 1), NEW k \in 1..(n - 1), p[j] = p[k] PROVE j = k
  <2>1. PICK a \in 1..n : p[j] = q[a] /\ (j < i => a = j) /\ (j >= i => a = j + 1)
    BY <1>3
  <2>2. PICK b \in 1..n : p[k] = q[b] /\ (k < i => b = k) /\ (k >= i => b = k + 1)
    BY <1>3
  <2>3. a = b
    BY <1>2, <1>6, <2>1, <2>2
  <2> QED
    BY <1>1, <2>1, <2>2, <2>3
<1>7. IsInjective(p)
  BY <1>1, <1>6 DEF IsInjective
<1> QED
  BY <1>5, <1>7 DEF p

-----------------------------------------------------------------------------
(* How often x is in a queue *)

\* How often x is among the first i elements of q, for each i; and in all of q.
Times(q, x) ==
    LET times[i \in 0..Len(q)] ==
          IF i = 0 THEN 0 ELSE times[i - 1] + (IF q[i] = x THEN 1 ELSE 0)
    IN times
Total(q, x) == Times(q, x)[Len(q)]

\* Times satisfies the recursion that defines it.
LEMMA TimesStep ==
    ASSUME NEW X, NEW q \in Seq(X), NEW x
    PROVE  /\ Times(q, x) \in [0..Len(q) -> Nat]
           /\ Times(q, x)[0] = 0
           /\ \A i \in 1..Len(q) :
                 Times(q, x)[i] = Times(q, x)[i - 1] + (IF q[i] = x THEN 1 ELSE 0)
<1> DEFINE n == Len(q)
           one(i) == IF q[i] = x THEN 1 ELSE 0
           step == [i \in 1..n |-> [k \in Nat |-> k + one(i)]]
           Def(f) == [i \in 0..n |-> IF i = 0 THEN 0 ELSE f[i - 1] + one(i)]
<1>1. n \in Nat /\ 0 \in Nat /\ \A i \in 1..n : one(i) \in Nat
  OBVIOUS
<1>2. step \in StepsIn(n, Nat)
  <2>1. ASSUME NEW i \in 1..n, NEW k \in Nat PROVE k + one(i) \in Nat
    BY <1>1
  <2> HIDE DEF n, one
  <2> QED
    BY <2>1 DEF StepsIn
<1>3. PICK f : Follows(f, n, Nat, 0, step)
  <2> HIDE DEF n, step
  <2> QED
    BY <1>1, <1>2, Recursion
<1>4. f \in [0..n -> Nat] /\ f[0] = 0 /\ \A i \in 1..n : f[i] = f[i - 1] + one(i)
  <2>1. f \in [0..n -> Nat] /\ f[0] = 0 /\ \A i \in 1..n : f[i] = step[i][f[i - 1]]
    BY <1>3 DEF Follows
  <2>2. ASSUME NEW i \in 1..n PROVE f[i] = f[i - 1] + one(i)
    <3>1. i - 1 \in 0..n
      BY <1>1
    <3>2. f[i - 1] \in Nat
      BY <2>1, <3>1
    <3> HIDE DEF n, one
    <3> QED
      BY <2>1, <3>2
  <2> QED
    BY <2>1, <2>2
<1>5. f = Def(f)
  <2> HIDE DEF n, one
  <2>1. ASSUME NEW i \in 0..n PROVE f[i] = Def(f)[i]
    <3>1. i = 0 \/ i \in 1..n
      BY <1>1
    <3> QED
      BY <1>4, <3>1
  <2>2. f = [i \in 0..n |-> f[i]]
    BY <1>4
  <2> QED
    BY <2>1, <2>2
<1>6. Times(q, x) = CHOOSE g : g = Def(g)
  BY DEF Times
<1> DEFINE t == Times(q, x)
<1> HIDE DEF Def
<1>7. t = Def(t)
  BY <1>5, <1>6
<1> HIDE DEF t
<1>8. t[0] = 0 /\ \A i \in 1..n : t[i] = t[i - 1] + one(i)
  <2>1. \A i \in 0..n : Def(t)[i] = IF i = 0 THEN 0 ELSE t[i - 1] + one(i)
    BY DEF Def
  <2> HIDE DEF n, one
  <2>2. \A i \in 0..n : t[i] = IF i = 0 THEN 0 ELSE t[i - 1] + one(i)
    BY <1>7, <2>1
  <2>3. 0 \in 0..n /\ \A i \in 1..n : i \in 0..n /\ i # 0
    BY <1>1
  <2> QED
    BY <2>2, <2>3
<1>9. \A i \in 0..n : t[i] \in Nat
  <2> DEFINE T == {i \in 0..n : t[i] \in Nat}
  <2> HIDE DEF n, one
  <2>1. 0 \in T
    BY <1>1, <1>8
  <2>2. \A i \in 1..n : i - 1 \in T => i \in T
    <3> SUFFICES ASSUME NEW i \in 1..n, i - 1 \in T PROVE i \in T
      OBVIOUS
    <3>1. t[i - 1] \in Nat /\ one(i) \in Nat /\ t[i] = t[i - 1] + one(i)
      BY <1>1, <1>8
    <3> QED
      BY <3>1
  <2> HIDE DEF T
  <2>3. 0..n \subseteq T
    BY <1>1, <2>1, <2>2, UpTo
  <2> QED
    BY <2>3 DEF T
<1>10. t \in [0..n -> Nat]
  <2>1. t = [i \in 0..n |-> t[i]]
    BY <1>7 DEF Def
  <2> HIDE DEF n
  <2> QED
    BY <1>9, <2>1
<1> QED
  BY <1>8, <1>10 DEF t

\* The first n elements of p are in q behind its first d.
Continues(p, n, q, d) ==
    /\ d \in Nat /\ n \in Nat /\ d + n <= Len(q) /\ n <= Len(p)
    /\ \A i \in 1..n : p[i] = q[d + i]

CountsOn(p, n, q, d, x) ==
    \A i \in 0..n : Times(q, x)[d + i] = Times(q, x)[d] + Times(p, x)[i]

\* They are counted there as in p.
LEMMA TimesOn ==
    ASSUME NEW X, NEW q \in Seq(X), NEW p \in Seq(X), NEW x, NEW d, NEW n, Continues(p, n, q, d)
    PROVE  CountsOn(p, n, q, d, x)
<1>0. /\ d \in Nat /\ n \in Nat /\ d + n <= Len(q) /\ n <= Len(p)
      /\ \A i \in 1..n : p[i] = q[d + i]
  BY DEF Continues
<1> DEFINE t == Times(q, x)
           u == Times(p, x)
           T == {i \in 0..n : t[d + i] = t[d] + u[i]}
<1>1. /\ t \in [0..Len(q) -> Nat]
      /\ \A i \in 1..Len(q) : t[i] = t[i - 1] + (IF q[i] = x THEN 1 ELSE 0)
      /\ u \in [0..Len(p) -> Nat] /\ u[0] = 0
      /\ \A i \in 1..Len(p) : u[i] = u[i - 1] + (IF p[i] = x THEN 1 ELSE 0)
  BY TimesStep
<1>2. Len(p) \in Nat /\ Len(q) \in Nat
  OBVIOUS
<1> HIDE DEF t, u
<1>3. 0 \in T
  <2>1. t[d] \in Nat
    <3>1. d \in 0..Len(q)
      BY <1>0, <1>2
    <3> QED
      BY <1>1, <3>1
  <2> QED
    BY <1>0, <1>1, <2>1
<1>4. ASSUME NEW i \in 1..n, i - 1 \in T PROVE i \in T
  <2>1. d + i \in 1..Len(q) /\ i \in 1..Len(p) /\ (d + i) - 1 = d + (i - 1) /\ i - 1 \in 0..Len(p)
        /\ d \in 0..Len(q)
    BY <1>0, <1>2
  <2>2. t[d + i] = t[d + (i - 1)] + (IF q[d + i] = x THEN 1 ELSE 0)
    BY <1>1, <2>1
  <2>3. u[i] = u[i - 1] + (IF q[d + i] = x THEN 1 ELSE 0)
    BY <1>0, <1>1, <2>1
  <2>4. t[d + (i - 1)] = t[d] + u[i - 1]
    BY <1>4
  <2>5. t[d] \in Nat /\ u[i - 1] \in Nat
    BY <1>1, <2>1
  <2> QED
    BY <2>2, <2>3, <2>4, <2>5
<1>5. 0..n \subseteq T
  <2>1. \A i \in 1..n : i - 1 \in T => i \in T
    BY <1>4
  <2> HIDE DEF T
  <2> QED
    BY <1>0, <1>3, <2>1, UpTo
<1> QED
  BY <1>5 DEF t, u, CountsOn

\* What is added at the end is counted in addition.
LEMMA TimesConcat ==
    ASSUME NEW X, NEW q \in Seq(X), NEW r \in Seq(X), NEW x
    PROVE  /\ \A i \in 0..Len(q) : Times(q \o r, x)[i] = Times(q, x)[i]
           /\ Total(q \o r, x) = Total(q, x) + Total(r, x)
<1> DEFINE p == q \o r
<1>1. /\ p \in Seq(X) /\ Len(p) = Len(q) + Len(r) /\ Len(q) \in Nat /\ Len(r) \in Nat
      /\ \A i \in 1..Len(q) : p[i] = q[i]
      /\ \A i \in 1..Len(r) : p[Len(q) + i] = r[i]
  OBVIOUS
<1> HIDE DEF p
<1>2. Times(p, x)[0] = 0 /\ Times(q, x) \in [0..Len(q) -> Nat]
  BY <1>1, TimesStep
<1>3. ASSUME NEW i \in 0..Len(q) PROVE Times(p, x)[i] = Times(q, x)[i]
  <2>1. Continues(q, Len(q), p, 0)
    BY <1>1 DEF Continues
  <2>2. CountsOn(q, Len(q), p, 0, x)
    BY <1>1, <2>1, TimesOn
  <2>3. 0 + i = i /\ Times(q, x)[i] \in Nat
    BY <1>2
  <2> QED
    BY <1>2, <2>2, <2>3 DEF CountsOn
<1>4. Times(p, x)[Len(q) + Len(r)] = Times(p, x)[Len(q)] + Times(r, x)[Len(r)]
  <2>1. Continues(r, Len(r), p, Len(q)) /\ Len(r) \in 0..Len(r)
    BY <1>1 DEF Continues
  <2>2. CountsOn(r, Len(r), p, Len(q), x)
    BY <1>1, <2>1, TimesOn
  <2> QED
    BY <2>1, <2>2 DEF CountsOn
<1>5. Len(q) \in 0..Len(q)
  BY <1>1
<1> QED
  BY <1>1, <1>3, <1>4, <1>5 DEF p, Total

\* Tail leaves out the first.
LEMMA TimesTail ==
    ASSUME NEW X, NEW q \in Seq(X), NEW x, q # <<>>
    PROVE  LET first == IF Head(q) = x THEN 1 ELSE 0
           IN  /\ \A i \in 1..Len(q) :
                    /\ i - 1 \in 0..Len(Tail(q))
                    /\ Times(q, x)[i] = first + Times(Tail(q), x)[i - 1]
               /\ Total(q, x) = first + Total(Tail(q), x)
<1> DEFINE p == Tail(q)
           first == IF Head(q) = x THEN 1 ELSE 0
<1>1. /\ p \in Seq(X) /\ Len(p) = Len(q) - 1 /\ Len(q) \in Nat /\ Len(q) >= 1
      /\ Head(q) = q[1] /\ \A i \in 1..(Len(q) - 1) : p[i] = q[1 + i]
  OBVIOUS
<1> HIDE DEF p
<1>2. Times(q, x)[1] = first
  <2>1. Times(q, x)[0] = 0 /\ \A i \in 1..Len(q) : Times(q, x)[i] = Times(q, x)[i - 1] + (IF q[i] = x THEN 1 ELSE 0)
    BY TimesStep
  <2>2. 1 \in 1..Len(q) /\ 1 - 1 = 0
    BY <1>1
  <2>3. Times(q, x)[1] = 0 + (IF q[1] = x THEN 1 ELSE 0)
    BY <2>1, <2>2
  <2> QED
    BY <1>1, <2>3
<1>3. \A i \in 0..Len(p) : Times(q, x)[1 + i] = Times(q, x)[1] + Times(p, x)[i]
  <2>1. Continues(p, Len(p), q, 1)
    BY <1>1 DEF Continues
  <2>2. CountsOn(p, Len(p), q, 1, x)
    BY <1>1, <2>1, TimesOn
  <2> QED
    BY <2>2 DEF CountsOn
<1> HIDE DEF first
<1>4. ASSUME NEW i \in 1..Len(q)
      PROVE  i - 1 \in 0..Len(p) /\ Times(q, x)[i] = first + Times(p, x)[i - 1]
  <2>1. i - 1 \in 0..Len(p) /\ 1 + (i - 1) = i
    BY <1>1
  <2> QED
    BY <1>2, <1>3, <2>1
<1>5. Total(q, x) = first + Total(p, x)
  <2>1. Len(q) \in 1..Len(q) /\ Len(q) - 1 = Len(p)
    BY <1>1
  <2> QED
    BY <1>4, <2>1 DEF Total
<1> QED
  BY <1>4, <1>5 DEF p, first

\* A queue of n times y.
LEMMA TimesOf ==
    ASSUME NEW X, NEW q \in Seq(X), NEW y, \A i \in 1..Len(q) : q[i] = y
    PROVE  /\ Total(q, y) = Len(q)
           /\ \A x : x # y => Total(q, x) = 0
<1>1. Len(q) \in Nat
  OBVIOUS
<1>2. ASSUME NEW x, NEW k \in {0, 1}, \A i \in 1..Len(q) : (IF q[i] = x THEN 1 ELSE 0) = k
      PROVE  Total(q, x) = k * Len(q)
  <2> DEFINE t == Times(q, x)
             n == Len(q)
             T == {i \in 0..n : t[i] = k * i}
  <2>1. t[0] = 0 /\ \A i \in 1..n : t[i] = t[i - 1] + (IF q[i] = x THEN 1 ELSE 0)
    BY TimesStep
  <2>2. n \in Nat /\ \A i \in 1..n : t[i] = t[i - 1] + k
    BY <1>1, <1>2, <2>1
  <2> HIDE DEF t, n
  <2>3. 0 \in T
    BY <2>1, <2>2
  <2>4. \A i \in 1..n : i - 1 \in T => i \in T
    <3> SUFFICES ASSUME NEW i \in 1..n, i - 1 \in T PROVE i \in T
      OBVIOUS
    <3>1. i \in Nat /\ t[i] = k * (i - 1) + k
      BY <2>2
    <3>2. CASE k = 0
      BY <3>1, <3>2
    <3>3. CASE k = 1
      BY <3>1, <3>3
    <3> QED
      BY <3>2, <3>3
  <2> HIDE DEF T
  <2>5. 0..n \subseteq T
    BY <2>2, <2>3, <2>4, UpTo
  <2>6. n \in T
    BY <2>2, <2>5
  <2>7. t[n] = k * n
    BY <2>6 DEF T
  <2> QED
    BY <2>7 DEF t, n, Total
<1>3. Total(q, y) = Len(q)
  <2>1. \A i \in 1..Len(q) : (IF q[i] = y THEN 1 ELSE 0) = 1
    OBVIOUS
  <2>2. Total(q, y) = 1 * Len(q)
    BY <1>2, <2>1
  <2> QED
    BY <1>1, <2>2
<1>4. ASSUME NEW x, x # y PROVE Total(q, x) = 0
  <2>1. \A i \in 1..Len(q) : (IF q[i] = x THEN 1 ELSE 0) = 0
    BY <1>4
  <2>2. Total(q, x) = 0 * Len(q)
    BY <1>2, <2>1
  <2> QED
    BY <1>1, <2>2
<1> QED
  BY <1>3, <1>4

\* What is kept of a queue was not earlier in it.
LEMMA WithoutFrom ==
    ASSUME NEW X, NEW q \in Seq(X), NEW gone
    PROVE  /\ Len(Without(q, gone)) <= Len(q)
           /\ \A j \in 1..Len(Without(q, gone)) :
                 \E i \in 1..Len(q) : i >= j /\ q[i] = Without(q, gone)[j]
<1> DEFINE n == Len(q)
           k == Kept(q, gone)
           From(m, p) == \A j \in 1..Len(p) : \E i \in 1..m : i >= j /\ q[i] = p[j]
           T == {m \in 0..n : k[m] \in Seq(X) /\ Len(k[m]) <= m /\ From(m, k[m])}
<1>1. /\ n \in Nat /\ q \in [1..n -> X] /\ k[0] = <<>>
      /\ \A i \in 1..n : k[i] = IF q[i] \in gone THEN k[i - 1] ELSE Append(k[i - 1], q[i])
  BY KeptStep
<1> HIDE DEF k, n
<1>2. 0 \in T
  <2>1. k[0] \in Seq(X) /\ Len(k[0]) = 0
    BY <1>1
  <2>2. 0 \in 0..n /\ 0 <= 0 /\ \A j \in 1..0 : FALSE
    BY <1>1
  <2>3. From(0, k[0])
    BY <2>1, <2>2
  <2> QED
    BY <2>1, <2>2, <2>3
<1>3. ASSUME NEW m \in 1..n, m - 1 \in T PROVE m \in T
  <2>1. /\ k[m - 1] \in Seq(X) /\ Len(k[m - 1]) <= m - 1 /\ Len(k[m - 1]) \in Nat
        /\ \A j \in 1..Len(k[m - 1]) : \E i \in 1..(m - 1) : i >= j /\ q[i] = k[m - 1][j]
    BY <1>3
  <2>2. 1..(m - 1) \subseteq 1..m /\ m \in 1..m /\ m \in Nat /\ q[m] \in X /\ m \in 0..n
    BY <1>1
  <2>3. CASE q[m] \in gone
    <3>1. k[m] = k[m - 1]
      BY <1>1, <2>3
    <3> QED
      BY <2>1, <2>2, <3>1
  <2>4. CASE q[m] \notin gone
    <3> DEFINE p == k[m - 1]
               r == Append(p, q[m])
    <3>1. k[m] = r
      BY <1>1, <2>4
    <3>2. r \in Seq(X) /\ Len(r) = Len(p) + 1 /\ r[Len(p) + 1] = q[m] /\ \A j \in 1..Len(p) : r[j] = p[j]
      BY <2>1, <2>2
    <3>3. ASSUME NEW j \in 1..Len(r) PROVE \E i \in 1..m : i >= j /\ q[i] = r[j]
      <4>1. CASE j = Len(p) + 1
        BY <2>1, <2>2, <3>2, <4>1
      <4>2. CASE j \in 1..Len(p)
        BY <2>1, <2>2, <3>2, <4>2
      <4> QED
        BY <2>1, <3>2, <4>1, <4>2
    <3>4. Len(r) <= m
      BY <2>1, <2>2, <3>2
    <3> HIDE DEF r
    <3>5. From(m, r)
      BY <3>3
    <3> QED
      BY <2>2, <3>1, <3>2, <3>4, <3>5
  <2> QED
    BY <2>3, <2>4
<1>4. n \in T
  <2>1. \A i \in 1..n : i - 1 \in T => i \in T
    BY <1>3
  <2> HIDE DEF T
  <2>2. 0..n \subseteq T
    BY <1>1, <1>2, <2>1, UpTo
  <2> QED
    BY <1>1, <2>2
<1> QED
  BY <1>4 DEF Without, k, n
=============================================================================
