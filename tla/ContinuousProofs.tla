-------------------------- MODULE ContinuousProofs --------------------------
(***************************************************************************)
(* Proofs about Continuous, for any number of requests, any labels, nodes   *)
(* and sessions.  Where they assume MayFlushBetween = FALSE they are about   *)
(* services outside of the schedule of the flush, see Continuous.           *)
(***************************************************************************)
EXTENDS Continuous, DeliveryLemmas

LEMMA NoNames ==
    /\ None \notin Requests /\ None \notin Lanes /\ MaxRequests \in Nat
BY ContinuousAssumption DEF Requests, Lanes

-----------------------------------------------------------------------------
(* Type correctness *)

Fates == {"unmade", "input", "queued", "held"} \cup Over

\* The order book: lanes, orders and fates.
Books == [lanes : [Lanes -> LaneOf(Requests)], held : Seq(Requests), fate : [Requests -> Fates]]

LEMMA LaneIn ==
    ASSUME TypeOK, NEW r \in Requests
    PROVE  Lane(r) \in Lanes \cup {None}
<1>1. ins[r].label \in Labels \cup {None} /\ mode \in {"serial", "parallel"}
  BY ContinuousAssumption DEF TypeOK, Instructions
<1> QED
  BY <1>1 DEF Lane, LaneFor, Lanes

LEMMA TypeHas ==
    ASSUME TypeOK
    PROVE  /\ Book \in Books /\ provider \in {"alive", "despawned", "noticed"}
           /\ lanes \in [Lanes -> LaneOf(Requests)] /\ held \in Seq(Requests)
           /\ fate \in [Requests -> Fates]
           /\ made \in 0..MaxRequests /\ ins \in [Requests -> Instructions]
           /\ DOMAIN responses \subseteq Nat /\ (\A i \in DOMAIN responses : responses[i] \in Requests)
           /\ unblock \in Seq(Lanes) /\ active \subseteq Sessions
           /\ turn \in {"flush", "app"}
BY DEF TypeOK, LaneOf, Fates, Book, Books

\* The parts of the type that a step can disturb.
LEMMA TypeParts ==
    ASSUME TypeOK, UNCHANGED mode, Book' \in Books,
           provider' \in {"alive", "despawned", "noticed"},
           made' \in 0..MaxRequests, ins' \in [Requests -> Instructions],
           DOMAIN responses' \subseteq Nat, \A i \in DOMAIN responses' : responses'[i] \in Requests,
           unblock' \in Seq(Lanes), active' \subseteq Sessions, turn' \in {"flush", "app"}
    PROVE  TypeOK'
<1>1. Book'.lanes = lanes' /\ Book'.held = held' /\ Book'.fate = fate'
  BY DEF Book
<1>2. /\ lanes' \in [Lanes -> LaneOf(Requests)] /\ held' \in Seq(Requests)
      /\ fate' \in [Requests -> Fates]
  BY <1>1 DEF Books
<1> QED
  BY <1>2 DEF TypeOK, LaneOf, Fates

\* A record of the book with another queue of orders, or other fates.
LEMMA BookFields ==
    ASSUME NEW l, NEW h, NEW f
    PROVE  LET b == [lanes |-> l, held |-> h, fate |-> f]
           IN  /\ b.lanes = l /\ b.held = h /\ b.fate = f
               /\ l \in [Lanes -> LaneOf(Requests)] /\ h \in Seq(Requests) /\ f \in [Requests -> Fates]
                     => b \in Books
BY DEF Books

LEMMA BookIs ==
    ASSUME NEW b \in Books
    PROVE  /\ b = [lanes |-> b.lanes, held |-> b.held, fate |-> b.fate]
           /\ b.lanes \in [Lanes -> LaneOf(Requests)] /\ b.held \in Seq(Requests)
           /\ b.fate \in [Requests -> Fates]
BY DEF Books

LEMMA BecomesIs ==
    ASSUME NEW b \in Books, Becomes(b)
    PROVE  Book' = b
<1>1. Book' = [lanes |-> lanes', held |-> held', fate |-> fate']
  BY DEF Book
<1> QED
  BY <1>1, BookIs DEF Becomes

\* What the operations of the book leave of it.
LEMMA HoldIs ==
    ASSUME NEW b \in Books, NEW r \in Requests
    PROVE  /\ Hold(b, r) \in Books /\ Hold(b, r).lanes = b.lanes
           /\ Hold(b, r).held = Append(b.held, r)
           /\ \A q \in Requests : Hold(b, r).fate[q] = IF q = r THEN "held" ELSE b.fate[q]
<1> DEFINE h == Append(b.held, r)
           f == [b.fate EXCEPT ![r] = "held"]
<1>1. Hold(b, r) = [b EXCEPT !.held = h, !.fate = f]
  BY DEF Hold
<1>2. h \in Seq(Requests) /\ f \in [Requests -> Fates]
      /\ \A q \in Requests : f[q] = IF q = r THEN "held" ELSE b.fate[q]
  BY BookIs DEF Fates
<1> HIDE DEF h, f
<1>3. /\ Hold(b, r) \in Books /\ Hold(b, r).lanes = b.lanes
      /\ Hold(b, r).held = h /\ Hold(b, r).fate = f
  BY <1>1, <1>2 DEF Books
<1> QED
  BY <1>2, <1>3 DEF h

LEMMA ServeNextIs ==
    ASSUME NEW b \in Books, NEW l \in Lanes
    PROVE  LET next == PopNext(b.lanes[l])
               h == next.delivering
           IN  /\ ServeNext(b, l) \in Books
               /\ next \in LaneOf(Requests)
               /\ ServeNext(b, l).lanes = [b.lanes EXCEPT ![l] = next]
               /\ h = None => ServeNext(b, l).held = b.held /\ ServeNext(b, l).fate = b.fate
               /\ h # None =>
                     /\ h \in Requests
                     /\ ServeNext(b, l).held = Append(b.held, h)
                     /\ \A q \in Requests :
                           ServeNext(b, l).fate[q] = IF q = h THEN "held" ELSE b.fate[q]
<1> DEFINE next == PopNext(b.lanes[l])
           h == next.delivering
           taken == [b.lanes EXCEPT ![l] = next]
           popped == [b EXCEPT !.lanes = taken]
<1>1. next \in LaneOf(Requests)
  BY BookIs, PopLane
<1>2. ServeNext(b, l) = IF h = None THEN popped ELSE Hold(popped, h)
  BY DEF ServeNext
<1> HIDE DEF next
<1>4. taken \in [Lanes -> LaneOf(Requests)]
  BY <1>1, BookIs
<1> HIDE DEF taken
<1>5. /\ popped \in Books /\ popped.lanes = taken
      /\ popped.held = b.held /\ popped.fate = b.fate
  BY <1>4 DEF Books
<1> HIDE DEF popped
<1>6. h \in Requests \cup {None}
  BY <1>1 DEF LaneOf
<1> HIDE DEF h
<1>7. CASE h = None
  BY <1>1, <1>2, <1>5, <1>7 DEF h, next, taken
<1>8. CASE h # None
  <2>1. /\ Hold(popped, h) \in Books /\ Hold(popped, h).lanes = popped.lanes
        /\ Hold(popped, h).held = Append(popped.held, h)
        /\ \A q \in Requests : Hold(popped, h).fate[q] = IF q = h THEN "held" ELSE popped.fate[q]
    BY <1>5, <1>6, <1>8, HoldIs
  <2> QED
    BY <1>1, <1>2, <1>5, <1>6, <1>8, <2>1 DEF h, next, taken
<1> QED
  BY <1>7, <1>8

\* The book when an order has left it, before its lane serves the next one.
Removed(b, i) ==
    [b EXCEPT !.held = RemoveAt(@, i),
              !.fate = [q \in Requests |->
                            IF q = b.held[i] /\ @[q] = "held" THEN "lost" ELSE @[q]]]

LEMMA RemovedIs ==
    ASSUME NEW b \in Books, NEW i \in 1..Len(b.held)
    PROVE  /\ Removed(b, i) \in Books /\ Removed(b, i).lanes = b.lanes
           /\ b.held[i] \in Requests
           /\ Removed(b, i).held = RemoveAt(b.held, i)
           /\ \A q \in Requests : Removed(b, i).fate[q] =
                 IF q = b.held[i] /\ b.fate[q] = "held" THEN "lost" ELSE b.fate[q]
<1> DEFINE r == b.held[i]
           h == RemoveAt(b.held, i)
           f == [q \in Requests |-> IF q = r /\ b.fate[q] = "held" THEN "lost" ELSE b.fate[q]]
<1>1. Removed(b, i) = [b EXCEPT !.held = h, !.fate = f]
  BY DEF Removed
<1>2. r \in Requests
  BY BookIs
<1>3. h \in Seq(Requests)
  BY BookIs, RemoveAtIs
<1> HIDE DEF r, h
<1>4. /\ f \in [Requests -> Fates]
      /\ \A q \in Requests : f[q] = IF q = r /\ b.fate[q] = "held" THEN "lost" ELSE b.fate[q]
  BY <1>2, BookIs DEF Fates, Over
<1> HIDE DEF f
<1>5. /\ Removed(b, i) \in Books /\ Removed(b, i).lanes = b.lanes
      /\ Removed(b, i).held = h /\ Removed(b, i).fate = f
  BY <1>1, <1>3, <1>4 DEF Books
<1> QED
  BY <1>2, <1>4, <1>5 DEF r, h

LEMMA RetireIs ==
    ASSUME TypeOK, NEW b \in Books, NEW i \in Nat
    PROVE  /\ Retire(b, i) \in Books
           /\ i \notin 1..Len(b.held) => Retire(b, i) = b
           /\ i \in 1..Len(b.held) =>
                 Retire(b, i) = IF Lane(b.held[i]) = None THEN Removed(b, i)
                                ELSE ServeNext(Removed(b, i), Lane(b.held[i]))
<1>1. DOMAIN b.held = 1..Len(b.held)
  BY BookIs
<1>2. CASE i \notin 1..Len(b.held)
  BY <1>1, <1>2 DEF Retire
<1>3. CASE i \in 1..Len(b.held)
  <2>1. Retire(b, i) = IF Lane(b.held[i]) = None THEN Removed(b, i)
                       ELSE ServeNext(Removed(b, i), Lane(b.held[i]))
    BY <1>1, <1>3 DEF Retire, Removed
  <2>2. Removed(b, i) \in Books /\ b.held[i] \in Requests
    BY <1>3, RemovedIs
  <2>3. Lane(b.held[i]) \in Lanes \cup {None}
    BY <2>2, LaneIn
  <2>4. CASE Lane(b.held[i]) = None
    BY <1>3, <2>1, <2>2, <2>4
  <2>5. CASE Lane(b.held[i]) # None
    <3>1. ServeNext(Removed(b, i), Lane(b.held[i])) \in Books
      BY <2>2, <2>3, <2>5, ServeNextIs
    <3> QED
      BY <1>3, <2>1, <2>5, <3>1
  <2> QED
    BY <2>4, <2>5
<1> QED
  BY <1>2, <1>3

\* Retired satisfies the recursion that defines it.
LEMMA RetiredStep ==
    ASSUME TypeOK, NEW b \in Books, NEW S
    PROVE  /\ Retired(b, S)[0] = b
           /\ \A k \in 0..Len(b.held) : Retired(b, S)[k] \in Books
           /\ \A k \in 1..Len(b.held) :
                 Retired(b, S)[k] =
                    IF LastFirst(Len(b.held), k) \in S
                    THEN Retire(Retired(b, S)[k - 1], LastFirst(Len(b.held), k))
                    ELSE Retired(b, S)[k - 1]
<1> DEFINE n == Len(b.held)
           Do(k, c) == IF LastFirst(n, k) \in S THEN Retire(c, LastFirst(n, k)) ELSE c
           step == [k \in 1..n |-> [c \in Books |-> Do(k, c)]]
           Def(f) == [k \in 0..n |-> IF k = 0 THEN b
                        ELSE IF LastFirst(n, k) \in S THEN Retire(f[k - 1], LastFirst(n, k))
                        ELSE f[k - 1]]
<1>1. n \in Nat
  BY BookIs
<1> HIDE DEF n
<1>2. step \in StepsIn(n, Books)
  <2>1. ASSUME NEW k \in 1..n, NEW c \in Books PROVE Do(k, c) \in Books
    <3>1. LastFirst(n, k) \in Nat
      BY <1>1 DEF LastFirst
    <3> QED
      BY <3>1, RetireIs
  <2> HIDE DEF Do
  <2> QED
    BY <2>1 DEF StepsIn
<1>3. PICK f : Follows(f, n, Books, b, step)
  <2> HIDE DEF step
  <2> QED
    BY <1>1, <1>2, Recursion
<1>4. f \in [0..n -> Books] /\ f[0] = b /\ \A k \in 1..n : f[k] = Do(k, f[k - 1])
  <2>1. f \in [0..n -> Books] /\ f[0] = b /\ \A k \in 1..n : f[k] = step[k][f[k - 1]]
    BY <1>3 DEF Follows
  <2>2. ASSUME NEW k \in 1..n PROVE f[k] = Do(k, f[k - 1])
    <3>1. k - 1 \in 0..n /\ f[k - 1] \in Books
      BY <1>1, <2>1
    <3> HIDE DEF Do
    <3> QED
      BY <2>1, <3>1
  <2> QED
    BY <2>1, <2>2
<1> HIDE DEF step
<1>5. f = Def(f)
  <2>1. ASSUME NEW k \in 0..n PROVE f[k] = Def(f)[k]
    <3>1. CASE k = 0
      BY <1>4, <3>1
    <3>2. CASE k # 0
      <4>1. k \in 1..n
        BY <1>1, <3>2
      <4> QED
        BY <1>4, <3>2, <4>1
    <3> QED
      BY <3>1, <3>2
  <2>2. DOMAIN f = 0..n /\ DOMAIN Def(f) = 0..n /\ f = [k \in 0..n |-> f[k]]
    BY <1>4
  <2> QED
    BY <2>1, <2>2
<1>6. Retired(b, S) = CHOOSE g : g = Def(g)
  BY DEF Retired, n
<1> DEFINE g == Retired(b, S)
<1> HIDE DEF Def
<1>7. g = Def(g)
  BY <1>5, <1>6
<1> HIDE DEF g
<1>8. g[0] = b
  BY <1>1, <1>7 DEF Def
<1>9. ASSUME NEW k \in 1..n
      PROVE  g[k] = IF LastFirst(n, k) \in S THEN Retire(g[k - 1], LastFirst(n, k)) ELSE g[k - 1]
  <2>1. k \in 0..n /\ k # 0
    BY <1>1
  <2>2. Def(g)[k] = IF LastFirst(n, k) \in S THEN Retire(g[k - 1], LastFirst(n, k)) ELSE g[k - 1]
    BY <2>1 DEF Def
  <2> QED
    BY <1>7, <2>2
<1>10. ASSUME NEW k \in 0..n PROVE g[k] \in Books
  <2> DEFINE T == {i \in 0..n : g[i] \in Books}
  <2>1. 0 \in T
    BY <1>1, <1>8
  <2>2. ASSUME NEW i \in 1..n, i - 1 \in T PROVE i \in T
    <3>1. LastFirst(n, i) \in Nat /\ i \in 0..n
      BY <1>1 DEF LastFirst
    <3> QED
      BY <1>9, <2>2, <3>1, RetireIs
  <2>3. 0..n \subseteq T
    <3> HIDE DEF T
    <3> QED
      BY <1>1, <2>1, <2>2, UpTo
  <2> QED
    BY <2>3
<1> QED
  BY <1>8, <1>9, <1>10 DEF g, n

LEMMA RetireAllType ==
    ASSUME TypeOK, NEW b \in Books, NEW S
    PROVE  RetireAll(b, S) \in Books
<1>1. Len(b.held) \in 0..Len(b.held)
  BY BookIs
<1> QED
  BY <1>1, RetiredStep DEF RetireAll

\* The book of serve, once the order was inserted into its lane.
Inserted(r) ==
    LET l == Lane(r)
        gone == Supplanted(ins, lanes[l], r)
    IN [lanes |-> [lanes EXCEPT ![l] = Insert(ins, @, r)],
        held  |-> held,
        fate  |-> [q \in Requests |->
                     IF q = r THEN "queued"
                     ELSE IF q \in gone \ {lanes[l].delivering} THEN "disposed"
                     ELSE fate[q]]]

LEMMA InsertedIs ==
    ASSUME TypeOK, NEW r \in Requests, Lane(r) # None
    PROVE  LET l == Lane(r)
               gone == Supplanted(ins, lanes[l], r)
               b == Inserted(r)
           IN  /\ l \in Lanes /\ b \in Books /\ b.held = held
               /\ b.lanes = [lanes EXCEPT ![l] = Insert(ins, @, r)]
               /\ Insert(ins, lanes[l], r) \in LaneOf(Requests)
               /\ \A q \in Requests : b.fate[q] = IF q = r THEN "queued"
                                        ELSE IF q \in gone \ {lanes[l].delivering} THEN "disposed"
                                        ELSE fate[q]
<1> DEFINE l == Lane(r)
           gone == Supplanted(ins, lanes[l], r)
           at == lanes[l].delivering
           next == Insert(ins, lanes[l], r)
           taken == [lanes EXCEPT ![l] = next]
           f == [q \in Requests |-> IF q = r THEN "queued"
                   ELSE IF q \in gone \ {at} THEN "disposed" ELSE fate[q]]
<1>1. l \in Lanes /\ lanes[l] \in LaneOf(Requests) /\ lanes \in [Lanes -> LaneOf(Requests)]
  BY LaneIn, TypeHas
<1>2. next \in LaneOf(Requests)
  <2>1. CASE at = None
    BY <1>1, <2>1 DEF Insert, LaneOf
  <2>2. CASE at # None
    BY <1>1, <2>2, InsertLane
  <2> QED
    BY <2>1, <2>2
<1>3. Inserted(r) = [lanes |-> taken, held |-> held, fate |-> f]
  BY DEF Inserted
<1>4. fate \in [Requests -> Fates] /\ held \in Seq(Requests)
  BY TypeHas
<1> HIDE DEF next, gone, at, l
<1>5. taken \in [Lanes -> LaneOf(Requests)]
  BY <1>1, <1>2
<1>6. f \in [Requests -> Fates]
  BY <1>4 DEF Fates, Over
<1> HIDE DEF taken
<1>7. f = [q \in Requests |-> f[q]] /\ \A q \in Requests : f[q] = IF q = r THEN "queued"
                ELSE IF q \in gone \ {at} THEN "disposed" ELSE fate[q]
  OBVIOUS
<1> HIDE DEF f
<1>8. /\ Inserted(r) \in Books /\ Inserted(r).lanes = taken /\ Inserted(r).held = held
      /\ Inserted(r).fate = f
  BY <1>3, <1>4, <1>5, <1>6 DEF Books
<1> QED
  BY <1>1, <1>2, <1>7, <1>8 DEF next, gone, at, l, taken

\* The book when the supplanted order has gone.
Stopped(b, at) ==
    [b EXCEPT !.held = Without(@, {at}), !.fate = [@ EXCEPT ![at] = "disposed"]]

LEMMA StoppedIs ==
    ASSUME NEW b \in Books, NEW at \in Requests
    PROVE  LET c == Stopped(b, at)
           IN  /\ c \in Books /\ c.lanes = b.lanes /\ c.held = Without(b.held, {at})
               /\ \A q \in Requests : c.fate[q] = IF q = at THEN "disposed" ELSE b.fate[q]
<1> DEFINE h == Without(b.held, {at})
           f == [b.fate EXCEPT ![at] = "disposed"]
<1>1. Stopped(b, at) = [b EXCEPT !.held = h, !.fate = f]
  BY DEF Stopped
<1>2. h \in Seq(Requests)
  BY BookIs, WithoutSet
<1>3. /\ f \in [Requests -> Fates]
      /\ \A q \in Requests : f[q] = IF q = at THEN "disposed" ELSE b.fate[q]
  BY BookIs DEF Fates, Over
<1> HIDE DEF h, f
<1>4. /\ Stopped(b, at) \in Books /\ Stopped(b, at).lanes = b.lanes
      /\ Stopped(b, at).held = h /\ Stopped(b, at).fate = f
  BY <1>1, <1>2, <1>3 DEF Books
<1> QED
  BY <1>3, <1>4 DEF h

\* What serve makes of the book.
LEMMA ServeHas ==
    ASSUME TypeOK, NEW r \in Requests, Serve(r)
    PROVE  /\ fate[r] = "input" /\ provider = "alive" /\ turn = "flush"
           /\ UNCHANGED <<requestVars, provider, responses, active, turn>>
           /\ Lane(r) = None => Book' = Hold(Book, r) /\ UNCHANGED unblock
           /\ Lane(r) # None =>
                 LET l == Lane(r)
                     at == lanes[l].delivering
                     gone == Supplanted(ins, lanes[l], r)
                 IN  /\ at = None =>
                           Book' = Hold(Inserted(r), r)
                     /\ at # None /\ at \in gone /\ at \in ToSet(held) =>
                           Book' = ServeNext(Stopped(Inserted(r), at), l) /\ UNCHANGED unblock
                     /\ at # None /\ at \in gone /\ at \notin ToSet(held) =>
                           Book' = Inserted(r) /\ unblock' = Append(unblock, l)
                     /\ at # None /\ at \notin gone =>
                           Book' = Inserted(r) /\ UNCHANGED unblock
                     /\ at = None => UNCHANGED unblock
<1>1. /\ fate[r] = "input" /\ provider = "alive" /\ turn = "flush"
      /\ UNCHANGED <<requestVars, provider, responses, active, turn>>
  BY DEF Serve
<1>2. ASSUME Lane(r) = None PROVE Book' = Hold(Book, r) /\ UNCHANGED unblock
  <2>1. Becomes(Hold(Book, r)) /\ UNCHANGED unblock
    BY <1>2 DEF Serve
  <2>2. Hold(Book, r) \in Books
    BY HoldIs, TypeHas
  <2> QED
    BY <2>1, <2>2, BecomesIs
<1> DEFINE l == Lane(r)
           at == lanes[l].delivering
           gone == Supplanted(ins, lanes[l], r)
           found == at \in gone /\ at \in ToSet(held)
<1>3. ASSUME Lane(r) # None
      PROVE  /\ at = None => Book' = Hold(Inserted(r), r)
             /\ at # None /\ found => Book' = ServeNext(Stopped(Inserted(r), at), l)
             /\ at # None /\ ~found => Book' = Inserted(r)
             /\ unblock' = IF at \in gone /\ ~found THEN Append(unblock, l) ELSE unblock
             /\ at = None => at \notin gone
  <2>1. /\ Becomes(IF at = None THEN Hold(Inserted(r), r)
                   ELSE IF found THEN StopHeld(Inserted(r), l, at)
                   ELSE Inserted(r))
        /\ unblock' = IF at \in gone /\ ~found THEN Append(unblock, l) ELSE unblock
    BY <1>3 DEF Serve, Inserted
  <2>2. StopHeld(Inserted(r), l, at) = ServeNext(Stopped(Inserted(r), at), l)
    BY DEF StopHeld, Stopped
  <2>3. Inserted(r) \in Books /\ l \in Lanes /\ lanes[l] \in LaneOf(Requests)
    BY <1>3, InsertedIs, TypeHas
  <2>4. at \in Requests \cup {None}
    BY <2>3 DEF LaneOf
  <2>5. CASE at = None
    <3>1. Hold(Inserted(r), r) \in Books
      BY <2>3, HoldIs
    <3>2. at \notin gone
      <4>1. None \notin ToSet(lanes[l].queue)
        <5>1. lanes[l].queue \in Seq(Requests)
          BY <2>3 DEF LaneOf
        <5> QED
          BY <5>1, NoNames DEF ToSet
      <4> QED
        BY <2>5, <4>1 DEF Supplanted
    <3> QED
      BY <2>1, <2>5, <3>1, <3>2, BecomesIs
  <2>6. CASE at # None /\ found
    <3>1. Stopped(Inserted(r), at) \in Books
      BY <2>3, <2>4, <2>6, StoppedIs
    <3>2. ServeNext(Stopped(Inserted(r), at), l) \in Books
      BY <2>3, <3>1, ServeNextIs
    <3> HIDE DEF at, gone, l
    <3> QED
      BY <2>1, <2>2, <2>6, <3>2, BecomesIs
  <2>7. CASE at # None /\ ~found
    <3> HIDE DEF at, gone, l
    <3> QED
      BY <2>1, <2>3, <2>7, BecomesIs
  <2> QED
    BY <2>1, <2>5, <2>6, <2>7
<1> HIDE DEF l, at, gone
<1>4. ASSUME Lane(r) # None
      PROVE  /\ at = None => Book' = Hold(Inserted(r), r)
             /\ at # None /\ at \in gone /\ at \in ToSet(held) =>
                   Book' = ServeNext(Stopped(Inserted(r), at), l) /\ UNCHANGED unblock
             /\ at # None /\ at \in gone /\ at \notin ToSet(held) =>
                   Book' = Inserted(r) /\ unblock' = Append(unblock, l)
             /\ at # None /\ at \notin gone => Book' = Inserted(r) /\ UNCHANGED unblock
             /\ at = None => UNCHANGED unblock
  BY <1>3, <1>4
<1> QED
  BY <1>1, <1>2, <1>4 DEF l, at, gone

\* The requests that a cleanup is about, as Clean names them.
Mine(N, s) == {r \in {q \in 1..made : Origin[q].session = s} : Origin[r].node \in N}
Struck(s) == {r \in {q \in 1..made : Origin[q].session = s} : fate[r] = "queued"}
Dropped(s) == {r \in {q \in 1..made : Origin[q].session = s} : fate[r] = "held"}

\* What the cleanup of nodes makes of the lanes, the orders and the fates.
LEMMA CleanHas ==
    ASSUME TypeOK, NEW N, NEW s, Clean(N, s)
    PROVE  /\ UNCHANGED <<requestVars, provider, responses, unblock, turn>> /\ turn = "flush"
           /\ \A l \in Lanes : lanes'[l] = Strike(lanes[l], Struck(s))
           /\ lanes' \in [Lanes -> LaneOf(Requests)]
           /\ held' = Without(held, Dropped(s)) /\ held' \in Seq(Requests)
           /\ fate' \in [Requests -> Fates]
           /\ \A r \in Requests : fate'[r] =
                 IF r \in Mine(N, s) /\ fate[r] = "input" THEN "cleaned"
                 ELSE IF r \in Struck(s) \cup Dropped(s)
                      THEN IF r \in Mine(N, s) THEN "cleaned" ELSE "lost"
                 ELSE fate[r]
<1> DEFINE mine == Mine(N, s)
           struck == Struck(s)
           dropped == Dropped(s)
<1>1. /\ UNCHANGED <<requestVars, provider, responses, unblock, turn>> /\ turn = "flush"
      /\ lanes' = [l \in Lanes |-> Strike(lanes[l], struck)]
      /\ held' = Without(held, dropped)
      /\ fate' = [r \in Requests |->
                  IF r \in mine /\ fate[r] = "input" THEN "cleaned"
                  ELSE IF r \in struck \cup dropped
                       THEN IF r \in mine THEN "cleaned" ELSE "lost"
                  ELSE fate[r]]
  BY DEF Clean, Mine, Struck, Dropped
<1> HIDE DEF struck, dropped, mine
<1>2. lanes \in [Lanes -> LaneOf(Requests)] /\ held \in Seq(Requests) /\ fate \in [Requests -> Fates]
  BY TypeHas
<1>3. \A l \in Lanes : Strike(lanes[l], struck) \in LaneOf(Requests)
  BY <1>2, StrikeLane
<1>4. lanes' \in [Lanes -> LaneOf(Requests)] /\ \A l \in Lanes : lanes'[l] = Strike(lanes[l], struck)
  BY <1>1, <1>3
<1>5. held' \in Seq(Requests)
  BY <1>1, <1>2, WithoutSet
<1>6. fate' \in [Requests -> Fates]
  BY <1>1, <1>2 DEF Fates, Over
<1>7. \A r \in Requests : fate'[r] =
                     IF r \in mine /\ fate[r] = "input" THEN "cleaned"
                     ELSE IF r \in struck \cup dropped
                          THEN IF r \in mine THEN "cleaned" ELSE "lost"
                     ELSE fate[r]
  BY <1>1
<1> QED
  BY <1>1, <1>4, <1>5, <1>6, <1>7 DEF struck, dropped, mine

\* The book when the answers are given and the orders not yet retired.
Given ==
    LET answered == {responses[i] : i \in DOMAIN responses}
    IN  [Book EXCEPT !.fate = [r \in Requests |->
            IF r \in answered /\ @[r] = "held" THEN "responded" ELSE @[r]]]

LEMMA GivenIs ==
    ASSUME TypeOK
    PROVE  LET answered == {responses[i] : i \in DOMAIN responses}
           IN  /\ Given \in Books /\ Given.lanes = lanes /\ Given.held = held
               /\ \A r \in Requests : Given.fate[r] =
                     IF r \in answered /\ fate[r] = "held" THEN "responded" ELSE fate[r]
<1> DEFINE answered == {responses[i] : i \in DOMAIN responses}
           f == [r \in Requests |-> IF r \in answered /\ fate[r] = "held" THEN "responded" ELSE fate[r]]
<1>1. Book \in Books /\ Book.lanes = lanes /\ Book.held = held /\ Book.fate = fate
      /\ fate \in [Requests -> Fates]
  BY TypeHas DEF Book
<1>2. Given = [Book EXCEPT !.fate = f]
  BY <1>1 DEF Given
<1> HIDE DEF answered
<1>3. /\ f \in [Requests -> Fates]
      /\ \A r \in Requests : f[r] = IF r \in answered /\ fate[r] = "held" THEN "responded" ELSE fate[r]
  BY <1>1 DEF Fates, Over
<1> HIDE DEF f
<1>4. Given \in Books /\ Given.lanes = lanes /\ Given.held = held /\ Given.fate = f
  BY <1>1, <1>2, <1>3 DEF Books
<1> QED
  BY <1>3, <1>4 DEF answered

LEMMA ApplyHas ==
    ASSUME TypeOK, ApplyResponses
    PROVE  /\ turn = "app" /\ responses' = <<>>
           /\ UNCHANGED <<requestVars, provider, unblock, active, turn>>
           /\ Book' = IF provider = "alive" THEN RetireAll(Given, DOMAIN responses) ELSE Given
<1>1. Becomes(IF provider = "alive" THEN RetireAll(Given, DOMAIN responses) ELSE Given)
  BY DEF ApplyResponses, Given
<1>2. Given \in Books /\ RetireAll(Given, DOMAIN responses) \in Books
  BY GivenIs, RetireAllType
<1>3. Book' = IF provider = "alive" THEN RetireAll(Given, DOMAIN responses) ELSE Given
  <2>1. CASE provider = "alive"
    BY <1>1, <1>2, <2>1, BecomesIs
  <2>2. CASE provider # "alive"
    BY <1>1, <1>2, <2>2, BecomesIs
  <2> QED
    BY <2>1, <2>2
<1> QED
  BY <1>3 DEF ApplyResponses

LEMMA UnblockHas ==
    ASSUME TypeOK, UnblockNext
    PROVE  /\ turn = "flush" /\ unblock # <<>> /\ Head(unblock) \in Lanes
           /\ unblock' = Tail(unblock) /\ unblock' \in Seq(Lanes)
           /\ UNCHANGED <<requestVars, provider, responses, active, turn>>
           /\ Book' = IF provider = "alive" THEN ServeNext(Book, Head(unblock)) ELSE Book
<1>1. unblock \in Seq(Lanes) /\ Book \in Books
  BY TypeHas
<1>2. /\ turn = "flush" /\ unblock # <<>> /\ unblock' = Tail(unblock)
      /\ UNCHANGED <<requestVars, provider, responses, active, turn>>
  BY DEF UnblockNext
<1>3. Head(unblock) \in Lanes /\ Tail(unblock) \in Seq(Lanes)
  BY <1>1, <1>2, TailSet
<1>4. CASE provider = "alive"
  <2>1. Becomes(ServeNext(Book, Head(unblock)))
    BY <1>4 DEF UnblockNext
  <2>2. ServeNext(Book, Head(unblock)) \in Books
    BY <1>1, <1>3, ServeNextIs
  <2> QED
    BY <1>2, <1>3, <1>4, <2>1, <2>2, BecomesIs
<1>5. CASE provider # "alive"
  <2>1. UNCHANGED <<lanes, held, fate>>
    BY <1>5 DEF UnblockNext
  <2> QED
    BY <1>2, <1>3, <1>5, <2>1 DEF Book
<1> QED
  BY <1>4, <1>5

LEMMA DisposeHas ==
    ASSUME TypeOK, DisposeInputs, UNCHANGED <<lanes, held>>
    PROVE  Book' \in Books /\ \A r \in Requests :
              fate'[r] = IF fate[r] = "input" THEN "disposed" ELSE fate[r]
<1>1. lanes \in [Lanes -> LaneOf(Requests)] /\ held \in Seq(Requests) /\ fate \in [Requests -> Fates]
  BY TypeHas
<1>2. fate' = [r \in Requests |-> IF fate[r] = "input" THEN "disposed" ELSE fate[r]]
  BY DEF DisposeInputs
<1>3. fate' \in [Requests -> Fates]
  BY <1>1, <1>2 DEF Fates, Over
<1>4. Book' = [lanes |-> lanes, held |-> held, fate |-> fate']
  BY DEF Book
<1> QED
  BY <1>1, <1>2, <1>3, <1>4, BookFields

LEMMA InitTyped == Init => TypeOK
<1> SUFFICES ASSUME Init PROVE TypeOK
  OBVIOUS
<1>1. EmptyLane \in LaneOf(Requests)
  BY DEF EmptyLane, LaneOf
<1>2. [label |-> None, preempt |-> FALSE, ensure |-> FALSE] \in Instructions
  BY DEF Instructions
<1> QED
  BY <1>1, <1>2, NoNames DEF Init, TypeOK, LaneOf

\* A cleanup keeps the type.
LEMMA CleanTyped ==
    ASSUME TypeOK, NEW N, NEW s, Clean(N, s), active' \subseteq Sessions
    PROVE  TypeOK'
<1>1. /\ UNCHANGED <<requestVars, provider, responses, unblock, turn>>
      /\ lanes' \in [Lanes -> LaneOf(Requests)] /\ held' \in Seq(Requests)
      /\ fate' \in [Requests -> Fates]
  BY CleanHas
<1>2. Book' = [lanes |-> lanes', held |-> held', fate |-> fate']
  BY DEF Book
<1>3. Book' \in Books
  BY <1>1, <1>2, BookFields
<1> QED
  BY <1>1, <1>3, TypeHas, TypeParts DEF requestVars

LEMMA StepTyped == TypeOK /\ [Next]_vars => TypeOK'
<1> SUFFICES ASSUME TypeOK, [Next]_vars PROVE TypeOK'
  OBVIOUS
<1>0. /\ Book \in Books /\ provider \in {"alive", "despawned", "noticed"}
      /\ lanes \in [Lanes -> LaneOf(Requests)] /\ held \in Seq(Requests)
      /\ fate \in [Requests -> Fates]
      /\ made \in 0..MaxRequests /\ ins \in [Requests -> Instructions]
      /\ DOMAIN responses \subseteq Nat /\ (\A i \in DOMAIN responses : responses[i] \in Requests)
      /\ unblock \in Seq(Lanes) /\ active \subseteq Sessions
      /\ turn \in {"flush", "app"}
  BY TypeHas
<1>1. ASSUME NEW r \in Requests, NEW i \in Offered[r], Request(i) PROVE TypeOK'
  <2>1. /\ made < MaxRequests /\ i \in Offered[made + 1] /\ made' = made + 1
        /\ ins' = [ins EXCEPT ![made + 1] = i] /\ fate' = [fate EXCEPT ![made + 1] = "input"]
        /\ UNCHANGED <<mode, provider, lanes, held, responses, unblock, active, turn>>
    BY <1>1 DEF Request
  <2>2. made + 1 \in Requests /\ made' \in 0..MaxRequests
    BY <1>0, <2>1, NoNames DEF Requests
  <2>3. i \in Instructions
    BY <2>1, <2>2, ContinuousAssumption
  <2>4. ins' \in [Requests -> Instructions] /\ fate' \in [Requests -> Fates]
    BY <1>0, <2>1, <2>2, <2>3 DEF Fates
  <2>5. Book' = [lanes |-> lanes, held |-> held, fate |-> fate']
    BY <2>1 DEF Book
  <2>6. Book' \in Books
    BY <1>0, <2>4, <2>5, BookFields
  <2> QED
    BY <1>0, <2>1, <2>2, <2>4, <2>6, TypeParts
<1>2. ASSUME NEW r \in Requests, Serve(r) PROVE TypeOK'
  <2>1. /\ UNCHANGED <<requestVars, provider, responses, active, turn>>
        /\ Book' \in Books /\ unblock' \in Seq(Lanes)
    <3> DEFINE l == Lane(r)
               at == lanes[l].delivering
               gone == Supplanted(ins, lanes[l], r)
    <3>1. CASE l = None
      BY <1>0, <1>2, <3>1, ServeHas, HoldIs
    <3>2. CASE l # None
      <4>1. Inserted(r) \in Books /\ l \in Lanes
        BY <3>2, InsertedIs
      <4>2. at \in Requests \cup {None}
        BY <1>0, <4>1 DEF LaneOf
      <4>3. CASE at = None
        BY <1>0, <1>2, <3>2, <4>1, <4>3, ServeHas, HoldIs
      <4>4. CASE at # None /\ at \in gone /\ at \in ToSet(held)
        <5>1. Stopped(Inserted(r), at) \in Books
          BY <4>1, <4>2, <4>4, StoppedIs
        <5>2. ServeNext(Stopped(Inserted(r), at), l) \in Books
          BY <4>1, <5>1, ServeNextIs
        <5> QED
          BY <1>0, <1>2, <3>2, <4>4, <5>2, ServeHas
      <4>5. CASE at # None /\ at \in gone /\ at \notin ToSet(held)
        <5>1. Append(unblock, l) \in Seq(Lanes)
          BY <1>0, <4>1
        <5> QED
          BY <1>0, <1>2, <3>2, <4>1, <4>5, <5>1, ServeHas
      <4>6. CASE at # None /\ at \notin gone
        BY <1>0, <1>2, <3>2, <4>1, <4>6, ServeHas
      <4> QED
        BY <4>3, <4>4, <4>5, <4>6
    <3> QED
      BY <3>1, <3>2
  <2> QED
    BY <1>0, <2>1, TypeParts DEF requestVars
<1>3. CASE ServeNobody \/ NoticeDespawn
  <2>1. /\ DisposeInputs /\ UNCHANGED <<requestVars, lanes, held, responses, unblock, active, turn>>
        /\ provider' \in {"alive", "despawned", "noticed"}
    BY <1>0, <1>3 DEF ServeNobody, NoticeDespawn
  <2>2. Book' \in Books
    BY <2>1, DisposeHas
  <2> QED
    BY <1>0, <2>1, <2>2, TypeParts DEF requestVars
<1>4. CASE UnblockNext
  <2>1. /\ UNCHANGED <<requestVars, provider, responses, active, turn>>
        /\ unblock' \in Seq(Lanes) /\ Head(unblock) \in Lanes
        /\ Book' = IF provider = "alive" THEN ServeNext(Book, Head(unblock)) ELSE Book
    BY <1>4, UnblockHas
  <2>2. Book' \in Books
    BY <1>0, <2>1, ServeNextIs
  <2> QED
    BY <1>0, <2>1, <2>2, TypeParts DEF requestVars
<1>5. CASE EndFlush \/ BeginFlush
  <2>1. /\ UNCHANGED <<requestVars, provider, lanes, fate, held, responses, unblock, active>>
        /\ turn' \in {"flush", "app"}
    BY <1>5 DEF EndFlush, BeginFlush
  <2>2. Book' = Book
    BY <2>1 DEF Book
  <2> QED
    BY <1>0, <2>1, <2>2, TypeParts DEF requestVars
<1>6. ASSUME NEW s \in Sessions, CleanScope(s) PROVE TypeOK'
  BY <1>0, <1>6, CleanTyped DEF CleanScope
<1>7. ASSUME NEW n \in Nodes, NEW s \in Sessions, Trim(n, s) PROVE TypeOK'
  BY <1>0, <1>7, CleanTyped DEF Trim
<1>8. ASSUME NEW S \in SUBSET DOMAIN held, Respond(S) PROVE TypeOK'
  <2>1. /\ responses' = [i \in S |-> held[i]]
        /\ UNCHANGED <<requestVars, provider, lanes, fate, held, unblock, active, turn>>
    BY <1>8 DEF Respond
  <2>2. DOMAIN held \subseteq Nat /\ \A i \in DOMAIN held : held[i] \in Requests
    BY <1>0
  <2>3. DOMAIN responses' = S /\ \A i \in S : responses'[i] \in Requests
    BY <2>1, <2>2
  <2>4. Book' = Book
    BY <2>1 DEF Book
  <2> QED
    BY <1>0, <2>1, <2>2, <2>3, <2>4, TypeParts DEF requestVars
<1>9. CASE ApplyResponses
  <2>1. /\ responses' = <<>> /\ UNCHANGED <<requestVars, provider, unblock, active, turn>>
        /\ Book' = IF provider = "alive" THEN RetireAll(Given, DOMAIN responses) ELSE Given
    BY <1>9, ApplyHas
  <2>2. Book' \in Books
    BY <2>1, GivenIs, RetireAllType
  <2>3. DOMAIN responses' = {}
    BY <2>1
  <2> QED
    BY <1>0, <2>1, <2>2, <2>3, TypeParts DEF requestVars
<1>10. CASE Despawn
  <2>1. /\ provider' = "despawned" /\ lanes' = [l \in Lanes |-> EmptyLane] /\ held' = <<>>
        /\ fate' = [r \in Requests |-> IF fate[r] \in {"queued", "held"} THEN "lost" ELSE fate[r]]
        /\ UNCHANGED <<requestVars, responses, unblock, active, turn>>
    BY <1>10 DEF Despawn
  <2>2. EmptyLane \in LaneOf(Requests)
    BY DEF EmptyLane, LaneOf
  <2>3. lanes' \in [Lanes -> LaneOf(Requests)] /\ held' \in Seq(Requests)
    BY <2>1, <2>2
  <2>4. fate' \in [Requests -> Fates]
    BY <1>0, <2>1 DEF Fates, Over
  <2>5. Book' = [lanes |-> lanes', held |-> held', fate |-> fate']
    BY DEF Book
  <2>6. Book' \in Books
    BY <2>3, <2>4, <2>5, BookFields
  <2> QED
    BY <1>0, <2>1, <2>6, TypeParts DEF requestVars
<1>11. CASE UNCHANGED vars
  BY <1>11 DEF vars, TypeOK, Lane, LaneFor
<1> QED
  BY <1>1, <1>2, <1>3, <1>4, <1>5, <1>6, <1>7, <1>8, <1>9, <1>10, <1>11 DEF Next

\* A continuous service keeps to the type of its state, whatever is requested,
\* answered and cleaned, and whenever a flush runs (service/continuous.rs).
THEOREM ContinuousTypeCorrect == Spec => []TypeOK
BY InitTyped, StepTyped, PTL DEF Spec

-----------------------------------------------------------------------------
(* What the book keeps to, while it is worked on: the lanes in M are sound,  *)
(* those in U will be unblocked, and the orders in R are answered but have   *)
(* not left it yet.  L is the lane of each request.                          *)

Place == [r \in Requests |-> Lane(r)]

\* The orders that are held are not answered yet, but for those in R.
OrdersSound(b, R) ==
    /\ IsInjective(b.held)
    /\ \A q \in Requests : q \in ToSet(b.held) <=> b.fate[q] = "held" \/ q \in R
    /\ \A q \in R : q \in Requests /\ b.fate[q] = "responded"

\* A queue holds each of the requests that wait for its lane once.
QueueSound(b, L, l) ==
    /\ IsInjective(b.lanes[l].queue)
    /\ \A q \in Requests : q \in ToSet(b.lanes[l].queue) <=> b.fate[q] = "queued" /\ L[q] = l

\* A lane is taken by an order of its own that still occupies it or was cleaned.
LaneSound(b, L, l, U, R) ==
    LET d == b.lanes[l].delivering
    IN  /\ d # None => /\ b.fate[d] \in {"held"} \cup Over /\ L[d] = l
                       /\ b.fate[d] \in {"held", "cleaned", "lost"} \/ l \in U \/ d \in R
        /\ b.lanes[l].queue # <<>> => d # None

Sound(b, L, M, U, R) ==
    /\ OrdersSound(b, R)
    /\ \A l \in Lanes : QueueSound(b, L, l)
    /\ \A l \in M : LaneSound(b, L, l, U, R)

LEMMA BookParts ==
    ASSUME NEW b \in Books, NEW l \in Lanes
    PROVE  /\ b.lanes[l] \in LaneOf(Requests)
           /\ b.lanes[l].delivering \in Requests \cup {None}
           /\ b.lanes[l].queue \in Seq(Requests)
           /\ b.held \in Seq(Requests) /\ b.fate \in [Requests -> Fates]
BY BookIs DEF LaneOf

\* More lanes may be about to be unblocked.
LEMMA SoundMore ==
    ASSUME NEW b, NEW L, NEW U, NEW V, NEW R, Sound(b, L, Lanes, U, R), U \subseteq V
    PROVE  Sound(b, L, Lanes, V, R)
BY DEF Sound, LaneSound

\* An order more is held.
LEMMA HeldSound ==
    ASSUME NEW b \in Books, NEW c \in Books, NEW r \in Requests, NEW R,
           OrdersSound(b, R), b.fate[r] \notin {"held", "responded"},
           c.held = Append(b.held, r),
           \A q \in Requests : c.fate[q] = IF q = r THEN "held" ELSE b.fate[q]
    PROVE  OrdersSound(c, R)
<1>1. /\ IsInjective(b.held)
      /\ \A q \in Requests : q \in ToSet(b.held) <=> b.fate[q] = "held" \/ q \in R
      /\ \A q \in R : q \in Requests /\ b.fate[q] = "responded"
  BY DEF OrdersSound
<1>2. r \notin R /\ r \notin ToSet(b.held)
  BY <1>1
<1>3. b.held \in Seq(Requests)
  BY BookIs
<1>4. ToSet(c.held) = ToSet(b.held) \cup {r} /\ IsInjective(c.held)
  BY <1>1, <1>2, <1>3, AppendSet
<1> QED
  BY <1>1, <1>2, <1>4 DEF OrdersSound

\* No request is in the book before it was made.
Unmade(b, c) == \A q \in Requests : b.fate[q] = "unmade" => c.fate[q] = "unmade"

LEMMA ServeNextSound ==
    ASSUME NEW b \in Books, NEW l \in Lanes, NEW L, NEW U, NEW V, NEW R,
           Sound(b, L, Lanes \ {l}, U, R), U \ {l} \subseteq V
    PROVE  /\ Sound(ServeNext(b, l), L, Lanes, V, R) /\ Unmade(b, ServeNext(b, l))
           /\ \A j \in DOMAIN b.held : /\ j \in DOMAIN ServeNext(b, l).held
                                       /\ ServeNext(b, l).held[j] = b.held[j]
<1> DEFINE c == ServeNext(b, l)
           next == PopNext(b.lanes[l])
           h == next.delivering
           queue == b.lanes[l].queue
<1>1. /\ OrdersSound(b, R) /\ (\A m \in Lanes : QueueSound(b, L, m))
      /\ \A m \in Lanes \ {l} : LaneSound(b, L, m, U, R)
  BY DEF Sound
<1>2. /\ c \in Books /\ c.lanes = [b.lanes EXCEPT ![l] = next]
      /\ h = None => c.held = b.held /\ c.fate = b.fate
      /\ h # None =>
            /\ h \in Requests /\ c.held = Append(b.held, h)
            /\ \A q \in Requests : c.fate[q] = IF q = h THEN "held" ELSE b.fate[q]
  BY ServeNextIs
<1>3. /\ b.lanes[l] \in LaneOf(Requests) /\ b.held \in Seq(Requests)
      /\ b.lanes \in [Lanes -> LaneOf(Requests)] /\ queue \in Seq(Requests)
  BY BookIs, BookParts
<1>4. /\ next \in LaneOf(Requests)
      /\ queue = <<>> => next = EmptyLane
      /\ queue # <<>> =>
            /\ h \in Requests
            /\ ToSet(queue) = {h} \cup ToSet(next.queue)
            /\ IsInjective(queue) => h \notin ToSet(next.queue) /\ IsInjective(next.queue)
  <2>1. next \in LaneOf(Requests)
    BY <1>3, PopLane
  <2>2. queue = <<>> => next = EmptyLane
    BY <1>3, PopLane
  <2>3. queue # <<>> =>
            /\ h \in Requests
            /\ ToSet(queue) = {h} \cup ToSet(next.queue)
            /\ IsInjective(queue) => h \notin ToSet(next.queue) /\ IsInjective(next.queue)
    BY <1>3, PopLane
  <2> QED
    BY <2>1, <2>2, <2>3
<1>5. c.lanes[l] = next /\ \A m \in Lanes \ {l} : c.lanes[m] = b.lanes[m]
  BY <1>2, <1>3
<1>6. \A q \in Requests : q \in ToSet(queue) <=> b.fate[q] = "queued" /\ L[q] = l
  BY <1>1 DEF QueueSound
<1>7. IsInjective(queue)
  BY <1>1 DEF QueueSound
<1> HIDE DEF c, next, queue
<1>8. CASE queue = <<>>
  <2>1. /\ next = EmptyLane /\ h = None /\ c.held = b.held /\ c.fate = b.fate
    BY <1>2, <1>4, <1>8 DEF EmptyLane
  <2>2. OrdersSound(c, R)
    BY <1>1, <2>1 DEF OrdersSound
  <2>3. ASSUME NEW m \in Lanes PROVE QueueSound(c, L, m)
    <3>1. c.lanes[m].queue = b.lanes[m].queue
      BY <1>5, <1>8, <2>1 DEF EmptyLane, queue
    <3> QED
      BY <1>1, <2>1, <3>1 DEF QueueSound
  <2>4. ASSUME NEW m \in Lanes PROVE LaneSound(c, L, m, V, R)
    <3>1. CASE m = l
      BY <1>5, <2>1, <3>1 DEF LaneSound, EmptyLane
    <3>2. CASE m # l
      BY <1>1, <1>5, <2>1, <3>2 DEF LaneSound
    <3> QED
      BY <3>1, <3>2
  <2> QED
    BY <2>1, <2>2, <2>3, <2>4 DEF Sound, c, Unmade
<1>9. CASE queue # <<>>
  <2>1. /\ h \in Requests /\ h # None
        /\ ToSet(queue) = {h} \cup ToSet(next.queue)
        /\ h \notin ToSet(next.queue) /\ IsInjective(next.queue)
    BY <1>4, <1>7, <1>9, NoNames
  <2>2. b.fate[h] = "queued" /\ L[h] = l
    BY <1>6, <2>1
  <2>3. c.held = Append(b.held, h)
        /\ \A q \in Requests : c.fate[q] = IF q = h THEN "held" ELSE b.fate[q]
    BY <1>2, <2>1
  <2> HIDE DEF h
  <2>4. OrdersSound(c, R)
    BY <1>1, <1>2, <2>1, <2>2, <2>3, HeldSound
  <2>5. ASSUME NEW m \in Lanes PROVE QueueSound(c, L, m)
    <3>1. CASE m = l
      BY <1>5, <1>6, <2>1, <2>2, <2>3, <3>1 DEF QueueSound
    <3>2. CASE m # l
      <4>1. c.lanes[m] = b.lanes[m]
        BY <1>5, <3>2
      <4>2. IsInjective(b.lanes[m].queue)
            /\ \A q \in Requests : q \in ToSet(b.lanes[m].queue) <=> b.fate[q] = "queued" /\ L[q] = m
        BY <1>1 DEF QueueSound
      <4> QED
        BY <2>2, <2>3, <3>2, <4>1, <4>2 DEF QueueSound
    <3> QED
      BY <3>1, <3>2
  <2>6. ASSUME NEW m \in Lanes PROVE LaneSound(c, L, m, V, R)
    <3>1. CASE m = l
      <4>1. c.lanes[m].delivering = h
        BY <1>5, <3>1 DEF h
      <4> QED
        BY <2>1, <2>2, <2>3, <3>1, <4>1 DEF LaneSound
    <3>2. CASE m # l
      <4>1. c.lanes[m] = b.lanes[m] /\ LaneSound(b, L, m, U, R)
        BY <1>1, <1>5, <3>2
      <4>2. b.lanes[m].delivering \in Requests \cup {None}
        BY BookParts
      <4> QED
        BY <2>3, <3>2, <4>1, <4>2 DEF LaneSound
    <3> QED
      BY <3>1, <3>2
  <2>7. ASSUME NEW j \in DOMAIN b.held PROVE j \in DOMAIN c.held /\ c.held[j] = b.held[j]
    BY <1>3, <2>1, <2>3
  <2>8. Unmade(b, c)
    BY <2>2, <2>3 DEF Unmade
  <2> QED
    BY <2>4, <2>5, <2>6, <2>7, <2>8 DEF Sound, c
<1> QED
  BY <1>8, <1>9

\* The orders at the indices before i are where they were.
Ahead(h, i, b) == \A j \in 1..(i - 1) : j \in DOMAIN b.held /\ b.held[j] = h[j]

\* What is left when an answered order leaves: its lane has not been served yet.
LEMMA RemovedHas ==
    ASSUME TypeOK, NEW b \in Books, NEW i \in 1..Len(b.held), IsInjective(b.held),
           b.fate[b.held[i]] = "responded"
    PROVE  LET r == b.held[i]
               c == Removed(b, i)
           IN  /\ r \in Requests /\ r \in ToSet(b.held) /\ c \in Books /\ c.lanes = b.lanes
               /\ \A q \in Requests : c.fate[q] = b.fate[q]
               /\ \A x : x \in ToSet(c.held) <=> x \in ToSet(b.held) /\ x # r
               /\ IsInjective(c.held) /\ Ahead(b.held, i, c)
               /\ Place[r] = Lane(r) /\ Lane(r) \in Lanes \cup {None}
               /\ Retire(b, i) = IF Lane(r) = None THEN c ELSE ServeNext(c, Lane(r))
<1> DEFINE r == b.held[i]
           c == Removed(b, i)
           l == Lane(r)
<1>1. r \in Requests /\ b.fate[r] = "responded" /\ b.held \in Seq(Requests)
      /\ b.fate \in [Requests -> Fates]
  BY BookIs
<1>2. /\ c \in Books /\ c.lanes = b.lanes /\ c.held = RemoveAt(b.held, i)
      /\ \A q \in Requests : c.fate[q] = b.fate[q]
  BY <1>1, RemovedIs
<1>3. i \in Nat /\ Retire(b, i) = IF l = None THEN c ELSE ServeNext(c, l)
  <2>1. i \in Nat /\ i \in 1..Len(b.held)
    OBVIOUS
  <2> QED
    BY <2>1, RetireIs
<1>4. l \in Lanes \cup {None} /\ Place[r] = l
  BY <1>1, LaneIn DEF Place
<1>5. /\ \A x : x \in ToSet(c.held) <=> x \in ToSet(b.held) /\ x # r
      /\ IsInjective(c.held)
  BY <1>1, <1>2, RemoveAtSet
<1>6. \A j \in 1..(i - 1) : j \in DOMAIN c.held /\ c.held[j] = b.held[j]
  <2>1. /\ RemoveAt(b.held, i) \in Seq(Requests) /\ Len(RemoveAt(b.held, i)) = Len(b.held) - 1
        /\ \A j \in 1..(i - 1) : RemoveAt(b.held, i)[j] = b.held[j]
    BY <1>1, RemoveAtIs
  <2>2. DOMAIN c.held = 1..(Len(b.held) - 1)
    BY <1>2, <2>1
  <2>3. \A j \in 1..(i - 1) : j \in 1..(Len(b.held) - 1)
    BY <1>1
  <2> QED
    BY <1>2, <2>1, <2>2, <2>3
<1>7. r \in ToSet(b.held) /\ Ahead(b.held, i, c)
  BY <1>1, <1>6 DEF Ahead, ToSet
<1> QED
  BY <1>1, <1>2, <1>3, <1>4, <1>5, <1>7

\* Its lane is all that may not be sound.
LEMMA RemovedSound ==
    ASSUME TypeOK, NEW b \in Books, NEW U, NEW R, NEW i \in 1..Len(b.held),
           Sound(b, Place, Lanes, U, R), b.held[i] \in R
    PROVE  /\ IsInjective(b.held) /\ b.fate[b.held[i]] = "responded"
           /\ Sound(Removed(b, i), Place, Lanes \ {Lane(b.held[i])}, U, R \ {b.held[i]})
<1> DEFINE r == b.held[i]
           c == Removed(b, i)
           l == Lane(r)
           Q == R \ {r}
<1>1. /\ OrdersSound(b, R) /\ (\A m \in Lanes : QueueSound(b, Place, m))
      /\ \A m \in Lanes : LaneSound(b, Place, m, U, R)
  BY DEF Sound
<1>2. /\ IsInjective(b.held)
      /\ \A q \in Requests : q \in ToSet(b.held) <=> b.fate[q] = "held" \/ q \in R
      /\ \A q \in R : q \in Requests /\ b.fate[q] = "responded"
  BY <1>1 DEF OrdersSound
<1>3. b.fate[r] = "responded"
  BY <1>2
<1>4. /\ r \in Requests /\ c \in Books /\ c.lanes = b.lanes
      /\ \A q \in Requests : c.fate[q] = b.fate[q]
      /\ (\A x : x \in ToSet(c.held) <=> x \in ToSet(b.held) /\ x # r) /\ IsInjective(c.held)
      /\ Place[r] = l
  BY <1>2, <1>3, RemovedHas
<1> HIDE DEF c, l, r
<1>5. Sound(c, Place, Lanes \ {l}, U, Q)
  <2>1. OrdersSound(c, Q)
    BY <1>2, <1>3, <1>4 DEF OrdersSound
  <2>2. ASSUME NEW m \in Lanes PROVE QueueSound(c, Place, m)
    BY <1>1, <1>4 DEF QueueSound
  <2>3. ASSUME NEW m \in Lanes \ {l} PROVE LaneSound(c, Place, m, U, Q)
    <3>1. LaneSound(b, Place, m, U, R) /\ b.lanes[m].delivering \in Requests \cup {None}
      BY <1>1, BookParts
    <3> QED
      BY <1>4, <3>1 DEF LaneSound
  <2> QED
    BY <2>1, <2>2, <2>3 DEF Sound
<1> QED
  BY <1>2, <1>3, <1>5 DEF c, l, r

\* An order that is answered leaves the book, and no other.
LEMMA RetireSound ==
    ASSUME TypeOK, NEW b \in Books, NEW U, NEW R, NEW i \in 1..Len(b.held),
           Sound(b, Place, Lanes, U, R), b.held[i] \in R
    PROVE  /\ Sound(Retire(b, i), Place, Lanes, U, R \ {b.held[i]})
           /\ Ahead(b.held, i, Retire(b, i)) /\ Unmade(b, Retire(b, i))
<1> DEFINE r == b.held[i]
           c == Removed(b, i)
           l == Lane(r)
           Q == R \ {r}
<1>0. /\ IsInjective(b.held) /\ b.fate[r] = "responded"
      /\ Sound(c, Place, Lanes \ {l}, U, Q)
  BY RemovedSound
<1>1. /\ c \in Books /\ Ahead(b.held, i, c) /\ l \in Lanes \cup {None}
      /\ \A q \in Requests : c.fate[q] = b.fate[q]
      /\ Retire(b, i) = IF l = None THEN c ELSE ServeNext(c, l)
  BY <1>0, RemovedHas
<1>2. None \notin Lanes
  BY NoNames
<1> HIDE DEF c, l, r, Q
<1>3. CASE l = None
  <2>1. Lanes \ {l} = Lanes
    BY <1>2, <1>3
  <2> QED
    BY <1>0, <1>1, <1>3, <2>1 DEF Q, r, Unmade
<1>4. CASE l # None
  <2>1. /\ Sound(ServeNext(c, l), Place, Lanes, U, Q) /\ Unmade(c, ServeNext(c, l))
        /\ \A j \in DOMAIN c.held : j \in DOMAIN ServeNext(c, l).held
                                    /\ ServeNext(c, l).held[j] = c.held[j]
    BY <1>0, <1>1, <1>4, ServeNextSound
  <2> QED
    BY <1>1, <1>4, <2>1 DEF Q, r, Ahead, Unmade
<1> QED
  BY <1>3, <1>4

\* Retiring from the last index to the first, every answered order leaves: the
\* indices that are still to come, up to top, mean the orders they meant at first.
LEMMA RetiredSound ==
    ASSUME TypeOK, NEW b \in Books, NEW U, NEW S \in SUBSET (1..Len(b.held)),
           Sound(b, Place, Lanes, U, {b.held[j] : j \in S}), NEW top \in 0..Len(b.held)
    PROVE  LET c == Retired(b, S)[Len(b.held) - top]
           IN  /\ Sound(c, Place, Lanes, U, {b.held[j] : j \in {i \in S : i <= top}})
               /\ Unmade(b, c)
               /\ \A j \in 1..top : j \in DOMAIN c.held /\ c.held[j] = b.held[j]
<1> DEFINE n == Len(b.held)
           g == Retired(b, S)
           Left(k) == {b.held[j] : j \in {i \in S : i <= n - k}}
           Good(k) == /\ Sound(g[k], Place, Lanes, U, Left(k)) /\ Unmade(b, g[k])
                      /\ \A j \in 1..(n - k) : j \in DOMAIN g[k].held /\ g[k].held[j] = b.held[j]
           T == {k \in 0..n : Good(k)}
<1>1. n \in Nat /\ b.held \in [1..n -> Requests] /\ S \subseteq 1..n
  BY BookIs
<1>2. /\ g[0] = b /\ \A k \in 0..n : g[k] \in Books
      /\ \A k \in 1..n : g[k] = IF LastFirst(n, k) \in S
                                THEN Retire(g[k - 1], LastFirst(n, k)) ELSE g[k - 1]
  BY RetiredStep
<1>3. IsInjective(b.held)
  BY DEF Sound, OrdersSound
<1> HIDE DEF n, g
<1>4. 0 \in T
  <2>1. {i \in S : i <= n - 0} = S
    <3>1. \A i \in S : i <= n - 0
      BY <1>1
    <3> QED
      BY <3>1
  <2>2. Left(0) = {b.held[j] : j \in S}
    BY <2>1
  <2>3. \A j \in 1..(n - 0) : j \in DOMAIN g[0].held /\ g[0].held[j] = b.held[j]
    BY <1>1, <1>2
  <2> HIDE DEF Left
  <2>4. 0 \in 0..n /\ g[0] = b
    BY <1>1, <1>2
  <2>6. Sound(g[0], Place, Lanes, U, Left(0))
    BY <2>2, <2>4, Zenon
  <2>5. Unmade(b, g[0])
    BY <1>2 DEF Unmade
  <2> QED
    BY <2>3, <2>4, <2>5, <2>6
<1>5. ASSUME NEW k \in 1..n, k - 1 \in T PROVE k \in T
  <2> DEFINE i == LastFirst(n, k)
             c == g[k - 1]
  <2>1. /\ i = n - (k - 1) /\ i - 1 = n - k /\ i \in 1..n /\ k - 1 \in 0..n /\ k \in 0..n
    BY <1>1 DEF LastFirst
  <2>2. /\ Sound(c, Place, Lanes, U, Left(k - 1)) /\ Unmade(b, c)
        /\ \A j \in 1..i : j \in DOMAIN c.held /\ c.held[j] = b.held[j]
        /\ c \in Books
    BY <1>2, <1>5, <2>1
  <2>3. Left(k - 1) = {b.held[j] : j \in {m \in S : m <= i}}
        /\ Left(k) = {b.held[j] : j \in {m \in S : m <= i - 1}}
    BY <2>1
  <2>4. g[k] = IF i \in S THEN Retire(c, i) ELSE c
    BY <1>2
  <2> HIDE DEF i, c
  <2>5. CASE i \in S
    <3>1. c.held[i] = b.held[i] /\ i \in 1..Len(c.held)
      <4>1. DOMAIN c.held = 1..Len(c.held)
        BY <2>2, BookIs
      <4> QED
        BY <2>1, <2>2, <4>1
    <3>2. b.held[i] \in Left(k - 1)
      BY <1>1, <2>1, <2>3, <2>5
    <3>3. Left(k) = Left(k - 1) \ {b.held[i]}
      <4>1. ASSUME NEW x \in Left(k) PROVE x \in Left(k - 1) /\ x # b.held[i]
        <5>1. PICK j \in S : j <= i - 1 /\ x = b.held[j]
          BY <2>3
        <5>2. j \in 1..n /\ j <= i /\ j # i
          BY <1>1, <2>1, <5>1
        <5>3. b.held[j] # b.held[i]
          BY <1>1, <1>3, <2>1, <5>2 DEF IsInjective
        <5> QED
          BY <2>3, <5>1, <5>2, <5>3
      <4>2. ASSUME NEW x \in Left(k - 1), x # b.held[i] PROVE x \in Left(k)
        <5>1. PICK j \in S : j <= i /\ x = b.held[j]
          BY <2>3
        <5>2. j \in 1..n /\ j # i
          BY <1>1, <4>2, <5>1
        <5>3. j <= i - 1
          BY <1>1, <2>1, <5>1, <5>2
        <5> QED
          BY <2>3, <5>1, <5>3
      <4> QED
        BY <4>1, <4>2
    <3> HIDE DEF Left
    <3>4. /\ Sound(Retire(c, i), Place, Lanes, U, Left(k - 1) \ {c.held[i]})
          /\ Ahead(c.held, i, Retire(c, i)) /\ Unmade(c, Retire(c, i))
      <4> DEFINE Q == Left(k - 1)
      <4>1. /\ c \in Books /\ i \in 1..Len(c.held) /\ Sound(c, Place, Lanes, U, Q)
            /\ c.held[i] \in Q
        BY <2>2, <3>1, <3>2
      <4> HIDE DEF Q
      <4>2. /\ Sound(Retire(c, i), Place, Lanes, U, Q \ {c.held[i]})
            /\ Ahead(c.held, i, Retire(c, i)) /\ Unmade(c, Retire(c, i))
        BY <4>1, RetireSound
      <4> QED
        BY <4>2 DEF Q
    <3>5. \A j \in 1..(n - k) : j \in 1..(i - 1) /\ j \in 1..i
      BY <1>1, <2>1
    <3> QED
      BY <2>1, <2>2, <2>4, <2>5, <3>1, <3>3, <3>4, <3>5 DEF Ahead, Unmade
  <2>6. CASE i \notin S
    <3>1. {m \in S : m <= i} = {m \in S : m <= i - 1}
      <4>1. ASSUME NEW m \in S PROVE m <= i <=> m <= i - 1
        <5>1. m \in Nat /\ i \in Nat /\ m # i
          BY <1>1, <2>1, <2>6
        <5> QED
          BY <5>1
      <4> QED
        BY <4>1
    <3>2. Left(k) = Left(k - 1)
      BY <2>3, <3>1
    <3> HIDE DEF Left
    <3>3. \A j \in 1..(n - k) : j \in 1..i
      BY <1>1, <2>1
    <3> QED
      BY <2>1, <2>2, <2>4, <2>6, <3>2, <3>3
  <2> QED
    BY <2>5, <2>6
<1>6. n - top \in T /\ n - (n - top) = top
  <2> HIDE DEF T
  <2>1. \A k \in 1..n : k - 1 \in T => k \in T
    BY <1>5
  <2>2. 0..n \subseteq T
    BY <1>1, <1>4, <2>1, UpTo
  <2>3. top \in 0..n
    BY DEF n
  <2> QED
    BY <1>1, <2>2, <2>3
<1>7. /\ Sound(g[n - top], Place, Lanes, U, Left(n - top)) /\ Unmade(b, g[n - top])
      /\ \A j \in 1..top : j \in DOMAIN g[n - top].held /\ g[n - top].held[j] = b.held[j]
  BY <1>6
<1>8. Left(n - top) = {b.held[j] : j \in {i \in S : i <= top}}
  BY <1>6
<1> HIDE DEF Left
<1> QED
  BY <1>7, <1>8 DEF n, g

\* When all have been retired, no answered order is left.
LEMMA RetireAllSound ==
    ASSUME TypeOK, NEW b \in Books, NEW U, NEW S \in SUBSET (1..Len(b.held)),
           Sound(b, Place, Lanes, U, {b.held[j] : j \in S})
    PROVE  Sound(RetireAll(b, S), Place, Lanes, U, {}) /\ Unmade(b, RetireAll(b, S))
<1>1. 0 \in 0..Len(b.held) /\ Len(b.held) - 0 = Len(b.held) /\ S \subseteq 1..Len(b.held)
  BY BookIs
<1>2. {i \in S : i <= 0} = {}
  <2>1. \A i \in S : i \in Nat /\ i >= 1
    BY <1>1
  <2>2. \A i \in S : ~(i <= 0)
    BY <2>1
  <2> QED
    BY <2>2
<1>3. {b.held[j] : j \in {i \in S : i <= 0}} = {}
  BY <1>2
<1>4. LET c == Retired(b, S)[Len(b.held) - 0]
      IN  Sound(c, Place, Lanes, U, {b.held[j] : j \in {i \in S : i <= 0}}) /\ Unmade(b, c)
  BY <1>1, RetiredSound
<1> QED
  BY <1>1, <1>3, <1>4 DEF RetireAll

\* The order that is being delivered leaves the book when it is stopped.
LEMMA StoppedSound ==
    ASSUME NEW b \in Books, NEW l \in Lanes, NEW L, NEW U, NEW at \in Requests,
           Sound(b, L, Lanes, U, {}), b.lanes[l].delivering = at, at \in ToSet(b.held)
    PROVE  Sound(Stopped(b, at), L, Lanes \ {l}, U, {})
<1> DEFINE c == Stopped(b, at)
<1>1. /\ OrdersSound(b, {}) /\ (\A m \in Lanes : QueueSound(b, L, m))
      /\ \A m \in Lanes : LaneSound(b, L, m, U, {})
  BY DEF Sound
<1>2. /\ c \in Books /\ c.lanes = b.lanes /\ c.held = Without(b.held, {at})
      /\ \A q \in Requests : c.fate[q] = IF q = at THEN "disposed" ELSE b.fate[q]
  BY StoppedIs
<1>3. b.held \in Seq(Requests)
  BY BookIs
<1>4. /\ ToSet(c.held) = ToSet(b.held) \ {at}
      /\ IsInjective(b.held) => IsInjective(c.held)
  BY <1>2, <1>3, WithoutSet
<1>5. b.fate[at] = "held" /\ L[at] = l
  BY <1>1, NoNames DEF OrdersSound, LaneSound
<1> HIDE DEF c
<1>6. OrdersSound(c, {})
  BY <1>1, <1>2, <1>4, <1>5 DEF OrdersSound
<1>7. ASSUME NEW m \in Lanes PROVE QueueSound(c, L, m)
  BY <1>1, <1>2, <1>5 DEF QueueSound
<1>8. ASSUME NEW m \in Lanes \ {l} PROVE LaneSound(c, L, m, U, {})
  <2>1. LaneSound(b, L, m, U, {}) /\ b.lanes[m].delivering \in Requests \cup {None}
    BY <1>1, BookParts
  <2> QED
    BY <1>2, <1>5, <2>1 DEF LaneSound
<1> QED
  BY <1>6, <1>7, <1>8 DEF Sound, c

\* An order joins the queue of a lane that is taken.
LEMMA InsertedSound ==
    ASSUME TypeOK, NEW r \in Requests, NEW U, Sound(Book, Place, Lanes, U, {}),
           fate[r] = "input", Lane(r) # None, lanes[Lane(r)].delivering # None
    PROVE  Sound(Inserted(r), Place, Lanes, U, {})
<1> DEFINE l == Lane(r)
           at == lanes[l].delivering
           gone == Supplanted(ins, lanes[l], r)
           next == Insert(ins, lanes[l], r)
           b == Inserted(r)
<1>1. /\ OrdersSound(Book, {}) /\ (\A m \in Lanes : QueueSound(Book, Place, m))
      /\ \A m \in Lanes : LaneSound(Book, Place, m, U, {})
  BY DEF Sound
<1>2. /\ l \in Lanes /\ b \in Books /\ b.held = held
      /\ b.lanes = [lanes EXCEPT ![l] = next]
      /\ \A q \in Requests : b.fate[q] = IF q = r THEN "queued"
                               ELSE IF q \in gone \ {at} THEN "disposed" ELSE fate[q]
  BY InsertedIs
<1>3. /\ Book \in Books /\ Book.lanes = lanes /\ Book.held = held /\ Book.fate = fate
      /\ lanes \in [Lanes -> LaneOf(Requests)] /\ fate \in [Requests -> Fates]
  BY TypeHas DEF Book
<1>4. lanes[l] \in LaneOf(Requests) /\ at \in Requests /\ Place[r] = l
  BY <1>2, <1>3 DEF LaneOf, Place
<1>5. /\ next.delivering = at /\ next.queue # <<>>
      /\ gone \subseteq ToSet(lanes[l].queue) \cup {at}
      /\ \A q : q \in ToSet(next.queue) <=> q = r \/ (q \in ToSet(lanes[l].queue) /\ q \notin gone)
      /\ IsInjective(lanes[l].queue) /\ r \notin ToSet(lanes[l].queue) => IsInjective(next.queue)
  BY <1>4, InsertLane
<1>6. /\ IsInjective(lanes[l].queue)
      /\ \A q \in Requests : q \in ToSet(lanes[l].queue) <=> fate[q] = "queued" /\ Place[q] = l
  BY <1>1, <1>2, <1>3 DEF QueueSound
<1>7. fate[at] \in {"held"} \cup Over /\ Place[at] = l
      /\ (fate[at] \in {"held", "cleaned", "lost"} \/ l \in U)
  BY <1>1, <1>2, <1>3, <1>4 DEF LaneSound
<1>8. at \notin ToSet(lanes[l].queue) /\ r # at
  BY <1>4, <1>6, <1>7 DEF Over
<1>9. \A q \in Requests : q \in gone \ {at} => fate[q] = "queued" /\ Place[q] = l
  BY <1>5, <1>6
<1>10. b.lanes[l] = next /\ \A m \in Lanes \ {l} : b.lanes[m] = lanes[m]
  BY <1>2, <1>3
<1> HIDE DEF l, at, gone, next, b
<1>11. OrdersSound(b, {})
  BY <1>1, <1>2, <1>3, <1>9 DEF OrdersSound
<1>12. ASSUME NEW m \in Lanes PROVE QueueSound(b, Place, m)
  <2>1. CASE m = l
    <3>1. IsInjective(next.queue)
      BY <1>5, <1>6
    <3>2. ASSUME NEW q \in Requests
          PROVE  q \in ToSet(next.queue) <=> b.fate[q] = "queued" /\ Place[q] = l
      BY <1>2, <1>4, <1>5, <1>6, <1>8, <1>9
    <3> QED
      BY <1>10, <2>1, <3>1, <3>2 DEF QueueSound
  <2>2. CASE m # l
    <3>1. /\ IsInjective(lanes[m].queue)
          /\ \A q \in Requests : q \in ToSet(lanes[m].queue) <=> fate[q] = "queued" /\ Place[q] = m
      BY <1>1, <1>3 DEF QueueSound
    <3>2. ASSUME NEW q \in Requests
          PROVE  q \in ToSet(lanes[m].queue) <=> b.fate[q] = "queued" /\ Place[q] = m
      BY <1>2, <1>4, <1>9, <2>2, <3>1
    <3> QED
      BY <1>10, <2>2, <3>1, <3>2 DEF QueueSound
  <2> QED
    BY <2>1, <2>2
<1>13. ASSUME NEW m \in Lanes PROVE LaneSound(b, Place, m, U, {})
  <2>1. CASE m = l
    <3>1. b.fate[at] = fate[at]
      BY <1>2, <1>4, <1>8
    <3> QED
      BY <1>4, <1>5, NoNames, <1>7, <1>10, <2>1, <3>1 DEF LaneSound
  <2>2. CASE m # l
    <3> DEFINE d == lanes[m].delivering
    <3>1. d \in Requests \cup {None} /\ LaneSound(Book, Place, m, U, {})
      BY <1>1, <1>3, BookParts
    <3>2. /\ d # None => /\ fate[d] \in {"held"} \cup Over /\ Place[d] = m
                         /\ fate[d] \in {"held", "cleaned", "lost"} \/ m \in U
          /\ lanes[m].queue # <<>> => d # None
      BY <1>3, <3>1 DEF LaneSound
    <3>3. d # None => d # r /\ b.fate[d] = fate[d]
      BY <1>2, <1>9, <2>2, <3>1, <3>2 DEF Over
    <3> QED
      BY <1>10, <2>2, <3>2, <3>3 DEF LaneSound
  <2> QED
    BY <2>1, <2>2
<1> QED
  BY <1>11, <1>12, <1>13 DEF Sound, b

\* An order is delivered at once, by a lane that is free or without one.
LEMMA BegunSound ==
    ASSUME TypeOK, NEW r \in Requests, NEW U, Sound(Book, Place, Lanes, U, {}), fate[r] = "input"
    PROVE  /\ Lane(r) = None => Sound(Hold(Book, r), Place, Lanes, U, {})
           /\ Lane(r) # None /\ lanes[Lane(r)].delivering = None =>
                 Sound(Hold(Inserted(r), r), Place, Lanes, U, {})
<1>1. /\ OrdersSound(Book, {}) /\ (\A m \in Lanes : QueueSound(Book, Place, m))
      /\ \A m \in Lanes : LaneSound(Book, Place, m, U, {})
  BY DEF Sound
<1>2. /\ Book \in Books /\ Book.lanes = lanes /\ Book.held = held /\ Book.fate = fate
      /\ lanes \in [Lanes -> LaneOf(Requests)] /\ fate \in [Requests -> Fates]
  BY TypeHas DEF Book
<1>3. ASSUME NEW c \in Books, c.held = Append(held, r),
             \A q \in Requests : c.fate[q] = IF q = r THEN "held" ELSE fate[q],
             \A m \in Lanes : /\ c.lanes[m].queue = lanes[m].queue
                              /\ c.lanes[m].delivering = lanes[m].delivering
                                 \/ (c.lanes[m].delivering = r /\ Lane(r) = m)
      PROVE  Sound(c, Place, Lanes, U, {})
  <2>1. OrdersSound(c, {})
    BY <1>1, <1>2, <1>3, HeldSound
  <2>2. ASSUME NEW m \in Lanes PROVE QueueSound(c, Place, m)
    <3>1. QueueSound(Book, Place, m)
      BY <1>1
    <3> QED
      BY <1>2, <1>3, <3>1 DEF QueueSound
  <2>3. ASSUME NEW m \in Lanes PROVE LaneSound(c, Place, m, U, {})
    <3>1. LaneSound(Book, Place, m, U, {}) /\ lanes[m].delivering \in Requests \cup {None}
      BY <1>1, <1>2, BookParts
    <3>2. r # None
      BY NoNames
    <3>3. CASE c.lanes[m].delivering = lanes[m].delivering
      BY <1>2, <1>3, <3>1, <3>3 DEF LaneSound
    <3>4. CASE c.lanes[m].delivering = r /\ Lane(r) = m
      BY <1>3, <3>2, <3>4 DEF LaneSound, Place
    <3> QED
      BY <1>3, <3>3, <3>4
  <2> QED
    BY <2>1, <2>2, <2>3 DEF Sound
<1>4. ASSUME Lane(r) = None PROVE Sound(Hold(Book, r), Place, Lanes, U, {})
  <2> DEFINE c == Hold(Book, r)
  <2>1. /\ c \in Books /\ c.lanes = lanes /\ c.held = Append(held, r)
        /\ \A q \in Requests : c.fate[q] = IF q = r THEN "held" ELSE fate[q]
    BY <1>2, HoldIs
  <2> HIDE DEF c
  <2>2. Sound(c, Place, Lanes, U, {})
    BY <1>3, <2>1
  <2> QED
    BY <2>2 DEF c
<1>5. ASSUME Lane(r) # None, lanes[Lane(r)].delivering = None
      PROVE  Sound(Hold(Inserted(r), r), Place, Lanes, U, {})
  <2> DEFINE l == Lane(r)
             gone == Supplanted(ins, lanes[l], r)
             next == Insert(ins, lanes[l], r)
             b == Inserted(r)
             c == Hold(b, r)
  <2>1. /\ l \in Lanes /\ b \in Books /\ b.held = held
        /\ b.lanes = [lanes EXCEPT ![l] = next]
        /\ \A q \in Requests : b.fate[q] = IF q = r THEN "queued"
                 ELSE IF q \in gone \ {lanes[l].delivering} THEN "disposed" ELSE fate[q]
    BY <1>5, InsertedIs
  <2>2. lanes[l].queue = <<>> /\ lanes[l] \in LaneOf(Requests)
    BY <1>1, <1>2, <1>5, <2>1 DEF LaneSound
  <2>3. gone = {}
    BY <1>5, <2>2, Empty DEF Supplanted
  <2>4. next.delivering = r /\ next.queue = lanes[l].queue
    BY <1>5, <2>2 DEF Insert, LaneOf
  <2> HIDE DEF gone, next, b
  <2>5. /\ c \in Books /\ c.lanes = b.lanes /\ c.held = Append(held, r)
        /\ \A q \in Requests : c.fate[q] = IF q = r THEN "held" ELSE b.fate[q]
    BY <2>1, HoldIs
  <2> HIDE DEF c
  <2>6. \A q \in Requests : c.fate[q] = IF q = r THEN "held" ELSE fate[q]
    BY <2>1, <2>3, <2>5
  <2>7. ASSUME NEW m \in Lanes
        PROVE  /\ c.lanes[m].queue = lanes[m].queue
               /\ c.lanes[m].delivering = lanes[m].delivering
                  \/ (c.lanes[m].delivering = r /\ Lane(r) = m)
    BY <1>2, <2>1, <2>4, <2>5
  <2>8. Sound(c, Place, Lanes, U, {})
    BY <1>3, <2>5, <2>6, <2>7
  <2> QED
    BY <2>8 DEF c, b
<1> QED
  BY <1>4, <1>5

-----------------------------------------------------------------------------
(* The state that every behaviour keeps to, if no flush runs between the     *)
(* answers of the system and their application.                              *)

\* What the answers refer to: the orders at their indices.
Referred ==
    /\ \A r \in Requests : r > made => fate[r] = "unmade"
    /\ provider # "alive" => held = <<>> /\ \A l \in Lanes : lanes[l] = EmptyLane
    /\ turn = "flush" => responses = <<>>
    /\ provider = "alive" =>
          \A i \in DOMAIN responses : i \in DOMAIN held /\ responses[i] = held[i]

Ordered == Sound(Book, Place, Lanes, ToSet(unblock), {}) /\ Referred

LEMMA PlaceSame ==
    ASSUME UNCHANGED <<mode, ins>>
    PROVE  Place' = Place
BY DEF Place, Lane, LaneFor

\* A step of the flush that takes no request more and keeps the provider.
LEMMA FlushReferred ==
    ASSUME TypeOK, Referred, UNCHANGED <<made, provider, responses>>, turn = "flush",
           \A r \in Requests : fate[r] = "unmade" => fate'[r] = "unmade",
           provider # "alive" => held' = held /\ \A l \in Lanes : lanes'[l] = lanes[l]
    PROVE  Referred'
BY DEF Referred

\* The parts of the book, and of the book after a step.
LEMMA BookSame ==
    /\ Book.lanes = lanes /\ Book.held = held /\ Book.fate = fate
    /\ Book'.lanes = lanes' /\ Book'.held = held' /\ Book'.fate = fate'
BY DEF Book

\* The orders that are held in another book with the same queues, and fates that
\* changed elsewhere.
LEMMA SoundSame ==
    ASSUME NEW b \in Books, NEW c \in Books, NEW L, NEW K, NEW U,
           Sound(b, L, Lanes, U, {}), c.lanes = b.lanes, c.held = b.held,
           \A q \in Requests :
              \/ c.fate[q] = b.fate[q] /\ K[q] = L[q]
              \/ b.fate[q] \in {"unmade", "input"} /\ c.fate[q] \in {"input", "disposed"}
    PROVE  Sound(c, K, Lanes, U, {})
<1>1. /\ OrdersSound(b, {}) /\ (\A m \in Lanes : QueueSound(b, L, m))
      /\ \A m \in Lanes : LaneSound(b, L, m, U, {})
  BY DEF Sound
<1>2. OrdersSound(c, {})
  BY <1>1 DEF OrdersSound
<1>3. ASSUME NEW m \in Lanes PROVE QueueSound(c, K, m)
  <2>1. QueueSound(b, L, m)
    BY <1>1
  <2> QED
    BY <2>1 DEF QueueSound
<1>4. ASSUME NEW m \in Lanes PROVE LaneSound(c, K, m, U, {})
  <2>1. LaneSound(b, L, m, U, {}) /\ b.lanes[m].delivering \in Requests \cup {None}
    BY <1>1, BookParts
  <2> QED
    BY <2>1 DEF LaneSound, Over
<1> QED
  BY <1>2, <1>3, <1>4 DEF Sound

LEMMA InitKept == Init => Ordered
<1> SUFFICES ASSUME Init PROVE Ordered
  OBVIOUS
<1>1. /\ held = <<>> /\ unblock = <<>> /\ responses = <<>> /\ provider = "alive"
      /\ lanes = [l \in Lanes |-> EmptyLane] /\ fate = [r \in Requests |-> "unmade"]
  BY DEF Init
<1>2. OrdersSound(Book, {})
  BY <1>1, BookSame, Empty DEF OrdersSound
<1>3. \A l \in Lanes : QueueSound(Book, Place, l) /\ LaneSound(Book, Place, l, ToSet(unblock), {})
  BY <1>1, BookSame, Empty DEF QueueSound, LaneSound, EmptyLane
<1>4. Referred
  BY <1>1 DEF Referred
<1> QED
  BY <1>2, <1>3, <1>4 DEF Ordered, Sound

LEMMA ServeKept ==
    ASSUME TypeOK, Ordered, NEW r \in Requests, Serve(r)
    PROVE  Ordered'
<1> DEFINE l == Lane(r)
           at == lanes[l].delivering
           gone == Supplanted(ins, lanes[l], r)
           U == ToSet(unblock)
<1>1. Sound(Book, Place, Lanes, U, {}) /\ Referred
  BY DEF Ordered
<1>2. /\ fate[r] = "input" /\ provider = "alive" /\ turn = "flush"
      /\ UNCHANGED <<requestVars, provider, responses, active, turn>>
      /\ unblock \in Seq(Lanes) /\ lanes \in [Lanes -> LaneOf(Requests)] /\ Book \in Books
      /\ fate \in [Requests -> Fates]
  BY ServeHas, TypeHas
<1>3. Place' = Place
  BY <1>2, PlaceSame DEF requestVars
<1>4. /\ Sound(Book', Place, Lanes, ToSet(unblock'), {})
      /\ \A q \in Requests : fate[q] = "unmade" => fate'[q] = "unmade"
  <2>1. CASE l = None
    <3>1. Book' = Hold(Book, r) /\ unblock' = unblock
      BY <2>1, ServeHas
    <3>2. Sound(Hold(Book, r), Place, Lanes, U, {})
      BY <1>1, <1>2, <2>1, BegunSound
    <3>3. \A q \in Requests : fate'[q] = IF q = r THEN "held" ELSE fate[q]
      BY <1>2, <3>1, HoldIs, BookSame
    <3> QED
      BY <1>2, <3>1, <3>2, <3>3
  <2>2. CASE l # None
    <3>1. /\ l \in Lanes /\ Inserted(r) \in Books
          /\ \A q \in Requests : Inserted(r).fate[q] = IF q = r THEN "queued"
                   ELSE IF q \in gone \ {at} THEN "disposed" ELSE fate[q]
          /\ Inserted(r).held = held
          /\ Inserted(r).lanes = [lanes EXCEPT ![l] = Insert(ins, @, r)]
      BY <2>2, InsertedIs
    <3>2. CASE at = None
      <4>1. Book' = Hold(Inserted(r), r) /\ unblock' = unblock
        BY <2>2, <3>2, ServeHas
      <4>2. Sound(Hold(Inserted(r), r), Place, Lanes, U, {})
        BY <1>1, <1>2, <2>2, <3>2, BegunSound
      <4>3. \A q \in Requests : fate'[q] = IF q = r THEN "held" ELSE Inserted(r).fate[q]
        BY <3>1, <4>1, HoldIs, BookSame
      <4>4. LaneSound(Book, Place, l, U, {})
        BY <1>1, <3>1 DEF Sound
      <4>5. gone = {}
        BY <3>2, <4>4, BookSame, Empty DEF LaneSound, Supplanted
      <4> HIDE DEF gone
      <4> QED
        BY <1>2, <3>1, <4>1, <4>2, <4>3, <4>5
    <3>3. CASE at # None
      <4>1. lanes[l] \in LaneOf(Requests) /\ at \in Requests
        BY <1>2, <3>1, <3>3 DEF LaneOf
      <4>2. Sound(Inserted(r), Place, Lanes, U, {})
        BY <1>1, <1>2, <2>2, <3>3, InsertedSound
      <4>3. \A q \in gone \ {at} : fate[q] = "queued"
        <5>1. gone \subseteq ToSet(lanes[l].queue) \cup {at}
          BY <3>3, <4>1, InsertLane
        <5>2. QueueSound(Book, Place, l)
          BY <1>1, <3>1 DEF Sound
        <5>3. \A q \in ToSet(lanes[l].queue) : q \in Requests
          BY <4>1 DEF LaneOf, ToSet
        <5> HIDE DEF gone, l, at
        <5> QED
          BY <5>1, <5>2, <5>3, BookSame DEF QueueSound
      <4>4. \A q \in Requests : fate[q] = "unmade" => Inserted(r).fate[q] = "unmade"
        BY <1>2, <3>1, <4>3
      <4>5. CASE at \in gone /\ at \in ToSet(held)
        <5> DEFINE c == Stopped(Inserted(r), at)
        <5>1. Book' = ServeNext(c, l) /\ unblock' = unblock
          BY <2>2, <3>3, <4>5, ServeHas
        <5>2. Inserted(r).lanes[l].delivering = at
          BY <1>2, <3>1, <3>3, <4>1, InsertLane
        <5>3. c \in Books /\ c.lanes = Inserted(r).lanes
              /\ \A q \in Requests : c.fate[q] = IF q = at THEN "disposed" ELSE Inserted(r).fate[q]
          BY <3>1, <4>1, StoppedIs
        <5>4. Sound(c, Place, Lanes \ {l}, U, {})
          BY <3>1, <4>1, <4>2, <4>5, <5>2, StoppedSound
        <5>5. fate[at] # "unmade"
          BY <1>1, <4>1, <4>5, BookSame DEF Sound, OrdersSound
        <5> HIDE DEF c
        <5>6. Sound(ServeNext(c, l), Place, Lanes, U, {}) /\ Unmade(c, ServeNext(c, l))
          BY <3>1, <5>3, <5>4, ServeNextSound
        <5>9. \A q \in Requests : fate[q] = "unmade" => fate'[q] = "unmade"
          BY <4>4, <5>1, <5>3, <5>5, <5>6, BookSame DEF Unmade
        <5> QED
          BY <5>1, <5>6, <5>9
      <4>6. CASE at \in gone /\ at \notin ToSet(held)
        <5>1. Book' = Inserted(r) /\ unblock' = Append(unblock, l)
          BY <2>2, <3>3, <4>6, ServeHas
        <5>2. U \subseteq ToSet(unblock')
          BY <1>2, <3>1, <5>1, AppendSet
        <5>3. Sound(Inserted(r), Place, Lanes, ToSet(unblock'), {})
          <6> DEFINE V == ToSet(unblock')
          <6> HIDE DEF V, U
          <6> QED
            BY <4>2, <5>2, SoundMore DEF V
        <5> QED
          BY <4>4, <5>1, <5>3, BookSame
      <4>7. CASE at \notin gone
        <5>1. Book' = Inserted(r) /\ unblock' = unblock
          BY <2>2, <3>3, <4>7, ServeHas
        <5> QED
          BY <4>2, <4>4, <5>1, BookSame
      <4> QED
        BY <4>5, <4>6, <4>7
    <3> QED
      BY <3>2, <3>3
  <2> QED
    BY <2>1, <2>2
<1>5. Referred'
  BY <1>1, <1>2, <1>4, FlushReferred DEF requestVars
<1>6. Sound(Book', Place', Lanes, ToSet(unblock'), {})
  BY <1>3, <1>4
<1> QED
  BY <1>5, <1>6 DEF Ordered

LEMMA RequestKept ==
    ASSUME TypeOK, Ordered, NEW r \in Requests, NEW i \in Offered[r], Request(i)
    PROVE  Ordered'
<1>1. Sound(Book, Place, Lanes, ToSet(unblock), {}) /\ Referred
  BY DEF Ordered
<1>2. /\ turn = "flush" /\ made < MaxRequests /\ i \in Offered[made + 1] /\ made' = made + 1
      /\ ins' = [ins EXCEPT ![made + 1] = i] /\ fate' = [fate EXCEPT ![made + 1] = "input"]
      /\ UNCHANGED <<mode, provider, lanes, held, responses, unblock, active, turn>>
  BY DEF Request
<1>3. /\ made \in Nat /\ made + 1 \in Requests /\ fate \in [Requests -> Fates]
      /\ ins \in [Requests -> Instructions] /\ Book \in Books
  BY <1>2, TypeHas, NoNames DEF Requests
<1>4. fate[made + 1] = "unmade"
  BY <1>1, <1>3 DEF Referred
<1>5. \A q \in Requests : q # made + 1 => fate'[q] = fate[q] /\ Place'[q] = Place[q]
  BY <1>2, <1>3 DEF Place, Lane, LaneFor
<1>6. fate'[made + 1] = "input"
  BY <1>2, <1>3
<1>7. Book' \in Books
  <2>1. Book' = [lanes |-> lanes, held |-> held, fate |-> fate']
    BY <1>2 DEF Book
  <2>2. lanes \in [Lanes -> LaneOf(Requests)] /\ held \in Seq(Requests)
    BY TypeHas
  <2>3. fate' \in [Requests -> Fates]
    BY <1>2, <1>3 DEF Fates
  <2> QED
    BY <2>1, <2>2, <2>3, BookFields
<1>8. Sound(Book', Place', Lanes, ToSet(unblock), {})
  <2> DEFINE c == Book'
             K == Place'
             U == ToSet(unblock)
  <2>1. /\ c \in Books /\ c.lanes = Book.lanes /\ c.held = Book.held
        /\ \A q \in Requests :
              \/ c.fate[q] = Book.fate[q] /\ K[q] = Place[q]
              \/ Book.fate[q] \in {"unmade", "input"} /\ c.fate[q] \in {"input", "disposed"}
    BY <1>2, <1>4, <1>5, <1>6, <1>7, BookSame
  <2>2. Sound(Book, Place, Lanes, U, {})
    BY <1>1
  <2> HIDE DEF c, K, U
  <2>3. Sound(c, K, Lanes, U, {})
    BY <1>3, <2>1, <2>2, SoundSame
  <2> QED
    BY <2>3 DEF c, K, U
<1>9. Referred'
  <2>1. \A q \in Requests : q > made + 1 => fate'[q] = "unmade"
    <3>1. \A q \in Requests : q \in Nat
      BY DEF Requests
    <3> QED
      BY <1>1, <1>3, <1>5, <3>1 DEF Referred
  <2> QED
    BY <1>1, <1>2, <2>1 DEF Referred
<1> QED
  BY <1>2, <1>8, <1>9 DEF Ordered

LEMMA DisposeKept ==
    ASSUME TypeOK, Ordered, DisposeInputs, turn = "flush",
           UNCHANGED <<requestVars, lanes, held, responses, unblock, turn>>,
           provider # "alive", provider' # "alive"
    PROVE  Ordered'
<1>1. Sound(Book, Place, Lanes, ToSet(unblock), {}) /\ Referred
  BY DEF Ordered
<1>2. Book' \in Books /\ \A r \in Requests :
         fate'[r] = IF fate[r] = "input" THEN "disposed" ELSE fate[r]
  BY DisposeHas
<1>3. Place' = Place /\ unblock' = unblock
  BY PlaceSame DEF requestVars
<1>4. Sound(Book', Place', Lanes, ToSet(unblock'), {})
  <2> DEFINE c == Book'
             U == ToSet(unblock)
  <2>1. /\ c \in Books /\ c.lanes = Book.lanes /\ c.held = Book.held
        /\ \A q \in Requests :
              \/ c.fate[q] = Book.fate[q] /\ Place[q] = Place[q]
              \/ Book.fate[q] \in {"unmade", "input"} /\ c.fate[q] \in {"input", "disposed"}
    BY <1>2, BookSame
  <2>2. Sound(Book, Place, Lanes, U, {}) /\ Book \in Books
    BY <1>1, TypeHas
  <2> HIDE DEF c, U
  <2>3. Sound(c, Place, Lanes, U, {})
    BY <2>1, <2>2, SoundSame
  <2> QED
    BY <1>3, <2>3 DEF c, U
<1>5. Referred'
  BY <1>1, <1>2 DEF Referred, requestVars
<1> QED
  BY <1>4, <1>5 DEF Ordered

LEMMA UnblockKept ==
    ASSUME TypeOK, Ordered, UnblockNext
    PROVE  Ordered'
<1> DEFINE l == Head(unblock)
           U == ToSet(unblock)
           V == ToSet(unblock')
<1>1. Sound(Book, Place, Lanes, U, {}) /\ Referred
  BY DEF Ordered
<1>2. /\ turn = "flush" /\ unblock # <<>> /\ l \in Lanes
      /\ unblock' = Tail(unblock) /\ unblock' \in Seq(Lanes)
      /\ UNCHANGED <<requestVars, provider, responses, active, turn>>
      /\ Book' = IF provider = "alive" THEN ServeNext(Book, l) ELSE Book
  BY UnblockHas
<1>3. Place' = Place /\ Book \in Books /\ unblock \in Seq(Lanes)
  BY <1>2, PlaceSame, TypeHas DEF requestVars
<1>4. U = {l} \cup V
  BY <1>2, <1>3, TailSet
<1> HIDE DEF l
<1>5. CASE provider = "alive"
  <2>1. Sound(Book, Place, Lanes \ {l}, U, {}) /\ U \ {l} \subseteq V
    BY <1>1, <1>4 DEF Sound
  <2>2. Sound(ServeNext(Book, l), Place, Lanes, V, {}) /\ Unmade(Book, ServeNext(Book, l))
    <3> HIDE DEF U, V
    <3> QED
      BY <1>2, <1>3, <2>1, ServeNextSound
  <2>3. \A q \in Requests : fate[q] = "unmade" => fate'[q] = "unmade"
    BY <1>2, <1>5, <2>2, BookSame DEF Unmade
  <2>4. Referred'
    BY <1>1, <1>2, <1>5, <2>3 DEF Referred, requestVars
  <2> QED
    BY <1>2, <1>3, <1>5, <2>2, <2>4 DEF Ordered
<1>6. CASE provider # "alive"
  <2>1. Book' = Book /\ lanes' = lanes /\ held' = held /\ fate' = fate
    BY <1>2, <1>6, BookSame
  <2>2. Referred'
    BY <1>1, <1>2, <2>1 DEF Referred, requestVars
  <2>3. \A m \in Lanes : lanes[m].delivering = None /\ lanes[m].queue = <<>>
    BY <1>1, <1>6 DEF Referred, EmptyLane
  <2>4. Sound(Book, Place, Lanes, V, {})
    BY <1>1, <2>3, BookSame DEF Sound, LaneSound
  <2> QED
    BY <1>3, <2>1, <2>2, <2>4 DEF Ordered
<1> QED
  BY <1>5, <1>6

LEMMA CleanKept ==
    ASSUME TypeOK, Ordered, NEW N, NEW s, Clean(N, s)
    PROVE  Ordered'
<1> DEFINE mine == Mine(N, s)
           struck == Struck(s)
           dropped == Dropped(s)
           U == ToSet(unblock)
<1>1. Sound(Book, Place, Lanes, U, {}) /\ Referred
  BY DEF Ordered
<1>2. /\ UNCHANGED <<requestVars, provider, responses, unblock, turn>> /\ turn = "flush"
      /\ \A l \in Lanes : lanes'[l] = Strike(lanes[l], struck)
      /\ held' = Without(held, dropped)
      /\ \A r \in Requests : fate'[r] =
            IF r \in mine /\ fate[r] = "input" THEN "cleaned"
            ELSE IF r \in struck \cup dropped
                 THEN IF r \in mine THEN "cleaned" ELSE "lost"
            ELSE fate[r]
  BY CleanHas
<1>3. /\ lanes \in [Lanes -> LaneOf(Requests)] /\ held \in Seq(Requests)
      /\ fate \in [Requests -> Fates] /\ Book \in Books
  BY TypeHas
<1>4. /\ (\A r \in struck : fate[r] = "queued") /\ (\A r \in dropped : fate[r] = "held")
      /\ \A r \in Requests : r > made => r \notin struck /\ r \notin dropped /\ r \notin mine
  <2>1. made \in Nat
    BY TypeHas, NoNames
  <2>2. ASSUME NEW r \in Requests, r > made PROVE r \notin 1..made
    BY <2>1, <2>2 DEF Requests
  <2> QED
    BY <2>2 DEF Mine, Struck, Dropped
<1>5. Place' = Place /\ unblock' = unblock
  BY <1>2, PlaceSame DEF requestVars
<1>6. /\ OrdersSound(Book, {}) /\ (\A m \in Lanes : QueueSound(Book, Place, m))
      /\ \A m \in Lanes : LaneSound(Book, Place, m, U, {})
  BY <1>1 DEF Sound
<1> HIDE DEF struck, dropped, mine
<1>8. OrdersSound(Book', {})
  <2>1. ToSet(held') = ToSet(held) \ dropped /\ (IsInjective(held) => IsInjective(held'))
    BY <1>2, <1>3, WithoutSet
  <2> QED
    BY <1>2, <1>4, <1>6, <2>1, BookSame DEF OrdersSound
<1>9. ASSUME NEW m, m \in Lanes PROVE QueueSound(Book', Place, m)
  <2>1. /\ lanes[m] \in LaneOf(Requests) /\ lanes'[m] = Strike(lanes[m], struck)
        /\ QueueSound(Book, Place, m)
    BY <1>2, <1>3, <1>6, <1>9
  <2>2. /\ ToSet(lanes'[m].queue) = ToSet(lanes[m].queue) \ struck
        /\ IsInjective(lanes[m].queue) => IsInjective(lanes'[m].queue)
    BY <2>1, StrikeLane
  <2> QED
    BY <1>2, <1>4, <2>1, <2>2, BookSame DEF QueueSound
<1>10. ASSUME NEW m, m \in Lanes PROVE LaneSound(Book', Place, m, U, {})
  <2> DEFINE d == lanes[m].delivering
  <2>1. /\ lanes[m] \in LaneOf(Requests) /\ lanes'[m] = Strike(lanes[m], struck)
        /\ LaneSound(Book, Place, m, U, {}) /\ d \in Requests \cup {None}
    BY <1>2, <1>3, <1>6, <1>10, BookParts, BookSame
  <2>2. /\ lanes'[m].delivering = d
        /\ ToSet(lanes'[m].queue) = ToSet(lanes[m].queue) \ struck
        /\ lanes[m].queue = <<>> => lanes'[m].queue = <<>>
    <3>1. /\ lanes'[m].delivering = d
          /\ lanes'[m].queue = Without(lanes[m].queue, struck)
          /\ ToSet(lanes'[m].queue) = ToSet(lanes[m].queue) \ struck
      <4> DEFINE lane == lanes[m]
      <4>1. lane \in LaneOf(Requests)
        BY <2>1
      <4> HIDE DEF lane
      <4>2. Strike(lane, struck).delivering = lane.delivering
        BY <4>1, StrikeLane
      <4>3. Strike(lane, struck).queue = Without(lane.queue, struck)
        BY <4>1, StrikeLane
      <4>4. ToSet(Strike(lane, struck).queue) = ToSet(lane.queue) \ struck
        BY <4>1, StrikeLane
      <4> QED
        BY <2>1, <4>2, <4>3, <4>4 DEF lane
    <3>2. lanes[m].queue \in Seq(Requests)
      BY <2>1 DEF LaneOf
    <3>3. lanes[m].queue = <<>> => Without(lanes[m].queue, struck) = <<>>
      BY <3>2, WithoutAll, Empty
    <3> QED
      BY <3>1, <3>3
  <2>3. d # None => /\ fate[d] \in {"held"} \cup Over /\ Place[d] = m
                    /\ fate[d] \in {"held", "cleaned", "lost"} \/ m \in U
    BY <2>1, BookSame DEF LaneSound
  <2>4. d # None => /\ fate'[d] \in {"held"} \cup Over
                    /\ fate[d] \in {"held", "cleaned", "lost"} => fate'[d] \in {"held", "cleaned", "lost"}
    BY <1>2, <1>4, <2>1, <2>3 DEF Over
  <2>5. lanes[m].queue # <<>> => d # None
    BY <2>1, BookSame DEF LaneSound
  <2> HIDE DEF d
  <2> QED
    BY <2>2, <2>3, <2>4, <2>5, BookSame DEF LaneSound
<1>11. Sound(Book', Place, Lanes, U, {})
  BY <1>8, <1>9, <1>10 DEF Sound
<1>12. Referred'
  <2>1. \A r \in Requests : r > made => fate'[r] = "unmade"
    BY <1>1, <1>2, <1>4 DEF Referred
  <2>2. provider # "alive" => held' = <<>> /\ \A m \in Lanes : lanes'[m] = EmptyLane
    <3> SUFFICES ASSUME provider # "alive"
                 PROVE  held' = <<>> /\ \A m \in Lanes : lanes'[m] = EmptyLane
      OBVIOUS
    <3>1. held = <<>> /\ \A m \in Lanes : lanes[m] = EmptyLane
      BY <1>1 DEF Referred
    <3>2. Without(held, dropped) = <<>>
      BY <1>3, <3>1, WithoutAll, Empty
    <3>3. <<>> \in Seq(Requests) /\ ToSet(<<>>) \subseteq struck
      BY Empty
    <3>4. Without(<<>>, struck) = <<>>
      BY <3>3, WithoutAll
    <3>5. Strike(EmptyLane, struck) = EmptyLane
      BY <3>4 DEF Strike, EmptyLane
    <3> QED
      BY <1>2, <3>1, <3>2, <3>5
  <2> QED
    BY <1>1, <1>2, <2>1, <2>2 DEF Referred, requestVars
<1> QED
  BY <1>5, <1>11, <1>12 DEF Ordered

\* When the answers are given, those that were answered have yet to leave.
LEMMA GivenSound ==
    ASSUME TypeOK, Ordered, provider = "alive"
    PROVE  /\ DOMAIN responses \in SUBSET (1..Len(Given.held))
           /\ Sound(Given, Place, Lanes, ToSet(unblock), {Given.held[i] : i \in DOMAIN responses})
<1> DEFINE S == DOMAIN responses
           answered == {responses[i] : i \in S}
           U == ToSet(unblock)
<1>1. Sound(Book, Place, Lanes, U, {}) /\ Referred
  BY DEF Ordered
<1>2. /\ Given \in Books /\ Given.lanes = lanes /\ Given.held = held
      /\ \A r \in Requests : Given.fate[r] =
            IF r \in answered /\ fate[r] = "held" THEN "responded" ELSE fate[r]
  BY GivenIs
<1>3. /\ held \in Seq(Requests) /\ fate \in [Requests -> Fates] /\ Book \in Books
      /\ \A i \in S : responses[i] \in Requests
  BY TypeHas
<1>4. /\ OrdersSound(Book, {}) /\ (\A m \in Lanes : QueueSound(Book, Place, m))
      /\ \A m \in Lanes : LaneSound(Book, Place, m, U, {})
  BY <1>1 DEF Sound
<1>5. answered \subseteq Requests
  BY <1>3
<1> HIDE DEF S, U
<1>6. S \subseteq 1..Len(held) /\ \A i \in S : responses[i] = held[i]
  BY <1>1, <1>3 DEF Referred, S
<1>7. answered = {held[i] : i \in S}
  BY <1>6
<1>8. answered \subseteq ToSet(held)
  BY <1>3, <1>6, <1>7 DEF ToSet
<1> HIDE DEF answered
<1>9. \A r \in answered : fate[r] = "held"
  BY <1>4, <1>5, <1>8, BookSame DEF OrdersSound
<1>10. OrdersSound(Given, answered)
  BY <1>2, <1>4, <1>5, <1>9, BookSame DEF OrdersSound
<1>11. ASSUME NEW m \in Lanes PROVE QueueSound(Given, Place, m)
  <2>1. QueueSound(Book, Place, m)
    BY <1>4
  <2> QED
    BY <1>2, <1>9, <2>1, BookSame DEF QueueSound
<1>12. ASSUME NEW m \in Lanes PROVE LaneSound(Given, Place, m, U, answered)
  <2>1. LaneSound(Book, Place, m, U, {}) /\ lanes[m].delivering \in Requests \cup {None}
    BY <1>3, <1>4, BookParts, BookSame
  <2> QED
    BY <1>2, <1>9, <2>1, BookSame DEF LaneSound, Over
<1>13. Sound(Given, Place, Lanes, U, {Given.held[i] : i \in S}) /\ S \in SUBSET (1..Len(Given.held))
  BY <1>2, <1>6, <1>7, <1>10, <1>11, <1>12 DEF Sound
<1> QED
  BY <1>13 DEF S, U

LEMMA ApplyKept ==
    ASSUME TypeOK, Ordered, ApplyResponses
    PROVE  Ordered'
<1> DEFINE S == DOMAIN responses
           answered == {responses[i] : i \in S}
           U == ToSet(unblock)
<1>1. Sound(Book, Place, Lanes, U, {}) /\ Referred
  BY DEF Ordered
<1>2. /\ turn = "app" /\ responses' = <<>>
      /\ UNCHANGED <<requestVars, provider, unblock, active, turn>>
      /\ Book' = IF provider = "alive" THEN RetireAll(Given, S) ELSE Given
  BY ApplyHas
<1>3. /\ Given \in Books /\ Given.lanes = lanes /\ Given.held = held
      /\ \A r \in Requests : Given.fate[r] =
            IF r \in answered /\ fate[r] = "held" THEN "responded" ELSE fate[r]
  BY GivenIs
<1>4. /\ held \in Seq(Requests) /\ fate \in [Requests -> Fates] /\ Book \in Books
      /\ \A i \in S : responses[i] \in Requests
  BY TypeHas
<1>5. Place' = Place /\ unblock' = unblock /\ DOMAIN responses' = {}
  BY <1>2, PlaceSame DEF requestVars
<1>6. /\ OrdersSound(Book, {}) /\ (\A m \in Lanes : QueueSound(Book, Place, m))
      /\ \A m \in Lanes : LaneSound(Book, Place, m, U, {})
  BY <1>1 DEF Sound
<1> HIDE DEF S, U
<1>7. CASE provider = "alive"
  <2>1. Sound(Given, Place, Lanes, U, {Given.held[i] : i \in S}) /\ S \in SUBSET (1..Len(Given.held))
    BY <1>7, GivenSound DEF S, U
  <2>2. Sound(RetireAll(Given, S), Place, Lanes, U, {}) /\ Unmade(Given, RetireAll(Given, S))
    BY <1>3, <2>1, RetireAllSound
  <2>3. Sound(Book', Place', Lanes, ToSet(unblock'), {})
    BY <1>2, <1>5, <1>7, <2>2 DEF U
  <2>4. \A r \in Requests : fate[r] = "unmade" => fate'[r] = "unmade"
    BY <1>2, <1>3, <1>7, <2>2, BookSame DEF Unmade
  <2> QED
    BY <1>1, <1>2, <1>5, <1>7, <2>3, <2>4 DEF Ordered, Referred, requestVars
<1>8. CASE provider # "alive"
  <2>1. held = <<>> /\ \A m \in Lanes : lanes[m] = EmptyLane
    BY <1>1, <1>8 DEF Referred
  <2>2. \A r \in Requests : fate[r] # "held"
    BY <1>6, <2>1, BookSame, Empty DEF OrdersSound
  <2>3. Book' = Given /\ \A r \in Requests : Given.fate[r] = fate[r]
    BY <1>2, <1>3, <1>8, <2>2
  <2>4. Sound(Given, Place, Lanes, U, {})
    BY <1>1, <1>3, <1>4, <2>3, BookSame, SoundSame
  <2>5. Referred'
    BY <1>1, <1>2, <1>3, <1>5, <1>8, <2>3, BookSame DEF Referred, requestVars
  <2> QED
    BY <1>2, <1>5, <2>3, <2>4, <2>5 DEF Ordered, U
<1> QED
  BY <1>7, <1>8

LEMMA RestKept ==
    ASSUME TypeOK, Ordered, EndFlush \/ BeginFlush \/ Despawn \/ UNCHANGED vars
                            \/ (\E S \in SUBSET DOMAIN held : Respond(S)),
           MayFlushBetween = FALSE
    PROVE  Ordered'
<1>1. Sound(Book, Place, Lanes, ToSet(unblock), {}) /\ Referred
  BY DEF Ordered
<1>2. /\ held \in Seq(Requests) /\ fate \in [Requests -> Fates] /\ Book \in Books
      /\ lanes \in [Lanes -> LaneOf(Requests)]
  BY TypeHas
<1>3. CASE EndFlush \/ BeginFlush \/ UNCHANGED vars
  <2>1. /\ UNCHANGED <<requestVars, provider, lanes, fate, held, responses, unblock>>
        /\ turn' = "flush" => responses = <<>>
    BY <1>1, <1>3 DEF EndFlush, BeginFlush, Referred, vars, requestVars
  <2>2. Book' = Book /\ Place' = Place
    BY <2>1, PlaceSame DEF Book, requestVars
  <2> QED
    BY <1>1, <2>1, <2>2 DEF Ordered, Referred, requestVars
<1>4. ASSUME NEW S \in SUBSET DOMAIN held, Respond(S) PROVE Ordered'
  <2>1. /\ UNCHANGED <<requestVars, provider, lanes, fate, held, unblock, turn>>
        /\ turn = "app" /\ responses' = [i \in S |-> held[i]]
    BY <1>4 DEF Respond
  <2>2. Book' = Book /\ Place' = Place
    BY <2>1, PlaceSame DEF Book, requestVars
  <2>3. \A i \in DOMAIN responses' : i \in DOMAIN held /\ responses'[i] = held[i]
    BY <2>1
  <2> QED
    BY <1>1, <2>1, <2>2, <2>3 DEF Ordered, Referred, requestVars
<1>5. CASE Despawn
  <2>1. /\ turn = "app" /\ provider' = "despawned" /\ lanes' = [l \in Lanes |-> EmptyLane]
        /\ held' = <<>>
        /\ fate' = [r \in Requests |-> IF fate[r] \in {"queued", "held"} THEN "lost" ELSE fate[r]]
        /\ UNCHANGED <<requestVars, responses, unblock, active, turn>>
    BY <1>5 DEF Despawn
  <2>2. Place' = Place
    BY <2>1, PlaceSame DEF requestVars
  <2>3. \A r \in Requests : fate'[r] \notin {"queued", "held"}
    BY <2>1
  <2>4. OrdersSound(Book', {})
    BY <2>1, <2>3, Empty, BookSame DEF OrdersSound
  <2>5. ASSUME NEW m, m \in Lanes
        PROVE  QueueSound(Book', Place, m) /\ LaneSound(Book', Place, m, ToSet(unblock), {})
    <3>1. lanes'[m].delivering = None /\ lanes'[m].queue = <<>>
      BY <2>1, <2>5 DEF EmptyLane
    <3> QED
      BY <2>3, <3>1, Empty, BookSame DEF QueueSound, LaneSound
  <2>6. Sound(Book', Place, Lanes, ToSet(unblock), {})
    BY <2>4, <2>5 DEF Sound
  <2>7. Referred'
    <3>1. \A r \in Requests : r > made => fate'[r] = "unmade"
      BY <1>1, <2>1 DEF Referred
    <3> QED
      BY <1>1, <2>1, <3>1 DEF Referred, requestVars
  <2> QED
    BY <2>1, <2>2, <2>6, <2>7 DEF Ordered
<1> QED
  BY <1>3, <1>4, <1>5

LEMMA StepKept ==
    ASSUME MayFlushBetween = FALSE
    PROVE  TypeOK /\ Ordered /\ [Next]_vars => Ordered'
<1> SUFFICES ASSUME TypeOK, Ordered, [Next]_vars PROVE Ordered'
  OBVIOUS
<1>1. ASSUME NEW r \in Requests, NEW i \in Offered[r], Request(i) PROVE Ordered'
  BY <1>1, RequestKept
<1>2. ASSUME NEW r \in Requests, Serve(r) PROVE Ordered'
  BY <1>2, ServeKept
<1>3. CASE ServeNobody \/ NoticeDespawn
  BY <1>3, DisposeKept DEF ServeNobody, NoticeDespawn
<1>4. CASE UnblockNext
  BY <1>4, UnblockKept
<1>5. CASE EndFlush \/ BeginFlush \/ Despawn \/ UNCHANGED vars
           \/ (\E S \in SUBSET DOMAIN held : Respond(S))
  BY <1>5, RestKept
<1>6. ASSUME NEW s \in Sessions, CleanScope(s) PROVE Ordered'
  BY <1>6, CleanKept DEF CleanScope
<1>7. ASSUME NEW n \in Nodes, NEW s \in Sessions, Trim(n, s) PROVE Ordered'
  BY <1>7, CleanKept DEF Trim
<1>8. CASE ApplyResponses
  BY <1>8, ApplyKept
<1> QED
  BY <1>1, <1>2, <1>3, <1>4, <1>5, <1>6, <1>7, <1>8 DEF Next

LEMMA AlwaysOrdered ==
    ASSUME MayFlushBetween = FALSE
    PROVE  Spec => [](TypeOK /\ Ordered)
<1>1. Init => TypeOK /\ Ordered
  BY InitTyped, InitKept
<1>2. TypeOK /\ Ordered /\ [Next]_vars => (TypeOK /\ Ordered)'
  BY StepTyped, StepKept
<1> QED
  BY <1>1, <1>2, PTL DEF Spec

\* If no flush runs before the answers of the system are applied, a continuous
\* service holds exactly its unanswered orders, for whatever orders are answered,
\* supplanted and cleaned: the indices that DeliverResponses::apply works off still
\* mean the orders that were answered (continuous.rs:613).
THEOREM AnswersRetireTheirOrders ==
    ASSUME MayFlushBetween = FALSE
    PROVE  Spec => []HeldIsUnanswered
<1>1. TypeOK /\ Ordered => HeldIsUnanswered
  <2> SUFFICES ASSUME TypeOK, Ordered PROVE HeldIsUnanswered
    OBVIOUS
  <2>1. OrdersSound(Book, {}) /\ held \in Seq(Requests)
    BY TypeHas DEF Ordered, Sound
  <2>2. ToSet(held) \subseteq Requests
    BY <2>1 DEF ToSet
  <2> QED
    BY <2>1, <2>2, BookSame DEF OrdersSound, HeldIsUnanswered
<1> QED
  BY <1>1, AlwaysOrdered, PTL

\* Under the same hypothesis a lane is taken only by an order that is held, that is
\* about to be unblocked or that a cleanup has dropped with its blocker; and nothing
\* waits in a lane that is free (try_retire_request, continuous.rs:682;
\* the cleanup is ContinuousQueueStorage::cleanup, continuous.rs:535).
THEOREM OnlyCleanupBlocks ==
    ASSUME MayFlushBetween = FALSE
    PROVE  Spec => []OnlyCleanupSticks
<1>1. TypeOK /\ Ordered => OnlyCleanupSticks
  <2> SUFFICES ASSUME TypeOK, Ordered, NEW l \in Lanes
               PROVE  /\ lanes[l].delivering # None =>
                            fate[lanes[l].delivering] \in {"held", "cleaned", "lost"} \/ l \in ToSet(unblock)
                      /\ lanes[l].queue # <<>> => lanes[l].delivering # None
    BY DEF OnlyCleanupSticks
  <2>1. LaneSound(Book, Place, l, ToSet(unblock), {})
    BY DEF Ordered, Sound
  <2> QED
    BY <2>1, BookSame DEF LaneSound
<1> QED
  BY <1>1, AlwaysOrdered, PTL

-----------------------------------------------------------------------------
(* Who is served: the one that is being delivered, as long as it is held.  A *)
(* lane whose order was cleaned is stuck: it serves nobody and is not free.  *)

Serves(b, l) ==
    IF b.lanes[l].delivering \in ToSet(b.held) THEN b.lanes[l].delivering ELSE None

Stuck(b, l) == b.lanes[l].delivering # None /\ Serves(b, l) = None

\* An order that needs a lane is held only while its lane delivers it.
Lone(b, L) == \A q \in ToSet(b.held) : L[q] # None => b.lanes[L[q]].delivering = q

\* From one book to another the lanes in D have served the next ones, if there were
\* any, and the others are as they were.
Waits(b, l) == b.lanes[l].queue

NextServed(b, c, l) ==
    /\ Serves(c, l) = (IF Waits(b, l) = <<>> THEN None ELSE Head(Waits(b, l)))
    /\ Waits(c, l) = (IF Waits(b, l) = <<>> THEN <<>> ELSE Tail(Waits(b, l)))
    /\ ~Stuck(c, l)

Alike(b, c, l) == c.lanes[l] = b.lanes[l] /\ Serves(c, l) = Serves(b, l)

Moves(b, c, D) ==
    /\ \A l \in Lanes \cap D : NextServed(b, c, l)
    /\ \A l \in Lanes \ D : Alike(b, c, l)
    /\ \A q \in Requests : c.fate[q] \in {"unmade", "input"} => c.fate[q] = b.fate[q]

LEMMA MovesTwice ==
    ASSUME NEW b, NEW c, NEW d, NEW D, NEW E,
           Moves(b, c, D), Moves(c, d, E), D \cap E = {}
    PROVE  Moves(b, d, D \cup E)
<1>1. ASSUME NEW l \in Lanes, l \in D PROVE NextServed(b, d, l)
  <2>1. NextServed(b, c, l) /\ Alike(c, d, l)
    BY <1>1 DEF Moves
  <2> QED
    BY <2>1 DEF NextServed, Alike, Stuck, Waits
<1>2. ASSUME NEW l \in Lanes, l \in E PROVE NextServed(b, d, l)
  <2>1. Alike(b, c, l) /\ NextServed(c, d, l)
    BY <1>2 DEF Moves
  <2> QED
    BY <2>1 DEF NextServed, Alike, Waits
<1>3. ASSUME NEW l \in Lanes, l \notin D \cup E PROVE Alike(b, d, l)
  <2>1. Alike(b, c, l) /\ Alike(c, d, l)
    BY <1>3 DEF Moves
  <2> QED
    BY <2>1 DEF Alike
<1>4. \A q \in Requests : d.fate[q] \in {"unmade", "input"} => d.fate[q] = b.fate[q]
  BY DEF Moves
<1> QED
  BY <1>1, <1>2, <1>3, <1>4 DEF Moves

\* Those that wait for a lane are not held, and nobody is delivered by two lanes.
LEMMA WaitingNotHeld ==
    ASSUME NEW b \in Books, NEW L, NEW M, NEW U, NEW R, Sound(b, L, M, U, R), NEW l \in Lanes
    PROVE  /\ \A q \in ToSet(b.lanes[l].queue) :
                 q \in Requests /\ q \notin ToSet(b.held) /\ L[q] = l /\ b.fate[q] = "queued"
           /\ \A m \in M : b.lanes[m].delivering \notin ToSet(b.lanes[l].queue)
           /\ \A m \in M : b.lanes[m].delivering # None => L[b.lanes[m].delivering] = m
           /\ None \notin ToSet(b.held) /\ None \notin ToSet(b.lanes[l].queue)
<1>1. OrdersSound(b, R) /\ QueueSound(b, L, l) /\ \A m \in M : LaneSound(b, L, m, U, R)
  BY DEF Sound
<1>2. b.held \in Seq(Requests) /\ b.lanes[l].queue \in Seq(Requests)
  BY BookParts
<1>3. ToSet(b.held) \subseteq Requests /\ ToSet(b.lanes[l].queue) \subseteq Requests
  BY <1>2 DEF ToSet
<1>4. \A q \in ToSet(b.lanes[l].queue) : q \in Requests /\ b.fate[q] = "queued" /\ L[q] = l
  BY <1>1, <1>3 DEF QueueSound
<1>5. \A q \in ToSet(b.lanes[l].queue) : q \notin ToSet(b.held)
  BY <1>1, <1>4 DEF OrdersSound
<1>6. ASSUME NEW m \in M
      PROVE  /\ b.lanes[m].delivering \notin ToSet(b.lanes[l].queue)
             /\ b.lanes[m].delivering # None => L[b.lanes[m].delivering] = m
  BY <1>1, <1>4, NoNames DEF LaneSound, Over
<1> QED
  BY <1>3, <1>4, <1>5, <1>6, NoNames

\* A lane that no order is held for serves the next one.
LEMMA ServeNextServes ==
    ASSUME NEW b \in Books, NEW l \in Lanes, NEW L, NEW U, NEW R,
           Sound(b, L, Lanes \ {l}, U, R), Lone(b, L),
           \A q \in ToSet(b.held) : L[q] # l
    PROVE  Lone(ServeNext(b, l), L) /\ Moves(b, ServeNext(b, l), {l})
<1> DEFINE c == ServeNext(b, l)
           next == PopNext(b.lanes[l])
           h == next.delivering
           queue == b.lanes[l].queue
<1>1. /\ b.lanes[l] \in LaneOf(Requests) /\ b.held \in Seq(Requests)
      /\ b.lanes \in [Lanes -> LaneOf(Requests)] /\ queue \in Seq(Requests)
  BY BookIs, BookParts
<1>2. /\ c.lanes = [b.lanes EXCEPT ![l] = next]
      /\ h = None => c.held = b.held /\ c.fate = b.fate
      /\ h # None =>
            /\ c.held = Append(b.held, h)
            /\ \A q \in Requests : c.fate[q] = IF q = h THEN "held" ELSE b.fate[q]
  BY ServeNextIs
<1>3. queue = <<>> => next = EmptyLane
  BY <1>1, PopLane
<1>4. queue # <<>> => h = Head(queue) /\ next.queue = Tail(queue) /\ h \in Requests
  BY <1>1, PopLane
<1>5. queue # <<>> => Head(queue) \in ToSet(queue)
  BY <1>1, TailSet
<1>6. /\ \A q \in ToSet(queue) : q \in Requests /\ q \notin ToSet(b.held) /\ L[q] = l
      /\ \A m \in Lanes \ {l} : b.lanes[m].delivering \notin ToSet(queue)
      /\ None \notin ToSet(b.held) /\ None \notin ToSet(queue)
  BY WaitingNotHeld
<1>7. c.lanes[l] = next /\ \A m \in Lanes \ {l} : c.lanes[m] = b.lanes[m]
  BY <1>1, <1>2
<1>8. l # None
  BY NoNames
<1> HIDE DEF c, next, queue
<1>9. CASE queue = <<>>
  <2>1. /\ h = None /\ next.queue = <<>> /\ c.held = b.held /\ c.fate = b.fate
    BY <1>2, <1>3, <1>9 DEF EmptyLane
  <2> HIDE DEF h
  <2>2. c.lanes[l].delivering = None /\ c.lanes[l].queue = <<>>
    BY <1>7, <2>1 DEF h
  <2>3. Serves(c, l) = None /\ ~Stuck(c, l)
    BY <2>2 DEF Serves, Stuck
  <2>4. NextServed(b, c, l)
    BY <1>9, <2>2, <2>3 DEF NextServed, Waits, queue
  <2>5. \A m \in Lanes \ {l} : Alike(b, c, m)
    BY <1>7, <2>1 DEF Alike, Serves
  <2>6. Lone(c, L)
    <3> SUFFICES ASSUME NEW q \in ToSet(b.held), L[q] # None
                 PROVE  c.lanes[L[q]].delivering = q
      BY <2>1 DEF Lone
    <3>1. b.lanes[L[q]].delivering = q /\ L[q] # l
      BY DEF Lone
    <3> QED
      BY <1>2, <1>1, <3>1
  <2> QED
    BY <2>1, <2>4, <2>5, <2>6 DEF Moves, c
<1>10. CASE queue # <<>>
  <2>1. /\ h = Head(queue) /\ next.queue = Tail(queue) /\ h \in Requests
        /\ h \in ToSet(queue) /\ h # None /\ L[h] = l
    BY <1>4, <1>5, <1>6, <1>10
  <2>2. c.held = Append(b.held, h)
        /\ \A q \in Requests : c.fate[q] = IF q = h THEN "held" ELSE b.fate[q]
    BY <1>2, <2>1
  <2>3. c.lanes[l].delivering = h /\ c.lanes[l].queue = Tail(queue)
    BY <1>7, <2>1
  <2> HIDE DEF h
  <2>4. ToSet(c.held) = ToSet(b.held) \cup {h}
    BY <1>1, <2>1, <2>2, AppendSet
  <2>5. Serves(c, l) = h /\ ~Stuck(c, l)
    BY <2>1, <2>3, <2>4 DEF Serves, Stuck
  <2>6. NextServed(b, c, l)
    BY <1>10, <2>1, <2>3, <2>5 DEF NextServed, Waits, queue
  <2>7. ASSUME NEW m \in Lanes \ {l} PROVE Alike(b, c, m)
    <3>1. b.lanes[m].delivering # h
      BY <1>6, <2>1
    <3> QED
      BY <1>7, <2>4, <3>1 DEF Alike, Serves
  <2>8. Lone(c, L)
    <3> SUFFICES ASSUME NEW q \in ToSet(c.held), L[q] # None
                 PROVE  c.lanes[L[q]].delivering = q
      BY DEF Lone
    <3>1. CASE q = h
      BY <2>1, <2>3, <3>1
    <3>2. CASE q \in ToSet(b.held)
      <4>1. b.lanes[L[q]].delivering = q /\ L[q] # l
        BY <3>2 DEF Lone
      <4> QED
        BY <1>1, <1>2, <4>1
    <3> QED
      BY <2>4, <3>1, <3>2
  <2> QED
    BY <2>2, <2>6, <2>7, <2>8 DEF Moves, c
<1> QED
  BY <1>9, <1>10

\* When an order is retired, its lane serves the next one.
LEMMA RetireServes ==
    ASSUME TypeOK, NEW b \in Books, NEW U, NEW R, NEW i \in 1..Len(b.held),
           Sound(b, Place, Lanes, U, R), Lone(b, Place), b.held[i] \in R
    PROVE  Lone(Retire(b, i), Place) /\ Moves(b, Retire(b, i), {Place[b.held[i]]})
<1> DEFINE r == b.held[i]
           c == Removed(b, i)
           l == Lane(r)
<1>0. /\ IsInjective(b.held) /\ b.fate[r] = "responded"
      /\ Sound(c, Place, Lanes \ {l}, U, R \ {r})
  BY RemovedSound
<1>1. /\ r \in Requests /\ r \in ToSet(b.held) /\ c \in Books /\ c.lanes = b.lanes
      /\ \A q \in Requests : c.fate[q] = b.fate[q]
      /\ \A x : x \in ToSet(c.held) <=> x \in ToSet(b.held) /\ x # r
      /\ Place[r] = l /\ l \in Lanes \cup {None}
      /\ Retire(b, i) = IF l = None THEN c ELSE ServeNext(c, l)
  BY <1>0, RemovedHas
<1>2. None \notin Lanes /\ None \notin Requests
  BY NoNames
<1>3. \A m \in Lanes : b.lanes[m].delivering # None => Place[b.lanes[m].delivering] = m
  BY WaitingNotHeld
<1> HIDE DEF c, l, r
<1>4. Lone(c, Place)
  BY <1>1 DEF Lone
<1>5. ASSUME NEW m \in Lanes \ {l} PROVE Alike(b, c, m)
  <2>1. b.lanes[m].delivering # r
    BY <1>1, <1>2, <1>3, <1>5
  <2> QED
    BY <1>1, <2>1 DEF Alike, Serves
<1>6. CASE l = None
  <2>1. Lanes \cap {l} = {}
    BY <1>2, <1>6
  <2> QED
    BY <1>1, <1>4, <1>5, <1>6, <2>1 DEF Moves, r
<1>7. CASE l # None
  <2> DEFINE d == ServeNext(c, l)
  <2>1. \A q \in ToSet(c.held) : Place[q] # l
    <3> SUFFICES ASSUME NEW q \in ToSet(b.held), q # r, Place[q] = l PROVE FALSE
      BY <1>1
    <3>1. b.lanes[l].delivering = q /\ b.lanes[l].delivering = r
      BY <1>1, <1>7 DEF Lone
    <3> QED
      BY <3>1
  <2>2. Lone(d, Place) /\ Moves(c, d, {l})
    BY <1>0, <1>1, <1>4, <1>7, <2>1, ServeNextServes
  <2> HIDE DEF d
  <2>3. NextServed(b, d, l)
    <3>1. NextServed(c, d, l)
      BY <1>1, <1>7, <2>2 DEF Moves
    <3> QED
      BY <1>1, <3>1 DEF NextServed, Waits
  <2>4. ASSUME NEW m \in Lanes \ {l} PROVE Alike(b, d, m)
    <3>1. Alike(b, c, m) /\ Alike(c, d, m)
      BY <1>5, <2>2 DEF Moves
    <3> QED
      BY <3>1 DEF Alike
  <2>5. \A q \in Requests : d.fate[q] \in {"unmade", "input"} => d.fate[q] = b.fate[q]
    BY <1>1, <2>2 DEF Moves
  <2> QED
    BY <1>1, <1>7, <2>2, <2>3, <2>4, <2>5 DEF Moves, d, r
<1> QED
  BY <1>6, <1>7

\* Retiring all the orders that were answered advances each of their lanes once, as
\* a lane has one order that is held.
LEMMA RetireAllServes ==
    ASSUME TypeOK, NEW b \in Books, NEW U, NEW S \in SUBSET (1..Len(b.held)),
           Sound(b, Place, Lanes, U, {b.held[j] : j \in S}), Lone(b, Place)
    PROVE  /\ Lone(RetireAll(b, S), Place)
           /\ Moves(b, RetireAll(b, S), {Place[b.held[j]] : j \in S} \ {None})
<1> DEFINE n == Len(b.held)
           g == Retired(b, S)
           Done(k) == {Place[b.held[j]] : j \in {i \in S : i > n - k}} \ {None}
           T == {k \in 0..n : Lone(g[k], Place) /\ Moves(b, g[k], Done(k))}
<1>1. n \in Nat /\ b.held \in [1..n -> Requests] /\ S \subseteq 1..n
  BY BookIs
<1>2. /\ g[0] = b /\ \A k \in 0..n : g[k] \in Books
      /\ \A k \in 1..n : g[k] = IF LastFirst(n, k) \in S
                                THEN Retire(g[k - 1], LastFirst(n, k)) ELSE g[k - 1]
  BY RetiredStep
<1>3. IsInjective(b.held)
  BY DEF Sound, OrdersSound
<1>4. ASSUME NEW m \in 0..n
      PROVE  /\ Sound(g[n - m], Place, Lanes, U, {b.held[j] : j \in {i \in S : i <= m}})
             /\ \A j \in 1..m : j \in DOMAIN g[n - m].held /\ g[n - m].held[j] = b.held[j]
  BY <1>4, RetiredSound
<1> HIDE DEF n, g
<1>5. 0 \in T
  <2>1. {i \in S : i > n - 0} = {}
    <3>1. \A i \in S : ~(i > n - 0)
      BY <1>1
    <3> QED
      BY <3>1
  <2>2. Done(0) = {}
    BY <2>1
  <2> HIDE DEF Done
  <2>3. Moves(b, b, {})
    BY DEF Moves, Alike
  <2>4. 0 \in 0..n
    BY <1>1
  <2> QED
    BY <1>2, <2>2, <2>3, <2>4
<1>6. ASSUME NEW k \in 1..n, k - 1 \in T PROVE k \in T
  <2> DEFINE i == LastFirst(n, k)
             c == g[k - 1]
             R == {b.held[j] : j \in {m \in S : m <= i}}
             l == Place[b.held[i]]
  <2>1. /\ i = n - (k - 1) /\ n - i = k - 1 /\ i \in 1..n /\ i \in 0..n
        /\ k - 1 \in 0..n /\ k \in 0..n /\ n - k = i - 1
    BY <1>1 DEF LastFirst
  <2>2. /\ Sound(c, Place, Lanes, U, R) /\ c \in Books
        /\ i \in DOMAIN c.held /\ c.held[i] = b.held[i]
    <3>1. /\ Sound(g[n - i], Place, Lanes, U, R)
          /\ \A j \in 1..i : j \in DOMAIN g[n - i].held /\ g[n - i].held[j] = b.held[j]
      BY <1>4, <2>1
    <3>2. i \in 1..i /\ g[n - i] = c
      BY <2>1
    <3>3. c \in Books
      BY <1>2, <2>1
    <3> HIDE DEF c, R, i
    <3> QED
      BY <3>1, <3>2, <3>3
  <2>3. Lone(c, Place) /\ Moves(b, c, Done(k - 1))
    BY <1>6
  <2>4. /\ Done(k - 1) = {Place[b.held[j]] : j \in {m \in S : m > i}} \ {None}
        /\ Done(k) = {Place[b.held[j]] : j \in {m \in S : m > i - 1}} \ {None}
    <3>1. n - (k - 1) = i /\ n - k = i - 1
      BY <1>1, <2>1
    <3> QED
      BY <3>1
  <2>5. g[k] = IF i \in S THEN Retire(c, i) ELSE c
    BY <1>2
  <2> HIDE DEF i, c, T
  <2>6. CASE i \in S
    <3>1. i \in 1..Len(c.held) /\ c.held[i] \in R
      <4>1. DOMAIN c.held = 1..Len(c.held)
        BY <2>2, BookIs
      <4>2. i <= i
        BY <2>1
      <4> QED
        BY <2>2, <2>6, <4>1, <4>2
    <3> HIDE DEF R
    <3>2. Lone(Retire(c, i), Place) /\ Moves(c, Retire(c, i), {l})
      BY <2>2, <2>3, <3>1, RetireServes
    <3>3. Done(k) = Done(k - 1) \cup ({l} \ {None})
      <4>1. {m \in S : m > i - 1} = {m \in S : m > i} \cup {i}
        <5>1. ASSUME NEW m \in S PROVE m > i - 1 <=> m > i \/ m = i
          <6>1. m \in Nat /\ i \in Nat
            BY <1>1, <2>1
          <6> QED
            BY <6>1
        <5> QED
          BY <2>6, <5>1
      <4> HIDE DEF Done
      <4>2. Done(k) = {Place[b.held[j]] : j \in {m \in S : m > i} \cup {i}} \ {None}
        BY <2>4, <4>1
      <4> QED
        BY <2>4, <4>2
    <3> HIDE DEF Done
    <3>4. l \notin Done(k - 1)
      <4> SUFFICES ASSUME l \in Done(k - 1) PROVE FALSE
        OBVIOUS
      <4>1. PICK j \in S : j > i /\ l = Place[b.held[j]] /\ l # None
        BY <2>4
      <4>2. j \in 1..n /\ j # i /\ i \in 1..n
        BY <1>1, <2>1, <4>1
      <4>3. b.held[j] \in ToSet(b.held) /\ b.held[i] \in ToSet(b.held)
        BY <1>1, <4>2 DEF ToSet
      <4>4. b.held[j] = b.held[i]
        BY <4>1, <4>3 DEF Lone
      <4> QED
        BY <1>1, <1>3, <4>2, <4>4 DEF IsInjective
    <3>5. Moves(b, Retire(c, i), Done(k - 1) \cup {l})
      <4>1. Done(k - 1) \cap {l} = {}
        BY <3>4
      <4> HIDE DEF l
      <4> QED
        BY <2>3, <3>2, <4>1, MovesTwice
    <3>6. Moves(b, Retire(c, i), Done(k))
      <4>1. \A m \in Lanes : m \in Done(k) <=> m \in Done(k - 1) \cup {l}
        BY <3>3, NoNames
      <4> HIDE DEF l
      <4> QED
        BY <3>5, <4>1 DEF Moves
    <3> QED
      BY <2>1, <2>5, <2>6, <3>2, <3>6 DEF T
  <2>7. CASE i \notin S
    <3>1. {m \in S : m > i - 1} = {m \in S : m > i}
      <4>1. ASSUME NEW m \in S PROVE m > i - 1 <=> m > i
        <5>1. m \in Nat /\ i \in Nat /\ m # i
          BY <1>1, <2>1, <2>7
        <5> QED
          BY <5>1
      <4> QED
        BY <4>1
    <3> HIDE DEF Done
    <3>2. Done(k) = Done(k - 1)
      BY <2>4, <3>1
    <3> QED
      BY <2>1, <2>3, <2>5, <2>7, <3>2 DEF T
  <2> QED
    BY <2>6, <2>7
<1>7. n \in T
  <2> HIDE DEF T
  <2>1. \A k \in 1..n : k - 1 \in T => k \in T
    BY <1>6
  <2>2. 0..n \subseteq T
    BY <1>1, <1>5, <2>1, UpTo
  <2> QED
    BY <1>1, <2>2
<1>8. Done(n) = {Place[b.held[j]] : j \in S} \ {None}
  <2>1. {i \in S : i > n - n} = S
    <3>1. \A i \in S : i > n - n
      BY <1>1
    <3> QED
      BY <3>1
  <2> QED
    BY <2>1
<1> HIDE DEF Done
<1> QED
  BY <1>7, <1>8 DEF RetireAll, n, g

\* Lanes that are about to be unblocked are stuck, and each of them will be unblocked
\* once.
Awaited ==
    /\ IsInjective(unblock)
    /\ provider = "alive" => \A l \in ToSet(unblock) : Stuck(Book, l)

Whole == TypeOK /\ Ordered /\ Lone(Book, Place) /\ Awaited

LEMMA ServingIs == Whole => \A l \in Lanes : Serving(l) = Serves(Book, l)
<1> SUFFICES ASSUME Whole, NEW l \in Lanes PROVE Serving(l) = Serves(Book, l)
  OBVIOUS
<1>1. TypeOK /\ Lone(Book, Place) /\ Sound(Book, Place, Lanes, ToSet(unblock), {})
  BY DEF Whole, Ordered
<1>2. Book \in Books /\ held \in Seq(Requests) /\ ToSet(held) \subseteq Requests
  BY <1>1, TypeHas DEF ToSet
<1>3. lanes[l].delivering # None => Place[lanes[l].delivering] = l
  BY <1>1, <1>2, WaitingNotHeld, BookSame
<1>4. \A r \in ToSet(held) : Place[r] = Lane(r) /\ r # None
  BY <1>2, NoNames DEF Place
<1>5. \A r \in ToSet(held) : Lane(r) = l => lanes[l].delivering = r
  BY <1>1, <1>4, NoNames, BookSame DEF Lone
<1>6. CASE \E r \in ToSet(held) : Lane(r) = l
  <2>1. PICK r \in ToSet(held) : Lane(r) = l
    BY <1>6
  <2>2. lanes[l].delivering = r /\ \A q \in ToSet(held) : Lane(q) = l => q = r
    BY <1>5, <2>1
  <2>3. Serving(l) = r
    BY <2>1, <2>2 DEF Serving
  <2> QED
    BY <2>1, <2>2, <2>3, BookSame DEF Serves
<1>7. CASE ~\E r \in ToSet(held) : Lane(r) = l
  <2>1. lanes[l].delivering \notin ToSet(held)
    BY <1>3, <1>4, <1>7
  <2> QED
    BY <1>7, <2>1, BookSame DEF Serving, Serves
<1> QED
  BY <1>6, <1>7

LEMMA ServingThen == Whole' => \A l \in Lanes : Serving(l)' = Serves(Book', l)
<1>1. (Whole => \A l \in Lanes : Serving(l) = Serves(Book, l))'
  BY ServingIs, PTL
<1>2. \A l : (Serves(Book, l))' = Serves(Book', l)
  BY DEF Serves
<1> QED
  BY <1>1, <1>2

-----------------------------------------------------------------------------
(* Steps of the contract *)

LEMMA ContractWithout == \A q, gone : Contract!Without(q, gone) = Without(q, gone)
BY DEF Contract!Without, Without, Contract!Kept, Kept

LEMMA ContractToSet == \A q : Contract!ToSet(q) = ToSet(q)
BY DEF Contract!ToSet, ToSet

Served == [l \in Lanes |-> Serving(l)]
Waiting == [l \in Lanes |-> lanes[l].queue]

ContractStep == [Contract!Next]_(Contract!vars)

LEMMA ContractVars == Contract!vars = <<Served, Waiting>> /\ Contract!vars' = <<Served', Waiting'>>
BY DEF Contract!vars, Served, Waiting

\* Who is served and who waits, before and after a step.
LEMMA ServedWaiting ==
    ASSUME Whole, Whole'
    PROVE  /\ Served = [l \in Lanes |-> Serves(Book, l)]
           /\ Served' = [l \in Lanes |-> Serves(Book', l)]
           /\ Waiting = [l \in Lanes |-> Waits(Book, l)]
           /\ Waiting' = [l \in Lanes |-> Waits(Book', l)]
<1>1. \A l \in Lanes : Serving(l) = Serves(Book, l) /\ Serving(l)' = Serves(Book', l)
  BY ServingIs, ServingThen
<1> QED
  BY <1>1, BookSame DEF Served, Waiting, Waits

LEMMA AsStutter ==
    ASSUME Whole, Whole',
           \A l \in Lanes : Serves(Book', l) = Serves(Book, l) /\ Waits(Book', l) = Waits(Book, l)
    PROVE  ContractStep
<1>1. Served' = Served /\ Waiting' = Waiting
  BY ServedWaiting
<1> QED
  BY <1>1, ContractVars DEF ContractStep

LEMMA AsEnter ==
    ASSUME Whole, Whole', NEW l \in Lanes, NEW r \in Requests,
           Serves(Book, l) = None, Waits(Book, l) = <<>>, Serves(Book', l) = r,
           \A m \in Lanes \ {l} : Serves(Book', m) = Serves(Book, m),
           \A m \in Lanes : Waits(Book', m) = Waits(Book, m)
    PROVE  ContractStep
<1>1. Served' = [Served EXCEPT ![l] = r] /\ Waiting' = Waiting
  BY ServedWaiting
<1>2. Served[l] = None /\ Waiting[l] = <<>>
  BY ServedWaiting
<1>3. Contract!Enter(l, r)
  BY <1>1, <1>2 DEF Contract!Enter, Served, Waiting
<1> QED
  BY <1>3 DEF ContractStep, Contract!Next

\* The two ways to join a queue that others leave.
LEMMA AsJoinOrReplace ==
    ASSUME Whole, Whole', NEW l \in Lanes, NEW r \in Requests, NEW gone, NEW queue,
           r \notin ToSet(Waits(Book, l)), r # Serves(Book, l),
           queue = Append(Without(Waits(Book, l), gone), r),
           \/ Serves(Book', l) = Serves(Book, l) /\ Waits(Book', l) = queue
           \/ /\ Serves(Book, l) # None
              /\ Serves(Book', l) = Head(queue) /\ Waits(Book', l) = Tail(queue),
           \A m \in Lanes \ {l} : Serves(Book', m) = Serves(Book, m) /\ Waits(Book', m) = Waits(Book, m)
    PROVE  ContractStep
<1> SUFFICES ASSUME NEW left, left = gone \cap ToSet(Waits(Book, l)) PROVE ContractStep
  OBVIOUS
<1>1. Waits(Book, l) \in Seq(Requests)
  BY TypeHas, BookParts DEF Whole, Waits
<1>2. Without(Waits(Book, l), gone) = Without(Waits(Book, l), left)
  BY <1>1, WithoutSame
<1>3. queue = Append(Contract!Without(Waiting[l], left), r)
  BY <1>2, ContractWithout, ServedWaiting
<1>4. /\ left \in SUBSET ToSet(Waiting[l]) /\ r \notin Contract!ToSet(Waiting[l]) /\ r # Served[l]
      /\ Waiting[l] = Waits(Book, l) /\ Served[l] = Serves(Book, l)
  BY ServedWaiting, ContractToSet
<1>5. Contract!Join(l, r, left) \/ Contract!Replace(l, r, left)
  <2>1. CASE Serves(Book', l) = Serves(Book, l) /\ Waits(Book', l) = queue
    <3>1. Waiting' = [Waiting EXCEPT ![l] = queue] /\ Served' = Served
      BY <2>1, ServedWaiting
    <3> QED
      BY <1>3, <1>4, <3>1 DEF Contract!Join, Served, Waiting
  <2>2. CASE /\ Serves(Book, l) # None
             /\ Serves(Book', l) = Head(queue) /\ Waits(Book', l) = Tail(queue)
    <3>1. Waiting' = [Waiting EXCEPT ![l] = Tail(queue)] /\ Served' = [Served EXCEPT ![l] = Head(queue)]
      BY <2>2, ServedWaiting
    <3> QED
      BY <1>3, <1>4, <2>2, <3>1 DEF Contract!Replace, Served, Waiting
  <2> QED
    BY <2>1, <2>2
<1>6. left \in SUBSET Contract!ToSet([m \in Lanes |-> lanes[m].queue][l])
  BY <1>4, ContractToSet DEF Waiting
<1>7. \E m \in Lanes, q \in Requests :
         \E g \in SUBSET Contract!ToSet([k \in Lanes |-> lanes[k].queue][m]) :
            Contract!Join(m, q, g) \/ Contract!Replace(m, q, g)
  BY <1>5, <1>6, Zenon
<1> QED
  BY <1>7 DEF ContractStep, Contract!Next

LEMMA AsAdvance ==
    ASSUME Whole, Whole', NEW D, Moves(Book, Book', D)
    PROVE  ContractStep
<1> DEFINE ended == Lanes \cap D
<1>1. ASSUME NEW l \in Lanes
      PROVE  /\ l \in ended => NextServed(Book, Book', l)
             /\ l \notin ended => Alike(Book, Book', l)
  BY DEF Moves
<1> HIDE DEF ended
<1>2. \A l \in Lanes : /\ Served[l] = Serves(Book, l) /\ Served'[l] = Serves(Book', l)
                       /\ Waiting[l] = Waits(Book, l) /\ Waiting'[l] = Waits(Book', l)
  BY ServedWaiting
<1>3. \A l \in Lanes : /\ l \notin ended => Served'[l] = Served[l] /\ Waiting'[l] = Waiting[l]
                       /\ l \in ended =>
                             /\ Served'[l] = (IF Waiting[l] = <<>> THEN None ELSE Head(Waiting[l]))
                             /\ Waiting'[l] = (IF Waiting[l] = <<>> THEN Waiting[l] ELSE Tail(Waiting[l]))
  <2> SUFFICES ASSUME NEW l \in Lanes
               PROVE  /\ l \notin ended => Served'[l] = Served[l] /\ Waiting'[l] = Waiting[l]
                      /\ l \in ended =>
                            /\ Served'[l] = (IF Waiting[l] = <<>> THEN None ELSE Head(Waiting[l]))
                            /\ Waiting'[l] = (IF Waiting[l] = <<>> THEN Waiting[l] ELSE Tail(Waiting[l]))
    OBVIOUS
  <2>1. Alike(Book, Book', l) => Served'[l] = Served[l] /\ Waiting'[l] = Waiting[l]
    BY <1>2 DEF Alike, Waits
  <2>2. NextServed(Book, Book', l) =>
           /\ Served'[l] = (IF Waiting[l] = <<>> THEN None ELSE Head(Waiting[l]))
           /\ Waiting'[l] = (IF Waiting[l] = <<>> THEN Waiting[l] ELSE Tail(Waiting[l]))
    BY <1>2 DEF NextServed
  <2> QED
    BY <1>1, <2>1, <2>2
<1>4. /\ Served' = [l \in Lanes |-> Served'[l]] /\ Waiting' = [l \in Lanes |-> Waiting'[l]]
  BY ServedWaiting
<1>5. /\ Served' = [l \in Lanes |-> IF l \notin ended THEN Served[l]
                                  ELSE IF Waiting[l] = <<>> THEN None ELSE Head(Waiting[l])]
      /\ Waiting' = [l \in Lanes |-> IF l \in ended /\ Waiting[l] # <<>>
                                   THEN Tail(Waiting[l]) ELSE Waiting[l]]
  BY <1>3, <1>4
<1>6. Contract!Advance(ended)
  BY <1>5 DEF Contract!Advance, Served, Waiting
<1>7. ended \in SUBSET Lanes
  BY DEF ended
<1> QED
  BY <1>6, <1>7 DEF ContractStep, Contract!Next

LEMMA AsLeave ==
    ASSUME Whole, Whole', NEW gone,
           \A r \in gone : \E l \in Lanes :
              r \in ToSet(Waits(Book, l)) \/ (r = Serves(Book, l) /\ r # None),
           \A l \in Lanes :
              /\ Serves(Book', l) = (IF Serves(Book, l) \in gone THEN None ELSE Serves(Book, l))
              /\ Waits(Book', l) = Without(Waits(Book, l), gone)
    PROVE  ContractStep
<1>1. gone \in SUBSET UNION {ToSet(Waiting[l]) \cup ({Served[l]} \ {None}) : l \in Lanes}
  <2>1. \A l \in Lanes : Waiting[l] = Waits(Book, l) /\ Served[l] = Serves(Book, l)
    BY ServedWaiting
  <2>2. ASSUME NEW r \in gone
        PROVE  \E l \in Lanes : r \in ToSet(Waiting[l]) \cup ({Served[l]} \ {None})
    BY <2>1
  <2> QED
    BY <2>2
<1>2. /\ Served' = [l \in Lanes |-> IF Served[l] \in gone THEN None ELSE Served[l]]
      /\ Waiting' = [l \in Lanes |-> Contract!Without(Waiting[l], gone)]
  BY ContractWithout, ServedWaiting
<1>3. Contract!Leave(gone)
  BY <1>2 DEF Contract!Leave, Served, Waiting
<1>4. gone \in SUBSET UNION {ToSet([m \in Lanes |-> lanes[m].queue][l])
                               \cup ({[m \in Lanes |-> Serving(m)][l]} \ {None}) : l \in Lanes}
  BY <1>1 DEF Served, Waiting
<1> QED
  BY <1>3, <1>4, ContractToSet DEF ContractStep, Contract!Next

-----------------------------------------------------------------------------
(* Every step keeps the whole invariant and is one of the contract's *)

\* r supplants the order that holds its lane, the queue does not hold that order any
\* more since a cleanup dropped it, and the lane is about to be unblocked already.
UnblocksAgain(r) ==
    /\ Lane(r) \in Lanes \cap ToSet(unblock)
    /\ lanes[Lane(r)].delivering \in Supplanted(ins, lanes[Lane(r)], r) \ ToSet(held)

\* No step of a behaviour unblocks a lane that is about to be unblocked.
NoLaneUnblockedTwice == [][\A r \in Requests : Serve(r) => ~UnblocksAgain(r)]_vars

Begun(r) == fate[r] \notin {"unmade", "input"}

LEMMA WholeHas ==
    ASSUME Whole
    PROVE  /\ TypeOK /\ Ordered /\ Awaited /\ Lone(Book, Place) /\ Referred
           /\ Sound(Book, Place, Lanes, ToSet(unblock), {}) /\ OrdersSound(Book, {})
           /\ \A r \in ToSet(held) : r \in Requests /\ fate[r] = "held" /\ Begun(r)
           /\ \A l \in Lanes : LaneSound(Book, Place, l, ToSet(unblock), {})
           /\ \A l \in Lanes : QueueSound(Book, Place, l)
           /\ Book \in Books /\ held \in Seq(Requests) /\ unblock \in Seq(Lanes)
           /\ lanes \in [Lanes -> LaneOf(Requests)] /\ fate \in [Requests -> Fates]
<1>1. /\ TypeOK /\ Ordered /\ Awaited /\ Lone(Book, Place) /\ Referred
      /\ Sound(Book, Place, Lanes, ToSet(unblock), {})
  BY DEF Whole, Ordered
<1>2. /\ OrdersSound(Book, {}) /\ (\A l \in Lanes : LaneSound(Book, Place, l, ToSet(unblock), {}))
      /\ \A l \in Lanes : QueueSound(Book, Place, l)
  BY <1>1 DEF Sound
<1>3. /\ Book \in Books /\ held \in Seq(Requests) /\ unblock \in Seq(Lanes)
      /\ lanes \in [Lanes -> LaneOf(Requests)] /\ fate \in [Requests -> Fates]
  BY <1>1, TypeHas
<1>4. ToSet(held) \subseteq Requests
  BY <1>3 DEF ToSet
<1>5. \A r \in ToSet(held) : r \in Requests /\ fate[r] = "held" /\ Begun(r)
  BY <1>2, <1>4, BookSame DEF OrdersSound, Begun
<1> QED
  BY <1>1, <1>2, <1>3, <1>5

\* What remains to be shown of a step, when no lane more is about to be unblocked.
LEMMA AwaitedThen ==
    ASSUME Whole, provider' = "alive" => provider = "alive",
           IsInjective(unblock'), ToSet(unblock') \subseteq ToSet(unblock),
           provider' = "alive" => \A l \in ToSet(unblock') : Stuck(Book, l) => Stuck(Book', l)
    PROVE  Awaited'
<1>1. Awaited
  BY WholeHas
<1> QED
  BY <1>1 DEF Awaited

\* A step that no lane and no order takes part in.
LEMMA CalmWhole ==
    ASSUME Whole, TypeOK', Ordered', UNCHANGED <<lanes, held, unblock>>,
           provider' = "alive" => provider = "alive",
           \A q \in Requests : Begun(q) => Place'[q] = Place[q]
    PROVE  Whole' /\ ContractStep
<1>1. \A l : /\ Serves(Book', l) = Serves(Book, l) /\ Waits(Book', l) = Waits(Book, l)
             /\ Stuck(Book', l) <=> Stuck(Book, l)
  BY BookSame DEF Serves, Waits, Stuck
<1>2. Awaited'
  <2>1. IsInjective(unblock)
    BY WholeHas DEF Awaited
  <2> QED
    BY <1>1, <2>1, AwaitedThen
<1>3. Lone(Book', Place')
  <2>1. \A q \in ToSet(held) : Place'[q] = Place[q]
    BY WholeHas
  <2> QED
    BY <2>1, WholeHas, BookSame DEF Lone
<1>4. Whole'
  BY <1>2, <1>3 DEF Whole
<1> QED
  BY <1>1, <1>4, AsStutter

LEMMA RequestWhole ==
    ASSUME Whole, TypeOK', Ordered', NEW r \in Requests, NEW i \in Offered[r], Request(i)
    PROVE  Whole' /\ ContractStep
<1>1. /\ made < MaxRequests /\ i \in Offered[made + 1]
      /\ ins' = [ins EXCEPT ![made + 1] = i] /\ fate' = [fate EXCEPT ![made + 1] = "input"]
      /\ UNCHANGED <<mode, provider, lanes, held, unblock>>
  BY DEF Request
<1>2. /\ made + 1 \in Requests /\ ins \in [Requests -> Instructions] /\ fate \in [Requests -> Fates]
  BY <1>1, TypeHas, NoNames, WholeHas DEF Requests
<1>3. fate[made + 1] = "unmade"
  <2>1. Referred /\ made \in Nat
    BY WholeHas, TypeHas, NoNames
  <2> QED
    BY <1>2, <2>1 DEF Referred
<1>4. ASSUME NEW q \in Requests, Begun(q) PROVE Place'[q] = Place[q]
  BY <1>1, <1>2, <1>3, <1>4 DEF Begun, Place, Lane, LaneFor
<1> QED
  BY <1>1, <1>4, CalmWhole

LEMMA QuietWhole ==
    ASSUME Whole, TypeOK', Ordered',
           \/ ServeNobody \/ NoticeDespawn \/ EndFlush \/ BeginFlush \/ UNCHANGED vars
           \/ \E S \in SUBSET DOMAIN held : Respond(S)
    PROVE  Whole' /\ ContractStep
<1>1. UNCHANGED <<requestVars, lanes, held, unblock>> /\ (provider' = "alive" => provider = "alive")
  BY DEF ServeNobody, NoticeDespawn, EndFlush, BeginFlush, Respond, vars, requestVars
<1> QED
  BY <1>1, PlaceSame, CalmWhole DEF requestVars

\* A step in which some lanes serve the next ones.
LEMMA MovesWhole ==
    ASSUME Whole, TypeOK', Ordered', UNCHANGED <<requestVars, provider>>,
           NEW D, Moves(Book, Book', D), Lone(Book', Place),
           IsInjective(unblock'), ToSet(unblock') \subseteq ToSet(unblock),
           provider = "alive" => \A l \in ToSet(unblock') : l \notin D
    PROVE  Whole' /\ ContractStep
<1>2. Place' = Place
  BY PlaceSame DEF requestVars
<1>3. ASSUME NEW l \in Lanes, l \notin D PROVE Stuck(Book, l) <=> Stuck(Book', l)
  <2>1. Alike(Book, Book', l)
    BY <1>3 DEF Moves
  <2> QED
    BY <2>1 DEF Alike, Stuck
<1>5. ToSet(unblock) \subseteq Lanes
  BY WholeHas DEF ToSet
<1>6. Awaited'
  <2>1. provider' = "alive" => \A l \in ToSet(unblock') : Stuck(Book, l) => Stuck(Book', l)
    BY <1>3, <1>5
  <2> QED
    BY <2>1, AwaitedThen
<1>7. Whole'
  BY <1>2, <1>6 DEF Whole
<1> QED
  BY <1>7, AsAdvance

LEMMA UnblockWhole ==
    ASSUME Whole, TypeOK', Ordered', UnblockNext
    PROVE  Whole' /\ ContractStep
<1> DEFINE l == Head(unblock)
<1>1. /\ unblock # <<>> /\ l \in Lanes /\ unblock' = Tail(unblock)
      /\ UNCHANGED <<requestVars, provider>>
      /\ Book' = IF provider = "alive" THEN ServeNext(Book, l) ELSE Book
  BY UnblockHas, WholeHas
<1>2. IsInjective(unblock) /\ unblock \in Seq(Lanes)
  BY WholeHas DEF Awaited
<1>3. /\ l \in ToSet(unblock) /\ l \notin ToSet(unblock') /\ IsInjective(unblock')
      /\ ToSet(unblock') \subseteq ToSet(unblock)
  BY <1>1, <1>2, TailSet
<1> HIDE DEF l
<1>4. CASE provider = "alive"
  <2>1. Stuck(Book, l) /\ Lone(Book, Place)
    BY <1>3, <1>4, WholeHas DEF Awaited
  <2>2. \A q \in ToSet(Book.held) : Place[q] # l
    BY <1>1, <2>1, NoNames DEF Stuck, Serves, Lone
  <2>3. Book \in Books /\ Sound(Book, Place, Lanes \ {l}, ToSet(unblock), {})
    BY WholeHas DEF Sound
  <2>4. Lone(Book', Place) /\ Moves(Book, Book', {l})
    <3> DEFINE U == ToSet(unblock)
    <3> HIDE DEF U
    <3>1. Sound(Book, Place, Lanes \ {l}, U, {})
      BY <2>3 DEF U
    <3>2. Lone(ServeNext(Book, l), Place) /\ Moves(Book, ServeNext(Book, l), {l})
      BY <1>1, <2>1, <2>2, <2>3, <3>1, ServeNextServes
    <3> QED
      BY <1>1, <1>4, <3>2
  <2> QED
    BY <1>1, <1>3, <2>4, MovesWhole
<1>5. CASE provider # "alive"
  <2>1. Book' = Book
    BY <1>1, <1>5
  <2>2. Lone(Book', Place) /\ Moves(Book, Book', {})
    BY <2>1, WholeHas DEF Moves, Alike
  <2> QED
    BY <1>1, <1>3, <1>5, <2>2, MovesWhole
<1> QED
  BY <1>4, <1>5

LEMMA ApplyWhole ==
    ASSUME Whole, TypeOK', Ordered', ApplyResponses
    PROVE  Whole' /\ ContractStep
<1> DEFINE S == DOMAIN responses
           D == {Place[held[j]] : j \in S} \ {None}
           U == ToSet(unblock)
<1>1. /\ UNCHANGED <<requestVars, provider, unblock>>
      /\ Book' = IF provider = "alive" THEN RetireAll(Given, S) ELSE Given
  BY ApplyHas, WholeHas
<1>2. /\ Given \in Books /\ Given.lanes = lanes /\ Given.held = held
      /\ \A r \in Requests : Given.fate[r] \in {"unmade", "input"} => Given.fate[r] = fate[r]
  BY GivenIs, WholeHas
<1>3. TypeOK /\ Ordered /\ Lone(Book, Place) /\ IsInjective(unblock) /\ held \in Seq(Requests)
  BY WholeHas DEF Awaited
<1>4. Lone(Given, Place) /\ Moves(Book, Given, {})
  BY <1>2, <1>3, BookSame DEF Lone, Moves, Alike, Serves
<1>5. CASE provider = "alive"
  <2>1. Sound(Given, Place, Lanes, U, {Given.held[i] : i \in S}) /\ S \in SUBSET (1..Len(Given.held))
    BY <1>3, <1>5, GivenSound
  <2>2. S \subseteq 1..Len(held)
    BY <1>2, <2>1
  <2>3. D = {Place[Given.held[j]] : j \in S} \ {None}
    BY <1>2
  <2> HIDE DEF S, U, D
  <2>4. Lone(RetireAll(Given, S), Place)
        /\ Moves(Given, RetireAll(Given, S), {Place[Given.held[j]] : j \in S} \ {None})
    BY <1>2, <1>3, <1>4, <2>1, RetireAllServes
  <2>5. Lone(Book', Place) /\ Moves(Given, Book', D)
    BY <1>1, <1>5, <2>3, <2>4
  <2>6. Moves(Book, Book', D)
    <3>1. {} \cap D = {} /\ {} \cup D = D
      OBVIOUS
    <3>2. Moves(Book, Book', {} \cup D)
      BY <1>4, <2>5, <3>1, MovesTwice
    <3> QED
      BY <3>1, <3>2
  <2>7. ASSUME NEW l \in ToSet(unblock), l \in D PROVE FALSE
    <3>1. PICK j \in S : l = Place[held[j]] /\ l # None
      BY <2>7 DEF D
    <3>2. held[j] \in ToSet(held)
      BY <1>3, <2>2 DEF ToSet
    <3>3. lanes[l].delivering = held[j]
      BY <1>3, <3>1, <3>2, BookSame DEF Lone
    <3>4. Stuck(Book, l)
      BY <1>5, WholeHas DEF Awaited
    <3> QED
      BY <3>2, <3>3, <3>4, BookSame DEF Stuck, Serves
  <2> QED
    BY <1>1, <1>3, <2>5, <2>6, <2>7, MovesWhole
<1>6. CASE provider # "alive"
  <2>1. Book' = Given
    BY <1>1, <1>6
  <2> QED
    BY <1>1, <1>3, <1>4, <1>6, <2>1, MovesWhole
<1> QED
  BY <1>5, <1>6

LEMMA DespawnWhole ==
    ASSUME Whole, TypeOK', Ordered', Despawn
    PROVE  Whole' /\ ContractStep
<1> DEFINE gone == {r \in Requests : \E l \in Lanes : r \in ToSet(Waits(Book, l)) \/ r = Serves(Book, l)}
<1>1. /\ UNCHANGED <<requestVars, unblock>> /\ provider' = "despawned"
      /\ lanes' = [l \in Lanes |-> EmptyLane] /\ held' = <<>>
  BY DEF Despawn
<1>2. Place' = Place
  BY <1>1, PlaceSame DEF requestVars
<1>3. \A l \in Lanes : Serves(Book', l) = None /\ Waits(Book', l) = <<>> /\ ~Stuck(Book', l)
  BY <1>1, BookSame DEF Serves, Waits, Stuck, EmptyLane
<1>4. Whole'
  <2>1. Awaited'
    <3>1. IsInjective(unblock)
      BY WholeHas DEF Awaited
    <3> QED
      BY <1>1, <3>1, AwaitedThen
  <2>2. Lone(Book', Place')
    BY <1>1, Empty, BookSame DEF Lone
  <2> QED
    BY <2>1, <2>2 DEF Whole
<1>5. ASSUME NEW l \in Lanes
      PROVE  /\ Serves(Book', l) = (IF Serves(Book, l) \in gone THEN None ELSE Serves(Book, l))
             /\ Waits(Book', l) = Without(Waits(Book, l), gone)
  <2>1. Waits(Book, l) \in Seq(Requests) /\ ToSet(held) \subseteq Requests
    BY WholeHas, BookParts DEF Waits, ToSet
  <2>2. ToSet(Waits(Book, l)) \subseteq gone
    BY <2>1 DEF ToSet
  <2>3. Serves(Book, l) = None \/ Serves(Book, l) \in gone
    BY <2>1, BookSame DEF Serves
  <2> HIDE DEF gone
  <2>4. Without(Waits(Book, l), gone) = <<>>
    BY <2>1, <2>2, WithoutAll
  <2> QED
    BY <1>3, <2>3, <2>4
<1>6. \A r \in gone : \E l \in Lanes :
         r \in ToSet(Waits(Book, l)) \/ (r = Serves(Book, l) /\ r # None)
  BY NoNames
<1> HIDE DEF gone
<1> QED
  BY <1>4, <1>5, <1>6, AsLeave

LEMMA CleanWhole ==
    ASSUME Whole, TypeOK', Ordered', NEW N, NEW s, Clean(N, s)
    PROVE  Whole' /\ ContractStep
<1> DEFINE struck == Struck(s)
           dropped == Dropped(s)
           out == struck \cup dropped
           gone == {r \in out : \E l \in Lanes : r \in ToSet(Waits(Book, l)) \/ r = Serves(Book, l)}
<1>1. /\ UNCHANGED <<requestVars, provider, unblock>>
      /\ \A l \in Lanes : lanes'[l] = Strike(lanes[l], struck)
      /\ held' = Without(held, dropped)
  BY WholeHas, CleanHas
<1>2. /\ \A r \in struck : r \in Requests /\ fate[r] = "queued"
      /\ \A r \in dropped : r \in Requests /\ fate[r] = "held"
  <2>1. 1..made \subseteq Requests
    BY TypeHas, WholeHas, NoNames DEF Requests
  <2> QED
    BY <2>1 DEF Struck, Dropped
<1>3. Place' = Place
  BY <1>1, PlaceSame DEF requestVars
<1> HIDE DEF struck, dropped
<1>4. ToSet(held') = ToSet(held) \ dropped
  BY <1>1, WholeHas, WithoutSet
<1>5. ASSUME NEW l \in Lanes
      PROVE  /\ lanes[l].delivering = lanes'[l].delivering /\ lanes[l] \in LaneOf(Requests)
             /\ lanes'[l].queue = Without(lanes[l].queue, struck)
             /\ lanes[l].delivering # None => Place[lanes[l].delivering] = l
             /\ \A q \in ToSet(lanes[l].queue) : fate[q] = "queued"
  <2>1. lanes[l] \in LaneOf(Requests) /\ lanes'[l] = Strike(lanes[l], struck)
    BY <1>1, WholeHas
  <2>2. lanes[l].delivering = lanes'[l].delivering
    BY <2>1, StrikeLane
  <2>3. lanes'[l].queue = Without(lanes[l].queue, struck)
    BY <2>1, StrikeLane
  <2>4. /\ lanes[l].delivering # None => Place[lanes[l].delivering] = l
        /\ \A q \in ToSet(lanes[l].queue) : fate[q] = "queued"
    BY WholeHas, WaitingNotHeld, BookSame
  <2> QED
    BY <2>1, <2>2, <2>3, <2>4
<1>6. Whole'
  <2>1. Lone(Book', Place')
    <3>1. \A q \in ToSet(held) : q \in Requests /\ (Place[q] # None => lanes[Place[q]].delivering = q)
      BY WholeHas, BookSame DEF Lone
    <3>2. \A q \in Requests : Place[q] \in Lanes \cup {None}
      BY WholeHas, LaneIn DEF Place
    <3> QED
      BY <1>3, <1>4, <1>5, <3>1, <3>2, BookSame DEF Lone
  <2>2. ASSUME NEW l \in Lanes, Stuck(Book, l) PROVE Stuck(Book', l)
    BY <1>4, <1>5, <2>2, NoNames, BookSame DEF Stuck, Serves
  <2>4. ToSet(unblock) \subseteq Lanes /\ IsInjective(unblock)
    BY WholeHas DEF Awaited, ToSet
  <2>5. Awaited'
    BY <1>1, <2>2, <2>4, AwaitedThen
  <2> QED
    BY <2>1, <2>5 DEF Whole
<1>7. ASSUME NEW l \in Lanes
      PROVE  /\ Serves(Book', l) = (IF Serves(Book, l) \in gone THEN None ELSE Serves(Book, l))
             /\ Waits(Book', l) = Without(Waits(Book, l), gone)
  <2>1. ToSet(lanes[l].queue) \cap struck = ToSet(lanes[l].queue) \cap gone
    BY <1>2, <1>5, BookSame DEF Waits
  <2>2. Serves(Book, l) \in gone <=> Serves(Book, l) \in dropped
    <3>1. \A q \in ToSet(held) : fate[q] = "held"
      BY WholeHas
    <3>2. None \notin out
      BY <1>2, NoNames
    <3>3. Serves(Book, l) \in ToSet(held) \/ Serves(Book, l) = None
      BY BookSame DEF Serves
    <3> QED
      BY <1>2, <3>1, <3>2, <3>3
  <2> HIDE DEF gone
  <2>3. Waits(Book', l) = Without(Waits(Book, l), gone)
    <3>1. lanes[l].queue \in Seq(Requests)
      BY <1>5 DEF LaneOf
    <3>2. Without(lanes[l].queue, struck) = Without(lanes[l].queue, gone)
      BY <2>1, <3>1, WithoutSame
    <3> QED
      BY <1>5, <3>2, BookSame DEF Waits
  <2>4. None \notin dropped
    BY <1>2, NoNames
  <2> QED
    BY <1>4, <1>5, <2>2, <2>3, <2>4, BookSame DEF Serves
<1>8. \A r \in gone : \E l \in Lanes :
         r \in ToSet(Waits(Book, l)) \/ (r = Serves(Book, l) /\ r # None)
  BY <1>2, NoNames
<1> HIDE DEF gone
<1> QED
  BY <1>6, <1>7, <1>8, AsLeave

\* What Serve does to the lane of r, when it is taken: r joins its queue.
LEMMA InsertedHas ==
    ASSUME Whole, NEW r \in Requests, fate[r] = "input", Lane(r) # None,
           lanes[Lane(r)].delivering # None
    PROVE  LET l == Lane(r)
               at == lanes[l].delivering
               gone == Supplanted(ins, lanes[l], r)
               b == Inserted(r)
           IN  /\ l \in Lanes /\ Place[r] = l /\ at \in Requests /\ Place[at] = l /\ Begun(at)
               /\ r # at /\ r \notin ToSet(Waits(Book, l))
               /\ b \in Books /\ b.held = held
               /\ b.lanes[l].queue = Append(Without(Waits(Book, l), gone), r)
               /\ \A m \in Lanes : b.lanes[m].delivering = lanes[m].delivering
               /\ \A m \in Lanes \ {l} : b.lanes[m] = lanes[m]
               /\ \A q \in Requests : Begun(q) => b.fate[q] \notin {"unmade", "input"}
               /\ Sound(b, Place, Lanes, ToSet(unblock), {})
<1> DEFINE l == Lane(r)
           at == lanes[l].delivering
           gone == Supplanted(ins, lanes[l], r)
           b == Inserted(r)
<1>1. /\ TypeOK /\ Sound(Book, Place, Lanes, ToSet(unblock), {})
      /\ lanes \in [Lanes -> LaneOf(Requests)] /\ Book \in Books
  BY WholeHas
<1>2. /\ l \in Lanes /\ b \in Books /\ b.held = held
      /\ b.lanes = [lanes EXCEPT ![l] = Insert(ins, @, r)]
      /\ \A q \in Requests : b.fate[q] = IF q = r THEN "queued"
                               ELSE IF q \in gone \ {at} THEN "disposed" ELSE fate[q]
  BY <1>1, InsertedIs
<1>3. Sound(b, Place, Lanes, ToSet(unblock), {})
  <2> DEFINE U == ToSet(unblock)
  <2> HIDE DEF U
  <2>1. Sound(Book, Place, Lanes, U, {})
    BY <1>1 DEF U
  <2>2. Sound(b, Place, Lanes, U, {})
    BY <1>1, <2>1, InsertedSound
  <2> QED
    BY <2>2 DEF U
<1>4. lanes[l] \in LaneOf(Requests) /\ at \in Requests /\ Place[r] = l
  BY <1>1, <1>2 DEF LaneOf, Place
<1>5. /\ Insert(ins, lanes[l], r).delivering = at
      /\ Insert(ins, lanes[l], r).queue = Append(Without(lanes[l].queue, gone), r)
  BY <1>4, InsertLane
<1>6. LaneSound(Book, Place, l, ToSet(unblock), {})
  BY <1>2, WholeHas
<1>7. /\ fate[at] \in {"held"} \cup Over /\ Place[at] = l
  BY <1>4, <1>6, NoNames, BookSame DEF LaneSound
<1>8. Begun(at) /\ r # at
  BY <1>7 DEF Begun, Over
<1>9. r \notin ToSet(lanes[l].queue)
  <2>1. QueueSound(Book, Place, l)
    BY <1>2, WholeHas
  <2> QED
    BY <2>1, BookSame DEF QueueSound
<1>10. \A m \in Lanes : b.lanes[m].delivering = lanes[m].delivering
  BY <1>1, <1>2, <1>5
<1>11. b.lanes[l].queue = Append(Without(lanes[l].queue, gone), r)
       /\ \A m \in Lanes \ {l} : b.lanes[m] = lanes[m]
  BY <1>1, <1>2, <1>5
<1>12. \A q \in Requests : Begun(q) => b.fate[q] \notin {"unmade", "input"}
  BY <1>2 DEF Begun
<1> HIDE DEF l, at, gone, b
<1> QED
  BY <1>2, <1>3, <1>4, <1>7, <1>8, <1>9, <1>10, <1>11, <1>12, BookSame DEF Waits, l, at, gone, b

\* r waits, and whoever is being served goes on.
LEMMA JoinWhole ==
    ASSUME Whole, TypeOK', Ordered', UNCHANGED <<requestVars, provider>>,
           NEW r \in Requests, fate[r] = "input", Lane(r) # None,
           lanes[Lane(r)].delivering # None, Book' = Inserted(r),
           \/ UNCHANGED unblock
           \/ /\ Stuck(Book, Lane(r)) /\ Lane(r) \notin ToSet(unblock)
              /\ unblock' = Append(unblock, Lane(r))
    PROVE  Whole' /\ ContractStep
<1> DEFINE l == Lane(r)
           gone == Supplanted(ins, lanes[l], r)
           queue == Append(Without(Waits(Book, l), gone), r)
<1>1. /\ l \in Lanes /\ Place[r] = l
      /\ r # lanes[l].delivering /\ r \notin ToSet(Waits(Book, l))
      /\ held' = held /\ lanes'[l].queue = queue
      /\ \A m \in Lanes : lanes'[m].delivering = lanes[m].delivering
      /\ \A m \in Lanes \ {l} : lanes'[m] = lanes[m]
  BY InsertedHas, BookSame
<1>3. Place' = Place
  BY PlaceSame DEF requestVars
<1> HIDE DEF l, gone, queue
<1>4. \A m \in Lanes : /\ Serves(Book', m) = Serves(Book, m)
                       /\ Stuck(Book', m) <=> Stuck(Book, m)
                       /\ m # l => Waits(Book', m) = Waits(Book, m)
  BY <1>1, BookSame DEF Serves, Stuck, Waits
<1>5. /\ ToSet(unblock) \subseteq Lanes /\ IsInjective(unblock) /\ unblock \in Seq(Lanes)
      /\ Awaited
  BY WholeHas DEF Awaited, ToSet
<1>6. Awaited'
  <2>1. CASE UNCHANGED unblock
    BY <1>4, <1>5, <2>1, AwaitedThen
  <2>2. CASE Stuck(Book, l) /\ l \notin ToSet(unblock) /\ unblock' = Append(unblock, l)
    <3>1. ToSet(unblock') = ToSet(unblock) \cup {l} /\ IsInjective(unblock')
      BY <1>1, <1>5, <2>2, AppendSet
    <3>2. provider' = "alive" => \A m \in ToSet(unblock') : Stuck(Book', m)
      BY <1>1, <1>4, <1>5, <2>2, <3>1 DEF Awaited
    <3> QED
      BY <3>1, <3>2 DEF Awaited
  <2> QED
    BY <2>1, <2>2 DEF l
<1>7. Lone(Book', Place')
  <2>1. /\ \A q \in ToSet(held) : q \in Requests /\ (Place[q] # None => lanes[Place[q]].delivering = q)
        /\ \A q \in Requests : Place[q] \in Lanes \cup {None}
    BY WholeHas, LaneIn, BookSame DEF Lone, Place
  <2> QED
    BY <1>1, <1>3, <2>1, BookSame DEF Lone
<1>8. Whole'
  BY <1>6, <1>7 DEF Whole
<1>9. r # Serves(Book, l)
  BY <1>1, NoNames, BookSame DEF Serves
<1>10. Waits(Book', l) = queue /\ Serves(Book', l) = Serves(Book, l)
  BY <1>1, <1>4, BookSame DEF Waits
<1>11. queue = Append(Without(Waits(Book, l), gone), r)
  BY DEF queue
<1> QED
  BY <1>1, <1>4, <1>8, <1>9, <1>10, <1>11, AsJoinOrReplace

\* r waits, and whoever is being served is stopped at once.
LEMMA ReplaceWhole ==
    ASSUME Whole, TypeOK', Ordered', UNCHANGED <<requestVars, provider, unblock>>,
           NEW r \in Requests, fate[r] = "input", Lane(r) # None,
           NEW at \in ToSet(held), lanes[Lane(r)].delivering = at, at # None,
           Book' = ServeNext(Stopped(Inserted(r), at), Lane(r))
    PROVE  Whole' /\ ContractStep
<1> DEFINE l == Lane(r)
           gone == Supplanted(ins, lanes[l], r)
           queue == Append(Without(Waits(Book, l), gone), r)
           b == Inserted(r)
           c == Stopped(b, at)
           U == ToSet(unblock)
<1>1. /\ l \in Lanes /\ Place[r] = l /\ at \in Requests /\ Place[at] = l
      /\ r # at /\ r \notin ToSet(Waits(Book, l))
      /\ b \in Books /\ b.held = held /\ b.lanes[l].queue = queue
      /\ \A m \in Lanes : b.lanes[m].delivering = lanes[m].delivering
      /\ \A m \in Lanes \ {l} : b.lanes[m] = lanes[m]
      /\ \A q \in Requests : Begun(q) => b.fate[q] \notin {"unmade", "input"}
      /\ Sound(b, Place, Lanes, U, {})
  BY InsertedHas
<1>2. /\ c \in Books /\ c.lanes = b.lanes /\ c.held = Without(held, {at})
      /\ \A q \in Requests : c.fate[q] = IF q = at THEN "disposed" ELSE b.fate[q]
  BY <1>1, StoppedIs
<1>3. ToSet(c.held) = ToSet(held) \ {at}
  BY <1>2, WholeHas, WithoutSet
<1> HIDE DEF l, gone, queue, b, U
<1>4. Sound(c, Place, Lanes \ {l}, U, {})
  BY <1>1, StoppedSound DEF l
<1> HIDE DEF c
<1>5. /\ \A q \in ToSet(held) : q \in Requests /\ (Place[q] # None => lanes[Place[q]].delivering = q)
      /\ \A q \in Requests : Place[q] \in Lanes \cup {None}
      /\ \A m \in Lanes : lanes[m].delivering # None => Place[lanes[m].delivering] = m
  <2>1. /\ \A q \in ToSet(held) : q \in Requests /\ (Place[q] # None => lanes[Place[q]].delivering = q)
        /\ \A q \in Requests : Place[q] \in Lanes \cup {None}
    BY WholeHas, LaneIn, BookSame DEF Lone, Place
  <2>2. ASSUME NEW m \in Lanes
        PROVE  lanes[m].delivering # None => Place[lanes[m].delivering] = m
    BY WholeHas, WaitingNotHeld, BookSame
  <2> QED
    BY <2>1, <2>2
<1>6. Lone(c, Place)
  BY <1>1, <1>2, <1>3, <1>5 DEF Lone
<1>7. \A q \in ToSet(c.held) : Place[q] # l
  BY <1>1, <1>3, <1>5, NoNames DEF l
<1>8. Lone(Book', Place) /\ Moves(c, Book', {l})
  <2>1. Lone(ServeNext(c, l), Place) /\ Moves(c, ServeNext(c, l), {l})
    BY <1>1, <1>2, <1>4, <1>6, <1>7, ServeNextServes
  <2> QED
    BY <2>1 DEF l, c, b
<1>9. /\ Serves(Book', l) = Head(queue) /\ Waits(Book', l) = Tail(queue) /\ ~Stuck(Book', l)
  <2>1. NextServed(c, Book', l) /\ Waits(c, l) = queue
    BY <1>1, <1>2, <1>8 DEF Moves, Waits
  <2>2. queue # <<>>
    <3>1. Waits(Book, l) \in Seq(Requests)
      BY <1>1, WholeHas, BookParts DEF Waits
    <3>2. Without(Waits(Book, l), gone) \in Seq(Requests)
      BY <3>1, WithoutSet
    <3> QED
      BY <3>2, AppendSet DEF queue
  <2> QED
    BY <2>1, <2>2 DEF NextServed
<1>10. ASSUME NEW m \in Lanes \ {l}
       PROVE  /\ Serves(Book', m) = Serves(Book, m) /\ Waits(Book', m) = Waits(Book, m)
              /\ Stuck(Book', m) <=> Stuck(Book, m)
  <2>1. Alike(c, Book', m)
    BY <1>8 DEF Moves
  <2>2. lanes[m].delivering # at
    BY <1>1, <1>5
  <2>3. c.lanes[m] = lanes[m] /\ Serves(c, m) = Serves(Book, m)
    BY <1>1, <1>2, <1>3, <2>2, BookSame DEF Serves
  <2> QED
    BY <2>1, <2>3, BookSame DEF Alike, Waits, Stuck
<1>12. Place' = Place
  BY PlaceSame DEF requestVars
<1>13. Serves(Book, l) = at
  BY BookSame DEF Serves, l
<1>14. Whole'
  <2>1. ToSet(unblock) \subseteq Lanes /\ IsInjective(unblock)
    BY WholeHas DEF Awaited, ToSet
  <2>2. ~Stuck(Book, l)
    BY <1>1, <1>13, NoNames DEF Stuck
  <2>3. \A m \in ToSet(unblock) : Stuck(Book, m) => Stuck(Book', m)
    BY <1>10, <2>1, <2>2
  <2>5. Awaited'
    BY <2>1, <2>3, AwaitedThen
  <2> QED
    BY <1>8, <1>12, <2>5 DEF Whole
<1>15. queue = Append(Without(Waits(Book, l), gone), r)
  BY DEF queue
<1> QED
  BY <1>1, <1>9, <1>10, <1>13, <1>14, <1>15, NoNames, AsJoinOrReplace

\* r is held at once, by its lane if it needs one.
LEMMA BeginWhole ==
    ASSUME Whole, TypeOK', Ordered', UNCHANGED <<requestVars, provider, unblock>>,
           NEW r \in Requests, fate[r] = "input",
           \/ Lane(r) = None /\ Book' = Hold(Book, r)
           \/ Lane(r) # None /\ lanes[Lane(r)].delivering = None /\ Book' = Hold(Inserted(r), r)
    PROVE  Whole' /\ ContractStep
<1> DEFINE l == Lane(r)
<1>1. TypeOK /\ Book \in Books /\ held \in Seq(Requests) /\ lanes \in [Lanes -> LaneOf(Requests)]
  BY WholeHas
<1>2. /\ l \in Lanes \cup {None} /\ Place[r] = l /\ None \notin Lanes /\ r # None
      /\ \A q \in Requests : Place[q] \in Lanes \cup {None}
  BY <1>1, LaneIn, NoNames DEF Place
<1>3. /\ l # None => lanes[l].delivering = None /\ lanes[l].queue = <<>>
                     /\ lanes'[l].delivering = r
      /\ \A m \in Lanes : lanes'[m].queue = lanes[m].queue
      /\ \A m \in Lanes \ {l} : lanes'[m].delivering = lanes[m].delivering
      /\ held' = Append(held, r)
      /\ \A q \in Requests : Begun(q) => Begun(q)'
  <2>1. CASE l = None
    <3>1. Hold(Book, r).lanes = lanes /\ Hold(Book, r).held = Append(held, r)
          /\ \A q \in Requests : Hold(Book, r).fate[q] = IF q = r THEN "held" ELSE fate[q]
      BY <1>1, HoldIs, BookSame
    <3>2. Book' = Hold(Book, r)
      BY <2>1
    <3> QED
      BY <2>1, <3>1, <3>2, BookSame DEF Begun
  <2>2. CASE l # None
    <3> DEFINE gone == Supplanted(ins, lanes[l], r)
               next == Insert(ins, lanes[l], r)
               b == Inserted(r)
    <3>1. Book' = Hold(b, r) /\ lanes[l].delivering = None
      BY <2>2
    <3>2. /\ l \in Lanes /\ b \in Books /\ b.held = held
          /\ b.lanes = [lanes EXCEPT ![l] = next]
          /\ \A q \in Requests : b.fate[q] = IF q = r THEN "queued"
                   ELSE IF q \in gone \ {lanes[l].delivering} THEN "disposed" ELSE fate[q]
      BY <1>1, <2>2, InsertedIs
    <3>3. lanes[l].queue = <<>>
      <4>1. LaneSound(Book, Place, l, ToSet(unblock), {})
        BY <3>2, WholeHas
      <4> QED
        BY <3>1, <4>1, BookSame DEF LaneSound
    <3>4. next.delivering = r /\ next.queue = lanes[l].queue
      BY <1>1, <3>1, <3>2, <3>3 DEF Insert, LaneOf
    <3> HIDE DEF gone, next, b
    <3>5. Hold(b, r).lanes = b.lanes /\ Hold(b, r).held = Append(held, r)
          /\ \A q \in Requests : Hold(b, r).fate[q] = IF q = r THEN "held" ELSE b.fate[q]
      BY <3>2, HoldIs
    <3>6. \A m \in Lanes : b.lanes[m] = IF m = l THEN next ELSE lanes[m]
      BY <1>1, <3>2
    <3>7. \A q \in Requests : Begun(q) => Begun(q)'
      BY <3>1, <3>2, <3>5, BookSame DEF Begun
    <3> HIDE DEF l
    <3>8. lanes' = b.lanes /\ held' = Append(held, r)
      BY <3>1, <3>5, BookSame
    <3>9. \A m \in Lanes : /\ lanes'[m].queue = lanes[m].queue
                           /\ m # l => lanes'[m].delivering = lanes[m].delivering
      BY <3>4, <3>6, <3>8
    <3>10. lanes'[l].delivering = r
      BY <3>2, <3>4, <3>6, <3>8
    <3> QED
      BY <3>1, <3>3, <3>7, <3>8, <3>9, <3>10
  <2> QED
    BY <2>1, <2>2
<1> HIDE DEF l
<1>4. ToSet(held') = ToSet(held) \cup {r}
  BY <1>1, <1>3, AppendSet
<1>5. Place' = Place
  BY PlaceSame DEF requestVars
<1>6. ASSUME NEW m \in Lanes \ {l}
      PROVE  /\ Serves(Book', m) = Serves(Book, m) /\ Waits(Book', m) = Waits(Book, m)
             /\ Stuck(Book', m) <=> Stuck(Book, m)
  <2>1. LaneSound(Book, Place, m, ToSet(unblock), {})
    BY WholeHas
  <2>2. lanes[m].delivering # r
    BY <1>2, <2>1, BookSame DEF LaneSound, Over
  <2> QED
    BY <1>3, <1>4, <2>2, BookSame DEF Serves, Waits, Stuck
<1>7. l # None => /\ Serves(Book', l) = r /\ ~Stuck(Book', l) /\ Waits(Book', l) = Waits(Book, l)
                  /\ Serves(Book, l) = None /\ ~Stuck(Book, l) /\ Waits(Book, l) = <<>>
  BY <1>2, <1>3, <1>4, BookSame DEF Serves, Stuck, Waits
<1>8. Lone(Book', Place')
  <2>1. \A q \in ToSet(held) : q \in Requests /\ (Place[q] # None => lanes[Place[q]].delivering = q)
    BY WholeHas, BookSame DEF Lone
  <2>2. ASSUME NEW q \in ToSet(held), Place[q] # None PROVE lanes'[Place[q]].delivering = q
    BY <1>2, <1>3, <2>1, <2>2, NoNames
  <2> QED
    BY <1>2, <1>3, <1>4, <1>5, <2>2, BookSame DEF Lone
<1>9. Whole'
  <2>1. ToSet(unblock) \subseteq Lanes /\ IsInjective(unblock)
    BY WholeHas DEF Awaited, ToSet
  <2>2. \A m \in ToSet(unblock) : Stuck(Book, m) => Stuck(Book', m)
    BY <1>2, <1>6, <1>7, <2>1
  <2>4. Awaited'
    BY <2>1, <2>2, AwaitedThen
  <2> QED
    BY <1>8, <2>4 DEF Whole
<1>10. CASE l = None
  BY <1>2, <1>6, <1>9, <1>10, AsStutter
<1>11. CASE l # None
  BY <1>2, <1>6, <1>7, <1>9, <1>11, AsEnter
<1> QED
  BY <1>10, <1>11

LEMMA ServeWhole ==
    ASSUME Whole, TypeOK', Ordered', NEW r \in Requests, Serve(r), ~UnblocksAgain(r)
    PROVE  Whole' /\ ContractStep
<1> DEFINE l == Lane(r)
           at == lanes[l].delivering
           gone == Supplanted(ins, lanes[l], r)
<1>1. /\ fate[r] = "input" /\ UNCHANGED <<requestVars, provider>>
      /\ l = None => Book' = Hold(Book, r) /\ UNCHANGED unblock
      /\ l # None =>
            /\ at = None => Book' = Hold(Inserted(r), r) /\ UNCHANGED unblock
            /\ at # None /\ at \in gone /\ at \in ToSet(held) =>
                  Book' = ServeNext(Stopped(Inserted(r), at), l) /\ UNCHANGED unblock
            /\ at # None /\ at \in gone /\ at \notin ToSet(held) =>
                  Book' = Inserted(r) /\ unblock' = Append(unblock, l)
            /\ at # None /\ at \notin gone => Book' = Inserted(r) /\ UNCHANGED unblock
  BY WholeHas, ServeHas
<1>3. CASE l = None \/ at = None
  BY <1>1, <1>3, BeginWhole
<1>4. CASE l # None /\ at # None /\ at \in gone /\ at \in ToSet(held)
  <2> HIDE DEF gone
  <2> QED
    BY <1>1, <1>4, ReplaceWhole
<1>5. CASE l # None /\ at # None /\ at \in gone /\ at \notin ToSet(held)
  <2>1. l \in Lanes /\ Stuck(Book, l)
    BY <1>5, WholeHas, LaneIn, BookSame DEF Stuck, Serves
  <2>2. l \notin ToSet(unblock)
    BY <1>5, <2>1 DEF UnblocksAgain
  <2> QED
    BY <1>1, <1>5, <2>1, <2>2, JoinWhole
<1>6. CASE l # None /\ at # None /\ at \notin gone
  BY <1>1, <1>6, JoinWhole
<1> QED
  BY <1>3, <1>4, <1>5, <1>6

LEMMA InitWhole == Init => Whole /\ Contract!Init
<1> SUFFICES ASSUME Init PROVE Whole /\ Contract!Init
  OBVIOUS
<1>1. held = <<>> /\ unblock = <<>> /\ lanes = [l \in Lanes |-> EmptyLane]
  BY DEF Init
<1>2. Lone(Book, Place)
  BY <1>1, Empty, BookSame DEF Lone
<1>3. \A l \in Lanes : Serves(Book, l) = None /\ Waits(Book, l) = <<>> /\ ~Stuck(Book, l)
  BY <1>1, BookSame DEF Serves, Waits, Stuck, EmptyLane
<1>4. Awaited
  BY <1>1, <1>3, Empty DEF Awaited
<1>5. Whole
  BY <1>2, <1>4, InitTyped, InitKept DEF Whole
<1>6. \A l \in Lanes : Serving(l) = None /\ lanes[l].queue = <<>>
  BY <1>3, <1>5, ServingIs, BookSame DEF Waits
<1> QED
  BY <1>5, <1>6 DEF Contract!Init

LEMMA StepWhole ==
    ASSUME MayFlushBetween = FALSE
    PROVE  /\ Whole /\ [Next]_vars
           /\ [\A r \in Requests : Serve(r) => ~UnblocksAgain(r)]_vars
           => Whole' /\ ContractStep
<1> SUFFICES ASSUME Whole, [Next]_vars,
                    [\A r \in Requests : Serve(r) => ~UnblocksAgain(r)]_vars
             PROVE  Whole' /\ ContractStep
  OBVIOUS
<1>1. TypeOK' /\ Ordered'
  BY WholeHas, StepTyped, StepKept
<1>2. ASSUME NEW r \in Requests, NEW i \in Offered[r], Request(i) PROVE Whole' /\ ContractStep
  BY <1>1, <1>2, RequestWhole
<1>3. ASSUME NEW r \in Requests, Serve(r), ~UnblocksAgain(r) PROVE Whole' /\ ContractStep
  BY <1>1, <1>3, ServeWhole
<1>4. CASE \/ ServeNobody \/ NoticeDespawn \/ EndFlush \/ BeginFlush \/ UNCHANGED vars
           \/ \E S \in SUBSET DOMAIN held : Respond(S)
  BY <1>1, <1>4, QuietWhole
<1>5. CASE UnblockNext
  BY <1>1, <1>5, UnblockWhole
<1>6. ASSUME NEW s \in Sessions, CleanScope(s) PROVE Whole' /\ ContractStep
  BY <1>1, <1>6, CleanWhole DEF CleanScope
<1>7. ASSUME NEW n \in Nodes, NEW s \in Sessions, Trim(n, s) PROVE Whole' /\ ContractStep
  BY <1>1, <1>7, CleanWhole DEF Trim
<1>8. CASE ApplyResponses
  BY <1>1, <1>8, ApplyWhole
<1>9. CASE Despawn
  BY <1>1, <1>9, DespawnWhole
<1> QED
  BY <1>2, <1>3, <1>4, <1>5, <1>6, <1>7, <1>8, <1>9 DEF Next

\* The orders of a lane are served one at a time and in the order of their arrival,
\* whatever preempts, is answered, is cleaned or is despawned: each step of the
\* service is one of LaneContract's, for any number of labels and of preempting
\* requests, until a lane is unblocked twice.  Only that breaks it: when an order that
\* holds a lane was cleaned, two requests that supplant it in one round of the flush
\* both unblock the lane, and two orders of it are held at once
\* (ContinuousServiceImpl::serve, continuous.rs:741-761).
THEOREM ContinuousServesInOrder ==
    ASSUME MayFlushBetween = FALSE
    PROVE  Spec /\ NoLaneUnblockedTwice => ServesInOrder
<1>1. Init => Whole /\ Contract!Init
  BY InitWhole
<1>2. /\ Whole /\ [Next]_vars
      /\ [\A r \in Requests : Serve(r) => ~UnblocksAgain(r)]_vars
      => Whole' /\ [Contract!Next]_(Contract!vars)
  BY StepWhole DEF ContractStep
<1> QED
  BY <1>1, <1>2, PTL DEF Spec, NoLaneUnblockedTwice, ServesInOrder, Contract!Spec

\* Of the orders that need one lane, the service holds one at a time: the next is
\* put into its queue when the one before it has left it (try_retire_request and the
\* removal of a stopped order in serve, continuous.rs:682-696 and 741-761).
AtMostOneHeld == \A q, r \in ToSet(held) : Lane(q) # None /\ Lane(q) = Lane(r) => q = r

THEOREM LanesHoldOneOrder ==
    ASSUME MayFlushBetween = FALSE
    PROVE  Spec /\ NoLaneUnblockedTwice => []AtMostOneHeld
<1>1. Init => Whole
  BY InitWhole
<1>2. /\ Whole /\ [Next]_vars
      /\ [\A r \in Requests : Serve(r) => ~UnblocksAgain(r)]_vars
      => Whole'
  BY StepWhole
<1>3. Whole => AtMostOneHeld
  <2> SUFFICES ASSUME Whole, NEW q \in ToSet(held), NEW r \in ToSet(held),
                      Lane(q) # None, Lane(q) = Lane(r)
               PROVE  q = r
    BY DEF AtMostOneHeld
  <2>1. q \in Requests /\ r \in Requests /\ Lone(Book, Place)
    BY WholeHas
  <2>2. Place[q] = Lane(q) /\ Place[r] = Lane(r)
    BY <2>1 DEF Place
  <2> QED
    BY <2>1, <2>2, BookSame DEF Lone
<1> QED
  BY <1>1, <1>2, <1>3, PTL DEF Spec, NoLaneUnblockedTwice
=============================================================================
