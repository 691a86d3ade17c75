--------------------------- MODULE DeliveryLemmas ---------------------------
(***************************************************************************)
(* What the operations of a lane leave of it, for requests of any set X.    *)
(***************************************************************************)
EXTENDS Delivery, QueueLemmas

LaneOf(X) == [delivering : X \cup {None}, queue : Seq(X)]

LEMMA Empty == IsInjective(<<>>) /\ ToSet(<<>>) = {}
BY DEF IsInjective, ToSet

\* What insert_serial_order leaves of a lane that delivers something.
LEMMA InsertLane ==
    ASSUME NEW X, NEW lane \in LaneOf(X), NEW r \in X, NEW ins, lane.delivering # None
    PROVE  LET gone == Supplanted(ins, lane, r)
               next == Insert(ins, lane, r)
           IN  /\ next = [lane EXCEPT !.queue = Append(Without(lane.queue, gone), r)]
               /\ next \in LaneOf(X) /\ next.delivering = lane.delivering /\ next.queue # <<>>
               /\ next.queue = Append(Without(lane.queue, gone), r)
               /\ gone \subseteq ToSet(lane.queue) \cup {lane.delivering}
               /\ \A q : q \in ToSet(next.queue) <=> q = r \/ (q \in ToSet(lane.queue) /\ q \notin gone)
               /\ IsInjective(lane.queue) /\ r \notin ToSet(lane.queue) => IsInjective(next.queue)
<1> DEFINE gone == Supplanted(ins, lane, r)
           next == Insert(ins, lane, r)
           kept == Without(lane.queue, gone)
<1>1. gone \subseteq ToSet(lane.queue) \cup {lane.delivering}
  BY DEF Supplanted
<1>2. next = [lane EXCEPT !.queue = Append(kept, r)]
  BY DEF Insert
<1> HIDE DEF gone
<1>3. lane.queue \in Seq(X) /\ lane.delivering \in X
  BY DEF LaneOf
<1>4. /\ kept \in Seq(X) /\ ToSet(kept) = ToSet(lane.queue) \ gone
      /\ IsInjective(lane.queue) => IsInjective(kept)
  BY <1>3, WithoutSet
<1> HIDE DEF kept, next
<1>5. /\ Append(kept, r) \in Seq(X) /\ Append(kept, r) # <<>>
      /\ ToSet(Append(kept, r)) = ToSet(kept) \cup {r}
      /\ IsInjective(kept) /\ r \notin ToSet(kept) => IsInjective(Append(kept, r))
  BY <1>4, AppendSet
<1>6. next \in LaneOf(X) /\ next.delivering = lane.delivering /\ next.queue = Append(kept, r)
  BY <1>2, <1>3, <1>5 DEF LaneOf
<1> QED
  BY <1>1, <1>2, <1>4, <1>5, <1>6 DEF next, gone, kept

\* What pop_next_delivery_impl leaves of a lane.
LEMMA PopLane ==
    ASSUME NEW X, NEW lane \in LaneOf(X)
    PROVE  LET next == PopNext(lane)
           IN  /\ next \in LaneOf(X)
               /\ lane.queue = <<>> => next = EmptyLane
               /\ lane.queue # <<>> =>
                     /\ next.delivering = Head(lane.queue) /\ next.queue = Tail(lane.queue)
                     /\ next.delivering \in X
                     /\ ToSet(lane.queue) = {next.delivering} \cup ToSet(next.queue)
                     /\ IsInjective(lane.queue) =>
                           next.delivering \notin ToSet(next.queue) /\ IsInjective(next.queue)
<1>1. lane.queue \in Seq(X)
  BY DEF LaneOf
<1>2. CASE lane.queue = <<>>
  BY <1>2 DEF PopNext, EmptyLane, LaneOf
<1>3. CASE lane.queue # <<>>
  <2> DEFINE h == Head(lane.queue)
             t == Tail(lane.queue)
  <2>1. /\ h \in X /\ t \in Seq(X) /\ ToSet(lane.queue) = {h} \cup ToSet(t)
        /\ IsInjective(lane.queue) => h \notin ToSet(t) /\ IsInjective(t)
    BY <1>1, <1>3, TailSet
  <2>2. PopNext(lane) = [delivering |-> h, queue |-> t]
    BY <1>3 DEF PopNext
  <2> HIDE DEF h, t
  <2>3. PopNext(lane) \in LaneOf(X) /\ PopNext(lane).delivering = h /\ PopNext(lane).queue = t
    BY <2>1, <2>2 DEF LaneOf
  <2> QED
    BY <1>3, <2>1, <2>3 DEF h, t
<1> QED
  BY <1>2, <1>3

LEMMA StrikeLane ==
    ASSUME NEW X, NEW lane \in LaneOf(X), NEW gone
    PROVE  LET next == Strike(lane, gone)
           IN  /\ next \in LaneOf(X) /\ next.delivering = lane.delivering
               /\ next.queue = Without(lane.queue, gone)
               /\ ToSet(next.queue) = ToSet(lane.queue) \ gone
               /\ IsInjective(lane.queue) => IsInjective(next.queue)
<1> DEFINE kept == Without(lane.queue, gone)
<1>1. lane.queue \in Seq(X)
  BY DEF LaneOf
<1>2. /\ kept \in Seq(X) /\ ToSet(kept) = ToSet(lane.queue) \ gone
      /\ IsInjective(lane.queue) => IsInjective(kept)
  BY <1>1, WithoutSet
<1>3. Strike(lane, gone) = [lane EXCEPT !.queue = kept]
  BY DEF Strike
<1> HIDE DEF kept
<1>4. /\ Strike(lane, gone) \in LaneOf(X) /\ Strike(lane, gone).delivering = lane.delivering
      /\ Strike(lane, gone).queue = kept
  BY <1>2, <1>3 DEF LaneOf
<1> QED
  BY <1>2, <1>4 DEF kept
=============================================================================
