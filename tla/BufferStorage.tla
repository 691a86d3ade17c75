--------------------------- MODULE BufferStorage ---------------------------
(***************************************************************************)
(* The queue that a buffer keeps for one session                           *)
(* (buffer/buffer_storage.rs), as operators on a sequence.  Like the       *)
(* SmallVec of the code the sequence is reversed: its first element is the *)
(* newest value and its last one the oldest.                               *)
(*                                                                         *)
(* An operation that changes the queue returns the queue it leaves and the *)
(* values it gives back.                                                   *)
(***************************************************************************)
EXTENDS Naturals, Sequences, SequencesExt

KeepAll == "KeepAll"
KeepFirst == "KeepFirst"
KeepLast == "KeepLast"

\* RetentionPolicy: the limit of KeepAll is not looked at.
Policies(Limits) == [keep : {KeepAll, KeepFirst, KeepLast}, limit : Limits]

Outcome(q, back) == [queue |-> q, back |-> back]

\* A slip: one more than the limit.
FullLate(q, r) == r.keep # KeepAll /\ Len(q) > r.limit

Full(q, r) == r.keep # KeepAll /\ Len(q) >= r.limit

\* A slip: the queue is taken for one that begins with the oldest value.
WithoutHead(q) == Tail(q)

WithoutNewest(q) == Tail(q)
WithoutOldest(q) == Front(q)

\* Store v as the newest value.
ImplPush(q, r, v) ==
    CASE r.keep = KeepFirst /\ Full(q, r)       -> Outcome(q, <<v>>)
      [] r.keep = KeepLast /\ r.limit = 0       -> Outcome(q, <<v>>)
      [] r.keep = KeepLast /\ r.limit > 0 /\ Full(q, r) ->
            Outcome(<<v>> \o WithoutOldest(q), <<Last(q)>>)
      [] OTHER                                  -> Outcome(<<v>> \o q, <<>>)

\* Store v as the oldest value.  KeepFirst(0) has no limit here.
ImplPushAsOldest(q, r, v) ==
    CASE r.keep = KeepFirst /\ r.limit > 0 /\ Full(q, r) ->
            Outcome(Append(WithoutNewest(q), v), <<Head(q)>>)
      [] r.keep = KeepLast /\ Full(q, r)        -> Outcome(q, <<v>>)
      [] OTHER                                  -> Outcome(Append(q, v), <<>>)

Pull(q) ==
    IF q = <<>> THEN Outcome(q, <<>>) ELSE Outcome(WithoutOldest(q), <<Last(q)>>)

PullNewest(q) ==
    IF q = <<>> THEN Outcome(q, <<>>) ELSE Outcome(WithoutNewest(q), <<Head(q)>>)

\* Everything, oldest first.
Consume(q) == Outcome(<<>>, Reverse(q))

\* The positions from `from' to `to' of the reversed queue: drain() hands the
\* range of its caller to the SmallVec, so that it counts from the newest value.
Drain(q, from, to) ==
    Outcome(SubSeq(q, 1, from - 1) \o SubSeq(q, to + 1, Len(q)),
            Reverse(SubSeq(q, from, to)))

\* newest_mut and oldest_mut: overwrite in place.
SetNewest(q, v) == IF q = <<>> THEN q ELSE <<v>> \o WithoutNewest(q)
SetOldest(q, v) == IF q = <<>> THEN q ELSE Append(WithoutOldest(q), v)
=============================================================================
