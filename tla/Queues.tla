------------------------------- MODULE Queues -------------------------------
(***************************************************************************)
(* What Vec::retain and VecDeque::retain leave of a queue, as a recursive   *)
(* function: unlike SelectSeq it can be reasoned about (QueueLemmas.tla).   *)
(***************************************************************************)
EXTENDS Naturals, Sequences, SequencesExt

\* What is kept of the first i elements of q, for each i, when those in gone leave.
Kept(q, gone) ==
    LET kept[i \in 0..Len(q)] ==
          IF i = 0 THEN <<>>
          ELSE IF q[i] \in gone THEN kept[i - 1] ELSE Append(kept[i - 1], q[i])
    IN kept

Without(q, gone) == Kept(q, gone)[Len(q)]
=============================================================================
