------------------------------ MODULE MCBuffer ------------------------------
(* Small instances of Buffer: a join, a listener and an access node, and a
   queue long enough for a value to be neither the oldest nor the newest. *)
EXTENDS Buffer

Keep(policy, n) == [keep |-> policy, limit |-> n]
MCRetention ==
    {Keep(KeepAll, 0)} \cup {Keep(KeepFirst, n) : n \in 1..2}
                       \cup {Keep(KeepLast, n) : n \in 0..2}
\* The keys of the access node are for a second buffer as well.
MCKeyParts == [a \in Accessors |-> IF a \in Accesses THEN 2 ELSE 1]

MCSymmetry == Permutations(Values)
=============================================================================
