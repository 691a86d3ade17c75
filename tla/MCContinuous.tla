---------------------------- MODULE MCContinuous ----------------------------
(* Small instances of Continuous.  Four requests: one that is held, one that
   waits, one that preempts, and one that needs another lane, or none, and is
   answered beside them.  Only the third preempts: two that do unblock a lane
   twice in one round when the order they supplant was cleaned. *)
EXTENDS Continuous

CONSTANTS l1, l2

MCOrigin == <<[node |-> "n1", session |-> "s1"], [node |-> "n2", session |-> "s1"],
              [node |-> "n1", session |-> "s2"], [node |-> "n2", session |-> "s2"]>>

Labelled(l, p, e) == [label |-> l, preempt |-> p, ensure |-> e]
Plain(L) == {Labelled(None, FALSE, FALSE)} \cup {Labelled(l, FALSE, FALSE) : l \in L}
MCOffered == <<{Labelled(l1, FALSE, FALSE)},
               Plain({l1}) \cup {Labelled(l1, FALSE, TRUE)},
               Plain({l1}) \cup {Labelled(l1, TRUE, FALSE)},
               Plain({l1, l2})>>
=============================================================================
