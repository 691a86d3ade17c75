------------------------------ MODULE MCService ------------------------------
(* Small instances of Service: three requests are enough for one to be served,
   one to wait, and one to preempt or to be next. *)
EXTENDS Service

\* The first two share a session, the first and the third share a node.
MCOrigin == <<[node |-> "n1", session |-> "s1"], [node |-> "n2", session |-> "s1"],
              [node |-> "n1", session |-> "s2"]>>

\* A request that preempts can be preempted itself, an ensured one cannot.
Labelled(l, p, e) == [label |-> l, preempt |-> p, ensure |-> e]
MCOffered ==
    {Labelled(None, FALSE, FALSE)}
    \cup {Labelled(l, TRUE, FALSE) : l \in Labels}
    \cup {Labelled(l, FALSE, TRUE) : l \in Labels}
=============================================================================
