------------------------------- MODULE Spans -------------------------------
(***************************************************************************)
(* The walks over the operations of a workflow: is_downstream_of            *)
(* (operation.rs) and what a trim cleans (operate_trim.rs).                 *)
(***************************************************************************)
EXTENDS Graph

RECURSIVE Closure(_, _)
Closure(S, next) ==
    LET more == S \cup UNION {next[e] : e \in S}
    IN  IF more = S THEN S ELSE Closure(more, next)

\* immediately_downstream_of
After(w) == [e \in DOMAIN w.ops |-> Range(w.ops[e].out)]

\* is_downstream_of: strictly, and FALSE for an origin that is not in the workflow.
Below(w) == [e \in DOMAIN w.ops |-> Closure({e}, After(w)) \ {e}]

-----------------------------------------------------------------------------
\* calculate_span: forwards from `from`, not past `to` and not into the filter, and
\* then back from `to` along the steps that were made.
Span(w, from, to, filter) ==
    LET step == [e \in DOMAIN w.ops |-> IF e = to THEN {} ELSE After(w)[e] \ filter]
        seen == Closure({from}, step)
        back == [e \in DOMAIN w.ops |-> {p \in seen : e \in step[p]}]
    IN  IF to \in filter THEN {} ELSE Closure({to}, back)

\* What lies before a point is never trimmed.
Before(w, id) == Span(w, w.entry, id, {}) \ {id}

Accepted(nodes, points) == nodes \ {p.id : p \in {q \in points : q.keep}}

CalculateDownstream(w, from) ==
    LET step == [e \in DOMAIN w.ops |-> After(w)[e] \ Before(w, from.id)]
    IN  Accepted(Closure({from.id}, step), {from})

CalculateSpanNodes(w, from, to) ==
    Accepted(Span(w, from.id, to.id, Before(w, from.id)), {from, to})

IsInvalid(w, branch) ==
    \E i \in DOMAIN branch.ends :
        Span(w, branch.from.id, branch.ends[i].id, Before(w, branch.from.id)) = {}

\* calculate_nodes: what the trim cleans, unless one of its spans is invalid.
CalculateNodes(w, branches) ==
    [invalid |-> \E i \in DOMAIN branches : IsInvalid(w, branches[i]),
     nodes |-> UNION {
        IF branches[i].downstream THEN CalculateDownstream(w, branches[i].from)
        ELSE UNION {CalculateSpanNodes(w, branches[i].from, branches[i].ends[j]) :
                    j \in DOMAIN branches[i].ends} : i \in DOMAIN branches}]

\* What a span is to be: every node on a path between the points, when nothing leads
\* back to the first.
OnPath(w, from, to) ==
    {e \in Below(w)[from] \cup {from} : to \in Below(w)[e] \cup {e}}

IsAcyclic(w) == \A e \in DOMAIN w.ops : \A t \in After(w)[e] : e \notin Closure({t}, After(w))

SpansAreRight(w) ==
    IsAcyclic(w) =>
        \A from, to \in DOMAIN w.ops :
            to \in Below(w)[from] => Span(w, from, to, {}) = OnPath(w, from, to)
=============================================================================
