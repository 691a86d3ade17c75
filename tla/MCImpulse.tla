----------------------------- MODULE MCImpulse -----------------------------
(* Small instances of Impulse: one chain of any shape, since chains share nothing
   but the order of the roster and the entity that store and push go to. *)
EXTENDS Impulse

Plan(steps, detach, end) == [steps |-> steps, detach |-> detach, end |-> end]

\* Chains of one and two steps, each a map or asynchronous, the first maybe a
\* service; and longer ones.
MCSteps ==
    {<<k>> : k \in Kinds} \cup {<<k, l>> : k \in Kinds, l \in {"map", "async"}}
Longer == {<<"service", "async", "map">>, <<"async", "map", "async">>}

\* The step that follows what is detached is called although it is dropped; an
\* asynchronous one would then panic.
Panics(p) ==
    /\ p.end = "none" /\ p.detach # {}
    /\ Max(p.detach) < Len(p.steps) /\ p.steps[Max(p.detach) + 1] = "async"

MCPlans ==
    <<{p \in {Plan(s, d, end) : s \in MCSteps, d \in SUBSET (1..2), end \in Ends}
             \cup {Plan(s, d, end) : s \in Longer, d \in SUBSET (1..3), end \in {"none", "take"}} :
         p.detach \subseteq 1..Len(p.steps) /\ ~Panics(p)}>>

\* A service in the second place.
MCServiceSecond == <<{Plan(<<"map", "service">>, {}, "take")}>>

\* What is detached is followed by an asynchronous step that nothing takes.
MCPanics == <<{Plan(<<"map", "async">>, {1}, "none")}>>
=============================================================================
