--------------------------- MODULE ScopeContract ---------------------------
(***************************************************************************)
(* What a scope promises the workflow around it.  Every scoped session is  *)
(* begun once for one parent session, stays open until it is terminated,   *)
(* cancelled or asked to clean up, winds down, and then finishes once, with *)
(* a response, with a cancellation, or silently when the parent asked for  *)
(* it.  A parent that asked the scope to clean up is told that it is clean *)
(* at most once, and only when none of its sessions is left.               *)
(*                                                                         *)
(* Scope.tla is checked to implement this module.                          *)
(***************************************************************************)
CONSTANTS
    Sessions, Parents,
    None        \* no parent

VARIABLES
    life,       \* Sessions -> "unborn" | "open" | "closing" | "finished"
    owner,      \* Sessions -> the parent session it runs for, or None
    report,     \* Sessions -> what was sent up: "none" | "response" | "cancelled"
    clean       \* the parents that were told that the scope is clean

vars == <<life, owner, report, clean>>

Init ==
    /\ life = [s \in Sessions |-> "unborn"]
    /\ owner = [s \in Sessions |-> None]
    /\ report = [s \in Sessions |-> "none"]
    /\ clean = {}

Begin(s, p) ==
    /\ life[s] = "unborn"
    /\ p \notin clean
    /\ life' = [life EXCEPT ![s] = "open"]
    /\ owner' = [owner EXCEPT ![s] = p]
    /\ UNCHANGED <<report, clean>>

\* Several sessions may begin to wind down at once.
Close(S) ==
    /\ \A s \in S : life[s] = "open"
    /\ life' = [s \in Sessions |-> IF s \in S THEN "closing" ELSE life[s]]
    /\ UNCHANGED <<owner, report, clean>>

\* The end of a session, and, when it was the last one of a parent that is
\* waiting for it, the notice to that parent.
Finish(s, r, told) ==
    /\ life[s] = "closing"
    /\ report[s] = "none"
    /\ life' = [life EXCEPT ![s] = "finished"]
    /\ report' = [report EXCEPT ![s] = r]
    /\ told \subseteq {owner[s]}
    /\ \A t \in Sessions : owner[t] \in told => life'[t] = "finished"
    /\ clean' = clean \cup told
    /\ UNCHANGED owner

\* A parent that has no session here is clean already.
NothingToClean(p) ==
    /\ \A t \in Sessions : owner[t] = p => life[t] = "finished"
    /\ clean' = clean \cup {p}
    /\ UNCHANGED <<life, owner, report>>

Next ==
    \/ \E s \in Sessions, p \in Parents : Begin(s, p)
    \/ \E S \in SUBSET Sessions : Close(S)
    \/ \E s \in Sessions, r \in {"response", "cancelled", "none"},
          told \in SUBSET Parents : Finish(s, r, told)
    \/ \E p \in Parents : NothingToClean(p)

Spec == Init /\ [][Next]_vars
=============================================================================
