------------------------------- MODULE OneShot -------------------------------
(***************************************************************************)
(* What a promise owes to whoever holds it, whatever happens underneath:   *)
(* the provider settles an outcome at most once; the holder's view moves   *)
(* from Pending to exactly that outcome and never back; a response can be  *)
(* taken out once; nothing more is seen once the promise is gone.          *)
(*                                                                         *)
(* Promise.tla (one promise shared by threads) is checked and proved to    *)
(* implement this module.                                                  *)
(***************************************************************************)
CONSTANT Results        \* the values of enum PromiseResult

VARIABLES
    outcome,            \* what the provider settled on, or "none"
    view,               \* the state the holder can see
    gone                \* has the holder let go of the promise?

vars == <<outcome, view, gone>>

Init ==
    /\ outcome = "none"
    /\ view = "Pending"
    /\ gone = FALSE

\* The provider answers, cancels, or is disposed of.
Settle(r) ==
    /\ outcome = "none"
    /\ outcome' = r
    /\ UNCHANGED <<view, gone>>

\* The holder looks, and sees the outcome.
Observe ==
    /\ ~gone
    /\ view = "Pending"
    /\ outcome # "none"
    /\ view' = outcome
    /\ UNCHANGED <<outcome, gone>>

\* The holder takes the response out; only an Available one can be taken.
Take ==
    /\ ~gone
    /\ outcome = "Available"
    /\ view \in {"Pending", "Available"}
    /\ view' = "Taken"
    /\ UNCHANGED outcome
    /\ gone' \in {FALSE, TRUE}      \* an awaited promise is consumed by this

\* The holder drops the promise, or is done with it.
LetGo ==
    /\ ~gone
    /\ gone' = TRUE
    /\ \/ UNCHANGED view
       \/ view = "Pending" /\ outcome # "none" /\ view' = outcome
    /\ UNCHANGED outcome

Next ==
    \/ \E r \in Results : Settle(r)
    \/ Observe
    \/ Take
    \/ LetGo

Spec == Init /\ [][Next]_vars
=============================================================================
