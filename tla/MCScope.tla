------------------------------ MODULE MCScope ------------------------------
(* Small instances of Scope: two sessions are enough for one to end while
   another begins, or two ends to meet, for the same parent or for two. *)
EXTENDS Scope

=============================================================================
