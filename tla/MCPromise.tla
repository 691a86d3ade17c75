------------------------------ MODULE MCPromise ------------------------------
(* Small instances of Promise: two threads are enough for one to be parked,
   asleep or notified while another enters, leaves or holds the lock. *)
EXTENDS Promise

=============================================================================
