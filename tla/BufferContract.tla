--------------------------- MODULE BufferContract ---------------------------
(***************************************************************************)
(* What a buffer promises for its sessions (RetentionPolicy and BufferMut   *)
(* in buffer.rs): each has a queue of its own, oldest value first, which    *)
(* the retention policy cuts to size whenever values are put into it.       *)
(***************************************************************************)
EXTENDS Naturals, Sequences, SequencesExt

CONSTANTS
    Sessions, Values, Retentions,
    Batches     \* the sequences of values that may be put one after another

VARIABLES
    policy,     \* the RetentionPolicy, which never changes
    open,       \* Sessions -> has it begun to use the buffer?
    held        \* Sessions -> its values, oldest first

vars == <<policy, open, held>>

\* The part of a queue that the policy keeps.
Limit(q) ==
    CASE policy.keep = "KeepAll"                              -> q
      [] Len(q) <= policy.limit                               -> q
      [] policy.keep = "KeepFirst" /\ Len(q) > policy.limit -> SubSeq(q, 1, policy.limit)
      [] policy.keep = "KeepLast" /\ Len(q) > policy.limit  ->
            SubSeq(q, Len(q) - policy.limit + 1, Len(q))

Init ==
    /\ policy \in Retentions
    /\ open = [s \in Sessions |-> FALSE]
    /\ held = [s \in Sessions |-> <<>>]

Becomes(s, q) == held' = [held EXCEPT ![s] = q] /\ UNCHANGED open

Open(s) == ~open[s] /\ open' = [open EXCEPT ![s] = TRUE] /\ UNCHANGED held

PutNewest(s, vs) ==
    /\ open' = [open EXCEPT ![s] = TRUE]
    /\ held' = [held EXCEPT ![s] = Limit(@ \o vs)]
PutOldest(s, v) == open[s] /\ Becomes(s, Limit(<<v>> \o held[s]))

TakeOldest(s) == open[s] /\ held[s] # <<>> /\ Becomes(s, Tail(held[s]))
TakeNewest(s) == open[s] /\ held[s] # <<>> /\ Becomes(s, Front(held[s]))
TakeRange(s, from, to) ==
    /\ open[s] /\ from <= to
    /\ Becomes(s, SubSeq(held[s], 1, from - 1) \o SubSeq(held[s], to + 1, Len(held[s])))

Overwrite(s, i, v) == open[s] /\ Becomes(s, [held[s] EXCEPT ![i] = v])

Close(s) ==
    /\ open[s] /\ open' = [open EXCEPT ![s] = FALSE]
    /\ held' = [held EXCEPT ![s] = <<>>]

Step(s) ==
    \/ Open(s) \/ Close(s) \/ TakeOldest(s) \/ TakeNewest(s)
    \/ \E vs \in Batches : PutNewest(s, vs)
    \/ \E v \in Values : PutOldest(s, v)
    \/ \E i, j \in DOMAIN held[s] : TakeRange(s, i, j)
    \/ \E i \in DOMAIN held[s], v \in Values : Overwrite(s, i, v)

\* A step changes something: what leaves every queue as it is is a stutter.
Next ==
    /\ <<open, held>>' # <<open, held>>
    /\ \E s \in Sessions : Step(s)
    /\ UNCHANGED policy

Spec == Init /\ [][Next]_vars
=============================================================================
