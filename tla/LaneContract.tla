--------------------------- MODULE LaneContract ---------------------------
(***************************************************************************)
(* What delivery labels promise (service.rs on DeliveryInstructions): the   *)
(* requests of a lane are served one at a time, in the order in which they  *)
(* arrived, unless they leave the queue before.                             *)
(***************************************************************************)
EXTENDS Queues

CONSTANTS Requests, Lanes, None

VARIABLES
    serving,    \* Lanes -> the request that is being served, or None
    waiting     \* Lanes -> the requests that wait, in order

vars == <<serving, waiting>>

Init ==
    /\ serving = [l \in Lanes |-> None]
    /\ waiting = [l \in Lanes |-> <<>>]

\* Nobody is before r.
Enter(l, r) ==
    /\ serving[l] = None /\ waiting[l] = <<>>
    /\ serving' = [serving EXCEPT ![l] = r]
    /\ UNCHANGED waiting

\* r goes to the end of the queue, and those in gone leave it.
Join(l, r, gone) ==
    /\ r \notin ToSet(waiting[l]) /\ r # serving[l]
    /\ waiting' = [waiting EXCEPT ![l] = Append(Without(@, gone), r)]
    /\ UNCHANGED serving

\* The same, and the one that is served ends at once.
Replace(l, r, gone) ==
    LET queue == Append(Without(waiting[l], gone), r) IN
    /\ serving[l] # None
    /\ r \notin ToSet(waiting[l]) /\ r # serving[l]
    /\ serving' = [serving EXCEPT ![l] = Head(queue)]
    /\ waiting' = [waiting EXCEPT ![l] = Tail(queue)]

\* Those in gone end, if they are served, and leave the queues, if they wait.
Leave(gone) ==
    /\ serving' = [l \in Lanes |-> IF serving[l] \in gone THEN None ELSE serving[l]]
    /\ waiting' = [l \in Lanes |-> Without(waiting[l], gone)]

\* In the lanes of ended the one that is served ends, if there is one, and the next
\* one is served.
Advance(ended) ==
    /\ serving' = [l \in Lanes |-> IF l \notin ended THEN serving[l]
                                  ELSE IF waiting[l] = <<>> THEN None ELSE Head(waiting[l])]
    /\ waiting' = [l \in Lanes |-> IF l \in ended /\ waiting[l] # <<>>
                                  THEN Tail(waiting[l]) ELSE waiting[l]]

Next ==
    \/ \E l \in Lanes, r \in Requests : Enter(l, r)
    \/ \E l \in Lanes, r \in Requests :
          \E gone \in SUBSET ToSet(waiting[l]) :
             Join(l, r, gone) \/ Replace(l, r, gone)
    \/ \E gone \in SUBSET UNION {ToSet(waiting[l]) \cup ({serving[l]} \ {None}) :
                                   l \in Lanes} : Leave(gone)
    \/ \E ended \in SUBSET Lanes : Advance(ended)

Spec == Init /\ [][Next]_vars
=============================================================================
