------------------------------ MODULE Delivery ------------------------------
(***************************************************************************)
(* The order book of a service (service/delivery.rs).  Requests that may    *)
(* not run at the same time share a lane (SerialDelivery): one of them is   *)
(* being delivered, the others queue.  A serial service has one lane, a     *)
(* parallel one has a lane for each label, and a request without a label    *)
(* needs no lane there.                                                     *)
(***************************************************************************)
EXTENDS Queues

CONSTANTS
    Labels,             \* DeliveryLabelId
    Serial,             \* the lane of a serial service
    None                \* no label, no lane, no request

Lanes == Labels \cup {Serial}

\* Option<DeliveryInstructions>: without a label there are none.
Instructions ==
    {i \in [label : Labels \cup {None}, preempt : BOOLEAN, ensure : BOOLEAN] :
        i.label = None => ~i.preempt /\ ~i.ensure}

EmptyLane == [delivering |-> None, queue |-> <<>>]

\* The lane of a request with instructions i, if it has to queue at all.
LaneFor(mode, i) == IF mode = "serial" THEN Serial ELSE i.label

\* should_discard, for a preempting request with instructions i.
\* A slip: ensure is not looked at.
DiscardsAny(i, prior) == prior.label = i.label

Discards(i, prior) == prior.label = i.label /\ ~prior.ensure

\* The requests in the queue, and the one being delivered, that r supplants;
\* ins maps a request to its instructions.
Supplanted(ins, lane, r) ==
    IF ins[r].preempt
    THEN {q \in ToSet(lane.queue) \cup ({lane.delivering} \ {None}) :
            ins[q].label # None /\ Discards(ins[r], ins[q])}
    ELSE {}

\* A slip: one that preempts goes to the head of the queue.
InsertFirst(ins, lane, r) ==
    IF lane.delivering = None
    THEN [lane EXCEPT !.delivering = r]
    ELSE [lane EXCEPT !.queue = IF ins[r].preempt THEN <<r>> \o @ ELSE Append(@, r)]

\* insert_serial_order
Insert(ins, lane, r) ==
    IF lane.delivering = None
    THEN [lane EXCEPT !.delivering = r]
    ELSE LET gone == Supplanted(ins, lane, r)
         IN [lane EXCEPT !.queue = Append(Without(@, gone), r)]

\* pop_next_delivery_impl
\* A slip: the lane stays taken when there is nothing to deliver next.
PopButKeep(lane) ==
    IF lane.queue = <<>> THEN lane
    ELSE [delivering |-> Head(lane.queue), queue |-> Tail(lane.queue)]

PopNext(lane) ==
    IF lane.queue = <<>> THEN EmptyLane
    ELSE [delivering |-> Head(lane.queue), queue |-> Tail(lane.queue)]

\* Delivery::cleanup: the orders in gone leave the queue.
Strike(lane, gone) ==
    [lane EXCEPT !.queue = Without(@, gone)]
=============================================================================
