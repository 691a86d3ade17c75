----------------------------- MODULE Continuous -----------------------------
(***************************************************************************)
(* A continuous service (service/continuous.rs): a system of the            *)
(* application's schedule that looks at the orders it holds once in a while *)
(* and answers some of them.                                                *)
(*                                                                         *)
(* A request goes through the Delivery like that of any other service, and  *)
(* becomes an order in the queue of the provider.  The system refers to an  *)
(* order by its index; its answers are commands, applied when the system is *)
(* over, and only then the orders leave the queue and unblock their lanes.  *)
(* turn says whether the flush of the impulses or the application runs.     *)
(***************************************************************************)
EXTENDS Delivery

CONSTANTS
    MaxRequests,        \* requests that are made
    Modes,              \* of {"serial", "parallel"}: DeliveryChoice
    Origin,             \* Requests -> [node, session]: where each comes from
    Offered,            \* Requests -> the instructions it may have
    MayCleanHeld,       \* may an order that occupies a lane be cleaned?
    MayFlushBetween     \* may a flush run before the answers are applied?

\* The answers are commands, and Bevy applies those of a schedule at its end.  So
\* MayFlushBetween is FALSE for a service in a schedule that is over when the flush
\* runs, or with commands applied in between; it is TRUE for one in Update when the
\* flush is where ImpulsePlugin puts it (lib.rs:316-318), in Update as well.

Requests == 1..MaxRequests

ASSUME ContinuousAssumption ==
    /\ MaxRequests \in Nat
    /\ Modes \subseteq {"serial", "parallel"}
    /\ DOMAIN Offered = Requests
    /\ \A r \in Requests : Offered[r] \subseteq Instructions
    /\ Serial \notin Labels /\ None \notin Labels \cup {Serial} /\ None \notin Nat
    /\ DOMAIN Origin = Requests
    /\ \A r \in Requests : DOMAIN Origin[r] = {"node", "session"}
    /\ {MayCleanHeld, MayFlushBetween} \subseteq BOOLEAN

Sessions == {Origin[r].session : r \in Requests}
Nodes == {Origin[r].node : r \in Requests}

VARIABLES
    mode,           \* chosen once
    provider,       \* "alive", "despawned", "noticed": the lifecycle was drained
    lanes,          \* Delivery
    made, ins,      \* how many requests have been made, and their instructions
    fate,           \* Requests -> how far it is
    held,           \* ContinuousQueueStorage::inner
    responses,      \* DeliverResponses: index -> the order that was answered
    unblock,        \* roster.unblock: the lanes of the Blockers
    active,         \* sessions whose SessionStatus is Active
    turn            \* "flush" or "app"

requestVars == <<mode, made, ins>>
vars == <<mode, provider, lanes, made, ins, fate, held, responses, unblock, active, turn>>

(* The fate of a request: not made yet, an input of its node, in the queue of
   its lane, held as an order, or over.  "lost" is over with no disposal
   although its node was not cleaned.                                       *)
Over == {"responded", "disposed", "cleaned", "lost"}

Lane(r) == LaneFor(mode, ins[r])

TypeOK ==
    /\ mode \in Modes
    /\ provider \in {"alive", "despawned", "noticed"}
    /\ lanes \in [Lanes -> [delivering : Requests \cup {None}, queue : Seq(Requests)]]
    /\ made \in 0..MaxRequests
    /\ ins \in [Requests -> Instructions]
    /\ fate \in [Requests -> {"unmade", "input", "queued", "held"} \cup Over]
    /\ held \in Seq(Requests)
    /\ DOMAIN responses \subseteq Nat
    /\ \A i \in DOMAIN responses : responses[i] \in Requests
    /\ unblock \in Seq(Lanes)
    /\ active \subseteq Sessions
    /\ turn \in {"flush", "app"}

Init ==
    /\ mode \in Modes
    /\ provider = "alive"
    /\ lanes = [l \in Lanes |-> EmptyLane]
    /\ made = 0
    /\ ins = [r \in Requests |-> [label |-> None, preempt |-> FALSE, ensure |-> FALSE]]
    /\ fate = [r \in Requests |-> "unmade"]
    /\ held = <<>> /\ responses = <<>> /\ unblock = <<>>
    /\ active = Sessions
    /\ turn = "flush"

-----------------------------------------------------------------------------
(* The flush: requests become orders *)

\* An upstream operation gives an input to a node of the service.
Request(i) ==
    /\ turn = "flush"
    /\ made < MaxRequests /\ i \in Offered[made + 1]
    /\ Origin[made + 1].session \in active
    /\ made' = made + 1
    /\ ins' = [ins EXCEPT ![made + 1] = i]
    /\ fate' = [fate EXCEPT ![made + 1] = "input"]
    /\ UNCHANGED <<mode, provider, lanes, held, responses, unblock, active, turn>>

\* The state of the order book: its lanes, the orders and their fates.
\* serve_continuous_request
Hold(book, r) ==
    [book EXCEPT !.held = Append(@, r), !.fate = [@ EXCEPT ![r] = "held"]]

\* serve_next_continuous_request, for lane l
\* A slip: it does not notice that no delivery was popped.
ServeWhatever(book, l) ==
    LET lane == PopNext(book.lanes[l])
        popped == [book EXCEPT !.lanes = [@ EXCEPT ![l] = lane]]
    IN [popped EXCEPT !.held = Append(@, lane.delivering)]

ServeNext(book, l) ==
    LET lane == PopNext(book.lanes[l])
        popped == [book EXCEPT !.lanes = [@ EXCEPT ![l] = lane]]
    IN IF lane.delivering = None THEN popped ELSE Hold(popped, lane.delivering)

Book == [lanes |-> lanes, held |-> held, fate |-> fate]
Becomes(book) ==
    lanes' = book.lanes /\ held' = book.held /\ fate' = book.fate

\* The order at that is supplanted goes at once: it is removed from the queue, and
\* its lane serves the next one.
StopHeld(book, l, at) ==
    ServeNext([book EXCEPT !.held = Without(@, {at}),
                           !.fate = [@ EXCEPT ![at] = "disposed"]], l)

\* serve: insert_new_order, and what it says to do.  r is the oldest input of its
\* node.  If the order to stop is not in the queue, its lane is unblocked later.
Serve(r) ==
    /\ turn = "flush"
    /\ fate[r] = "input"
    /\ \A q \in 1..(r - 1) : ~(fate[q] = "input" /\ Origin[q].node = Origin[r].node)
    /\ provider = "alive"
    /\ LET l == Lane(r) IN
       IF l = None
       THEN Becomes(Hold(Book, r)) /\ UNCHANGED unblock
       ELSE LET at == lanes[l].delivering
                gone == Supplanted(ins, lanes[l], r)
                inserted ==
                    [lanes |-> [lanes EXCEPT ![l] = Insert(ins, @, r)],
                     held  |-> held,
                     fate  |-> [q \in Requests |->
                                  IF q = r THEN "queued"
                                  ELSE IF q \in gone \ {at} THEN "disposed"
                                  ELSE fate[q]]]
                stops == at \in gone
                found == stops /\ at \in ToSet(held)
            IN
            /\ Becomes(IF at = None THEN Hold(inserted, r)
                       ELSE IF found THEN StopHeld(inserted, l, at)
                       ELSE inserted)
            /\ unblock' = IF stops /\ ~found THEN Append(unblock, l) ELSE unblock
    /\ UNCHANGED <<requestVars, provider, responses, active, turn>>

\* dispatch_service finds no service: the inputs of all its nodes are disposed of.
DisposeInputs ==
    fate' = [r \in Requests |-> IF fate[r] = "input" THEN "disposed" ELSE fate[r]]

ServeNobody ==
    /\ turn = "flush" /\ provider # "alive"
    /\ \E r \in Requests : fate[r] = "input"
    /\ DisposeInputs
    /\ UNCHANGED <<requestVars, provider, lanes, held, responses, unblock, active, turn>>

UnblockNext ==
    /\ turn = "flush" /\ unblock # <<>>
    /\ unblock' = Tail(unblock)
    /\ IF provider = "alive" THEN Becomes(ServeNext(Book, Head(unblock)))
       ELSE UNCHANGED <<lanes, held, fate>>
    /\ UNCHANGED <<requestVars, provider, responses, active, turn>>

\* OperateService::cleanup for the nodes in N and session s: the inputs of the
\* nodes go; of the whole session, whatever node they came from, the orders leave
\* the Delivery (Delivery::cleanup) and the queue (ActiveContinuousSessions::
\* cleanup), the latter with their Blockers.
Clean(N, s) ==
    LET session == {r \in 1..made : Origin[r].session = s}
        mine == {r \in session : Origin[r].node \in N}
        struck == {r \in session : fate[r] = "queued"}
        dropped == {r \in session : fate[r] = "held"}
    IN
    /\ turn = "flush"
    /\ MayCleanHeld \/ \A r \in dropped : Lane(r) = None
    /\ lanes' = [l \in Lanes |-> Strike(lanes[l], struck)]
    /\ fate' = [r \in Requests |->
                  IF r \in mine /\ fate[r] = "input" THEN "cleaned"
                  ELSE IF r \in struck \cup dropped
                       THEN IF r \in mine THEN "cleaned" ELSE "lost"
                  ELSE fate[r]]
    /\ held' = Without(held, dropped)
    /\ UNCHANGED <<requestVars, provider, responses, unblock, turn>>

\* The scope of the nodes cleans up session s.
CleanScope(s) ==
    /\ s \in active
    /\ active' = active \ {s}
    /\ Clean(Nodes, s)

\* A trim cleans one node for session s, which goes on.
Trim(n, s) ==
    /\ s \in active
    /\ \E r \in 1..made : fate[r] \notin Over /\ Origin[r] = [node |-> n, session |-> s]
    /\ Clean({n}, s)
    /\ UNCHANGED active

NoticeDespawn ==
    /\ turn = "flush" /\ provider = "despawned"
    /\ provider' = "noticed"
    /\ DisposeInputs
    /\ UNCHANGED <<requestVars, lanes, held, responses, unblock, active, turn>>

\* The flush is over when its roster is empty.
EndFlush ==
    /\ turn = "flush" /\ turn' = "app"
    /\ unblock = <<>> /\ provider # "despawned"
    /\ \A r \in Requests : fate[r] # "input"
    /\ UNCHANGED <<requestVars, provider, lanes, fate, held, responses, unblock, active>>

-----------------------------------------------------------------------------
(* The application *)

\* The system runs (ContinuousQueueMut::get_mut, for_each) and calls respond on
\* the orders at the indices in S.
Respond(S) ==
    /\ turn = "app" /\ provider = "alive"
    /\ responses = <<>>
    /\ S # {} /\ S \subseteq DOMAIN held
    /\ responses' = [i \in S |-> held[i]]
    /\ UNCHANGED <<requestVars, provider, lanes, fate, held, unblock, active, turn>>

\* try_retire_request: the order at index i is removed and unblocks its lane.
\* A slip: the blocker is not looked at.
RetireOnly(book, i) == [book EXCEPT !.held = RemoveAt(@, i)]

Retire(book, i) ==
    LET r == book.held[i]
        removed == [book EXCEPT !.held = RemoveAt(@, i),
                                !.fate = [q \in Requests |->
                                   IF q = r /\ @[q] = "held" THEN "lost" ELSE @[q]]]
    IN IF i \notin DOMAIN book.held THEN book
       ELSE IF Lane(r) = None THEN removed ELSE ServeNext(removed, Lane(r))

\* The k-th of n indices: "remove the last elements first, so the earliest elements
\* remain valid".
\* A slip: the first ones are removed first.
FirstFirst(n, k) == k

LastFirst(n, k) == n + 1 - k

\* The order book when the first k indices have been looked at, of which those in S
\* are retired, for each k.
Retired(book, S) ==
    LET n == Len(book.held)
        retired[k \in 0..n] ==
          IF k = 0 THEN book
          ELSE IF LastFirst(n, k) \in S THEN Retire(retired[k - 1], LastFirst(n, k))
          ELSE retired[k - 1]
    IN retired

RetireAll(book, S) == Retired(book, S)[Len(book.held)]

\* DeliverResponses::apply: first all answers are given, then the orders at the
\* indices are retired.
ApplyResponses ==
    /\ turn = "app" /\ responses # <<>>
    /\ responses' = <<>>
    /\ LET answered == {responses[i] : i \in DOMAIN responses}
           given == [Book EXCEPT !.fate = [r \in Requests |->
                        IF r \in answered /\ @[r] = "held" THEN "responded" ELSE @[r]]]
       IN Becomes(IF provider = "alive"
                  THEN RetireAll(given, DOMAIN responses)
                  ELSE given)
    /\ UNCHANGED <<requestVars, provider, unblock, active, turn>>

\* The provider is despawned, and with it its Delivery and its orders.
Despawn ==
    /\ turn = "app" /\ provider = "alive"
    /\ provider' = "despawned"
    /\ lanes' = [l \in Lanes |-> EmptyLane]
    /\ held' = <<>>
    /\ fate' = [r \in Requests |-> IF fate[r] \in {"queued", "held"} THEN "lost" ELSE fate[r]]
    /\ UNCHANGED <<requestVars, responses, unblock, active, turn>>

BeginFlush ==
    /\ turn = "app" /\ turn' = "flush"
    /\ MayFlushBetween \/ responses = <<>>
    /\ UNCHANGED <<requestVars, provider, lanes, fate, held, responses, unblock, active>>

-----------------------------------------------------------------------------
Next ==
    \/ \E r \in Requests : \E i \in Offered[r] : Request(i)
    \/ \E r \in Requests : Serve(r)
    \/ ServeNobody \/ UnblockNext \/ NoticeDespawn \/ EndFlush
    \/ \E s \in Sessions : CleanScope(s)
    \/ \E n \in Nodes, s \in Sessions : Trim(n, s)
    \/ \E S \in SUBSET DOMAIN held : Respond(S)
    \/ ApplyResponses \/ Despawn \/ BeginFlush

Spec == Init /\ [][Next]_vars

-----------------------------------------------------------------------------
(* Properties *)

\* The service holds exactly the orders that have been served and neither answered
\* nor stopped nor cleaned, each of them once: an answer retires its own order,
\* although orders are removed and begun by index while answers are applied.
HeldIsUnanswered ==
    /\ ToSet(held) = {r \in Requests : fate[r] = "held"}
    /\ IsInjective(held)

\* A lane is taken by an order that is held, or by one that a cleanup has dropped
\* together with its blocker; and requests wait only in a lane that is taken.
OnlyCleanupSticks ==
    \A l \in Lanes :
        /\ lanes[l].delivering # None =>
              fate[lanes[l].delivering] \in {"held", "cleaned", "lost"} \/ l \in ToSet(unblock)
        /\ lanes[l].queue # <<>> => lanes[l].delivering # None

\* No lane is stuck: the request being delivered is held, or the lane is about to
\* be unblocked (service_builder.rs: a serial service does not execute a request
\* "until any prior run of this service is finished (delivered or cancelled)").
NoLaneStuck ==
    \A l \in Lanes : lanes[l].delivering # None =>
        fate[lanes[l].delivering] = "held" \/ l \in ToSet(unblock)

\* The orders of a lane are served one at a time and in the order of their arrival
\* (LaneContract), whatever preempts, is answered or is cleaned.
Serving(l) ==
    IF \E r \in ToSet(held) : Lane(r) = l
    THEN CHOOSE r \in ToSet(held) : Lane(r) = l
    ELSE None

Contract == INSTANCE LaneContract WITH
    serving <- [l \in Lanes |-> Serving(l)],
    waiting <- [l \in Lanes |-> lanes[l].queue]
ServesInOrder == Contract!Spec
=============================================================================
