------------------------------ MODULE Service ------------------------------
(***************************************************************************)
(* A service with a delivery order (service/async_srv.rs,                   *)
(* service/workflow.rs, operation/operate_service.rs,                       *)
(* operation/operate_task.rs), and the nodes that use it.                   *)
(*                                                                         *)
(* A request is an input of a node that is served by the provider.  An      *)
(* async service runs it as a task; a workflow runs it as a scoped session. *)
(* The provider's Delivery decides whether it begins at once or queues, and *)
(* what it supplants.  Whoever ends holds a Blocker if it was in a lane,    *)
(* and the next one of the lane begins when the blocker is released.        *)
(*                                                                         *)
(* World-exclusive code runs to completion, so a step is one operation, or  *)
(* one item of roster.unblock, of the awakened tasks or of the channel,     *)
(* in the order in which flush_impulses_impl takes them (phase).            *)
(***************************************************************************)
EXTENDS Delivery

CONSTANTS
    MaxRequests,        \* requests that are made
    Modes,              \* of {"serial", "parallel"}: DeliveryChoice
    Kinds,              \* of {"async", "workflow"}: what the provider is
    Origin,             \* Requests -> [node, session]: where each comes from
    Offered,            \* the instructions requests may have
    ReadyAtOnce,        \* may a task be ready when it is polled first?
    MayTrim,            \* may a trim clean one node of a session?
    MayCleanTwice,      \* may a node be cleaned while it still is being cleaned?
    MayDespawn          \* may an async provider be despawned?

Requests == 1..MaxRequests

ASSUME ServiceAssumption ==
    /\ MaxRequests \in Nat
    /\ Modes \subseteq {"serial", "parallel"} /\ Kinds \subseteq {"async", "workflow"}
    /\ Offered \subseteq Instructions
    /\ Serial \notin Labels /\ None \notin Labels \cup {Serial} /\ None \notin Nat
    /\ DOMAIN Origin = Requests
    /\ \A r \in Requests : DOMAIN Origin[r] = {"node", "session"}
    /\ {ReadyAtOnce, MayTrim, MayCleanTwice, MayDespawn} \subseteq BOOLEAN

Sessions == {Origin[r].session : r \in Requests}
Nodes == {Origin[r].node : r \in Requests}

VARIABLES
    mode, kind,     \* chosen once
    provider,       \* "alive", "despawned", "noticed": the lifecycle was drained
    lanes,          \* Delivery
    made,           \* how many requests have been made
    ins,            \* Requests -> its instructions
    fate,           \* Requests -> how far it is
    fresh,          \* tasks in roster.queue, to be polled for the first time
    unblock,        \* roster.unblock: the lanes of the Blockers
    active,         \* sessions whose SessionStatus is Active
    phase           \* "unblock", "queue", or "rest": awakened tasks and channels

orderVars == <<mode, kind, made, ins>>
vars == <<mode, kind, provider, lanes, made, ins, fate, fresh, unblock,
          active, phase>>

(* The fate of a request:
     "unmade"    not made yet
     "input"     in the InputStorage of its node
     "queued"    in the queue of its lane
     "running"   its task (or scoped session) runs
     "stopping"  it was supplanted, its task has not ended yet
     "cleaning"  its node is being cleaned, its task has not ended yet
     "orphaned"  the same, but the entity of its task is gone already
     "responded", "disposed", "cleaned"    over
     "lost"      over, with no disposal, although its node was not cleaned      *)
Alive == {"running", "stopping", "cleaning", "orphaned"}
Over == {"responded", "disposed", "cleaned", "lost"}
Answered == Over \ {"lost"}

Lane(r) == LaneFor(mode, ins[r])

TypeOK ==
    /\ mode \in Modes /\ kind \in Kinds
    /\ provider \in {"alive", "despawned", "noticed"}
    /\ lanes \in [Lanes -> [delivering : Requests \cup {None}, queue : Seq(Requests)]]
    /\ made \in 0..MaxRequests
    /\ ins \in [Requests -> Instructions]
    /\ fate \in [Requests -> {"unmade", "input", "queued"} \cup Alive \cup Over]
    /\ fresh \in Seq(Requests)
    /\ unblock \in Seq(Lanes)
    /\ active \subseteq Sessions
    /\ phase \in {"unblock", "queue", "rest"}

Init ==
    /\ mode \in Modes /\ kind \in Kinds
    /\ provider = "alive"
    /\ lanes = [l \in Lanes |-> EmptyLane]
    /\ made = 0
    /\ ins = [r \in Requests |-> [label |-> None, preempt |-> FALSE, ensure |-> FALSE]]
    /\ fate = [r \in Requests |-> "unmade"]
    /\ fresh = <<>> /\ unblock = <<>>
    /\ active = Sessions
    /\ phase = "queue"

-----------------------------------------------------------------------------
(* Requests are made and served *)

\* An upstream operation gives an input to a node of the service.
Request(i) ==
    /\ phase = "queue"
    /\ made < MaxRequests
    /\ Origin[made + 1].session \in active
    /\ made' = made + 1
    /\ ins' = [ins EXCEPT ![made + 1] = i]
    /\ fate' = [fate EXCEPT ![made + 1] = "input"]
    /\ UNCHANGED <<mode, kind, provider, lanes, fresh, unblock, active, phase>>

\* serve_async_request or begin_workflow for r, if it is a request: a task is
\* added and queued for its first poll; a scoped session begins.
Begin(r, f) ==
    /\ fate' = [q \in Requests |-> IF q = r THEN "running" ELSE f[q]]
    /\ fresh' = IF kind = "async" /\ r # None THEN Append(fresh, r) ELSE fresh

\* The requests that stop because the one that is delivered, q, is supplanted:
\* stop_task reaches its task.  A workflow cancels the sessions of a parent, and
\* with it every scoped session that runs for that parent.
Stopped(q) ==
    IF kind = "async" THEN {q} \cap {r \in Requests : fate[r] = "running"}
    ELSE {r \in Requests : fate[r] = "running"
                           /\ Origin[r].session = Origin[q].session}

\* stop_task fails when the entity of the task is gone already; the lane is
\* unblocked, or the next task would "never be able to run".
\* A slip: a task that is being stopped counts as gone.
StopFailsAlways(q) == kind = "async" /\ fate[q] # "running"

StopFails(q) == kind = "async" /\ fate[q] \notin {"running", "stopping", "cleaning"}

\* serve: insert_new_order, and what it says to do.  r is the oldest input of its
\* node.
Serve(r) ==
    /\ phase = "queue"
    /\ fate[r] = "input"
    /\ \A q \in 1..(r - 1) : ~(fate[q] = "input" /\ Origin[q].node = Origin[r].node)
    /\ provider = "alive"
    /\ LET l == Lane(r) IN
       IF l = None
       THEN Begin(r, fate) /\ UNCHANGED <<lanes, unblock>>
       ELSE LET at == lanes[l].delivering
                gone == Supplanted(ins, lanes[l], r)
                stop == IF at \in gone THEN Stopped(at) ELSE {}
            IN
            /\ lanes' = [lanes EXCEPT ![l] = Insert(ins, @, r)]
            /\ IF at = None
               THEN Begin(r, fate) /\ UNCHANGED unblock
               ELSE /\ fate' = [q \in Requests |->
                                  IF q = r THEN "queued"
                                  ELSE IF q \in stop THEN "stopping"
                                  ELSE IF q \in gone \ {at} THEN "disposed"
                                  ELSE fate[q]]
                    /\ unblock' = IF at \in gone /\ StopFails(at)
                                  THEN Append(unblock, l) ELSE unblock
                    /\ UNCHANGED <<fresh>>
    /\ UNCHANGED <<orderVars, provider, active, phase>>

\* dispatch_service finds no service: the inputs of all nodes of the provider
\* are disposed of (dispose_for_despawned_service).
DisposeInputs ==
    fate' = [r \in Requests |-> IF fate[r] = "input" THEN "disposed" ELSE fate[r]]

ServeNobody ==
    /\ phase = "queue" /\ provider # "alive"
    /\ \E r \in Requests : fate[r] = "input"
    /\ DisposeInputs
    /\ UNCHANGED <<orderVars, provider, lanes, fresh, unblock, active, phase>>

\* serve_next_async_request, serve_next_workflow_request
ServeNext(l, f) ==
    LET lane == PopNext(lanes[l]) IN
    IF provider = "alive"
    THEN /\ lanes' = [lanes EXCEPT ![l] = lane]
         /\ Begin(lane.delivering, f)
    ELSE fate' = f /\ UNCHANGED <<lanes, fresh>>

UnblockNext ==
    /\ phase = "unblock" /\ unblock # <<>>
    /\ unblock' = Tail(unblock)
    /\ ServeNext(Head(unblock), fate)
    /\ UNCHANGED <<orderVars, provider, active, phase>>

-----------------------------------------------------------------------------
(* Tasks *)

\* cleanup_task releases the blocker.
\* Slips: it does so without one, or only after a task that was not cancelled.
ReleaseAlways(r) == unblock' = Append(unblock, Lane(r))

KeepBlocker(r) == IF fate[r] = "running" /\ Lane(r) # None
                  THEN unblock' = Append(unblock, Lane(r)) ELSE UNCHANGED unblock

Release(r) == IF Lane(r) # None THEN unblock' = Append(unblock, Lane(r))
                                ELSE UNCHANGED unblock

\* OperateTask::execute when the future is ready; its output is deferred to the
\* target.
Finish(r) ==
    /\ fate' = [fate EXCEPT ![r] = "responded"]
    /\ Release(r)

\* The first poll, from the queue of the roster.  A task that was stopped or
\* cleaned in the meantime is left alone.
FirstPoll(ready) ==
    /\ phase = "queue" /\ fresh # <<>>
    /\ fresh' = Tail(fresh)
    /\ IF ready /\ fate[Head(fresh)] = "running"
       THEN ReadyAtOnce /\ Finish(Head(fresh))
       ELSE ~ready /\ UNCHANGED <<fate, unblock>>
    /\ UNCHANGED <<orderVars, provider, lanes, active, phase>>

\* A task was awakened and is ready.
TaskDone(r) ==
    /\ phase = "rest" /\ kind = "async"
    /\ fate[r] = "running"
    /\ Finish(r)
    /\ UNCHANGED <<orderVars, provider, lanes, fresh, active, phase>>

\* The item of a cancelled task arrives: cleanup_task, and the disposal if it was
\* supplanted (<OperateTask as Drop>::drop, OperateTask::cleanup).
TaskStopped(r) ==
    /\ phase = "rest" /\ kind = "async"
    /\ fate[r] \in {"stopping", "cleaning", "orphaned"}
    /\ fate' = [fate EXCEPT ![r] = IF @ = "stopping" THEN "disposed" ELSE "cleaned"]
    /\ Release(r)
    /\ UNCHANGED <<orderVars, provider, lanes, fresh, active, phase>>

\* A scoped session is over (finalize_scoped_session): the parent gets its
\* response or its cancellation, and the next one of the lane begins at once.
\* One that had terminated before it was supplanted keeps its response.
SessionDone(r) ==
    /\ phase = "queue" /\ kind = "workflow"
    /\ fate[r] \in Alive
    /\ \E end \in CASE fate[r] = "running" -> {"responded"}
                  [] fate[r] = "stopping" -> {"responded", "disposed"}
                  [] fate[r] = "cleaning" -> {"cleaned"} :
       LET f == [fate EXCEPT ![r] = end]
       IN IF Lane(r) # None THEN ServeNext(Lane(r), f)
                            ELSE fate' = f /\ UNCHANGED <<lanes, fresh>>
    /\ UNCHANGED <<orderVars, provider, unblock, active, phase>>

-----------------------------------------------------------------------------
(* Cleanup *)

\* OperateService::cleanup for the nodes in N and session s.  The inputs of the
\* nodes go; Delivery::cleanup strikes every order of the session, whatever node
\* it came from; tasks of the nodes are cancelled.  A task that is being cleaned
\* already has nothing left to cancel and is despawned (OperateTask::cleanup).
\* A workflow cleans up all its scoped sessions of the parent s.
\* Mine are the requests whose nodes are cleaned.
Clean(N, s) ==
    LET mine == {r \in 1..made : Origin[r].session = s /\ Origin[r].node \in N}
        struck == {r \in 1..made : fate[r] = "queued" /\ Origin[r].session = s}
        ended == IF kind = "async" THEN {r \in mine : fate[r] = "running"}
                 ELSE {r \in 1..made : fate[r] = "running" /\ Origin[r].session = s}
        again == IF kind = "async" THEN {r \in mine : fate[r] = "cleaning"} ELSE {}
    IN
    /\ MayCleanTwice \/ again = {}
    /\ lanes' = [l \in Lanes |-> Strike(lanes[l], struck)]
    /\ fate' = [r \in Requests |->
                  IF r \in mine /\ fate[r] = "input" THEN "cleaned"
                  ELSE IF r \in struck THEN IF r \in mine THEN "cleaned" ELSE "lost"
                  ELSE IF r \in ended THEN "cleaning"
                  ELSE IF r \in again THEN "orphaned"
                  ELSE fate[r]]
    /\ UNCHANGED <<orderVars, provider, fresh, unblock, phase>>

\* The scope of the nodes cleans up session s.
CleanScope(s) ==
    /\ s \in active
    /\ active' = active \ {s}
    /\ Clean(Nodes, s)

\* A trim cleans one node for session s, which goes on.
Trim(n, s) ==
    /\ MayTrim
    /\ phase = "queue"
    /\ s \in active
    /\ \E r \in 1..made : fate[r] \notin Over /\ Origin[r] = [node |-> n, session |-> s]
    /\ Clean({n}, s)
    /\ UNCHANGED active

\* The provider is despawned, and its Delivery with it.
Despawn ==
    /\ MayDespawn /\ kind = "async"
    /\ provider = "alive"
    /\ provider' = "despawned"
    /\ lanes' = [l \in Lanes |-> EmptyLane]
    /\ fate' = [r \in Requests |-> IF fate[r] = "queued" THEN "lost" ELSE fate[r]]
    /\ UNCHANGED <<orderVars, fresh, unblock, active, phase>>

\* collect_from_channels drains the ServiceLifecycleChannel.
NoticeDespawn ==
    /\ phase = "rest" /\ provider = "despawned"
    /\ provider' = "noticed"
    /\ DisposeInputs
    /\ UNCHANGED <<orderVars, lanes, fresh, unblock, active, phase>>

-----------------------------------------------------------------------------
\* The loop of flush_impulses_impl goes on when the queue it was at is empty.
NextPhase ==
    /\ \/ phase = "unblock" /\ unblock = <<>> /\ phase' = "queue"
       \/ /\ phase = "queue" /\ fresh = <<>>
          /\ \A r \in Requests : fate[r] # "input"
          /\ phase' = "rest"
       \/ phase = "rest" /\ provider # "despawned" /\ phase' = "unblock"
    /\ UNCHANGED <<orderVars, provider, lanes, fate, fresh, unblock, active>>

FlushStep ==
    \/ \E r \in Requests : Serve(r)
    \/ ServeNobody
    \/ UnblockNext
    \/ \E ready \in BOOLEAN : FirstPoll(ready)
    \/ NoticeDespawn
    \/ NextPhase

Next ==
    \/ \E i \in Offered : Request(i)
    \/ FlushStep
    \/ \E r \in Requests : TaskDone(r) \/ TaskStopped(r) \/ SessionDone(r)
    \/ \E s \in Sessions : CleanScope(s)
    \/ \E n \in Nodes, s \in Sessions : Trim(n, s)
    \/ Despawn

Spec == Init /\ [][Next]_vars

\* The flush loop goes on as long as there is work, and what was begun comes to
\* an end: a task that is not ready in one round of the flush is in a later one.
Fairness ==
    /\ WF_vars(FlushStep)
    /\ \A r \in Requests : SF_vars(TaskDone(r) \/ TaskStopped(r) \/ SessionDone(r))

FairSpec == Spec /\ Fairness

-----------------------------------------------------------------------------
(* Properties *)

\* Labels exclude each other (service.rs: "the same service provider will never
\* simultaneously execute its service for two requests with the same label
\* value"), and a serial service runs one request at a time; one that is being
\* stopped or cleaned has not ended yet.
OneAtATime ==
    \A q, r \in Requests :
        fate[q] \in Alive /\ fate[r] \in Alive /\ Lane(q) = Lane(r) /\ Lane(q) # None
            => q = r

\* No lane is stuck, and none is idle while requests wait in it: the one being
\* delivered is alive or its blocker is on its way, and the queue is empty when
\* nothing is being delivered (the assertion in insert_serial_order).
NoLaneStuck ==
    \A l \in Lanes :
        /\ lanes[l].delivering # None =>
              fate[lanes[l].delivering] \in Alive \/ l \in ToSet(unblock)
        /\ lanes[l].queue # <<>> => lanes[l].delivering # None

\* A request is stopped only by a preempting one with the same label, and never
\* if it is ensured (DeliveryInstructions::preempt, DeliveryInstructions::ensure).
OnlyItsLabelIsStopped ==
    \A r \in Requests : fate[r] = "stopping" =>
        /\ ~ins[r].ensure
        /\ \E q \in Requests \ {r} :
              /\ fate[q] \notin {"unmade", "input"}
              /\ ins[q].preempt /\ ins[q].label = ins[r].label

\* The same for an async service, whose requests are stopped one by one.
OnlyItsLabelIsStoppedAsync == kind = "async" => OnlyItsLabelIsStopped

\* A request that vanished from the queue of its lane without a disposal: its
\* service was despawned, or another node was cleaned for its session.
Vanished(r) ==
    /\ fate[r] = "lost"
    /\ \/ provider # "alive"
       \/ \E q \in 1..made : /\ Origin[q].session = Origin[r].session
                            /\ Origin[q].node # Origin[r].node

\* Every request that is made is served, or disposed of, or its node is cleaned,
\* whatever is supplanted, cleaned or despawned around it, or it has vanished in
\* one of two ways.  Its node waits in vain for one that vanished, although
\* service/internal.rs has the inputs of a despawned service drained and disposed
\* of: those in the queues of its Delivery are not (NothingIsLost).
\* (There are finitely many, so all of them are over again and again.)
EveryRequestEnds == []<>(\A r \in 1..made : fate[r] \in Answered \/ Vanished(r))

\* No request vanishes while its node waits for it: despawning a service disposes
\* of what is pending (service/internal.rs), cleaning a node leaves others alone.
NothingIsLost == \A r \in Requests : fate[r] # "lost"

\* The lanes keep the contract of LaneContract.
Serving(l) ==
    IF \E r \in Requests : fate[r] \in Alive /\ Lane(r) = l
    THEN CHOOSE r \in Requests : fate[r] \in Alive /\ Lane(r) = l
    ELSE None

Contract == INSTANCE LaneContract WITH
    serving <- [l \in Lanes |-> Serving(l)],
    waiting <- [l \in Lanes |-> lanes[l].queue]
ServesInOrder == Contract!Spec
=============================================================================
