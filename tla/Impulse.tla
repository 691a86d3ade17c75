------------------------------ MODULE Impulse ------------------------------
(***************************************************************************)
(* Impulse chains (impulse.rs, impulse/, request.rs) and the flush that     *)
(* runs and drops them (flush.rs).                                          *)
(*                                                                         *)
(* request() makes two entities, the source, which is also the session, and *)
(* the target of its response; each then() adds a target.  Entity <<c, p>>  *)
(* of chain c holds the operation of step p + 1, whose target is            *)
(* <<c, p + 1>>; the last entity may hold a terminal: take, store, ...  An  *)
(* entity is a child of the next one, so the chain goes when its last       *)
(* entity is despawned.  The commands that make a chain are applied         *)
(* together.                                                                *)
(***************************************************************************)
EXTENDS Integers, Queues, FiniteSets, FiniteSetsExt

CONSTANTS
    Chains,         \* impulse chains
    Plans,          \* Chains -> {[steps, detach, end]}: what each may be
    MaxSteps        \* steps of the longest plan

Kinds == {"map", "async", "service"}
Ends == {"none", "take", "store", "push", "event"}

ASSUME ImpulseAssumption ==
    /\ IsFiniteSet(Chains) /\ MaxSteps \in Nat
    /\ \A c \in Chains : \A p \in Plans[c] :
          /\ p.steps \in Seq(Kinds) /\ Len(p.steps) \in 1..MaxSteps
          /\ p.detach \subseteq 1..Len(p.steps)
          /\ p.end \in Ends

VARIABLES
    plan,           \* Chains -> its plan, chosen once
    made,           \* chains whose commands have been applied
    alive,          \* entities that exist
    orphans,        \* entities that were de-parented
    unused,         \* entities with UnusedTarget
    inputs,         \* entities with a value in their InputStorage
    ran,            \* entities whose step was called
    tasks,          \* entities with a task that runs
    queue,          \* roster.queue: <<"step" or "poll", entity>>
    awake,          \* roster.awake: tasks
    deferred,       \* roster.deferred_queue
    nextRoster,     \* the queue of DeferredRoster
    cancels,        \* roster.cancel: chains, whose sessions are to cancel
    notices,        \* ImpulseLifecycleChannel
    asleep,         \* tasks whose wake-up was lost
    promise,        \* Chains -> "none", "pending", "response", "cancelled", "dropped"
    holder,         \* does the target of store and push exist?
    arrived,        \* chains whose response arrived in the holder, or as an event
    cancelled,      \* chains that were cancelled
    unserved,       \* chains whose service was despawned
    broken,         \* chains an error was reported for
    crashed,        \* the flush has panicked
    phase           \* "app", or of the flush: "collect", "run", "again" (to collect)

chainVars == <<plan, made, unused>>
entityVars == <<alive, orphans, inputs, ran, tasks>>
rosterVars == <<queue, awake, deferred, nextRoster, cancels>>
resultVars == <<promise, holder, arrived, cancelled, unserved, broken>>
vars == <<chainVars, entityVars, rosterVars, resultVars, notices, asleep, crashed, phase>>

Length(c) == Len(plan[c].steps)
Session(c) == <<c, 0>>
Final(c) == <<c, Length(c)>>
Target(e) == <<e[1], e[2] + 1>>
Entities(c) == {<<c, p>> : p \in 0..Length(c)}
Steps(c) == Entities(c) \ {Final(c)}
IsDetached(e) == e[2] \in plan[e[1]].detach

AllEntities == Chains \X (0..MaxSteps)
Items == {"step", "poll"} \X AllEntities

TypeOK ==
    /\ \A c \in Chains : plan[c] \in Plans[c]
    /\ made \subseteq Chains
    /\ \A s \in {alive, orphans, unused, inputs, ran, tasks, awake, notices, asleep} :
          s \subseteq AllEntities
    /\ inputs \subseteq alive /\ tasks \subseteq alive /\ orphans \subseteq alive
    /\ queue \in Seq(Items) /\ deferred \in Seq(Items) /\ nextRoster \in Seq(Items)
    /\ cancels \in Seq(Chains)
    /\ promise \in [Chains -> {"none", "pending", "response", "cancelled", "dropped"}]
    /\ arrived \subseteq made /\ cancelled \subseteq made /\ unserved \subseteq made /\ broken \subseteq made
    /\ holder \in BOOLEAN /\ crashed \in BOOLEAN
    /\ phase \in {"app", "collect", "run", "again"}

Init ==
    /\ plan \in {f \in [Chains -> UNION Range(Plans)] : \A c \in Chains : f[c] \in Plans[c]}
    /\ made = {} /\ alive = {} /\ orphans = {} /\ unused = {}
    /\ inputs = {} /\ ran = {} /\ tasks = {}
    /\ queue = <<>> /\ awake = {} /\ deferred = <<>> /\ nextRoster = <<>> /\ cancels = <<>>
    /\ notices = {} /\ asleep = {}
    /\ promise = [c \in Chains |-> "none"]
    /\ holder = TRUE /\ arrived = {} /\ cancelled = {} /\ unserved = {} /\ broken = {}
    /\ crashed = FALSE
    /\ phase = "app"

-----------------------------------------------------------------------------
(* The application *)

\* The targets that still have UnusedTarget when the commands of chain c have been
\* applied: AddImpulse and Detach remove it, the AddOperation of a service does not.
\* A slip: nor does what takes the response.
MarkedAlways(c) == {Final(c)}

Marked(c) ==
    {e \in Entities(c) \ {Session(c)} :
        /\ ~IsDetached(e)
        /\ IF e = Final(c) THEN plan[c].end = "none"
           ELSE plan[c].steps[e[2] + 1] = "service"}

\* request(), then(), detach(), and what takes the response; a target that is
\* already despawned is noticed at once (add_lifecycle_dependency).
Create(c) ==
    /\ phase = "app" /\ c \notin made
    /\ made' = made \cup {c}
    /\ alive' = alive \cup Entities(c)
    /\ unused' = unused \cup Marked(c)
    /\ inputs' = inputs \cup {Session(c)}
    /\ nextRoster' = Append(nextRoster, <<"step", Session(c)>>)
    /\ promise' = [promise EXCEPT ![c] = IF plan[c].end = "take" THEN "pending" ELSE "none"]
    /\ notices' = IF plan[c].end \in {"store", "push"} /\ ~holder
                  THEN notices \cup {Final(c)} ELSE notices
    /\ UNCHANGED <<plan, orphans, ran, tasks, queue, awake, deferred, cancels, asleep,
                   holder, arrived, cancelled, unserved, broken, crashed, phase>>

\* The promise is dropped before it was answered; any thread may do so at any time.
DropPromise(c) ==
    /\ promise[c] = "pending"
    /\ promise' = [promise EXCEPT ![c] = "dropped"]
    /\ notices' = notices \cup {Final(c)}
    /\ UNCHANGED <<chainVars, entityVars, rosterVars, holder, arrived, cancelled, unserved, broken,
                   asleep, crashed, phase>>

\* The target of store and push is despawned, and its ImpulseLifecycle dropped.
DespawnHolder ==
    /\ phase = "app" /\ holder
    /\ holder' = FALSE
    /\ notices' = notices \cup {Final(c) : c \in {d \in made : plan[d].end \in {"store", "push"}}}
    /\ UNCHANGED <<chainVars, entityVars, rosterVars, promise, arrived, cancelled, unserved, broken,
                   asleep, crashed, phase>>

BeginFlush ==
    /\ phase = "app" /\ phase' = "collect"
    /\ UNCHANGED <<chainVars, entityVars, rosterVars, resultVars, notices, asleep, crashed>>

-----------------------------------------------------------------------------
(* Despawning *)

\* despawn_recursive: e and its descendants, which end at one that was de-parented.
\* A slip: only the entity itself goes.
FamilyOnly(e) == {e} \cap alive

Family(e) ==
    {f \in alive : f[1] = e[1] /\ f[2] <= e[2]
                   /\ \A q \in f[2]..(e[2] - 1) : <<e[1], q>> \notin orphans}

\* drop_target: the crawl up the chain stops at the first detached impulse, which
\* is de-parented and stays.
\* A slip: it does not stop.
NeverSpared(e) == {}

Spared(e) ==
    LET below == {f \in Family(e) \ {e} : IsDetached(f)}
    IN {f \in below : \A g \in below : g[2] <= f[2]}

Dropped(e) == {f \in Family(e) : \A g \in Spared(e) : f[2] > g[2]}

\* What the crawl purges from the roster: it comes past the target and every impulse
\* that has a child with Detached, which the source of the request has not.
Purged(e) == {e} \cup {f \in Dropped(e) : <<f[1], f[2] - 1>> \in Dropped(e) /\ f[2] > 1}

-----------------------------------------------------------------------------
(* The flush *)

\* collect_from_channels: deferred operations are queued, some tasks have been
\* awakened, unused targets are dropped.  The entities in the lifecycle channel are
\* received, but the loop over them iterates over drop_targets, which is empty.
\* (No target is unused and detached, so Finished is never added.)
Collected ==
    LET purged == UNION {Purged(e) : e \in unused}
    IN Without(queue \o deferred \o nextRoster, {"step", "poll"} \X purged)

DropUnused ==
    LET dead == UNION {Dropped(e) : e \in unused} IN
    /\ alive' = alive \ dead
    /\ orphans' = (orphans \cup UNION {Spared(e) : e \in unused}) \ dead
    /\ inputs' = inputs \ dead
    /\ tasks' = tasks \ dead
    /\ unused' = {}
    /\ notices' = {}

\* The flush ends when the roster is empty.
Collect(woken) ==
    /\ phase \in {"collect", "again"} /\ ~crashed
    /\ woken \subseteq tasks \ asleep
    /\ DropUnused
    /\ queue' = Collected /\ deferred' = <<>> /\ nextRoster' = <<>>
    /\ awake' = woken
    /\ phase' = IF Collected = <<>> /\ woken = {} /\ cancels = <<>> THEN "app" ELSE "run"
    /\ UNCHANGED <<plan, made, ran, cancels, resultVars, asleep, crashed>>

\* flush_loop_limit is reached after a round: the roster is appended to the DeferredRoster, but
\* append() leaves the tasks in awake behind.
CollectToLimit(woken) ==
    /\ phase = "again" /\ ~crashed
    /\ woken \subseteq tasks \ asleep
    /\ DropUnused
    /\ queue' = <<>> /\ deferred' = <<>> /\ nextRoster' = Collected
    /\ awake' = {} /\ asleep' = asleep \cup woken
    /\ phase' = "app"
    /\ UNCHANGED <<plan, made, ran, cancels, resultVars, crashed>>

\* Has e an operation with an InputStorage?  A detached target without one has
\* nothing that would take its input.
TakesInput(e) == e # Final(e[1]) \/ plan[e[1]].end # "none"

\* give_input, from entity e to its target: a session that is despawned is ignored.
\* A slip: nobody looks whether the target exists.
RefusedIfTaken(e) == Session(e[1]) \in alive /\ ~TakesInput(Target(e))

Refused(e) == Target(e) \notin alive \/ (Session(e[1]) \in alive /\ ~TakesInput(Target(e)))
Accepted(e) == ~Refused(e) /\ Session(e[1]) \in alive

\* An operation that is broken reports an error; without a scope and a session
\* nothing is cancelled (try_emit_cancel).
Respond(e) ==
    /\ inputs' = (inputs \ {e}) \cup (IF Accepted(e) THEN {Target(e)} ELSE {})
    /\ queue' = IF Accepted(e) THEN Append(Tail(queue), <<"step", Target(e)>>) ELSE Tail(queue)
    /\ broken' = IF Refused(e) THEN broken \cup {e[1]} ELSE broken

At(e) == /\ phase = "run" /\ ~crashed /\ cancels = <<>>
         /\ queue # <<>> /\ Head(queue) = <<"step", e>>

Ready(e) == At(e) /\ e \in alive /\ e \in inputs

\* execute_operation for an entity that is despawned, or has no input any more.
Skip(e) ==
    /\ At(e) /\ ~(e \in alive /\ e \in inputs)
    /\ queue' = Tail(queue)
    /\ UNCHANGED <<chainVars, entityVars, awake, deferred, nextRoster, cancels, resultVars,
                   notices, asleep, crashed, phase>>

IsStep(e, kind) == e \in Steps(e[1]) /\ plan[e[1]].steps[e[2] + 1] = kind

\* ImpulseBlockingMap::execute, or a service that responds at once.
RunMap(e) ==
    /\ Ready(e) /\ (IsStep(e, "map") \/ IsStep(e, "service"))
    /\ ran' = ran \cup {e}
    /\ Respond(e)
    /\ UNCHANGED <<chainVars, alive, orphans, tasks, awake, deferred, nextRoster, cancels,
                   promise, holder, arrived, cancelled, unserved, notices, asleep, crashed, phase>>

\* The request is supplanted, or the workflow that serves it cancelled.
ServiceCancels(e) ==
    /\ Ready(e) /\ IsStep(e, "service")
    /\ inputs' = inputs \ {e}
    /\ queue' = Tail(queue)
    /\ cancels' = <<e[1]>>
    /\ UNCHANGED <<chainVars, alive, orphans, ran, tasks, awake, deferred, nextRoster,
                   resultVars, notices, asleep, crashed, phase>>

\* The service is despawned: dispose_for_unavailable_service takes the input, but
\* the disposal of an impulse is only turned into a cancellation if it was supplanted.
ServiceGone(e) ==
    /\ Ready(e) /\ IsStep(e, "service")
    /\ inputs' = inputs \ {e}
    /\ queue' = Tail(queue)
    /\ unserved' = unserved \cup {e[1]}
    /\ UNCHANGED <<chainVars, alive, orphans, ran, tasks, awake, deferred, nextRoster,
                   cancels, promise, holder, arrived, cancelled, broken, notices, asleep, crashed, phase>>

\* ImpulseAsyncMap::execute adds a task and queues it for its first poll.
RunAsync(e) ==
    /\ Ready(e) /\ IsStep(e, "async")
    /\ inputs' = inputs \ {e}
    /\ ran' = ran \cup {e}
    /\ tasks' = tasks \cup {e}
    /\ queue' = Append(Tail(queue), <<"poll", e>>)
    /\ UNCHANGED <<chainVars, alive, orphans, awake, deferred, nextRoster, cancels,
                   resultVars, notices, asleep, crashed, phase>>

\* OperateTask::execute when the future is ready: entity_mut(target) panics if the
\* target is despawned, else its input is deferred.
Finish(e) ==
    /\ tasks' = tasks \ {e}
    /\ IF Target(e) \notin alive THEN crashed' = TRUE ELSE UNCHANGED crashed
    /\ inputs' = inputs \cup (IF Accepted(e) THEN {Target(e)} ELSE {})
    /\ deferred' = IF Accepted(e) THEN Append(deferred, <<"step", Target(e)>>) ELSE deferred
    /\ broken' = IF Refused(e) THEN broken \cup {e[1]} ELSE broken

FirstPoll(e, ready) ==
    /\ phase = "run" /\ ~crashed /\ cancels = <<>>
    /\ queue # <<>> /\ Head(queue) = <<"poll", e>>
    /\ queue' = Tail(queue)
    /\ IF ready /\ e \in tasks THEN Finish(e)
       ELSE ~ready /\ UNCHANGED <<inputs, tasks, deferred, broken, crashed>>
    /\ UNCHANGED <<chainVars, alive, orphans, ran, awake, nextRoster, cancels, promise,
                   holder, arrived, cancelled, unserved, notices, asleep, phase>>

Poll(e, ready) ==
    /\ phase = "run" /\ ~crashed /\ cancels = <<>> /\ queue = <<>>
    /\ e \in awake
    /\ awake' = awake \ {e}
    /\ IF ready /\ e \in tasks THEN Finish(e)
       ELSE ~ready /\ UNCHANGED <<inputs, tasks, deferred, broken, crashed>>
    /\ UNCHANGED <<chainVars, alive, orphans, ran, queue, nextRoster, cancels, promise,
                   holder, arrived, cancelled, unserved, notices, asleep, phase>>

Despawn(family) ==
    /\ alive' = alive \ family
    /\ orphans' = orphans \ family
    /\ inputs' = inputs \ family
    /\ tasks' = tasks \ family

\* The terminals: TakenResponse, Store, Push and SendEvent take their input, pass it
\* on and despawn the chain.  Push is broken if its target is gone; Store is not.
Terminate(c) ==
    /\ Ready(Final(c))
    /\ queue' = Tail(queue)
    /\ IF plan[c].end = "push" /\ ~holder
       THEN /\ inputs' = inputs \ {Final(c)}
            /\ broken' = broken \cup {c}
            /\ UNCHANGED <<alive, orphans, tasks, promise, arrived>>
       ELSE /\ Despawn(Family(Final(c)))
            /\ promise' = [promise EXCEPT ![c] = IF @ = "pending" THEN "response" ELSE @]
            /\ arrived' = IF plan[c].end = "event" \/ (plan[c].end \in {"store", "push"} /\ holder)
                          THEN arrived \cup {c} ELSE arrived
            /\ UNCHANGED broken
    /\ UNCHANGED <<chainVars, ran, awake, deferred, nextRoster, cancels, holder, cancelled,
                   unserved, notices, asleep, crashed, phase>>

\* cancel_impulse goes from the session along the targets to the end of the chain,
\* or to where a target is missing, and despawns what is there, with its family.
\* A slip: it takes the session for the end.
NoTravel(c) == Session(c)

Terminal(c) ==
    LET gap == {p \in 1..Length(c) : <<c, p>> \notin alive}
    IN IF gap = {} THEN Final(c) ELSE <<c, Min(gap)>>

Cancel ==
    /\ phase = "run" /\ ~crashed /\ cancels # <<>>
    /\ cancels' = Tail(cancels)
    /\ LET c == Head(cancels)
           end == Terminal(c)
       IN IF Session(c) \notin alive
          THEN broken' = broken \cup {c} /\ UNCHANGED <<alive, orphans, inputs, tasks, promise, cancelled>>
          ELSE /\ Despawn(Family(end) \cap (IF end \in alive THEN alive ELSE {}))
               /\ promise' = [promise EXCEPT ![c] =
                                IF @ = "pending" /\ end = Final(c) THEN "cancelled" ELSE @]
               /\ cancelled' = cancelled \cup {c}
               /\ UNCHANGED broken
    /\ UNCHANGED <<chainVars, ran, queue, awake, deferred, nextRoster, holder, arrived,
                   unserved, notices, asleep, crashed, phase>>

EndRound ==
    /\ phase = "run" /\ ~crashed
    /\ queue = <<>> /\ awake = {} /\ cancels = <<>>
    /\ phase' = "again"
    /\ UNCHANGED <<chainVars, entityVars, rosterVars, resultVars, notices, asleep, crashed>>

-----------------------------------------------------------------------------
RosterStep ==
    \/ \E e \in alive \cup {x[2] : x \in ToSet(queue)} :
          \/ Skip(e) \/ RunMap(e) \/ ServiceCancels(e) \/ ServiceGone(e) \/ RunAsync(e)
          \/ \E ready \in BOOLEAN : FirstPoll(e, ready)
    \/ \E c \in made : Terminate(c)
    \/ Cancel \/ EndRound

Next ==
    \/ \E c \in Chains : Create(c) \/ DropPromise(c)
    \/ DespawnHolder \/ BeginFlush
    \/ \E woken \in SUBSET tasks : Collect(woken) \/ CollectToLimit(woken)
    \/ RosterStep
    \/ \E e \in awake, ready \in BOOLEAN : Poll(e, ready)

Spec == Init /\ [][Next]_vars

\* The application flushes again and again, and a flush goes on.  A task that is
\* awakened again and again is ready some time.
Fairness ==
    /\ WF_vars(BeginFlush) /\ WF_vars(RosterStep)
    /\ WF_vars(\E woken \in SUBSET tasks : Collect(woken))
    /\ WF_vars(\E e \in awake, ready \in BOOLEAN : Poll(e, ready))
    /\ \A e \in Chains \X (0..(MaxSteps - 1)) :
          /\ SF_vars(\E woken \in SUBSET tasks : e \in woken /\ Collect(woken))
          /\ SF_vars(e \in awake /\ Poll(e, TRUE))

FairSpec == Spec /\ Fairness

-----------------------------------------------------------------------------
(* Properties *)

\* What the code leaves behind: a chain whose service is despawned is forgotten
\* (ServiceGone), and so is one with a task that was awakened when the flush hit its
\* limit (CollectToLimit).
Forgotten(c) == c \in unserved \/ asleep \cap Entities(c) # {}

\* Keep executing the impulse chain up to a detached impulse (Impulse::detach), even
\* if what is downstream of it is dropped, unless it is cancelled or forgotten.
DetachedRuns ==
    \A c \in Chains :
        c \in made ~> \/ c \in cancelled \/ Forgotten(c)
                      \/ \A e \in Steps(c) : IsDetached(Target(e)) => e \in ran

\* A promise that is kept is answered, by the response or by a cancellation
\* (Impulse::take_response), unless the chain is forgotten.
PromisesAnswered ==
    \A c \in Chains : promise[c] = "pending" ~> promise[c] # "pending" \/ Forgotten(c)

\* The same without the exception.
EveryPromiseAnswered ==
    \A c \in Chains : promise[c] = "pending" ~> promise[c] # "pending"

\* Every chain that is not forgotten and that no error is reported for is despawned
\* in the end, except for the detached part of a chain whose rest was dropped.
EndsClean ==
    \A c \in Chains :
        c \in made ~> \/ alive \cap Entities(c) = {}
                      \/ c \in broken \/ Forgotten(c)
                      \/ orphans \cap Entities(c) # {}

\* A chain that is cancelled is over: nothing of it runs any more, nothing arrives
\* and no task goes on, except for the detached part of a chain whose rest was
\* dropped (cancel_impulse).
CancelledIsOver ==
    \A c \in cancelled :
        orphans \cap Entities(c) = {} =>
            alive \cap Entities(c) = {} /\ c \notin arrived /\ promise[c] # "response"

\* The flush drops only chains that nothing takes the response of (the table at
\* Impulse::detach: "using none of the above").
OnlyUnusedIsDropped ==
    phase = "collect" => \A e \in unused : plan[e[1]].end = "none"

\* An impulse that is dropped will never be run at all (the same table): a step whose
\* response nothing detached depends on runs only if something takes the last one.
UnusedNeverRuns ==
    \A e \in ran : plan[e[1]].end = "none" => \E p \in plan[e[1]].detach : p > e[2]

\* The flush does not panic.
NeverCrashes == ~crashed

\* Once the flush has received the notice that the promise was dropped, no step of
\* the chain begins any more (the same table: "the promise ... is dropped").
DroppedNeverRuns ==
    [][\A c \in Chains :
          promise[c] = "dropped" /\ plan[c].detach = {} /\ Final(c) \notin notices
              => ran' \cap Entities(c) = ran \cap Entities(c)]_vars
=============================================================================
