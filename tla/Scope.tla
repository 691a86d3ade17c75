-------------------------------- MODULE Scope --------------------------------
(***************************************************************************)
(* One scope of a workflow (operation/scope.rs, operation/cleanup.rs) and  *)
(* the part of the flush loop that drives it (flush.rs, operation.rs).     *)
(*                                                                         *)
(* The scope is a node of an outer workflow.  Each request it gets from a  *)
(* parent session begins a scoped session.  Inside are three nodes,        *)
(*                                                                         *)
(*     enter --> fork --> filter, async --> terminal                       *)
(*                  \____________________________^                         *)
(*                                                                         *)
(* "fork" is any synchronous node with several outputs (fork_clone.rs,     *)
(* branching.rs), "filter" a CancelFilter (filter.rs), and "async" a       *)
(* service whose requests run as tasks (operate_service.rs,                *)
(* operate_task.rs).                                                       *)
(* Reaching the terminal, a cancellation, a disposal that leaves the       *)
(* terminal unreachable, or the parent cleaning up, each begin the end of  *)
(* a session: the inner nodes are cleaned, then the cleanup workflows run, *)
(* then the session is finalized and the outcome is sent to the parent.    *)
(*                                                                         *)
(* World-exclusive code runs to completion, so an action is one operation  *)
(* of the roster, or one item of garbage_cleanup or collect_from_channels, *)
(* with `phase' saying where the flush is.  The loop over sessions in      *)
(* cleanup_entire_scope is taken one session at a time (closing).          *)
(***************************************************************************)
EXTENDS Queues, FiniteSets

CONSTANTS
    Parents,            \* parent sessions of the outer workflow
    None,               \* no id, no parent, no item; a cleanup that has not begun
    All,                \* the target of a Cancel without a session
    MaxSessions,        \* scoped sessions that are spawned
    MaxPerParent,       \* requests that one parent sends to this scope
    MaxOutputs,         \* inputs that "fork" may give to the terminal at once
    CleanupWorkflows,   \* the cleanup workflows of this scope
    OnTerminate,        \* those that run when the scope was terminated
    OnCancelled,        \* those that run when it was not
    Uninterruptible,    \* ScopeSettings
    EarlyCleanup,       \* when the outer workflow may clean up a parent
    MayStop,            \* may the outer workflow cancel a parent's sessions?
    MaySupplant,        \* may a task of "async" be supplanted and stopped?
    CleanupMayCancel    \* may a cleanup workflow be cancelled?

Sessions == 1..MaxSessions

ASSUME ScopeAssumption ==
    /\ MaxSessions \in Nat /\ MaxPerParent \in Nat /\ MaxOutputs \in Nat
    /\ Parents \cap Nat = {} /\ {None, All} \cap (Nat \cup Parents) = {}
    /\ None # {}
    /\ OnTerminate \subseteq CleanupWorkflows
    /\ OnCancelled \subseteq CleanupWorkflows
    /\ EarlyCleanup \in {"never", "while open", "any time"}
    /\ {Uninterruptible, MayStop, MaySupplant, CleanupMayCancel} \subseteq BOOLEAN

Inner == {"fork", "filter", "async"}    \* ScopeContents
CleanupIds == Sessions \cup Parents     \* Cleanup::cleanup_id
NoItem == [id |-> None, dispose |-> FALSE]

VARIABLES
    \* ScopedSessionStorage
    status,     \* Sessions -> ScopedSessionStatus, "unborn" or "dropped"
    active,     \* the sessions whose SessionStatus is Active
    owner,      \* Sessions -> ParentSession
    parent,     \* Parents -> "active" | "cleaning": the outer SessionStatus
    \* nodes
    inputs,     \* node -> its InputStorage
    staging,    \* Staging: sessions whose first output has reached the terminal
    tasks,      \* Sessions -> the task of "async": "none" | "running" |
                \*             "cleaning" | "stopping"
    taskId,     \* Sessions -> cleanup id its ActiveTask is being cleaned for
    arriving,   \* Sessions -> the channel item its cancelled task will send:
                \* the cleanup it notifies of, and whether it disposes, or NoItem
    \* cleanup
    closing,    \* what is left of the loop in cleanup_entire_scope
    contents,   \* CleanupContents: cleanup id -> nodes not yet clean
    awaiting,   \* AwaitingCleanupStorage
    checks,     \* CheckAwaitingSession inputs of the finish node
    dones,      \* () inputs of the finish node
    runs,       \* cleanup workflows that are running
    \* roster
    phase,      \* "cleanups", "cancels" (garbage_cleanup, then an operation),
                \* "channel", "disposals" (collect_from_channels)
    awake,      \* tasks were polled: the queue rests until the next collection
    queue, deferred, cancels, disposed, finished,
    collected,  \* the sessions whose items this collect_from_channels takes
    \* history
    begun,      \* Sessions -> how often its cleanup workflows were begun
    report,     \* Sessions -> what the outer workflow was sent
    finals,     \* Sessions -> how often it was finalized
    clean,      \* parents that were told that this scope is clean
    asked       \* sessions somebody cancelled, or that cannot terminate

sessionVars == <<status, active, owner, parent>>
taskVars    == <<tasks, taskId, arriving>>
nodeVars    == <<inputs, staging>>
cleanVars   == <<contents, awaiting>>
finishVars  == <<checks, dones, runs>>
rosterVars  == <<awake, queue, deferred, cancels, disposed, finished, collected>>
historyVars == <<begun, report, finals, clean, asked>>
vars == <<sessionVars, taskVars, nodeVars, closing, cleanVars, finishVars,
          phase, rosterVars, historyVars>>

-----------------------------------------------------------------------------
(* Helpers *)

\* The pair of s is in ScopedSessionStorage.
HasPair(s) == status[s] \notin {"unborn", "dropped"}

\* A slip: a session that is already ending is cancelled again.
CancelEnding(s) == HasPair(s)

\* to_cancelled succeeds.
CanCancel(s) == status[s] \in {"Ongoing", "DeferredCleanup"}

\* give_input: the input is dropped unless its session is active.
Give(node, s, n) ==
    IF s \in active THEN inputs[node] \o [i \in 1..n |-> s] ELSE inputs[node]

WakeUps(node, s, n) == IF s \in active THEN [i \in 1..n |-> node] ELSE <<>>

\* check_reachability for the terminal: an input on the way, an active task, or
\* a value that already got there.
Reachable(s) ==
    \/ \E node \in Inner \cup {"terminal"} : s \in ToSet(inputs[node])
    \/ tasks[s] # "none"
    \/ s \in staging

\* cleanup_entire_scope for the sessions in S, whose status just became st.
Close(S, st, id, why) ==
    /\ status' = [s \in Sessions |-> IF s \in S THEN st ELSE status[s]]
    /\ closing' = {[session |-> s, id |-> id[s], why |-> why] : s \in S}

\* cleanup_task: is no other task of the node being cleaned for this id?
\* A slip: the task that is done counts as one.
NoTaskAtAll(s, id) == \A t \in Sessions : tasks[t] # "none" => taskId[t] # id

NoOtherTask(s, id) ==
    \A t \in Sessions \ {s} : tasks[t] # "none" => taskId[t] # id

\* register_cleanup_of_node, and cleanup_finished when it was the last one.
\* left is what remains of contents[id]
Register(left, s, id) ==
    /\ contents' = [contents EXCEPT ![id] = left]
    /\ finished' = IF left = {} THEN Append(finished, [session |-> s, id |-> id])
                                ELSE finished

\* The entry of s in AwaitingCleanupStorage, and the one that waits for the cleanup
\* workflow r; 0 if there is none.
EntryOf(s) == SelectInSeq(awaiting, LAMBDA a : a.session = s)
EntryWith(r) == SelectInSeq(awaiting, LAMBDA a : a.left # None /\ r \in a.left)

-----------------------------------------------------------------------------
(* garbage_cleanup *)

\* ActiveTasksStorage::cleanup: does "async" notify at once?
\* A slip: it does not wait for its tasks.
AsyncDoesNotWait(s, id) == TRUE

AsyncIsClean(s, id) ==
    \/ tasks[s] = "none"
    \/ tasks[s] = "cleaning" /\ NoOtherTask(s, id)

\* One session of cleanup_entire_scope: its nodes are told to clean.  Each
\* forgets its inputs and is clean, "async" unless the session has a task.
\* A task that is already winding down notifies at once; a stopped one has lost
\* its OperateTask, its cleanup is an error, and it does not notify at all.
CleanSession ==
    \E c \in closing :
        LET s == c.session
            id == c.id
        IN
        /\ \A d \in closing : s <= d.session
        /\ closing' = closing \ {c}
        /\ awaiting' = Append(awaiting,
                         [session |-> s, id |-> id, why |-> c.why, left |-> None])
        /\ inputs' = [node \in DOMAIN inputs |->
                        IF node \in Inner THEN Without(inputs[node], {s}) ELSE inputs[node]]
        /\ Register(IF AsyncIsClean(s, id) THEN {} ELSE {"async"}, s, id)
        /\ tasks' = [tasks EXCEPT ![s] =
                        IF @ = "running" THEN "cleaning"
                        ELSE IF @ = "cleaning" THEN "none" ELSE @]
        /\ taskId' = [taskId EXCEPT ![s] = IF tasks[s] \in {"running", "stopping"}
                                           THEN id ELSE None]
        /\ arriving' = [arriving EXCEPT ![s] = IF tasks[s] = "running"
                                               THEN [id |-> id, dispose |-> FALSE] ELSE @]
        /\ active' = active \ {s}
        /\ UNCHANGED <<status, owner, parent, staging, finishVars, phase, queue,
                       deferred, cancels, disposed, collected, historyVars, awake>>

\* Cleanup::trigger of the item pushed last, then begin_cleanup_workflows.
\* Its first awaiting entry learns which cleanup workflows now run.
TriggerCleanup ==
    /\ closing = {} /\ phase = "cleanups" /\ finished # <<>>
    /\ LET c == Last(finished)
           s == c.session
           i == EntryOf(s)
           ws == IF awaiting[i].why = "Terminated" THEN OnTerminate ELSE OnCancelled
           begin == {[session |-> s, workflow |-> w, n |-> begun[s]] : w \in ws}
       IN
       /\ finished' = Front(finished)
       /\ contents' = [contents EXCEPT ![c.id] = {}]
       /\ status' = [status EXCEPT ![s] = IF HasPair(s) THEN "dropped" ELSE @]
       /\ IF i = 0
          THEN UNCHANGED <<awaiting, checks, runs, queue, begun>>
          ELSE /\ awaiting' = [awaiting EXCEPT ![i].left = begin]
               /\ checks' = Append(checks, s)
               /\ queue' = Append(queue, "finish")
               /\ runs' = runs \cup begin
               /\ begun' = [begun EXCEPT ![s] = @ + 1]
    /\ UNCHANGED <<active, owner, parent, taskVars, nodeVars, closing, dones, phase, deferred,
                   cancels, disposed, collected, report, finals, clean, asked, awake>>

\* The first loop of garbage_cleanup is over.  What the second, over the
\* cancels, adds to cleanup_finished stays there until the next time.
CleanupsDone == phase = "cancels" \/ (phase = "cleanups" /\ finished = <<>>)

\* cancel_one makes the session it was asked to cancel the cleanup id.
\* A slip: the cleanups of a cancellation of every session share one id.
CancelIdShared(x, s) == x

CancelId(x, s) == IF x = All THEN s ELSE x

\* receive_cancel and cancel_one: the target is a scoped session, or a parent
\* session, or every session of the scope.  to_cancelled leaves alone what is
\* no longer ongoing.
HandleCancel ==
    /\ closing = {} /\ CleanupsDone /\ cancels # <<>>
    /\ phase' = "cancels"
    /\ LET x == Head(cancels)
           S == {s \in Sessions : CanCancel(s) /\ x \in {s, owner[s], All}}
       IN Close(S, "Cancelled", [s \in Sessions |-> CancelId(x, s)], "Cancelled")
    /\ cancels' = Tail(cancels)
    /\ UNCHANGED <<active, owner, parent, taskVars, nodeVars, cleanVars, finishVars,
                   queue, deferred, disposed, finished, collected, historyVars, awake>>

-----------------------------------------------------------------------------
(* The operations of the roster.  Each is followed by garbage_cleanup. *)

Running == closing = {} /\ CleanupsDone /\ cancels = <<>>

\* An operation of the roster's queue may run.
QueueRuns == Running /\ ~awake

\* roster.queue.pop_front gave this node.
Pop(node) ==
    /\ QueueRuns
    /\ queue # <<>> /\ Head(queue) = node
    /\ phase' = "cleanups"

\* take_input found nothing: NotReady.  Its input was cleaned up.
PopNothing ==
    /\ \E node \in Inner \cup {"terminal"} : Pop(node) /\ inputs[node] = <<>>
    /\ queue' = Tail(queue)
    /\ UNCHANGED <<sessionVars, taskVars, nodeVars, closing, cleanVars, finishVars,
                   deferred, cancels, disposed, finished, collected, historyVars, awake>>

\* OperateScope::execute and begin_scope: the next session is spawned.  An
\* input of a parent that was cleaned since is gone from inputs["scope"].
ExecScope ==
    /\ Pop("scope")
    /\ IF inputs["scope"] = <<>>
       THEN /\ queue' = Tail(queue)
            /\ UNCHANGED <<status, active, owner, inputs>>
       ELSE \E s \in Sessions :
            /\ status[s] = "unborn"
            /\ \A t \in 1..(s - 1) : status[t] # "unborn"
            /\ status' = [status EXCEPT ![s] = "Ongoing"]
            /\ active' = active \cup {s}
            /\ owner' = [owner EXCEPT ![s] = Head(inputs["scope"])]
            /\ inputs' = [inputs EXCEPT !["scope"] = Tail(@), !["fork"] = Append(@, s)]
            /\ queue' = Append(Tail(queue), "fork")
    /\ UNCHANGED <<parent, taskVars, staging, closing, cleanVars, finishVars,
                   deferred, cancels, disposed, finished, collected, historyVars, awake>>

\* A branch that gets no output is disposed of.
\* A slip: only the terminal's is.
DisposesOfTerminal(toFilter, toAsync, n) == n = 0 /\ toAsync

Disposes(toFilter, toAsync, n) == n = 0 \/ ~toAsync \/ ~toFilter

\* A synchronous node gives inputs to some of its targets, n to the terminal,
\* and disposes of the outputs it does not produce.
ExecFork(toFilter, toAsync, n) ==
    /\ Pop("fork") /\ inputs["fork"] # <<>>
    /\ LET s == Head(inputs["fork"])
           f == IF toFilter THEN 1 ELSE 0
           k == IF toAsync THEN 1 ELSE 0
       IN
       /\ inputs' = [inputs EXCEPT !["fork"] = Tail(@), !["filter"] = Give("filter", s, f),
                         !["async"] = Give("async", s, k), !["terminal"] = Give("terminal", s, n)]
       /\ queue' = Tail(queue) \o WakeUps("filter", s, f) \o WakeUps("async", s, k)
                               \o WakeUps("terminal", s, n)
       /\ disposed' = IF Disposes(toFilter, toAsync, n) THEN Append(disposed, s) ELSE disposed
    /\ UNCHANGED <<sessionVars, taskVars, staging, closing, cleanVars, finishVars,
                   deferred, cancels, finished, collected, historyVars, awake>>

\* CancelFilter::execute: the value passes on to the terminal, or the session is
\* cancelled (emit_cancel).
ExecFilter(pass) ==
    /\ Pop("filter") /\ inputs["filter"] # <<>>
    /\ LET s == Head(inputs["filter"])
           n == IF pass THEN 1 ELSE 0
       IN
       /\ inputs' = [inputs EXCEPT !["filter"] = Tail(@), !["terminal"] = Give("terminal", s, n)]
       /\ queue' = Tail(queue) \o WakeUps("terminal", s, n)
       /\ cancels' = IF pass THEN cancels ELSE Append(cancels, s)
       /\ asked' = IF pass THEN asked ELSE asked \cup {s}
    /\ UNCHANGED <<sessionVars, taskVars, staging, closing, cleanVars, finishVars,
                   deferred, disposed, finished, collected, begun, report, finals, clean, awake>>

\* OperateService::execute: a task is spawned for the session (add, setup).
ExecAsync ==
    /\ Pop("async") /\ inputs["async"] # <<>>
    /\ LET s == Head(inputs["async"]) IN
       /\ inputs' = [inputs EXCEPT !["async"] = Tail(@)]
       /\ tasks' = [tasks EXCEPT ![s] = "running"]
    /\ queue' = Tail(queue)
    /\ UNCHANGED <<sessionVars, taskId, arriving, staging, closing, cleanVars, finishVars,
                   deferred, cancels, disposed, finished, collected, historyVars, awake>>

\* Terminate::execute.  Only the first output counts (staging); without a pair
\* the node is taken to be broken, and try_emit_broken cancels every session.
ExecTerminal ==
    /\ Pop("terminal") /\ inputs["terminal"] # <<>>
    /\ LET s == Head(inputs["terminal"]) IN
       /\ inputs' = [inputs EXCEPT !["terminal"] = Tail(@)]
       /\ staging' = staging \cup {s}
       /\ IF s \notin staging /\ status[s] = "Ongoing"
          THEN Close({s}, "Terminated", [t \in Sessions |-> t], "Terminated")
          ELSE IF s \notin staging /\ status[s] = "DeferredCleanup"
          THEN Close({s}, "Cleanup", [t \in Sessions |-> t], "Terminated")
          ELSE UNCHANGED <<status, closing>>
       /\ cancels' = IF s \notin staging /\ ~HasPair(s) THEN Append(cancels, All)
                                                        ELSE cancels
    /\ queue' = Tail(queue)
    /\ UNCHANGED <<active, owner, parent, taskVars, cleanVars, finishVars, deferred, disposed,
                   finished, collected, historyVars, awake>>

\* A poll of a task that is ready (OperateTask::execute): its output is
\* deferred to the terminal, and the task is gone.  Tasks are polled when the
\* queue was emptied, one after the other.
TaskDone(s) ==
    /\ Running /\ (queue = <<>> \/ awake) /\ tasks[s] = "running"
    /\ awake' = TRUE
    /\ tasks' = [tasks EXCEPT ![s] = "none"]
    /\ inputs' = [inputs EXCEPT !["terminal"] = Give("terminal", s, 1)]
    /\ deferred' = deferred \o WakeUps("terminal", s, 1)
    /\ phase' = "cleanups"
    /\ UNCHANGED <<sessionVars, taskId, arriving, staging, closing, cleanVars, finishVars,
                   queue, cancels, disposed, finished, collected, historyVars>>

\* stop_task: a request of another workflow supplants the task.  OperateTask is
\* dropped, and its channel item keeps the cleanup it had, which is none.
SupplantTask(s) ==
    /\ MaySupplant
    /\ QueueRuns /\ tasks[s] = "running"
    /\ tasks' = [tasks EXCEPT ![s] = "stopping"]
    /\ arriving' = [arriving EXCEPT ![s] = [id |-> None, dispose |-> TRUE]]
    /\ phase' = "cleanups"
    /\ UNCHANGED <<sessionVars, taskId, nodeVars, closing, cleanVars, finishVars,
                   rosterVars, historyVars>>

-----------------------------------------------------------------------------
(* The finish node *)

\* The entry is kept only if the parent is yet to be told.
\* A slip: it is removed whatever the status.
EntryForgotten(i, aw) == RemoveAt(aw, i)

EntriesKept(i, aw) == IF aw[i].why = "EarlyCleanup" THEN aw ELSE RemoveAt(aw, i)

\* A slip: the first output stays in the terminal when it is not sent.
StagingKept(s, why) == IF why = "Terminated" THEN staging \ {s} ELSE staging

StagingLeft(s, why) == staging \ {s}

\* cleaning_finished, of the entries with one cleanup id.
\* A slip: one entry that is finished is enough.
FinishedOnce(same) == \E b \in same : b.left = {}

CleaningFinished(same) == \A b \in same : b.left = {}

\* finalize_scoped_session for entry i of aw, which is awaiting after the
\* entry was updated.
FinalizeSession(i, aw) ==
    LET a == aw[i]
        s == a.session
        p == owner[s]
        rest == EntriesKept(i, aw)
        same == {b \in ToSet(rest) : b.id = a.id}
        tell == /\ \E b \in same : b.why = "EarlyCleanup"
                /\ CleaningFinished(same)
                /\ \A t \in Sessions : HasPair(t) => owner[t] # p
        respond == a.why = "Terminated" /\ s \in staging /\ parent[p] = "active"
    IN
    /\ awaiting' = IF tell THEN Without(rest, {b \in ToSet(rest) : owner[b.session] = p}) ELSE rest
    /\ clean' = IF tell /\ a.why = "EarlyCleanup" THEN clean \cup {p} ELSE clean
    /\ staging' = StagingLeft(s, a.why)
    /\ inputs' = IF a.why = "Terminated" THEN inputs
                 ELSE [inputs EXCEPT !["terminal"] = Without(@, {s})]
    /\ report' = [report EXCEPT ![s] =
                    IF a.why = "Cancelled" THEN Append(@, "cancelled")
                    ELSE IF respond THEN Append(@, "response") ELSE @]
    /\ finals' = [finals EXCEPT ![s] = @ + 1]

Unfinalized(aw) ==
    /\ awaiting' = aw
    /\ UNCHANGED <<nodeVars, clean, report, finals>>

\* FinishCleanup::execute: a session whose cleanup workflows have begun is
\* finalized if there were none to begin; or one cleanup workflow is done and
\* is deducted (deduct_finished_cleanup).
ExecFinish ==
    /\ Pop("finish")
    /\ queue' = Tail(queue)
    /\ IF checks # <<>>
       THEN LET i == EntryOf(Head(checks)) IN
            /\ IF i # 0 /\ awaiting[i].left = {}
               THEN FinalizeSession(i, awaiting)
               ELSE Unfinalized(awaiting)
            /\ checks' = Tail(checks)
            /\ UNCHANGED dones
       ELSE IF dones = <<>> THEN Unfinalized(awaiting) /\ UNCHANGED <<checks, dones>>
       ELSE LET r == Head(dones)
                i == EntryWith(r)
                aw == [awaiting EXCEPT ![i].left = @ \ {r}]
            IN
            /\ IF i = 0 THEN Unfinalized(awaiting)
               ELSE IF aw[i].left = {} THEN FinalizeSession(i, aw)
               ELSE Unfinalized(aw)
            /\ dones' = Tail(dones)
            /\ UNCHANGED checks
    /\ UNCHANGED <<sessionVars, taskVars, closing, contents, runs, deferred, cancels,
                   disposed, finished, collected, begun, asked, awake>>

\* A cleanup workflow terminates: its own scope gives () to the finish node.
CleanupWorkflowDone(r) ==
    /\ QueueRuns /\ r \in runs
    /\ runs' = runs \ {r}
    /\ dones' = Append(dones, r)
    /\ queue' = Append(queue, "finish")
    /\ phase' = "cleanups"
    /\ UNCHANGED <<sessionVars, taskVars, nodeVars, closing, cleanVars, checks, deferred,
                   cancels, disposed, finished, collected, historyVars, awake>>

\* A cleanup workflow is cancelled.  The finish node of its scope has no
\* ScopeStorage, so try_emit_cancel sends the Cancel to the session entity that
\* begin_cleanup_workflows spawned, which cannot be cancelled: it becomes an
\* unhandled error and the finish node of this scope hears nothing.
CleanupWorkflowCancelled(r) ==
    /\ CleanupMayCancel
    /\ QueueRuns /\ r \in runs
    /\ runs' = runs \ {r}
    /\ phase' = "cleanups"
    /\ UNCHANGED <<sessionVars, taskVars, nodeVars, closing, cleanVars, checks, dones,
                   rosterVars, historyVars>>

-----------------------------------------------------------------------------
(* collect_from_channels, when the queues are empty: the items of the tasks in
   T have arrived; deferred inputs are queued; then the disposals are handled. *)
Collect(T) ==
    /\ Running /\ (queue = <<>> \/ awake)
    /\ \A s \in T : arriving[s] # NoItem
    /\ awake \/ T # {} \/ deferred # <<>> \/ disposed # <<>> \/ finished # <<>>
    /\ collected' = T
    /\ awake' = FALSE
    /\ phase' = "channel"
    /\ UNCHANGED <<sessionVars, taskVars, nodeVars, closing, cleanVars, finishVars,
                   queue, deferred, cancels, disposed, finished, historyVars>>

\* The item of a cancelled task: cleanup_task, and a disposal if it was stopped.
CollectTask(s) ==
    /\ closing = {} /\ phase = "channel" /\ s \in collected
    /\ collected' = collected \ {s}
    /\ LET id == arriving[s].id
           ready == /\ id # None /\ NoOtherTask(s, id)
                    /\ contents[id] # {}
       IN IF ready THEN Register(contents[id] \ {"async"}, s, id)
                   ELSE UNCHANGED <<contents, finished>>
    /\ disposed' = IF arriving[s].dispose THEN Append(disposed, s) ELSE disposed
    /\ tasks' = [tasks EXCEPT ![s] = "none"]
    /\ taskId' = [taskId EXCEPT ![s] = None]
    /\ arriving' = [arriving EXCEPT ![s] = NoItem]
    /\ UNCHANGED <<sessionVars, nodeVars, closing, awaiting, finishVars, phase,
                   queue, deferred, cancels, historyVars, awake>>

\* process_deferals
CollectDeferred ==
    /\ closing = {} /\ phase = "channel" /\ collected = {}
    /\ queue' = queue \o deferred
    /\ deferred' = <<>>
    /\ phase' = IF disposed = <<>> THEN "cleanups" ELSE "disposals"
    /\ UNCHANGED <<sessionVars, taskVars, nodeVars, closing, cleanVars, finishVars,
                   cancels, disposed, finished, collected, historyVars, awake>>

\* validate_scope_reachability: a session that can no longer terminate is
\* cancelled.
Validate ==
    /\ closing = {} /\ phase = "disposals" /\ disposed # <<>>
    /\ disposed' = Front(disposed)
    /\ phase' = IF Len(disposed) = 1 THEN "cleanups" ELSE "disposals"
    /\ LET s == Last(disposed)
           S == {t \in {s} : ~Reachable(t) /\ CanCancel(t)}
       IN /\ Close(S, "Cancelled", [t \in Sessions |-> t], "Cancelled")
          /\ asked' = asked \cup S
    /\ UNCHANGED <<active, owner, parent, taskVars, nodeVars, cleanVars, finishVars, queue, deferred, cancels, finished, collected, begun, report, finals,
                   clean, awake>>

-----------------------------------------------------------------------------
(* The outer workflow.  Its operations run from the same roster. *)

\* An outer node gives an input to this scope.
OuterInput(p) ==
    /\ QueueRuns
    /\ parent[p] = "active"
    /\ LET n == Cardinality({s \in Sessions : owner[s] = p})
       IN n + Len(Without(inputs["scope"], Parents \ {p})) < MaxPerParent
    /\ Cardinality({s \in Sessions : status[s] = "unborn"}) > Len(inputs["scope"])
    /\ inputs' = [inputs EXCEPT !["scope"] = Append(@, p)]
    /\ queue' = Append(queue, "scope")
    /\ phase' = "cleanups"
    /\ UNCHANGED <<sessionVars, taskVars, staging, closing, cleanVars, finishVars,
                   deferred, cancels, disposed, finished, collected, historyVars, awake>>

\* relevant_scoped_sessions.is_empty()
AlreadyClean(S) == S = {}

\* The outer workflow finishes and cleans up the scope node for its session p
\* (OperateScope::cleanup).  A session that is not ongoing any more is cleaned
\* again (to_cleanup); if there is none to clean the parent is told at once.
OuterCleanup(p) ==
    /\ EarlyCleanup # "never"
    /\ EarlyCleanup = "while open" =>
          /\ \E s \in Sessions : owner[s] = p
          /\ \A s \in Sessions : owner[s] = p => status[s] = "Ongoing"
    /\ QueueRuns
    /\ parent[p] = "active"
    /\ parent' = [parent EXCEPT ![p] = "cleaning"]
    /\ inputs' = [inputs EXCEPT !["scope"] = Without(@, {p})]
    /\ LET S == {s \in Sessions : HasPair(s) /\ owner[s] = p /\ status[s] # "Cleanup"}
       IN IF Uninterruptible
          THEN /\ status' = [s \in Sessions |-> IF s \in S THEN "DeferredCleanup"
                                                           ELSE status[s]]
               /\ clean' = clean \cup {p}
               /\ UNCHANGED closing
          ELSE /\ Close(S, "Cleanup", [s \in Sessions |-> p], "EarlyCleanup")
               /\ clean' = IF AlreadyClean(S) THEN clean \cup {p} ELSE clean
    /\ phase' = "cleanups"
    /\ UNCHANGED <<active, owner, taskVars, staging, cleanVars, finishVars, rosterVars,
                   begun, report, finals, asked>>

\* The outer workflow cancels the sessions of p: a workflow service whose
\* request was supplanted (service/workflow.rs).
OuterStop(p) ==
    /\ MayStop
    /\ QueueRuns
    /\ \E s \in Sessions : owner[s] = p /\ CanCancel(s) /\ s \notin asked
    /\ cancels' = Append(cancels, p)
    /\ asked' = asked \cup {s \in Sessions : owner[s] = p}
    /\ phase' = "cleanups"
    /\ UNCHANGED <<sessionVars, taskVars, nodeVars, closing, cleanVars, finishVars,
                   queue, deferred, disposed, finished, collected, begun, report, finals,
                   clean, awake>>

\* Any other operation of the roster only lets garbage_cleanup run.
OtherOperation ==
    /\ Running /\ finished # <<>>
    /\ phase' = "cleanups"
    /\ UNCHANGED <<sessionVars, taskVars, nodeVars, closing, cleanVars, finishVars,
                   rosterVars, historyVars>>

-----------------------------------------------------------------------------
Init ==
    /\ status = [s \in Sessions |-> "unborn"]
    /\ active = {}
    /\ owner = [s \in Sessions |-> None]
    /\ parent = [p \in Parents |-> "active"]
    /\ inputs = [node \in Inner \cup {"scope", "terminal"} |-> <<>>]
    /\ staging = {}
    /\ tasks = [s \in Sessions |-> "none"]
    /\ taskId = [s \in Sessions |-> None]
    /\ arriving = [s \in Sessions |-> NoItem]
    /\ closing = {}
    /\ contents = [id \in CleanupIds |-> {}]
    /\ awaiting = <<>> /\ checks = <<>> /\ dones = <<>> /\ runs = {}
    /\ phase = "cleanups" /\ awake = FALSE
    /\ queue = <<>> /\ deferred = <<>> /\ cancels = <<>> /\ disposed = <<>>
    /\ finished = <<>> /\ collected = {}
    /\ begun = [s \in Sessions |-> 0]
    /\ report = [s \in Sessions |-> <<>>]
    /\ finals = [s \in Sessions |-> 0]
    /\ clean = {} /\ asked = {}

\* What the flush does by itself once there is something in the roster.
FlushStep ==
    \/ CleanSession
    \/ TriggerCleanup \/ HandleCancel
    \/ PopNothing \/ ExecScope \/ ExecAsync \/ ExecTerminal \/ ExecFinish
    \/ \E toFilter, toAsync \in BOOLEAN, n \in 0..MaxOutputs : ExecFork(toFilter, toAsync, n)
    \/ \E pass \in BOOLEAN : ExecFilter(pass)
    \/ Collect({s \in Sessions : arriving[s] # NoItem})
    \/ \E s \in Sessions : CollectTask(s)
    \/ CollectDeferred \/ Validate

Next ==
    \/ FlushStep
    \/ \E T \in SUBSET Sessions : Collect(T)
    \/ \E s \in Sessions : TaskDone(s) \/ SupplantTask(s)
    \/ \E r \in runs : CleanupWorkflowDone(r) \/ CleanupWorkflowCancelled(r)
    \/ \E p \in Parents : OuterInput(p) \/ OuterCleanup(p) \/ OuterStop(p)
    \/ OtherOperation

\* The flush runs whenever there is something to do, a cancelled task ends, and a
\* cleanup workflow that was begun ends.  Nothing is assumed of a running task.
Fairness ==
    /\ WF_vars(FlushStep)
    /\ WF_vars(\E r \in runs : CleanupWorkflowDone(r) \/ CleanupWorkflowCancelled(r))

Spec == Init /\ [][Next]_vars
FairSpec == Spec /\ Fairness

-----------------------------------------------------------------------------
(* Properties *)

Status == {"unborn", "Ongoing", "Terminated", "DeferredCleanup", "Cleanup",
           "Cancelled", "dropped"}
Ids == CleanupIds \cup {None}
Why == {"Terminated", "EarlyCleanup", "Cancelled"}
Runs == [session : Sessions, workflow : CleanupWorkflows, n : Nat]

SessionTypeOK ==
    /\ status \in [Sessions -> Status]
    /\ active \subseteq Sessions
    /\ owner \in [Sessions -> Parents \cup {None}]
    /\ parent \in [Parents -> {"active", "cleaning"}]
TaskTypeOK ==
    /\ tasks \in [Sessions -> {"none", "running", "cleaning", "stopping"}]
    /\ taskId \in [Sessions -> Ids]
    /\ arriving \in [Sessions -> [id : Ids, dispose : BOOLEAN]]
NodeTypeOK ==
    /\ inputs \in [Inner \cup {"scope", "terminal"} -> Seq(Sessions \cup Parents)]
    /\ inputs["scope"] \in Seq(Parents)
    /\ \A node \in Inner \cup {"terminal"} : inputs[node] \in Seq(Sessions)
    /\ staging \subseteq Sessions
CleanTypeOK ==
    /\ closing \subseteq [session : Sessions, id : CleanupIds, why : Why]
    /\ contents \in [CleanupIds -> SUBSET Inner]
    /\ awaiting \in Seq([session : Sessions, id : CleanupIds, why : Why,
                         left : {None} \cup SUBSET Runs])
    /\ checks \in Seq(Sessions) /\ dones \in Seq(Runs) /\ runs \subseteq Runs
RosterTypeOK ==
    /\ awake \in BOOLEAN
    /\ phase \in {"cleanups", "cancels", "channel", "disposals"}
    /\ queue \in Seq(Inner \cup {"scope", "terminal", "finish"})
    /\ deferred \in Seq({"terminal"})
    /\ cancels \in Seq(CleanupIds \cup {All})
    /\ disposed \in Seq(Sessions)
    /\ finished \in Seq([session : Sessions, id : CleanupIds])
    /\ collected \subseteq Sessions
\* Every variable keeps its type (the components of OperateScope, Terminate and
\* FinishCleanup, and the fields of OperationRoster).
TypeOK ==
    /\ SessionTypeOK /\ TaskTypeOK /\ NodeTypeOK /\ CleanTypeOK /\ RosterTypeOK
    /\ begun \in [Sessions -> Nat] /\ finals \in [Sessions -> Nat]
    /\ report \in [Sessions -> Seq({"response", "cancelled"})]
    /\ clean \subseteq Parents /\ asked \subseteq Sessions

\* The cleanup workflows of a session begin only when its nodes are clean: from
\* then on no inner node has an input of it, no task of it is alive, and no task
\* still has to report (CleanupContents, ActiveTasksStorage::cleanup).
CleanBeforeCleanupWorkflows ==
    \A s \in Sessions : begun[s] > 0 =>
        /\ \A node \in Inner : s \notin ToSet(inputs[node])
        /\ tasks[s] = "none" /\ arriving[s] = NoItem

\* However its ends race, a session has one end: its cleanup workflows begin
\* once, it is finalized once, and the outer workflow gets at most one of a
\* response and a cancellation from it.
OneEnd ==
    \A s \in Sessions : begun[s] <= 1 /\ finals[s] <= 1 /\ Len(report[s]) <= 1

\* A session that was finalized has left nothing behind in the terminal or among the
\* nodes that are yet to be clean.  Of the finish node's entries it keeps the one that its
\* parent waits for, and that only until the parent is told (finalize_scoped_session).
NothingLeftBehind ==
    \A s \in Sessions : finals[s] > 0 =>
        /\ s \notin staging
        /\ s \notin ToSet(inputs["terminal"])
        /\ \A a \in ToSet(awaiting) :
              a.session = s => a.why = "EarlyCleanup" /\ owner[s] \notin clean
        /\ contents[s] = {}

\* A session is cancelled only when somebody asked for it, or when its terminal
\* became unreachable; never because of another session of the scope.
OnlyCancelledWhenAsked ==
    \A s \in Sessions : status[s] = "Cancelled" => s \in asked

\* Nothing of s runs any more, in its nodes or in a cleanup workflow.
WoundDown(s) ==
    /\ status[s] = "dropped"
    /\ \A node \in Inner : s \notin ToSet(inputs[node])
    /\ tasks[s] = "none" /\ arriving[s] = NoItem
    /\ \A r \in runs \cup ToSet(dones) : r.session # s

\* The outer workflow is told that the scope is clean for a parent only when all
\* instances of the scope for that parent are finished, in whatever order they end
\* (finalize_scoped_session): none of them runs any more, and they are finalized.  The
\* second half needs a cleanup workflow that each of them waits for: without one the first
\* that is finalized tells the parent, and the entries of the others are removed with it.
ToldWhenAllFinished ==
    \A p \in clean : \A s \in Sessions : owner[s] = p =>
        WoundDown(s) /\ (OnCancelled # {} => finals[s] > 0)

\* A session that has begun to end is finalized.
EndedSessionsFinish ==
    \A s \in Sessions :
        status[s] \notin {"unborn", "Ongoing", "DeferredCleanup"} ~> finals[s] > 0

\* A session with nothing left that could reach its terminal does not stay: the
\* disposals notice it (validate_scope_reachability), and it is finalized.
StarvedSessionsFinish ==
    \A s \in Sessions : status[s] = "Ongoing" /\ ~Reachable(s) ~> finals[s] > 0

\* A parent that asked the scope to clean up is told that it is clean.
CleanupIsAnswered ==
    \A p \in Parents : parent[p] = "cleaning" ~> p \in clean

\* How the variables of ScopeContract are read off those of the scope.
Life ==
    [s \in Sessions |->
        IF status[s] = "unborn" THEN "unborn"
        ELSE IF finals[s] > 0 THEN "finished"
        ELSE IF status[s] \in {"Ongoing", "DeferredCleanup"} THEN "open"
        ELSE "closing"]
Reported == [s \in Sessions |-> IF report[s] = <<>> THEN "none" ELSE Last(report[s])]

Contract == INSTANCE ScopeContract WITH life <- Life, report <- Reported

\* The scope keeps the contract of ScopeContract: each session is begun once, winds down
\* and finishes once, with at most one report (OperateScope, FinishCleanup).
ImplementsContract == Contract!Spec
=============================================================================
