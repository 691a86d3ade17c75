# A TLA+ model of bevy_impulse

bevy_impulse runs workflows in the Bevy ECS: services (blocking, async, continuous, or
workflows themselves) are wired into graphs of nodes, requests travel through the graph in
*sessions*, and the caller holds a `Promise` for the response. All paths below are relative
to `src/`, the root of the repository; the crate is in `src/src`.

## The system and its parts

Everything but tasks and promises is world-exclusive: the systems of `flush.rs` own the
`World`, and run one operation after the other from an `OperationRoster`. The interleavings
that matter are therefore of two kinds: threads at the locks of a promise, and the order in
which the flush finds work that several parties (operations, tasks that end, cancellations,
despawned entities) have put into its queues.

| component | state | operations | interacts with | hard parts | what makes it correct |
|---|---|---|---|---|---|
| Promise, `promise.rs`, `promise/private.rs` | cached state; target behind a mutex (result, waker, hooks); `Sender::sent`; interrupter's list | send/cancel/drop of the sender, peek, take, four waits, poll, drop, interrupt, reset | impulse chain (sender), threads and executors (holder) | lost wake-ups, drop racing an answer, interruption racing registration | one response, in one place; every wait returns; the hook runs only for an unseen result |
| Scope, `operation/scope.rs` | the pairs of sessions, staged outputs, awaiting cleanups, exit targets | begin, terminate, cancel, validate reachability, clean up for the parent, cleanup workflows, finalize | every node inside (cleanup), the outer workflow, `workflow.rs` | five ways to end that race each other, two-phase cleanup | one end per session; nodes are clean before cleanup workflows begin; nothing is left; the parent is told when all is clean |
| Cancellation and disposal, `cancel.rs`, `disposal.rs` | lists of disposals, `UnhandledErrors` | emit, route to a scope or a session | scope, every node | a cause that reaches nobody | a session that cannot end by itself is cancelled |
| Flush and roster, `flush.rs`, `operation.rs` | queue, awake, deferred, cancels, unblock, disposed, cleanup_finished | pop an operation, garbage cleanup, collect from channels | everything | order of the queues, the loop limit | nothing queued is forgotten |
| Inputs, `input.rs` | `InputStorage` per node | give, defer, take, clean | every node | inputs of sessions that are over | they are dropped |
| Delivery, `service/delivery.rs`, `service.rs` | one lane, or one per label: the request delivered and a queue | insert, pop, clean | async and workflow services | preemption of what runs, or of what just ended | one at a time per label, in order, never stuck |
| Async services and tasks, `service/async_srv.rs`, `operation/operate_task.rs` | tasks, blockers, `ActiveTasksStorage` | serve, poll, finish, stop, clean, drop | delivery, channels, scope | completion racing stop and cleanup | every task unblocks its lane and reports once |
| Workflow services, `service/workflow.rs` | exit targets with blockers | serve, stop, serve the next | delivery, scope | a stop that names the parent session | as delivery promises |
| Dispatch and lifecycle, `service/internal.rs` | `ServiceQueue`, lifecycle channel | dispatch, despawn | nodes of a service | nested dispatch, despawn with requests pending | every pending request is disposed of |
| Continuous services, `service/continuous.rs` | order queues, active sessions | deliver, iterate, respond, clean | delivery, flush | sessions that are over, order of responses | each order is answered or disposed of once |
| Buffers, gates, join, listen, `buffer/`, `operation/operate_buffer*.rs`, `operation/operate_gate.rs`, `operation/join.rs`, `operation/listen.rs` | a queue per session, gate, listeners, key lifecycles | push with retention, pull, close, notify | scope (reachability, cleanup) | keys outliving sessions, notification of oneself | retention is kept; a closed gate withholds, an open one notifies |
| Builder, `builder.rs`, `chain.rs`, `node.rs`, `builder/connect.rs` | the links between operations | chain, fork, connect, join, stream, trim | every node | connecting an output that is in use | each link is known at both its ends |
| Reachability, collect, trim, injection, `operation.rs`, `operation/collect.rs`, `operation/operate_trim.rs`, `operation/injection.rs` | visited maps, collections, holding storage, injected tasks | traverse, listen to disposals, cut | every node | cycles, values where no walk looks, order of the listeners | a session is given up only if its end is out of reach, and then always |
| Impulse chains, `impulse/` | targets, lifecycles, detachment | request, push, send, finish | flush, promise | promises dropped while work goes on | an abandoned chain is cancelled |
| Discovery, errors, macros | declarations | - | - | - | - |

The full list with its sources and status is `PROJECT.json`, "components"; "hazards" names
each spot that is hard to test, with the properties that cover it or the reason why none does.

## Modules

| module | models |
|---|---|
| `OneShot` | abstract: what a promise owes its holder |
| `Promise` | one promise and its sender, a step per critical section |
| `MCPromise`, `PromiseProofs` | instance for TLC; theorems for any set of threads |
| `ScopeContract` | abstract: what a scope owes the workflow around it |
| `Scope` | one scope, its sessions, inner nodes, cleanup, and the flush that drives it |
| `MCScope` | instances for TLC |
| `Queues` | pure operators: what `retain` leaves of a queue, as a recursive function |
| `Delivery` | pure operators: the order book of a service |
| `LaneContract` | abstract: one at a time, first come first served |
| `Service` | an async or workflow service over `Delivery` and the nodes that use it |
| `MCService` | instances for TLC |
| `BufferStorage` | pure operators: one queue under a retention policy |
| `BufferContract` | abstract: the queue of each session, as its retention policy promises it |
| `Buffer` | one buffer, its gate, listeners, accessors and keys, and systems that use it |
| `Continuous` | a continuous service over `Delivery`, and the system that answers its orders |
| `Impulse` | impulse chains, their promises, and the flush that runs and drops them |
| `Graph` | pure operators: building a workflow |
| `Spans` | the walks over a workflow: what is downstream, what a trim cleans |
| `Workflow` | one session of any workflow that `Graph` builds, up to its end |
| `MCBuffer`, `MCContinuous`, `MCImpulse`, `MCWorkflow` | instances for TLC |
| `QueueLemmas`, `DeliveryLemmas` | lemmas: induction over a queue, `Without`, `RemoveAt`; the operators of `Delivery` |
| `ScopeProofs` | theorems about a scope for any sessions, parents and cleanup workflows |
| `ServiceProofs`, `ContinuousProofs` | theorems about the two kinds of services, for any requests and labels |
| `BufferProofs` | theorems about a buffer for any sessions, nodes and values; that it implements `BufferContract` |
| `ImpulseProofs` | theorems about impulse chains of any number, length and kind of steps |

How they fit together: `Delivery` is used by `Service` and `Continuous`, and both are shown to implement
`LaneContract`; both and `Scope` take what leaves a queue from `Queues`; `Buffer` implements
`BufferContract` over `BufferStorage`; `Workflow` runs the graphs of `Graph` with the walks of `Spans`. `Scope` begins where `Workflow` ends, with the ways a session ends and what
is then cleaned; it has one fixed graph inside, as `Workflow` has one session.

### Promise

`state` is the holder's cache `Promise::state`; `result`, `waker` and `hook` are the fields of
`PromiseTargetInner`; `mutex` is its lock, which only matters where a critical section spans
several steps: `impl_wait` takes it, evaluates the predicate (`ImplWait`) and releases it by
parking (`Park`). `sent` is `Sender::sent`, `spc` the program counter of the provider. A wait is
the phases entering, parking, asleep, notified; `Calls` are the four functions. `poll` has two critical
sections, hence `Poll` and `PollStoreWaker`. `Interrupt` sets the flag `triggered` and goes through the
waiters one step each. Borrow checking is part of the model: `take`, `peek`, dropping and polling
need all other threads outside.

### Scope

The scope is a node of an outer workflow, of which only the sessions of `Parents` exist. Inside
are a synchronous node with several outputs ("fork"), a cancelling filter, an async node and the
terminal: enough for a token to be duplicated, cancelled, to be away in a task, or to vanish with a
disposal. `status` is `ScopedSessionStatus`, with "dropped" for a pair that is gone, and `active` the
separate `SessionStatus` component which gates inputs. `contents` is `CleanupContents`, `awaiting`
`AwaitingCleanupStorage`, `checks` and `dones` are the two input queues of the finish node. `phase` follows
`flush_impulses_impl`: after every operation `garbage_cleanup` handles finished cleanups, then cancels;
when the queue is empty the channels are drained, deferred operations move to the queue, then
disposals are looked at. The loop of `cleanup_entire_scope` over nodes is atomic per session
(`CleanSession`), that over sessions is `closing`. A task that is cancelled reports through the channel
(`arriving`), which the flush drains in any grouping (`Collect(T)`).

The variables under "history" (`begun`, `report`, `finals`, `clean`, `asked`) record what the scope did;
no guard reads them, but for `clean`, which keeps the outer workflow from cleaning a parent twice.

### Service

A request is an input of a node of the provider (`Origin` gives node and session). `lanes` is the
`Delivery` component, `unblock` is `roster.unblock`, `fresh` are tasks to be polled for the first time, `fate`
is how far the request is: an `Input`, a `DeliveryOrder`, a task or scoped session that runs, is being
stopped (`StopTask`, or a `Cancel` to the scope) or cleaned (`Begin` hands it over to a task or a scoped session).
It ends served, disposed of, with its node cleaned, or "lost": it vanished from the queue of
its lane without a disposal, with its service or as another node was cleaned for its session (`Vanished`, `NothingIsLost`). `phase` is the part of the flush: blockers
first, then the queue, then awakened tasks and channels. `Serve` is `AsyncServiceStorage::serve`
and `serve_workflow_impl`; `ServeNext` is `serve_next_async_request` and `serve_next_workflow_request`;
`Release` is what `cleanup_task` does with the blocker. A scoped session is one item here: `Scope` says what
happens inside.

### Buffer

`storage`, `gate`, `input` are the components of the buffer's entity; `waiting` the inputs of the nodes around it;
`keyed` and `keys` the keys an accessor stores and those it sent out, whose tracker `StrongCount` counts. A drop has two
steps: `DropKey` sends the notice (`Drop::drop`), and only then the fields go, the tracker among them (`ReleaseTracker`); between them the
key is in `leaving`, and the flush may already look. When it finds the key in use it is not told again, so no property says
that the scope learns of the last release; `KeysAreTracked` says that it never takes a key for gone that is there. A system is a
sequence of steps: it opens a `BufferMut` (`OpenMut`, or `OpenCleanupMut` for a cleanup workflow), calls its methods
(`MutPush`, ..., `MutCloseGate`), drops it (`DropMut`, which adds a `Notice` to `commands` if it was modified), may open
another, and its commands are applied in the end (`NotifyBufferUpdate`). Nothing else runs in between, but keys may be
dropped in tasks (`DropKey`), and the flush learns of it later (`Collect`). A session goes from "active" through "cleaned"
(`CleanSession`) to "cleared" (`ClearSession`). `unseen` is a history variable: who has not looked since
the last change, and whether the code tells listeners of such changes (`Told`) or not (`Silent`).
`Pulse` is also `get_mut(index)`, which finds nothing for any index that is valid.

### Continuous

`held` is the `ContinuousQueueStorage` of the provider, in its order, since answers name indices; the lanes are as in
`Service`. `turn` says whether the flush or the application runs. In its turn the application lets the system
respond (`Respond`, with any set of orders), and applies its commands (`ApplyResponses`: first all answers, then the
orders retire by index) before the next flush, unless `MayFlushBetween`. `Retire` unblocks the lane at once,
which may serve the next request, and put a new order into the queue while the rest are still to retire. `RetireAll` is
that loop: `Retired(book, S)[k]` is the order book when the last k indices have been looked at (`LastFirst`).

### Impulse

An entity is a pair of chain and position, since all that matters of an impulse is its target, which is its parent in the
hierarchy. `plan` is what the user builds: steps, where he detaches, and the terminal; `Create` applies all
commands that this adds, in the order of the calls. `unused` is the component `UnusedTarget`. The flush is `BeginFlush`, which
collects from the channels and drops unused targets, then `RosterStep` and `Poll` until the roster is empty,
or until its limit, when the queue is put aside (`CollectToLimit`). `Collect` may find any set of tasks woken.
`Cancel` walks from the session to the end of the chain; `Despawn` takes the children with it, but for what was orphaned
because something detached still needs it.

### Graph, Spans, Workflow

A world is a record of operations and links, made by the operators of `Graph`, one for each call of `Builder` or
`Chain`: `Then` is `chain.then`, `Connect` the command `Connect` with its redirection of outputs that
are already in use. The workflows of `MCWorkflow` read like the code that builds them. `Spans` has the walks as
recursive operators, and what they are to compute (`OnPath`) as the set of nodes on a path between two points; that
they agree for all pairs of points of every acyclic shape is an assumption of `Workflow`, which TLC evaluates.

`flow` is what the entities and the roster hold for one session, one record, since most operations touch several parts
of it: inputs, tasks, answers and stored values of each node (`at`), the roster's queues in order, the channel, cleanups
of trims. Values are counted, not named: nodes of a workflow do not look into them, and their choices (a branch, a filter,
how many items a spread yields) are nondeterministic. Each kind of operation is an action of its own, `Executes`
the part they share. `Walk` is `check_upstream` with the cache it carries along, hence a function from and to what was
visited; `Listen` calls the disposal listeners in the order of the scope's contents; `Validate` takes the
latest disposal, as `pop` does. A task that is cancelled may still send items of its stream, from its own thread, until its
cancellation is through (`Emit`, `Unreported`). `fate` is how the session ended.

## Runs

| run | asks | bounds | result |
|---|---|---|---|
| `promise` | all properties of `Promise` | 2 waiting threads | pass |
| `promise_await` | does an awaiting task complete? | 1 thread | violated: finding |
| `scope` | safety of all ends of a session, with supplanted tasks, cancelled cleanup workflows, requests to stop, and an outer workflow that cleans up; `ScopeContract` | 2 sessions of one parent or of two, 2 outputs, one cleanup workflow for each way to end | pass |
| `scope_outer` | the outer workflow cleans up: liveness | 2 sessions of 2 parents, 1 output, 1 cleanup workflow | pass |
| `service` | all properties of `Service`, `LaneContract` | 3 requests from 2 nodes and 2 sessions, 1 label and none, serial and parallel, async and workflow | pass |
| `service_exclusion` | exclusion when tasks may be ready at their first poll | as above, async | violated: finding |
| `buffer` | listeners, keys, gates, the end of a session; `BufferContract` | 1 session, 2 values, one join, one listener (keys for one buffer), one access node (keys for two); KeepAll up to 3, KeepFirst(1..2), KeepLast(0..2) | pass |
| `continuous` | answers by index, lanes, `LaneContract` | 4 requests, 2 labels and none, serial and parallel | pass |
| `impulse` | cancelling, dropping, detaching; every promise is answered | one chain: all of 1 and 2 steps with every terminal and detachment, some of 3 | pass |
| `impulse_service_second` | is only what is unused dropped? | one chain, of a map and a service | violated: finding |
| `workflow` | is a session given up when, and only when, it is stuck? | 28 workflows; up to 3 items per spread and per session's streams | pass |
| `workflow_stream` | the same for an asynchronous stream that is collected | one workflow | violated: finding |

Why the bounds are enough. *Promise*: threads only meet at the lock and the condition variable; two
show one asleep while another enters, and the proofs cover any number. *Scope*: a session is
affected by another of the same scope only through shared queues, a shared parent and the "all
sessions" cancel, each of which needs two; in `scope` both may be of one parent, and either may finish first. Two outputs to the terminal let a second one arrive after the first.
*Service*: one request runs, one waits, one preempts or is next; that the first two share a session and the
first and third a node makes a cleanup, or a trim, hit some and not others. *Continuous*: a fourth request, with
another label or none, so that two orders are held at once, of two lanes or one of them of no lane, and one run answers both
while others wait behind one of them. *Buffer*: sessions share nothing but the listeners' entities, and
a second one would only add interleavings of the same steps; two values tell the order of a queue, and one listener of
each kind each way of looking at it. *Impulse*: chains share only the order of the roster. *Workflow*: each shape
puts one of the hard situations (a collect behind a collect, a join with a task on each side, a trim racing the task it
cleans, a task that streams on while it is being cancelled, a loop, a stream, an injection) at the smallest size where it happens; three items let a collect with a maximum
of two fill up and begin again. Counters: `MaxRequests`,
`MaxSessions`, `MaxPerParent`, `MaxOutputs`, `MaxInputs`, `MaxWaiting`, `MaxLength`, `MaxKeys`, `MaxCommands`,
`MaxSpread`, `MaxItems`, `MaxSteps` bound what the environment does, not what the code does.

Deadlock is not checked (`CHECK_DEADLOCK FALSE`) where the modelled part comes to rest when its environment
has used up its bounds.

Some environments are narrower than what can happen, because the code has a finding or a
hazard there; the run that shows it has the wider environment.

- `scope`: a terminated session has a cleanup workflow if a cancelled one has (`OnTerminate = {w1}`). If only cancelled sessions
  have one, a terminated session may be finalized by an item of the finish node that was queued for another session, before the second
  output of its fork has left the terminal: `NothingLeftBehind` fails. Without any cleanup workflow it holds.
- `scope`: cancelled sessions have a cleanup workflow (`OnCancelled = {w2}`). The second half of `ToldWhenAllFinished`, that the sessions
  of a parent that was told are finalized, is only stated for this case, and `ImplementsContract` needs it: without one, the first
  of two sessions of a parent that is finalized tells the parent, and its `retain` (scope.rs:1228) strikes the entries of the others, which
  are clean but never finalized. That nothing of them runs any more is stated, and holds, in both cases.
- `scope`, `scope_outer`: `EarlyCleanup = "while open"`: the parent cleans up while its sessions are ongoing. A parent that
  cleans up a session which already ends makes its cleanup workflows begin twice (`to_cleanup` succeeds for a status that is past
  it).
- `scope_outer`: one session per parent (`MaxPerParent`): two share a cleanup id, so the `CleanupContents` of the second
  replace those of the first (`CleanupContents::add_cleanup`), which may then never be clean: `EndedSessionsFinish` fails with two. No
  cleanup workflow is cancelled, since the scope never learns of it and waits for ever (`CleanupMayCancel = TRUE` violates
  `EndedSessionsFinish`); no task is supplanted, since the node of a task that was supplanted and then cleaned never reports
  (`MaySupplant = TRUE` violates it too).
- `service`: `ReadyAtOnce = FALSE`, because of `service_exclusion`, and `MayCleanTwice = FALSE`: a node is not cleaned
  while a cleanup of it is under way. When it is (a trim, then the scope), `OperateTask::cleanup` finds no task to
  cancel and despawns the entity; a preempting request then concludes that the lane is free, and `OneAtATime` fails in
  the same way as in `service_exclusion`. With `MayCleanTwice = TRUE` TLC finds that trace.
- `service`: a despawned service is always async; despawning a workflow takes its scope with it.
- `buffer`: no `KeepFirst(0)`, which stores what is pushed as oldest. One input waits at the buffer: with
  two, a cleanup stores them in the opposite order (`StoresInOrder` fails with `MaxInputs = 2`).
- `continuous`: `MayFlushBetween = FALSE`: no flush comes between a system and its commands. This is so for a service in a
  schedule that is over when the flush runs, or with an `apply_deferred` in between. It is not so for a service in
  `Update` with the default plugin, which puts the flush in `Update` as well (lib.rs:316-318), as in the repository's own tests (testing.rs:226): Bevy 0.12
  applies the commands of a schedule at its end only, so when the flush runs after the service it comes in between. With
  TRUE the indices of the answers are stale, and `HeldIsUnanswered` fails; the run, and the theorems which assume FALSE, say
  nothing of such a service.
- `continuous`: one request preempts. When two do and the order in their lane was cleaned before, each of them finds that
  the queue does not hold it and unblocks the lane (continuous.rs:748-761), which then serves two requests at once: with
  {preempt, preempt and ensure} for the third request and preempt for the fourth TLC finds that `ServesInOrder` fails.
- `impulse`: no service after the first step (`impulse_service_second`), and no chain that panics the flush, one in
  which a task follows what is detached and nothing takes its response (`MCPanics`, `NeverCrashes`).
- `workflow`: no asynchronous stream into a collect (`workflow_stream`), no join of what a spread yields (`MCPairing` violates
  `StarvedOnlyIfStuck`, as the walk does not count what buffers store), no disposal that may be checked while a trim is done but still holds
  its value (`Straying("spread")` violates it likewise), no branch straight into a collect, no
  unused branch, no trim of an empty region or of itself, no service injected that is gone (`MayInjectLost = TRUE` violates
  `QuietIsOver`), no minimum of 0 for a collect that another feeds, no two joins of the same buffers: the second one finds them
  empty and disposes of nothing (join.rs:70-72, `MCSharing`), so when only it leads to the end the session stays for ever (`QuietIsOver` fails).

`EveryRequestEnds` excepts a request that vanished from the queue of its lane without a disposal (`Vanished`), in the two ways in which
the code lets it: its service was despawned, or another node was cleaned for its session. Its node waits in vain, although service/internal.rs
has the pending inputs of a despawned service disposed of. That nothing vanishes is `NothingIsLost`, which the code does not keep.

`EveryChangeIsSeen` is about the changes that the code tells listeners of: inputs that are stored, systems that change the
buffer, gates that open. A join that pulls (join.rs:74) and a trim that moves waiting inputs into the buffer (input.rs:229-240) tell nobody,
although bufferable.rs:65-68 has listeners wake up every time a buffer is modified; `unseen` keeps them apart as `Silent`.

### Fairness

- *Promise*: every thread inside a call keeps running, also through a contended mutex (strong
  fairness for the steps which need the lock), a woken task is polled. That the provider uses
  or drops its sender is the duty of the rest of the crate and assumed by `SenderFairSpec` only. `Sender`
  sends on drop, so it holds unless the sender leaks.
- *Scope*: the flush takes a step when it can (it is a system that runs in every update, and loops until the
  roster is empty), cancelled tasks are dropped by the executor and so report, and a cleanup workflow that began ends.
  Nothing is assumed of running tasks, of the outer workflow, or of threads that use the scope.
- *Service*: as for Scope for the flush; a task or a scoped session that runs ends (`SF`, because a task
  can only be seen to end in the phase of the flush in which it is polled). A task that never ends blocks its
  lane for ever: that is what labels are for.

- *Impulse*: the application flushes again and again, a flush goes on until its roster is empty or its limit is reached,
  and a task that is awakened again and again is ready some time (`SF`: whether it is woken is up to the environment, and
  each poll may find it pending).
- *Buffer*, *Continuous*, *Workflow*: none. Their properties are safety properties; that a session of a workflow cannot
  come to rest without an end is `QuietIsOver`, an invariant of the states in which nothing is left to do.

### What disagrees with the documentation

`PROJECT.json`, "findings", has four disagreements with the line of each, the text it contradicts, and a run that shows it:
`poll` can lose the wake-up; a preempting request that comes between the end of a task and the processing of its
blocker makes two requests with one label run; a chain whose second step is a service is dropped as unused; a session is
given up when a task ends although a collect holds enough of what it streamed.

Others are stated as properties that the modules define, and fail under constants which no run has:

| property | fails with | what happens |
|---|---|---|
| `Scope.EndedSessionsFinish` | `CleanupMayCancel = TRUE` | a cleanup workflow that is cancelled is never deducted, and its scope waits for ever |
| `Scope.OnlyCancelledWhenAsked` | those of `scope` | a value that reaches the terminal after its session's pair was removed cancels all sessions of the scope |
| `Scope.NothingLeftBehind` | those of `scope` with `OnTerminate = {}` and `OnCancelled = {w2}` | the finish node, woken for another session, finalizes a terminated one while a second value of it waits at the terminal; that value then finds no session |
| `Scope.ImplementsContract` | those of `scope` with `OnCancelled = {}` | of two sessions of one parent the first that is finalized tells it; the other's entry is struck, and it is never finalized (against scope.rs:1206-1212) |
| `Scope.ToldWhenAllFinished` | those of `scope` with `Uninterruptible = TRUE`, or `EarlyCleanup = "any time"` | an uninterruptible scope tells its parent at once, while its sessions go on; so does one whose session has ended and still runs its cleanup workflow |
| `Scope.EndedSessionsFinish` | those of `scope_outer` with `MaxPerParent = 2` | two sessions of one parent share a cleanup id, and one is never clean |
| `Service.OnlyItsLabelIsStopped` | 2 labels, workflows | preempting one label stops the requests of that parent with other labels, ensured or not |
| `Service.NothingIsLost` | those of `service` | the orders queued in a service vanish when it is despawned, or when another node of the session is cleaned |
| `Buffer.EveryChangeIsSeen` with `# None` for `= Told` | those of `buffer` | a listener is not woken for what a join pulls, or a trim moves in (against bufferable.rs:65-68) |
| `Buffer.StoresInOrder` | `MaxInputs = 2` | a cleanup stores the waiting inputs newest first |
| `Continuous.NoLaneStuck` | those of `continuous` | the cleanup of a session drops held orders with their blockers |
| `Impulse.UnusedNeverRuns`, `DroppedNeverRuns` | those of `impulse` | steps run whose response nobody takes, or of which the promise was dropped |
| `Impulse.EveryPromiseAnswered` | those of `impulse` | the promise of a chain whose service was despawned is not answered |
| `Impulse.NeverCrashes` | `MCPanics` | the flush panics when a task ends whose target is gone |
| `Workflow.StarvedOnlyIfStuck` | `MCPairing` | a session is given up although a pair can be joined |
| `Workflow.QuietIsOver` | `MayInjectLost = TRUE` | an injection of a service that is gone counts as reachable for ever |

The second part of `OnlyCleanupSticks`, that requests wait only in a lane that is taken, holds in spite of all this.

## Proofs

`PromiseProofs` is about `Promise` for every set `Threads`, from `NoThreadAssumption` alone. The properties
are not inductive: that no thread misses its notification needs that a thread is "parking" exactly
while it holds the mutex, and that responses are conserved needs where the outcome may be for each
state of the sender and of the cache. `IInv` adds these: `LockInv` (the mutex and the borrow rules),
`OutcomeInv` (sent, sending, result, state, taken), `HookInv`, `InterruptInv` (who is registered, still to be rung, or
flagged). The step is proved action by action in one lemma for each party (`SenderStep`, `HolderStep`, `ExecutorStep`,
`InterrupterStep`, `WaitingStep`), combined in `NextIInv` and `Invariance`. From it follow

- `TypeCorrect`, `ResponseConserved`, `NotificationsReachWaiters`, `HookOnlyWhenUnseen`, `InterruptIsComplete`:
  the five invariants of run `promise`;
- `Refinement`: `Promise` implements `OneShot`; each action of the holder and of the sender maps to a step of
  `OneShot` or to a stutter (`RefineSender`, `RefineWaiting`, `RefineHolder`, `RefineInterrupter`).

### Services

`ServiceProofs` is about `Service` for all `Requests`, `Labels`, nodes and sessions, each delivery (serial, parallel),
each kind (async, workflow), from `ServiceAssumption` alone unless a theorem says otherwise.

- `ServiceTypeCorrect`: `TypeOK`. Inductive with `WorkflowOK`, since a workflow has no task to poll.
- `NoLaneGetsStuck`, `OnlySupplantedAreStopped`: from `Book`, which adds that requests not made are in no queue (`Unmade`), that a
  despawned provider has no order book (`Dead`), and for each lane what `Booked` says: who waits in it is queued, once, and
  belongs to it; who is delivered belongs to it and is alive, or its blocker is on the way; nobody waits in a free lane.
- `RequestsExcludeEachOther`, `LanesServeInOrder`: for behaviours in which nobody is supplanted whose task is gone already
  (`NobodyGoneIsSupplanted`, an action property). That step is what the code gets wrong (`service_exclusion`, and the node that is
  cleaned twice, above); the theorems say that it is the only one, with tasks that are ready at once and nodes that are
  cleaned again. `NobodyPreemptsExcludes`: when no request preempts it never comes to this, and exclusion holds of every behaviour.
  They need `Settled`: while the queue of the roster runs no blocker waits, no lane
  is unblocked twice in a round, and whoever is alive in a lane is the one its book says is delivered (`Claimed`). The
  refinement maps each action to one step of `LaneContract`, or to a stutter, with one lemma per action (`...Contract`).

`ContinuousProofs` is about `Continuous` in the same generality.

- `ContinuousTypeCorrect`: `TypeOK`, for any `MayFlushBetween`.
- `AnswersRetireTheirOrders`, `OnlyCleanupBlocks`: under `MayFlushBetween = FALSE`; with TRUE the answers' indices are stale and
  both fail. The inductive invariant `Ordered` says of the book that no order is held or queued twice and that `held` is who the
  fates say (`OrdersSound`), that queues hold who waits in their lane (`QueueSound`), and that a lane is taken by one that is
  held, cleaned, lost or about to be unblocked (`LaneSound`); and that an index waiting in the commands is that of the order
  which was answered (`Referred`). It is stated of a book with parameters, the lanes about to be unblocked
  and the orders answered but not yet retired, because it has to hold within `ApplyResponses` too: `RetireAllSound` is the
  invariant of the loop in `DeliverResponses::apply`. Its core is that the orders at the indices still to come
  are where they were (`Ahead`), as the code's comment claims, although each step removes an order and may append another.
- `ContinuousServesInOrder`, `LanesHoldOneOrder`: the service implements `LaneContract`, for any number of labels and of requests that
  preempt, and holds one order of a lane at a time. Beside `MayFlushBetween = FALSE` they are for behaviours in which no request
  unblocks a lane that is about to be unblocked (`NoLaneUnblockedTwice`, an action property): what continuous.rs:748-761 does when
  two requests preempt in one round and a cleanup had dropped the order that holds the lane. The theorems say that nothing else breaks
  the order. The inductive invariant `Whole` adds to `Ordered` that an order that needs a lane is
  held only while that lane delivers it (`Lone`), and that a lane about to be unblocked is stuck: taken by an order that was
  cleaned, unblocked once, on behalf of one request that preempts (`Awaited`). One `ApplyResponses` answers any number of
  orders, so it advances any number of lanes, each once: `RetireAllServes` follows them through the loop (`Moves`, `Alike`).
  A step of the contract therefore advances a set of lanes, and there is one lemma per action (`...Whole`).

### Scopes

`ScopeProofs` is about `Scope` for any parents, number of sessions, outputs and cleanup workflows, from `ScopeAssumption`.

- `ScopeTypeCorrect`: `TypeOK`, whatever the outer workflow does. Inductive with `Owned`: a session that ends has a parent.
- `CleanupWorkflowsWait`, `SessionsEndOnce`: the invariants `CleanBeforeCleanupWorkflows` and `OneEnd`, under
  `EarlyCleanup # "any time"`. With it both fail: a parent that cleans up a session whose end has begun makes
  its cleanup workflows begin twice, see above.

Neither is inductive: who may begin the cleanup workflows depends on how far the session is. `EndInv` says so: a session is in
one `Stage` at a time (open, closing, awaiting, finished, begun, finalized), with the `Work` that this stage allows (inputs,
tasks, reports), at most one item in the queues it passes through (`OneEach`), at most one input of the async node (`Fed`), and
an entry of `AwaitingCleanupStorage` that agrees with it (`Entry`). Steps that concern no session's end keep it because they leave
these parts alone (`SameKept`); every way to close a session goes through `CloseEnd`; the steps of the end itself have one lemma each
(`CleanSessionEnd`, `CollectTaskEnd`, `TriggerCleanupEnd`, `ExecFinishEnd`).

What the parent is told needs more. `ToldWhenFinished` (`ToldWhenAllFinished`) is under `Modest`: the outer workflow asks the scope to clean
up either never, or only for a parent whose sessions are open, of which there may be any number, and the scope can be interrupted.
Each part is needed, see above. `AskInv` adds that who asks sends no request any more, and that of those who ask and are not told
the sessions are exactly those being cleaned for their parent (`Leaving`, `Awaited`); `RunInv` that what runs for a session with
an entry is among what the entry waits for, and that an entry a parent waits for has something left until its session is
finalized; `ToldInv` that the sessions of who was told are over (`Over`). Steps that do not concern the parents keep
these by one lemma (`SilentKept`); the finish node is reduced to its three cases (`FinishCheck`, `FinishNothing`, `FinishDone`), and telling to
`Tells`: at that moment every session of the parent has an entry with its cleanup id that has nothing left to wait for.

`ScopeImplementsContract` (each step is one of `ScopeContract` or a stutter) has the condition in addition that `OnCancelled # {}` or
`MaxPerParent <= 1`, as otherwise entries are struck that were not finalized.

`NothingIsLeft` is the invariant `NothingLeftBehind`, under `EarlyCleanup # "any time"` and `OnTerminate # {} \/ OnCancelled = {}` (`Uniform`): a workflow
without cleanup workflows, one with a cleanup workflow for terminated sessions, interruptible or not. When only cancelled sessions
have one it fails, see above. The reason why the terminal is empty when a terminated session is finalized lies in the
order of the roster's queue, so the proof counts: `Times(q, x)` says how often x is among the first elements of q (`QueueLemmas`).

- `Calls`: the queue has no more "finish" than there are calls due, and, with what is deferred, no fewer "terminal" than inputs of
  the terminal; and if the j-th of these is of the session of the k-th call due, some prefix of the queue has j "terminal" already, but
  fewer "finish" than it takes to come to that call. The calls due (`Due`) are the dones of cleanup workflows, behind the checks, or,
  without a cleanup workflow, the checks themselves. So when the finish node takes the last call of a session, the terminal has taken
  all its inputs. It is kept because a session whose cleanup workflows have begun takes no inputs any more (`DonesPassive`), and because no
  cleanup workflow ends while deferred inputs are not in the queue (`Defers`).
- `CleanInv`: a terminated session which is checked has cleanup workflows left to wait for, if there are any (`Waits`), so its last done
  finalizes it and not a check; each entry is cleaned under the id of its session or of its parent (`OwnIds`); and nodes that are yet to
  clean belong to a session that has begun nothing (`Held`).
- `Rest`: who was finalized is not staged, has no input at the terminal and no entry. Each step that finalizes goes through `Final`
  (`FinalizeHow`), which removes the entry (`EntryLeaves`); all others only add what an active or closing session brings (`Arrives`).

### Impulses

`ImpulseProofs` is about `Impulse` for all `Chains`, `Plans` and `MaxSteps`, from `ImpulseAssumption` alone; nothing is assumed
of the order of maps, tasks and services, so it covers the chains that panic the flush and those with a service after
the first step.

- `ImpulseTypeCorrect`: `TypeOK`.
- `CancellingEndsChains`: `CancelledIsOver`.

The invariant `IInv` says where entities may be (`Placed`), that targets are unused only from the creation of a chain to the next
collection, while the chain is as it was made (`Fresh`), that the last entity of a chain is never de-parented (`NotLast`), and that a
chain which was not cut at a detached impulse is whole as long as its session lives, loses its session when the response
arrives, and is gone when it was cancelled (`WholeOrOver`). The core is `SessionDropped`: what `drop_target` despawns for an unused
target of a chain that was not cut includes its session, unless a detached impulse is spared, and then the chain is cut.

### Buffers

`BufferProofs` is about `Buffer` for all sessions, listeners, accessors, values, batches and bounds, from `BufferAssumption`.
The inductive invariant is `IInv`: the types with the limits of the policy (`StorageOK`: what `impl_push` leaves is within
them), that a notice is under way or a wake-up waiting for who has not looked, that an accessor which sent a key
stored one (`KeyStored`), and that nothing is anywhere for a session that is not active any more (`Quiet`).

- `BufferTypeCorrect`, `ChangesAreSeen`, `ClearedStaysCleared`: the invariants of run `buffer`; `GateIsRespected` its action property.
- `KeysTracked`: `KeysAreTracked`, whatever `KeyParts` is: a key in the workflow counts as in use down to the release of its tracker; and
  with keys for one buffer nothing else does. With keys for several buffers, the key that the accessor stores holds as many parts
  of the tracker itself, so it counts as used for ever although it was never sent out: that direction is not claimed for them.
- `BufferImplementsContract`: each step is one of `BufferContract` or a stutter. The cleanup of inputs and the pushes
  of a system are folds of `impl_push`, and are shown to be `Limit` of the whole batch.

### Induction over a queue

The library's induction theorems take an operator as a parameter, which the provers cannot instantiate, so they are not used.
`QueueLemmas` derives what is needed from the least number of a set (`LeastNumber`): a set which contains 0 and with
each i < n also i + 1 contains 0..n (`UpTo`). Applied to `{i \in 0..n : ...}`, this is induction over the steps of a recursive function
whose defining equation is `Recursion`. So `WithoutSet`, `WithoutSame` (what `retain` keeps, in which order) and `RetireAllSound` are
proved for queues of any length. It is the reason why `Without`, `Retired` and `StoredUpTo` are recursive functions
and not `SelectSeq`, which takes an operator.

### Only model-checked

- All liveness: `WaitsReturn`, `EveryRequestEnds`, the fair properties of `Scope` and `Impulse`; and `ENABLED`.
- `Workflow.StarvedOnlyIfStuck`, `Workflow.QuietIsOver`. They hold of the workflows of the run and not of every workflow (see the
  bounds), so a theorem would need a condition on graphs and an induction over the walk through them. `Spans` and `Workflow`
  also declare `RECURSIVE` operators (what a walk reaches), where the SMT backend is lost.

## Not modelled

- `Promise::flatten` with `on_result_arrival`; poisoned locks. `Relaxed` flags are read in order.
- Payloads; causes of cancellation and the lists of disposals that explain them; error records.
- The streams of a scope, of impulses and of continuous services; typed stream packs. `Workflow` has the streams of nodes.
- Queries and commands that tasks send through their channel.
- Gates, listens and buffer access nodes inside a whole workflow: `Buffer` has them around one buffer. Read-only views of buffers.
- Dispatch of a service from within a service; callbacks that are called while they run.
- `OperateScope` inside `Workflow` (scopes within scopes): `Scope` has the outer workflow as its environment.
- Service discovery, executors, macros, testing: they declare or wrap, and keep no state of their own at run time.
- The relation between `Scope` and `Service`: each models the other as an environment (`Service` sees a scoped session as one
  item, `Scope` sees supplanting as a stop it is asked for); that between `Workflow` and `Buffer`, where `Workflow` counts what
  a buffer stores.

## Plan

1. Proofs: each operator of `Graph` preserves `LinksMatch`.
2. `Flatten`: two promises and their arrival hooks, implementing `OneShot`.
3. Gates and key usage in `Workflow`; the streams of a scope.
