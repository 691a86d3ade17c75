------------------------------ MODULE Buffer ------------------------------
(***************************************************************************)
(* One buffer of a workflow (operation/operate_buffer.rs, buffer.rs), the  *)
(* nodes that listen to it (operation/join.rs, operation/listen.rs), the   *)
(* nodes that hand out its keys (listen.rs again, and                      *)
(* operation/operate_buffer_access.rs), gate nodes                         *)
(* (operation/operate_gate.rs), and systems that use the keys              *)
(* (BufferAccessMut, BufferMut).                                           *)
(*                                                                         *)
(* World-exclusive code runs to completion, so that an action is one       *)
(* operation, or one call that a system makes on the BufferMut it has      *)
(* opened; while a system runs (mut # NoMut or commands # <<>>) nothing    *)
(* else does.  The order of the roster depends on the rest of the workflow *)
(* and is left open.                                                       *)
(***************************************************************************)
EXTENDS BufferStorage

CONSTANTS
    Sessions,
    Values,
    Joins,          \* Join nodes that listen to the buffer
    Listens,        \* Listen nodes: they listen, and hand out keys when woken
    Accesses,       \* OperateBufferAccess nodes: they hand out keys on request
    KeyParts,       \* accessor -> how many buffers its keys are for
    Retention,      \* the RetentionPolicies a buffer may have
    None,           \* no accessor; a session the buffer does not know
    MaxInputs,      \* inputs that wait at the buffer
    MaxWaiting,     \* inputs that wait at one of the other nodes
    MaxLength,      \* length of a KeepAll queue
    MaxKeys,        \* keys of one accessor that are in the workflow
    MaxCommands     \* BufferMuts that one system opens

Listeners == Joins \cup Listens         \* ForkTargetStorage of the buffer
Accessors == Listens \cup Accesses      \* BufferAccessors of the buffer
Nodes == Listeners \cup Accesses

ASSUME BufferAssumption ==
    /\ Joins \cap Listens = {} /\ (Joins \cup Listens) \cap Accesses = {}
    /\ KeyParts \in [Accessors -> Nat \ {0}]
    /\ None \notin Nodes
    \* KeepFirst(0) stores what is pushed as oldest, against its policy
    /\ Retention \subseteq Policies(Nat) \ [keep : {KeepFirst}, limit : {0}]
    /\ \A bound \in {MaxInputs, MaxWaiting, MaxLength, MaxKeys, MaxCommands} :
          bound \in Nat
    /\ MaxCommands > 0

VARIABLES
    retention,  \* BufferSettings
    storage,    \* Sessions -> BufferStorage::reverse_queues, or None
    gate,       \* Sessions -> GateState::map: "open", "closed", or None
    input,      \* Sessions -> InputStorage of the buffer, oldest first
    waiting,    \* node -> session -> inputs in its InputStorage
    keyed,      \* accessor -> the sessions for which it stores a key
    keys,       \* accessor -> session -> keys it sent out that are not dropped
    leaving,    \* the same for keys whose drop has begun: the tracker is held
    channel,    \* session -> disposals of keys in the ChannelQueue
    status,     \* session -> "active" | "cleaned" | "cleared"
    mut,        \* the BufferMut that a system has opened
    commands,   \* the NotifyBufferUpdate commands of that system
    unseen      \* history: listener -> session -> how its content has changed
                \* since the listener last looked: None, Silent or Told

vars == <<retention, storage, gate, input, waiting, keyed, keys, leaving,
          channel, status, mut, commands, unseen>>
nodeVars == <<waiting, keyed, keys, leaving, channel, status>>
systemVars == <<mut, commands>>

Mutation == [accessor : Accessors \cup {None}, session : Sessions, modified : BOOLEAN]
NoMut == None

\* How the content of a session changes: by a push or by a system, which the
\* code tells the listeners of, or only by the pull of a join or a trim of the
\* buffer, which it tells nobody.
Told == "told"
Silent == "silent"

\* None is no sequence, no mode of a gate, no BufferMut and no kind of change.
ASSUME NoneAssumption ==
    /\ None \notin Seq(Values) /\ None \notin Mutation
    /\ None \notin {"open", "closed", Told, Silent}

Notice == [accessor : Accessors \cup {None}, session : Sessions]
-----------------------------------------------------------------------------
NoSystem == mut = NoMut /\ commands = <<>>

Active(s) == status[s] = "active"
Closed(s) == gate[s] = "closed"
Queue(s) == IF storage[s] = None THEN <<>> ELSE storage[s]
HasRoom(s) == retention.keep = KeepAll => Len(Queue(s)) < MaxLength

\* give_input of () to the nodes in `to': it does nothing for a session that
\* is not active.
Woken(to, s) ==
    IF Active(s)
    THEN [n \in Nodes |-> IF n \in to THEN [waiting[n] EXCEPT ![s] = @ + 1]
                                      ELSE waiting[n]]
    ELSE waiting

\* Not more than MaxWaiting wake-ups at once.
MayWake(to, s) == \A n \in to : waiting[n][s] < MaxWaiting

\* A slip: the gate of the session is not asked.
NotifyAnyway(to, s) == MayWake(to, s) /\ waiting' = Woken(to, s)

\* Wake those in `to' for a change of the buffer, unless its gate is closed.
Notify(to, s) ==
    \/ Closed(s) /\ UNCHANGED waiting
    \/ ~Closed(s) /\ MayWake(to, s) /\ waiting' = Woken(to, s)

Changed(to, s) ==
    [l \in Listeners |-> IF l \in to THEN [unseen[l] EXCEPT ![s] = Told] ELSE unseen[l]]
ChangedSilently(to, s) ==
    [l \in Listeners |-> IF l \in to /\ unseen[l][s] # Told
                         THEN [unseen[l] EXCEPT ![s] = Silent] ELSE unseen[l]]
Seen(l, s) == [unseen EXCEPT ![l][s] = None]

Init ==
    /\ retention \in Retention
    /\ storage = [s \in Sessions |-> None]
    /\ gate = [s \in Sessions |-> None]
    /\ input = [s \in Sessions |-> <<>>]
    /\ waiting = [n \in Nodes |-> [s \in Sessions |-> 0]]
    /\ keyed = [a \in Accessors |-> {}]
    /\ keys = [a \in Accessors |-> [s \in Sessions |-> 0]]
    /\ leaving = [a \in Accessors |-> [s \in Sessions |-> 0]]
    /\ channel = [s \in Sessions |-> 0]
    /\ status = [s \in Sessions |-> "active"]
    /\ mut = NoMut
    /\ commands = <<>>
    /\ unseen = [l \in Listeners |-> [s \in Sessions |-> None]]
-----------------------------------------------------------------------------
\* The operations of the flush.

\* An operation upstream gives the buffer a value.
Arrive(s, v) ==
    /\ NoSystem /\ Active(s) /\ Len(input[s]) < MaxInputs
    /\ input' = [input EXCEPT ![s] = Append(@, v)]
    /\ UNCHANGED <<retention, storage, gate, nodeVars, systemVars, unseen>>

ForcePush(q, v) == ImplPush(q, retention, v).queue

\* OperateBuffer::execute
Execute(s) ==
    /\ NoSystem /\ input[s] # <<>> /\ HasRoom(s)
    /\ input' = [input EXCEPT ![s] = Tail(@)]
    /\ storage' = [storage EXCEPT ![s] = ForcePush(Queue(s), Head(input[s]))]
    /\ unseen' = Changed(Listeners, s)
    /\ Notify(Listeners, s)
    /\ UNCHANGED <<retention, gate, keyed, keys, leaving, channel, status, systemVars>>

Take(n, s) == waiting' = [waiting EXCEPT ![n][s] = @ - 1]

\* Join::execute: unless every buffer of the join has a value it is not ready.
\* Nobody is told of the values it pulls.
RunJoin(j, s) ==
    /\ NoSystem /\ waiting[j][s] > 0
    /\ Take(j, s)
    /\ \E othersHaveOne \in BOOLEAN :
          IF othersHaveOne /\ storage[s] \notin {None, <<>>}
          THEN /\ storage' = [storage EXCEPT ![s] = Pull(@).queue]
               /\ unseen' = [ChangedSilently(Listeners, s) EXCEPT ![j][s] = None]
          ELSE UNCHANGED storage /\ unseen' = Seen(j, s)
    /\ UNCHANGED <<retention, gate, input, keyed, keys, leaving, channel, status,
                   systemVars>>

\* The keys of an accessor that hold its tracker, dropped halfway or not
InFlow(a, s) == keys[a][s] + leaving[a][s]

\* get_access_keys: the accessor makes one key for a session and sends deep
\* clones of it.  Making it ensures that the buffer knows the session.
GetAccessKeys(a, s) ==
    /\ InFlow(a, s) < MaxKeys
    /\ keys' = [keys EXCEPT ![a][s] = @ + 1]
    /\ keyed' = [keyed EXCEPT ![a] = @ \cup {s}]
    /\ IF s \notin keyed[a] /\ storage[s] = None
       THEN storage' = [storage EXCEPT ![s] = <<>>]
       ELSE UNCHANGED storage

\* Listen::execute
RunListen(l, s) ==
    /\ NoSystem /\ waiting[l][s] > 0
    /\ Take(l, s)
    /\ GetAccessKeys(l, s)
    /\ unseen' = Seen(l, s)
    /\ UNCHANGED <<retention, gate, input, leaving, channel, status, systemVars>>

\* An operation upstream gives an OperateBufferAccess node an input, ...
Ask(a, s) ==
    /\ NoSystem /\ Active(s) /\ MayWake({a}, s)
    /\ waiting' = Woken({a}, s)
    /\ UNCHANGED <<retention, storage, gate, input, keyed, keys, leaving, channel,
                   status, systemVars, unseen>>

\* ... which it sends on with a key.
RunAccess(a, s) ==
    /\ NoSystem /\ waiting[a][s] > 0
    /\ Take(a, s)
    /\ GetAccessKeys(a, s)
    /\ UNCHANGED <<retention, gate, input, leaving, channel, status, systemVars, unseen>>

\* A slip: opening a gate is silent.
OpensSilently(s, action) == FALSE

\* The listeners are woken: something may have arrived while it was closed.
Opens(s, action) == Closed(s) /\ action = "open"

\* A gate node runs: GateState::apply.  A gate that nobody has touched is open.
RunGate(s, action) ==
    /\ NoSystem /\ Active(s)
    /\ gate' = [gate EXCEPT ![s] = action]
    /\ IF Opens(s, action)
       THEN MayWake(Listeners, s) /\ waiting' = Woken(Listeners, s)
       ELSE UNCHANGED waiting
    /\ UNCHANGED <<retention, storage, input, keyed, keys, leaving, channel, status,
                   systemVars, unseen>>
-----------------------------------------------------------------------------
\* A system with a key.

\* BufferAccessMut::get_mut, with allow_closed_loops or without
OpenMut(a, s, allowClosedLoops) ==
    /\ mut = NoMut /\ keys[a][s] > 0 /\ Len(commands) < MaxCommands
    /\ mut' = [accessor |-> IF allowClosedLoops THEN None ELSE a,
               session |-> s, modified |-> FALSE]
    /\ UNCHANGED <<retention, storage, gate, input, nodeVars, commands, unseen>>

\* A cleanup workflow uses a key without tracking, of no accessor.
OpenCleanupMut(s) ==
    /\ NoSystem /\ status[s] = "cleaned"
    /\ mut' = [accessor |-> None, session |-> s, modified |-> FALSE]
    /\ UNCHANGED <<retention, storage, gate, input, nodeVars, commands, unseen>>

\* Each call marks the buffer as modified, and the listeners that are not the
\* source of the key have something new to look at.
Modified ==
    /\ mut # NoMut
    /\ mut' = [mut EXCEPT !.modified = TRUE]
    /\ unseen' = Changed(Listeners \ {mut.accessor}, mut.session)
    /\ UNCHANGED <<retention, gate, input, nodeVars, commands>>

\* A slip: the storage of a session is made where it is missing.
UpdateOrInsert(q) == storage' = [storage EXCEPT ![mut.session] = q]

\* A session that the buffer does not know stays unknown.
Update(q) ==
    storage' = [storage EXCEPT ![mut.session] = IF @ = None THEN None ELSE q]

MutPush(v) ==
    /\ Modified /\ HasRoom(mut.session)
    /\ Update(ImplPush(Queue(mut.session), retention, v).queue)

MutPushAsOldest(v) ==
    /\ Modified /\ HasRoom(mut.session)
    /\ Update(ImplPushAsOldest(Queue(mut.session), retention, v).queue)

MutPull == Modified /\ Update(Pull(Queue(mut.session)).queue)
MutPullNewest == Modified /\ Update(PullNewest(Queue(mut.session)).queue)

MutDrain(from, to) ==
    /\ Modified /\ from <= to /\ to <= Len(Queue(mut.session))
    /\ Update(Drain(Queue(mut.session), from, to).queue)

MutNewest(v) == Modified /\ Update(SetNewest(Queue(mut.session), v))
MutOldest(v) == Modified /\ Update(SetOldest(Queue(mut.session), v))

\* pulse(), and get_mut(index), which never finds anything
Pulse == Modified /\ UNCHANGED storage

\* open_gate and close_gate do nothing to a gate that no gate node has touched.
MutOpenGate ==
    /\ mut # NoMut
    /\ IF Closed(mut.session)
       THEN /\ gate' = [gate EXCEPT ![mut.session] = "open"]
            /\ mut' = [mut EXCEPT !.modified = TRUE]
            \* the source of the key is not told, by design
            /\ unseen' = IF mut.accessor \in Listeners
                         THEN Seen(mut.accessor, mut.session) ELSE unseen
       ELSE UNCHANGED <<gate, mut, unseen>>
    /\ UNCHANGED <<retention, storage, input, nodeVars, commands>>

MutCloseGate ==
    /\ mut # NoMut
    /\ gate' = [gate EXCEPT ![mut.session] = IF @ = None THEN None ELSE "closed"]
    /\ UNCHANGED <<retention, storage, input, nodeVars, systemVars, unseen>>

\* Drop for BufferMut
DropMut ==
    /\ mut # NoMut
    /\ mut' = NoMut
    /\ commands' = IF mut.modified
                   THEN Append(commands, [accessor |-> mut.accessor, session |-> mut.session])
                   ELSE commands
    /\ UNCHANGED <<retention, storage, gate, input, nodeVars, unseen>>

\* The commands of the system are applied.
NotifyBufferUpdate ==
    /\ mut = NoMut /\ commands # <<>>
    /\ commands' = Tail(commands)
    /\ LET notice == Head(commands)
       IN  Notify(Listeners \ {notice.accessor}, notice.session)
    /\ UNCHANGED <<retention, storage, gate, input, keyed, keys, leaving, channel,
                   status, mut, unseen>>
-----------------------------------------------------------------------------
\* The lifecycle of keys.

\* A slip: the accessor's own key is left out.
StrongCountSent(a, s) == KeyParts[a] * keys[a][s] + leaving[a][s]

\* BufferAccessLifecycle::is_in_use: what the accessor and the keys it sent out
\* hold of the tracker, one for each buffer a key is for.  Of a key that is
\* being dropped the last one is left.
StrongCount(a, s) ==
    KeyParts[a] * (keys[a][s] + (IF s \in keyed[a] THEN 1 ELSE 0)) + leaving[a][s]

\* buffer_key_usage, from which the reachability of the buffer follows
InUse(a, s) == s \in keyed[a] /\ StrongCount(a, s) > 1

\* The workflow drops the last clone of a key, in a system or in a task on
\* another thread.  Drop::drop sends the notice, ...
DropKey(a, s) ==
    /\ NoSystem /\ keys[a][s] > 0
    /\ keys' = [keys EXCEPT ![a][s] = @ - 1]
    /\ leaving' = [leaving EXCEPT ![a][s] = @ + 1]
    /\ channel' = [channel EXCEPT ![s] = IF StrongCount(a, s) > 1 THEN 1 ELSE @]
    /\ UNCHANGED <<retention, storage, gate, input, waiting, keyed, status,
                   systemVars, unseen>>

\* ... and only then are the fields dropped, the tracker among them: the notice
\* may have been dealt with by then.
ReleaseTracker(a, s) ==
    /\ NoSystem /\ leaving[a][s] > 0
    /\ leaving' = [leaving EXCEPT ![a][s] = @ - 1]
    /\ UNCHANGED <<retention, storage, gate, input, waiting, keyed, keys, channel,
                   status, systemVars, unseen>>

\* The flush takes the disposals of keys from the channel: the scope checks
\* whether its end can still be reached.
Collect(s) ==
    /\ NoSystem /\ channel[s] > 0
    /\ channel' = [channel EXCEPT ![s] = 0]
    /\ UNCHANGED <<retention, storage, gate, input, waiting, keyed, keys, leaving,
                   status, systemVars, unseen>>
-----------------------------------------------------------------------------
\* Cleanup.

\* cleanup_inputs of the buffer: what waits goes into the storage.  The inputs
\* are taken out oldest first and then pushed in the opposite order.
StoredUpTo(s) ==
    LET n == Len(input[s])
        stored[i \in 0..n] == IF i = 0 THEN Queue(s)
                             ELSE ForcePush(stored[i - 1], input[s][n + 1 - i])
    IN stored

StoredAtCleanup(s) == StoredUpTo(s)[Len(input[s])]

CleanBuffer(s) ==
    /\ storage' = IF input[s] = <<>> THEN storage
                  ELSE [storage EXCEPT ![s] = StoredAtCleanup(s)]
    /\ input' = [input EXCEPT ![s] = <<>>]

\* A trim cleans one of the nodes of an active session; the keys stay.
TrimNode(n, s) ==
    /\ NoSystem /\ Active(s)
    /\ waiting[n][s] > 0
    /\ waiting' = [waiting EXCEPT ![n][s] = 0]
    /\ unseen' = IF n \in Listeners THEN Seen(n, s) ELSE unseen
    /\ UNCHANGED <<retention, storage, gate, input, keyed, keys, leaving, channel,
                   status, systemVars>>

\* A trim cleans the buffer: its values stay, and nobody is told of the inputs
\* that join them.
TrimBuffer(s) ==
    /\ NoSystem /\ Active(s) /\ input[s] # <<>> /\ HasRoom(s)
    /\ CleanBuffer(s)
    /\ unseen' = ChangedSilently(Listeners, s)
    /\ UNCHANGED <<retention, gate, nodeVars, systemVars>>

\* The scope cleans all its nodes as the session ends.
CleanSession(s) ==
    /\ NoSystem /\ Active(s) /\ HasRoom(s)
    /\ status' = [status EXCEPT ![s] = "cleaned"]
    /\ CleanBuffer(s)
    /\ waiting' = [n \in Nodes |-> [waiting[n] EXCEPT ![s] = 0]]
    /\ keyed' = [a \in Accessors |-> keyed[a] \ {s}]
    /\ unseen' = [l \in Listeners |-> [unseen[l] EXCEPT ![s] = None]]
    /\ UNCHANGED <<retention, gate, keys, leaving, channel, systemVars>>

\* After the cleanup workflows, which may use the buffer, clear_scope_buffers.
ClearSession(s) ==
    /\ NoSystem /\ status[s] = "cleaned"
    /\ status' = [status EXCEPT ![s] = "cleared"]
    /\ storage' = [storage EXCEPT ![s] = None]
    /\ UNCHANGED <<retention, gate, input, waiting, keyed, keys, leaving, channel,
                   systemVars, unseen>>

Next ==
    \/ \E s \in Sessions :
          \/ \E v \in Values : Arrive(s, v)
          \/ Execute(s) \/ Collect(s) \/ CleanSession(s) \/ ClearSession(s)
          \/ TrimBuffer(s) \/ OpenCleanupMut(s)
          \/ \E j \in Joins : RunJoin(j, s)
          \/ \E l \in Listens : RunListen(l, s)
          \/ \E a \in Accesses : Ask(a, s) \/ RunAccess(a, s)
          \/ \E action \in {"open", "closed"} : RunGate(s, action)
          \/ \E a \in Accessors :
                \/ DropKey(a, s) \/ ReleaseTracker(a, s)
                \/ \E allow \in BOOLEAN : OpenMut(a, s, allow)
          \/ \E n \in Nodes : TrimNode(n, s)
    \/ \E v \in Values : MutPush(v) \/ MutPushAsOldest(v) \/ MutNewest(v) \/ MutOldest(v)
    \/ MutPull \/ MutPullNewest \/ Pulse
    \/ \E from, to \in 1..MaxLength : MutDrain(from, to)
    \/ MutOpenGate \/ MutCloseGate \/ DropMut \/ NotifyBufferUpdate

Spec == Init /\ [][Next]_vars
-----------------------------------------------------------------------------
Counters(domain, bound) == [domain -> [Sessions -> 0..bound]]

\* Queues are no longer than their policy allows, and what waits belongs to
\* sessions that can still use it.
TypeOK ==
    /\ retention \in Retention
    /\ storage \in [Sessions -> Seq(Values) \cup {None}]
    /\ \A s \in Sessions : retention.keep # KeepAll => Len(Queue(s)) <= retention.limit
    /\ gate \in [Sessions -> {"open", "closed", None}]
    /\ input \in [Sessions -> Seq(Values)] /\ \A s \in Sessions : Len(input[s]) <= MaxInputs
    /\ waiting \in Counters(Nodes, MaxWaiting)
    /\ keyed \in [Accessors -> SUBSET Sessions]
    /\ keys \in Counters(Accessors, MaxKeys)
    /\ leaving \in Counters(Accessors, MaxKeys)
    /\ \A a \in Accessors, s \in Sessions : InFlow(a, s) <= MaxKeys
    /\ channel \in [Sessions -> {0, 1}]
    /\ status \in [Sessions -> {"active", "cleaned", "cleared"}]
    /\ mut \in Mutation \cup {NoMut}
    /\ commands \in Seq(Notice) /\ Len(commands) <= MaxCommands
    /\ unseen \in [Listeners -> [Sessions -> {None, Silent, Told}]]

\* Listeners wake up when a buffer changes (bufferable.rs on listen and join):
\* as long as the gate is not closed, a listener that has not looked since an
\* operation stored an input, or since a system changed the buffer or opened
\* its gate, has a wake-up waiting, whatever the gate did meanwhile.  Changes
\* of the other kinds wake nobody, although bufferable.rs:65-68 says "every
\* time": what another join pulled, and inputs that a trim moved in.
EveryChangeIsSeen ==
    NoSystem =>
        \A l \in Listeners, s \in Sessions :
            unseen[l][s] = Told /\ Active(s) /\ ~Closed(s) => waiting[l][s] > 0

\* For as long as a session is active, what its accessor answers about the use
\* of its keys (buffer_key_usage, on which the scope's check of reachability
\* rests) errs on one side only, through any cloning, dropping and trimming: a
\* key in the workflow, even one that is just being dropped, counts as in use;
\* and what counts as in use is in the workflow, unless keys are for several
\* buffers, whose parts the accessor's own stored key makes look used for ever.
KeysAreTracked ==
    \A a \in Accessors, s \in Sessions :
        Active(s) =>
            /\ InFlow(a, s) > 0 => InUse(a, s)
            /\ InUse(a, s) => InFlow(a, s) > 0 \/ KeyParts[a] > 1

\* After clear_scope_buffers nothing of a session comes back into the buffer,
\* although keys of it may still be in use.
ClearedForGood ==
    \A s \in Sessions :
        status[s] = "cleared" =>
            /\ storage[s] = None /\ input[s] = <<>>
            /\ \A n \in Nodes : waiting[n][s] = 0
            /\ \A a \in Accessors : s \notin keyed[a]

\* No step wakes a listener while the gate is closed after it (gate.rs on
\* Gate::Closed): a notice that was due when the gate closed is not delivered.
ClosedGateWithholds ==
    [][\A l \in Listeners, s \in Sessions :
          waiting'[l][s] > waiting[l][s] => gate'[s] # "closed"]_vars

\* The inputs of the buffer are stored in the order in which they arrived, one
\* by one or, at a cleanup, all together.
StoresInOrder ==
    [][\A s \in Sessions :
          LET count == Len(input[s]) - Len(input'[s])
          IN  count > 0 =>
                storage'[s] = FoldLeft(LAMBDA q, v : ImplPush(q, retention, v).queue,
                                       Queue(s), SubSeq(input[s], 1, count))]_vars

\* What is stored at once: an input, or all that wait when the buffer is cleaned.
Groups == UNION {[1..n -> Values] : n \in 1..MaxInputs \cup {1}}

\* The storage of each session is the queue that the retention policy promises.
Contract == INSTANCE BufferContract WITH
    Retentions <- Retention,
    Batches <- Groups,
    policy <- retention,
    open <- [s \in Sessions |-> storage[s] # None],
    held <- [s \in Sessions |-> Reverse(Queue(s))]
ImplementsContract == Contract!Spec
=============================================================================
