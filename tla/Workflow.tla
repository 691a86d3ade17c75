------------------------------ MODULE Workflow ------------------------------
(***************************************************************************)
(* One session of a workflow: the operations of its scope and what they     *)
(* give each other, the checks of whether its end can still be reached      *)
(* (operation.rs, operation/scope.rs), collect, join, trim, injection and   *)
(* asynchronous tasks with streams, in the order of the flush (flush.rs).   *)
(*                                                                         *)
(* The session ends here with its fate; Scope models what follows.          *)
(***************************************************************************)
EXTENDS Spans, FiniteSetsExt

CONSTANTS
    Shapes,         \* the worlds of workflows
    MaxSpread,      \* items an iterator of spread yields, or a blocking stream
    MaxItems,       \* items the tasks of a session stream
    MayInjectLost   \* a service that is gone may be injected

ASSUME WorkflowAssumption ==
    /\ MaxSpread \in Nat /\ MaxItems \in Nat
    /\ MayInjectLost \in BOOLEAN
    /\ \A w \in Shapes : LinksMatch(w) /\ SpansAreRight(w)

VARIABLES
    world,          \* the workflow that runs, chosen once
    flow,           \* what its nodes and the roster hold, see Init
    phase,          \* of the flush: "begin", "run", "collect" (the disposals)
    fate            \* "running", "terminated", "unreachable", "cancelled", "circular"

vars == <<world, flow, phase, fate>>

Nodes == DOMAIN world.ops
Op(n) == world.ops[n]
First(n) == Op(n).out[1]
Second(n) == Op(n).out[2]

\* Where a disposal came from when it is not a node: the scope, or a task, which has
\* no targets of its own.
Nowhere == 0

IsBelow(origin, n) == origin # Nowhere /\ n \in Below(world)[origin]

Idle == [waiting |-> 0, tasks |-> 0, answers |-> 0, stored |-> 0, begun |-> FALSE]

Init ==
    /\ world \in Shapes
    /\ flow = [
          at |-> [n \in Nodes |-> Idle],
                          \* inputs; running tasks; answers to an injection; what a
                          \* collect or buffer holds; whether a collect has an entry
          queue |-> <<>>, \* roster.queue: [do: "run", "poll" or "answer", node]
          deferred |-> <<>>, \* roster.deferred_queue
          disposed |-> <<>>, \* roster.disposed: the origins
          finished |-> <<>>, \* roster.cleanup_finished: indices of cleanups
          channel |-> <<>>,  \* ChannelQueue: items for a node, and tasks that ended
          stops |-> {},   \* tasks that are being cancelled: [task, node, cleanup, listed]
          cleanups |-> <<>>, \* of trims: [trim, left, holds]
          lost |-> FALSE, \* the service of the "service" nodes was despawned,
          notice |-> FALSE, \* and the flush has yet to learn it
          items |-> 0,    \* items that were streamed
          sent |-> {}]    \* collects that sent what they had as nothing could follow
    /\ phase = "begin"
    /\ fate = "running"

-----------------------------------------------------------------------------
(* Giving and disposing *)

Item(do, n) == [do |-> do, node |-> n]

\* give_input and defer_input; an unused target ignores its input.
Take(f, n) == [f EXCEPT !.at[n].waiting = @ + 1]

Give(f, n) ==
    IF Op(n).kind = "unused" THEN f
    ELSE [Take(f, n) EXCEPT !.queue = Append(@, Item("run", n))]

Defer(f, n) ==
    IF Op(n).kind = "unused" THEN f
    ELSE [Take(f, n) EXCEPT !.deferred = Append(@, Item("run", n))]

GiveAll(f, nodes) == FoldLeft(Give, f, nodes)

\* A slip: no validation follows.
DisposeQuietly(f, n) == f

\* emit_disposal; an unused target belongs to no scope.
Dispose(f, n) ==
    IF Op(n).kind = "unused" THEN f ELSE [f EXCEPT !.disposed = Append(@, n)]

TakeInput(f, n) == [f EXCEPT !.at[n].waiting = @ - 1]

\* on_unreachable_collection: nothing more will come.
Conclude(f, n) ==
    IF f.at[n].stored < Op(n).min THEN Dispose(f, n)
    ELSE Give([f EXCEPT !.at[n].stored = 0, !.at[n].begun = TRUE, !.sent = @ \cup {n}], First(n))

Streams(n) == 2..Len(Op(n).out)

Counts(n) == [Streams(n) -> 0..MaxSpread]

\* process_buffer: each stream gives what was sent; one disposal if any was not used.
ProcessStreams(f, n, origin, counts) ==
    LET Sent(g, i) == GiveAll(g, [k \in 1..counts[i] |-> Op(n).out[i]])
        sent == FoldLeft(Sent, f, [i \in 1..(Len(Op(n).out) - 1) |-> i + 1])
    IN  IF \E i \in Streams(n) : counts[i] = 0
        THEN [sent EXCEPT !.disposed = Append(@, origin)] ELSE sent

\* dispose_for_despawned_service: of all that waits at its nodes.
DisposeInputs(f, n) ==
    [f EXCEPT !.at[n].waiting = 0,
              !.disposed = @ \o [i \in 1..f.at[n].waiting |-> n]]

ServeNobody(f) ==
    FoldSet(LAMBDA n, g : DisposeInputs(g, n), f, {n \in Nodes : Op(n).kind = "service"})

-----------------------------------------------------------------------------
(* Reachability *)

Stopping(f, n) == {s \in f.stops : s.node = n /\ s.listed}

\* A slip: tasks are overlooked.
BusyWithInput(f, n) == f.at[n].waiting > 0

\* What a node sees of its own.
Busy(f, n) ==
    \/ f.at[n].waiting > 0
    \/ f.at[n].tasks > 0
    \/ f.at[n].answers > 0
    \/ Stopping(f, n) # {} /\ Op(n).kind # "inject"

\* A slip: a collection that waits counts for nothing.
NeverSends(f, n, origin) == FALSE

\* A collection that a disposal will set free.
WillSend(f, n, origin) ==
    /\ Op(n).kind = "collect"
    /\ f.at[n].begun /\ Op(n).min <= f.at[n].stored
    /\ IsBelow(origin, n)

\* check_upstream and SingleInputStorage::is_reachable: `seen` is what is known of each
\* node, "no" while it is being found out.  A join asks all of its buffers, and stops at
\* the first that is not reachable; the others stop at the first input that is.
Walk(f, origin) ==
    LET visit[n \in Nodes, seen \in [Nodes -> {"new", "no", "yes"}]] ==
            LET OneOf(r, i) == IF r.yes THEN r ELSE visit[i, r.seen]
                EachOf(r, i) == IF r.yes THEN visit[i, r.seen] ELSE r
                entered == [seen EXCEPT ![n] = "no"]
                found ==
                    IF Op(n).kind = "join"
                    THEN FoldLeft(EachOf, [yes |-> TRUE, seen |-> entered], Op(n).funnel)
                    ELSE FoldLeft(OneOf, [yes |-> Busy(f, n) \/ WillSend(f, n, origin),
                                        seen |-> entered], Op(n).in)
            IN  IF seen[n] # "new" THEN [yes |-> seen[n] = "yes", seen |-> seen]
                ELSE [found EXCEPT !.seen[n] = IF found.yes THEN "yes" ELSE "no"]
    IN  visit

Unseen == [n \in Nodes |-> "new"]

\* check_reachability, of the end.
EndIsReachable(f, origin) == Walk(f, origin)[Terminal, Unseen].yes

\* is_upstream_active, of a collect.
UpstreamActive(f, n, origin) ==
    \/ f.at[n].waiting > 0
    \/ LET OneOf(r, i) == IF r.yes THEN r ELSE Walk(f, origin)[i, r.seen]
       IN  FoldLeft(OneOf, [yes |-> FALSE, seen |-> [Unseen EXCEPT ![n] = "no"]], Op(n).in).yes

\* collection_disposal_listener
Listen(f, n, origin) ==
    IF Op(n).kind # "collect" \/ n = origin \/ ~IsBelow(origin, n) \/ UpstreamActive(f, n, origin)
    THEN f ELSE Conclude(f, n)

\* validate_scope_reachability
Validated(f, origin) ==
    LET heard == FoldLeft(LAMBDA g, n : Listen(g, n, origin), f, world.contents)
    IN  /\ flow' = heard
        /\ fate' = IF EndIsReachable(heard, origin) THEN fate ELSE "unreachable"

-----------------------------------------------------------------------------
(* Cleaning, on behalf of a trim *)

\* notify_cleaned: node n is clean, as far as cleanup c is concerned.
Cleaned(f, n, c) ==
    IF n \notin f.cleanups[c].left THEN f
    ELSE [f EXCEPT !.cleanups[c].left = @ \ {n},
                   !.finished = IF f.cleanups[c].left = {n} THEN Append(@, c) ELSE @]

\* The node drops what it has; a buffer stores its inputs, the Terminate operation
\* keeps them, and a trim lets go of the values it held.
Emptied(f, n) ==
    CASE Op(n).kind = "terminal" -> f
      [] Op(n).kind = "buffer" -> [f EXCEPT !.at[n].stored = @ + f.at[n].waiting,
                                           !.at[n].waiting = 0]
      [] OTHER -> [f EXCEPT !.at[n].waiting = 0, !.at[n].answers = 0,
                            !.at[n].stored = 0, !.at[n].begun = FALSE,
                            !.cleanups = [c \in DOMAIN @ |->
                                IF @[c].trim = n THEN [@[c] EXCEPT !.holds = FALSE] ELSE @[c]]]

\* Its tasks are cancelled, and those that are being cancelled forgotten: the node is
\* clean when the last one has ended.
Halted(f, n, c) ==
    [f EXCEPT !.at[n].tasks = 0,
              !.queue = SelectSeq(@, LAMBDA i : i # Item("poll", n)),
              !.stops = {IF s.node = n THEN [s EXCEPT !.listed = FALSE] ELSE s : s \in @}
                        \cup [task : 1..f.at[n].tasks, node : {n}, cleanup : {c}, listed : {TRUE}]]

CleanNode(f, n, c) ==
    CASE Op(n).kind = "unused" -> f
      [] Op(n).kind # "unused" /\ f.at[n].tasks > 0 -> Halted(Emptied(f, n), n, c)
      [] OTHER -> Cleaned(Halted(Emptied(f, n), n, c), n, c)

\* A task of the cleanup has ended (cleanup_task).
StoppedTask(f, s) ==
    LET rest == [f EXCEPT !.stops = @ \ {s}]
    IN  IF \E t \in rest.stops : t.node = s.node /\ t.listed /\ t.cleanup = s.cleanup
        THEN rest ELSE Cleaned(rest, s.node, s.cleanup)

\* finalize_trim; nothing is left to give when the trim itself was cleaned.
Finalized(f, c) ==
    LET trim == f.cleanups[c].trim
    IN  IF ~f.cleanups[c].holds THEN f
        ELSE Give(Dispose([f EXCEPT !.cleanups[c].holds = FALSE], trim), First(trim))

-----------------------------------------------------------------------------
(* The session begins *)

CircularCollects ==
    \E i, j \in Nodes : /\ Op(i).kind = "collect" /\ Op(j).kind = "collect"
                        /\ IsBelow(i, j) /\ IsBelow(j, i)

Begin ==
    /\ phase = "begin" /\ phase' = "run"
    /\ IF CircularCollects THEN fate' = "circular" /\ UNCHANGED flow
       ELSE Validated(Give(flow, world.entry), Nowhere)
    /\ UNCHANGED world

-----------------------------------------------------------------------------
(* The operations, from the head of the roster's queue *)

\* garbage_cleanup comes before the next operation.
Ready == phase = "run" /\ fate = "running" /\ flow.finished = <<>>

Finalize ==
    /\ phase = "run" /\ fate = "running" /\ flow.finished # <<>>
    /\ flow' = Finalized([flow EXCEPT !.finished = Front(@)], Last(flow.finished))
    /\ UNCHANGED <<world, phase, fate>>

Popped == [flow EXCEPT !.queue = Tail(@)]

IsNext(do) == Ready /\ flow.queue # <<>> /\ Head(flow.queue).do = do

\* A node whose input was cleaned away meanwhile is not ready.
NotReady ==
    /\ IsNext("run")
    /\ flow.at[Head(flow.queue).node].waiting = 0
    /\ flow' = Popped
    /\ UNCHANGED <<world, phase, fate>>

Executes(n, kind) ==
    /\ IsNext("run") /\ n = Head(flow.queue).node
    /\ flow.at[n].waiting > 0
    /\ Op(n).kind = kind
    /\ UNCHANGED <<world, phase>>

Taken(n) == TakeInput(Popped, n)

\* A function or system answers at once, with streams.
Respond(n, f) ==
    \E counts \in Counts(n) : flow' = Give(ProcessStreams(f, n, n, counts), First(n))

\* The task of an asynchronous one is queued.
StartTask(n, f) ==
    flow' = [f EXCEPT !.at[n].tasks = @ + 1, !.queue = Append(@, Item("poll", n))]

Map(n) ==
    /\ Executes(n, "map")
    /\ Respond(n, Taken(n)) /\ UNCHANGED fate

MapAsync(n) ==
    /\ Executes(n, "async")
    /\ StartTask(n, Taken(n)) /\ UNCHANGED fate

Callback(n) ==
    /\ \/ Executes(n, "callback") /\ Respond(n, Taken(n))
       \/ Executes(n, "task callback") /\ StartTask(n, Taken(n))
    /\ UNCHANGED fate

\* A blocking service, unless it is gone.
Serve(n) ==
    /\ Executes(n, "service")
    /\ \/ ~flow.lost /\ Respond(n, Taken(n))
       \/ flow.lost /\ flow' = ServeNobody(Popped)
    /\ UNCHANGED fate

\* The injected service may be of either kind; its streams and disposals are those of
\* an entity made for it.
RunInjection(n) ==
    /\ Executes(n, "inject")
    /\ LET injected == [Taken(n) EXCEPT !.at[n].answers = @ + 1]
           answered == {[ProcessStreams(injected, n, Nowhere, counts) EXCEPT
                            !.queue = Append(@, Item("answer", n))] : counts \in Counts(n)}
           lost == {[injected EXCEPT !.disposed = Append(@, Nowhere)]}
       IN  \/ StartTask(n, Taken(n))
           \/ flow' \in answered \cup (IF MayInjectLost THEN lost ELSE {})
    /\ UNCHANGED fate

RunNoop(n) ==
    /\ Executes(n, "noop")
    /\ flow' = Give(Taken(n), First(n)) /\ UNCHANGED fate

Fork(n) ==
    /\ Executes(n, "fork")
    /\ flow' = GiveAll(Taken(n), Op(n).out) /\ UNCHANGED fate

Distribute(n) ==
    /\ Executes(n, "unzip")
    /\ flow' = GiveAll(Taken(n), Op(n).out) /\ UNCHANGED fate

SpreadOut(n) ==
    /\ Executes(n, "spread")
    /\ \E k \in 0..MaxSpread :
          flow' = IF k = 0 THEN Dispose(Taken(n), n)
                  ELSE GiveAll(Taken(n), [i \in 1..k |-> First(n)])
    /\ UNCHANGED fate

Filter(n) ==
    /\ Executes(n, "filter")
    /\ flow' \in {Give(Taken(n), First(n)), Dispose(Taken(n), n)}
    /\ UNCHANGED fate

Guard(n) ==
    /\ Executes(n, "guard")
    /\ \/ flow' = Give(Taken(n), First(n)) /\ UNCHANGED fate
       \/ flow' = Taken(n) /\ fate' = "cancelled"

\* The disposal is emitted by the target that gets nothing.
Choose(n) ==
    /\ Executes(n, "branch")
    /\ flow' \in {Dispose(Give(Taken(n), First(n)), Second(n)),
                  Give(Dispose(Taken(n), First(n)), Second(n))}
    /\ UNCHANGED fate

Gather(n) ==
    /\ Executes(n, "collect")
    /\ LET more == [Taken(n) EXCEPT !.at[n].stored = @ + 1, !.at[n].begun = TRUE]
       IN  flow' = CASE more.at[n].stored = Op(n).max ->
                            Give([more EXCEPT !.at[n].stored = 0], First(n))
                     [] more.at[n].stored # Op(n).max /\ ~UpstreamActive(more, n, Nowhere) ->
                            Conclude(more, n)
                     [] OTHER -> more
    /\ UNCHANGED fate

Store(n) ==
    /\ Executes(n, "buffer")
    /\ flow' = GiveAll([Taken(n) EXCEPT !.at[n].stored = @ + 1], Op(n).out)
    /\ UNCHANGED fate

\* buffered_count, of several buffers
BufferedCount(f, buffers) == Min({f.at[b].stored : b \in buffers})

\* pull, from each of them
PullEach(f, buffers) ==
    [f EXCEPT !.at = [m \in Nodes |->
        IF m \in buffers THEN [@[m] EXCEPT !.stored = @ - 1] ELSE @[m]]]

Pull(n) ==
    /\ Executes(n, "join")
    /\ LET buffers == Range(Op(n).funnel)
       IN  flow' = IF BufferedCount(flow, buffers) = 0 THEN Taken(n)
                   ELSE Give(PullEach(Taken(n), buffers), First(n))
    /\ UNCHANGED fate

Trim(n) ==
    /\ Executes(n, "trim")
    /\ LET region == CalculateNodes(world, Op(n).cuts)
           c == Len(flow.cleanups) + 1
           held == [Taken(n) EXCEPT !.cleanups =
                       Append(@, [trim |-> n, left |-> region.nodes, holds |-> TRUE])]
       IN  \/ /\ region.invalid
              /\ flow' = Taken(n) /\ fate' = "cancelled"
           \/ /\ ~region.invalid
              /\ flow' = FoldSet(LAMBDA m, f : CleanNode(f, m, c), held, region.nodes)
              /\ UNCHANGED fate

Terminate(n) ==
    /\ Executes(n, "terminal")
    /\ flow' = Taken(n) /\ fate' = "terminated"

\* InjectionFinish; without its entry in the storage it is broken.
Answer ==
    /\ IsNext("answer")
    /\ LET n == Head(flow.queue).node
       IN  flow' = IF flow.at[n].answers = 0 THEN Popped
                   ELSE Give([Popped EXCEPT !.at[n].answers = @ - 1], First(n))
    /\ UNCHANGED <<world, phase, fate>>

-----------------------------------------------------------------------------
(* Tasks *)

\* The future of a task of n is ready when it is polled: the response waits until the
\* items in the channel were delivered.
Finished(f, n) ==
    LET done == [f EXCEPT !.at[n].tasks = @ - 1]
        deferred ==
            IF Op(n).kind = "inject"
            THEN [done EXCEPT !.at[n].answers = @ + 1, !.deferred = Append(@, Item("answer", n))]
            ELSE Defer(done, First(n))
    IN  IF Streams(n) = {} THEN deferred
        ELSE [deferred EXCEPT !.disposed = Append(@, Nowhere)]

Poll ==
    /\ IsNext("poll")
    /\ flow' \in {Popped} \cup
                 (IF flow.at[Head(flow.queue).node].tasks = 0 THEN {}
                  ELSE {Finished(Popped, Head(flow.queue).node)})
    /\ UNCHANGED <<world, phase, fate>>

\* It was woken: roster.awake comes after the queue.
Wake(n) ==
    /\ Ready /\ flow.queue = <<>>
    /\ flow.at[n].tasks > 0
    /\ flow' = Finished(flow, n)
    /\ UNCHANGED <<world, phase, fate>>

SameStop(s, t) == <<s.task, s.node, s.cleanup>> = <<t.task, t.node, t.cleanup>>

\* The cancellation of the task is not complete, so nothing was sent of it.
Unreported(s) ==
    \A i \in DOMAIN flow.channel :
        flow.channel[i].do = "stopped" => ~SameStop(flow.channel[i].node, s)

\* A task that runs sends an item, at any time; so does one that is cancelled, whose
\* future runs elsewhere until the cancellation is complete.
Emit(n) ==
    /\ fate = "running" /\ flow.items < MaxItems
    /\ flow.at[n].tasks > 0 \/ \E s \in flow.stops : s.node = n /\ Unreported(s)
    /\ \E i \in Streams(n) :
          flow' = [flow EXCEPT !.items = @ + 1,
                               !.channel = Append(@, Item("item", Op(n).out[i]))]
    /\ UNCHANGED <<world, phase, fate>>

\* A task that was cancelled has ended.
StopEnds(s) ==
    /\ fate = "running" /\ s \in flow.stops /\ Unreported(s)
    /\ flow' = [flow EXCEPT !.channel = Append(@, Item("stopped", s))]
    /\ UNCHANGED <<world, phase, fate>>

\* Something else despawns the service.
Despawn ==
    /\ phase \in {"begin", "run"} /\ fate = "running" /\ ~flow.lost
    /\ \E n \in Nodes : Op(n).kind = "service"
    /\ flow' = [flow EXCEPT !.lost = TRUE, !.notice = TRUE]
    /\ UNCHANGED <<world, phase, fate>>

-----------------------------------------------------------------------------
(* collect_from_channels *)

Received(f, i) ==
    IF i.do = "item" THEN Give(f, i.node)
    ELSE StoppedTask(f, CHOOSE s \in f.stops : SameStop(i.node, s))

\* The channel, then what was deferred, and the services that were despawned.
CollectFromChannels ==
    /\ Ready /\ flow.queue = <<>> /\ phase' = "collect"
    /\ LET heard == FoldLeft(Received, [flow EXCEPT !.channel = <<>>], flow.channel)
           resumed == [heard EXCEPT !.queue = @ \o heard.deferred, !.deferred = <<>>,
                                    !.notice = FALSE]
       IN  flow' = IF flow.notice THEN ServeNobody(resumed) ELSE resumed
    /\ UNCHANGED <<world, fate>>

\* The latest disposal.
Validate ==
    /\ phase = "collect" /\ fate = "running" /\ flow.disposed # <<>>
    /\ Validated([flow EXCEPT !.disposed = Front(@)], Last(flow.disposed))
    /\ UNCHANGED <<world, phase>>

EndCollect ==
    /\ phase = "collect" /\ fate = "running" /\ flow.disposed = <<>>
    /\ phase' = "run"
    /\ UNCHANGED <<world, flow, fate>>

-----------------------------------------------------------------------------
Next ==
    \/ Begin \/ Finalize \/ NotReady \/ Answer \/ Poll
    \/ CollectFromChannels \/ Validate \/ EndCollect
    \/ Despawn
    \/ \E n \in Nodes : Map(n)
    \/ \E n \in Nodes : MapAsync(n)
    \/ \E n \in Nodes : Callback(n)
    \/ \E n \in Nodes : Serve(n)
    \/ \E n \in Nodes : RunInjection(n)
    \/ \E n \in Nodes : RunNoop(n)
    \/ \E n \in Nodes : Fork(n)
    \/ \E n \in Nodes : Distribute(n)
    \/ \E n \in Nodes : SpreadOut(n)
    \/ \E n \in Nodes : Filter(n)
    \/ \E n \in Nodes : Guard(n)
    \/ \E n \in Nodes : Choose(n)
    \/ \E n \in Nodes : Gather(n)
    \/ \E n \in Nodes : Store(n)
    \/ \E n \in Nodes : Pull(n)
    \/ \E n \in Nodes : Trim(n)
    \/ \E n \in Nodes : Terminate(n)
    \/ \E n \in Nodes : Wake(n)
    \/ \E n \in Nodes : Emit(n)
    \/ \E s \in flow.stops : StopEnds(s)

Spec == Init /\ [][Next]_vars

-----------------------------------------------------------------------------
(* Properties *)

\* The nodes that can still give something: those with an input, a task, an answer or a
\* value that is held, a collect that can send what it has, a join that is served on
\* each side, and what is fed by those.
RECURSIVE Alive(_)
Alive(S) ==
    LET Served(b) == flow.at[b].stored > 0 \/ b \in S
        Own(n) ==
            \/ flow.at[n].waiting > 0 /\ Op(n).kind # "join"
            \/ flow.at[n].tasks > 0 \/ flow.at[n].answers > 0
            \/ \E c \in DOMAIN flow.cleanups : flow.cleanups[c].trim = n /\ flow.cleanups[c].holds
            \/ Op(n).kind = "collect" /\ flow.at[n].stored >= Max({1, Op(n).min})
            \/ \E i \in DOMAIN flow.channel :
                  flow.channel[i].do = "item" /\ flow.channel[i].node = n
        Fed(n) ==
            IF Op(n).kind = "join" THEN \A b \in Range(Op(n).funnel) : Served(b)
            ELSE \E i \in Range(Op(n).in) : i \in S
        more == {n \in Nodes : Own(n) \/ Fed(n)}
    IN  IF more \subseteq S THEN S ELSE Alive(S \cup more)

\* A session is given up as unreachable only if nothing it holds can reach its end: no
\* value, task, collection or pair of joined values is on its way (the walks of
\* check_upstream with its cache, the collections that a disposal sets free, the order
\* of the listeners).
StarvedOnlyIfStuck == fate = "unreachable" => Terminal \notin Alive({})

\* When nothing is left to run, to deliver, to clean or to check, the session has come
\* to its end: no value was lost without a disposal, and no disposal without the check
\* that gives the session up.
QuietIsOver ==
    /\ phase = "run"
    /\ \A field \in {"queue", "deferred", "disposed", "finished", "channel"} : flow[field] = <<>>
    /\ flow.stops = {} /\ ~flow.notice
    /\ \A n \in Nodes : flow.at[n].tasks = 0
    => fate # "running"

\* A collect that has sent its collection since nothing more could come gets nothing
\* more, unless it feeds itself.
NothingMoreArrives ==
    [][\A n \in flow.sent :
        ~(\E t \in Range(Op(n).out) : IsBelow(t, n)) =>
            flow'.at[n].waiting <= flow.at[n].waiting]_vars
=============================================================================
