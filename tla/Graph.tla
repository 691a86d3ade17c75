------------------------------- MODULE Graph -------------------------------
(***************************************************************************)
(* Building a workflow: builder.rs, chain.rs, node.rs, builder/connect.rs   *)
(* and the setup of the operations.                                         *)
(*                                                                         *)
(* A world is what the build commands have made so far: the operation of    *)
(* each entity and its links, the contents of the scope in the order they   *)
(* were added, the entry of the scope, and the outputs of the last call,    *)
(* which the next call of a chain builds on.                                *)
(***************************************************************************)
EXTENDS Integers, Queues, FiniteSets

\* An entity with UnusedTarget and nothing else: `out` are its Single-, Fork- and
\* StreamTargets, `in` its SingleInputStorage, `funnel` its FunnelInputStorage.
Unused ==
    [kind |-> "unused", out |-> <<>>, in |-> <<>>, funnel |-> <<>>,
     min |-> 0, max |-> 0, cuts |-> <<>>]

Gone == [Unused EXCEPT !.kind = "gone"]

Operation(kind) == [Unused EXCEPT !.kind = kind]

Terminal == 2

\* A scope: where its input enters, and the Terminate operation, which is not one of
\* the contents.
NewScope ==
    [ops |-> <<Unused, Operation("terminal")>>, contents |-> <<>>, entry |-> 1, outs |-> <<1>>]

\* The chain or node continues at these entities.
At(w, entities) == [w EXCEPT !.outs = entities]

Spawn(w, count) ==
    LET new == [i \in 1..count |-> Len(w.ops) + i]
    IN  [w EXCEPT !.ops = @ \o [i \in 1..count |-> Unused], !.outs = new]

\* AddOperation: the setup of the operation makes it the one input of its targets.
AddOperation(w, source, op) ==
    [w EXCEPT !.contents = Append(@, source),
              !.ops = [e \in DOMAIN w.ops |->
                  IF e = source THEN [op EXCEPT !.in = w.ops[source].in]
                  ELSE IF e \in Range(op.out) THEN [w.ops[e] EXCEPT !.in = <<source>>]
                  ELSE w.ops[e]]]

\* An operation at the end of the chain, with as many outputs.
Chained(w, op, outputs) ==
    LET spawned == Spawn(w, outputs)
    IN  AddOperation(spawned, Head(w.outs), [op EXCEPT !.out = spawned.outs])

\* Connect: the inputs of the output become inputs of the slot, and the output is
\* despawned; the entry of the scope moves.
Relinked(old, new) == new \o Without(old, ToSet(new))

Redirected(targets, output, slot) ==
    [i \in DOMAIN targets |-> IF targets[i] = output THEN slot ELSE targets[i]]

Connect(w, output, slot) ==
    IF output = w.entry
    THEN [w EXCEPT !.entry = slot, !.ops[output] = Gone]
    ELSE LET inputs == w.ops[output].in
         IN  [w EXCEPT !.ops = [e \in DOMAIN w.ops |->
                 CASE e = output -> Gone
                   [] e = slot -> [w.ops[e] EXCEPT !.in = Relinked(inputs, @)]
                   [] e \in Range(inputs) \ {output, slot} ->
                         [w.ops[e] EXCEPT !.out = Redirected(@, output, slot)]
                   [] OTHER -> w.ops[e]]]

Finish(w) == Connect(w, Head(w.outs), Terminal)

-----------------------------------------------------------------------------
(* What chains and nodes are made of *)

\* The chain that continues at one of the last outputs.
Out(w, i) == At(w, <<w.outs[i]>>)

\* then(): a map, a service or a callback.
Then(w, kind) == Chained(w, Operation(kind), 1)

\* then_node(): with the streams of the provider, the outputs after the first.
ThenNode(w, kind, streams) ==
    LET node == Head(w.outs)
        made == Then(w, kind)
        spawned == Spawn(made, streams)
    IN  [spawned EXCEPT !.outs = made.outs \o @,
                        !.ops = [e \in DOMAIN spawned.ops |->
            CASE e = node -> [@[e] EXCEPT !.out = @ \o spawned.outs]
              [] e \in Range(spawned.outs) -> [@[e] EXCEPT !.in = <<node>>]
              [] OTHER -> @[e]]]

Trigger(w) == Then(w, "map")

Flatten(w) == Then(w, "async")

Noop(w) == Chained(w, Operation("noop"), 1)

Spread(w) == Chained(w, Operation("spread"), 1)

Collect(w, min, max) ==
    Chained(w, [Operation("collect") EXCEPT !.min = min, !.max = max], 1)

CollectAll(w) == Collect(w, 0, 0)

CollectN(w, n) == Collect(w, n, n)

\* dispose_on_err, _quiet_err, _ok, _none
DisposeOn(w) == Chained(w, Operation("filter"), 1)

\* cancel_on_err, _quiet_err, _none
CancelOn(w) == Chained(w, Operation("guard"), 1)

\* fork_result, fork_option
Branch(w) == Chained(w, Operation("branch"), 2)

\* branch_for_err and branch_clone: the chain goes on with the first output of the
\* fork, once `built` was made of the others.
BranchOff(fork, built) == At(built, <<fork.outs[1]>>)

ConnectOnErr(w, slot) ==
    LET fork == Branch(w)
        mapped == Then(Out(fork, 2), "map")
    IN  BranchOff(fork, Connect(mapped, Head(mapped.outs), slot))

Unzip(w, outputs) == Chained(w, Operation("unzip"), outputs)

\* fork_clone()
ForkClone(w, outputs) == Chained(w, Operation("fork"), outputs)

\* AddBranchToForkClone
AddBranch(ops, fork, target) == [ops EXCEPT ![fork].out = Append(@, target)]

\* clone_output of a fork; it has its input from the start.
CloneOutput(w, fork) ==
    LET spawned == Spawn(w, 1)
        target == Head(spawned.outs)
    IN  [spawned EXCEPT !.ops = AddBranch([@ EXCEPT ![target].in = <<fork>>], fork, target)]

Inject(w) == Chained(w, Operation("inject"), 1)

ThenTrim(w, branches) == Chained(w, [Operation("trim") EXCEPT !.cuts = branches], 1)

\* A node apart from the chain; its entity comes right before its outputs.
CreateNode(w, kind) == Then(Spawn(w, 1), kind)

CreateCollect(w, min, max) == Collect(Spawn(w, 1), min, max)

CreateTrim(w, branches) == ThenTrim(Spawn(w, 1), branches)

\* A fork without outputs, for clone_output.
CreateForkClone(w) ==
    LET spawned == Spawn(w, 1)
    IN  AddOperation(spawned, Head(spawned.outs), Operation("fork"))

CreateInjection(w, streams) == ThenNode(Spawn(w, 1), "inject", streams)

CreateBuffer(w) ==
    LET spawned == Spawn(w, 1)
    IN  AddOperation(spawned, Head(spawned.outs), Operation("buffer"))

\* add_listener
AddListener(ops, buffers, listener) ==
    [e \in DOMAIN ops |->
        IF Contains(buffers, e) THEN [ops[e] EXCEPT !.out = Append(@, listener)] ELSE ops[e]]

\* join(): listens to the buffers.
Join(w, buffers) ==
    LET spawned == Chained(Spawn(w, 1), [Operation("join") EXCEPT !.funnel = buffers], 1)
    IN  [spawned EXCEPT !.ops = AddListener(@, buffers, Last(spawned.contents))]

\* TrimBranch: a point is [id, keep], kept when it is exclusive.
Inclusive(id) == [id |-> id, keep |-> FALSE]
Exclusive(id) == [id |-> id, keep |-> TRUE]
Downstream(point) == [from |-> point, downstream |-> TRUE, ends |-> <<>>]
Between(point, ends) == [from |-> point, downstream |-> FALSE, ends |-> ends]
SinglePoint(id) == Between(Inclusive(id), <<Inclusive(id)>>)

-----------------------------------------------------------------------------
\* Links go both ways: an input of an operation has it as a target, and a target that
\* is not fed by a funnel has it as an input.
LinksMatch(w) ==
    \A e, t \in DOMAIN w.ops :
        w.ops[t].kind # "join" => (t \in Range(w.ops[e].out) <=> e \in Range(w.ops[t].in))
=============================================================================
