----------------------------- MODULE MCWorkflow -----------------------------
(* Small workflows, built with the operators of Graph, for Workflow. *)
EXTENDS Workflow

\* spread - async - dispose - collect
Collecting(min, max) ==
    Finish(Collect(DisposeOn(Then(Spread(NewScope), "async")), min, max))

\* The later collect is built first.
Nested ==
    LET late == CreateCollect(NewScope, 1, 0)
        slot == Head(late.outs) - 1
        w1 == CollectAll(DisposeOn(Spread(At(Finish(late), <<1>>))))
    IN  Connect(w1, Head(w1.outs), slot)

\* The same, and the later collect has a value of its own.
NestedWithOwn ==
    LET late == CreateNode(NewScope, "map")
        w1 == Finish(Then(Collect(late, 1, 0), "async"))
        fork == ForkClone(At(w1, <<1>>), 2)
        w2 == Connect(fork, fork.outs[1], 3)
        early == Collect(DisposeOn(Then(Spread(At(w2, <<fork.outs[2]>>)), "async")), 1, 0)
    IN  Connect(early, Head(early.outs), 3)

\* Each side of a join behind a task or a filter.
Joining ==
    LET w1 == CreateForkClone(CreateBuffer(CreateBuffer(NewScope)))
        left == DisposeOn(CloneOutput(Connect(w1, 1, 5), 5))
        w2 == Connect(left, Head(left.outs), 3)
        right == Then(CloneOutput(w2, 5), "async")
        w3 == Connect(right, Head(right.outs), 4)
    IN  Finish(Then(Join(w3, <<3, 4>>), "map"))

\* A task races a trim of everything below it, its answer included.
Racing(kind) ==
    LET trim == CreateTrim(NewScope, <<Downstream(Inclusive(5))>>)
        w1 == Finish(trim)
        fork == ForkClone(At(w1, <<1>>), 2)
        w2 == Finish(Trigger(Then(Out(fork, 1), kind)))
        quick == Then(At(w2, <<fork.outs[2]>>), "async")
    IN  Connect(quick, Head(quick.outs), Head(trim.outs) - 1)

\* An injected service with a stream.
Injecting ==
    LET node == CreateInjection(NewScope, 1)
        w1 == Connect(node, 1, node.outs[1] - 1)
        w2 == Finish(DisposeOn(Out(At(w1, node.outs), 1)))
    IN  Finish(Then(At(w2, <<node.outs[2]>>), "async"))

\* Two tasks trim the same span, whose buffer keeps what it was given.
Spanning ==
    LET spread == Spread(NewScope)
        w1 == CreateBuffer(spread)
        buffer == Len(w1.ops)
        fork == ForkClone(At(w1, spread.outs), 2)
        work == Then(Out(fork, 1), "async")
        w2 == Connect(work, Head(work.outs), buffer)
        trim == ThenTrim(At(w2, <<fork.outs[2]>>),
                    <<Between(Inclusive(fork.outs[1]), <<Inclusive(buffer)>>)>>)
    IN  Finish(trim)

Branching ==
    LET fork == Branch(NewScope)
        ok == Finish(Then(Out(fork, 1), "map"))
    IN  Finish(CancelOn(Noop(At(ok, <<fork.outs[2]>>))))

\* A retry: an error leads back.
Looping ==
    LET node == CreateNode(NewScope, "async")
        w1 == Connect(node, 1, 3)
    IN  Finish(ConnectOnErr(At(w1, node.outs), 3))

\* An error has its own end, and so has a clone.
Erring ==
    LET fork == Branch(Trigger(NewScope))
        ok == BranchOff(fork, Finish(Flatten(Out(fork, 2))))
        clones == ForkClone(ok, 2)
    IN  Finish(DisposeOn(BranchOff(clones, Finish(DisposeOn(Noop(Out(clones, 2)))))))

\* Two streams lead to one collect, and the response nowhere.
Streaming(kind) ==
    LET node == ThenNode(NewScope, kind, 2)
        w1 == Finish(Collect(Out(node, 2), 1, 0))
    IN  Connect(w1, node.outs[3], node.outs[2])

\* One stream of a task leads to the end, the other nowhere.
Feeding ==
    LET node == ThenNode(NewScope, "async", 2)
        w1 == Finish(Then(Out(node, 2), "map"))
    IN  Finish(DisposeOn(At(w1, <<node.outs[1]>>)))

\* A service and callbacks work on what a spread yields.
Serving ==
    LET one == Then(Spread(NewScope), "service")
        two == Then(Noop(one), "callback")
    IN  Finish(CollectN(Then(two, "task callback"), 2))

Circular ==
    LET one == Collect(CreateNode(NewScope, "map"), 1, 0)
        two == Branch(Collect(one, 1, 0))
        w1 == Connect(two, 1, 3)
        w2 == Finish(Out(w1, 1))
    IN  Connect(w2, two.outs[2], 3)

\* Two tasks lead to one collect, and that to another task.
Merging(min) ==
    LET fork == Unzip(NewScope, 2)
        left == DisposeOn(Then(Out(fork, 1), "async"))
        collect == Collect(left, min, 0)
        slot == Head(left.outs)
        w1 == Finish(Then(collect, "async"))
        right == DisposeOn(Then(At(w1, <<fork.outs[2]>>), "async"))
    IN  Connect(right, Head(right.outs), slot)

\* Two collects in a row, in the order of the chain.
TwoInARow == Finish(Collect(DisposeOn(Spread(Collect(DisposeOn(Spread(NewScope)), 1, 0))), 1, 0))

\* Pairs of what a spread yields, each side through a task.
Pairing ==
    LET w1 == CreateBuffer(NewScope)
        w2 == CreateBuffer(w1)
        fork == ForkClone(Spread(At(w2, <<1>>)), 2)
        left == Then(Out(fork, 1), "async")
        w3 == Connect(left, Head(left.outs), 3)
        right == DisposeOn(At(w3, <<fork.outs[2]>>))
        w4 == Connect(right, Head(right.outs), 4)
    IN  Finish(Collect(Join(w4, <<3, 4>>), 1, 0))

\* What two tasks lead to is trimmed, the collect included, by a third; and by a fourth.
Cutting(trims) ==
    LET fork == ForkClone(NewScope, 2 + trims)
        left == Then(Out(fork, 1), "async")
        collect == Collect(left, 2, 0)
        slot == Head(left.outs)
        w1 == Finish(collect)
        right == Then(At(w1, <<fork.outs[2]>>), "async")
        w2 == Connect(right, Head(right.outs), slot)
        Cut(w, i) ==
            Finish(ThenTrim(Then(At(w, <<fork.outs[2 + i]>>), "async"),
                            <<Downstream(Inclusive(fork.outs[1])),
                              Between(Exclusive(fork.outs[2]), <<Inclusive(slot)>>)>>))
    IN  IF trims = 1 THEN Cut(w2, 1) ELSE Cut(Cut(w2, 1), 2)

\* A task with a stream is trimmed, and its stream leads to what is not.
Straying(kind) ==
    LET fork == ForkClone(NewScope, 2)
        left == ThenNode(Out(fork, 1), "async", 1)
        w1 == Finish(Then(Out(left, 2), kind))
        right == Then(At(w1, <<fork.outs[2]>>), "async")
    IN  Finish(DisposeOn(ThenTrim(right, <<Between(Inclusive(fork.outs[1]),
                                          <<Inclusive(fork.outs[1])>>)>>)))

\* The span of the trim runs against the workflow.
Backwards ==
    LET one == Then(NewScope, "map")
        two == Then(one, "async")
    IN  Finish(ThenTrim(two, <<Between(Inclusive(Head(two.outs)), <<Inclusive(Head(one.outs))>>)>>))

\* Nothing leads to the end.
Unconnected == Then(NewScope, "map")

MCShapes ==
    {Collecting(0, 0), Collecting(1, 0), Collecting(1, 2), Nested, NestedWithOwn, Joining,
     Racing("async"), Racing("inject"), Racing("task callback"), Injecting, Spanning,
     Branching, Looping, Erring, Streaming("map"), Streaming("service"), Feeding, Serving,
     Circular, Unconnected, Merging(0), Merging(2), TwoInARow, Cutting(1), Cutting(2),
     Backwards, Straying("map"), Straying("async")}

\* What is left out of MCShapes, as it violates a property: pairs of a spread, two
\* joins of the same buffers, a collect that an asynchronous stream leads to, and
\* Straying("spread"), whose disposal is checked while the trim holds its value.
MCPairing == {Pairing}

MCSharing ==
    LET fork == ForkClone(At(CreateBuffer(CreateBuffer(NewScope)), <<1>>), 2)
        w1 == Connect(Connect(fork, fork.outs[1], 3), fork.outs[2], 4)
        first == Then(Join(w1, <<3, 4>>), "map")
    IN  {Finish(Join(first, <<3, 4>>))}

MCFeedCollect ==
    LET node == ThenNode(NewScope, "async", 1)
    IN  {Finish(Collect(Out(node, 2), 1, 0))}
=============================================================================
