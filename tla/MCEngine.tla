------------------------------ MODULE MCEngine ------------------------------
(* Programs for Engine: one per kind of nesting the properties are about.  *)
EXTENDS Engine

Call(b) == [op |-> "call", to |-> b]
Defer(b) == [op |-> "defer", to |-> b]
Exit(b) == [op |-> "exit", to |-> b]
Continue(b) == [op |-> "continue", to |-> b]
Invoke(b) == [op |-> "delegate", to |-> b]
InvokeRefused == Invoke(None)

Agent(b) == [kind |-> "agent", body |-> b]
Seq2(ops) == [kind |-> "sequence", ops |-> ops]
Par(bs) == [kind |-> "parallel", items |-> bs]
For(bs, par, then) == [kind |-> "for", items |-> bs, par |-> par, then |-> then]
Forever(b) == [kind |-> "forever", body |-> b]
Match(arms) == [kind |-> "match", arms |-> arms]
Prim(may) == [kind |-> "primitive", may |-> may]
Construct == [kind |-> "construct"]
Req(name) == [kind |-> "request", name |-> name]
Delegate(raises) == [kind |-> "delegate", raises |-> raises]
External(raises, refusable) ==
  [kind |-> "external", raises |-> raises, refusable |-> refusable]
\* h: the handler body of each request it catches
Handle(b, h, par, then) ==
  [kind |-> "handle", body |-> b, handlerOf |-> h, par |-> par, then |-> then]
Ask1(name) == [k |-> "request", what |-> name]
OK == {"value"}

\* Two deferred calls, then a parallel pair of a delegate that may throw and an
\* external; the whole under a handle that leaves on a throw.
Defers == <<
  Agent(2),
  Seq2(<<Call(3), Invoke(8)>>),
  Handle(4, "throw" :> 7, FALSE, None),
  Seq2(<<Defer(11), Call(5), Invoke(12), Defer(9)>>),
  Par(<<6, 10>>),
  Delegate({Throw}),
  Seq2(<<Exit(3)>>),
  Prim({"value", "throw"}),
  Delegate({}),
  External({Panic}, FALSE),
  Prim(OK),
  Construct>>

\* A sequential handle of requests that two externals raise; its body waits for
\* a delegate, then resumes by `next` or by falling through.  With a then clause.
Serves == <<
  Agent(2),
  Handle(3, "q" :> 6, FALSE, 8),
  Par(<<4, 5, 4>>),
  External({Ask1("q")}, FALSE),
  External({Ask1("q"), Ask1("other")}, FALSE),
  Seq2(<<Invoke(9), Call(7)>>),
  Match({8, 10}),
  Construct,
  Delegate({}),
  Seq2(<<Continue(2)>>)>>

\* The same handle in parallel mode.
ServesPar == [Serves EXCEPT ![2] = Handle(3, "q" :> 6, TRUE, None)]

\* A for of two iterations that jump on, jump out, or run through; inside, an
\* inner forever left by the outer jumps.
Loops == <<
  Agent(2),
  For(<<3, 3>>, FALSE, 9),
  Forever(4),
  Match({5, 6, 7, 8}),
  Seq2(<<Continue(2)>>),
  Seq2(<<Exit(2)>>),
  Seq2(<<Exit(3)>>),
  Seq2(<<Invoke(10), Continue(3)>>),
  Prim(OK),
  External({}, FALSE)>>
LoopsPar == [Loops EXCEPT ![2] = For(<<3, 3>>, TRUE, None)]

\* A finalizer that asks, and a rethrow that passes from the inner handle's own
\* handler body to the outer one.
Nested == <<
  Agent(2),
  Handle(3, "throw" :> 10, FALSE, None),
  Handle(4, ("throw" :> 7) @@ ("q" :> 9), FALSE, None),
  Seq2(<<Defer(8), Call(5), Invoke(6)>>),
  Req("q"),
  Delegate({Throw, Ask1("q"), Ask1("out")}),
  Seq2(<<InvokeRefused>>),
  Req("out"),
  Prim(OK),
  Seq2(<<Exit(2)>>)>>

Plan(program, asks, terminates, threads, ends) ==
  [program |-> program, asks |-> asks, terminates |-> terminates, threads |-> threads, ends |-> ends]
MCPlans ==
  {Plan(p, 3, 2, 16, TRUE) : p \in {Defers, Loops, LoopsPar}} \cup
  {Plan(p, 2, 1, 12, TRUE) : p \in {Serves, ServesPar}} \cup
  {Plan(Serves, 3, 0, 12, FALSE), Plan(Nested, 3, 2, 12, FALSE)}

\* Handler bodies that jump from one of two parallel elements.
Overtaking == <<
  Agent(2),
  Handle(3, "q" :> 4, FALSE, None),
  Par(<<5, 5, 5>>),
  Par(<<6, 7>>),
  External({Ask1("q")}, FALSE),
  Delegate({}),
  Seq2(<<Invoke(6), Continue(2)>>)>>
Rethrowing == <<
  Agent(2),
  Handle(3, ("q" :> 4) @@ ("throw" :> 7), FALSE, None),
  Req("q"),
  Par(<<5, 6>>),
  Seq2(<<Continue(2)>>),
  Seq2(<<InvokeRefused>>),
  Seq2(<<Exit(2)>>)>>
TwoJumps == <<
  Agent(2),
  Handle(3, "q" :> 4, FALSE, None),
  Req("q"),
  Par(<<5, 5>>),
  Seq2(<<Continue(2)>>)>>

\* The asker returns while its request is being handled.
Abandoned == <<
  Agent(2),
  Seq2(<<Defer(5), Call(3)>>),
  Handle(4, "q" :> 6, FALSE, None),
  Delegate({Ask1("q")}),
  Prim(OK),
  Delegate({})>>

\* A finalizer that may fail, while the instance is terminated.
Failing == <<Agent(2), Seq2(<<Defer(4), Call(3)>>), Delegate({}), Prim({"value", "panic"})>>

\* A wrapper of an external call whose result its schema refuses.
Refused == <<Agent(2), External({}, TRUE)>>

\* The plans of these programs, which no run checks: each makes one part of
\* TreeKept, FinalizersKept or TerminateCompletes fail (README, divergences).
Overtakes == {Plan(Overtaking, 3, 0, 14, FALSE)}
CatchesItself == {Plan(Rethrowing, 0, 0, 12, FALSE)}
JumpsTwice == {Plan(TwoJumps, 0, 0, 9, FALSE)}
Orphans == {Plan(Abandoned, 1, 0, 9, FALSE)}
FinalizerFails == {Plan(Failing, 0, 1, 9, TRUE)}
ResultRefused == {Plan(Refused, 0, 1, 9, TRUE)}
=============================================================================
