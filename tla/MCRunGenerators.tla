--------------------------- MODULE MCRunGenerators ---------------------------
(***************************************************************************)
(* Instances of RunGenerators for TLC.                                     *)
(***************************************************************************)
EXTENDS RunGenerators

\* The outcome after which a thread plays another process.
OneOutcome == {"info"}

ClientOp(f) == NewOp(f, kInvalidProcess)
r           == Fun(ClientOp("read"))
w           == Fun(ClientOp("write"))
n           == Fun(NewOp("partition", kNemesisProcess))
ops         == List(<<Once(ClientOp("a")), Once(ClientOp("b")), Once(ClientOp("c"))>>)
shortList   == List(<<Once(ClientOp("a")), Once(ClientOp("b"))>>)

\* The generator of test/runner/test_runner.cpp:64-67; garbage is what the
\* memory of the new Stagger held: the time its first operation is due.
TestPlan(garbage) ==
  timeLimit(1, nemesisWith(n, stagger(1, garbage, Mix(1, <<r, w>>))))

\* Lists in every wrapper, also with a next_time in the past or the future.
ListPlans ==
  {Validate(shortList), Validate(clients(ops)), clients(Validate(ops)),
   clients(List(<<shortList, Once(ClientOp("c"))>>)),
   clients(stagger(1, kInvalidTime, ops)), clients(stagger(1, 2, ops)),
   timeLimit(1, clients(stagger(1, 0, ops))), timeLimit(1, clients(stagger(1, 2, ops)))}

\* Mixes that run out of generators, and one with an endless member.
MixPlans ==
  {clients(Mix(1, <<shortList, Once(ClientOp("c"))>>)), clients(Mix(1, <<shortList, shortList>>)),
   timeLimit(1, clients(Mix(2, <<r, shortList>>)))}

\* A Stagger without a span; null pointers that come up in the update for
\* a completion, and in the one for a dispatch.
CrashPlans ==
  {clients(stagger(0, kInvalidTime, shortList)),
   clients(List(<<Any(<<List(<<>>), w>>), Once(ClientOp("c"))>>)),
   clients(List(<<Any(<<timeLimit(1, Null), w>>), Once(ClientOp("c"))>>))}

AllPlans == ListPlans \cup MixPlans \cup CrashPlans \cup {TestPlan(2)}

\* The client generator of the test alone.
StaggerPlans == {clients(stagger(1, kInvalidTime, Mix(1, <<r, w>>)))}
==============================================================================
