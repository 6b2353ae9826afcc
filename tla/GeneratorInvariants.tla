-------------------------- MODULE GeneratorInvariants --------------------------
(***************************************************************************)
(* What the proofs about RunGenerators say of generators and of the run:   *)
(* the shape of trees, what copyOne, update and op make of them, and the   *)
(* invariants made of it. The lemmas are in RunCasesProofs.                *)
(***************************************************************************)
EXTENDS RunGenerators

\* The recursive functions of Generator and Trees, by what their value at n is
\* made of those below n.
StepOf(name, sort, f, n) ==
  CASE name = "nested" -> IF n = 0 THEN Leaves ELSE NodesOver(f[n - 1])
    [] name = "copy"   -> CopyOver(IF n = 0 THEN <<>> ELSE f[n - 1])
    [] name = "cannotCopy" -> CannotCopyOver(IF n = 0 THEN {} ELSE f[n - 1])
    [] name = "cannotUpdate" -> CannotUpdateOver(IF n = 0 THEN <<>> ELSE f[n - 1])
    [] name = "solid"  -> SolidOver(IF n = 0 THEN {} ELSE f[n - 1])
    [] name = "update" -> UpdateOver(IF n = 0 THEN <<>> ELSE f[n - 1])
    [] name = "op"     -> OpOver(IF n = 0 THEN <<>> ELSE f[n - 1])
    [] name = "lists"  -> ListsOver(IF n = 0 THEN <<>> ELSE f[n - 1], n)
    [] name = "listed" -> ListedOver(IF n = 0 THEN <<>> ELSE f[n - 1])
    [] OTHER            -> TreesOver(sort, f, n)

\* The values of f below n.
Below(f, n) == [i \in 0 .. (n - 1) |-> f[i]]

\* f is a function on D that is defined by this recursion.
Computes(name, sort, f, D) == f = [n \in D |-> StepOf(name, sort, Below(f, n), n)]

-----------------------------------------------------------------------------
(***************************************************************************)
(* The shape of generators.                                                *)
(***************************************************************************)

\* The classes of generators.
Kinds == {"null", "op", "fun", "list", "any", "mix", "validate", "onThreads", "timeLimit", "stagger"}

\* What a generator is, by its kind.
WellFormed(g, gens) ==
  /\ g.kind \in Kinds
  /\ g.kind = "null" => g = Null
  /\ g.kind = "op" => g = Once(g.op) /\ g.op \in Operations
  /\ g.kind = "fun" => g = Fun(g.op) /\ g.op \in Operations
  /\ g.kind = "list" => g = List(g.gens) /\ g.gens \in Seq(gens)
  /\ g.kind = "any" => g = Any(g.gens) /\ g.gens \in Seq(gens)
  /\ g.kind = "mix" => g = Mix(g.idx, g.gens) /\ g.idx \in Nat /\ g.gens \in Seq(gens)
  /\ g.kind = "validate" => g = Validate(g.gen) /\ g.gen \in gens
  /\ g.kind = "onThreads" => g = OnThreads(g.filter, g.gen) /\ g.filter \in Filters /\ g.gen \in gens
  /\ g.kind = "timeLimit" => /\ g = TimeLimit(g.limit, g.cutoff, g.gen)
                             /\ g.limit \in Int /\ g.cutoff \in Int /\ g.gen \in gens
  /\ g.kind = "stagger" => /\ g = Stagger(g.dt, g.next_time, g.gen)
                           /\ g.dt \in Int /\ g.next_time \in Int /\ g.gen \in gens

\* Those that hold no generator.
Childless == {"null", "op", "fun"}

-----------------------------------------------------------------------------
(***************************************************************************)
(* The generators of a sort, by their size.                                *)
(***************************************************************************)

\* What a sort has to be for op to stay in it.
IsSort(sort) ==
  /\ sort.leaves \in [Scopes -> SUBSET Operations]
  /\ sort.dts \subseteq Int
  /\ sort.times \subseteq Int /\ kInvalidTime \in sort.times
  /\ sort.mixes \in Spans

\* A sequence that is a list of trees.
MemberSeq(sort, n, scope, span, q) ==
  /\ q \in Seq(NestedTo[n - 1])
  /\ Members(Trees(sort), n, scope, span, q)

\* A sequence without its i-th element.
Without(q, i) == [j \in 1 .. (Len(q) - 1) |-> q[IF j < i THEN j ELSE j + 1]]

-----------------------------------------------------------------------------
(***************************************************************************)
(* copyOne and update stay in the sort.                                    *)
(***************************************************************************)

\* What a function does to the generators of a sort that are smaller than n.
Keeps(f, sort, n) ==
  \A k \in 0 .. (n - 1), scope \in Scopes, span \in Spans :
    \A g \in Trees(sort)[k][scope][span] : f[g] \in Trees(sort)[k][scope][span]

\* The sequence of the images of the elements.
Mapped(f, q) == [i \in DOMAIN q |-> f[q[i]]]

\* The same for update.
UpdateKeeps(update, sort, n) ==
  \A k \in 0 .. (n - 1), scope \in Scopes, span \in Spans, ctx \in Contexts, p \in Processes :
    \A g \in Trees(sort)[k][scope][span] : update[g][ctx][p] \in Trees(sort)[k][scope][span]

-----------------------------------------------------------------------------
(***************************************************************************)
(* What op answers stays in the sort, and is for a free thread.            *)
(***************************************************************************)

\* The members r are made of the members q one by one.
Like(sort, n, scope, q, r) ==
  /\ DOMAIN r = 1 .. Len(q) /\ r = [i \in 1 .. Len(q) |-> r[i]]
  /\ \A i \in 1 .. Len(q) :
       /\ r[i] \in Trees(sort)[n - Len(q)][scope]["any"]
       /\ q[i] \in Trees(sort)[n - Len(q)][scope]["endless"] =>
            r[i] \in Trees(sort)[n - Len(q)][scope]["endless"]

\* Threads a generator of the given scope may use.
Under(scope, t) == scope = "all" \/ Passes(scope, t)

\* A context that op may be called with on a generator of the scope.
ContextFor(sort, scope, ctx) ==
  /\ ctx \in Contexts /\ ctx.free \subseteq DOMAIN ctx.workers /\ ctx.time \in sort.times
  /\ \A t \in ctx.free : Under(scope, t)

\* Some operation of the sort may be waiting for a thread that is not free.
Waits(scope, ctx) ==
  \E f \in Scopes : scope \in {"all", f} /\ \A t \in ctx.free : ~Under(f, t)

\* An operation of the sort, with the process of a free thread of its filter.
Filled(sort, scope, ctx, o) ==
  \E f \in Scopes, t \in ctx.free :
    /\ scope \in {"all", f} /\ Under(f, t)
    /\ \E l \in sort.leaves[f] :
         /\ o.f = l.f
         /\ o.process = IF l.process = kInvalidProcess THEN ctx.workers[t] ELSE l.process

\* An answer of op is a record with these parts.
IsAnswer(a) ==
  /\ a = Answer(a.op, a.gen, a.self)
  /\ a.op = [f |-> a.op.f, process |-> a.op.process, type |-> a.op.type, time |-> a.op.time]
  /\ a.op.type \in {"nil", "pending", "invoke", "crash"} /\ a.op.time \in Int

\* What op may answer on a generator of size n of the sort.
Proper(sort, n, scope, span, ctx, a) ==
  /\ IsAnswer(a)
  /\ a.op.type # "crash" =>
          /\ a.self \in Trees(sort)[n][scope][span]
          /\ a.gen \in Trees(sort)[n][scope]["any"]
          /\ span = "endless" => NotNil(a) /\ a.gen \in Trees(sort)[n][scope]["endless"]
          /\ a.op.type = "nil" => a.gen = Null
          /\ a.op.type = "pending" => Waits(scope, ctx)
          /\ a.op.type = "invoke" => /\ Filled(sort, scope, ctx, a.op)
                                     /\ a.op.time \in sort.times /\ ctx.time <= a.op.time

\* The generators smaller than n answer properly. The empty list is larger than
\* its size, but never asks another one.
Responds(ask, sort, n) ==
  /\ \A k \in 0 .. (n - 1), scope \in Scopes, span \in Spans : \A ctx :
       ContextFor(sort, scope, ctx) =>
         \A g \in Trees(sort)[k][scope][span] : \A a \in ask[g][ctx] :
           Proper(sort, k, scope, span, ctx, a)
  /\ n # 0 /\ Size # 0 => \A ctx \in Contexts : ask[List(<<>>)][ctx] = {Nil(List(<<>>))}

\* The answer b of the list q, by the answer a of its first element.
OfList(sort, n, scope, span, q, ask, ctx, b, a, r) ==
  /\ r = [q EXCEPT ![1] = a.self] /\ 1 \in 1 .. Len(q)
  /\ \/ a.op.type = "crash" /\ b = a
     \/ /\ a.op.type # "crash" /\ Like(sort, n, scope, q, r)
        /\ CopyCrashes(List(r)) /\ b = Crash(List(r))
     \/ /\ a.op.type # "crash" /\ Like(sort, n, scope, q, r)
        /\ \E c : /\ CopyOne(List(r)) = List(c) /\ Like(sort, n, scope, q, c) /\ Len(c) = Len(q)
                  /\ \/ /\ ElementExhausted(a)
                        /\ MemberSeq(sort, n - 1, scope, span, Tail(c))
                        /\ Tail(c) = Without(c, 1)
                        /\ \E d \in ask[List(Tail(c))][ctx] : b = [d EXCEPT !.self = List(r)]
                     \/ /\ ~ElementExhausted(a) /\ Len(c) > 1
                        /\ b = Answer(a.op, List([c EXCEPT ![1] = a.gen]), List(r))
                     \/ /\ ~ElementExhausted(a) /\ Len(q) = 1
                        /\ b = Answer(a.op, a.gen, List(r))

\* The answer b of the mix of q, by the answer a of the member k that was
\* chosen.
OfMix(sort, n, scope, span, q, k, ask, ctx, b, a, r) ==
  /\ r = [q EXCEPT ![k] = a.self]
  /\ \/ a.op.type = "crash" /\ b = a
     \/ /\ a.op.type # "crash" /\ Like(sort, n, scope, q, r)
        /\ \E i \in 1 .. Len(q) : MemberCrashes(r[i])
        /\ b = Crash(Mix(k, r))
     \/ /\ a.op.type # "crash" /\ Like(sort, n, scope, q, r) /\ NotNil(a)
        /\ Like(sort, n, scope, q, CopyAll(r))
        /\ \E i \in 1 .. Len(q) : b = Answer(a.op, Mix(i, [CopyAll(r) EXCEPT ![k] = a.gen]), Mix(k, r))
     \/ /\ a.op.type # "crash" /\ Like(sort, n, scope, q, r) /\ ~NotNil(a)
        /\ \E rest : /\ rest = Without(CopyAll(r), k) /\ Len(rest) = Len(q) - 1
                     /\ MemberSeq(sort, n - 1, scope, span, rest)
                     /\ MemberSeq(sort, n - 1, scope, sort.mixes, rest)
                     /\ \/ rest = <<>> /\ b \in DivisionByZero(Nil(Mix(k, r)))
                        \/ /\ n - 1 # 0
                           /\ \E i \in 1 .. Len(rest) : \E d \in ask[Mix(i, rest)][ctx] :
                                b = [d EXCEPT !.self = Mix(k, r)]

\* The answer b of the any of q, by the answers s of its members.
OfAny(sort, n, scope, q, b, s, r) ==
  /\ DOMAIN s = 1 .. Len(q) /\ r = [i \in 1 .. Len(q) |-> s[i].self]
  /\ \/ \E i \in 1 .. Len(q) : s[i].op.type = "crash" /\ b = s[i]
     \/ /\ \A i \in 1 .. Len(q) : s[i].op.type # "crash"
        /\ Like(sort, n, scope, q, r)
        /\ \/ Soonest(s) = {} /\ b = Nil(Any(r))
           \/ CopyCrashes(Any(r)) /\ b = Crash(Any(r))
           \/ \E c, i : /\ i \in Soonest(s)
                        /\ CopyOne(Any(r)) = Any(c) /\ Like(sort, n, scope, q, c)
                        /\ b = Answer(s[i].op, Any([c EXCEPT ![i] = s[i].gen]), Any(r))

-----------------------------------------------------------------------------
(***************************************************************************)
(* The invariant of the loop with generators, and its theorems.            *)
(***************************************************************************)

\* What issued holds.
Issued == [f : STRING, process : Processes, type : {"invoke"}, time : Int]

\* RightThread, of one operation.
OnRightThread(o) == o.process = kNemesisProcess <=> o.f = "partition"

\* The generator keeps its operations under their filters.
PlacedInv ==
  plan \in Placed =>
    /\ gen \in Placed
    /\ \A i \in DOMAIN issued : OnRightThread(issued[i])

\* The sort of the plans in Placed.
PlacedSort == Sort({}, Unbound \ Partitions, Partitions)

-----------------------------------------------------------------------------
(***************************************************************************)
(* The time limit.                                                         *)
(***************************************************************************)

\* The plans with a next_time up to the latest reading of the clock.
Timed(latest) == [Sound EXCEPT !.times = {x \in Int : x <= latest}]

\* A time limit under the Validate at the top is what op and update are about.
LimitOnTop(g) == g.kind = "validate" /\ g.gen.kind = "timeLimit"

\* The plans WithinTimeLimit is about.
Limited ==
  LimitOnTop(plan) /\ plan.gen.cutoff = kInvalidTime /\ plan.gen.limit > 0 /\ plan \in Punctual

\* How the time of an operation relates to the cutoff.
Bounds(cutoff, o) == o.time < cutoff /\ cutoff - gen.gen.limit <= o.time + behind

\* Every dispatched operation is before the cutoff, and the cutoff is at most
\* the limit after any of them, but for what the clock was set back.
TimedInv ==
  Limited =>
    /\ gen \in PlansOf(Timed(now + behind)) /\ LimitOnTop(gen) /\ gen.gen.limit = plan.gen.limit
    /\ IF gen.gen.cutoff = kInvalidTime THEN issued = <<>>
       ELSE /\ gen.gen.cutoff - gen.gen.limit <= now + behind
            /\ \A i \in DOMAIN issued : Bounds(gen.gen.cutoff, issued[i])

-----------------------------------------------------------------------------
(***************************************************************************)
(* What op answers keeps the order of a list.                              *)
(***************************************************************************)

\* What a list may lack when its generator is exhausted: nothing, or the one
\* operation that came without a generator behind it; with a limit, any part.
AtMostTheLast(names, kinds) ==
  \/ "timeLimit" \in kinds
  \/ Len(names) = 0
  \/ Len(names) = 1 /\ ~(kinds \subseteq {"validate"})

\* What op may answer on a list in wrappers of some kinds: the names it had, or
\* the first of them dispatched and the others left.
Ordered(g, kinds, a) ==
  a.op.type # "crash" =>
    /\ a.self \in Lists(kinds) /\ Listed(a.self) = Listed(g) /\ (kinds = {} => a.self = g)
    /\ a.op.type = "invoke" => a.gen \in Lists(kinds) /\ Listed(g) = <<a.op.f>> \o Listed(a.gen)
    /\ a.op.type = "pending" => a.gen # Null
    /\ a.op.type = "nil" => AtMostTheLast(Listed(g), kinds)

\* The generators smaller than n keep the order.
Orders(ask, sort, n) ==
  \A k \in 0 .. (n - 1), scope \in Scopes : \A ctx :
    ContextFor(sort, scope, ctx) =>
      \A kinds \in SUBSET Wrappers : \A g \in Trees(sort)[k][scope]["any"] :
        g \in Lists(kinds) => \A a \in ask[g][ctx] : Ordered(g, kinds, a)

-----------------------------------------------------------------------------
(***************************************************************************)
(* update keeps it, and so does the run.                                   *)
(***************************************************************************)

\* What update leaves of a list.
SameNames(g, kinds, h) == h \in Lists(kinds) /\ Listed(h) = Listed(g)

\* The generators smaller than n keep their names.
KeepsOrder(update, sort, n) ==
  \A k \in 0 .. (n - 1), scope \in Scopes, ctx \in Contexts, p \in Processes, kinds \in SUBSET Wrappers :
    \A g \in Trees(sort)[k][scope]["any"] : g \in Lists(kinds) => SameNames(g, kinds, update[g][ctx][p])

\* The names of dispatched operations.
Names(s) == [i \in DOMAIN s |-> s[i].f]

\* What is dispatched and what is to come make up the names of the plan.
OrderInv ==
  \A kinds \in SUBSET Wrappers :
    plan \in Lists(kinds) =>
      /\ gen \in Lists(kinds)
      /\ Names(issued) \o Listed(gen) = Listed(plan)
      /\ main \in {"exiting", "done"} => AtMostTheLast(Listed(gen), kinds)

-----------------------------------------------------------------------------
(***************************************************************************)
(* Solid generators: where op, copyOne and update call a member through a  *)
(* pointer without a look, it is not null.                                 *)
(***************************************************************************)

\* Generators that may be an element of a solid list.
Harmless == {Null} \cup Solid

\* A solid generator whose parts are in solid.
SolidNode(g, solid) ==
  \/ g.kind \in {"op", "fun"}
  \/ g.kind = "list" /\ g.gens # <<>> /\ \A i \in DOMAIN g.gens : g.gens[i] \in {Null} \cup solid
  \/ g.kind \in {"mix", "any"} /\ \A i \in DOMAIN g.gens : g.gens[i] \in solid
  \/ g.kind \in Wrappers /\ g.gen \in solid

\* The trees smaller than n are in both or in neither.
SameTrees(sort, n, x, y) ==
  n # 0 => \A s \in Scopes : \A h \in Trees(sort)[n - 1][s]["any"] : h \in x <=> h \in y

\* update does not crash on a harmless generator and leaves it harmless.
KeepsSolid(update, sort, n) ==
  \A k \in 0 .. (n - 1), scope \in Scopes, ctx \in Contexts, p \in Processes :
    \A g \in Trees(sort)[k][scope]["any"] :
      /\ g \in Solid => update[g][ctx][p] \in Solid
      /\ g \in Harmless => update[g][ctx][p] \in Harmless

-----------------------------------------------------------------------------
(***************************************************************************)
(* What op answers for a solid generator: neither a null pointer, nor an   *)
(* empty mix, nor a dt of zero ends the program.                           *)
(***************************************************************************)

\* An answer of a harmless generator.
Calm(g, a) ==
  /\ a.op.type # "crash" /\ a.gen \in Harmless /\ a.self \in Harmless
  /\ g \in Solid => a.self \in Solid

\* ask answers calmly for the harmless generators smaller than n.
StaysCalm(ask, sort, n) ==
  \A k \in 0 .. (n - 1), scope \in Scopes : \A ctx :
    ContextFor(sort, scope, ctx) =>
      \A g \in Trees(sort)[k][scope]["any"] : g \in Harmless => \A a \in ask[g][ctx] : Calm(g, a)

-----------------------------------------------------------------------------
(***************************************************************************)
(* The run of a steady plan.                                               *)
(***************************************************************************)

\* What the plans of Steady are made of: each mix has an endless member, and no
\* Stagger a dt of zero.
SteadySort == [Sound EXCEPT !.mixes = "endless", !.dts = Int \ {0}]

\* In a run of a steady plan the generator stays a tree of that sort, in which
\* no null pointer is called, and only a failed worker ends the program.
SteadyInv ==
  plan \in Steady =>
    /\ gen \in PlansOf(SteadySort) /\ gen \in Harmless
    /\ main = "terminated" => \E t \in Threads : stop[t] # "none"
==============================================================================
