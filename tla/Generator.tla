------------------------------ MODULE Generator ------------------------------
(***************************************************************************)
(* The generator algebra (src/jepsen/generator/Generator.{h,cpp},          *)
(* GeneratorFactory.h). A generator is a tree of records; Op(g, ctx) is    *)
(* generator::op and Update(g, ctx, process) generator::update.            *)
(*                                                                         *)
(* An answer of Op is an operation, the generator to go on with, and self: *)
(* what op leaves in the generator it was called on, because TimeLimit and *)
(* Stagger assign to their own fields and the caller may drop the answer.  *)
(* Op returns the set of the answers that randomFreeProcess and rand() can *)
(* make. The operation keeps its function name, process, type and time.    *)
(*                                                                         *)
(* The methods of the classes call those of the generators they hold. Here *)
(* a class gets what it calls as an argument: ask, copy and update are the *)
(* functions of the generators one level down.                             *)
(*                                                                         *)
(* Generators are values, where a Mix shares its members with its copies.  *)
(* It would show when an answer is dropped that a list or a mix got from a *)
(* copy of its rest: what op left in the members of a Mix in that copy is  *)
(* then also in the tree that is kept, and is not in self here.            *)
(***************************************************************************)
EXTENDS Context, Sequences

CONSTANT Size               \* bound on the size of a generator

ASSUME SizeAssumption == Size \in Nat

kInvalidTime == -3

\* The generators. An "op" or "fun" node yields its operation once, or again
\* and again; its process is kInvalidProcess unless the caller preset it.
Null               == [kind |-> "null"]
Once(o)            == [kind |-> "op", op |-> o]
Fun(o)             == [kind |-> "fun", op |-> o]
List(gens)         == [kind |-> "list", gens |-> gens]
Validate(g)        == [kind |-> "validate", gen |-> g]
OnThreads(f, g)    == [kind |-> "onThreads", filter |-> f, gen |-> g]
TimeLimit(l, c, g) == [kind |-> "timeLimit", limit |-> l, cutoff |-> c, gen |-> g]
Stagger(dt, n, g)  == [kind |-> "stagger", dt |-> dt, next_time |-> n, gen |-> g]
Mix(i, gens)       == [kind |-> "mix", idx |-> i, gens |-> gens]
Any(gens)          == [kind |-> "any", gens |-> gens]

\* clients(g), nemesis(g), nemesis(n, c), stagger(dt, g) and timeLimit(dt, g).
\* The constructor stagger() uses leaves next_time as it finds it.
clients(g)           == OnThreads("clients", g)
nemesis(g)           == OnThreads("nemesis", g)
nemesisWith(n, c)    == Any(<<nemesis(n), clients(c)>>)
stagger(dt, garbage, g) == Stagger(dt, garbage, g)
timeLimit(limit, g)  == TimeLimit(limit, kInvalidTime, g)

\* The other constructor of Stagger ignores the next_time it is given.
StaggerFrom(dt, next_time, g) == Stagger(dt, kInvalidTime, g)

\* Operations, as the factory functions make them.
NewOp(f, process) == [f |-> f, process |-> process, type |-> "invoke", time |-> 0]
NilOp   == [f |-> "nil", process |-> kInvalidProcess, type |-> "nil", time |-> 0]
CrashOp == [f |-> "crash", process |-> kInvalidProcess, type |-> "crash", time |-> 0]

Answer(o, gen, self) == [op |-> o, gen |-> gen, self |-> self]
Nil(self)            == Answer(NilOp, Null, self)

\* No answer: the program ends.
Crash(self) == Answer(CrashOp, Null, self)

\* rand() % 0 ends the program on the machines that trap it; otherwise the
\* caller goes on with some remainder.
DivisionByZero(otherwise) == {Crash(otherwise.self), otherwise}

\* notNil: also an answer without a generator to go on with counts as nil.
NotNil(a) == a.op.type # "nil" /\ a.gen # Null

\* A crash inside a generator is one of the generators around it.
Unless(a, b) == IF a.op.type = "crash" THEN a ELSE b

-----------------------------------------------------------------------------
\* fillInOperation
FillInOperation(ctx, o) ==
  {IF p = kInvalidProcess
   THEN [o EXCEPT !.type = "pending"]
   ELSE [o EXCEPT !.process = IF @ = kInvalidProcess THEN p ELSE @,
                  !.time    = IF @ = 0 THEN ctx.time ELSE @,
                  !.type    = IF @ = "init" THEN "invoke" ELSE @] :
   p \in RandomFreeProcess(ctx.free, ctx.workers)}

\* The filters of clients() and nemesis().
Passes(filter, t) ==
  CASE filter = "clients" -> t # kNemesisProcess
    [] filter = "nemesis" -> t = kNemesisProcess

\* Mutant: the context is not restricted.
AllThreadsContext(filter, ctx) == ctx

\* onThreadsContext
OnThreadsContext(filter, ctx) ==
  [free    |-> {t \in ctx.free : Passes(filter, t)},
   workers |-> [t \in {u \in DOMAIN ctx.workers : Passes(filter, u)} |-> ctx.workers[t]],
   time    |-> ctx.time]

\* soonestOpMap, over the answers of the elements of an any: one of the
\* earliest operations, or the last of the pending ones.
Soonest(answers) ==
  LET given   == {i \in DOMAIN answers : NotNil(answers[i])}
      pending == {i \in given : answers[i].op.type = "pending"}
      due     == given \ pending
  IN IF due # {} THEN {i \in due : \A j \in due : answers[i].op.time <= answers[j].op.time}
     ELSE {i \in pending : \A j \in pending : j <= i}

-----------------------------------------------------------------------------
(***************************************************************************)
(* What op, update and copyOne are defined on: the generators nested to a  *)
(* depth of at most Size.                                                  *)
(***************************************************************************)
Filters    == {"clients", "nemesis"}
Wrappers   == {"validate", "onThreads", "stagger", "timeLimit"}
Operations == [f : STRING, process : {kInvalidProcess, kNemesisProcess},
               type : {"invoke"}, time : {0}]
Leaves     == {Null} \cup [kind : {"op", "fun"}, op : Operations]

NodesOver(gens) ==
  Leaves
    \cup [kind : {"list", "any"}, gens : Seq(gens)]
    \cup [kind : {"mix"}, idx : Nat, gens : Seq(gens)]
    \cup [kind : {"validate"}, gen : gens]
    \cup [kind : {"onThreads"}, filter : Filters, gen : gens]
    \cup [kind : {"timeLimit"}, limit : Int, cutoff : Int, gen : gens]
    \cup [kind : {"stagger"}, dt : Int, next_time : Int, gen : gens]

NestedTo[n \in Nat] == IF n = 0 THEN Leaves ELSE NodesOver(NestedTo[n - 1])
Generators == NestedTo[Size]

\* Contexts as they are passed down, restricted or not.
Contexts == [free    : SUBSET Threads,
             workers : [Threads -> Processes] \cup [ClientThreads -> Processes]
                         \cup [{kNemesisProcess} -> Processes] \cup [{} -> Processes],
             time    : Int]

-----------------------------------------------------------------------------
(***************************************************************************)
(* copyOne of each class.                                                  *)
(***************************************************************************)
CopyList(copy, g)      == List([i \in DOMAIN g.gens |-> copy[g.gens[i]]])
CopyAny(copy, g)       == Any([i \in DOMAIN g.gens |-> copy[g.gens[i]]])
CopyValidate(copy, g)  == Validate(copy[g.gen])
CopyOnThreads(copy, g) == OnThreads(g.filter, copy[g.gen])

CopyTimeLimit(copy, g) ==
  IF g.gen = Null THEN Null ELSE TimeLimit(g.limit, g.cutoff, copy[g.gen])

\* The copy forgets next_time.
CopyStagger(copy, g) ==
  IF g.gen = Null THEN Null ELSE StaggerFrom(g.dt, g.next_time, copy[g.gen])

\* The generators are copied, but the result is made of the original ones.
CopyMix(g) == Mix(g.idx, g.gens)

CopyOver(copy) ==
  [g \in Generators |->
     CASE g.kind \in {"null", "op", "fun"} -> g
       [] g.kind = "list"      -> CopyList(copy, g)
       [] g.kind = "validate"  -> CopyValidate(copy, g)
       [] g.kind = "onThreads" -> CopyOnThreads(copy, g)
       [] g.kind = "timeLimit" -> CopyTimeLimit(copy, g)
       [] g.kind = "stagger"   -> CopyStagger(copy, g)
       [] g.kind = "mix"       -> CopyMix(g)
       [] g.kind = "any"       -> CopyAny(copy, g)]

CopyAt[n \in Nat] == CopyOver(IF n = 0 THEN <<>> ELSE CopyAt[n - 1])
CopyOne(g)    == CopyAt[Size][g]
CopyAll(gens) == [i \in DOMAIN gens |-> CopyOne(gens[i])]

\* Where copyOne crashes instead: Mix and Any call it on every member, also on
\* a null pointer; the others look first.
CannotCopyOver(cannot_copy) ==
  {g \in Generators :
     \/ g.kind = "list" /\ \E i \in DOMAIN g.gens : g.gens[i] \in cannot_copy
     \/ g.kind \in {"mix", "any"} /\ \E i \in DOMAIN g.gens : g.gens[i] \in {Null} \cup cannot_copy
     \/ g.kind \in Wrappers /\ g.gen \in cannot_copy}

CannotCopyTo[n \in Nat] == CannotCopyOver(IF n = 0 THEN {} ELSE CannotCopyTo[n - 1])
CopyCrashes(g) == g \in CannotCopyTo[Size]

\* Does copyOne, called on this member of a Mix, end the program?
MemberCrashes(g) == g = Null \/ CopyCrashes(g)

-----------------------------------------------------------------------------
(***************************************************************************)
(* update of each class, for an event of the given process. No generator   *)
(* reacts to an event, but the nodes on the way to one are rebuilt.        *)
(***************************************************************************)

\* Mutant: the first element is dropped instead of updated.
UpdateListTail(update, g, ctx, process) ==
  IF g.gens = <<>> THEN Null ELSE List(Tail(g.gens))

UpdateList(update, g, ctx, process) ==
  IF g.gens = <<>> THEN Null
  ELSE [CopyOne(g) EXCEPT !.gens[1] = update[g.gens[1]][ctx][process]]

UpdateValidate(update, g, ctx, process) == Validate(update[g.gen][ctx][process])

UpdateOnThreads(update, g, ctx, process) ==
  IF Passes(g.filter, ProcessToThread(ctx.workers, process))
  THEN OnThreads(g.filter, update[g.gen][OnThreadsContext(g.filter, ctx)][process])
  ELSE g

UpdateTimeLimit(update, g, ctx, process) ==
  TimeLimit(g.limit, g.cutoff, update[g.gen][ctx][process])

UpdateStagger(update, g, ctx, process) ==
  StaggerFrom(g.dt, g.next_time, update[g.gen][ctx][process])

UpdateMix(g) == Mix(g.idx, g.gens)

UpdateAny(update, g, ctx, process) ==
  Any([i \in DOMAIN g.gens |-> update[g.gens[i]][ctx][process]])

UpdateNode(update, g, ctx, process) ==
  CASE g.kind \in {"null", "op", "fun"} -> CopyOne(g)
    [] g.kind = "list"      -> UpdateList(update, g, ctx, process)
    [] g.kind = "validate"  -> UpdateValidate(update, g, ctx, process)
    [] g.kind = "onThreads" -> UpdateOnThreads(update, g, ctx, process)
    [] g.kind = "timeLimit" -> UpdateTimeLimit(update, g, ctx, process)
    [] g.kind = "stagger"   -> UpdateStagger(update, g, ctx, process)
    [] g.kind = "mix"       -> UpdateMix(g)
    [] g.kind = "any"       -> UpdateAny(update, g, ctx, process)

UpdateOver(update) ==
  [g \in Generators |-> [ctx \in Contexts |-> [process \in Processes |->
     UpdateNode(update, g, ctx, process)]]]

UpdateAt[n \in Nat] == UpdateOver(IF n = 0 THEN <<>> ELSE UpdateAt[n - 1])
Update(g, ctx, process) == UpdateAt[Size][g][ctx][process]

\* Where update crashes instead, in the copyOne of a list.
CannotUpdateOver(cannot_update) ==
  [ctx \in Contexts |-> [process \in Processes |->
     {g \in Generators :
        \/ /\ g.kind = "list" /\ g.gens # <<>>
           /\ CopyCrashes(g) \/ g.gens[1] \in cannot_update[ctx][process]
        \/ g.kind \in Wrappers \ {"onThreads"} /\ g.gen \in cannot_update[ctx][process]
        \/ /\ g.kind = "onThreads" /\ Passes(g.filter, ProcessToThread(ctx.workers, process))
           /\ g.gen \in cannot_update[OnThreadsContext(g.filter, ctx)][process]
        \/ g.kind = "any" /\ \E i \in DOMAIN g.gens : g.gens[i] \in cannot_update[ctx][process]}]]

CannotUpdateTo[n \in Nat] == CannotUpdateOver(IF n = 0 THEN <<>> ELSE CannotUpdateTo[n - 1])
UpdateCrashes(g, ctx, process) == g \in CannotUpdateTo[Size][ctx][process]

-----------------------------------------------------------------------------
(***************************************************************************)
(* op of each class.                                                       *)
(***************************************************************************)
OpOnce(g, ctx) ==
  {Answer(o, IF o.type = "pending" THEN g ELSE Null, g) : o \in FillInOperation(ctx, g.op)}

\* The function is called. It goes on as a list of the operation, once it is
\* used up, and the function, which answers what the function answers.
OpFun(g, ctx) == {Answer(o, g, g) : o \in FillInOperation(ctx, g.op)}

\* The test a list makes before it goes on with its next element.
ElementExhausted(a) == a.gen = Null /\ a.op.type = "nil"

\* The first element answers and the list is copied; an exhausted element is
\* dropped for the next.
OpList(ask, g, ctx) ==
  IF g.gens = <<>>
  THEN {Nil(g)}
  ELSE UNION {
    LET self == [g EXCEPT !.gens[1] = a.self]
        copy == CopyOne(self)
    IN IF a.op.type = "crash" THEN {a}
       ELSE IF CopyCrashes(self) THEN {Crash(self)}
       ELSE IF ElementExhausted(a)
       THEN {[b EXCEPT !.self = self] : b \in ask[List(Tail(copy.gens))][ctx]}
       ELSE IF Len(copy.gens) > 1
       THEN {Answer(a.op, [copy EXCEPT !.gens[1] = a.gen], self)}
       ELSE {Answer(a.op, a.gen, self)} :
    a \in ask[g.gens[1]][ctx]}

\* Validate only logs what it does not like.
OpValidate(ask, g, ctx) ==
  {LET self == Validate(a.self)
   IN Unless(a, Answer(a.op, IF NotNil(a) THEN Validate(a.gen) ELSE a.gen, self)) :
   a \in ask[g.gen][ctx]}

OpOnThreads(ask, g, ctx) ==
  {LET self == OnThreads(g.filter, a.self)
   IN Unless(a, IF NotNil(a) THEN Answer(a.op, OnThreads(g.filter, a.gen), self)
                ELSE Nil(self)) :
   a \in ask[g.gen][OnThreadsContext(g.filter, ctx)]}

\* Mutant: the limit counts from each operation anew.
CutoffAnew(g, time) == time + g.limit

\* The limit counts from the first operation that is generated.
Cutoff(g, time) == IF g.cutoff = kInvalidTime THEN time + g.limit ELSE g.cutoff

OpTimeLimit(ask, g, ctx) ==
  {LET cutoff == Cutoff(g, a.op.time)
       self   == TimeLimit(g.limit, cutoff, a.self)
   IN Unless(a, IF ~NotNil(a) THEN Nil([g EXCEPT !.gen = a.self])
                ELSE IF a.op.type = "pending"
                THEN Answer(a.op, [g EXCEPT !.gen = a.gen], [g EXCEPT !.gen = a.self])
                ELSE IF a.op.time < cutoff
                THEN Answer(a.op, TimeLimit(g.limit, cutoff, a.gen), self)
                ELSE Nil(self)) :
   a \in ask[g.gen][ctx]}

\* A pending answer goes on with a copy of this very generator, not with the
\* one the answer came with. The next_time of the new Stagger, a remainder of
\* dt later, is ignored.
OpStagger(ask, g, ctx) == UNION {
  LET next_time == IF g.next_time = kInvalidTime THEN ctx.time ELSE g.next_time
      self      == Stagger(g.dt, next_time, a.self)
      later     == IF next_time > a.op.time THEN next_time ELSE a.op.time
      staggered == Answer([a.op EXCEPT !.time = later], StaggerFrom(g.dt, next_time, a.gen), self)
  IN IF a.op.type = "crash" THEN {a}
     ELSE IF ~NotNil(a) THEN {Nil([g EXCEPT !.gen = a.self])}
     ELSE IF a.op.type = "pending" THEN {Answer(a.op, self, self)}
     ELSE IF g.dt = 0 THEN DivisionByZero(staggered)
     ELSE {staggered} :
  a \in ask[g.gen][ctx]}

\* Mutant: with the exhausted generator all the others go.
NoneOf(gens, i) == <<>>

\* The generators of a mix but the one that is exhausted.
AllBut(gens, i) ==
  [j \in 1 .. (Len(gens) - 1) |-> CopyOne(gens[IF j < i THEN j ELSE j + 1])]

\* The chosen generator answers, the members are copied and the next choice is
\* made. When it is exhausted a mix of the others answers; a mix of no others
\* is chosen from by rand() % 0 and is exhausted itself.
OpMix(ask, g, ctx) ==
  IF g.gens = <<>>
  THEN {Nil(g)}
  ELSE UNION {
    LET self   == [g EXCEPT !.gens[g.idx] = a.self]
        copy   == CopyAll(self.gens)
        rest   == AllBut(self.gens, g.idx)
        copied == IF NotNil(a) THEN DOMAIN self.gens ELSE DOMAIN self.gens \ {g.idx}
    IN IF a.op.type = "crash" THEN {a}
       ELSE IF \E i \in copied : MemberCrashes(self.gens[i]) THEN {Crash(self)}
       ELSE IF NotNil(a)
       THEN {Answer(a.op, Mix(i, [copy EXCEPT ![g.idx] = a.gen]), self) : i \in DOMAIN copy}
       ELSE IF rest = <<>> THEN DivisionByZero(Nil(self))
       ELSE {[b EXCEPT !.self = self] :
             b \in UNION {ask[Mix(i, rest)][ctx] : i \in DOMAIN rest}} :
    a \in ask[g.gens[g.idx]][ctx]}

\* All generators are asked in turn, each op leaving its mark on its own
\* generator; the soonest of their answers counts and the members are copied.
OpAny(ask, g, ctx) ==
  UNION {
    LET self  == Any([i \in DOMAIN g.gens |-> answers[i].self])
        crash == {answers[i] : i \in {i \in DOMAIN answers : answers[i].op.type = "crash"}}
    IN IF crash # {} THEN crash
       ELSE IF Soonest(answers) = {} THEN {Nil(self)}
       ELSE IF CopyCrashes(self) THEN {Crash(self)}
       ELSE {Answer(answers[i].op, [CopyOne(self) EXCEPT !.gens[i] = answers[i].gen], self) :
             i \in Soonest(answers)} :
    answers \in {s \in [DOMAIN g.gens -> UNION {ask[g.gens[i]][ctx] : i \in DOMAIN g.gens}] :
                 \A i \in DOMAIN g.gens : s[i] \in ask[g.gens[i]][ctx]}}

OpNode(ask, g, ctx) ==
  CASE g.kind = "null"      -> {Nil(g)}
    [] g.kind = "op"        -> OpOnce(g, ctx)
    [] g.kind = "fun"       -> OpFun(g, ctx)
    [] g.kind = "list"      -> OpList(ask, g, ctx)
    [] g.kind = "validate"  -> OpValidate(ask, g, ctx)
    [] g.kind = "onThreads" -> OpOnThreads(ask, g, ctx)
    [] g.kind = "timeLimit" -> OpTimeLimit(ask, g, ctx)
    [] g.kind = "stagger"   -> OpStagger(ask, g, ctx)
    [] g.kind = "mix"       -> OpMix(ask, g, ctx)
    [] g.kind = "any"       -> OpAny(ask, g, ctx)

OpOver(ask) == [g \in Generators |-> [ctx \in Contexts |-> OpNode(ask, g, ctx)]]

OpAt[n \in Nat] == OpOver(IF n = 0 THEN <<>> ELSE OpAt[n - 1])
Op(g, ctx) == OpAt[Size][g][ctx]
==============================================================================
