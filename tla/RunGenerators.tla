---------------------------- MODULE RunGenerators ----------------------------
(***************************************************************************)
(* The run loop of RunCases with the generators of Generator in place of a *)
(* counter: Runner::runCases asks generator::op for an operation, goes on  *)
(* with the generator of the answer only if it dispatches the operation,   *)
(* and passes every event to generator::update (Runner.cpp:193, 204, 240). *)
(*                                                                         *)
(* RunCases is what the loop may do with any generator; this module is     *)
(* shown to implement it. Its variable generator only bounds the run here. *)
(***************************************************************************)
EXTENDS RunCases, Trees

CONSTANTS Plans,            \* generators a test may give to setGenerator
          LatestStart,      \* bound: clock reading by which the first operation is out
          MaxTime,          \* bound: the last reading of the clock
          MaxBehind         \* bound: by how much the clock may be set back in all

\* There is a client thread, and only under nemesis() is an operation preset
\* with a process, that of the nemesis.
Unbound == {o \in Operations : o.process = kInvalidProcess}
Sound   == Sort(Unbound, Unbound, Operations)

ASSUME GeneratorAssumption ==
  Concurrency >= 1 /\ \A g \in Plans : Validate(g) \in PlansOf(Sound)

VARIABLES
  plan,             \* the generator the run started with
  gen,              \* Runner::generator
  now,              \* what the system clock reads
  behind,           \* by how much it has been set back since the start
  issued            \* the dispatched operations, with their names and times

gen_vars == <<plan, gen, issued>>
clock    == <<now, behind>>
gvars    == <<vars, gen_vars, clock>>

\* setGenerator has put the generator of the test into a Validate. Clock
\* readings start at one: time zero marks an operation without a time.
GInit ==
  /\ Init
  /\ plan \in {Validate(g) : g \in Plans} /\ gen = plan
  /\ now = 1 /\ behind = 0
  /\ issued = <<>>

CtxAt(free, time) == [free |-> free, workers |-> workers, time |-> time]

Ctx     == CtxAt(free_threads, now)
Answers == IF AskGenerator THEN Op(gen, Ctx) ELSE {}

\* The completion is passed to update after its thread was freed and before
\* the thread gets its next process.
CompletionCtx(t) ==
  CtxAt(free_threads \cup {ProcessToThread(workers, Head(completions[t]).process)}, now)

GComplete(t) ==
  /\ Complete(t)
  /\ ~UpdateCrashes(gen, CompletionCtx(t), Head(completions[t]).process)
  /\ gen' = Update(gen, CompletionCtx(t), Head(completions[t]).process)
  /\ UNCHANGED <<plan, issued, clock>>

\* The test runCases makes on the time of an operation.
Due(o) == ~(now < o.time)

\* An operation is passed to update after its thread was taken.
DispatchCtx(o) == CtxAt(free_threads \ {ProcessToThread(workers, o.process)}, o.time)

\* The answer is an operation whose time has come.
GDispatch ==
  \E a \in Answers :
    /\ a.op.type \notin {"nil", "pending", "crash"} /\ Due(a.op)
    /\ DispatchTo(a.op.process)
    /\ ~UpdateCrashes(a.gen, DispatchCtx(a.op), a.op.process)
    /\ gen' = Update(a.gen, DispatchCtx(a.op), a.op.process)
    /\ issued' = Append(issued, a.op)
    /\ UNCHANGED <<plan, clock>>

\* The answer is dropped; what op left in the generator stays.
GNotDue ==
  \E a \in Answers :
    /\ a.op.type \notin {"nil", "pending", "crash"} /\ ~Due(a.op)
    /\ generator > 0 /\ WaitFor("until_due")
    /\ gen' = a.self
    /\ UNCHANGED <<plan, issued, clock>>

GPending ==
  \E a \in Answers :
    /\ a.op.type = "pending"
    /\ generator > 0 /\ WaitFor("max_pending")
    /\ gen' = a.self
    /\ UNCHANGED <<plan, issued, clock>>

GNil ==
  \E a \in Answers :
    /\ a.op.type = "nil"
    /\ NilOutstanding \/ NilFinished
    /\ gen' = a.self
    /\ UNCHANGED <<plan, issued, clock>>

\* op ends the program, or the update after a completion or a dispatch.
GCrash ==
  /\ \/ \E a \in Answers : a.op.type = "crash"
     \/ \E t \in Threads :
          /\ main = "polling" /\ completions[t] # <<>>
          /\ UpdateCrashes(gen, CompletionCtx(t), Head(completions[t]).process)
     \/ \E a \in Answers :
          /\ a.op.type \notin {"nil", "pending", "crash"} /\ Due(a.op)
          /\ generator > 0
          /\ UpdateCrashes(a.gen, DispatchCtx(a.op), a.op.process)
  /\ main' = "terminated"
  /\ UNCHANGED <<free_threads, workers, generator, outstanding, poll_timeout, history,
                 stop, in, completions, worker_vars, gen_vars, clock>>

\* What the generator has no part in.
GExit ==
  /\ Finish \/ \E t \in Threads : PutExit(t) \/ Join(t)
  /\ UNCHANGED <<gen_vars, clock>>

GWorker(t) == WorkerStep(t) /\ UNCHANGED <<gen_vars, clock>>

\* Time passes. With MaxTime at least LatestStart plus the time limit, a plan
\* that has used up MaxOps is still cut off.
Tick ==
  /\ main = "polling"
  /\ now < (IF issued = <<>> THEN LatestStart ELSE MaxTime)
  /\ now' = now + 1
  /\ UNCHANGED <<vars, gen_vars, behind>>

\* The readings are those of system_clock, which may be set back at any time.
SetBack(by) ==
  /\ main = "polling"
  /\ by < now /\ behind + by <= MaxBehind
  /\ now' = now - by /\ behind' = behind + by
  /\ UNCHANGED <<vars, gen_vars>>

GEnded == Ended /\ UNCHANGED <<gen_vars, clock>>

GNext ==
  \/ /\ main # "terminated"
     /\ \/ \E t \in Threads : GComplete(t) \/ GWorker(t)
        \/ GDispatch \/ GNotDue \/ GPending \/ GNil \/ GCrash \/ GExit \/ Tick
        \/ \E by \in 1 .. MaxBehind : SetBack(by)
  \/ GEnded

(***************************************************************************)
(* Fairness as in RunCases. The runner asks the generator again and again; *)
(* rand() decides only among answers of one kind, so asking for ever is    *)
(* dispatching for ever as long as the generator has operations. The clock *)
(* is set back finitely often.                                             *)
(***************************************************************************)
GFairness ==
  /\ WF_gvars(\E t \in Threads : GComplete(t))
  /\ WF_gvars(GDispatch \/ GCrash) /\ WF_gvars(NilFinished /\ GNil)
  /\ WF_gvars(GExit)
  /\ \A t \in Threads : WF_gvars(GWorker(t))
  /\ WF_gvars(Tick)

GSpec     == GInit /\ [][GNext]_gvars
GFairSpec == GSpec /\ GFairness

-----------------------------------------------------------------------------
(***************************************************************************)
(* Properties.                                                             *)
(***************************************************************************)

\* What the generators add to the state of RunCases.
GTypeOK ==
  /\ TypeOK
  /\ plan \in {Validate(g) : g \in Plans}
  /\ now \in 1 .. MaxTime /\ behind \in 0 .. MaxBehind
  /\ Len(issued) = MaxOps - generator

\* With any of the plans the loop does what RunCases says, but for a crash in
\* op or update: above all, an operation is only given to a thread that is
\* free, whatever process it was preset with (Generator.cpp:12-28,
\* Runner.cpp:235-239).
ImplementsRunCases == Init /\ [][Next \/ GCrash]_vars

\* Every operation is under the wrapper its name asks for.
Partitions == {o \in Operations : o.f = "partition"}
Placed     == PlansOf(Sort({}, Unbound \ Partitions, Partitions))

\* A generator under clients() only uses client threads, and one under
\* nemesis() only the nemesis thread, also after any number of updates and
\* copies (Generator.cpp:94-125, 269-291).
RightThread ==
  \A i \in DOMAIN issued :
    \/ issued[i].process = kNemesisProcess <=> issued[i].f = "partition"
    \/ plan \notin Placed

\* No new Stagger finds a time to come in its memory.
Punctual == PlansOf([Sound EXCEPT !.times = {x \in Int : x <= 1}])

\* A time limit lets operations through for less than its span, counted from
\* the first, although the answer that started the count may have been
\* dropped; a clock that is set back makes it longer by no more than that
\* (Generator.cpp:294-313, TimeHelper.cpp:9-11).
WithinTimeLimit ==
  LET g == plan.gen
  IN g.kind = "timeLimit" /\ g.cutoff = kInvalidTime /\ g.limit > 0 =>
       \A i, j \in DOMAIN issued :
         \/ issued[j].time - issued[i].time < g.limit + behind
         \/ plan \notin Punctual

\* The operations of a list are dispatched in its order and none twice, and
\* when the run has ended at most the last one is missing: every wrapper but
\* Validate takes the answer that comes without a generator for nil
\* (Generator.cpp:7-9, 49-66, 236, 271, 296, 328).
ListInOrder ==
  LET names == Listed(plan)
  IN \/ /\ Len(issued) <= Len(names)
        /\ \A i \in DOMAIN issued : issued[i].f = names[i]
        /\ main = "done" => \/ Len(issued) = Len(names)
                            \/ Len(issued) = Len(names) - 1 /\ plan \notin Lists({"validate"})
                            \/ plan \notin Lists(Wrappers \ {"timeLimit"})
     \/ plan \notin Lists(Wrappers)

\* Every mix has an endless member, no Stagger has a span of zero, and there
\* are no null pointers and empty lists.
Steady == PlansOf([Sound EXCEPT !.mixes = "endless", !.dts = Int \ {0}]) \cap Solid

\* Before the workers are told to exit only the generators can end the program:
\* by rand() % 0 when a mix has run out of all its generators or a Stagger has
\* a span of zero, and by a null pointer in the copy of a mix or an any. None
\* of them ever comes up in a steady plan, however often it is copied, updated
\* and used up in part (Generator.cpp:79-88, 139-142, 335, 364-376, 413,
\* 433-435).
SteadyNeverCrashes ==
  main = "terminated" /\ (\A t \in Threads : stop[t] = "none") => plan \notin Steady

\* The run ends with every plan (Runner.cpp:204-223): finite ones are used up
\* and endless ones under a time limit are cut off.
GTermination == <>(main \in {"done", "terminated"})

\* "Return a new GeneratorPtr whose content is exactly that of the current one
\* (a copy)": the comment on copyOne (Generator.h:67).
CopyIsIdentical == CopyOne(gen) = gen
==============================================================================
