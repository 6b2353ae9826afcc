------------------------------- MODULE Context -------------------------------
(***************************************************************************)
(* The scheduling context of a run (src/jepsen/Context.{h,cpp}): which     *)
(* threads are free and which logical process each thread currently plays. *)
(* The two maps are passed as arguments because the generators receive     *)
(* copies of the context, sometimes restricted to a few threads.           *)
(***************************************************************************)
EXTENDS Integers, FiniteSets

CONSTANT Concurrency        \* number of client threads, Runner::concurrency

ASSUME ConcurrencyAssumption == Concurrency \in Nat

kNemesisProcess == -1
kInvalidProcess == -2

ClientThreads == 0 .. (Concurrency - 1)
Threads       == ClientThreads \cup {kNemesisProcess}

\* A process number is either the nemesis or a natural number.
Processes == Nat \cup {kNemesisProcess}

\* free_threads of a new Context, and ctx.workers once runCases filled it.
InitFreeThreads == Threads
InitWorkers     == [t \in Threads |-> t]

\* The processes randomFreeProcess may return: a uniform choice among the
\* processes of the free threads, or kInvalidProcess when no thread is free.
RandomFreeProcess(free, w) ==
  IF free = {} THEN {kInvalidProcess} ELSE {w[t] : t \in free}

\* Context::processToThread: a thread of w that plays p, or kInvalidProcess.
ProcessToThread(w, p) ==
  IF \E t \in DOMAIN w : w[t] = p
  THEN CHOOSE t \in DOMAIN w : w[t] = p
  ELSE kInvalidProcess

\* Mutants: the next number, and no new process at all.
NextProcessByOne(w, t) == IF t = kNemesisProcess THEN t ELSE w[t] + 1
NextProcessSame(w, t)  == w[t]

\* Context::nextProcess: a crashed client thread moves on by the number of
\* processes that are not the nemesis.
NextProcess(w, t) ==
  IF t = kNemesisProcess
  THEN t
  ELSE w[t] + Cardinality({u \in DOMAIN w : w[u] # kNemesisProcess})

(***************************************************************************)
(* Owns(t, p): process p is one of the processes thread t plays in turn,   *)
(* t, t + Concurrency, t + 2 * Concurrency, ...                            *)
(***************************************************************************)
Owns(t, p) ==
  IF t = kNemesisProcess
  THEN p = kNemesisProcess
  ELSE p \in Nat /\ \E k \in 0 .. p : p = t + k * Concurrency
==============================================================================
