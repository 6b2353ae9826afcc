------------------------------ MODULE SecondRun ------------------------------
(***************************************************************************)
(* Runner::runCases called a second time for the same Runner (Runner::run  *)
(* may be). The context and the completions queue are made anew, but       *)
(* workers.emplace leaves the workers of the first run in their place: old *)
(* is the queue that they put completed operations into, and nobody reads  *)
(* it any more. Each worker keeps its process number too, although its     *)
(* client was closed, so that ClientWorker::invoke may call a null client: *)
(* that ends the program.                                                  *)
(***************************************************************************)
EXTENDS RunCases

VARIABLES
  second,           \* is this the second call?
  recorded,         \* the length of the history when it began
  old               \* the completions queue of the first call, per producer

svars == <<vars, second, recorded, old>>

SInit ==
  /\ Init
  /\ second = FALSE /\ recorded = 0
  /\ old = [t \in Threads |-> <<>>]

\* The first call, and what the second call does like it.
Runner1 ==
  /\ ~second /\ Next
  /\ UNCHANGED <<second, recorded, old>>

Runner2 ==
  /\ second /\ RunnerStep
  /\ UNCHANGED <<second, recorded, old>>

\* runCases is called again, with what is left in the generator or another one;
\* the threads of the workers, which workers.emplace has left alone, are started
\* again.
Again ==
  /\ ~second /\ main = "done"
  /\ second' = TRUE /\ recorded' = Len(history)
  /\ main' = "polling"
  /\ free_threads' = InitFreeThreads /\ workers' = InitWorkers
  /\ generator' \in 0 .. MaxOps
  /\ outstanding' = 0 /\ poll_timeout' = "zero"
  /\ stop' = [t \in Threads |-> "none"]
  /\ pc' = [t \in Threads |-> "polling"]
  /\ op' = [t \in Threads |-> InitOp]
  /\ UNCHANGED <<history, in, completions, old, process, client>>

\* client->invoke(op) of a client that was closed and set to nullptr.
NullClient(t) == pc[t] = "serving" /\ ~StaleClient(t) /\ client[t] = "null"

InvokeNull(t) ==
  /\ NullClient(t)
  /\ main' = "terminated"
  /\ UNCHANGED <<free_threads, workers, generator, outstanding, poll_timeout, history, stop,
                 in, completions, worker_vars>>

\* Mutant: out is the queue of this call.
PutNew(t) ==
  /\ completions' = [completions EXCEPT ![t] = Append(@, op[t])]
  /\ UNCHANGED old

\* out->enqueue(op), where out is the queue the worker was created with.
PutOld(t) ==
  /\ old' = [old EXCEPT ![t] = Append(@, op[t])]
  /\ UNCHANGED completions

EnqueueOld(t) ==
  /\ pc[t] = "served"
  /\ PutOld(t)
  /\ pc' = [pc EXCEPT ![t] = "polling"]
  /\ UNCHANGED <<runner_vars, in, op, process, client>>

Worker2(t) ==
  /\ second
  /\ \/ /\ \/ Take(t) \/ Reopen(t) \/ Close(t) \/ InvokeNull(t)
           \/ ~NullClient(t) /\ \E o \in Outcomes : Invoke(t, o)
        /\ UNCHANGED old
     \/ EnqueueOld(t)
  /\ UNCHANGED <<second, recorded>>

SNext ==
  \/ Runner1
  \/ Again
  \/ main # "terminated" /\ (Runner2 \/ \E t \in Threads : Worker2(t))
  \/ second /\ Ended /\ UNCHANGED svars

\* The fairness of RunCases. In the second call it does not help.
SSpec     == SInit /\ [][SNext]_svars
SFairSpec == SSpec /\ Fairness

-----------------------------------------------------------------------------
(***************************************************************************)
(* Properties.                                                             *)
(***************************************************************************)

\* The operations of thread t that are on their way in the second call.
OnTheWay(t) == Len(in[t]) + Len(old[t]) + (IF pc[t] \in {"serving", "served"} THEN 1 ELSE 0)

\* No operation of a second call comes back: every one is recorded as an open
\* invocation, none of its threads is free again, and it is in the old queue
\* or on its way there. So the second call gives each thread one operation at
\* most (Runner.cpp:161, 168-173, Worker.cpp:36).
NothingComesBack ==
  second =>
    /\ outstanding = Len(history) - recorded
    /\ main = "polling" =>
         \A t \in Threads : OnTheWay(t) = IF t \in free_threads THEN 0 ELSE 1

\* The program only crashes at a worker that has served in the first call and
\* was never asked there to play another process than its first: the others
\* open a client of their own again (Worker.cpp:57-65, 68-74).
CrashesOnFirstProcess ==
  second /\ main = "terminated" =>
    \E t \in ClientThreads :
      /\ process[t] = t /\ op[t].process = t /\ client[t] = "null"
      /\ \E k \in 1 .. recorded : history[k].process = t
      /\ ~\E k \in 1 .. recorded :
           history[k].type = "invoke" /\ history[k].process \notin Threads
             /\ Owns(t, history[k].process)

\* An operation of a first call comes back, if clients return: the thread it
\* went to is free again (Runner.cpp:186-200, Worker.cpp:22-42).
Answered ==
  \A t \in Threads : (~second /\ t \notin free_threads) ~> (t \in free_threads)
==============================================================================
