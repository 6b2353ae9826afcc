------------------------------ MODULE RunCases ------------------------------
(***************************************************************************)
(* The interpreter of a test run: Runner::runCases (src/jepsen/Runner.cpp) *)
(* and the worker threads it starts (src/jepsen/Worker.cpp).               *)
(*                                                                         *)
(* The runner thread owns the context, the generator and the history. It   *)
(* alternates between taking completed operations from the completions     *)
(* queue and asking the generator for the next operation, which it puts    *)
(* into the queue of one worker. Worker threads invoke a client of the     *)
(* system under test and put the operation back into completions.          *)
(*                                                                         *)
(* The generator is seen through what runCases observes of it: a decreasing*)
(* number of operations, each for the process of some free thread          *)
(* (fillInOperation), or pending, or nil. Time is seen through the         *)
(* comparison time < op.time only, which may go either way. The client is  *)
(* external: invoke may leave any type in Outcomes, or throw.              *)
(***************************************************************************)
EXTENDS Context, Sequences

CONSTANTS MaxOps,           \* bound: operations the generator holds
          Outcomes,         \* types Client::invoke may leave in the operation
          ClientThrows      \* may open, invoke and close of a client throw?

ASSUME RunAssumption ==
  /\ MaxOps \in Nat
  /\ Outcomes \subseteq {"invoke", "ok", "fail", "info"}
  /\ Outcomes # {}
  /\ ClientThrows \in BOOLEAN

VARIABLES
  \* the runner thread
  main,             \* "polling", "exiting", "done" or "terminated"
  free_threads,     \* ctx.free_threads
  workers,          \* ctx.workers: thread -> process
  generator,        \* operations left in the generator
  outstanding,      \* operations dispatched and not yet completed
  poll_timeout,     \* how long the next wait_dequeue_timed may block
  history,          \* Runner::history
  stop,             \* per thread: "none", "sent" (putOp(exit)) or "joined"
  \* shared queues
  in,               \* Worker::in of each worker
  completions,      \* per producer thread: what it enqueued, oldest first
  \* the worker threads
  pc,               \* control state of runAsync
  op,               \* the operation runAsync works on
  process,          \* ClientWorker::process
  client            \* Worker::client: "null", "open" or "tainted"

runner_vars == <<main, free_threads, workers, generator, outstanding,
                 poll_timeout, history, stop>>
worker_vars == <<pc, op, process, client>>
vars == <<runner_vars, in, completions, worker_vars>>

-----------------------------------------------------------------------------
(***************************************************************************)
(* Operations keep the two fields the control depends on.                  *)
(***************************************************************************)
Invocation(p) == [process |-> p, type |-> "invoke"]
ExitOp        == [process |-> kInvalidProcess, type |-> "exit"]
InitOp        == [process |-> kInvalidProcess, type |-> "init"]

Operation == [process : Processes, type : {"invoke", "ok", "fail", "info"}]

-----------------------------------------------------------------------------
(***************************************************************************)
(* The runner thread.                                                      *)
(***************************************************************************)

\* The workers are created and started; the nemesis worker gets its client in
\* its constructor, a client worker opens one when it invokes.
Init ==
  /\ main = "polling"
  /\ free_threads = InitFreeThreads
  /\ workers = InitWorkers
  /\ generator = MaxOps
  /\ outstanding = 0
  /\ poll_timeout = "zero"
  /\ history = <<>>
  /\ stop = [t \in Threads |-> "none"]
  /\ in = [t \in Threads |-> <<>>]
  /\ completions = [t \in Threads |-> <<>>]
  /\ pc = [t \in Threads |-> "polling"]
  /\ op = [t \in Threads |-> InitOp]
  /\ process = [t \in ClientThreads |-> kInvalidProcess]
  /\ client = [t \in Threads |-> IF t = kNemesisProcess THEN "open" ELSE "null"]

\* wait_dequeue_timed takes the oldest completion of any one producer. The
\* process of a client thread changes after an indeterminate operation.
Complete(producer) ==
  LET done   == Head(completions[producer])
      thread == ProcessToThread(workers, done.process)
  IN
  /\ main = "polling"
  /\ completions[producer] # <<>>
  /\ completions' = [completions EXCEPT ![producer] = Tail(@)]
  /\ free_threads' = free_threads \cup {thread}
  /\ workers' = IF done.process # kNemesisProcess /\ done.type = "info"
                THEN [workers EXCEPT ![thread] = NextProcess(workers, thread)]
                ELSE workers
  /\ history' = Append(history, done)
  /\ outstanding' = outstanding - 1
  /\ poll_timeout' = "zero"
  /\ UNCHANGED <<main, generator, stop, in, worker_vars>>

\* The queue stayed empty for poll_timeout: the generator is asked.
AskGenerator ==
  main = "polling" /\ \A t \in Threads : completions[t] = <<>>

\* Mutant: fillInOperation hands out the process of a busy thread.
AnyProcesses == {workers[t] : t \in Threads}

\* The processes the generator may put into an operation.
GeneratorProcesses ==
  RandomFreeProcess(free_threads, workers) \ {kInvalidProcess}

\* An operation that is due goes to the worker of its process.
DispatchTo(p) ==
  LET thread == ProcessToThread(workers, p)
  IN
  /\ AskGenerator
  /\ generator > 0
  /\ in' = [in EXCEPT ![thread] = Append(@, Invocation(p))]
  /\ free_threads' = free_threads \ {thread}
  /\ generator' = generator - 1
  /\ history' = Append(history, Invocation(p))
  /\ outstanding' = outstanding + 1
  /\ poll_timeout' = "zero"
  /\ UNCHANGED <<main, workers, stop, completions, worker_vars>>

\* The generator yields an operation that is due.
Dispatch(p) == p \in GeneratorProcesses /\ DispatchTo(p)

\* Answers on which runCases does nothing but wait: continue.
WaitFor(timeout) ==
  /\ AskGenerator
  /\ poll_timeout' = timeout
  /\ UNCHANGED <<main, free_threads, workers, generator, outstanding, history,
                 stop, in, completions, worker_vars>>

\* The generator yields an operation whose time has not come (time < op.time).
\* It is dropped: the generator keeps its state and is asked again later.
NotDue == generator > 0 /\ GeneratorProcesses # {} /\ WaitFor("until_due")

\* The generator has no process for its next operation. A generator that is
\* restricted to some threads is pending although others are free.
Pending == generator > 0 /\ free_threads # Threads /\ WaitFor("max_pending")

\* Mutants: the last outstanding operation forgotten, and waiting for nothing.
StillOutstandingButOne == outstanding > 1
StillOutstandingAlways == outstanding >= 0

\* The test runCases makes on a nil operation before it lets the workers go.
StillOutstanding == outstanding > 0

\* The generator is exhausted (or cut off, whatever it still holds) while
\* operations are outstanding: keep waiting for them.
NilOutstanding == StillOutstanding /\ WaitFor("max_pending")

\* Nothing is outstanding: the parallel for_each over the workers begins.
NilFinished ==
  /\ AskGenerator
  /\ ~StillOutstanding
  /\ main' = "exiting"
  /\ UNCHANGED <<free_threads, workers, generator, outstanding, poll_timeout,
                 history, stop, in, completions, worker_vars>>

\* One element of that for_each: putOp(exit), then fut.get().
PutExit(t) ==
  /\ main = "exiting" /\ stop[t] = "none"
  /\ in' = [in EXCEPT ![t] = Append(@, ExitOp)]
  /\ stop' = [stop EXCEPT ![t] = "sent"]
  /\ UNCHANGED <<main, free_threads, workers, generator, outstanding,
                 poll_timeout, history, completions, worker_vars>>

\* fut.get() rethrows the exception of a failed worker; leaving a parallel
\* algorithm with an exception ends the program in std::terminate.
Join(t) ==
  /\ main = "exiting" /\ stop[t] = "sent"
  /\ \/ /\ pc[t] = "finished"
        /\ stop' = [stop EXCEPT ![t] = "joined"]
        /\ UNCHANGED main
     \/ /\ pc[t] = "failed"
        /\ main' = "terminated"
        /\ UNCHANGED stop
  /\ UNCHANGED <<free_threads, workers, generator, outstanding, poll_timeout,
                 history, in, completions, worker_vars>>

\* The for_each is over: saveHistory, and the loop ends.
Finish ==
  /\ main = "exiting" /\ \A t \in Threads : stop[t] = "joined"
  /\ main' = "done"
  /\ UNCHANGED <<free_threads, workers, generator, outstanding, poll_timeout,
                 history, stop, in, completions, worker_vars>>

-----------------------------------------------------------------------------
(***************************************************************************)
(* The worker threads.                                                     *)
(***************************************************************************)

\* Mutant: every operation is invoked.
EndsLoopNever(o) == FALSE

\* The case of the switch on op.type that ends the loop.
EndsLoop(o) == o.type = "exit"

\* try_dequeue succeeded.
Take(t) ==
  /\ pc[t] = "polling" /\ in[t] # <<>>
  /\ in' = [in EXCEPT ![t] = Tail(@)]
  /\ op' = [op EXCEPT ![t] = Head(in[t])]
  /\ pc' = [pc EXCEPT ![t] = IF EndsLoop(Head(in[t])) THEN "closing" ELSE "serving"]
  /\ UNCHANGED <<runner_vars, completions, process, client>>

\* Mutant: the client is opened once and kept.
StaleClientOnce(t) == t # kNemesisProcess /\ process[t] = kInvalidProcess

\* ClientWorker::invoke: the worker's client belongs to another process.
StaleClient(t) ==
  /\ t # kNemesisProcess
  /\ process[t] = kInvalidProcess \/ process[t] # op[t].process

\* ClientWorker::invoke closes the old client and opens one for the process.
Reopen(t) ==
  /\ pc[t] = "serving" /\ StaleClient(t)
  /\ client' = [client EXCEPT ![t] = "open"]
  /\ process' = [process EXCEPT ![t] = op[t].process]
  /\ UNCHANGED <<runner_vars, in, completions, pc, op>>

\* client->invoke(op) leaves the type of the completion in op. A client that
\* does not know the outcome may have the operation still in flight.
Invoke(t, outcome) ==
  /\ pc[t] = "serving" /\ ~StaleClient(t)
  /\ op' = [op EXCEPT ![t].type = outcome]
  /\ pc' = [pc EXCEPT ![t] = "served"]
  /\ client' = IF outcome = "info" /\ t # kNemesisProcess
               THEN [client EXCEPT ![t] = "tainted"] ELSE client
  /\ UNCHANGED <<runner_vars, in, completions, process>>

\* Mutant: an operation of unknown outcome is not put back.
EnqueueKnown(t) ==
  /\ pc[t] = "served"
  /\ completions' = IF op[t].type = "info" THEN completions
                    ELSE [completions EXCEPT ![t] = Append(@, op[t])]
  /\ pc' = [pc EXCEPT ![t] = "polling"]
  /\ UNCHANGED <<runner_vars, in, op, process, client>>

\* out->enqueue(op).
Enqueue(t) ==
  /\ pc[t] = "served"
  /\ completions' = [completions EXCEPT ![t] = Append(@, op[t])]
  /\ pc' = [pc EXCEPT ![t] = "polling"]
  /\ UNCHANGED <<runner_vars, in, op, process, client>>

\* After the loop: close(), which the nemesis worker does not implement.
Close(t) ==
  /\ pc[t] = "closing"
  /\ client' = IF t = kNemesisProcess THEN client
               ELSE [client EXCEPT ![t] = "null"]
  /\ pc' = [pc EXCEPT ![t] = "finished"]
  /\ UNCHANGED <<runner_vars, in, completions, op, process>>

\* A client call throws: runAsync has no handler, so the worker thread ends
\* and std::async keeps the exception in fut.
Throw(t) ==
  /\ ClientThrows
  /\ \/ pc[t] = "serving"
     \/ pc[t] = "closing" /\ t # kNemesisProcess /\ client[t] # "null"
  /\ pc' = [pc EXCEPT ![t] = "failed"]
  /\ UNCHANGED <<runner_vars, in, completions, op, process, client>>

-----------------------------------------------------------------------------
RunnerStep ==
  \/ \E t \in Threads : Complete(t)
  \/ \E t \in Threads : Dispatch(workers[t])
  \/ NotDue \/ Pending \/ NilOutstanding \/ NilFinished
  \/ \E t \in Threads : PutExit(t) \/ Join(t)
  \/ Finish

WorkerStep(t) ==
  \/ Take(t) \/ Reopen(t) \/ Enqueue(t) \/ Close(t) \/ Throw(t)
  \/ \E o \in Outcomes : Invoke(t, o)

\* The loop has ended, or the program was terminated with all its threads.
Ended == main \in {"done", "terminated"} /\ UNCHANGED vars

Next ==
  \/ main # "terminated" /\ (RunnerStep \/ \E t \in Threads : WorkerStep(t))
  \/ Ended

(***************************************************************************)
(* Fairness. The operating system schedules every thread, what is in the   *)
(* completions queue is dequeued, and client calls return. The generator   *)
(* is asked again and again (poll_timeout is finite). While a thread is    *)
(* busy it may answer pending or not due for ever; once no thread is busy  *)
(* it cannot be pending, and not due ends because time passes.             *)
(***************************************************************************)
Fairness ==
  /\ WF_vars(\E t \in Threads : Complete(t))
  /\ WF_vars(\/ NilFinished
             \/ free_threads = Threads /\ \E t \in Threads : Dispatch(workers[t]))
  /\ WF_vars(\E t \in Threads : PutExit(t) \/ Join(t))
  /\ WF_vars(Finish)
  /\ \A t \in Threads : WF_vars(main # "terminated" /\ WorkerStep(t))

Spec     == Init /\ [][Next]_vars
FairSpec == Spec /\ Fairness

-----------------------------------------------------------------------------
(***************************************************************************)
(* Properties.                                                             *)
(***************************************************************************)

\* The ranges of the variables. A free thread is always a real thread: the
\* kInvalidProcess that processToThread may return never gets into the context
\* (Runner.cpp:188-192).
TypeOK ==
  /\ main \in {"polling", "exiting", "done", "terminated"}
  /\ free_threads \subseteq Threads
  /\ workers \in [Threads -> Processes]
  /\ generator \in 0 .. MaxOps
  /\ outstanding \in Nat
  /\ poll_timeout \in {"zero", "max_pending", "until_due"}
  /\ history \in Seq(Operation)
  /\ stop \in [Threads -> {"none", "sent", "joined"}]
  /\ in \in [Threads -> Seq(Operation \cup {ExitOp})]
  /\ completions \in [Threads -> Seq(Operation)]
  /\ pc \in [Threads -> {"polling", "serving", "served", "closing",
                         "finished", "failed"}]
  /\ op \in [Threads -> Operation \cup {ExitOp, InitOp}]
  /\ process \in [ClientThreads -> Processes \cup {kInvalidProcess}]
  /\ client \in [Threads -> {"null", "open", "tainted"}]

\* The number of operations thread t has in its queue, in hand or in the
\* completions queue; the operation of a failed worker is lost in its hands.
InFlight(t) ==
  Len(in[t]) + Len(completions[t])
    + (IF pc[t] \in {"serving", "served", "failed"} THEN 1 ELSE 0)

\* While the runner polls, a thread the context calls free has nothing to do
\* and any other thread has exactly one operation, wherever it is on its way
\* between putOp and wait_dequeue_timed; outstanding counts those threads
\* (Runner.cpp:183-249 against Worker.cpp:22-42).
OneOpInFlight ==
  main = "polling" =>
    /\ \A t \in Threads : InFlight(t) = IF t \in free_threads THEN 0 ELSE 1
    /\ outstanding = Cardinality(Threads \ free_threads)

\* No two threads ever play the same process, and an operation on its way to
\* or from thread t carries the process t plays, so that processToThread of a
\* completion finds the thread that sent it (Context.cpp:31-38) although the
\* processes of crashed clients keep changing.
ProcessIdentity ==
  /\ \A t \in Threads : Owns(t, workers[t])
  /\ \A t, u \in Threads : workers[t] = workers[u] => t = u
  /\ \A t \in Threads :
       /\ \A i \in 1 .. Len(completions[t]) :
            completions[t][i].process = workers[t]
       /\ \A i \in 1 .. Len(in[t]) :
            in[t][i].type # "exit" => in[t][i].process = workers[t]
       /\ pc[t] \in {"serving", "served"} => op[t].process = workers[t]

\* A client whose last operation ended in :info may still have that operation
\* in flight; ClientWorker::invoke never sends another one through it, because
\* the runner gave the thread a new process (Runner.cpp:195-197) and the worker
\* compares it with its own (Worker.cpp:57-63).
FreshClient ==
  \A t \in Threads :
    pc[t] = "serving" /\ ~StaleClient(t) => client[t] = "open"

\* When the loop of runCases is over, every worker thread has ended, no queue
\* holds anything and every client connection was closed (Runner.cpp:212-223).
DoneMeansDrained ==
  main = "done" =>
    /\ outstanding = 0 /\ free_threads = Threads
    /\ \A t \in Threads : /\ pc[t] = "finished"
                           /\ in[t] = <<>> /\ completions[t] = <<>>
    /\ \A t \in ClientThreads : client[t] = "null"

\* A worker that died with an operation in hand keeps the runner polling for
\* ever: outstanding never gets back to zero, so the run neither ends nor is
\* its history saved without the lost operation (Worker.cpp:34, 70 have no
\* handler; Runner.cpp:208).
LostOperationBlocksExit ==
  (\E t \in Threads \ free_threads : pc[t] = "failed")
    => main = "polling" /\ outstanding > 0

\* At the step that starts the exit of the workers, every one of them is idle
\* with empty queues: the exit operation overtakes no other operation
\* (Runner.cpp:208-220).
DrainedBeforeExit ==
  [][main = "polling" /\ main' = "exiting" =>
       \A t \in Threads :
         pc[t] = "polling" /\ in[t] = <<>> /\ completions[t] = <<>>]_vars

\* The recorded history is one that module History allows: sequential
\* processes, completions that answer an open operation, no operation of a
\* crashed process, nothing open at the end (Runner.cpp:198, 241, 221).
Recorded == INSTANCE History
              WITH Process <- Processes,
                   Nemesis <- kNemesisProcess,
                   open    <- {workers[t] : t \in Threads \ free_threads},
                   closed  <- (main = "done")
RecordsHistory == Recorded!HSpec

\* The run ends (Runner.cpp:213-222), if clients return and the generator is
\* finite.
Termination == <>(main = "done")
==============================================================================
