---------------------------- MODULE RunCasesProofs ----------------------------
(***************************************************************************)
(* Proofs about RunCases, in the second part about SecondRun and in the    *)
(* third about RunGenerators: for every number of threads, every finite    *)
(* generator and every set of outcomes; clients may throw, those of        *)
(* SecondRun in the first call. The third part is for every set of plans   *)
(* of a bounded size, and any readings of the clock.                       *)
(***************************************************************************)
EXTENDS SecondRun, GeneratorInvariants, FiniteSetTheorems, SequenceTheorems,
        WellFoundedInduction, TLAPS

-----------------------------------------------------------------------------
(***************************************************************************)
(* What the operators of Context return, for every number of threads.      *)
(***************************************************************************)

\* A map of the context that runCases can have: it gives each thread one of
\* its own processes.
Assigned(w) == w \in [Threads -> Processes] /\ \A t \in Threads : Owns(t, w[t])

\* The nemesis thread is none of the client threads, and plays the nemesis
\* process only; client threads play natural numbers (Runner.cpp:166-173).
LEMMA ThreadKinds ==
  ASSUME NEW w, Assigned(w)
  PROVE  /\ kNemesisProcess \notin ClientThreads
         /\ ClientThreads \subseteq Nat
         /\ w[kNemesisProcess] = kNemesisProcess
         /\ \A t \in ClientThreads : w[t] \in Nat
BY ConcurrencyAssumption
DEF Assigned, Threads, ClientThreads, kNemesisProcess, Owns, Processes

\* Threads never share a process: t + i * Concurrency = u + j * Concurrency
\* with both threads below Concurrency means t = u.
LEMMA OwnerIsUnique ==
  ASSUME NEW t \in Threads, NEW u \in Threads, NEW p, Owns(t, p), Owns(u, p)
  PROVE  t = u
<1>1. CASE t = kNemesisProcess \/ u = kNemesisProcess
  BY <1>1 DEF Owns, kNemesisProcess, Threads, ClientThreads
<1>2. CASE t \in ClientThreads /\ u \in ClientThreads
  <2>1. t # kNemesisProcess /\ u # kNemesisProcess
    BY <1>2, ConcurrencyAssumption DEF ClientThreads, kNemesisProcess
  <2>2. PICK i \in 0 .. p : p = t + i * Concurrency
    BY <2>1 DEF Owns
  <2>3. PICK j \in 0 .. p : p = u + j * Concurrency
    BY <2>1 DEF Owns
  <2>4. i \in Nat /\ j \in Nat /\ Concurrency \in Nat /\ t \in 0 .. Concurrency - 1
          /\ u \in 0 .. Concurrency - 1
    BY <2>1, <1>2, ConcurrencyAssumption DEF Owns, ClientThreads
  <2>5. ASSUME NEW a \in Nat, NEW b \in Nat, a < b
        PROVE  a * Concurrency + Concurrency <= b * Concurrency
    <3>1. PICK d \in Nat : b = a + 1 + d
      <4>1. b - a - 1 \in Nat /\ b = a + 1 + (b - a - 1)
        BY <2>5
      <4> QED BY <4>1
    <3>2. b * Concurrency = a * Concurrency + Concurrency + d * Concurrency
      BY <3>1, <2>4
    <3>3. d * Concurrency \in Nat /\ a * Concurrency \in Nat
      BY <2>4
    <3> QED BY <3>2, <3>3, <2>4
  <2>6. i * Concurrency \in Nat /\ j * Concurrency \in Nat
    BY <2>4
  <2>7. ~(i < j)
    BY <2>2, <2>3, <2>4, <2>5, <2>6
  <2>8. ~(j < i)
    BY <2>2, <2>3, <2>4, <2>5, <2>6
  <2>9. i = j
    BY <2>4, <2>7, <2>8
  <2> QED BY <2>2, <2>3, <2>4, <2>6, <2>9
<1> QED BY <1>1, <1>2 DEF Threads

\* processToThread finds the thread that plays a process (Context.cpp:31-38).
LEMMA ProcessToThreadOfOwn ==
  ASSUME NEW w, Assigned(w), NEW t \in Threads
  PROVE  ProcessToThread(w, w[t]) = t
<1>1. \A u \in Threads : w[u] = w[t] => u = t
  BY OwnerIsUnique DEF Assigned
<1> QED BY <1>1 DEF ProcessToThread, Assigned

\* nextProcess adds the number of client threads (Context.cpp:21-29).
LEMMA NextProcessAddsConcurrency ==
  ASSUME NEW w, Assigned(w), NEW t \in ClientThreads
  PROVE  NextProcess(w, t) = w[t] + Concurrency
<1>1. {u \in DOMAIN w : w[u] # kNemesisProcess} = ClientThreads
  BY ThreadKinds, ConcurrencyAssumption
  DEF Assigned, Threads, ClientThreads, kNemesisProcess
<1>2. Cardinality(ClientThreads) = Concurrency
  BY FS_Interval, ConcurrencyAssumption DEF ClientThreads
<1>3. t # kNemesisProcess
  BY ThreadKinds
<1> QED BY <1>1, <1>2, <1>3 DEF NextProcess

\* The next process of a thread is again one of its own, and a larger one.
LEMMA NextProcessIsOwn ==
  ASSUME NEW w, Assigned(w), NEW t \in ClientThreads
  PROVE  /\ NextProcess(w, t) \in Nat
         /\ w[t] < NextProcess(w, t)
         /\ Owns(t, NextProcess(w, t))
<1>1. /\ t # kNemesisProcess /\ t \in Threads
      /\ w[t] \in Nat /\ Concurrency \in Nat /\ Concurrency > 0
  BY ThreadKinds, ConcurrencyAssumption DEF ClientThreads, Threads
<1>2. NextProcess(w, t) = w[t] + Concurrency
  BY NextProcessAddsConcurrency
<1>3. PICK k \in 0 .. w[t] : w[t] = t + k * Concurrency
  BY <1>1 DEF Assigned, Owns
<1>4. k + 1 \in 0 .. (w[t] + Concurrency)
  BY <1>1
<1>5. t \in Nat /\ k \in Nat
  BY <1>1, ThreadKinds
<1>6. w[t] + Concurrency = t + (k + 1) * Concurrency
  BY <1>1, <1>3, <1>5
<1>7. Owns(t, w[t] + Concurrency)
  BY <1>1, <1>4, <1>6 DEF Owns
<1> QED BY <1>1, <1>2, <1>7

\* Moving one client thread on leaves every thread with a process of its own.
LEMMA NextProcessKeepsAssigned ==
  ASSUME NEW w, Assigned(w), NEW t \in ClientThreads
  PROVE  Assigned([w EXCEPT ![t] = NextProcess(w, t)])
BY NextProcessIsOwn DEF Assigned, Processes

-----------------------------------------------------------------------------
(***************************************************************************)
(* The inductive invariant. What happens to the operation of a thread is   *)
(* a walk through the states Idle, Queued, Held, Completed and back to     *)
(* Idle; a throw ends it in Lost, and the exit operation in Leaving.       *)
(***************************************************************************)
Empty(t) == in[t] = <<>> /\ completions[t] = <<>>

Idle(t) ==
  /\ t \in free_threads /\ stop[t] = "none"
  /\ pc[t] = "polling" /\ Empty(t)

Queued(t) ==
  /\ t \notin free_threads /\ stop[t] = "none"
  /\ pc[t] = "polling"
  /\ in[t] = <<Invocation(workers[t])>> /\ completions[t] = <<>>

Held(t) ==
  /\ t \notin free_threads /\ stop[t] = "none"
  /\ pc[t] \in {"serving", "served"} /\ Empty(t)
  /\ op[t] \in Operation /\ op[t].process = workers[t]

Completed(t) ==
  /\ t \notin free_threads /\ stop[t] = "none"
  /\ pc[t] = "polling" /\ in[t] = <<>>
  /\ completions[t] = <<completions[t][1]>>
  /\ completions[t][1] \in Operation /\ completions[t][1].process = workers[t]

Lost(t) ==
  /\ t \notin free_threads /\ stop[t] = "none"
  /\ pc[t] = "failed" /\ Empty(t)

Leaving(t) ==
  /\ t \in free_threads /\ main # "polling" /\ completions[t] = <<>>
  /\ \/ stop[t] = "sent" /\ pc[t] = "polling" /\ in[t] = <<ExitOp>>
     \/ stop[t] = "sent" /\ pc[t] \in {"closing", "finished", "failed"} /\ in[t] = <<>>
     \/ stop[t] = "joined" /\ pc[t] = "finished" /\ in[t] = <<>>

ThreadInv(t) ==
  Idle(t) \/ Queued(t) \/ Held(t) \/ Completed(t) \/ Lost(t) \/ Leaving(t)

CountInv ==
  /\ outstanding = Cardinality(Threads \ free_threads)
  /\ main # "polling" => free_threads = Threads
  /\ main = "done" => \A t \in Threads : stop[t] = "joined"

\* The completion on its way from thread t says that the outcome is unknown.
InfoOnItsWay(t) ==
  \/ pc[t] = "served" /\ op[t].type = "info"
  \/ completions[t] # <<>> /\ completions[t][1].type = "info"

ClientInv ==
  /\ client[kNemesisProcess] = "open"
  /\ \A t \in ClientThreads :
       /\ process[t] <= workers[t]
       /\ pc[t] = "finished" => client[t] = "null"
       /\ process[t] # kInvalidProcess /\ pc[t] # "finished" => client[t] # "null"
       /\ client[t] = "tainted" => process[t] < workers[t] \/ InfoOnItsWay(t)

\* A client process of unknown outcome is one its thread has left behind.
HistoryInv ==
  \A i \in DOMAIN history :
    history[i].type = "info" /\ history[i].process # kNemesisProcess =>
      \E t \in ClientThreads :
        Owns(t, history[i].process) /\ history[i].process < workers[t]

IInv ==
  /\ TypeOK
  /\ Assigned(workers)
  /\ CountInv
  /\ \A t \in Threads : ThreadInv(t)
  /\ ClientInv
  /\ HistoryInv

-----------------------------------------------------------------------------
(***************************************************************************)
(* Facts about queues and threads.                                         *)
(***************************************************************************)

\* A queue of one element.
LEMMA SingletonQueue ==
  ASSUME NEW e
  PROVE  /\ Append(<<>>, e) = <<e>> /\ Head(<<e>>) = e /\ Tail(<<e>>) = <<>>
         /\ <<e>> # <<>> /\ Len(<<e>>) = 1 /\ <<e>>[1] = e
OBVIOUS

\* The nemesis thread is no client thread.
LEMMA NemesisIsNoClient ==
  /\ kNemesisProcess \in Threads /\ kNemesisProcess \notin ClientThreads
  /\ ClientThreads \subseteq Threads
  /\ \A t \in Threads : t # kNemesisProcess => t \in ClientThreads
BY ConcurrencyAssumption DEF Threads, ClientThreads, kNemesisProcess

\* There are finitely many threads.
LEMMA ThreadsFinite == IsFiniteSet(Threads)
<1>1. IsFiniteSet(ClientThreads)
  BY FS_Interval, ConcurrencyAssumption DEF ClientThreads
<1> QED BY <1>1, FS_AddElement DEF Threads

\* The exit operation is no client operation.
LEMMA ExitIsNoOperation == ExitOp \notin Operation
BY DEF ExitOp, Operation

-----------------------------------------------------------------------------
\* The state in which runCases enters its loop satisfies the invariant.
LEMMA InitIInv == Init => IInv
<1> SUFFICES ASSUME Init PROVE IInv
  OBVIOUS
<1> USE DEF Init
<1>1. Assigned(workers)
  BY ConcurrencyAssumption
  DEF Assigned, InitWorkers, Threads, ClientThreads, Processes, Owns, kNemesisProcess
<1>2. TypeOK
  BY <1>1, RunAssumption, NemesisIsNoClient
  DEF TypeOK, Assigned, InitFreeThreads
<1>3. CountInv
  BY FS_EmptySet DEF CountInv, InitFreeThreads
<1>4. \A t \in Threads : ThreadInv(t)
  BY DEF ThreadInv, Idle, Empty, InitFreeThreads
<1>5. ClientInv
  BY NemesisIsNoClient DEF ClientInv, InitWorkers, ClientThreads, kInvalidProcess
<1>6. HistoryInv
  BY DEF HistoryInv
<1> QED BY <1>1, <1>2, <1>3, <1>4, <1>5, <1>6 DEF IInv

-----------------------------------------------------------------------------
(***************************************************************************)
(* The steps of a worker thread.                                           *)
(***************************************************************************)

LEMMA TakeKeepsIInv ==
  ASSUME IInv, NEW t \in Threads, Take(t)
  PROVE  IInv'
<1> USE DEF IInv, Take, EndsLoop, runner_vars
<1>1. \/ Queued(t) /\ in[t] = <<Invocation(workers[t])>>
      \/ Leaving(t) /\ in[t] = <<ExitOp>> /\ stop[t] = "sent"
  BY DEF ThreadInv, Idle, Queued, Held, Completed, Lost, Leaving, Empty
<1>2. Invocation(workers[t]) \in Operation /\ Invocation(workers[t]).type = "invoke"
        /\ Invocation(workers[t]).process = workers[t]
  BY DEF Assigned, Invocation, Operation
<1>3. TypeOK'
  BY <1>1, <1>2, SingletonQueue DEF TypeOK, ExitOp
<1>4. Assigned(workers)'
  BY DEF Assigned
<1>5. CountInv'
  BY DEF CountInv
<1>6. ASSUME NEW u \in Threads
      PROVE  ThreadInv(u)'
  <2>1. CASE u # t
    BY <2>1 DEF TypeOK, ThreadInv, Idle, Queued, Held, Completed, Lost, Leaving, Empty
  <2>2. CASE u = t /\ Queued(t)
    BY <2>2, <1>1, <1>2, SingletonQueue
    DEF TypeOK, ThreadInv, Queued, Held, Leaving, Empty
  <2>3. CASE u = t /\ Leaving(t) /\ in[t] = <<ExitOp>> /\ stop[t] = "sent"
    BY <2>3, SingletonQueue DEF TypeOK, ThreadInv, Leaving, ExitOp
  <2> QED BY <1>1, <2>1, <2>2, <2>3
<1>7. ClientInv'
  <2>1. completions[t] = <<>> /\ pc[t] = "polling" /\ pc'[t] # "finished"
    BY <1>1 DEF TypeOK, Queued, Leaving
  <2> QED BY <2>1, NemesisIsNoClient DEF TypeOK, ClientInv, InfoOnItsWay
<1>8. HistoryInv'
  BY DEF HistoryInv
<1> QED BY <1>3, <1>4, <1>5, <1>6, <1>7, <1>8

LEMMA ReopenKeepsIInv ==
  ASSUME IInv, NEW t \in Threads, Reopen(t)
  PROVE  IInv'
<1> USE DEF IInv, Reopen, runner_vars
<1>1. Held(t) /\ t \in ClientThreads /\ op[t].process = workers[t]
        /\ workers[t] \in Processes
  BY NemesisIsNoClient
  DEF TypeOK, StaleClient, ThreadInv, Idle, Queued, Held, Completed, Lost, Leaving
<1>2. TypeOK'
  BY <1>1 DEF TypeOK
<1>3. Assigned(workers)' /\ CountInv' /\ HistoryInv'
  BY DEF Assigned, CountInv, HistoryInv
<1>4. \A u \in Threads : ThreadInv(u)'
  BY DEF ThreadInv, Idle, Queued, Held, Completed, Lost, Leaving, Empty
<1>5. ClientInv'
  <2>1. workers[t] \in Nat
    BY <1>1, ThreadKinds
  <2> QED BY <1>1, <2>1, NemesisIsNoClient
          DEF TypeOK, ClientInv, InfoOnItsWay, kInvalidProcess
<1> QED BY <1>2, <1>3, <1>4, <1>5

LEMMA InvokeKeepsIInv ==
  ASSUME IInv, NEW t \in Threads, NEW o \in Outcomes, Invoke(t, o)
  PROVE  IInv'
<1> USE DEF IInv, Invoke, runner_vars
<1>1. Held(t) /\ op[t] \in Operation /\ op[t].process = workers[t]
  BY DEF ThreadInv, Idle, Queued, Held, Completed, Lost, Leaving
<1>2. op'[t] \in Operation /\ op'[t].process = workers[t] /\ op'[t].type = o
  BY <1>1, RunAssumption DEF TypeOK, Operation
<1>3. TypeOK'
  BY <1>2 DEF TypeOK
<1>4. Assigned(workers)' /\ CountInv' /\ HistoryInv'
  BY DEF Assigned, CountInv, HistoryInv
<1>5. ASSUME NEW u \in Threads
      PROVE  ThreadInv(u)'
  <2>1. CASE u # t
    BY <2>1 DEF TypeOK, ThreadInv, Idle, Queued, Held, Completed, Lost, Leaving, Empty
  <2>2. CASE u = t
    BY <1>1, <1>2, <2>2 DEF TypeOK, ThreadInv, Held, Empty
  <2> QED BY <2>1, <2>2
<1>6. ClientInv'
  <2>1. t \in ClientThreads =>
          process[t] # kInvalidProcess /\ process[t] = workers[t]
    BY <1>1, NemesisIsNoClient DEF StaleClient, Held
  <2>2. ~InfoOnItsWay(t)
    BY <1>1 DEF InfoOnItsWay, Held, Empty
  <2>3. t \in ClientThreads => ~(workers[t] < workers[t])
    BY ThreadKinds
  <2>4. t \in ClientThreads => client[t] = "open"
    BY <2>1, <2>2, <2>3 DEF ClientInv, TypeOK
  <2> QED BY <2>1, <2>4, <1>2, NemesisIsNoClient DEF TypeOK, ClientInv, InfoOnItsWay
<1> QED BY <1>3, <1>4, <1>5, <1>6

LEMMA EnqueueKeepsIInv ==
  ASSUME IInv, NEW t \in Threads, Enqueue(t)
  PROVE  IInv'
<1> USE DEF IInv, Enqueue, runner_vars
<1>1. Held(t) /\ op[t] \in Operation /\ op[t].process = workers[t]
        /\ completions[t] = <<>>
  BY DEF ThreadInv, Idle, Queued, Held, Completed, Lost, Leaving, Empty
<1>2. completions'[t] = <<op[t]>> /\ completions'[t][1] = op[t]
        /\ completions'[t] # <<>>
  BY <1>1, SingletonQueue DEF TypeOK
<1>3. TypeOK'
  BY <1>1 DEF TypeOK
<1>4. Assigned(workers)' /\ CountInv' /\ HistoryInv'
  BY DEF Assigned, CountInv, HistoryInv
<1>5. ASSUME NEW u \in Threads
      PROVE  ThreadInv(u)'
  <2>1. CASE u # t
    BY <2>1 DEF TypeOK, ThreadInv, Idle, Queued, Held, Completed, Lost, Leaving, Empty
  <2>2. CASE u = t
    BY <1>1, <1>2, <2>2 DEF TypeOK, ThreadInv, Held, Completed, Empty
  <2> QED BY <2>1, <2>2
<1>6. ClientInv'
  BY <1>1, <1>2, NemesisIsNoClient DEF TypeOK, ClientInv, InfoOnItsWay
<1> QED BY <1>3, <1>4, <1>5, <1>6

LEMMA CloseKeepsIInv ==
  ASSUME IInv, NEW t \in Threads, Close(t)
  PROVE  IInv'
<1> USE DEF IInv, Close, runner_vars
<1>1. Leaving(t) /\ stop[t] = "sent" /\ Empty(t)
  BY DEF ThreadInv, Idle, Queued, Held, Completed, Lost, Leaving, Empty
<1>2. TypeOK'
  BY DEF TypeOK
<1>3. Assigned(workers)' /\ CountInv' /\ HistoryInv'
  BY DEF Assigned, CountInv, HistoryInv
<1>4. ASSUME NEW u \in Threads
      PROVE  ThreadInv(u)'
  <2>1. CASE u # t
    BY <2>1 DEF TypeOK, ThreadInv, Idle, Queued, Held, Completed, Lost, Leaving, Empty
  <2>2. CASE u = t
    BY <1>1, <2>2 DEF TypeOK, ThreadInv, Leaving, Empty
  <2> QED BY <2>1, <2>2
<1>5. ClientInv'
  BY NemesisIsNoClient DEF TypeOK, ClientInv, InfoOnItsWay
<1> QED BY <1>2, <1>3, <1>4, <1>5

LEMMA ThrowKeepsIInv ==
  ASSUME IInv, NEW t \in Threads, Throw(t)
  PROVE  IInv'
<1> USE DEF IInv, Throw, runner_vars
<1>1. \/ Held(t) /\ pc[t] = "serving"
      \/ Leaving(t) /\ pc[t] = "closing" /\ stop[t] = "sent" /\ Empty(t)
  BY DEF ThreadInv, Idle, Queued, Held, Completed, Lost, Leaving, Empty
<1>2. TypeOK'
  BY DEF TypeOK
<1>3. Assigned(workers)' /\ CountInv' /\ HistoryInv'
  BY DEF Assigned, CountInv, HistoryInv
<1>4. ASSUME NEW u \in Threads
      PROVE  ThreadInv(u)'
  <2>1. CASE u # t
    BY <2>1 DEF TypeOK, ThreadInv, Idle, Queued, Held, Completed, Lost, Leaving, Empty
  <2>2. CASE u = t
    BY <1>1, <2>2 DEF TypeOK, ThreadInv, Held, Lost, Leaving, Empty
  <2> QED BY <2>1, <2>2
<1>5. ClientInv'
  BY <1>1, NemesisIsNoClient DEF TypeOK, ClientInv, InfoOnItsWay
<1> QED BY <1>2, <1>3, <1>4, <1>5

-----------------------------------------------------------------------------
(***************************************************************************)
(* The steps of the runner thread.                                         *)
(***************************************************************************)

\* A completion comes from a busy thread, carries the process that thread
\* plays, and so is credited to that thread.
LEMMA CompletionOfThread ==
  ASSUME IInv, NEW t \in Threads, completions[t] # <<>>
  PROVE  /\ Completed(t) /\ t \notin free_threads /\ main = "polling"
         /\ Head(completions[t]) = completions[t][1]
         /\ Tail(completions[t]) = <<>>
         /\ completions[t][1] \in Operation
         /\ completions[t][1].process = workers[t]
         /\ ProcessToThread(workers, completions[t][1].process) = t
<1>1. Completed(t) /\ main = "polling"
  BY DEF IInv, CountInv, ThreadInv, Idle, Queued, Held, Completed, Lost, Leaving, Empty
<1>2. Head(completions[t]) = completions[t][1] /\ Tail(completions[t]) = <<>>
  BY <1>1, SingletonQueue DEF Completed
<1>3. ProcessToThread(workers, workers[t]) = t
  BY ProcessToThreadOfOwn DEF IInv
<1> QED BY <1>1, <1>2, <1>3 DEF Completed

LEMMA CompleteKeepsIInv ==
  ASSUME IInv, NEW t \in Threads, Complete(t)
  PROVE  IInv'
<1> DEFINE done == completions[t][1]
           info == done.process # kNemesisProcess /\ done.type = "info"
<1> USE DEF IInv, worker_vars
<1>1. /\ Completed(t) /\ t \notin free_threads /\ main = "polling" /\ main' = main
      /\ done \in Operation /\ done.process = workers[t]
      /\ completions' = [completions EXCEPT ![t] = <<>>]
      /\ free_threads' = free_threads \cup {t}
      /\ workers' = IF info THEN [workers EXCEPT ![t] = NextProcess(workers, t)]
                    ELSE workers
      /\ history' = Append(history, done)
      /\ outstanding' = outstanding - 1
      /\ UNCHANGED <<generator, stop, in, pc, op, process, client>>
      /\ poll_timeout' = "zero"
  BY CompletionOfThread DEF Complete
<1> HIDE DEF done
<1>2. info => t \in ClientThreads
  BY <1>1, ThreadKinds, NemesisIsNoClient
<1>3. Assigned(workers)'
  BY <1>1, <1>2, NextProcessKeepsAssigned DEF Assigned
<1>4. \A u \in Threads \ {t} : workers'[u] = workers[u]
  BY <1>1 DEF Assigned
<1>5. CountInv'
  <2>1. IsFiniteSet(Threads \ free_threads)
    BY ThreadsFinite, FS_Subset
  <2>2. Threads \ free_threads' = (Threads \ free_threads) \ {t}
    BY <1>1
  <2>3. Cardinality(Threads \ free_threads') = Cardinality(Threads \ free_threads) - 1
    BY <1>1, <2>1, <2>2, FS_RemoveElement
  <2> QED BY <1>1, <2>3 DEF CountInv
<1>6. TypeOK'
  <2>1. outstanding' \in Nat
    <3>1. IsFiniteSet(Threads \ free_threads')
      BY ThreadsFinite, FS_Subset
    <3>2. Cardinality(Threads \ free_threads') \in Nat
      BY <3>1, FS_CardinalityType
    <3> QED BY <1>5, <3>2 DEF CountInv
  <2>2. workers' \in [Threads -> Processes]
    BY <1>3 DEF Assigned
  <2>3. history' \in Seq(Operation)
    BY <1>1 DEF TypeOK
  <2> QED BY <1>1, <2>1, <2>2, <2>3 DEF TypeOK
<1>7. ASSUME NEW u \in Threads
      PROVE  ThreadInv(u)'
  <2>1. CASE u # t
    BY <1>1, <1>4, <2>1
    DEF TypeOK, ThreadInv, Idle, Queued, Held, Completed, Lost, Leaving, Empty
  <2>2. CASE u = t
    BY <1>1, <2>2 DEF TypeOK, ThreadInv, Idle, Completed, Empty
  <2> QED BY <2>1, <2>2
<1>8. ClientInv'
  <2>1. ASSUME NEW u \in ClientThreads, u # t
        PROVE  workers'[u] = workers[u] /\ (InfoOnItsWay(u)' <=> InfoOnItsWay(u))
    BY <1>1, <1>4, <2>1, NemesisIsNoClient DEF TypeOK, InfoOnItsWay
  <2>2. ASSUME t \in ClientThreads, client[t] = "tainted"
        PROVE  process[t] < workers'[t]
    <3>1. process[t] < workers[t] \/ done.type = "info"
      BY <1>1, <2>2 DEF ClientInv, InfoOnItsWay, Completed, done
    <3>2. done.process # kNemesisProcess
      BY <1>1, <2>2, ThreadKinds DEF kNemesisProcess
    <3>3. workers[t] \in Nat /\ workers'[t] \in Nat /\ process[t] <= workers[t]
            /\ workers[t] <= workers'[t] /\ (info => workers[t] < workers'[t])
      BY <1>1, <2>2, ThreadKinds, NextProcessIsOwn DEF ClientInv, Assigned
    <3>4. process[t] \in Processes \cup {kInvalidProcess}
      BY <2>2 DEF TypeOK
    <3> QED BY <3>1, <3>2, <3>3, <3>4 DEF Processes, kNemesisProcess, kInvalidProcess
  <2>3. t \in ClientThreads => process[t] <= workers'[t]
    <3>1. t \in ClientThreads =>
            /\ workers[t] \in Nat /\ workers'[t] \in Nat
            /\ workers[t] <= workers'[t] /\ process[t] <= workers[t]
      BY <1>1, ThreadKinds, NextProcessIsOwn DEF ClientInv, Assigned
    <3>2. t \in ClientThreads => process[t] \in Processes \cup {kInvalidProcess}
      BY DEF TypeOK
    <3> QED BY <3>1, <3>2 DEF Processes, kNemesisProcess, kInvalidProcess
  <2> QED BY <1>1, <2>1, <2>2, <2>3 DEF ClientInv
<1>9. HistoryInv'
  <2>1. \A u \in ClientThreads : workers[u] \in Nat /\ workers'[u] \in Nat
                                   /\ workers[u] <= workers'[u]
    BY <1>1, <1>4, ThreadKinds, NextProcessIsOwn, NemesisIsNoClient DEF Assigned
  <2>2. ASSUME NEW i \in DOMAIN history', history'[i].type = "info",
               history'[i].process # kNemesisProcess
        PROVE  \E u \in ClientThreads :
                 Owns(u, history'[i].process) /\ history'[i].process < workers'[u]
    <3>1. CASE i \in DOMAIN history
      <4>1. history'[i] = history[i] /\ history[i] \in Operation
        BY <1>1, <3>1 DEF TypeOK
      <4>2. PICK u \in ClientThreads :
              Owns(u, history[i].process) /\ history[i].process < workers[u]
        BY <2>2, <3>1, <4>1 DEF HistoryInv
      <4>3. history[i].process \in Nat
        BY <2>2, <4>1 DEF Operation, Processes
      <4> QED BY <2>1, <4>1, <4>2, <4>3
    <3>2. CASE i \notin DOMAIN history
      <4>1. history'[i] = done
        BY <1>1, <2>2, <3>2 DEF TypeOK
      <4>2. t \in ClientThreads /\ workers'[t] = NextProcess(workers, t)
        BY <1>1, <1>2, <2>2, <4>1 DEF Assigned
      <4>3. Owns(t, workers[t]) /\ workers[t] < workers'[t]
        BY <4>2, NextProcessIsOwn, NemesisIsNoClient DEF Assigned
      <4> QED BY <1>1, <4>1, <4>2, <4>3
    <3> QED BY <3>1, <3>2
  <2> QED BY <2>2 DEF HistoryInv
<1> QED BY <1>3, <1>5, <1>6, <1>7, <1>8, <1>9

LEMMA DispatchKeepsIInv ==
  ASSUME IInv, NEW t \in Threads, Dispatch(workers[t])
  PROVE  IInv'
<1> DEFINE o == Invocation(workers[t])
<1> USE DEF IInv, worker_vars
<1>1. t \in free_threads
  <2>1. PICK u \in free_threads : workers[u] = workers[t]
    BY DEF Dispatch, GeneratorProcesses, RandomFreeProcess
  <2>2. u \in Threads
    BY DEF TypeOK
  <2> QED BY <2>1, <2>2, OwnerIsUnique DEF Assigned
<1>2. ProcessToThread(workers, workers[t]) = t
  BY ProcessToThreadOfOwn
<1>3. /\ main = "polling" /\ Idle(t)
      /\ in' = [in EXCEPT ![t] = <<o>>]
      /\ free_threads' = free_threads \ {t}
      /\ generator > 0 /\ generator' = generator - 1
      /\ history' = Append(history, o)
      /\ outstanding' = outstanding + 1
      /\ poll_timeout' = "zero"
      /\ UNCHANGED <<main, workers, stop, completions, pc, op, process, client>>
  <2>1. main = "polling" /\ Idle(t)
    BY <1>1 DEF Dispatch, DispatchTo, AskGenerator, ThreadInv, Idle, Queued, Held, Completed,
                Lost, Leaving
  <2>2. Append(in[t], o) = <<o>>
    BY <2>1, SingletonQueue DEF Idle, Empty
  <2> QED BY <1>2, <2>1, <2>2 DEF Dispatch, DispatchTo
<1>4. o \in Operation /\ o.type = "invoke"
  BY DEF Assigned, Invocation, Operation
<1>5. TypeOK'
  BY <1>3, <1>4, RunAssumption DEF TypeOK
<1>6. Assigned(workers)'
  BY <1>3 DEF Assigned
<1>7. CountInv'
  <2>1. IsFiniteSet(Threads \ free_threads)
    BY ThreadsFinite, FS_Subset
  <2>2. Threads \ free_threads' = (Threads \ free_threads) \cup {t}
    BY <1>3
  <2>3. Cardinality(Threads \ free_threads') = Cardinality(Threads \ free_threads) + 1
    BY <1>1, <2>1, <2>2, FS_AddElement
  <2> QED BY <1>3, <2>3 DEF CountInv
<1>8. ASSUME NEW u \in Threads
      PROVE  ThreadInv(u)'
  <2>1. CASE u # t
    BY <1>3, <2>1
    DEF TypeOK, ThreadInv, Idle, Queued, Held, Completed, Lost, Leaving, Empty
  <2>2. CASE u = t
    BY <1>3, <2>2 DEF TypeOK, ThreadInv, Idle, Queued, Empty
  <2> QED BY <2>1, <2>2
<1>9. ClientInv'
  BY <1>3 DEF ClientInv, InfoOnItsWay
<1>10. HistoryInv'
  <2>1. ASSUME NEW i \in DOMAIN history', history'[i].type = "info"
        PROVE  i \in DOMAIN history /\ history'[i] = history[i]
    BY <1>3, <1>4, <2>1 DEF TypeOK
  <2> QED BY <1>3, <2>1 DEF HistoryInv
<1> QED BY <1>5, <1>6, <1>7, <1>8, <1>9, <1>10

\* Answers that are not dispatched change nothing but the time to wait.
LEMMA WaitKeepsIInv ==
  ASSUME IInv, NotDue \/ Pending \/ NilOutstanding
  PROVE  IInv'
<1>1. /\ UNCHANGED <<main, free_threads, workers, generator, outstanding, history,
                     stop, in, completions, pc, op, process, client>>
      /\ poll_timeout' \in {"max_pending", "until_due"}
  BY DEF NotDue, Pending, NilOutstanding, WaitFor, worker_vars
<1>2. TypeOK'
  BY <1>1 DEF IInv, TypeOK
<1>3. \A t \in Threads : ThreadInv(t)'
  BY <1>1 DEF IInv, ThreadInv, Idle, Queued, Held, Completed, Lost, Leaving, Empty
<1> QED
  BY <1>1, <1>2, <1>3 DEF IInv, Assigned, CountInv, ClientInv, InfoOnItsWay, HistoryInv

LEMMA NilFinishedKeepsIInv ==
  ASSUME IInv, NilFinished
  PROVE  IInv'
<1> USE DEF IInv, NilFinished, worker_vars
<1>1. free_threads = Threads
  <2>1. IsFiniteSet(Threads \ free_threads)
    BY ThreadsFinite, FS_Subset
  <2>2. Cardinality(Threads \ free_threads) = 0
    BY DEF StillOutstanding, TypeOK, CountInv
  <2> QED BY <2>1, <2>2, FS_EmptySet DEF TypeOK
<1>2. TypeOK' /\ Assigned(workers)' /\ CountInv' /\ ClientInv' /\ HistoryInv'
  BY <1>1 DEF TypeOK, Assigned, CountInv, ClientInv, InfoOnItsWay, HistoryInv
<1>3. \A t \in Threads : Idle(t)
  BY <1>1 DEF AskGenerator, ThreadInv, Idle, Queued, Held, Completed, Lost, Leaving
<1>4. \A t \in Threads : ThreadInv(t)'
  BY <1>3 DEF ThreadInv, Idle, Empty
<1> QED BY <1>2, <1>4

LEMMA PutExitKeepsIInv ==
  ASSUME IInv, NEW t \in Threads, PutExit(t)
  PROVE  IInv'
<1> USE DEF IInv, PutExit, worker_vars
<1>1. Idle(t)
  BY DEF CountInv, ThreadInv, Idle, Queued, Held, Completed, Lost, Leaving
<1>2. in'[t] = <<ExitOp>>
  BY <1>1, SingletonQueue DEF TypeOK, Idle, Empty
<1>3. TypeOK' /\ Assigned(workers)' /\ CountInv' /\ ClientInv' /\ HistoryInv'
  BY DEF TypeOK, Assigned, CountInv, ClientInv, InfoOnItsWay, HistoryInv
<1>4. ASSUME NEW u \in Threads
      PROVE  ThreadInv(u)'
  <2>1. CASE u # t
    BY <2>1 DEF TypeOK, ThreadInv, Idle, Queued, Held, Completed, Lost, Leaving, Empty
  <2>2. CASE u = t
    BY <1>1, <1>2, <2>2 DEF TypeOK, ThreadInv, Idle, Leaving, Empty
  <2> QED BY <2>1, <2>2
<1> QED BY <1>3, <1>4

LEMMA JoinKeepsIInv ==
  ASSUME IInv, NEW t \in Threads, Join(t)
  PROVE  IInv'
<1> USE DEF IInv, Join, worker_vars
<1>1. Leaving(t)
  BY DEF ThreadInv, Idle, Queued, Held, Completed, Lost, Leaving
<1>2. TypeOK' /\ Assigned(workers)' /\ CountInv' /\ ClientInv' /\ HistoryInv'
  BY DEF TypeOK, Assigned, CountInv, ClientInv, InfoOnItsWay, HistoryInv
<1>3. ASSUME NEW u \in Threads
      PROVE  ThreadInv(u)'
  <2>1. CASE u # t
    BY <2>1 DEF TypeOK, ThreadInv, Idle, Queued, Held, Completed, Lost, Leaving, Empty
  <2>2. CASE u = t
    BY <1>1, <2>2 DEF TypeOK, ThreadInv, Leaving
  <2> QED BY <2>1, <2>2
<1> QED BY <1>2, <1>3

LEMMA FinishKeepsIInv ==
  ASSUME IInv, Finish
  PROVE  IInv'
BY DEF IInv, Finish, worker_vars, TypeOK, Assigned, CountInv,
       ThreadInv, Idle, Queued, Held, Completed, Lost, Leaving, Empty,
       ClientInv, InfoOnItsWay, HistoryInv

LEMMA StutterKeepsIInv ==
  ASSUME IInv, UNCHANGED vars
  PROVE  IInv'
BY DEF IInv, vars, runner_vars, worker_vars, TypeOK, Assigned, CountInv,
       ThreadInv, Idle, Queued, Held, Completed, Lost, Leaving, Empty,
       ClientInv, InfoOnItsWay, HistoryInv

\* Every step keeps the invariant.
LEMMA NextKeepsIInv == IInv /\ [Next]_vars => IInv'
<1> SUFFICES ASSUME IInv, [Next]_vars PROVE IInv'
  OBVIOUS
<1>1. ASSUME RunnerStep PROVE IInv'
  BY <1>1, CompleteKeepsIInv, DispatchKeepsIInv, WaitKeepsIInv, NilFinishedKeepsIInv,
     PutExitKeepsIInv, JoinKeepsIInv, FinishKeepsIInv
  DEF RunnerStep
<1>2. ASSUME NEW t \in Threads, WorkerStep(t) PROVE IInv'
  BY <1>2, TakeKeepsIInv, ReopenKeepsIInv, InvokeKeepsIInv, EnqueueKeepsIInv,
     CloseKeepsIInv, ThrowKeepsIInv
  DEF WorkerStep
<1> QED BY <1>1, <1>2, StutterKeepsIInv DEF Next, Ended

-----------------------------------------------------------------------------
(***************************************************************************)
(* The theorems.                                                           *)
(***************************************************************************)

\* The inductive invariant holds in every reachable state.
THEOREM Inductive == Spec => []IInv
BY InitIInv, NextKeepsIInv, PTL DEF Spec

\* Type correctness of the run loop and its workers. In particular the thread
\* processToThread finds for a completion is always a real one
\* (Runner.cpp:188-192).
THEOREM TypeCorrect == Spec => []TypeOK
BY Inductive, PTL DEF IInv

\* A busy thread has exactly one operation and a free thread none, and
\* outstanding counts the busy threads (Runner.cpp:183-249, Worker.cpp:22-42).
THEOREM OneOperationPerThread == Spec => []OneOpInFlight
<1>1. IInv => OneOpInFlight
  <2> SUFFICES ASSUME IInv, main = "polling" PROVE OneOpInFlight
    BY DEF OneOpInFlight
  <2>1. ASSUME NEW t \in Threads
        PROVE  InFlight(t) = IF t \in free_threads THEN 0 ELSE 1
    <3>1. Len(<<>>) = 0
      OBVIOUS
    <3>2. CASE Idle(t)
      BY <3>1, <3>2 DEF Idle, Empty, InFlight
    <3>3. CASE Queued(t)
      BY <3>1, <3>3, SingletonQueue DEF Queued, InFlight
    <3>4. CASE Held(t) \/ Lost(t)
      <4>1. t \notin free_threads /\ pc[t] \in {"serving", "served", "failed"}
        BY <3>4 DEF Held, Lost
      <4>2. Len(in[t]) = 0 /\ Len(completions[t]) = 0
        BY <3>1, <3>4 DEF Held, Lost, Empty
      <4> QED BY <4>1, <4>2 DEF InFlight
    <3>5. CASE Completed(t)
      <4>1. t \notin free_threads /\ pc[t] \notin {"serving", "served", "failed"}
        BY <3>5 DEF Completed
      <4>2. Len(in[t]) = 0 /\ Len(completions[t]) = 1
        BY <3>1, <3>5, SingletonQueue DEF Completed
      <4> QED BY <4>1, <4>2 DEF InFlight
    <3> QED BY <3>2, <3>3, <3>4, <3>5 DEF IInv, ThreadInv, Leaving
  <2> QED BY <2>1 DEF OneOpInFlight, IInv, CountInv
<1> QED BY <1>1, Inductive, PTL

\* Threads never share a process, and operations carry the process of the
\* thread they travel to or from (Context.cpp:21-38, Runner.cpp:188-197).
THEOREM ProcessesIdentifyThreads == Spec => []ProcessIdentity
<1>1. IInv => ProcessIdentity
  <2> SUFFICES ASSUME IInv PROVE ProcessIdentity
    OBVIOUS
  <2>1. \A t, u \in Threads : workers[t] = workers[u] => t = u
    BY OwnerIsUnique DEF IInv, Assigned
  <2>2. ASSUME NEW t \in Threads
        PROVE  /\ \A i \in 1 .. Len(completions[t]) :
                    completions[t][i].process = workers[t]
               /\ \A i \in 1 .. Len(in[t]) :
                    in[t][i].type # "exit" => in[t][i].process = workers[t]
               /\ pc[t] \in {"serving", "served"} => op[t].process = workers[t]
    <3>1. Invocation(workers[t]).process = workers[t] /\ ExitOp.type = "exit"
      BY DEF Invocation, ExitOp
    <3>2. \A i \in 1 .. Len(completions[t]) : completions[t][i].process = workers[t]
      <4>1. completions[t] = <<>> \/ Completed(t)
        BY DEF IInv, ThreadInv, Idle, Queued, Held, Lost, Leaving, Empty
      <4> QED BY <4>1, SingletonQueue DEF Completed
    <3>3. \A i \in 1 .. Len(in[t]) :
            in[t][i].type # "exit" => in[t][i].process = workers[t]
      <4>1. in[t] \in {<<>>, <<ExitOp>>, <<Invocation(workers[t])>>}
        BY DEF IInv, ThreadInv, Idle, Queued, Held, Completed, Lost, Leaving, Empty
      <4> QED BY <3>1, <4>1, SingletonQueue
    <3>4. pc[t] \in {"serving", "served"} => op[t].process = workers[t]
      BY DEF IInv, ThreadInv, Idle, Queued, Held, Completed, Lost, Leaving
    <3> QED BY <3>2, <3>3, <3>4
  <2> QED BY <2>1, <2>2 DEF ProcessIdentity, IInv, Assigned
<1> QED BY <1>1, Inductive, PTL

\* No operation is sent through a client that may have one of unknown outcome
\* in flight (Worker.cpp:54-66, Runner.cpp:195-197).
THEOREM NoStaleClient == Spec => []FreshClient
<1>1. IInv => FreshClient
  <2> SUFFICES ASSUME IInv, NEW t \in Threads, pc[t] = "serving", ~StaleClient(t)
               PROVE  client[t] = "open"
    BY DEF FreshClient
  <2>1. CASE t = kNemesisProcess
    BY <2>1 DEF IInv, ClientInv
  <2>2. CASE t \in ClientThreads
    <3>1. Held(t) /\ completions[t] = <<>>
      BY DEF IInv, ThreadInv, Idle, Queued, Held, Completed, Lost, Leaving, Empty
    <3>2. process[t] # kInvalidProcess /\ process[t] = workers[t] /\ ~InfoOnItsWay(t)
      BY <2>2, <3>1, NemesisIsNoClient DEF StaleClient, Held, InfoOnItsWay
    <3>3. ~(process[t] < workers[t])
      BY <2>2, <3>2, ThreadKinds DEF IInv
    <3> QED BY <2>2, <3>2, <3>3 DEF IInv, ClientInv, TypeOK
  <2> QED BY <2>1, <2>2, NemesisIsNoClient
<1> QED BY <1>1, Inductive, PTL

\* When the loop has ended nothing is left in a queue, no worker runs and no
\* client is open (Runner.cpp:212-223).
THEOREM NothingLeftWhenDone == Spec => []DoneMeansDrained
<1>1. IInv => DoneMeansDrained
  <2> SUFFICES ASSUME IInv, main = "done" PROVE DoneMeansDrained
    BY DEF DoneMeansDrained
  <2>1. free_threads = Threads /\ outstanding = 0
    BY FS_EmptySet DEF IInv, CountInv
  <2>2. \A t \in Threads : pc[t] = "finished" /\ Empty(t)
    BY DEF IInv, CountInv, ThreadInv, Idle, Queued, Held, Completed, Lost, Leaving, Empty
  <2>3. \A t \in ClientThreads : client[t] = "null"
    BY <2>2, NemesisIsNoClient DEF IInv, ClientInv
  <2> QED BY <2>1, <2>2, <2>3 DEF DoneMeansDrained, Empty
<1> QED BY <1>1, Inductive, PTL

\* An operation lost with its worker keeps the runner polling
\* (Worker.cpp:34, 70; Runner.cpp:208).
THEOREM LostOperationBlocks == Spec => []LostOperationBlocksExit
<1>1. IInv => LostOperationBlocksExit
  <2> SUFFICES ASSUME IInv, NEW t \in Threads \ free_threads
               PROVE  main = "polling" /\ outstanding > 0
    BY DEF LostOperationBlocksExit
  <2>1. IsFiniteSet(Threads \ free_threads)
    BY ThreadsFinite, FS_Subset
  <2>2. Cardinality(Threads \ free_threads) # 0
    BY <2>1, FS_EmptySet
  <2> QED BY <2>2 DEF IInv, CountInv, TypeOK
<1> QED BY <1>1, Inductive, PTL

\* The exit of the workers begins only when all of them are idle
\* (Runner.cpp:208-220).
THEOREM ExitOvertakesNothing == Spec => DrainedBeforeExit
<1>1. IInv /\ IInv' /\ [Next]_vars =>
        [main = "polling" /\ main' = "exiting" =>
           \A t \in Threads :
             pc[t] = "polling" /\ in[t] = <<>> /\ completions[t] = <<>>]_vars
  <2> SUFFICES ASSUME IInv, IInv', Next, main = "polling", main' = "exiting",
                      NEW t \in Threads
               PROVE  pc[t] = "polling" /\ Empty(t)
    BY DEF vars, Empty
  <2>1. NilFinished
    BY DEF Next, RunnerStep, WorkerStep, Ended, vars, runner_vars, Complete, Dispatch, DispatchTo, WaitFor,
           NotDue, Pending, NilOutstanding, PutExit, Join, Finish,
           Take, Reopen, Invoke, Enqueue, Close, Throw
  <2>2. t \in free_threads
    BY <2>1 DEF IInv, CountInv, NilFinished
  <2> QED BY <2>2 DEF IInv, ThreadInv, Idle, Queued, Held, Completed, Lost, Leaving
<1> QED BY <1>1, Inductive, PTL DEF Spec, DrainedBeforeExit

-----------------------------------------------------------------------------
(***************************************************************************)
(* RunCases implements History. A dispatch is an invocation, a completion  *)
(* an answer, the end of the loop closes the history; every other step is  *)
(* one the history does not see.                                           *)
(***************************************************************************)
OpenProcesses == {workers[t] : t \in Threads \ free_threads}

\* A process in use by a thread is not one of unknown outcome.
LEMMA PlayedIsNotCrashed ==
  ASSUME IInv, NEW t \in Threads
  PROVE  workers[t] \notin Recorded!Crashed(history)
<1> SUFFICES ASSUME NEW i \in DOMAIN history, history[i].type = "info",
                    history[i].process = workers[t], workers[t] # kNemesisProcess
             PROVE  FALSE
  BY DEF Recorded!Crashed
<1>1. PICK u \in ClientThreads : Owns(u, workers[t]) /\ workers[t] < workers[u]
  BY DEF IInv, HistoryInv
<1>2. u = t
  BY <1>1, OwnerIsUnique, NemesisIsNoClient DEF IInv, Assigned
<1> QED BY <1>1, <1>2, ThreadKinds DEF IInv

LEMMA DispatchImplementsInvoke ==
  ASSUME IInv, NEW t \in Threads, Dispatch(workers[t])
  PROVE  Recorded!HNext
<1> DEFINE p == workers[t]
<1>1. t \in free_threads
  <2>1. PICK u \in free_threads : workers[u] = workers[t]
    BY DEF Dispatch, GeneratorProcesses, RandomFreeProcess
  <2> QED BY <2>1, OwnerIsUnique DEF IInv, TypeOK, Assigned
<1>2. ProcessToThread(workers, p) = t
  BY ProcessToThreadOfOwn DEF IInv
<1>3. /\ main = "polling" /\ main' = main /\ workers' = workers
      /\ free_threads' = free_threads \ {t}
      /\ history' = Append(history, [process |-> p, type |-> "invoke"])
  BY <1>2 DEF Dispatch, DispatchTo, AskGenerator, Invocation
<1>4. p \notin OpenProcesses
  BY <1>1, OwnerIsUnique DEF OpenProcesses, IInv, Assigned
<1>5. OpenProcesses' = OpenProcesses \cup {p}
  BY <1>1, <1>3 DEF OpenProcesses
<1>6. p \in Processes /\ p \notin Recorded!Crashed(history)
  BY PlayedIsNotCrashed DEF IInv, Assigned
<1>7. Recorded!HInvoke(p)
  BY <1>3, <1>4, <1>5, <1>6 DEF Recorded!HInvoke, OpenProcesses
<1>8. p \in OpenProcesses' \ OpenProcesses
  BY <1>4, <1>5
<1> QED BY <1>7, <1>8 DEF Recorded!HNext, Recorded!HInvoke, OpenProcesses

LEMMA CompleteImplementsComplete ==
  ASSUME IInv, NEW t \in Threads, Complete(t)
  PROVE  Recorded!HNext
<1> DEFINE done == completions[t][1]
           p    == workers[t]
<1>1. /\ t \notin free_threads
      /\ done \in Operation /\ done.process = p
      /\ main = "polling" /\ main' = main
      /\ free_threads' = free_threads \cup {t}
      /\ workers' = IF done.process # kNemesisProcess /\ done.type = "info"
                    THEN [workers EXCEPT ![t] = NextProcess(workers, t)]
                    ELSE workers
      /\ history' = Append(history, done)
  BY CompletionOfThread DEF Complete
<1> HIDE DEF done
<1>2. \A u \in Threads \ {t} : workers'[u] = workers[u]
  BY <1>1 DEF IInv, Assigned
<1>3. \A u \in Threads : workers[u] = p => u = t
  BY OwnerIsUnique DEF IInv, Assigned
<1>4. p \in OpenProcesses
  BY <1>1 DEF OpenProcesses
<1>5. OpenProcesses' = OpenProcesses \ {p}
  <2>1. OpenProcesses' = {workers[u] : u \in (Threads \ free_threads) \ {t}}
    BY <1>1, <1>2 DEF OpenProcesses
  <2> QED BY <2>1, <1>3 DEF OpenProcesses
<1>6. done = [process |-> p, type |-> done.type]
        /\ done.type \in {"invoke", "ok", "fail", "info"}
  BY <1>1 DEF Operation
<1>7. Recorded!HComplete(p, done.type)
  BY <1>1, <1>4, <1>5, <1>6 DEF Recorded!HComplete, OpenProcesses
<1>8. p \in OpenProcesses \ OpenProcesses'
  BY <1>4, <1>5
<1> QED BY <1>6, <1>7, <1>8 DEF Recorded!HNext, Recorded!HComplete, OpenProcesses

LEMMA FinishImplementsClose ==
  ASSUME IInv, Finish
  PROVE  Recorded!HNext
<1>1. OpenProcesses = {} /\ OpenProcesses' = {}
  BY DEF Finish, OpenProcesses, IInv, CountInv
<1> QED BY <1>1 DEF Finish, Recorded!HNext, Recorded!HClose, OpenProcesses

LEMMA OthersAreInvisible ==
  ASSUME \/ NotDue \/ Pending \/ NilOutstanding \/ NilFinished
         \/ \E t \in Threads : PutExit(t) \/ Join(t) \/ WorkerStep(t)
         \/ UNCHANGED vars
  PROVE  UNCHANGED <<history, workers, free_threads>> /\ ((main = "done") = (main' = "done"))
BY DEF NotDue, Pending, NilOutstanding, WaitFor, NilFinished, AskGenerator, PutExit, Join,
       WorkerStep, Take, Reopen, Invoke, Enqueue, Close, Throw,
       vars, runner_vars, worker_vars

\* The history runCases records is one of module History: processes are
\* sequential, a crashed process is never used again and nothing is open at
\* the end (Runner.cpp:183-249).
THEOREM HistoryIsWellFormed == Spec => RecordsHistory
<1>1. Init => Recorded!HInit
  BY DEF Init, Recorded!HInit, InitFreeThreads
<1>2. IInv /\ [Next]_vars => [Recorded!HNext]_(Recorded!hvars)
  <2> SUFFICES ASSUME IInv, [Next]_vars
               PROVE  Recorded!HNext \/ UNCHANGED Recorded!hvars
    OBVIOUS
  <2>1. CASE \E t \in Threads : Complete(t)
    BY <2>1, CompleteImplementsComplete
  <2>2. CASE \E t \in Threads : Dispatch(workers[t])
    BY <2>2, DispatchImplementsInvoke
  <2>3. CASE Finish
    BY <2>3, FinishImplementsClose
  <2>4. CASE \/ NotDue \/ Pending \/ NilOutstanding \/ NilFinished
             \/ \E t \in Threads : PutExit(t) \/ Join(t) \/ WorkerStep(t)
             \/ UNCHANGED vars
    BY <2>4, OthersAreInvisible DEF Recorded!hvars
  <2> QED BY <2>1, <2>2, <2>3, <2>4 DEF Next, RunnerStep, Ended
<1> QED BY <1>1, <1>2, Inductive, PTL DEF Spec, RecordsHistory, Recorded!HSpec

-----------------------------------------------------------------------------
(***************************************************************************)
(* SecondRun.                                                              *)
(*                                                                         *)
(* The inductive invariant. The first call is that of RunCases, with what  *)
(* its history says about the process each worker has a client for.        *)
(***************************************************************************)
Recordings == 1 .. Len(history)

\* No process is recorded for a thread that it has not reached.
Reached(t) ==
  \A k \in Recordings : Owns(t, history[k].process) => history[k].process <= workers[t]

\* A process that a worker has, or is to have, a client for was recorded.
Traced(t) ==
  /\ t \notin free_threads => \E k \in Recordings : history[k].process = workers[t]
  /\ process[t] # kInvalidProcess => \E k \in Recordings : history[k].process = process[t]

\* A worker has a client for the last process it was asked to play, unless it
\* has not come to that yet.
UpToDate(t) ==
  /\ pc[t] = "served" \/ completions[t] # <<>> => process[t] = workers[t]
  /\ \/ Queued(t) \/ pc[t] \in {"serving", "failed"}
     \/ \A k \in Recordings :
          history[k].type = "invoke" /\ Owns(t, history[k].process) =>
            history[k].process <= process[t]

FirstCall ==
  /\ IInv
  /\ \A t \in ClientThreads : Reached(t) /\ Traced(t) /\ UpToDate(t)
  /\ old = [t \in Threads |-> <<>>]

\* The walk of an operation in the second call, which has no way back.
Resting(t) ==
  t \in free_threads /\ in[t] = <<>> /\ pc[t] = "polling" /\ old[t] = <<>>

Given(t) ==
  /\ t \notin free_threads
  /\ in[t] = <<Invocation(t)>> /\ pc[t] = "polling" /\ old[t] = <<>>

InHand(t) ==
  t \notin free_threads /\ in[t] = <<>> /\ pc[t] \in {"serving", "served"} /\ old[t] = <<>>

Gone(t) ==
  t \notin free_threads /\ in[t] = <<>> /\ pc[t] = "polling" /\ Len(old[t]) = 1

OneWay == main = "polling" => \A t \in Threads : Resting(t) \/ Given(t) \/ InHand(t) \/ Gone(t)

SecondTypes ==
  /\ free_threads \subseteq Threads /\ workers = InitWorkers
  /\ history \in Seq(Operation) /\ recorded \in 0 .. Len(history)
  /\ outstanding = Len(history) - recorded
  /\ completions = [t \in Threads |-> <<>>]
  /\ in \in [Threads -> Seq(Operation \cup {ExitOp})]
  /\ old \in [Threads -> Seq(Operation \cup {ExitOp, InitOp})]
  /\ pc \in [Threads -> {"polling", "serving", "served", "closing", "finished"}]
  /\ op \in [Threads -> Operation \cup {ExitOp, InitOp}]
  /\ process \in [ClientThreads -> Processes \cup {kInvalidProcess}]
  /\ client \in [Threads -> {"null", "open", "tainted"}]

\* Every thread is asked for its first process.
FirstProcess(t) ==
  /\ in[t] \in Seq({Invocation(t), ExitOp})
  /\ pc[t] \in {"serving", "served"} => op[t] \in Operation /\ op[t].process = t

\* What a worker without a client has of the first call.
Inherited(t) ==
  client[t] = "null" /\ pc[t] # "finished" =>
    /\ process[t] # kInvalidProcess => \E k \in 1 .. recorded : history[k].process = process[t]
    /\ \A k \in 1 .. recorded :
         history[k].type = "invoke" /\ Owns(t, history[k].process) =>
           history[k].process <= process[t]

SecondCall ==
  /\ SecondTypes /\ OneWay
  /\ \A t \in Threads : FirstProcess(t)
  /\ \A t \in ClientThreads : Inherited(t)
  /\ client[kNemesisProcess] = "open"
  /\ main = "terminated" => \E t \in Threads : NullClient(t)

SInv ==
  /\ second \in BOOLEAN
  /\ ~second => FirstCall
  /\ second => SecondCall

-----------------------------------------------------------------------------
(***************************************************************************)
(* The first call: what each step does to the records of the workers.      *)
(***************************************************************************)
Records == \A t \in ClientThreads : Reached(t) /\ Traced(t) /\ UpToDate(t)

\* The history grows at its end.
LEMMA Grown ==
  ASSUME history \in Seq(Operation), NEW e \in Operation, history' = Append(history, e)
  PROVE  /\ history' \in Seq(Operation) /\ Len(history') = Len(history) + 1
         /\ Len(history) \in Nat
         /\ \A k \in Recordings : k \in Recordings' /\ history'[k] = history[k]
         /\ Len(history) + 1 \in Recordings' /\ history'[Len(history) + 1] = e
         /\ \A k \in Recordings' : k \in Recordings \/ k = Len(history) + 1
BY DEF Recordings

\* What is recorded for a client thread is a number.
LEMMA RecordedNumbers ==
  ASSUME IInv, NEW t \in ClientThreads, Owns(t, workers[t])
  PROVE  /\ t \in Threads /\ t # kNemesisProcess /\ workers[t] \in Nat
         /\ \A p : Owns(t, p) => p \in Nat
         /\ process[t] \in Int
  BY NemesisIsNoClient, ThreadKinds
  DEF IInv, TypeOK, Owns, Processes, kNemesisProcess, kInvalidProcess

LEMMA InitRecords == Init => Records
  BY NemesisIsNoClient
  DEF Init, Records, Reached, Traced, UpToDate, Recordings, InitFreeThreads

\* Steps of the runner that neither dispatch nor complete an operation.
LEMMA QuietRecords ==
  ASSUME IInv, Records,
         \/ NotDue \/ Pending \/ NilOutstanding \/ NilFinished \/ Finish
         \/ \E t \in Threads : PutExit(t) \/ Join(t)
  PROVE  Records'
<1>1. UNCHANGED <<history, workers, free_threads, process, completions, pc>>
  BY DEF NotDue, Pending, NilOutstanding, WaitFor, NilFinished, Finish, PutExit, Join, worker_vars
<1>2. ASSUME NEW t \in ClientThreads, Queued(t) PROVE Queued(t)'
  <2>1. t \in Threads
    BY NemesisIsNoClient
  <2>2. main # "exiting"
    BY <1>2, <2>1 DEF Queued, IInv, CountInv
  <2>3. UNCHANGED <<in, stop>>
    BY <2>2 DEF NotDue, Pending, NilOutstanding, WaitFor, NilFinished, Finish, PutExit, Join
  <2> QED BY <1>1, <1>2, <2>3 DEF Queued
<1>3. Recordings' = Recordings
  BY <1>1 DEF Recordings
<1> QED BY <1>1, <1>2, <1>3 DEF Records, Reached, Traced, UpToDate

\* Steps of a worker; it never changes what is recorded.
LEMMA WorkerRecords ==
  ASSUME IInv, Records, NEW u \in Threads, WorkerStep(u)
  PROVE  Records'
<1>1. UNCHANGED <<history, workers, free_threads, stop>> /\ Recordings' = Recordings
  BY DEF WorkerStep, Take, Reopen, Enqueue, Close, Throw, Invoke, runner_vars, Recordings
<1>2. ASSUME NEW t \in ClientThreads PROVE Reached(t)'
  BY <1>1 DEF Records, Reached
<1>3. ASSUME NEW t \in ClientThreads, t # u PROVE Traced(t)' /\ UpToDate(t)'
  <2>1. t \in Threads
    BY NemesisIsNoClient
  <2>2. /\ process'[t] = process[t] /\ pc'[t] = pc[t]
        /\ completions'[t] = completions[t] /\ in'[t] = in[t]
    BY <1>3, <2>1
       DEF IInv, TypeOK, WorkerStep, Take, Reopen, Enqueue, Close, Throw, Invoke, runner_vars
  <2>3. Queued(t)' <=> Queued(t)
    BY <1>1, <2>2 DEF Queued
  <2> QED BY <1>1, <2>2, <2>3 DEF Records, Traced, UpToDate
<1>4. ASSUME u \in ClientThreads PROVE Traced(u)' /\ UpToDate(u)'
  <2>1. Reached(u) /\ Traced(u) /\ UpToDate(u) /\ u # kNemesisProcess
    BY <1>4, NemesisIsNoClient DEF Records
  <2>2. CASE Take(u)
    <3>1. /\ Queued(u) => pc'[u] = "serving"
          /\ ~Queued(u) => pc[u] \notin {"serving", "failed"}
          /\ pc'[u] \in {"serving", "closing"}
          /\ UNCHANGED <<process, completions>>
      BY <2>2 DEF Take, IInv, TypeOK, Queued, EndsLoop, Invocation, SingletonQueue
    <3>2. completions[u] = <<>>
      BY <2>2 DEF Take, IInv, ThreadInv, Idle, Queued, Held, Completed, Lost, Leaving, Empty
    <3> QED BY <1>1, <2>1, <3>1, <3>2 DEF Traced, UpToDate
  <2>3. CASE Reopen(u)
    <3>1. Held(u) /\ process'[u] = workers[u] /\ pc' = pc /\ pc[u] = "serving"
          /\ completions' = completions
      BY <1>4, <2>3
      DEF Reopen, IInv, TypeOK, ThreadInv, Idle, Queued, Held, Completed, Lost, Leaving
    <3> QED BY <1>1, <2>1, <3>1 DEF Traced, UpToDate, Held
  <2>4. CASE \E o \in Outcomes : Invoke(u, o)
    <3>1. Held(u) /\ process' = process /\ process[u] = workers[u] /\ pc'[u] = "served"
          /\ completions' = completions
      BY <2>1, <2>4
      DEF Invoke, StaleClient, IInv, TypeOK, ThreadInv, Idle, Queued, Held, Completed, Lost,
          Leaving
    <3> QED BY <1>1, <2>1, <3>1 DEF Traced, UpToDate, Reached
  <2>5. CASE Enqueue(u)
    <3>1. process' = process /\ pc[u] = "served" /\ pc'[u] = "polling" /\ ~Queued(u)
      BY <2>5 DEF Enqueue, IInv, TypeOK, Queued
    <3> QED BY <1>1, <2>1, <3>1 DEF Traced, UpToDate
  <2>6. CASE Close(u) \/ Throw(u)
    <3>1. /\ process' = process /\ pc[u] \in {"serving", "closing"} /\ ~Queued(u)
          /\ pc'[u] = "failed" \/ (pc[u] = "closing" /\ pc'[u] = "finished")
          /\ completions' = completions
      BY <2>6 DEF Close, Throw, IInv, TypeOK, Queued
    <3>2. completions[u] = <<>>
      BY <3>1 DEF IInv, ThreadInv, Idle, Queued, Held, Completed, Lost, Leaving, Empty
    <3> QED BY <1>1, <2>1, <3>1, <3>2 DEF Traced, UpToDate
  <2> QED BY <2>2, <2>3, <2>4, <2>5, <2>6 DEF WorkerStep
<1> QED BY <1>2, <1>3, <1>4 DEF Records

\* An operation is recorded for the thread it goes to.
LEMMA DispatchRecords ==
  ASSUME IInv, Records, NEW u \in Threads, Dispatch(workers[u])
  PROVE  Records'
<1> DEFINE e == Invocation(workers[u])
<1>1. u \in free_threads
  <2>1. PICK v \in free_threads : workers[v] = workers[u]
    BY DEF Dispatch, GeneratorProcesses, RandomFreeProcess
  <2> QED BY <2>1, OwnerIsUnique DEF IInv, TypeOK, Assigned
<1>2. ProcessToThread(workers, workers[u]) = u
  BY ProcessToThreadOfOwn DEF IInv
<1>3. /\ main = "polling" /\ in' = [in EXCEPT ![u] = Append(@, e)]
      /\ free_threads' = free_threads \ {u} /\ history' = Append(history, e)
      /\ UNCHANGED <<workers, stop, completions, pc, process>>
  BY <1>2 DEF Dispatch, DispatchTo, AskGenerator, worker_vars
<1>4. Idle(u) /\ \A t \in Threads : Owns(t, workers[t])
  BY <1>1, <1>3 DEF IInv, ThreadInv, Idle, Queued, Held, Completed, Lost, Leaving, Assigned
<1>5. e \in Operation /\ e.process = workers[u] /\ history \in Seq(Operation)
  BY DEF IInv, TypeOK, Assigned, Invocation, Operation
<1> HIDE DEF e
<1>6. ASSUME NEW t \in ClientThreads PROVE Reached(t)' /\ Traced(t)' /\ UpToDate(t)'
  <2>1. t \in Threads /\ workers[t] \in Nat
    BY <1>4, RecordedNumbers, NemesisIsNoClient
  <2>2. Reached(t) /\ Traced(t) /\ UpToDate(t)
    BY DEF Records
  <2>3. Owns(t, workers[u]) => t = u
    BY <1>4, <2>1, OwnerIsUnique
  <2>4. Reached(t)'
    <3> SUFFICES ASSUME NEW k \in Recordings', Owns(t, history'[k].process)
                 PROVE  history'[k].process <= workers'[t]
      BY DEF Reached
    <3>1. CASE k \in Recordings
      <4>1. history'[k] = history[k]
        BY <1>3, <1>5, <3>1, Grown
      <4> QED BY <1>3, <2>2, <3>1, <4>1 DEF Reached
    <3>2. CASE k \notin Recordings
      <4>1. history'[k].process = workers[u]
        BY <1>3, <1>5, <3>2, Grown
      <4> QED BY <1>3, <2>1, <2>3, <4>1
    <3> QED BY <3>1, <3>2
  <2>5. Traced(t)'
    BY <1>3, <1>5, <2>2, Grown DEF Traced
  <2>6. CASE t = u
    <3>1. Queued(t)'
      BY <1>3, <1>4, <2>1, <2>6, SingletonQueue DEF Queued, Idle, Empty, IInv, TypeOK, e
    <3> QED BY <1>3, <1>4, <2>2, <2>4, <2>5, <2>6, <3>1 DEF UpToDate, Idle, Empty
  <2>7. CASE t # u
    <3>1. Queued(t)' <=> Queued(t)
      BY <1>3, <2>1, <2>7 DEF Queued, IInv, TypeOK
    <3> QED BY <1>3, <1>5, <2>2, <2>3, <2>4, <2>5, <2>7, <3>1, Grown DEF UpToDate
  <2> QED BY <2>6, <2>7
<1> QED BY <1>6 DEF Records

\* A completion is recorded for the process its worker has a client for.
LEMMA CompleteRecords ==
  ASSUME IInv, Records, NEW u \in Threads, Complete(u)
  PROVE  Records'
<1> DEFINE e == completions[u][1]
           info == e.process # kNemesisProcess /\ e.type = "info"
<1>1. /\ Completed(u) /\ e \in Operation /\ e.process = workers[u]
      /\ completions' = [completions EXCEPT ![u] = <<>>]
      /\ free_threads' = free_threads \cup {u} /\ history' = Append(history, e)
      /\ workers' = IF info THEN [workers EXCEPT ![u] = NextProcess(workers, u)] ELSE workers
      /\ UNCHANGED <<in, stop, pc, process>>
  BY CompletionOfThread DEF Complete, worker_vars
<1>2. history \in Seq(Operation) /\ \A t \in Threads : Owns(t, workers[t])
  BY DEF IInv, TypeOK, Assigned
<1> HIDE DEF e
<1>3. ASSUME NEW t \in ClientThreads PROVE Reached(t)' /\ Traced(t)' /\ UpToDate(t)'
  <2>1. /\ t \in Threads /\ t # kNemesisProcess /\ workers[t] \in Nat /\ process[t] \in Int
        /\ \A p : Owns(t, p) => p \in Nat
    BY <1>2, RecordedNumbers, NemesisIsNoClient
  <2>2. Reached(t) /\ Traced(t) /\ UpToDate(t)
    BY DEF Records
  <2>3. Owns(t, workers[u]) => t = u
    BY <1>2, <2>1, OwnerIsUnique
  <2>4. workers'[t] \in Nat /\ workers[t] <= workers'[t] /\ (t # u => workers'[t] = workers[t])
    BY <1>1, <2>1, NextProcessIsOwn DEF IInv, Assigned
  <2>5. Reached(t)'
    <3>1. ASSUME NEW k \in Recordings', Owns(t, history'[k].process)
          PROVE  history'[k].process <= workers[t]
      <4>1. CASE k \in Recordings
        <5>1. history'[k] = history[k]
          BY <1>1, <1>2, <4>1, Grown
        <5> QED BY <2>2, <3>1, <4>1, <5>1 DEF Reached
      <4>2. CASE k \notin Recordings
        <5>1. history'[k].process = workers[u]
          BY <1>1, <1>2, <4>2, Grown
        <5> QED BY <2>1, <2>3, <3>1, <5>1
      <4> QED BY <4>1, <4>2
    <3>2. \A k \in Recordings' : Owns(t, history'[k].process) => history'[k].process \in Nat
      BY <2>1
    <3> QED BY <2>1, <2>4, <3>1, <3>2 DEF Reached
  <2>6. Traced(t)'
    BY <1>1, <1>2, <2>2, <2>4, Grown DEF Traced
  <2>7. CASE t = u
    <3>1. process[t] = workers[t] /\ pc[t] = "polling"
      BY <1>1, <2>2, <2>7, SingletonQueue DEF UpToDate, Completed
    <3>2. ASSUME NEW k \in Recordings', Owns(t, history'[k].process)
          PROVE  history'[k].process <= process[t]
      <4>1. CASE k \in Recordings
        <5>1. history'[k] = history[k]
          BY <1>1, <1>2, <4>1, Grown
        <5> QED BY <2>2, <3>1, <3>2, <4>1, <5>1 DEF Reached
      <4>2. CASE k \notin Recordings
        <5>1. history'[k].process = workers[u]
          BY <1>1, <1>2, <4>2, Grown
        <5> QED BY <2>1, <2>7, <3>1, <5>1
      <4> QED BY <4>1, <4>2
    <3> QED BY <1>1, <2>1, <2>5, <2>6, <2>7, <3>1, <3>2 DEF UpToDate, IInv, TypeOK
  <2>8. CASE t # u
    <3>1. Queued(t)' <=> Queued(t)
      BY <1>1, <2>1, <2>4, <2>8 DEF Queued, IInv, TypeOK
    <3>2. completions'[t] = completions[t]
      BY <1>1, <2>8 DEF IInv, TypeOK
    <3>3. ASSUME NEW k \in Recordings', Owns(t, history'[k].process)
          PROVE  k \in Recordings /\ history'[k] = history[k]
      <4>1. history'[k].process # workers[u]
        BY <2>3, <2>8, <3>3
      <4> QED BY <1>1, <1>2, <4>1, Grown
    <3>4. UNCHANGED <<process, pc>> /\ workers'[t] = workers[t]
      BY <1>1, <2>4, <2>8
    <3>5. UpToDate(t)'
      BY <2>2, <3>1, <3>2, <3>3, <3>4 DEF UpToDate
    <3> QED BY <2>5, <2>6, <3>5
  <2> QED BY <2>7, <2>8
<1> QED BY <1>3 DEF Records

LEMMA StutterRecords == ASSUME Records, UNCHANGED vars PROVE Records'
BY DEF vars, runner_vars, worker_vars, Records, Reached, Traced, UpToDate, Recordings, Queued

LEMMA FirstCallKeeps == ASSUME IInv, Records, Next PROVE Records'
<1>1. ASSUME RunnerStep PROVE Records'
  BY <1>1, QuietRecords, DispatchRecords, CompleteRecords DEF RunnerStep
<1> QED BY <1>1, WorkerRecords, StutterRecords DEF Next, Ended

-----------------------------------------------------------------------------
(***************************************************************************)
(* Between the calls.                                                      *)
(***************************************************************************)

\* runCases is called again (Runner.cpp:157-173).
LEMMA AgainBegins == ASSUME FirstCall, Again PROVE SecondCall'
<1> USE DEF FirstCall, Again
<1>1. \A t \in Threads : in[t] = <<>> /\ completions[t] = <<>> /\ pc[t] = "finished" /\ ~Queued(t)
  BY DEF IInv, CountInv, ThreadInv, Idle, Queued, Held, Completed, Lost, Leaving, Empty
<1>2. SecondTypes'
  <2>1. history \in Seq(Operation) /\ Len(history) \in Nat
    BY DEF IInv, TypeOK
  <2>2. completions = [t \in Threads |-> <<>>] /\ in = [t \in Threads |-> <<>>]
    BY <1>1 DEF IInv, TypeOK
  <2>3. /\ in' \in [Threads -> Seq(Operation \cup {ExitOp})]
        /\ old' \in [Threads -> Seq(Operation \cup {ExitOp, InitOp})]
    BY <2>2, EmptySeq
  <2>4. recorded' \in 0 .. Len(history') /\ outstanding' = Len(history') - recorded'
    BY <2>1
  <2>5. /\ process' \in [ClientThreads -> Processes \cup {kInvalidProcess}]
        /\ client' \in [Threads -> {"null", "open", "tainted"}]
    BY DEF IInv, TypeOK
  <2>6. /\ pc' \in [Threads -> {"polling", "serving", "served", "closing", "finished"}]
        /\ op' \in [Threads -> Operation \cup {ExitOp, InitOp}]
    OBVIOUS
  <2> QED BY <2>1, <2>2, <2>3, <2>4, <2>5, <2>6 DEF SecondTypes, InitFreeThreads
<1>3. OneWay'
  <2>1. \A t \in Threads : Resting(t)'
    BY <1>1 DEF Resting, InitFreeThreads
  <2> QED BY <2>1 DEF OneWay
<1>4. ASSUME NEW t \in Threads PROVE FirstProcess(t)'
  BY <1>1, EmptySeq DEF FirstProcess
<1>5. ASSUME NEW t \in ClientThreads PROVE Inherited(t)'
  <2>1. Traced(t) /\ UpToDate(t) /\ pc[t] = "finished" /\ ~Queued(t)
    BY <1>1, NemesisIsNoClient
  <2>2. UNCHANGED <<process, history>> /\ 1 .. recorded' = Recordings
    BY DEF Recordings
  <2> QED BY <2>1, <2>2 DEF Traced, UpToDate, Inherited
<1>6. client'[kNemesisProcess] = "open" /\ main' # "terminated"
  BY DEF IInv, ClientInv
<1> QED BY <1>2, <1>3, <1>4, <1>5, <1>6 DEF SecondCall

-----------------------------------------------------------------------------
(***************************************************************************)
(* The second call: the steps of the runner.                               *)
(***************************************************************************)

\* What stays when nothing is recorded.
LEMMA SameRecords ==
  ASSUME SecondCall, NEW t \in ClientThreads,
         UNCHANGED <<history, recorded>>, process'[t] = process[t],
         client'[t] = "null" /\ pc'[t] # "finished" => client[t] = "null" /\ pc[t] # "finished"
  PROVE  Inherited(t)'
BY DEF SecondCall, Inherited

\* No completion arrives.
LEMMA NoCompletion == ASSUME SecondCall, NEW t \in Threads PROVE ~Complete(t)
BY DEF SecondCall, SecondTypes, Complete

LEMMA SecondDispatch ==
  ASSUME SecondCall, UNCHANGED <<recorded, old>>, NEW u \in Threads, Dispatch(workers[u])
  PROVE  SecondCall'
<1> DEFINE e == Invocation(u)
<1> USE DEF SecondCall
<1>1. workers = InitWorkers /\ workers[u] = u /\ Assigned(workers)
  BY ConcurrencyAssumption
  DEF SecondTypes, InitWorkers, Assigned, Threads, ClientThreads, Processes, Owns, kNemesisProcess
<1>2. u \in free_threads /\ ProcessToThread(workers, u) = u
  <2>1. PICK v \in free_threads : workers[v] = workers[u]
    BY DEF Dispatch, GeneratorProcesses, RandomFreeProcess
  <2>2. v = u
    BY <1>1, <2>1 DEF SecondTypes, InitWorkers
  <2> QED BY <1>1, <2>1, <2>2, ProcessToThreadOfOwn
<1>3. /\ main = "polling" /\ main' = main /\ in' = [in EXCEPT ![u] = Append(@, e)]
      /\ free_threads' = free_threads \ {u} /\ history' = Append(history, e)
      /\ outstanding' = outstanding + 1
      /\ UNCHANGED <<workers, stop, completions, pc, op, process, client>>
  BY <1>1, <1>2 DEF Dispatch, DispatchTo, AskGenerator, worker_vars
<1>4. e \in Operation /\ e \in {Invocation(u), ExitOp} /\ history \in Seq(Operation)
  BY <1>1 DEF SecondTypes, Assigned, Invocation, Operation
<1> HIDE DEF e
<1>5. /\ history' \in Seq(Operation) /\ Len(history') = Len(history) + 1 /\ Len(history) \in Nat
      /\ \A k \in 1 .. recorded : history'[k] = history[k]
  BY <1>3, <1>4, Grown DEF SecondTypes, Recordings
<1>6. Resting(u) /\ in'[u] = <<e>> /\ \A t \in Threads : t # u => in'[t] = in[t]
  <2>1. Resting(u)
    BY <1>2, <1>3 DEF OneWay, Resting, Given, InHand, Gone
  <2> QED BY <1>3, <2>1, SingletonQueue DEF Resting, SecondTypes
<1>7. SecondTypes'
  <2>1. /\ in' \in [Threads -> Seq(Operation \cup {ExitOp})]
        /\ recorded' \in 0 .. Len(history') /\ outstanding' = Len(history') - recorded'
    BY <1>3, <1>4, <1>5 DEF SecondTypes
  <2> QED BY <1>3, <1>5, <2>1 DEF SecondTypes
<1>8. OneWay'
  <2>1. Given(u)'
    BY <1>3, <1>6 DEF Resting, Given, e
  <2>2. ASSUME NEW t \in Threads, t # u
        PROVE  Resting(t)' \/ Given(t)' \/ InHand(t)' \/ Gone(t)'
    BY <1>3, <1>6, <2>2 DEF OneWay, Resting, Given, InHand, Gone
  <2> QED BY <2>1, <2>2 DEF OneWay
<1>9. ASSUME NEW t \in Threads PROVE FirstProcess(t)'
  <2>1. in'[t] \in Seq({Invocation(t), ExitOp})
    BY <1>3, <1>4, <1>6 DEF FirstProcess, SecondTypes
  <2> QED BY <1>3, <2>1 DEF FirstProcess
<1>10. ASSUME NEW t \in ClientThreads PROVE Inherited(t)'
  BY <1>3, <1>5 DEF Inherited
<1> QED BY <1>3, <1>7, <1>8, <1>9, <1>10

\* The answers on which runCases waits, and the end of its loop.
LEMMA SecondQuiet ==
  ASSUME SecondCall, UNCHANGED <<recorded, old>>, main # "terminated",
         \/ NotDue \/ Pending \/ NilOutstanding \/ NilFinished \/ Finish
         \/ \E t \in Threads : PutExit(t) \/ Join(t)
  PROVE  SecondCall'
<1> USE DEF SecondCall
<1>1. /\ UNCHANGED <<free_threads, workers, outstanding, history, completions, pc, op, process,
                     client>>
      /\ main' = "polling" => main = "polling" /\ in' = in
      /\ main' # "terminated"
  BY DEF NotDue, Pending, NilOutstanding, WaitFor, NilFinished, Finish, PutExit, Join, worker_vars,
         SecondTypes
<1>2. /\ in' \in [Threads -> Seq(Operation \cup {ExitOp})]
      /\ \A t \in Threads : in'[t] \in Seq({Invocation(t), ExitOp})
  <2>1. CASE UNCHANGED in
    BY <2>1 DEF SecondTypes, FirstProcess
  <2>2. CASE \E t \in Threads : PutExit(t)
    <3>1. PICK t \in Threads : in' = [in EXCEPT ![t] = Append(@, ExitOp)]
      BY <2>2 DEF PutExit
    <3>2. /\ in[t] \in Seq(Operation \cup {ExitOp}) /\ in[t] \in Seq({Invocation(t), ExitOp})
          /\ in'[t] = Append(in[t], ExitOp)
          /\ \A u \in Threads : u # t => in'[u] = in[u] /\ in[u] \in Seq({Invocation(u), ExitOp})
      BY <3>1 DEF SecondTypes, FirstProcess
    <3>3. /\ in'[t] \in Seq(Operation \cup {ExitOp})
          /\ in'[t] \in Seq({Invocation(t), ExitOp})
      BY <3>2
    <3>4. in' \in [Threads -> Seq(Operation \cup {ExitOp})]
      BY <3>1, <3>2, <3>3 DEF SecondTypes
    <3> QED BY <3>2, <3>3, <3>4
  <2> QED BY <2>1, <2>2 DEF NotDue, Pending, NilOutstanding, WaitFor, NilFinished, Finish, Join
<1>3. SecondTypes'
  BY <1>1, <1>2 DEF SecondTypes
<1>4. OneWay'
  BY <1>1 DEF OneWay, Resting, Given, InHand, Gone
<1>5. \A t \in Threads : FirstProcess(t)'
  BY <1>1, <1>2 DEF FirstProcess
<1>6. \A t \in ClientThreads : Inherited(t)'
  BY <1>1, SameRecords
<1> QED BY <1>1, <1>3, <1>4, <1>5, <1>6

-----------------------------------------------------------------------------
(***************************************************************************)
(* The second call: the steps of the workers.                              *)
(***************************************************************************)

\* What a step of worker u does to the others.
LEMMA OtherWorkers ==
  ASSUME SecondCall, NEW u \in Threads, NEW t \in Threads, t # u,
         UNCHANGED <<free_threads, main>>, in'[t] = in[t], pc'[t] = pc[t], op'[t] = op[t],
         old'[t] = old[t]
  PROVE  /\ FirstProcess(t)'
         /\ main' = "polling" => Resting(t)' \/ Given(t)' \/ InHand(t)' \/ Gone(t)'
BY DEF SecondCall, FirstProcess, OneWay, Resting, Given, InHand, Gone

LEMMA SecondTake ==
  ASSUME SecondCall, UNCHANGED <<recorded, old>>, main # "terminated", NEW u \in Threads, Take(u)
  PROVE  SecondCall'
<1> USE DEF SecondCall, Take, runner_vars
<1> DEFINE head == Head(in[u])
<1>1. /\ in[u] \in Seq({Invocation(u), ExitOp}) /\ in[u] # <<>>
      /\ in[u] \in Seq(Operation \cup {ExitOp})
  BY DEF FirstProcess, SecondTypes
<1>2. /\ head \in {Invocation(u), ExitOp} /\ head \in Operation \cup {ExitOp}
      /\ in'[u] = Tail(in[u]) /\ Tail(in[u]) \in Seq({Invocation(u), ExitOp})
      /\ Tail(in[u]) \in Seq(Operation \cup {ExitOp}) /\ Len(Tail(in[u])) = Len(in[u]) - 1
      /\ op'[u] = head /\ pc'[u] = IF EndsLoop(head) THEN "closing" ELSE "serving"
  BY <1>1 DEF SecondTypes
<1> HIDE DEF head
<1>3. SecondTypes'
  BY <1>2 DEF SecondTypes, head
<1>4. \A t \in Threads : t # u => /\ in'[t] = in[t] /\ pc'[t] = pc[t] /\ op'[t] = op[t]
                                  /\ old'[t] = old[t]
  BY DEF SecondTypes
<1>5. FirstProcess(u)'
  <2>1. pc'[u] = "serving" => head = Invocation(u)
    BY <1>2 DEF EndsLoop, ExitOp
  <2>2. Invocation(u).process = u /\ ExitOp \notin Operation
    BY ExitIsNoOperation DEF Invocation
  <2>3. pc'[u] \in {"serving", "served"} => pc'[u] = "serving"
    BY <1>2
  <2>4. Invocation(u) \in Operation
    BY DEF Invocation, Operation, Threads, ClientThreads, Processes
  <2> QED BY <1>2, <2>1, <2>2, <2>3, <2>4 DEF FirstProcess
<1>6. main = "polling" => InHand(u)'
  <2> SUFFICES ASSUME main = "polling" PROVE InHand(u)'
    OBVIOUS
  <2>1. Given(u)
    BY DEF OneWay, Resting, Given, InHand, Gone
  <2>2. in'[u] = <<>>
    BY <1>2, <2>1, SingletonQueue DEF Given
  <2>3. head = Invocation(u) /\ ~EndsLoop(head)
    BY <2>1, SingletonQueue DEF Given, head, EndsLoop, Invocation
  <2> QED BY <1>2, <2>1, <2>2, <2>3 DEF Given, InHand
<1>7. OneWay' /\ \A t \in Threads : FirstProcess(t)'
  BY <1>4, <1>5, <1>6, OtherWorkers DEF OneWay
<1>8. \A t \in ClientThreads : Inherited(t)'
  <2>1. \A t \in ClientThreads : pc'[t] # "finished" => pc[t] # "finished"
    BY <1>4, NemesisIsNoClient
  <2> QED BY <2>1, SameRecords
<1> QED BY <1>3, <1>7, <1>8

\* A client is opened, or invoked and there is one.
LEMMA SecondServe ==
  ASSUME SecondCall, UNCHANGED <<recorded, old>>, main # "terminated", NEW u \in Threads,
         Reopen(u) \/ \E o \in Outcomes : Invoke(u, o)
  PROVE  SecondCall'
<1> USE DEF SecondCall, runner_vars
<1>1. /\ pc[u] = "serving" /\ op[u] \in Operation /\ op[u].process = u
      /\ UNCHANGED <<main, free_threads, workers, outstanding, history, in, completions>>
      /\ u # kNemesisProcess => u \in ClientThreads
  BY NemesisIsNoClient DEF Reopen, Invoke, FirstProcess
<1>2. CASE Reopen(u)
  <2>1. /\ u \in ClientThreads /\ client' = [client EXCEPT ![u] = "open"]
        /\ process' = [process EXCEPT ![u] = u] /\ UNCHANGED <<pc, op>>
    BY <1>1, <1>2 DEF Reopen, StaleClient
  <2>2. u \in Processes
    BY DEF Threads, ClientThreads, Processes
  <2>3. SecondTypes'
    BY <1>1, <2>1, <2>2 DEF SecondTypes
  <2>4. OneWay' /\ \A t \in Threads : FirstProcess(t)'
    BY <1>1, <2>1 DEF OneWay, Resting, Given, InHand, Gone, FirstProcess
  <2>5. ASSUME NEW t \in ClientThreads PROVE Inherited(t)'
    <3>1. CASE t = u
      BY <2>1, <3>1, NemesisIsNoClient DEF Inherited, SecondTypes
    <3>2. CASE t # u
      BY <1>1, <2>1, <3>2, SameRecords, NemesisIsNoClient DEF SecondTypes
    <3> QED BY <3>1, <3>2
  <2>6. client'[kNemesisProcess] = "open"
    BY <2>1, NemesisIsNoClient DEF SecondTypes
  <2> QED BY <1>1, <2>3, <2>4, <2>5, <2>6
<1>3. CASE \E o \in Outcomes : Invoke(u, o)
  <2>1. PICK o \in Outcomes : Invoke(u, o)
    BY <1>3
  <2>2. /\ op' = [op EXCEPT ![u].type = o] /\ pc' = [pc EXCEPT ![u] = "served"]
        /\ client' = IF o = "info" /\ u # kNemesisProcess
                     THEN [client EXCEPT ![u] = "tainted"] ELSE client
        /\ process' = process
    BY <2>1 DEF Invoke
  <2>3. op'[u] \in Operation /\ op'[u].process = u /\ pc'[u] = "served"
    BY <1>1, <2>2, RunAssumption DEF SecondTypes, Operation
  <2>4. \A t \in Threads : t # u => in'[t] = in[t] /\ pc'[t] = pc[t] /\ op'[t] = op[t]
    BY <1>1, <2>2 DEF SecondTypes
  <2>5. SecondTypes'
    BY <1>1, <2>2, <2>3 DEF SecondTypes
  <2>6. OneWay' /\ \A t \in Threads : FirstProcess(t)'
    <3>1. FirstProcess(u)'
      BY <1>1, <2>3 DEF FirstProcess
    <3>2. main = "polling" => InHand(u)'
      BY <1>1, <2>3 DEF OneWay, Resting, Given, InHand, Gone
    <3> QED BY <1>1, <2>4, <3>1, <3>2, OtherWorkers DEF OneWay
  <2>7. ASSUME NEW t \in ClientThreads PROVE Inherited(t)'
    <3>1. client'[t] = "null" => client[t] = "null"
      BY <2>2, NemesisIsNoClient DEF SecondTypes
    <3>2. pc'[t] # "finished" => pc[t] # "finished"
      BY <1>1, <2>4, NemesisIsNoClient
    <3> QED BY <1>1, <2>2, <3>1, <3>2, SameRecords
  <2>8. client'[kNemesisProcess] = "open"
    BY <2>2, NemesisIsNoClient DEF SecondTypes
  <2> QED BY <1>1, <2>5, <2>6, <2>7, <2>8
<1> QED BY <1>2, <1>3

LEMMA SecondClose ==
  ASSUME SecondCall, UNCHANGED <<recorded, old>>, main # "terminated", NEW u \in Threads, Close(u)
  PROVE  SecondCall'
<1> USE DEF SecondCall, Close, runner_vars
<1>1. main # "polling" /\ main' = main
  BY DEF OneWay, Resting, Given, InHand, Gone
<1>2. SecondTypes'
  BY DEF SecondTypes
<1>3. OneWay' /\ \A t \in Threads : FirstProcess(t)'
  BY <1>1 DEF OneWay, FirstProcess, SecondTypes
<1>4. ASSUME NEW t \in ClientThreads PROVE Inherited(t)'
  <2>1. CASE t = u
    BY <2>1, NemesisIsNoClient DEF Inherited, SecondTypes
  <2>2. CASE t # u
    <3>1. client'[t] = client[t] /\ pc'[t] = pc[t]
      BY <2>2, NemesisIsNoClient DEF SecondTypes
    <3> QED BY <3>1, SameRecords
  <2> QED BY <2>1, <2>2
<1>5. client'[kNemesisProcess] = "open"
  BY NemesisIsNoClient DEF SecondTypes
<1> QED BY <1>1, <1>2, <1>3, <1>4, <1>5

\* The completed operation goes into the queue of the first call.
LEMMA SecondEnqueue ==
  ASSUME SecondCall, UNCHANGED recorded, main # "terminated", NEW u \in Threads, EnqueueOld(u)
  PROVE  SecondCall'
<1> USE DEF SecondCall, EnqueueOld, PutOld, runner_vars
<1>1. SecondTypes'
  BY DEF SecondTypes
<1>2. /\ pc'[u] = "polling" /\ old'[u] = Append(old[u], op[u]) /\ in' = in
      /\ \A t \in Threads : t # u => pc'[t] = pc[t] /\ old'[t] = old[t] /\ op'[t] = op[t]
  BY DEF SecondTypes
<1>3. FirstProcess(u)'
  BY <1>2 DEF FirstProcess
<1>4. main = "polling" => Gone(u)'
  BY <1>2, SingletonQueue DEF OneWay, Resting, Given, InHand, Gone
<1>5. OneWay' /\ \A t \in Threads : FirstProcess(t)'
  BY <1>2, <1>3, <1>4, OtherWorkers DEF OneWay
<1>6. ASSUME NEW t \in ClientThreads PROVE Inherited(t)'
  <2>1. pc'[t] # "finished" => pc[t] # "finished"
    BY <1>2, NemesisIsNoClient
  <2> QED BY <2>1, SameRecords
<1> QED BY <1>1, <1>5, <1>6

\* A client that is not there is called: the program ends.
LEMMA SecondCrash ==
  ASSUME SecondCall, UNCHANGED <<recorded, old>>, main # "terminated", NEW u \in Threads,
         InvokeNull(u)
  PROVE  SecondCall'
<1> USE DEF SecondCall, InvokeNull, worker_vars
<1>1. SecondTypes'
  BY DEF SecondTypes
<1>2. OneWay' /\ \A t \in Threads : FirstProcess(t)'
  BY DEF OneWay, FirstProcess
<1>3. \A t \in ClientThreads : Inherited(t)'
  BY SameRecords
<1>4. NullClient(u)'
  BY DEF NullClient, StaleClient
<1> QED BY <1>1, <1>2, <1>3, <1>4

LEMMA SecondStutter == ASSUME SInv, UNCHANGED svars PROVE SInv'
<1>1. UNCHANGED <<vars, second, recorded, old>>
  BY DEF svars
<1>2. CASE ~second
  <2>1. IInv' /\ Records'
    BY <1>1, <1>2, StutterKeepsIInv, StutterRecords DEF SInv, FirstCall, Records
  <2> QED BY <1>1, <1>2, <2>1 DEF SInv, FirstCall, Records
<1>3. CASE second
  <2> USE DEF SInv, SecondCall, vars, runner_vars, worker_vars
  <2>1. SecondTypes' /\ OneWay'
    BY <1>1, <1>3 DEF SecondTypes, OneWay, Resting, Given, InHand, Gone
  <2>2. /\ \A t \in Threads : FirstProcess(t)'
        /\ \A t \in ClientThreads : Inherited(t)'
    BY <1>1, <1>3 DEF FirstProcess, Inherited
  <2>3. main' = "terminated" => \E t \in Threads : NullClient(t)'
    BY <1>1, <1>3 DEF NullClient, StaleClient
  <2> QED BY <1>1, <1>3, <2>1, <2>2, <2>3
<1> QED BY <1>2, <1>3 DEF SInv

-----------------------------------------------------------------------------
(***************************************************************************)
(* Theorems.                                                               *)
(***************************************************************************)

\* The invariant holds in every state of both calls (Runner.cpp:157-249).
THEOREM BothCalls == SSpec => []SInv
<1>1. SInit => SInv
  BY InitIInv, InitRecords DEF SInit, SInv, FirstCall, Records
<1>2. SInv /\ [SNext]_svars => SInv'
  <2> SUFFICES ASSUME SInv, SNext PROVE SInv'
    BY SecondStutter
  <2>1. CASE Runner1
    <3>1. IInv' /\ Records' /\ old' = [t \in Threads |-> <<>>]
      BY <2>1, NextKeepsIInv, FirstCallKeeps DEF Runner1, SInv, FirstCall, Records
    <3> QED BY <2>1, <3>1 DEF Runner1, SInv, FirstCall, Records
  <2>2. CASE Again
    BY <2>2, AgainBegins DEF Again, SInv
  <2>3. CASE main # "terminated" /\ Runner2
    <3>1. SecondCall /\ UNCHANGED <<second, recorded, old>> /\ second
      BY <2>3 DEF Runner2, SInv
    <3>2. SecondCall'
      BY <2>3, <3>1, NoCompletion, SecondDispatch, SecondQuiet DEF Runner2, RunnerStep
    <3> QED BY <3>1, <3>2 DEF SInv
  <2>4. CASE main # "terminated" /\ \E t \in Threads : Worker2(t)
    <3>1. SecondCall /\ UNCHANGED <<second, recorded>> /\ second
      BY <2>4 DEF Worker2, SInv
    <3>2. SecondCall'
      BY <2>4, <3>1, SecondTake, SecondServe, SecondClose, SecondCrash, SecondEnqueue DEF Worker2
    <3> QED BY <3>1, <3>2 DEF SInv
  <2>5. CASE UNCHANGED svars
    BY <2>5, SecondStutter
  <2> QED BY <2>1, <2>2, <2>3, <2>4, <2>5 DEF SNext
<1> QED BY <1>1, <1>2, PTL DEF SSpec

\* No operation of a second call comes back, and each thread is given one at
\* most (Runner.cpp:161, 168-173, Worker.cpp:36).
THEOREM SecondCallGetsNothing == SSpec => []NothingComesBack
<1>1. SInv => NothingComesBack
  <2> SUFFICES ASSUME SecondCall, second
               PROVE  /\ outstanding = Len(history) - recorded
                      /\ main = "polling" => \A t \in Threads :
                           OnTheWay(t) = IF t \in free_threads THEN 0 ELSE 1
    BY DEF SInv, NothingComesBack
  <2>1. ASSUME main = "polling", NEW t \in Threads
        PROVE  OnTheWay(t) = IF t \in free_threads THEN 0 ELSE 1
    <3>1. Resting(t) \/ Given(t) \/ InHand(t) \/ Gone(t)
      BY <2>1 DEF SecondCall, OneWay
    <3>2. Len(<<>>) = 0 /\ Len(<<Invocation(t)>>) = 1
      BY SingletonQueue
    <3>3. CASE Resting(t)
      BY <3>2, <3>3 DEF OnTheWay, Resting
    <3>4. CASE Given(t)
      BY <3>2, <3>4 DEF OnTheWay, Given
    <3>5. CASE InHand(t)
      BY <3>2, <3>5 DEF OnTheWay, InHand
    <3>6. CASE Gone(t)
      BY <3>2, <3>6 DEF OnTheWay, Gone
    <3> QED BY <3>1, <3>3, <3>4, <3>5, <3>6
  <2> QED BY <2>1 DEF SecondCall, SecondTypes
<1> QED BY BothCalls, <1>1, PTL

\* If no client throws in the second call, the program only crashes at a worker
\* that has served in the first call, and only as the process of its own number
\* (Worker.cpp:57-65, 68-74).
THEOREM CrashIsOfFirstProcess == SSpec => []CrashesOnFirstProcess
<1>1. SInv => CrashesOnFirstProcess
  <2> SUFFICES ASSUME SecondCall, main = "terminated"
               PROVE  \E t \in ClientThreads :
                        /\ process[t] = t /\ op[t].process = t /\ client[t] = "null"
                        /\ \E k \in 1 .. recorded : history[k].process = t
                        /\ ~\E k \in 1 .. recorded :
                             history[k].type = "invoke" /\ history[k].process \notin Threads
                               /\ Owns(t, history[k].process)
    BY DEF SInv, CrashesOnFirstProcess
  <2>1. PICK t \in Threads : NullClient(t)
    BY DEF SecondCall
  <2>2. t \in ClientThreads /\ t # kNemesisProcess
    BY <2>1, NemesisIsNoClient DEF SecondCall, NullClient
  <2>3. process[t] = t /\ op[t].process = t /\ client[t] = "null" /\ pc[t] = "serving"
    BY <2>1, <2>2 DEF SecondCall, NullClient, StaleClient, FirstProcess
  <2>4. t # kInvalidProcess /\ t \in Nat
    BY <2>2, ConcurrencyAssumption DEF ClientThreads, kInvalidProcess
  <2>5. /\ \E k \in 1 .. recorded : history[k].process = t
        /\ \A k \in 1 .. recorded :
             history[k].type = "invoke" /\ Owns(t, history[k].process) => history[k].process <= t
    BY <2>2, <2>3, <2>4 DEF SecondCall, Inherited
  <2>6. ASSUME NEW p, Owns(t, p), p <= t PROVE p = t
    <3>1. PICK i \in 0 .. p : p = t + i * Concurrency
      BY <2>2, <2>6 DEF Owns
    <3>2. p \in Nat /\ i \in Nat /\ i * Concurrency \in Nat
      BY <2>2, <2>6, <3>1, ConcurrencyAssumption DEF Owns
    <3> QED BY <2>4, <2>6, <3>1, <3>2
  <2>7. t \in Threads
    OBVIOUS
  <2> QED BY <2>2, <2>3, <2>5, <2>6, <2>7
<1> QED BY BothCalls, <1>1, PTL

-----------------------------------------------------------------------------
(***************************************************************************)
(* RunGenerators.                                                          *)
(*                                                                         *)
(* Generators are nested, and op, copyOne and update call those of smaller *)
(* generators. What they do is proved by induction on the size: first what *)
(* the recursive functions say at each level, then one lemma per class.    *)
(***************************************************************************)

\* A set of natural numbers that is not empty has a least element.
LEMMA LeastElement ==
  ASSUME NEW T \in SUBSET Nat, T # {}
  PROVE  \E n \in T : \A m \in T : n <= m
<1> DEFINE R == OpToRel(<, Nat)
<1>1. IsWellFoundedOn(R, T)
  BY NatLessThanWellFounded, IsWellFoundedOnSubset
<1>2. \A m, n \in Nat : m < n => <<m, n>> \in R
  BY DEF OpToRel
<1> HIDE DEF R
<1>3. PICK n \in T : \A m \in T : ~(<<m, n>> \in R)
  BY <1>1, WFMin
<1>4. ASSUME NEW m \in T PROVE n <= m
  <2>1. m \in Nat /\ n \in Nat
    OBVIOUS
  <2>2. ~(m < n)
    BY <1>2, <1>3, <2>1
  <2> QED BY <2>1, <2>2
<1> QED BY <1>4

\* Induction, for sets of natural numbers.
LEMMA Induction ==
  ASSUME NEW T, 0 \in T, \A n \in Nat : n \in T => n + 1 \in T
  PROVE  Nat \subseteq T
<1> SUFFICES ASSUME NEW k \in Nat, k \notin T PROVE FALSE
  OBVIOUS
<1> DEFINE B == Nat \ T
<1>1. PICK n \in B : \A m \in B : n <= m
  <2>1. B \in SUBSET Nat /\ B # {}
    OBVIOUS
  <2> HIDE DEF B
  <2> QED BY <2>1, LeastElement
<1>2. n \in Nat /\ n # 0
  BY <1>1
<1>3. n - 1 \in Nat /\ n - 1 \in T
  BY <1>1, <1>2
<1> QED BY <1>3, <1>1

\* Its value, in terms of those below.
LEMMA ComputesValue ==
  ASSUME NEW name, NEW sort, NEW f, NEW D, Computes(name, sort, f, D), NEW n \in D
  PROVE  f[n] = StepOf(name, sort, Below(f, n), n)
<1> DEFINE g == [m \in D |-> StepOf(name, sort, Below(f, m), m)]
<1>1. g[n] = StepOf(name, sort, Below(f, n), n)
  OBVIOUS
<1>2. f = g
  BY DEF Computes
<1> HIDE DEF g
<1> QED BY <1>1, <1>2

\* What is computed up to m agrees with what is computed up to n.
LEMMA ComputesOnce ==
  ASSUME NEW name, NEW sort, NEW f, NEW g, NEW m \in Nat, NEW n \in Nat, m <= n,
         Computes(name, sort, f, 0 .. m), Computes(name, sort, g, 0 .. n)
  PROVE  \A i \in 0 .. m : f[i] = g[i]
<1> DEFINE B == {i \in 0 .. m : f[i] # g[i]}
<1> SUFFICES ASSUME B # {} PROVE FALSE
  OBVIOUS
<1>1. PICK i \in B : \A j \in B : i <= j
  <2>1. B \in SUBSET Nat
    OBVIOUS
  <2> HIDE DEF B
  <2> QED BY <2>1, LeastElement
<1>2. i \in 0 .. m /\ i \in 0 .. n /\ f[i] # g[i]
  OBVIOUS
<1>3. ASSUME NEW j \in 0 .. (i - 1) PROVE f[j] = g[j]
  BY <1>1, <1>2
<1>4. Below(f, i) = Below(g, i)
  BY <1>3 DEF Below
<1>5. f[i] = StepOf(name, sort, Below(f, i), i) /\ g[i] = StepOf(name, sort, Below(g, i), i)
  BY <1>2, ComputesValue
<1> QED BY <1>2, <1>4, <1>5

\* There is such a function up to any number.
LEMMA ComputesUpTo ==
  ASSUME NEW name, NEW sort, NEW m \in Nat
  PROVE  \E f : Computes(name, sort, f, 0 .. m)
<1> DEFINE T == {n \in Nat : \E f : Computes(name, sort, f, 0 .. n)}
<1>1. 0 \in T
  <2> DEFINE none == [i \in 0 .. -1 |-> 0]
             f == [n \in 0 .. 0 |-> StepOf(name, sort, none, n)]
  <2>1. Below(f, 0) = none
    BY DEF Below
  <2>2. \A n \in 0 .. 0 : n = 0
    OBVIOUS
  <2>3. f = [n \in 0 .. 0 |-> StepOf(name, sort, Below(f, n), n)]
    <3> HIDE DEF f
    <3>1. f = [n \in 0 .. 0 |-> StepOf(name, sort, none, n)]
      BY DEF f
    <3> HIDE DEF none
    <3> QED BY <2>1, <2>2, <3>1
  <2>4. Computes(name, sort, f, 0 .. 0)
    BY <2>3 DEF Computes
  <2> QED BY <2>4
<1>2. ASSUME NEW n \in Nat, n \in T PROVE n + 1 \in T
  <2>1. PICK f : Computes(name, sort, f, 0 .. n)
    BY <1>2
  <2> DEFINE g == [i \in 0 .. n + 1 |->
                     IF i <= n THEN f[i] ELSE StepOf(name, sort, Below(f, n + 1), n + 1)]
  <2>2. ASSUME NEW i \in 0 .. n + 1 PROVE Below(g, i) = Below(f, i)
    BY DEF Below
  <2>3. ASSUME NEW i \in 0 .. n + 1 PROVE g[i] = StepOf(name, sort, Below(g, i), i)
    <3>1. CASE i <= n
      <4>1. i \in 0 .. n /\ g[i] = f[i]
        BY <3>1
      <4>2. f[i] = StepOf(name, sort, Below(f, i), i)
        BY <2>1, <4>1, ComputesValue
      <4> HIDE DEF g
      <4> QED BY <2>2, <4>1, <4>2
    <3>2. CASE i = n + 1
      <4>1. g[i] = StepOf(name, sort, Below(f, i), i)
        BY <3>2
      <4> HIDE DEF g
      <4> QED BY <2>2, <4>1
    <3> QED BY <3>1, <3>2
  <2>4. g = [i \in 0 .. n + 1 |-> g[i]]
    OBVIOUS
  <2>5. Computes(name, sort, g, 0 .. n + 1)
    <3> HIDE DEF g
    <3> QED BY <2>3, <2>4 DEF Computes
  <2> HIDE DEF g
  <2> QED BY <2>5
<1>3. Nat \subseteq T
  <2> HIDE DEF T
  <2> QED BY <1>1, <1>2, Induction
<1> QED BY <1>3

\* Each of them exists: the definitions say what they compute.
LEMMA Recursion ==
  ASSUME NEW name, NEW sort
  PROVE  \E f : Computes(name, sort, f, Nat)
<1> DEFINE part(n) == CHOOSE f : Computes(name, sort, f, 0 .. n)
           F == [n \in Nat |-> part(n)[n]]
<1>1. ASSUME NEW n \in Nat PROVE Computes(name, sort, part(n), 0 .. n)
  BY ComputesUpTo
<1> HIDE DEF part
<1>2. ASSUME NEW n \in Nat, NEW i \in 0 .. n PROVE F[i] = part(n)[i]
  <2>1. i \in Nat /\ i <= n /\ i \in 0 .. i
    OBVIOUS
  <2>2. part(i)[i] = part(n)[i]
    BY <1>1, <2>1, ComputesOnce
  <2> QED BY <2>1, <2>2
<1>3. ASSUME NEW n \in Nat PROVE F[n] = StepOf(name, sort, Below(F, n), n)
  <2>1. \A i \in 0 .. (n - 1) : F[i] = part(n)[i]
    BY <1>2
  <2>2. Below(F, n) = Below(part(n), n)
    <3> HIDE DEF F
    <3> QED BY <2>1 DEF Below
  <2>3. n \in 0 .. n
    OBVIOUS
  <2>4. part(n)[n] = StepOf(name, sort, Below(part(n), n), n)
    BY <1>1, <2>3, ComputesValue
  <2>5. F[n] = part(n)[n]
    OBVIOUS
  <2> HIDE DEF F
  <2> QED BY <2>2, <2>4, <2>5
<1>4. F = [n \in Nat |-> F[n]]
  OBVIOUS
<1>5. Computes(name, sort, F, Nat)
  <2> HIDE DEF F
  <2> QED BY <1>3, <1>4 DEF Computes
<1> QED BY <1>5

\* What the definitions of the recursive functions say of their values, one
\* lemma for each: the generators by their depth,
LEMMA NestedValue ==
  \A n \in Nat : NestedTo[n] = IF n = 0 THEN Leaves ELSE NodesOver(NestedTo[n - 1])
<1> DEFINE step(f, n) == IF n = 0 THEN Leaves ELSE NodesOver(f[n - 1])
<1>1. PICK f : Computes("nested", 0, f, Nat)
  BY Recursion
<1>2. ASSUME NEW n \in Nat PROVE StepOf("nested", 0, Below(f, n), n) = step(f, n)
  BY DEF StepOf, Below
<1>3. f = [n \in Nat |-> step(f, n)]
  <2> HIDE DEF step
  <2> QED BY <1>1, <1>2 DEF Computes
<1>4. NestedTo = [n \in Nat |-> step(NestedTo, n)]
  BY <1>3 DEF NestedTo
<1> QED BY <1>4

\* copyOne,
LEMMA CopyValue ==
  \A n \in Nat : CopyAt[n] = CopyOver(IF n = 0 THEN <<>> ELSE CopyAt[n - 1])
<1> DEFINE step(f, n) == CopyOver(IF n = 0 THEN <<>> ELSE f[n - 1])
<1>1. PICK f : Computes("copy", 0, f, Nat)
  BY Recursion
<1>2. ASSUME NEW n \in Nat PROVE StepOf("copy", 0, Below(f, n), n) = step(f, n)
  BY DEF StepOf, Below
<1>3. f = [n \in Nat |-> step(f, n)]
  <2> HIDE DEF step
  <2> QED BY <1>1, <1>2 DEF Computes
<1>4. CopyAt = [n \in Nat |-> step(CopyAt, n)]
  BY <1>3 DEF CopyAt
<1> QED BY <1>4

\* update,
LEMMA UpdateValue ==
  \A n \in Nat : UpdateAt[n] = UpdateOver(IF n = 0 THEN <<>> ELSE UpdateAt[n - 1])
<1> DEFINE step(f, n) == UpdateOver(IF n = 0 THEN <<>> ELSE f[n - 1])
<1>1. PICK f : Computes("update", 0, f, Nat)
  BY Recursion
<1>2. ASSUME NEW n \in Nat PROVE StepOf("update", 0, Below(f, n), n) = step(f, n)
  BY DEF StepOf, Below
<1>3. f = [n \in Nat |-> step(f, n)]
  <2> HIDE DEF step
  <2> QED BY <1>1, <1>2 DEF Computes
<1>4. UpdateAt = [n \in Nat |-> step(UpdateAt, n)]
  BY <1>3 DEF UpdateAt
<1> QED BY <1>4

\* op,
LEMMA OpValue ==
  \A n \in Nat : OpAt[n] = OpOver(IF n = 0 THEN <<>> ELSE OpAt[n - 1])
<1> DEFINE step(f, n) == OpOver(IF n = 0 THEN <<>> ELSE f[n - 1])
<1>1. PICK f : Computes("op", 0, f, Nat)
  BY Recursion
<1>2. ASSUME NEW n \in Nat PROVE StepOf("op", 0, Below(f, n), n) = step(f, n)
  BY DEF StepOf, Below
<1>3. f = [n \in Nat |-> step(f, n)]
  <2> HIDE DEF step
  <2> QED BY <1>1, <1>2 DEF Computes
<1>4. OpAt = [n \in Nat |-> step(OpAt, n)]
  BY <1>3 DEF OpAt
<1> QED BY <1>4

\* the lists in wrappers,
LEMMA ListsValue ==
  \A n \in Nat : ListsTo[n] = ListsOver(IF n = 0 THEN <<>> ELSE ListsTo[n - 1], n)
<1> DEFINE step(f, n) == ListsOver(IF n = 0 THEN <<>> ELSE f[n - 1], n)
<1>1. PICK f : Computes("lists", 0, f, Nat)
  BY Recursion
<1>2. ASSUME NEW n \in Nat PROVE StepOf("lists", 0, Below(f, n), n) = step(f, n)
  BY DEF StepOf, Below
<1>3. f = [n \in Nat |-> step(f, n)]
  <2> HIDE DEF step
  <2> QED BY <1>1, <1>2 DEF Computes
<1>4. ListsTo = [n \in Nat |-> step(ListsTo, n)]
  BY <1>3 DEF ListsTo
<1> QED BY <1>4

\* the names of their operations,
LEMMA ListedValue ==
  \A n \in Nat : ListedAt[n] = ListedOver(IF n = 0 THEN <<>> ELSE ListedAt[n - 1])
<1> DEFINE step(f, n) == ListedOver(IF n = 0 THEN <<>> ELSE f[n - 1])
<1>1. PICK f : Computes("listed", 0, f, Nat)
  BY Recursion
<1>2. ASSUME NEW n \in Nat PROVE StepOf("listed", 0, Below(f, n), n) = step(f, n)
  BY DEF StepOf, Below
<1>3. f = [n \in Nat |-> step(f, n)]
  <2> HIDE DEF step
  <2> QED BY <1>1, <1>2 DEF Computes
<1>4. ListedAt = [n \in Nat |-> step(ListedAt, n)]
  BY <1>3 DEF ListedAt
<1> QED BY <1>4

\* the generators copyOne crashes on,
LEMMA CannotCopyValue ==
  \A n \in Nat : CannotCopyTo[n] = CannotCopyOver(IF n = 0 THEN {} ELSE CannotCopyTo[n - 1])
<1> DEFINE step(f, n) == CannotCopyOver(IF n = 0 THEN {} ELSE f[n - 1])
<1>1. PICK f : Computes("cannotCopy", 0, f, Nat)
  BY Recursion
<1>2. ASSUME NEW n \in Nat PROVE StepOf("cannotCopy", 0, Below(f, n), n) = step(f, n)
  BY DEF StepOf, Below
<1>3. f = [n \in Nat |-> step(f, n)]
  <2> HIDE DEF step
  <2> QED BY <1>1, <1>2 DEF Computes
<1>4. CannotCopyTo = [n \in Nat |-> step(CannotCopyTo, n)]
  BY <1>3 DEF CannotCopyTo
<1> QED BY <1>4

\* those update crashes on,
LEMMA CannotUpdateValue ==
  \A n \in Nat : CannotUpdateTo[n] = CannotUpdateOver(IF n = 0 THEN <<>> ELSE CannotUpdateTo[n - 1])
<1> DEFINE step(f, n) == CannotUpdateOver(IF n = 0 THEN <<>> ELSE f[n - 1])
<1>1. PICK f : Computes("cannotUpdate", 0, f, Nat)
  BY Recursion
<1>2. ASSUME NEW n \in Nat PROVE StepOf("cannotUpdate", 0, Below(f, n), n) = step(f, n)
  BY DEF StepOf, Below
<1>3. f = [n \in Nat |-> step(f, n)]
  <2> HIDE DEF step
  <2> QED BY <1>1, <1>2 DEF Computes
<1>4. CannotUpdateTo = [n \in Nat |-> step(CannotUpdateTo, n)]
  BY <1>3 DEF CannotUpdateTo
<1> QED BY <1>4

\* the solid generators,
LEMMA SolidValue ==
  \A n \in Nat : SolidTo[n] = SolidOver(IF n = 0 THEN {} ELSE SolidTo[n - 1])
<1> DEFINE step(f, n) == SolidOver(IF n = 0 THEN {} ELSE f[n - 1])
<1>1. PICK f : Computes("solid", 0, f, Nat)
  BY Recursion
<1>2. ASSUME NEW n \in Nat PROVE StepOf("solid", 0, Below(f, n), n) = step(f, n)
  BY DEF StepOf, Below
<1>3. f = [n \in Nat |-> step(f, n)]
  <2> HIDE DEF step
  <2> QED BY <1>1, <1>2 DEF Computes
<1>4. SolidTo = [n \in Nat |-> step(SolidTo, n)]
  BY <1>3 DEF SolidTo
<1> QED BY <1>4

\* and the generators of a sort by their size.
LEMMA TreesValue ==
  ASSUME NEW sort
  PROVE  \A n \in Nat : Trees(sort)[n] = TreesOver(sort, Below(Trees(sort), n), n)
<1> DEFINE step(f, n) == TreesOver(sort, [i \in 0 .. (n - 1) |-> f[i]], n)
<1>1. PICK f : Computes("trees", sort, f, Nat)
  BY Recursion
<1>2. ASSUME NEW n \in Nat PROVE StepOf("trees", sort, Below(f, n), n) = step(f, n)
  BY DEF StepOf, Below
<1>3. f = [n \in Nat |-> step(f, n)]
  <2> HIDE DEF step
  <2> QED BY <1>1, <1>2 DEF Computes
<1>4. Trees(sort) = [n \in Nat |-> step(Trees(sort), n)]
  BY <1>3 DEF Trees
<1> QED BY <1>4 DEF Below

-----------------------------------------------------------------------------
(***************************************************************************)
(* The shape of generators.                                                *)
(***************************************************************************)

\* The generators of depth zero are well formed,
LEMMA LeafShape ==
  ASSUME NEW g \in Leaves, NEW gens PROVE WellFormed(g, gens) /\ g.kind \in Childless
BY DEF Leaves, WellFormed, Kinds, Null, Once, Fun, Childless

\* and those made of some are,
LEMMA NodeShape ==
  ASSUME NEW gens, NEW g \in NodesOver(gens) PROVE WellFormed(g, gens)
<1>1. CASE g \in Leaves
  BY <1>1, LeafShape
<1>2. CASE g \in [kind : {"list", "any"}, gens : Seq(gens)]
  BY <1>2 DEF WellFormed, Kinds, List, Any
<1>3. CASE g \in [kind : {"mix"}, idx : Nat, gens : Seq(gens)]
  BY <1>3 DEF WellFormed, Kinds, Mix
<1>4. CASE g \in [kind : {"validate"}, gen : gens]
  BY <1>4 DEF WellFormed, Kinds, Validate
<1>5. CASE g \in [kind : {"onThreads"}, filter : Filters, gen : gens]
  BY <1>5 DEF WellFormed, Kinds, OnThreads
<1>6. CASE g \in [kind : {"timeLimit"}, limit : Int, cutoff : Int, gen : gens]
  BY <1>6 DEF WellFormed, Kinds, TimeLimit
<1>7. CASE g \in [kind : {"stagger"}, dt : Int, next_time : Int, gen : gens]
  BY <1>7 DEF WellFormed, Kinds, Stagger
<1> QED BY <1>1, <1>2, <1>3, <1>4, <1>5, <1>6, <1>7 DEF NodesOver

\* and what the constructors make of some is made of some.
LEMMA Nodes ==
  ASSUME NEW gens
  PROVE  /\ Null \in Leaves
         /\ \A o \in Operations : Once(o) \in Leaves /\ Fun(o) \in Leaves
         /\ Leaves \subseteq NodesOver(gens)
         /\ \A q \in Seq(gens) : List(q) \in NodesOver(gens) /\ Any(q) \in NodesOver(gens)
         /\ \A q \in Seq(gens), i \in Nat : Mix(i, q) \in NodesOver(gens)
         /\ \A g \in gens : Validate(g) \in NodesOver(gens)
         /\ \A g \in gens, f \in Filters : OnThreads(f, g) \in NodesOver(gens)
         /\ \A g \in gens, l \in Int, c \in Int : TimeLimit(l, c, g) \in NodesOver(gens)
         /\ \A g \in gens, d \in Int, t \in Int : Stagger(d, t, g) \in NodesOver(gens)
BY DEF NodesOver, Leaves, Null, Once, Fun, List, Any, Mix, Validate, OnThreads, TimeLimit, Stagger

\* A generator is well formed, of generators of less depth.
LEMMA NestedShape ==
  ASSUME NEW n \in Nat, NEW g \in NestedTo[n]
  PROVE  /\ WellFormed(g, NestedTo[n - 1])
         /\ n = 0 => g.kind \in Childless
BY NestedValue, LeafShape, NodeShape

\* Deeper generators only add to them.
LEMMA NestedGrows ==
  ASSUME NEW n \in Nat PROVE NestedTo[n] \subseteq NestedTo[n + 1]
<1> DEFINE T == {k \in Nat : NestedTo[k] \subseteq NestedTo[k + 1]}
<1>1. 0 \in T
  <2>1. NestedTo[0] = Leaves /\ NestedTo[0 + 1] = NodesOver(NestedTo[0])
    BY NestedValue
  <2> QED BY <2>1, Nodes
<1>2. ASSUME NEW k \in Nat, k \in T PROVE k + 1 \in T
  <2>1. NestedTo[k + 1] = NodesOver(NestedTo[k]) /\ NestedTo[k + 1 + 1] = NodesOver(NestedTo[k + 1])
    BY NestedValue
  <2>2. ASSUME NEW g \in NestedTo[k + 1] PROVE g \in NestedTo[k + 1 + 1]
    <3>1. NestedTo[k] \subseteq NestedTo[k + 1]
      BY <1>2
    <3>2. WellFormed(g, NestedTo[k])
      BY <2>1, NodeShape
    <3>3. Seq(NestedTo[k]) \subseteq Seq(NestedTo[k + 1])
      BY <3>1
    <3>4. WellFormed(g, NestedTo[k + 1])
      BY <3>1, <3>2, <3>3 DEF WellFormed
    <3>5. WellFormed(g, NestedTo[k + 1]) => g \in NodesOver(NestedTo[k + 1])
      BY Nodes DEF WellFormed, Kinds
    <3> QED BY <2>1, <3>4, <3>5
  <2> QED BY <2>2
<1>3. Nat \subseteq T
  <2> HIDE DEF T
  <2> QED BY <1>1, <1>2, Induction
<1> QED BY <1>3

\* A larger bound on the depth allows more generators.
LEMMA NestedMonotone ==
  ASSUME NEW m \in Nat, NEW n \in Nat, m <= n PROVE NestedTo[m] \subseteq NestedTo[n]
<1> DEFINE T == {k \in Nat : NestedTo[m] \subseteq NestedTo[m + k]}
<1>1. 0 \in T
  OBVIOUS
<1>2. ASSUME NEW k \in Nat, k \in T PROVE k + 1 \in T
  <2>1. NestedTo[m + k] \subseteq NestedTo[m + k + 1] /\ m + k + 1 = m + (k + 1)
    BY NestedGrows
  <2> QED BY <1>2, <2>1
<1>3. Nat \subseteq T
  <2> HIDE DEF T
  <2> QED BY <1>1, <1>2, Induction
<1>4. n - m \in Nat /\ m + (n - m) = n
  OBVIOUS
<1> QED BY <1>3, <1>4

-----------------------------------------------------------------------------
(***************************************************************************)
(* The generators of a sort, by their size.                                *)
(***************************************************************************)

\* Course-of-values induction, for sets of natural numbers.
LEMMA StrongInduction ==
  ASSUME NEW T, \A n \in Nat : (\A m \in 0 .. (n - 1) : m \in T) => n \in T
  PROVE  Nat \subseteq T
<1> SUFFICES ASSUME NEW k \in Nat, k \notin T PROVE FALSE
  OBVIOUS
<1> DEFINE B == Nat \ T
<1>1. PICK n \in B : \A m \in B : n <= m
  <2>1. B \in SUBSET Nat /\ B # {}
    OBVIOUS
  <2> HIDE DEF B
  <2> QED BY <2>1, LeastElement
<1>2. \A m \in 0 .. (n - 1) : m \in T
  BY <1>1
<1> QED BY <1>1, <1>2

\* The two spans.
LEMMA BothSpans == "any" \in Spans /\ "endless" \in Spans
BY DEF Spans

\* A tree is a generator of the size's depth that fits.
LEMMA TreeIff ==
  ASSUME NEW sort, NEW n \in Nat, NEW scope \in Scopes, NEW span \in Spans, NEW g
  PROVE  g \in Trees(sort)[n][scope][span] <=>
           g \in NestedTo[n] /\ Fits(sort, Trees(sort), n, scope, span, g)
<1> DEFINE T == Trees(sort)
           t == Below(Trees(sort), n)
<1>1. T[n][scope][span] = {h \in NestedTo[n] : Fits(sort, t, n, scope, span, h)}
  <2>1. T[n] = TreesOver(sort, t, n)
    BY TreesValue
  <2> HIDE DEF t, T
  <2>2. TreesOver(sort, t, n)[scope][span] = {h \in NestedTo[n] : Fits(sort, t, n, scope, span, h)}
    BY DEF TreesOver
  <2> QED BY <2>1, <2>2
<1>2. ASSUME NEW i \in 0 .. (n - 1) PROVE t[i] = T[i]
  BY DEF Below
<1>3. ASSUME g \in NestedTo[n]
      PROVE  Fits(sort, t, n, scope, span, g) <=> Fits(sort, T, n, scope, span, g)
  <2>1. WellFormed(g, NestedTo[n - 1]) /\ (n = 0 => g.kind \in Childless)
    BY <1>3, NestedShape
  <2>2. g.kind \in Kinds
    BY <2>1 DEF WellFormed
  <2> HIDE DEF T, t
  <2>3. CASE g.kind \in Childless
    BY <2>3 DEF Childless, Fits
  <2>4. CASE g.kind \notin Childless
    <3>1. n - 1 \in 0 .. (n - 1) /\ t[n - 1] = T[n - 1]
      BY <1>2, <2>1, <2>4
    <3>2. ASSUME NEW gens \in Seq(NestedTo[n - 1]), NEW sc, NEW lasting
          PROVE  Members(t, n, sc, lasting, gens) <=> Members(T, n, sc, lasting, gens)
      <4>1. Len(gens) \in Nat
        OBVIOUS
      <4>2. Len(gens) <= n /\ 1 <= Len(gens) => t[n - Len(gens)] = T[n - Len(gens)]
        BY <4>1, <1>2
      <4>3. CASE Len(gens) <= n /\ 1 <= Len(gens)
        BY <4>2, <4>3 DEF Members
      <4>4. CASE ~(Len(gens) <= n)
        BY <4>4 DEF Members
      <4>5. CASE Len(gens) = 0
        <5>1. \A i : i \notin 1 .. Len(gens)
          BY <4>5
        <5> QED BY <5>1 DEF Members
      <4> QED BY <4>1, <4>3, <4>4, <4>5
    <3>3. g.kind \in {"list", "any", "mix"} => g.gens \in Seq(NestedTo[n - 1])
      BY <2>1 DEF WellFormed
    <3> QED BY <2>2, <2>4, <3>1, <3>2, <3>3 DEF Fits, Kinds, Childless
  <2> QED BY <2>3, <2>4
<1> HIDE DEF t, T
<1>4. Trees(sort) = T
  BY DEF T
<1> QED BY <1>1, <1>3, <1>4

\* The endless trees are trees.
LEMMA EndlessIsTree ==
  ASSUME NEW sort, NEW n \in Nat, NEW scope \in Scopes
  PROVE  Trees(sort)[n][scope]["endless"] \subseteq Trees(sort)[n][scope]["any"]
<1> DEFINE T == Trees(sort)
           P == {k \in Nat : \A sc \in Scopes : T[k][sc]["endless"] \subseteq T[k][sc]["any"]}
<1>1. ASSUME NEW k \in Nat, \A m \in 0 .. (k - 1) : m \in P PROVE k \in P
  <2> SUFFICES ASSUME NEW sc \in Scopes, NEW g \in T[k][sc]["endless"] PROVE g \in T[k][sc]["any"]
    OBVIOUS
  <2>1. g \in NestedTo[k] /\ Fits(sort, T, k, sc, "endless", g)
    BY TreeIff, BothSpans
  <2>2. WellFormed(g, NestedTo[k - 1]) /\ (k = 0 => g.kind \in Childless)
    BY <2>1, NestedShape
  <2>3. k # 0 => \A f \in Scopes : T[k - 1][f]["endless"] \subseteq T[k - 1][f]["any"]
    <3>1. k # 0 => k - 1 \in 0 .. (k - 1)
      OBVIOUS
    <3> QED BY <1>1, <3>1
  <2>4. \A q : Members(T, k, sc, "endless", q) => Members(T, k, sc, "any", q)
    BY DEF Members
  <2>5. Filters \subseteq Scopes
    BY DEF Scopes
  <2>6. Fits(sort, T, k, sc, "any", g)
    <3> HIDE DEF T
    <3> QED BY <2>1, <2>2, <2>3, <2>4, <2>5 DEF Fits, WellFormed, Kinds, Childless
  <2> QED BY <2>1, <2>6, TreeIff, BothSpans
<1>2. Nat \subseteq P
  <2> HIDE DEF P
  <2> QED BY <1>1, StrongInduction
<1> QED BY <1>2

\* What fits a size fits the next one,
LEMMA TreesGrow ==
  ASSUME NEW sort, NEW n \in Nat, NEW scope \in Scopes, NEW span \in Spans
  PROVE  Trees(sort)[n][scope][span] \subseteq Trees(sort)[n + 1][scope][span]
<1> DEFINE T == Trees(sort)
           P == {k \in Nat : \A sc \in Scopes, e \in Spans : T[k][sc][e] \subseteq T[k + 1][sc][e]}
<1>1. ASSUME NEW k \in Nat, \A m \in 0 .. (k - 1) : m \in P PROVE k \in P
  <2> SUFFICES ASSUME NEW sc \in Scopes, NEW e \in Spans, NEW g \in T[k][sc][e]
               PROVE  g \in T[k + 1][sc][e]
    OBVIOUS
  <2>1. g \in NestedTo[k] /\ Fits(sort, T, k, sc, e, g)
    BY TreeIff
  <2>2. WellFormed(g, NestedTo[k - 1]) /\ (k = 0 => g.kind \in Childless)
    BY <2>1, NestedShape
  <2>3. ASSUME NEW i \in 0 .. (k - 1), NEW f \in Scopes, NEW d \in Spans
        PROVE  T[i][f][d] \subseteq T[i + 1][f][d]
    BY <1>1, <2>3
  <2>4. k # 0 => \A f \in Scopes, d \in Spans : T[k - 1][f][d] \subseteq T[k][f][d]
    <3>1. k # 0 => k - 1 \in 0 .. (k - 1) /\ k - 1 + 1 = k
      OBVIOUS
    <3> HIDE DEF T
    <3> QED BY <2>3, <3>1
  <2>5. ASSUME NEW q \in Seq(NestedTo[k - 1]), NEW d, k # 0, Members(T, k, sc, d, q)
        PROVE  Members(T, k + 1, sc, d, q)
    <3>1. Len(q) \in Nat /\ Len(q) <= k
      BY <2>5 DEF Members
    <3>2. 1 <= Len(q) => k - Len(q) \in 0 .. (k - 1) /\ (k - Len(q)) + 1 = k + 1 - Len(q)
      BY <3>1
    <3>3. 1 <= Len(q) => \A c \in Spans : T[k - Len(q)][sc][c] \subseteq T[k + 1 - Len(q)][sc][c]
      <4> HIDE DEF T
      <4> QED BY <2>3, <3>2
    <3>4. sc \in Scopes /\ "endless" \in Spans /\ "any" \in Spans
      BY BothSpans
    <3> HIDE DEF T
    <3>5. CASE Len(q) = 0
      <4>1. \A i : i \notin 1 .. Len(q)
        BY <3>5
      <4>2. Len(q) <= k + 1
        BY <3>1
      <4>3. d # "endless"
        BY <2>5, <4>1 DEF Members
      <4> QED BY <4>1, <4>2, <4>3 DEF Members
    <3>6. CASE 1 <= Len(q)
      <4> DEFINE S(c) == T[k - Len(q)][sc][c]
                 R(c) == T[k + 1 - Len(q)][sc][c]
      <4>1. S("endless") \subseteq R("endless") /\ S("any") \subseteq R("any")
        BY <3>3, <3>4, <3>6
      <4>2. /\ \A i \in 1 .. Len(q) : q[i] \in S("any")
            /\ d = "endless" => \E i \in 1 .. Len(q) : q[i] \in S("endless")
        BY <2>5 DEF Members
      <4>3. /\ \A i \in 1 .. Len(q) : q[i] \in R("any")
            /\ d = "endless" => \E i \in 1 .. Len(q) : q[i] \in R("endless")
        <5> HIDE DEF S, R
        <5> QED BY <4>1, <4>2
      <4>4. Len(q) <= k + 1
        BY <3>1
      <4> QED BY <4>3, <4>4 DEF Members
    <3> QED BY <3>1, <3>5, <3>6
  <2>6. Filters \subseteq Scopes /\ k + 1 - 1 = k
    BY DEF Scopes
  <2>8. Fits(sort, T, k + 1, sc, e, g)
    <3> HIDE DEF T
    <3>1. CASE g.kind \in Childless
      BY <2>1, <3>1 DEF Fits, Childless
    <3>2. CASE g.kind \in {"list", "any"}
      BY <2>1, <2>2, <2>5, <3>2 DEF Fits, WellFormed, Childless
    <3>3. CASE g.kind = "mix"
      BY <2>1, <2>2, <2>5, <3>3 DEF Fits, WellFormed, Childless
    <3>4. CASE g.kind \in {"validate", "onThreads", "timeLimit", "stagger"}
      <4>1. k # 0 /\ k + 1 - 1 = k
        BY <2>2, <3>4 DEF Childless
      <4>2. \A f \in Scopes : \A h : h \in T[k - 1][f][e] => h \in T[k + 1 - 1][f][e]
        BY <2>4, <4>1
      <4>3. g.kind = "onThreads" => g.filter \in Scopes
        BY <2>2, <2>6 DEF WellFormed
      <4>4. CASE g.kind = "validate"
        BY <2>1, <4>2, <4>4 DEF Fits
      <4>5. CASE g.kind = "onThreads"
        BY <2>1, <4>2, <4>3, <4>5 DEF Fits
      <4>6. CASE g.kind = "timeLimit"
        <5>1. e = "any"
          BY <2>1, <4>6 DEF Fits
        <5> QED BY <2>1, <4>2, <4>6, <5>1 DEF Fits
      <4>7. CASE g.kind = "stagger"
        BY <2>1, <4>2, <4>7 DEF Fits
      <4> QED BY <3>4, <4>4, <4>5, <4>6, <4>7
    <3> QED BY <2>2, <3>1, <3>2, <3>3, <3>4 DEF WellFormed, Kinds, Childless
  <2>9. g \in NestedTo[k + 1]
    BY <2>1, NestedGrows
  <2> QED BY <2>8, <2>9, TreeIff
<1>2. Nat \subseteq P
  <2> HIDE DEF P
  <2> QED BY <1>1, StrongInduction
<1> QED BY <1>2

\* and every larger one.
LEMMA TreesMonotone ==
  ASSUME NEW sort, NEW m \in Nat, NEW n \in Nat, m <= n, NEW scope \in Scopes, NEW span \in Spans
  PROVE  Trees(sort)[m][scope][span] \subseteq Trees(sort)[n][scope][span]
<1> DEFINE P == {k \in Nat : Trees(sort)[m][scope][span] \subseteq Trees(sort)[m + k][scope][span]}
<1>1. 0 \in P
  OBVIOUS
<1>2. ASSUME NEW k \in Nat, k \in P PROVE k + 1 \in P
  <2>1. /\ Trees(sort)[m + k][scope][span] \subseteq Trees(sort)[m + k + 1][scope][span]
        /\ m + k + 1 = m + (k + 1)
    BY TreesGrow
  <2> QED BY <1>2, <2>1
<1>3. Nat \subseteq P
  <2> HIDE DEF P
  <2> QED BY <1>1, <1>2, Induction
<1>4. n - m \in Nat /\ m + (n - m) = n
  OBVIOUS
<1> QED BY <1>3, <1>4

\* What is known of a tree.
LEMMA TreeElim ==
  ASSUME NEW sort, NEW n \in Nat, NEW scope \in Scopes, NEW span \in Spans,
         NEW g \in Trees(sort)[n][scope][span]
  PROVE  /\ WellFormed(g, NestedTo[n - 1]) /\ g \in NestedTo[n]
         /\ n = 0 => g.kind \in Childless
         /\ Fits(sort, Trees(sort), n, scope, span, g)
BY TreeIff, NestedShape

\* Making a tree of a smaller one.
LEMMA WrapTree ==
  ASSUME NEW sort, IsSort(sort), NEW n \in Nat, n # 0, NEW scope \in Scopes, NEW span \in Spans,
         NEW g \in Trees(sort)[n - 1][scope][span]
  PROVE  /\ Validate(g) \in Trees(sort)[n][scope][span]
         /\ \A d \in sort.dts, t \in sort.times : Stagger(d, t, g) \in Trees(sort)[n][scope][span]
         /\ span = "any" => \A l, c \in Int : TimeLimit(l, c, g) \in Trees(sort)[n][scope][span]
<1>1. n - 1 \in Nat /\ NestedTo[n] = NodesOver(NestedTo[n - 1])
  BY NestedValue
<1>2. g \in NestedTo[n - 1]
  BY <1>1, TreeElim
<1>3. Validate(g) \in Trees(sort)[n][scope][span]
  <2>1. Fits(sort, Trees(sort), n, scope, span, Validate(g))
    BY DEF Fits, Validate
  <2> QED BY <1>1, <1>2, <2>1, Nodes, TreeIff
<1>4. ASSUME NEW d \in sort.dts, NEW t \in sort.times
      PROVE  Stagger(d, t, g) \in Trees(sort)[n][scope][span]
  <2>1. Fits(sort, Trees(sort), n, scope, span, Stagger(d, t, g))
    BY <1>4 DEF Fits, Stagger
  <2>2. d \in Int /\ t \in Int
    BY <1>4 DEF IsSort
  <2> QED BY <1>1, <1>2, <2>1, <2>2, Nodes, TreeIff
<1>5. ASSUME span = "any", NEW l \in Int, NEW c \in Int
      PROVE  TimeLimit(l, c, g) \in Trees(sort)[n][scope][span]
  <2>1. Fits(sort, Trees(sort), n, scope, span, TimeLimit(l, c, g))
    BY <1>5 DEF Fits, TimeLimit
  <2> QED BY <1>1, <1>2, <2>1, Nodes, TreeIff
<1> QED BY <1>3, <1>4, <1>5

\* The same for a generator under a filter.
LEMMA FilterTree ==
  ASSUME NEW sort, NEW n \in Nat, n # 0, NEW scope \in Scopes, NEW span \in Spans,
         NEW f \in Filters, scope \in {"all", f}, NEW g \in Trees(sort)[n - 1][f][span]
  PROVE  OnThreads(f, g) \in Trees(sort)[n][scope][span]
<1>1. n - 1 \in Nat /\ NestedTo[n] = NodesOver(NestedTo[n - 1])
  BY NestedValue
<1>2. f \in Scopes
  BY DEF Scopes
<1>3. g \in NestedTo[n - 1]
  BY <1>1, <1>2, TreeElim
<1>4. Fits(sort, Trees(sort), n, scope, span, OnThreads(f, g))
  BY DEF Fits, OnThreads
<1> QED BY <1>1, <1>3, <1>4, Nodes, TreeIff

\* The generator that has ended is a tree of every size, but no endless one.
LEMMA NullTree ==
  ASSUME NEW sort, NEW n \in Nat, NEW scope \in Scopes
  PROVE  Null \in Trees(sort)[n][scope]["any"] /\ Null \notin Trees(sort)[n][scope]["endless"]
<1>1. Null \in NestedTo[n]
  BY NestedValue, Nodes
<1>2. Fits(sort, Trees(sort), n, scope, "any", Null)
  BY DEF Fits, Null
<1>3. ~Fits(sort, Trees(sort), n, scope, "endless", Null)
  BY DEF Fits, Null
<1> QED BY <1>1, <1>2, <1>3, TreeIff, BothSpans

\* A list, an any or a mix of trees is a tree.
LEMMA ListTree ==
  ASSUME NEW sort, NEW n \in Nat, n # 0, NEW scope \in Scopes, NEW span \in Spans,
         NEW q, MemberSeq(sort, n, scope, span, q)
  PROVE  /\ List(q) \in Trees(sort)[n][scope][span]
         /\ Any(q) \in Trees(sort)[n][scope][span]
         /\ \A i \in 1 .. Len(q) : MemberSeq(sort, n, scope, sort.mixes, q) =>
                                     Mix(i, q) \in Trees(sort)[n][scope][span]
<1>1. n - 1 \in Nat /\ NestedTo[n] = NodesOver(NestedTo[n - 1])
  BY NestedValue
<1>2. q \in Seq(NestedTo[n - 1]) /\ Members(Trees(sort), n, scope, span, q)
  BY DEF MemberSeq
<1>3. List(q) \in Trees(sort)[n][scope][span]
  <2>1. Fits(sort, Trees(sort), n, scope, span, List(q))
    BY <1>2 DEF Fits, List
  <2> QED BY <1>1, <1>2, <2>1, Nodes, TreeIff
<1>4. Any(q) \in Trees(sort)[n][scope][span]
  <2>1. Fits(sort, Trees(sort), n, scope, span, Any(q))
    BY <1>2 DEF Fits, Any
  <2> QED BY <1>1, <1>2, <2>1, Nodes, TreeIff
<1>5. ASSUME NEW i \in 1 .. Len(q), MemberSeq(sort, n, scope, sort.mixes, q)
      PROVE  Mix(i, q) \in Trees(sort)[n][scope][span]
  <2>1. Fits(sort, Trees(sort), n, scope, span, Mix(i, q))
    BY <1>2, <1>5 DEF Fits, Mix, MemberSeq
  <2>2. i \in Nat
    OBVIOUS
  <2> QED BY <1>1, <1>2, <2>1, <2>2, Nodes, TreeIff
<1> QED BY <1>3, <1>4, <1>5

\* The members of a list are smaller trees.
LEMMA MemberTree ==
  ASSUME NEW sort, NEW n \in Nat, NEW scope \in Scopes, NEW span, NEW q,
         MemberSeq(sort, n, scope, span, q), NEW i \in 1 .. Len(q)
  PROVE  /\ n # 0 /\ Len(q) \in 1 .. n /\ n - Len(q) \in 0 .. (n - 1)
         /\ q[i] \in Trees(sort)[n - Len(q)][scope]["any"]
<1>1. Len(q) \in Nat
  BY DEF MemberSeq
<1> QED BY <1>1 DEF MemberSeq, Members

\* Other members of the same size.
LEMMA SameMembers ==
  ASSUME NEW sort, NEW n \in Nat, NEW scope \in Scopes, NEW span, NEW q,
         MemberSeq(sort, n, scope, span, q), NEW r, DOMAIN r = 1 .. Len(q), r = [i \in 1 .. Len(q) |-> r[i]],
         \A i \in 1 .. Len(q) :
           /\ r[i] \in Trees(sort)[n - Len(q)][scope]["any"]
           /\ span = "endless" /\ q[i] \in Trees(sort)[n - Len(q)][scope]["endless"] =>
                r[i] \in Trees(sort)[n - Len(q)][scope]["endless"]
  PROVE  MemberSeq(sort, n, scope, span, r) /\ Len(r) = Len(q)
<1>1. Len(q) \in Nat /\ Len(q) <= n
  BY DEF MemberSeq, Members
<1>2. ASSUME NEW i \in 1 .. Len(q) PROVE r[i] \in NestedTo[n - 1]
  <2>1. n - Len(q) \in Nat /\ n - Len(q) <= n - 1 /\ n - 1 \in Nat
    BY <1>1
  <2>2. r[i] \in NestedTo[n - Len(q)]
    BY <2>1, TreeElim, BothSpans
  <2> QED BY <2>1, <2>2, NestedMonotone
<1>3. r \in Seq(NestedTo[n - 1]) /\ Len(r) = Len(q)
  <2>1. r \in [1 .. Len(q) -> NestedTo[n - 1]]
    BY <1>2
  <2> QED BY <1>1, <2>1
<1>4. Members(Trees(sort), n, scope, span, r)
  <2>1. \A i \in 1 .. Len(r) : r[i] \in Trees(sort)[n - Len(r)][scope]["any"]
    BY <1>3
  <2>2. ASSUME span = "endless"
        PROVE  \E i \in 1 .. Len(r) : r[i] \in Trees(sort)[n - Len(r)][scope]["endless"]
    <3>1. PICK i \in 1 .. Len(q) : q[i] \in Trees(sort)[n - Len(q)][scope]["endless"]
      BY <2>2 DEF MemberSeq, Members
    <3> QED BY <1>3, <2>2, <3>1
  <2> QED BY <1>1, <1>3, <2>1, <2>2 DEF Members
<1> QED BY <1>3, <1>4 DEF MemberSeq

\* Without one of its members, and not without its only endless one, a list is
\* a smaller tree.
LEMMA FewerMembers ==
  ASSUME NEW sort, NEW n \in Nat, NEW scope \in Scopes, NEW span, NEW q,
         MemberSeq(sort, n, scope, span, q), NEW i \in 1 .. Len(q),
         span = "endless" => q[i] \notin Trees(sort)[n - Len(q)][scope]["endless"]
  PROVE  MemberSeq(sort, n - 1, scope, span, Without(q, i)) /\ Len(Without(q, i)) = Len(q) - 1
<1> DEFINE r == Without(q, i)
<1>1. Len(q) \in Nat /\ Len(q) <= n /\ Len(q) - 1 \in Nat /\ n - 1 \in Nat
  BY DEF MemberSeq, Members
<1>2. /\ r = [j \in 1 .. (Len(q) - 1) |-> r[j]]
      /\ \A j \in 1 .. (Len(q) - 1) : r[j] = q[IF j < i THEN j ELSE j + 1]
  BY DEF Without
<1>3. \A j \in 1 .. (Len(q) - 1) : (IF j < i THEN j ELSE j + 1) \in 1 .. Len(q)
  BY <1>1
<1> HIDE DEF r
<1>4. \A j \in 1 .. (Len(q) - 1) : r[j] \in Trees(sort)[n - Len(q)][scope]["any"]
  BY <1>2, <1>3 DEF MemberSeq, Members
<1>5. ASSUME NEW j \in 1 .. (Len(q) - 1) PROVE r[j] \in NestedTo[(n - 1) - 1]
  <2>1. n - Len(q) \in Nat /\ n - Len(q) <= (n - 1) - 1 /\ (n - 1) - 1 \in Nat
    BY <1>1
  <2>2. r[j] \in NestedTo[n - Len(q)]
    BY <1>4, <2>1, TreeElim, BothSpans
  <2> QED BY <2>1, <2>2, NestedMonotone
<1>6. r \in Seq(NestedTo[(n - 1) - 1]) /\ Len(r) = Len(q) - 1
  <2>1. r \in [1 .. (Len(q) - 1) -> NestedTo[(n - 1) - 1]]
    BY <1>2, <1>5
  <2> QED BY <1>1, <2>1
<1>7. (n - 1) - Len(r) = n - Len(q)
  BY <1>1, <1>6
<1>8. Members(Trees(sort), n - 1, scope, span, r)
  <2>1. \A j \in 1 .. Len(r) : r[j] \in Trees(sort)[(n - 1) - Len(r)][scope]["any"]
    BY <1>4, <1>6, <1>7
  <2>2. ASSUME span = "endless"
        PROVE  \E j \in 1 .. Len(r) : r[j] \in Trees(sort)[(n - 1) - Len(r)][scope]["endless"]
    <3>1. PICK k \in 1 .. Len(q) : q[k] \in Trees(sort)[n - Len(q)][scope]["endless"]
      BY <2>2 DEF MemberSeq, Members
    <3>2. k # i
      BY <2>2, <3>1
    <3>3. PICK j \in 1 .. (Len(q) - 1) : k = IF j < i THEN j ELSE j + 1
      <4>1. CASE k < i
        <5>1. k \in 1 .. (Len(q) - 1)
          BY <1>1, <4>1
        <5> QED BY <4>1, <5>1
      <4>2. CASE k > i
        <5>1. k - 1 \in 1 .. (Len(q) - 1) /\ ~(k - 1 < i) /\ k = (k - 1) + 1
          BY <1>1, <4>2
        <5> QED BY <5>1
      <4> QED BY <3>2, <4>1, <4>2
    <3> QED BY <1>2, <1>6, <1>7, <3>1, <3>3
  <2> QED BY <1>1, <1>6, <2>1, <2>2 DEF Members
<1> QED BY <1>6, <1>8 DEF MemberSeq, r

-----------------------------------------------------------------------------
(***************************************************************************)
(* copyOne and update stay in the sort.                                    *)
(***************************************************************************)

\* The trees of a size up to Size are generators.
LEMMA TreeIsGenerator ==
  ASSUME NEW sort, NEW n \in Nat, n <= Size, NEW scope \in Scopes, NEW span \in Spans
  PROVE  Trees(sort)[n][scope][span] \subseteq Generators
BY TreeElim, NestedMonotone, SizeAssumption DEF Generators

\* The trees of each kind, by their parts.
LEMMA TreeParts ==
  ASSUME NEW sort, NEW n \in Nat, NEW scope \in Scopes, NEW span \in Spans,
         NEW g \in Trees(sort)[n][scope][span], g.kind \notin Childless
  PROVE  /\ n # 0 /\ n - 1 \in 0 .. (n - 1)
         /\ g.kind = "validate" => g = Validate(g.gen) /\ g.gen \in Trees(sort)[n - 1][scope][span]
         /\ g.kind = "onThreads" =>
              /\ g = OnThreads(g.filter, g.gen)
              /\ g.filter \in Filters /\ g.filter \in Scopes /\ scope \in {"all", g.filter}
              /\ g.gen \in Trees(sort)[n - 1][g.filter][span]
         /\ g.kind = "timeLimit" =>
              /\ g = TimeLimit(g.limit, g.cutoff, g.gen) /\ g.limit \in Int /\ g.cutoff \in Int
              /\ span = "any" /\ g.gen \in Trees(sort)[n - 1][scope][span]
         /\ g.kind = "stagger" =>
              /\ g = Stagger(g.dt, g.next_time, g.gen) /\ g.dt \in sort.dts
              /\ g.next_time \in sort.times
              /\ g.gen \in Trees(sort)[n - 1][scope][span]
         /\ g.kind = "list" => g = List(g.gens) /\ MemberSeq(sort, n, scope, span, g.gens)
         /\ g.kind = "any" => g = Any(g.gens) /\ MemberSeq(sort, n, scope, span, g.gens)
         /\ g.kind = "mix" => /\ g = Mix(g.idx, g.gens) /\ MemberSeq(sort, n, scope, span, g.gens)
                              /\ g.idx \in 1 .. Len(g.gens)
                              /\ MemberSeq(sort, n, scope, sort.mixes, g.gens)
         /\ g.kind \in {"list", "any", "mix", "validate", "onThreads", "timeLimit", "stagger"}
<1>1. /\ WellFormed(g, NestedTo[n - 1]) /\ n # 0
      /\ Fits(sort, Trees(sort), n, scope, span, g)
  BY TreeElim
<1>2. n - 1 \in 0 .. (n - 1)
  BY <1>1
<1>3. Filters \subseteq Scopes
  BY DEF Scopes
<1> QED BY <1>1, <1>2, <1>3 DEF WellFormed, Fits, Kinds, Childless, MemberSeq

\* The images of the members are such members.
LEMMA KeptMembers ==
  ASSUME NEW sort, NEW n \in Nat, NEW scope \in Scopes, NEW span, NEW q,
         MemberSeq(sort, n, scope, span, q), NEW f, Keeps(f, sort, n)
  PROVE  MemberSeq(sort, n, scope, span, Mapped(f, q)) /\ Len(Mapped(f, q)) = Len(q)
<1>1. DOMAIN q = 1 .. Len(q) /\ DOMAIN Mapped(f, q) = 1 .. Len(q)
  BY DEF MemberSeq, Mapped
<1>2. /\ Mapped(f, q) = [i \in 1 .. Len(q) |-> Mapped(f, q)[i]]
      /\ \A i \in 1 .. Len(q) : Mapped(f, q)[i] = f[q[i]]
  BY <1>1 DEF Mapped
<1>3. ASSUME NEW i \in 1 .. Len(q)
      PROVE  /\ Mapped(f, q)[i] \in Trees(sort)[n - Len(q)][scope]["any"]
             /\ q[i] \in Trees(sort)[n - Len(q)][scope]["endless"] =>
                  Mapped(f, q)[i] \in Trees(sort)[n - Len(q)][scope]["endless"]
  <2>1. n - Len(q) \in 0 .. (n - 1) /\ q[i] \in Trees(sort)[n - Len(q)][scope]["any"]
    BY MemberTree
  <2> DEFINE k == n - Len(q)
  <2>2. \A sp \in Spans : q[i] \in Trees(sort)[n - Len(q)][scope][sp] =>
                              f[q[i]] \in Trees(sort)[n - Len(q)][scope][sp]
    <3>1. k \in 0 .. (n - 1)
      BY <2>1
    <3> HIDE DEF k
    <3>2. \A sp \in Spans : q[i] \in Trees(sort)[k][scope][sp] => f[q[i]] \in Trees(sort)[k][scope][sp]
      BY <3>1 DEF Keeps
    <3> QED BY <3>2 DEF k
  <2>3. Mapped(f, q)[i] = f[q[i]]
    BY <1>2
  <2> QED BY <2>1, <2>2, <2>3, BothSpans
<1> QED BY <1>1, <1>2, <1>3, SameMembers, SMTT(30)

\* One by one.
LEMMA MappedMember ==
  ASSUME NEW sort, NEW n, NEW scope, NEW span, NEW q, MemberSeq(sort, n, scope, span, q), NEW f,
         NEW i \in 1 .. Len(q)
  PROVE  Mapped(f, q)[i] = f[q[i]]
<1>1. DOMAIN q = 1 .. Len(q)
  BY DEF MemberSeq
<1> QED BY <1>1 DEF Mapped

\* A copyOne that keeps the smaller generators of a sort in it keeps the next
\* ones: of each class the copy is of the same sort and span.
LEMMA CopyStep ==
  ASSUME NEW sort, IsSort(sort), NEW n \in Nat, n <= Size, NEW copy, Keeps(copy, sort, n),
         NEW scope \in Scopes, NEW span \in Spans, NEW g \in Trees(sort)[n][scope][span]
  PROVE  CopyOver(copy)[g] \in Trees(sort)[n][scope][span]
<1>1. g \in Generators
  BY TreeIsGenerator
<1>2. WellFormed(g, NestedTo[n - 1])
  BY TreeElim
<1>3. CASE g.kind \in Childless
  BY <1>1, <1>3 DEF CopyOver, Childless
<1>4. CASE g.kind \notin Childless
  <2>1. n # 0 /\ n - 1 \in 0 .. (n - 1)
    BY <1>4, TreeParts
  <2>2. ASSUME NEW sc \in Scopes, NEW h \in Trees(sort)[n - 1][sc][span]
        PROVE  copy[h] \in Trees(sort)[n - 1][sc][span]
    BY <2>1 DEF Keeps
  <2>3. CASE g.kind = "validate"
    <3>1. g.gen \in Trees(sort)[n - 1][scope][span]
      BY <1>4, <2>3, TreeParts
    <3>2. CopyOver(copy)[g] = Validate(copy[g.gen])
      BY <1>1, <2>3 DEF CopyOver, CopyValidate
    <3> QED BY <2>1, <2>2, <3>1, <3>2, WrapTree
  <2>4. CASE g.kind = "onThreads"
    <3>1. /\ g.filter \in Filters /\ g.filter \in Scopes /\ scope \in {"all", g.filter}
          /\ g.gen \in Trees(sort)[n - 1][g.filter][span]
      BY <1>4, <2>4, TreeParts
    <3>2. CopyOver(copy)[g] = OnThreads(g.filter, copy[g.gen])
      BY <1>1, <2>4 DEF CopyOver, CopyOnThreads
    <3> QED BY <2>1, <2>2, <3>1, <3>2, FilterTree
  <2>5. CASE g.kind = "timeLimit"
    <3>1. g.limit \in Int /\ g.cutoff \in Int /\ span = "any" /\ g.gen \in Trees(sort)[n - 1][scope][span]
      BY <1>4, <2>5, TreeParts
    <3>2. CopyOver(copy)[g] = IF g.gen = Null THEN Null ELSE TimeLimit(g.limit, g.cutoff, copy[g.gen])
      BY <1>1, <2>5 DEF CopyOver, CopyTimeLimit
    <3>3. TimeLimit(g.limit, g.cutoff, copy[g.gen]) \in Trees(sort)[n][scope][span]
      BY <2>1, <2>2, <3>1, WrapTree
    <3> QED BY <3>1, <3>2, <3>3, NullTree
  <2>6. CASE g.kind = "stagger"
    <3>1. g.dt \in sort.dts /\ g.gen \in Trees(sort)[n - 1][scope][span]
      BY <1>4, <2>6, TreeParts
    <3>2. CopyOver(copy)[g] = IF g.gen = Null THEN Null ELSE Stagger(g.dt, kInvalidTime, copy[g.gen])
      BY <1>1, <2>6 DEF CopyOver, CopyStagger, StaggerFrom
    <3>3. g.gen = Null => span = "any"
      BY <2>1, <3>1, NullTree DEF Spans
    <3>4. Stagger(g.dt, kInvalidTime, copy[g.gen]) \in Trees(sort)[n][scope][span]
      BY <2>1, <2>2, <3>1, WrapTree DEF IsSort
    <3> QED BY <3>2, <3>3, <3>4, NullTree
  <2>7. CASE g.kind = "list"
    <3>1. MemberSeq(sort, n, scope, span, g.gens)
      BY <1>4, <2>7, TreeParts
    <3>2. CopyOver(copy)[g] = List(Mapped(copy, g.gens))
      BY <1>1, <2>7 DEF CopyOver, CopyList, Mapped
    <3> QED BY <2>1, <3>1, <3>2, KeptMembers, ListTree
  <2>8. CASE g.kind = "any"
    <3>1. MemberSeq(sort, n, scope, span, g.gens)
      BY <1>4, <2>8, TreeParts
    <3>2. CopyOver(copy)[g] = Any(Mapped(copy, g.gens))
      BY <1>1, <2>8 DEF CopyOver, CopyAny, Mapped
    <3>3. MemberSeq(sort, n, scope, span, Mapped(copy, g.gens))
      BY <3>1, KeptMembers
    <3> QED BY <2>1, <3>2, <3>3, ListTree
  <2>9. CASE g.kind = "mix"
    <3>1. g = Mix(g.idx, g.gens)
      BY <1>4, <2>9, TreeParts
    <3>2. CopyOver(copy)[g] = Mix(g.idx, g.gens)
      BY <1>1, <2>9 DEF CopyOver, CopyMix
    <3> QED BY <3>1, <3>2
  <2> QED BY <1>4, <2>3, <2>4, <2>5, <2>6, <2>7, <2>8, <2>9, TreeParts
<1> QED BY <1>3, <1>4

\* Copies are of the sort of the original, for every depth of the recursion.
LEMMA CopyKeeps ==
  ASSUME NEW sort, IsSort(sort), NEW m \in Nat, m <= Size
  PROVE  Keeps(CopyAt[m], sort, m + 1)
<1> DEFINE P == {k \in Nat : k <= Size => Keeps(CopyAt[k], sort, k + 1)}
<1>1. 0 \in P
  <2>1. CopyAt[0] = CopyOver(<<>>)
    BY CopyValue
  <2>2. Keeps(<<>>, sort, 0)
    BY DEF Keeps
  <2>3. ASSUME NEW k \in 0 .. (0 + 1 - 1) PROVE k = 0
    OBVIOUS
  <2>4. 0 <= Size
    BY SizeAssumption
  <2>5. Keeps(CopyAt[0], sort, 0 + 1)
    BY <2>1, <2>2, <2>3, <2>4, CopyStep DEF Keeps
  <2> QED BY <2>5
<1>2. ASSUME NEW k \in Nat, k \in P PROVE k + 1 \in P
  <2> SUFFICES ASSUME k + 1 <= Size PROVE Keeps(CopyAt[k + 1], sort, (k + 1) + 1)
    OBVIOUS
  <2>1. CopyAt[k + 1] = CopyOver(CopyAt[k])
    <3>1. k + 1 \in Nat /\ k + 1 # 0 /\ (k + 1) - 1 = k
      OBVIOUS
    <3> QED BY <3>1, CopyValue
  <2>2. Keeps(CopyAt[k], sort, k + 1)
    <3>1. k <= Size
      BY SizeAssumption
    <3> QED BY <1>2, <3>1
  <2>3. ASSUME NEW j \in 0 .. (k + 1) PROVE Keeps(CopyAt[k], sort, j)
    BY <2>2 DEF Keeps
  <2>4. \A j \in 0 .. (k + 1) : j \in Nat /\ j <= Size
    BY SizeAssumption
  <2>5. 0 .. (((k + 1) + 1) - 1) = 0 .. (k + 1)
    OBVIOUS
  <2> QED BY <2>1, <2>3, <2>4, <2>5, CopyStep DEF Keeps
<1>3. Nat \subseteq P
  <2> HIDE DEF P
  <2> QED BY <1>1, <1>2, Induction
<1> QED BY <1>3

\* Members of any span are members.
LEMMA AnyMembers ==
  ASSUME NEW sort, NEW n, NEW scope, NEW span, NEW q, MemberSeq(sort, n, scope, span, q)
  PROVE  MemberSeq(sort, n, scope, "any", q)
BY DEF MemberSeq, Members

\* A member may be replaced by a tree of the same size, an endless one by an
\* endless one.
LEMMA ReplacedMember ==
  ASSUME NEW sort, NEW n \in Nat, NEW scope \in Scopes, NEW span, NEW q,
         MemberSeq(sort, n, scope, span, q), NEW i \in 1 .. Len(q),
         NEW x \in Trees(sort)[n - Len(q)][scope]["any"],
         span = "endless" /\ q[i] \in Trees(sort)[n - Len(q)][scope]["endless"] =>
           x \in Trees(sort)[n - Len(q)][scope]["endless"]
  PROVE  MemberSeq(sort, n, scope, span, [q EXCEPT ![i] = x]) /\ Len([q EXCEPT ![i] = x]) = Len(q)
<1> DEFINE r == [q EXCEPT ![i] = x]
<1>1. DOMAIN q = 1 .. Len(q)
  BY DEF MemberSeq
<1>2. DOMAIN r = 1 .. Len(q) /\ r = [j \in 1 .. Len(q) |-> r[j]]
  BY <1>1
<1>3. \A j \in 1 .. Len(q) : r[j] = IF j = i THEN x ELSE q[j]
  BY <1>1
<1>4. \A j \in 1 .. Len(q) : q[j] \in Trees(sort)[n - Len(q)][scope]["any"]
  BY DEF MemberSeq, Members
<1> HIDE DEF r
<1>5. \A j \in 1 .. Len(q) :
        /\ r[j] \in Trees(sort)[n - Len(q)][scope]["any"]
        /\ span = "endless" /\ q[j] \in Trees(sort)[n - Len(q)][scope]["endless"] =>
             r[j] \in Trees(sort)[n - Len(q)][scope]["endless"]
  BY <1>3, <1>4
<1>6. MemberSeq(sort, n, scope, span, r) /\ Len(r) = Len(q)
  BY <1>2, <1>5, SameMembers
<1> QED BY <1>6 DEF r

\* What copyOne makes of a list, and of all the members of a list.
LEMMA CopyOfList ==
  ASSUME NEW sort, IsSort(sort), NEW n \in Nat, n <= Size, NEW scope \in Scopes, NEW span \in Spans,
         NEW q, MemberSeq(sort, n, scope, span, q), n # 0
  PROVE  \E c : /\ CopyOne(List(q)) = List(c) /\ CopyOne(Any(q)) = Any(c)
                /\ MemberSeq(sort, n, scope, span, c) /\ Len(c) = Len(q)
                /\ \A i \in 1 .. Len(q), sp \in Spans :
                     q[i] \in Trees(sort)[n - Len(q)][scope][sp] =>
                       c[i] \in Trees(sort)[n - Len(q)][scope][sp]
<1> DEFINE copy == CopyAt[Size - 1]
           c == Mapped(copy, q)
<1>1. Size - 1 \in Nat /\ Size # 0 /\ Size \in Nat /\ n - 1 \in 0 .. Size - 1
  BY SizeAssumption
<1>2. CopyAt[Size] = CopyOver(copy)
  BY <1>1, CopyValue
<1>3. Keeps(copy, sort, n)
  <2>1. Keeps(copy, sort, (Size - 1) + 1)
    BY <1>1, CopyKeeps
  <2>2. \A k \in 0 .. (n - 1) : k \in 0 .. (((Size - 1) + 1) - 1)
    BY <1>1
  <2> HIDE DEF copy
  <2>3. \A k \in 0 .. (((Size - 1) + 1) - 1), sc \in Scopes, sp \in Spans :
          \A g \in Trees(sort)[k][sc][sp] : copy[g] \in Trees(sort)[k][sc][sp]
    BY <2>1 DEF Keeps
  <2>4. ASSUME NEW k \in 0 .. (n - 1)
        PROVE  \A sc \in Scopes, sp \in Spans :
                 \A g \in Trees(sort)[k][sc][sp] : copy[g] \in Trees(sort)[k][sc][sp]
    BY <2>2, <2>3
  <2> QED BY <2>4 DEF Keeps
<1> HIDE DEF copy
<1>4. List(q) \in Generators /\ Any(q) \in Generators
  <2>1. Trees(sort)[n][scope][span] \subseteq Generators
    BY TreeIsGenerator
  <2>2. List(q) \in Trees(sort)[n][scope][span] /\ Any(q) \in Trees(sort)[n][scope][span]
    BY ListTree
  <2> QED BY <2>1, <2>2
<1>5. CopyOver(copy)[List(q)] = List(c)
  BY <1>4 DEF CopyOver, CopyList, List, Mapped
<1>6. CopyOver(copy)[Any(q)] = Any(c)
  BY <1>4 DEF CopyOver, CopyAny, Any, Mapped
<1>7. /\ MemberSeq(sort, n, scope, span, c) /\ Len(c) = Len(q)
      /\ \A i \in 1 .. Len(q) : c[i] = copy[q[i]]
  <2>1. MemberSeq(sort, n, scope, span, c) /\ Len(c) = Len(q)
    BY <1>3, KeptMembers
  <2>2. ASSUME NEW i \in 1 .. Len(q) PROVE c[i] = copy[q[i]]
    BY MappedMember
  <2> QED BY <2>1, <2>2
<1> HIDE DEF c
<1>8. ASSUME NEW i \in 1 .. Len(q), NEW sp \in Spans, q[i] \in Trees(sort)[n - Len(q)][scope][sp]
      PROVE  c[i] \in Trees(sort)[n - Len(q)][scope][sp]
  <2>1. n - Len(q) \in 0 .. (n - 1)
    BY MemberTree
  <2> QED BY <1>3, <1>7, <1>8, <2>1 DEF Keeps
<1>9. CopyOne(List(q)) = List(c) /\ CopyOne(Any(q)) = Any(c)
  BY <1>2, <1>5, <1>6 DEF CopyOne
<1> QED BY <1>7, <1>8, <1>9

\* copyOne keeps a generator in its sort, size and span.
LEMMA CopyOneKeeps ==
  ASSUME NEW sort, IsSort(sort), NEW n \in Nat, n <= Size, NEW scope \in Scopes, NEW span \in Spans,
         NEW g \in Trees(sort)[n][scope][span]
  PROVE  CopyOne(g) \in Trees(sort)[n][scope][span]
<1>1. Keeps(CopyAt[Size], sort, Size + 1)
  BY CopyKeeps, SizeAssumption
<1>2. n \in 0 .. ((Size + 1) - 1)
  BY SizeAssumption
<1>3. \A k \in 0 .. ((Size + 1) - 1), sc \in Scopes, sp \in Spans :
        \A h \in Trees(sort)[k][sc][sp] : CopyAt[Size][h] \in Trees(sort)[k][sc][sp]
  BY <1>1 DEF Keeps
<1>4. CopyAt[Size][g] \in Trees(sort)[n][scope][span]
  BY <1>2, <1>3
<1> QED BY <1>4 DEF CopyOne

\* The restricted context is a context.
LEMMA RestrictedContext ==
  ASSUME NEW ctx \in Contexts, NEW f \in Filters
  PROVE  OnThreadsContext(f, ctx) \in Contexts
<1> DEFINE D == {u \in DOMAIN ctx.workers : Passes(f, u)}
           w == [t \in D |-> ctx.workers[t]]
<1>1. /\ ctx.free \subseteq Threads /\ ctx.time \in Int
      /\ ctx.workers \in [DOMAIN ctx.workers -> Processes]
      /\ DOMAIN ctx.workers \in {Threads, ClientThreads, {kNemesisProcess}, {}}
  BY DEF Contexts
<1>2. D \in {Threads, ClientThreads, {kNemesisProcess}, {}}
  <2>1. kNemesisProcess \notin ClientThreads
    BY ConcurrencyAssumption DEF kNemesisProcess, ClientThreads
  <2> QED BY <1>1, <2>1 DEF Passes, Filters, Threads
<1>3. w \in [D -> Processes]
  BY <1>1
<1> HIDE DEF w, D
<1>4. w \in [Threads -> Processes] \cup [ClientThreads -> Processes]
              \cup [{kNemesisProcess} -> Processes] \cup [{} -> Processes]
  BY <1>2, <1>3
<1>5. {t \in ctx.free : Passes(f, t)} \in SUBSET Threads
  BY <1>1
<1>6. OnThreadsContext(f, ctx) =
        [free |-> {t \in ctx.free : Passes(f, t)}, workers |-> w, time |-> ctx.time]
  BY DEF OnThreadsContext, w, D
<1> QED BY <1>1, <1>4, <1>5, <1>6 DEF Contexts

\* An update that keeps the smaller generators of a sort in it keeps the next
\* ones.
LEMMA UpdateStep ==
  ASSUME NEW sort, IsSort(sort), NEW n \in Nat, n <= Size, NEW update, UpdateKeeps(update, sort, n),
         NEW scope \in Scopes, NEW span \in Spans, NEW ctx \in Contexts, NEW p \in Processes,
         NEW g \in Trees(sort)[n][scope][span]
  PROVE  UpdateOver(update)[g][ctx][p] \in Trees(sort)[n][scope][span]
<1>1. UpdateOver(update)[g][ctx][p] = UpdateNode(update, g, ctx, p)
  BY TreeIsGenerator DEF UpdateOver
<1>2. SUFFICES UpdateNode(update, g, ctx, p) \in Trees(sort)[n][scope][span]
  BY <1>1
<1>3. CASE g.kind \in Childless
  BY <1>3, CopyOneKeeps DEF UpdateNode, Childless
<1>4. CASE g.kind \notin Childless
  <2>1. n # 0 /\ n - 1 \in 0 .. (n - 1)
    BY <1>4, TreeParts
  <2>2. ASSUME NEW sc \in Scopes, NEW h \in Trees(sort)[n - 1][sc][span], NEW c \in Contexts
        PROVE  update[h][c][p] \in Trees(sort)[n - 1][sc][span]
    BY <2>1 DEF UpdateKeeps
  <2>3. CASE g.kind = "validate"
    <3>1. g.gen \in Trees(sort)[n - 1][scope][span]
      BY <1>4, <2>3, TreeParts
    <3>2. UpdateNode(update, g, ctx, p) = Validate(update[g.gen][ctx][p])
      BY <2>3 DEF UpdateNode, UpdateValidate
    <3> QED BY <2>1, <2>2, <3>1, <3>2, WrapTree
  <2>4. CASE g.kind = "onThreads"
    <3>1. /\ g = OnThreads(g.filter, g.gen)
          /\ g.filter \in Filters /\ g.filter \in Scopes /\ scope \in {"all", g.filter}
          /\ g.gen \in Trees(sort)[n - 1][g.filter][span]
      BY <1>4, <2>4, TreeParts
    <3>2. \/ UpdateNode(update, g, ctx, p) = g
          \/ UpdateNode(update, g, ctx, p) =
               OnThreads(g.filter, update[g.gen][OnThreadsContext(g.filter, ctx)][p])
      BY <2>4 DEF UpdateNode, UpdateOnThreads
    <3>3. OnThreadsContext(g.filter, ctx) \in Contexts
      BY <3>1, RestrictedContext
    <3>4. update[g.gen][OnThreadsContext(g.filter, ctx)][p] \in Trees(sort)[n - 1][g.filter][span]
      BY <2>2, <3>1, <3>3
    <3> QED BY <2>1, <3>1, <3>2, <3>4, FilterTree
  <2>5. CASE g.kind = "timeLimit"
    <3>1. g.limit \in Int /\ g.cutoff \in Int /\ span = "any" /\ g.gen \in Trees(sort)[n - 1][scope][span]
      BY <1>4, <2>5, TreeParts
    <3>2. UpdateNode(update, g, ctx, p) = TimeLimit(g.limit, g.cutoff, update[g.gen][ctx][p])
      BY <2>5 DEF UpdateNode, UpdateTimeLimit
    <3> QED BY <2>1, <2>2, <3>1, <3>2, WrapTree
  <2>6. CASE g.kind = "stagger"
    <3>1. g.dt \in sort.dts /\ g.gen \in Trees(sort)[n - 1][scope][span]
      BY <1>4, <2>6, TreeParts
    <3>2. UpdateNode(update, g, ctx, p) = Stagger(g.dt, kInvalidTime, update[g.gen][ctx][p])
      BY <2>6 DEF UpdateNode, UpdateStagger, StaggerFrom
    <3>3. Stagger(g.dt, kInvalidTime, update[g.gen][ctx][p]) \in Trees(sort)[n][scope][span]
      BY <2>1, <2>2, <3>1, WrapTree DEF IsSort
    <3> QED BY <3>2, <3>3
  <2>7. CASE g.kind = "list"
    <3>1. g = List(g.gens) /\ MemberSeq(sort, n, scope, span, g.gens)
      BY <1>4, <2>7, TreeParts
    <3>2. UpdateNode(update, g, ctx, p) =
            IF g.gens = <<>> THEN Null
            ELSE [CopyOne(g) EXCEPT !.gens[1] = update[g.gens[1]][ctx][p]]
      BY <2>7 DEF UpdateNode, UpdateList
    <3>3. CASE g.gens = <<>>
      <4>1. span # "endless"
        <5>1. \A i : i \notin 1 .. Len(g.gens)
          BY <3>3
        <5> QED BY <3>1, <5>1 DEF MemberSeq, Members
      <4> QED BY <3>2, <3>3, <4>1, NullTree DEF Spans
    <3>4. CASE g.gens # <<>>
      <4> DEFINE q == g.gens
                 x == update[q[1]][ctx][p]
      <4>1. PICK c : /\ CopyOne(List(q)) = List(c)
                     /\ MemberSeq(sort, n, scope, span, c) /\ Len(c) = Len(q)
                     /\ \A i \in 1 .. Len(q), sp \in Spans :
                          q[i] \in Trees(sort)[n - Len(q)][scope][sp] =>
                            c[i] \in Trees(sort)[n - Len(q)][scope][sp]
        BY <2>1, <3>1, CopyOfList
      <4>2. 1 \in 1 .. Len(q)
        BY <3>1, <3>4 DEF MemberSeq
      <4>3. /\ n - Len(q) \in 0 .. (n - 1)
            /\ q[1] \in Trees(sort)[n - Len(q)][scope]["any"]
        BY <3>1, <4>2, MemberTree
      <4>4. /\ x \in Trees(sort)[n - Len(q)][scope]["any"]
            /\ q[1] \in Trees(sort)[n - Len(q)][scope]["endless"] =>
                 x \in Trees(sort)[n - Len(q)][scope]["endless"]
        BY <4>3, BothSpans DEF UpdateKeeps
      <4> HIDE DEF x
      <4>5. MemberSeq(sort, n, scope, span, [q EXCEPT ![1] = x])
        BY <3>1, <4>2, <4>4, ReplacedMember
      <4>6. [List(c) EXCEPT !.gens[1] = x] = List([c EXCEPT ![1] = x])
        BY DEF List
      <4>7. MemberSeq(sort, n, scope, span, [c EXCEPT ![1] = x])
        <5> DEFINE r == [c EXCEPT ![1] = x]
        <5>1. DOMAIN c = 1 .. Len(q) /\ DOMAIN r = 1 .. Len(q)
          BY <4>1 DEF MemberSeq
        <5>2. /\ r = [i \in 1 .. Len(q) |-> r[i]]
              /\ \A i \in 1 .. Len(q) : r[i] = IF i = 1 THEN x ELSE c[i]
          BY <5>1
        <5> HIDE DEF r
        <5>3. \A i \in 1 .. Len(q) : q[i] \in Trees(sort)[n - Len(q)][scope]["any"]
          BY <3>1, MemberTree
        <5>4. \A i \in 1 .. Len(q) :
                /\ r[i] \in Trees(sort)[n - Len(q)][scope]["any"]
                /\ q[i] \in Trees(sort)[n - Len(q)][scope]["endless"] =>
                     r[i] \in Trees(sort)[n - Len(q)][scope]["endless"]
          BY <4>1, <4>4, <5>2, <5>3, BothSpans
        <5> HIDE DEF q
        <5>5. MemberSeq(sort, n, scope, span, q)
          BY <3>1 DEF q
        <5>6. MemberSeq(sort, n, scope, span, r)
          BY <5>1, <5>2, <5>4, <5>5, SameMembers
        <5> QED BY <5>6 DEF r
      <4>8. UpdateNode(update, g, ctx, p) = List([c EXCEPT ![1] = x])
        BY <3>1, <3>2, <3>4, <4>1, <4>6 DEF x
      <4> QED BY <2>1, <4>7, <4>8, ListTree
    <3> QED BY <3>3, <3>4
  <2>8. CASE g.kind = "any"
    <3> DEFINE q == g.gens
               r == [i \in DOMAIN q |-> update[q[i]][ctx][p]]
    <3>1. MemberSeq(sort, n, scope, span, q)
      BY <1>4, <2>8, TreeParts
    <3>2. UpdateNode(update, g, ctx, p) = Any(r)
      BY <2>8 DEF UpdateNode, UpdateAny
    <3>3. DOMAIN q = 1 .. Len(q)
      BY <3>1 DEF MemberSeq
    <3> HIDE DEF q
    <3>4. DOMAIN r = 1 .. Len(q) /\ r = [i \in 1 .. Len(q) |-> r[i]]
      BY <3>3
    <3>5. \A i \in 1 .. Len(q) : r[i] = update[q[i]][ctx][p]
      BY <3>3
    <3> HIDE DEF r
    <3>6. ASSUME NEW i \in 1 .. Len(q)
          PROVE  /\ r[i] \in Trees(sort)[n - Len(q)][scope]["any"]
                 /\ q[i] \in Trees(sort)[n - Len(q)][scope]["endless"] =>
                      r[i] \in Trees(sort)[n - Len(q)][scope]["endless"]
      <4>1. n - Len(q) \in 0 .. (n - 1) /\ q[i] \in Trees(sort)[n - Len(q)][scope]["any"]
        BY <3>1, MemberTree
      <4> QED BY <3>5, <4>1, BothSpans DEF UpdateKeeps
    <3>7. MemberSeq(sort, n, scope, span, r)
      BY <3>1, <3>4, <3>6, SameMembers
    <3> QED BY <2>1, <3>2, <3>7, ListTree
  <2>9. CASE g.kind = "mix"
    <3>1. g = Mix(g.idx, g.gens)
      BY <1>4, <2>9, TreeParts
    <3>2. UpdateNode(update, g, ctx, p) = Mix(g.idx, g.gens)
      BY <2>9 DEF UpdateNode, UpdateMix
    <3> QED BY <3>1, <3>2
  <2> QED BY <1>4, <2>3, <2>4, <2>5, <2>6, <2>7, <2>8, <2>9, TreeParts
<1> QED BY <1>3, <1>4

\* update stays in the sort, for every depth of the recursion.
LEMMA UpdatesKeep ==
  ASSUME NEW sort, IsSort(sort)
  PROVE  \A k \in 0 .. Size : UpdateKeeps(UpdateAt[k], sort, k + 1)
<1> DEFINE P == {k \in Nat : k <= Size => UpdateKeeps(UpdateAt[k], sort, k + 1)}
<1>1. 0 \in P
  <2>1. UpdateAt[0] = UpdateOver(<<>>)
    BY UpdateValue
  <2>2. UpdateKeeps(<<>>, sort, 0)
    BY DEF UpdateKeeps
  <2>3. ASSUME NEW k \in 0 .. (0 + 1 - 1) PROVE k = 0
    OBVIOUS
  <2>4. 0 <= Size
    BY SizeAssumption
  <2>5. UpdateKeeps(UpdateAt[0], sort, 0 + 1)
    BY <2>1, <2>2, <2>3, <2>4, UpdateStep DEF UpdateKeeps
  <2> QED BY <2>5
<1>2. ASSUME NEW k \in Nat, k \in P PROVE k + 1 \in P
  <2> SUFFICES ASSUME k + 1 <= Size PROVE UpdateKeeps(UpdateAt[k + 1], sort, (k + 1) + 1)
    OBVIOUS
  <2>1. UpdateAt[k + 1] = UpdateOver(UpdateAt[k])
    <3>1. k + 1 \in Nat /\ k + 1 # 0 /\ (k + 1) - 1 = k
      OBVIOUS
    <3> QED BY <3>1, UpdateValue
  <2>2. UpdateKeeps(UpdateAt[k], sort, k + 1)
    <3>1. k <= Size
      BY SizeAssumption
    <3> QED BY <1>2, <3>1
  <2>3. ASSUME NEW j \in 0 .. (k + 1) PROVE UpdateKeeps(UpdateAt[k], sort, j)
    BY <2>2 DEF UpdateKeeps
  <2>4. \A j \in 0 .. (k + 1) : j \in Nat /\ j <= Size
    BY SizeAssumption
  <2>5. 0 .. (((k + 1) + 1) - 1) = 0 .. (k + 1)
    OBVIOUS
  <2> QED BY <2>1, <2>3, <2>4, <2>5, UpdateStep DEF UpdateKeeps
<1>3. Nat \subseteq P
  <2> HIDE DEF P
  <2> QED BY <1>1, <1>2, Induction
<1> QED BY <1>3, SizeAssumption

\* An event leaves a generator in its sort.
LEMMA UpdateOneKeeps ==
  ASSUME NEW sort, IsSort(sort), NEW g \in PlansOf(sort), NEW ctx \in Contexts, NEW p \in Processes
  PROVE  Update(g, ctx, p) \in PlansOf(sort)
<1>1. UpdateKeeps(UpdateAt[Size], sort, Size + 1) /\ Size \in 0 .. (Size + 1 - 1)
  BY UpdatesKeep, SizeAssumption
<1>2. "all" \in Scopes
  BY DEF Scopes
<1> QED BY <1>1, <1>2, BothSpans DEF UpdateKeeps, Update, PlansOf

-----------------------------------------------------------------------------
(***************************************************************************)
(* What op answers stays in the sort, and is for a free thread.            *)
(***************************************************************************)

\* The members are made of themselves.
LEMMA LikeSelf ==
  ASSUME NEW sort, NEW n \in Nat, NEW scope \in Scopes, NEW span, NEW q, MemberSeq(sort, n, scope, span, q)
  PROVE  Like(sort, n, scope, q, q)
<1>1. DOMAIN q = 1 .. Len(q) /\ q = [i \in 1 .. Len(q) |-> q[i]]
  BY DEF MemberSeq
<1> QED BY <1>1, MemberTree DEF Like

\* What is made of members is members of the same number,
LEMMA LikeMembers ==
  ASSUME NEW sort, NEW n \in Nat, NEW scope \in Scopes, NEW q, NEW r, Like(sort, n, scope, q, r),
         NEW span, MemberSeq(sort, n, scope, span, q)
  PROVE  MemberSeq(sort, n, scope, span, r) /\ Len(r) = Len(q)
<1>1. DOMAIN r = 1 .. Len(q) /\ r = [i \in 1 .. Len(q) |-> r[i]]
  BY DEF Like
<1>2. \A i \in 1 .. Len(q) :
        /\ r[i] \in Trees(sort)[n - Len(q)][scope]["any"]
        /\ span = "endless" /\ q[i] \in Trees(sort)[n - Len(q)][scope]["endless"] =>
             r[i] \in Trees(sort)[n - Len(q)][scope]["endless"]
  BY DEF Like
<1>3. MemberSeq(sort, n, scope, span, r)
  BY <1>1, <1>2, SameMembers
<1>4. Len(r) = Len(q)
  BY <1>1, <1>2, SameMembers
<1> QED BY <1>3, <1>4

\* also with one of them replaced,
LEMMA LikeReplaced ==
  ASSUME NEW sort, NEW n \in Nat, NEW scope \in Scopes, NEW q, NEW r, Like(sort, n, scope, q, r),
         NEW i \in 1 .. Len(q), NEW x \in Trees(sort)[n - Len(q)][scope]["any"],
         q[i] \in Trees(sort)[n - Len(q)][scope]["endless"] =>
           x \in Trees(sort)[n - Len(q)][scope]["endless"]
  PROVE  Like(sort, n, scope, q, [r EXCEPT ![i] = x])
<1> DEFINE s == [r EXCEPT ![i] = x]
<1>1. DOMAIN s = 1 .. Len(q) /\ s = [j \in 1 .. Len(q) |-> s[j]]
  BY DEF Like
<1>2. \A j \in 1 .. Len(q) : s[j] = IF j = i THEN x ELSE r[j]
  BY DEF Like
<1> HIDE DEF s
<1>3. ASSUME NEW j \in 1 .. Len(q)
      PROVE  /\ s[j] \in Trees(sort)[n - Len(q)][scope]["any"]
             /\ q[j] \in Trees(sort)[n - Len(q)][scope]["endless"] =>
                  s[j] \in Trees(sort)[n - Len(q)][scope]["endless"]
  BY <1>2 DEF Like
<1>4. Like(sort, n, scope, q, s)
  BY <1>1, <1>3 DEF Like
<1> QED BY <1>4 DEF s

\* without one of them,
LEMMA LikeWithout ==
  ASSUME NEW sort, NEW n \in Nat, NEW scope \in Scopes, NEW q, NEW r, Like(sort, n, scope, q, r),
         NEW i \in 1 .. Len(q), Len(q) \in Nat, Len(r) = Len(q), Len(Without(q, i)) = Len(q) - 1
  PROVE  Like(sort, n - 1, scope, Without(q, i), Without(r, i))
<1> DEFINE p == Without(q, i)
           s == Without(r, i)
           at(j) == IF j < i THEN j ELSE j + 1
<1>1. \A j \in 1 .. (Len(q) - 1) : at(j) \in 1 .. Len(q)
  OBVIOUS
<1>2. \A j \in 1 .. (Len(q) - 1) : p[j] = q[at(j)] /\ s[j] = r[at(j)]
  BY DEF Without
<1>3. DOMAIN s = 1 .. Len(p) /\ s = [j \in 1 .. Len(p) |-> s[j]]
  BY DEF Without
<1>4. (n - 1) - Len(p) = n - Len(q)
  OBVIOUS
<1> HIDE DEF p, s, at
<1>5. ASSUME NEW j \in 1 .. Len(p)
      PROVE  /\ s[j] \in Trees(sort)[n - Len(q)][scope]["any"]
             /\ p[j] \in Trees(sort)[n - Len(q)][scope]["endless"] =>
                  s[j] \in Trees(sort)[n - Len(q)][scope]["endless"]
  <2>1. j \in 1 .. (Len(q) - 1)
    BY DEF p
  <2> QED BY <1>1, <1>2, <2>1 DEF Like
<1>6. Like(sort, n - 1, scope, p, s)
  BY <1>3, <1>4, <1>5 DEF Like
<1> QED BY <1>6 DEF p, s

\* or copied.
LEMMA LikeCopied ==
  ASSUME NEW sort, IsSort(sort), NEW n \in Nat, n <= Size, NEW scope \in Scopes, NEW span \in Spans,
         NEW q, MemberSeq(sort, n, scope, span, q), n # 0, NEW r, Like(sort, n, scope, q, r)
  PROVE  /\ Like(sort, n, scope, q, CopyAll(r)) /\ Len(CopyAll(r)) = Len(q)
         /\ \E c : /\ CopyOne(List(r)) = List(c) /\ CopyOne(Any(r)) = Any(c)
                   /\ Like(sort, n, scope, q, c) /\ Len(c) = Len(q)
<1>1. MemberSeq(sort, n, scope, span, r) /\ Len(r) = Len(q) /\ Len(q) \in Nat
  BY LikeMembers DEF MemberSeq
<1>2. ASSUME NEW i \in 1 .. Len(q) PROVE n - Len(q) \in Nat /\ n - Len(q) <= Size
  <2>1. n - Len(q) \in 0 .. (n - 1)
    BY MemberTree
  <2> QED BY <2>1, SizeAssumption
<1>3. Like(sort, n, scope, q, CopyAll(r)) /\ Len(CopyAll(r)) = Len(q)
  <2> DEFINE c == CopyAll(r)
  <2>1. /\ DOMAIN c = 1 .. Len(q) /\ c = [i \in 1 .. Len(q) |-> c[i]]
        /\ \A i \in 1 .. Len(q) : c[i] = CopyOne(r[i])
    BY DEF CopyAll, Like
  <2> HIDE DEF c
  <2>2. ASSUME NEW i \in 1 .. Len(q)
        PROVE  /\ c[i] \in Trees(sort)[n - Len(q)][scope]["any"]
               /\ q[i] \in Trees(sort)[n - Len(q)][scope]["endless"] =>
                    c[i] \in Trees(sort)[n - Len(q)][scope]["endless"]
    <3>1. \A sp \in Spans : \A g \in Trees(sort)[n - Len(q)][scope][sp] :
            CopyOne(g) \in Trees(sort)[n - Len(q)][scope][sp]
      BY <1>2, CopyOneKeeps
    <3>2. /\ r[i] \in Trees(sort)[n - Len(q)][scope]["any"]
          /\ q[i] \in Trees(sort)[n - Len(q)][scope]["endless"] =>
               r[i] \in Trees(sort)[n - Len(q)][scope]["endless"]
      BY DEF Like
    <3> QED BY <2>1, <3>1, <3>2, BothSpans
  <2>3. Like(sort, n, scope, q, c)
    BY <2>1, <2>2 DEF Like
  <2>4. Len(c) = Len(q)
    BY <2>3, LikeMembers
  <2> QED BY <2>3, <2>4 DEF c
<1>4. PICK c : /\ CopyOne(List(r)) = List(c) /\ CopyOne(Any(r)) = Any(c)
               /\ MemberSeq(sort, n, scope, span, c) /\ Len(c) = Len(r)
               /\ \A i \in 1 .. Len(r), sp \in Spans :
                    r[i] \in Trees(sort)[n - Len(r)][scope][sp] =>
                      c[i] \in Trees(sort)[n - Len(r)][scope][sp]
  BY <1>1, CopyOfList
<1>5. Like(sort, n, scope, q, c)
  <2>1. DOMAIN c = 1 .. Len(q) /\ c = [i \in 1 .. Len(q) |-> c[i]]
    BY <1>1, <1>4 DEF MemberSeq
  <2>2. ASSUME NEW i \in 1 .. Len(q)
        PROVE  /\ c[i] \in Trees(sort)[n - Len(q)][scope]["any"]
               /\ q[i] \in Trees(sort)[n - Len(q)][scope]["endless"] =>
                    c[i] \in Trees(sort)[n - Len(q)][scope]["endless"]
    BY <1>1, <1>4, BothSpans DEF Like
  <2> QED BY <2>1, <2>2 DEF Like
<1> QED BY <1>1, <1>3, <1>4, <1>5

\* A proper answer for a size is one for every larger size.
LEMMA ProperLarger ==
  ASSUME NEW sort, NEW k \in Nat, NEW n \in Nat, k <= n, NEW scope \in Scopes, NEW span \in Spans,
         NEW ctx, NEW a, Proper(sort, k, scope, span, ctx, a)
  PROVE  Proper(sort, n, scope, span, ctx, a)
BY TreesMonotone, BothSpans DEF Proper

\* What the smaller generators answer is proper.
LEMMA AskedAt ==
  ASSUME NEW ask, NEW sort, NEW n \in Nat, Responds(ask, sort, n), NEW k \in 0 .. (n - 1),
         NEW scope \in Scopes, NEW span \in Spans, NEW ctx, ContextFor(sort, scope, ctx),
         NEW g \in Trees(sort)[k][scope][span], NEW a \in ask[g][ctx]
  PROVE  Proper(sort, k, scope, span, ctx, a)
BY DEF Responds

\* The same answer, for a larger generator around the one that gave it.
LEMMA ProperWrapped ==
  ASSUME NEW sort, NEW n \in Nat, NEW k \in Nat, NEW scope \in Scopes, NEW span \in Spans,
         NEW sub \in Spans, NEW ctx, NEW a, Proper(sort, k, scope, sub, ctx, a), a.op.type # "crash",
         NEW x \in Trees(sort)[n][scope]["any"], NEW self \in Trees(sort)[n][scope][span],
         a.op.type = "nil" => x = Null,
         span = "endless" => x # Null /\ a.op.type # "nil" /\ x \in Trees(sort)[n][scope]["endless"]
  PROVE  Proper(sort, n, scope, span, ctx, Answer(a.op, x, self))
BY DEF Proper, IsAnswer, Answer, NotNil

\* The nil answer is proper where nothing has to go on,
LEMMA ProperNil ==
  ASSUME NEW sort, NEW n \in Nat, NEW scope \in Scopes, NEW ctx,
         NEW self \in Trees(sort)[n][scope]["any"]
  PROVE  Proper(sort, n, scope, "any", ctx, Nil(self))
<1>1. Null \in Trees(sort)[n][scope]["any"]
  BY NullTree
<1> QED BY <1>1 DEF Proper, IsAnswer, Nil, Answer, NilOp, kInvalidProcess

\* and a crash stays proper in the generators around it.
LEMMA ProperCrash ==
  ASSUME NEW sort, NEW n, NEW k, NEW scope, NEW span, NEW c, NEW sc, NEW sp, NEW ctx, NEW a, Proper(sort, k, sc, sp, c, a),
         a.op.type = "crash"
  PROVE  Proper(sort, n, scope, span, ctx, a)
BY DEF Proper

\* The end of the program.
LEMMA CrashProper ==
  ASSUME NEW sort, NEW n, NEW scope, NEW span, NEW ctx, NEW self
  PROVE  Proper(sort, n, scope, span, ctx, Crash(self)) /\ Crash(self).op.type = "crash"
BY DEF Proper, IsAnswer, Crash, CrashOp, Answer, kInvalidProcess

\* fillInOperation
LEMMA FilledIn ==
  ASSUME NEW sort, IsSort(sort), NEW scope \in Scopes, NEW ctx, ContextFor(sort, scope, ctx),
         NEW l \in sort.leaves[scope], NEW o \in FillInOperation(ctx, l)
  PROVE  /\ o = [f |-> o.f, process |-> o.process, type |-> o.type, time |-> o.time]
         /\ o.type \in {"pending", "invoke"} /\ o.time \in Int
         /\ o.type = "pending" => Waits(scope, ctx)
         /\ o.type = "invoke" => /\ Filled(sort, scope, ctx, o)
                                 /\ o.time \in sort.times /\ ctx.time <= o.time
<1>1. /\ l = [f |-> l.f, process |-> l.process, type |-> l.type, time |-> l.time]
      /\ l.process \in {kInvalidProcess, kNemesisProcess} /\ l.type = "invoke" /\ l.time = 0
  BY DEF IsSort, Operations
<1>2. PICK p \in RandomFreeProcess(ctx.free, ctx.workers) :
        o = IF p = kInvalidProcess
            THEN [l EXCEPT !.type = "pending"]
            ELSE [l EXCEPT !.process = IF @ = kInvalidProcess THEN p ELSE @,
                           !.time    = IF @ = 0 THEN ctx.time ELSE @,
                           !.type    = IF @ = "init" THEN "invoke" ELSE @]
  BY DEF FillInOperation
<1>3. ctx.time \in Int /\ ctx.time \in sort.times /\ ctx.time <= ctx.time
  BY DEF ContextFor, Contexts
<1>4. CASE ctx.free = {}
  <2>1. o = [l EXCEPT !.type = "pending"]
    BY <1>2, <1>4 DEF RandomFreeProcess
  <2>2. Waits(scope, ctx)
    BY <1>4 DEF Waits
  <2> QED BY <1>1, <2>1, <2>2
<1>5. CASE ctx.free # {}
  <2>1. PICK t \in ctx.free : p = ctx.workers[t]
    BY <1>2, <1>5 DEF RandomFreeProcess
  <2>2. p # kInvalidProcess
    <3>1. ctx.workers[t] \in Processes
      BY DEF ContextFor, Contexts
    <3> QED BY <2>1, <3>1 DEF Processes, kInvalidProcess, kNemesisProcess
  <2>3. /\ o.f = l.f /\ o.time = ctx.time /\ o.type = "invoke"
        /\ o.process = IF l.process = kInvalidProcess THEN p ELSE l.process
        /\ o = [f |-> o.f, process |-> o.process, type |-> o.type, time |-> o.time]
    BY <1>1, <1>2, <2>2
  <2>4. Filled(sort, scope, ctx, o)
    BY <2>1, <2>3 DEF Filled, ContextFor
  <2> QED BY <1>3, <2>3, <2>4
<1> QED BY <1>4, <1>5

\* op of an operation or a function answers properly.
LEMMA LeafAnswers ==
  ASSUME NEW sort, IsSort(sort), NEW n \in Nat, NEW scope \in Scopes, NEW span \in Spans, NEW ctx,
         ContextFor(sort, scope, ctx), NEW g \in Trees(sort)[n][scope][span]
  PROVE  /\ g.kind = "null" => \A a \in {Nil(g)} : Proper(sort, n, scope, span, ctx, a)
         /\ g.kind = "op"   => \A a \in OpOnce(g, ctx) : Proper(sort, n, scope, span, ctx, a)
         /\ g.kind = "fun"  => \A a \in OpFun(g, ctx) : Proper(sort, n, scope, span, ctx, a)
<1>1. /\ WellFormed(g, NestedTo[n - 1]) /\ Fits(sort, Trees(sort), n, scope, span, g)
      /\ g \in Trees(sort)[n][scope]["any"]
  BY TreeElim, EndlessIsTree DEF Spans
<1>2. CASE g.kind = "null"
  <2>1. span = "any"
    BY <1>1, <1>2 DEF Fits
  <2> QED BY <1>2, <2>1, ProperNil
<1>3. ASSUME g.kind = "op", NEW a \in OpOnce(g, ctx) PROVE Proper(sort, n, scope, span, ctx, a)
  <2>1. span = "any" /\ g.op \in sort.leaves[scope]
    BY <1>1, <1>3 DEF Fits
  <2>2. PICK o \in FillInOperation(ctx, g.op) : a = Answer(o, IF o.type = "pending" THEN g ELSE Null, g)
    BY <1>3 DEF OpOnce
  <2>3. a.gen \in Trees(sort)[n][scope]["any"] /\ a.self = g /\ a.op = o /\ a = Answer(a.op, a.gen, a.self)
    BY <1>1, <2>2, NullTree DEF Answer
  <2>4. /\ o = [f |-> o.f, process |-> o.process, type |-> o.type, time |-> o.time]
        /\ o.type \in {"pending", "invoke"} /\ o.time \in Int
        /\ o.type = "pending" => Waits(scope, ctx)
        /\ o.type = "invoke" => /\ Filled(sort, scope, ctx, o)
                                /\ o.time \in sort.times /\ ctx.time <= o.time
    BY <2>1, <2>2, FilledIn
  <2> QED BY <2>1, <2>3, <2>4 DEF Proper, IsAnswer
<1>4. ASSUME g.kind = "fun", NEW a \in OpFun(g, ctx) PROVE Proper(sort, n, scope, span, ctx, a)
  <2>1. g.op \in sort.leaves[scope]
    BY <1>1, <1>4 DEF Fits
  <2>2. PICK o \in FillInOperation(ctx, g.op) : a = Answer(o, g, g)
    BY <1>4 DEF OpFun
  <2>3. a.gen = g /\ a.self = g /\ a.op = o /\ a = Answer(a.op, a.gen, a.self)
    BY <2>2 DEF Answer
  <2>4. /\ o = [f |-> o.f, process |-> o.process, type |-> o.type, time |-> o.time]
        /\ o.type \in {"pending", "invoke"} /\ o.time \in Int
        /\ o.type = "pending" => Waits(scope, ctx)
        /\ o.type = "invoke" => /\ Filled(sort, scope, ctx, o)
                                /\ o.time \in sort.times /\ ctx.time <= o.time
    BY <2>1, <2>2, FilledIn
  <2>5. g # Null
    BY <1>4 DEF Null
  <2> QED BY <1>1, <2>3, <2>4, <2>5 DEF Proper, IsAnswer, NotNil
<1> QED BY <1>2, <1>3, <1>4

\* What a proper answer that is no crash has.
LEMMA ProperParts ==
  ASSUME NEW sort, NEW n \in Nat, NEW scope \in Scopes, NEW span \in Spans, NEW ctx, NEW a,
         Proper(sort, n, scope, span, ctx, a), a.op.type # "crash"
  PROVE  /\ a.self \in Trees(sort)[n][scope][span] /\ a.self \in Trees(sort)[n][scope]["any"]
         /\ a.gen \in Trees(sort)[n][scope]["any"]
         /\ span = "endless" => NotNil(a) /\ a.gen \in Trees(sort)[n][scope]["endless"]
         /\ a.op.type = "nil" => a.gen = Null
         /\ span \in {"any", "endless"}
BY EndlessIsTree DEF Proper, Spans

\* op of Validate answers properly,
LEMMA ValidateAnswers ==
  ASSUME NEW sort, IsSort(sort), NEW n \in Nat, NEW ask, Responds(ask, sort, n),
         NEW scope \in Scopes, NEW span \in Spans, NEW ctx, ContextFor(sort, scope, ctx),
         NEW g \in Trees(sort)[n][scope][span], g.kind = "validate", NEW b \in OpValidate(ask, g, ctx)
  PROVE  Proper(sort, n, scope, span, ctx, b)
<1>1. n # 0 /\ n - 1 \in 0 .. (n - 1) /\ n - 1 \in Nat /\ n - 1 <= n /\ g.gen \in Trees(sort)[n - 1][scope][span]
  BY TreeParts DEF Childless
<1>2. PICK a \in ask[g.gen][ctx] :
        b = Unless(a, Answer(a.op, IF NotNil(a) THEN Validate(a.gen) ELSE a.gen, Validate(a.self)))
  BY DEF OpValidate
<1>3. Proper(sort, n - 1, scope, span, ctx, a)
  BY <1>1, AskedAt
<1>4. CASE a.op.type = "crash"
  BY <1>2, <1>3, <1>4, ProperCrash DEF Unless
<1>5. CASE a.op.type # "crash"
  <2> DEFINE x == IF NotNil(a) THEN Validate(a.gen) ELSE a.gen
             y == Validate(a.self)
  <2>1. b = Answer(a.op, x, y)
    BY <1>2, <1>5 DEF Unless
  <2>2. y \in Trees(sort)[n][scope][span]
    BY <1>1, <1>3, <1>5, ProperParts, WrapTree
  <2>3. x \in Trees(sort)[n][scope]["any"]
    <3>1. a.gen \in Trees(sort)[n - 1][scope]["any"] /\ a.gen \in Trees(sort)[n][scope]["any"]
      BY <1>1, <1>3, <1>5, ProperParts, TreesMonotone, BothSpans
    <3> QED BY <1>1, <3>1, WrapTree, BothSpans
  <2>4. ASSUME span = "endless"
        PROVE  x # Null /\ a.op.type # "nil" /\ x \in Trees(sort)[n][scope]["endless"]
    <3>1. NotNil(a) /\ a.gen \in Trees(sort)[n - 1][scope]["endless"]
      BY <1>1, <1>3, <1>5, <2>4, ProperParts
    <3>2. Validate(a.gen) \in Trees(sort)[n][scope]["endless"]
      BY <1>1, <3>1, WrapTree, BothSpans
    <3> QED BY <3>1, <3>2, NullTree DEF NotNil
  <2>5. a.op.type = "nil" => x = Null
    BY <1>1, <1>3, <1>5, ProperParts DEF NotNil
  <2> HIDE DEF x, y
  <2> QED BY <1>1, <1>3, <1>5, <2>1, <2>2, <2>3, <2>4, <2>5, ProperWrapped
<1> QED BY <1>4, <1>5

\* so does op of TimeLimit,
LEMMA TimeLimitAnswers ==
  ASSUME NEW sort, IsSort(sort), NEW n \in Nat, NEW ask, Responds(ask, sort, n),
         NEW scope \in Scopes, NEW span \in Spans, NEW ctx, ContextFor(sort, scope, ctx),
         NEW g \in Trees(sort)[n][scope][span], g.kind = "timeLimit", NEW b \in OpTimeLimit(ask, g, ctx)
  PROVE  Proper(sort, n, scope, span, ctx, b)
<1>1. /\ n # 0 /\ n - 1 \in 0 .. (n - 1) /\ n - 1 \in Nat /\ n - 1 <= n
      /\ g = TimeLimit(g.limit, g.cutoff, g.gen) /\ g.limit \in Int /\ g.cutoff \in Int
      /\ span = "any" /\ g.gen \in Trees(sort)[n - 1][scope][span]
  BY TreeParts DEF Childless
<1>2. PICK a \in ask[g.gen][ctx] :
        LET cutoff == Cutoff(g, a.op.time)
            self   == TimeLimit(g.limit, cutoff, a.self)
        IN b = Unless(a, IF ~NotNil(a) THEN Nil([g EXCEPT !.gen = a.self])
                         ELSE IF a.op.type = "pending"
                         THEN Answer(a.op, [g EXCEPT !.gen = a.gen], [g EXCEPT !.gen = a.self])
                         ELSE IF a.op.time < cutoff
                         THEN Answer(a.op, TimeLimit(g.limit, cutoff, a.gen), self)
                         ELSE Nil(self))
  BY DEF OpTimeLimit
<1>3. Proper(sort, n - 1, scope, span, ctx, a)
  BY <1>1, AskedAt
<1>4. CASE a.op.type = "crash"
  BY <1>2, <1>3, <1>4, ProperCrash DEF Unless
<1>5. CASE a.op.type # "crash"
  <2> DEFINE c == Cutoff(g, a.op.time)
  <2>1. c \in Int /\ a.op.time \in Int
    BY <1>1, <1>3 DEF Cutoff, Proper, IsAnswer
  <2>2. [g EXCEPT !.gen = a.self] = TimeLimit(g.limit, g.cutoff, a.self)
    BY <1>1 DEF TimeLimit
  <2>3. [g EXCEPT !.gen = a.gen] = TimeLimit(g.limit, g.cutoff, a.gen)
    BY <1>1 DEF TimeLimit
  <2>4. \/ b = Nil(TimeLimit(g.limit, g.cutoff, a.self))
        \/ /\ b = Answer(a.op, TimeLimit(g.limit, g.cutoff, a.gen), TimeLimit(g.limit, g.cutoff, a.self))
           /\ NotNil(a)
        \/ /\ b = Answer(a.op, TimeLimit(g.limit, c, a.gen), TimeLimit(g.limit, c, a.self))
           /\ NotNil(a)
        \/ b = Nil(TimeLimit(g.limit, c, a.self))
    BY <1>2, <1>5, <2>2, <2>3 DEF Unless
  <2> HIDE DEF c
  <2>5. a.self \in Trees(sort)[n - 1][scope]["any"] /\ a.gen \in Trees(sort)[n - 1][scope]["any"]
    BY <1>1, <1>3, <1>5, ProperParts
  <2>6. ASSUME NEW k \in Int
        PROVE  /\ TimeLimit(g.limit, k, a.self) \in Trees(sort)[n][scope]["any"]
               /\ TimeLimit(g.limit, k, a.gen) \in Trees(sort)[n][scope]["any"]
    BY <1>1, <2>5, WrapTree, BothSpans
  <2>7. CASE b = Nil(TimeLimit(g.limit, g.cutoff, a.self)) \/ b = Nil(TimeLimit(g.limit, c, a.self))
    BY <1>1, <2>1, <2>6, <2>7, ProperNil
  <2>8. ASSUME NEW k \in Int, b = Answer(a.op, TimeLimit(g.limit, k, a.gen), TimeLimit(g.limit, k, a.self)),
               NotNil(a)
        PROVE  Proper(sort, n, scope, span, ctx, b)
    <3>1. a.op.type # "nil"
      BY <2>8 DEF NotNil
    <3> QED BY <1>1, <1>3, <1>5, <2>6, <2>8, <3>1, ProperWrapped
  <2> QED BY <1>1, <2>1, <2>4, <2>7, <2>8
<1> QED BY <1>4, <1>5

\* A stagger may change the time of an operation.
LEMMA RetimedFilled ==
  ASSUME NEW sort, NEW scope, NEW ctx, NEW a, IsAnswer(a), NEW t \in Int, Filled(sort, scope, ctx, a.op)
  PROVE  Filled(sort, scope, ctx, [a.op EXCEPT !.time = t])
<1>1. [a.op EXCEPT !.time = t].f = a.op.f /\ [a.op EXCEPT !.time = t].process = a.op.process
  BY DEF IsAnswer
<1> QED BY <1>1 DEF Filled

\* so does op of Stagger,
LEMMA StaggerAnswers ==
  ASSUME NEW sort, IsSort(sort), NEW n \in Nat, NEW ask, Responds(ask, sort, n),
         NEW scope \in Scopes, NEW span \in Spans, NEW ctx, ContextFor(sort, scope, ctx),
         NEW g \in Trees(sort)[n][scope][span], g.kind = "stagger", NEW b \in OpStagger(ask, g, ctx)
  PROVE  Proper(sort, n, scope, span, ctx, b)
<1>1. /\ n # 0 /\ n - 1 \in 0 .. (n - 1) /\ n - 1 \in Nat /\ n - 1 <= n
      /\ g = Stagger(g.dt, g.next_time, g.gen) /\ g.dt \in sort.dts /\ g.next_time \in sort.times
      /\ g.gen \in Trees(sort)[n - 1][scope][span]
  BY TreeParts DEF Childless
<1> DEFINE t == IF g.next_time = kInvalidTime THEN ctx.time ELSE g.next_time
           later(a) == IF t > a.op.time THEN t ELSE a.op.time
           self(a) == Stagger(g.dt, t, a.self)
           staggered(a) == Answer([a.op EXCEPT !.time = later(a)], StaggerFrom(g.dt, t, a.gen), self(a))
<1>2. PICK a \in ask[g.gen][ctx] :
        b \in IF a.op.type = "crash" THEN {a}
              ELSE IF ~NotNil(a) THEN {Nil([g EXCEPT !.gen = a.self])}
              ELSE IF a.op.type = "pending" THEN {Answer(a.op, self(a), self(a))}
              ELSE IF g.dt = 0 THEN DivisionByZero(staggered(a))
              ELSE {staggered(a)}
  BY DEF OpStagger
<1>3. Proper(sort, n - 1, scope, span, ctx, a)
  BY <1>1, AskedAt
<1>4. CASE a.op.type = "crash"
  BY <1>2, <1>3, <1>4, ProperCrash
<1>5. CASE a.op.type # "crash"
  <2>1. t \in sort.times /\ t \in Int /\ ctx.time \in Int
    BY <1>1 DEF ContextFor, IsSort
  <2>2. [g EXCEPT !.gen = a.self] = Stagger(g.dt, g.next_time, a.self)
    BY <1>1 DEF Stagger
  <2> HIDE DEF t
  <2>3. /\ a.self \in Trees(sort)[n - 1][scope][span] /\ a.self \in Trees(sort)[n - 1][scope]["any"]
        /\ a.gen \in Trees(sort)[n - 1][scope]["any"]
        /\ span = "endless" => NotNil(a) /\ a.gen \in Trees(sort)[n - 1][scope]["endless"]
    BY <1>1, <1>3, <1>5, ProperParts
  <2>4. /\ \A s \in sort.times : /\ Stagger(g.dt, s, a.self) \in Trees(sort)[n][scope][span]
                                 /\ Stagger(g.dt, s, a.self) \in Trees(sort)[n][scope]["any"]
        /\ Stagger(g.dt, kInvalidTime, a.gen) \in Trees(sort)[n][scope]["any"]
        /\ span = "endless" => Stagger(g.dt, kInvalidTime, a.gen) \in Trees(sort)[n][scope]["endless"]
    BY <1>1, <2>3, WrapTree, BothSpans DEF IsSort
  <2>5. Stagger(g.dt, t, a.self) # Null /\ Stagger(g.dt, kInvalidTime, a.gen) # Null
    BY DEF Stagger, Null
  <2>6. CASE ~NotNil(a)
    <3>1. b = Nil(Stagger(g.dt, g.next_time, a.self)) /\ span = "any"
      BY <1>2, <1>5, <2>2, <2>3, <2>6 DEF Spans
    <3> QED BY <1>1, <2>4, <3>1, ProperNil
  <2>7. CASE NotNil(a) /\ a.op.type = "pending"
    <3>1. b = Answer(a.op, Stagger(g.dt, t, a.self), Stagger(g.dt, t, a.self))
      BY <1>2, <1>5, <2>7
    <3>2. a.op.type # "nil"
      BY <2>7
    <3> QED BY <1>1, <1>3, <1>5, <2>1, <2>4, <2>5, <3>1, <3>2, ProperWrapped
  <2>8. CASE NotNil(a) /\ a.op.type # "pending"
    <3>1. IsAnswer(a) /\ a.op.type = "invoke"
      BY <1>3, <1>5, <2>8 DEF Proper, IsAnswer, NotNil
    <3>2. Filled(sort, scope, ctx, a.op) /\ a.op.time \in sort.times /\ ctx.time <= a.op.time /\ a.op.time \in Int
      BY <1>3, <3>1 DEF Proper, IsAnswer
    <3>3. later(a) \in Int /\ later(a) \in sort.times /\ ctx.time <= later(a)
      BY <2>1, <3>2
    <3> HIDE DEF later
    <3> DEFINE o == [a.op EXCEPT !.time = later(a)]
    <3>4. /\ o = [f |-> o.f, process |-> o.process, type |-> o.type, time |-> o.time]
          /\ o.type = "invoke" /\ o.time = later(a)
      BY <3>1 DEF IsAnswer
    <3>5. Filled(sort, scope, ctx, o)
      BY <3>1, <3>2, <3>3, RetimedFilled
    <3> DEFINE d == Answer(o, Stagger(g.dt, kInvalidTime, a.gen), Stagger(g.dt, t, a.self))
    <3>6. staggered(a) = d
      BY DEF StaggerFrom
    <3>7. b = d \/ b = Crash(d.self)
      <4> HIDE DEF d, staggered
      <4> QED BY <1>2, <1>5, <2>8, <3>6 DEF DivisionByZero
    <3> HIDE DEF o
    <3>8. /\ d.op = o /\ d.gen = Stagger(g.dt, kInvalidTime, a.gen) /\ d.self = Stagger(g.dt, t, a.self)
          /\ d = Answer(d.op, d.gen, d.self)
      BY DEF Answer
    <3> HIDE DEF d
    <3>9. Proper(sort, n, scope, span, ctx, d)
      BY <2>1, <2>4, <2>5, <3>3, <3>4, <3>5, <3>8 DEF Proper, IsAnswer, NotNil
    <3> QED BY <3>7, <3>9, CrashProper
  <2> QED BY <2>6, <2>7, <2>8
<1> QED BY <1>4, <1>5

\* A restricted context is one for the filter, and what is pending or issued
\* under it is so outside.
LEMMA RestrictedFor ==
  ASSUME NEW sort, NEW scope \in Scopes, NEW f \in Filters, scope \in {"all", f}, NEW ctx,
         ContextFor(sort, scope, ctx)
  PROVE  /\ ContextFor(sort, f, OnThreadsContext(f, ctx))
         /\ OnThreadsContext(f, ctx).time = ctx.time
         /\ Waits(f, OnThreadsContext(f, ctx)) => Waits(scope, ctx)
         /\ \A o : Filled(sort, f, OnThreadsContext(f, ctx), o) => Filled(sort, scope, ctx, o)
<1> DEFINE c == OnThreadsContext(f, ctx)
<1>1. /\ c.time = ctx.time /\ c.free = {t \in ctx.free : Passes(f, t)}
      /\ DOMAIN c.workers = {u \in DOMAIN ctx.workers : Passes(f, u)}
      /\ \A u \in DOMAIN c.workers : c.workers[u] = ctx.workers[u]
  BY DEF OnThreadsContext
<1>2. c \in Contexts
  BY RestrictedContext DEF ContextFor
<1>3. f \in Scopes /\ f # "all"
  BY DEF Scopes, Filters
<1> HIDE DEF c
<1>4. ContextFor(sort, f, c)
  BY <1>1, <1>2 DEF ContextFor, Under
<1>5. Waits(f, c) => Waits(scope, ctx)
  BY <1>1, <1>3 DEF Waits, Under
<1>6. ASSUME NEW o, Filled(sort, f, c, o) PROVE Filled(sort, scope, ctx, o)
  <2>1. PICK t \in c.free, l \in sort.leaves[f] :
          /\ Under(f, t) /\ o.f = l.f
          /\ o.process = IF l.process = kInvalidProcess THEN c.workers[t] ELSE l.process
    BY <1>3, <1>6 DEF Filled
  <2>2. t \in ctx.free /\ c.workers[t] = ctx.workers[t]
    BY <1>1, <1>4 DEF ContextFor
  <2> QED BY <1>3, <2>1, <2>2 DEF Filled
<1> QED BY <1>1, <1>4, <1>5, <1>6 DEF c

\* and so does op of OnThreads, which asks with the restricted context.
LEMMA OnThreadsAnswers ==
  ASSUME NEW sort, IsSort(sort), NEW n \in Nat, NEW ask, Responds(ask, sort, n),
         NEW scope \in Scopes, NEW span \in Spans, NEW ctx, ContextFor(sort, scope, ctx),
         NEW g \in Trees(sort)[n][scope][span], g.kind = "onThreads", NEW b \in OpOnThreads(ask, g, ctx)
  PROVE  Proper(sort, n, scope, span, ctx, b)
<1> DEFINE f == g.filter
           c == OnThreadsContext(f, ctx)
<1>1. /\ n # 0 /\ n - 1 \in 0 .. (n - 1) /\ n - 1 \in Nat
      /\ f \in Filters /\ f \in Scopes /\ scope \in {"all", f}
      /\ g.gen \in Trees(sort)[n - 1][f][span]
  <2>1. g.kind \notin Childless
    BY DEF Childless
  <2>2. /\ n # 0 /\ n - 1 \in 0 .. (n - 1)
        /\ g.filter \in Filters /\ g.filter \in Scopes /\ scope \in {"all", g.filter}
        /\ g.gen \in Trees(sort)[n - 1][g.filter][span]
    BY <2>1, TreeParts
  <2> QED BY <2>2
<1>2. PICK a \in ask[g.gen][c] :
        b = Unless(a, IF NotNil(a) THEN Answer(a.op, OnThreads(f, a.gen), OnThreads(f, a.self))
                      ELSE Nil(OnThreads(f, a.self)))
  BY DEF OpOnThreads
<1>3. /\ ContextFor(sort, f, c) /\ c.time = ctx.time
      /\ Waits(f, c) => Waits(scope, ctx)
      /\ \A o : Filled(sort, f, c, o) => Filled(sort, scope, ctx, o)
  BY <1>1, RestrictedFor
<1> HIDE DEF c, f
<1>4. Proper(sort, n - 1, f, span, c, a)
  BY <1>1, <1>3, AskedAt
<1>5. CASE a.op.type = "crash"
  BY <1>2, <1>4, <1>5, ProperCrash DEF Unless
<1>6. CASE a.op.type # "crash"
  <2>1. /\ a.self \in Trees(sort)[n - 1][f][span]
        /\ a.gen \in Trees(sort)[n - 1][f]["any"]
        /\ span = "endless" => NotNil(a) /\ a.gen \in Trees(sort)[n - 1][f]["endless"]
    BY <1>1, <1>4, <1>6, ProperParts
  <2>2. /\ OnThreads(f, a.self) \in Trees(sort)[n][scope][span]
        /\ OnThreads(f, a.gen) \in Trees(sort)[n][scope]["any"]
        /\ span = "endless" => OnThreads(f, a.gen) \in Trees(sort)[n][scope]["endless"]
    BY <1>1, <2>1, FilterTree, BothSpans
  <2>3. OnThreads(f, a.gen) # Null
    BY DEF OnThreads, Null
  <2>4. CASE ~NotNil(a)
    <3>1. b = Nil(OnThreads(f, a.self)) /\ span = "any"
      BY <1>2, <1>6, <2>1, <2>4 DEF Unless, Spans
    <3> QED BY <2>2, <3>1, ProperNil
  <2>5. CASE NotNil(a)
    <3>1. b = Answer(a.op, OnThreads(f, a.gen), OnThreads(f, a.self))
      BY <1>2, <1>6, <2>5 DEF Unless
    <3>2. /\ b.op = a.op /\ b.gen = OnThreads(f, a.gen) /\ b.self = OnThreads(f, a.self)
          /\ b = Answer(b.op, b.gen, b.self)
      BY <3>1 DEF Answer
    <3> QED BY <1>3, <1>4, <1>6, <2>2, <2>3, <2>5, <3>2 DEF Proper, IsAnswer, NotNil
  <2> QED BY <2>4, <2>5
<1> QED BY <1>5, <1>6

\* The member i answers: what comes of it, by size n.
LEMMA MemberAnswer ==
  ASSUME NEW sort, NEW n \in Nat, NEW ask, Responds(ask, sort, n),
         NEW scope \in Scopes, NEW span \in Spans, NEW ctx, ContextFor(sort, scope, ctx),
         NEW q, MemberSeq(sort, n, scope, span, q), NEW i \in 1 .. Len(q), NEW a \in ask[q[i]][ctx]
  PROVE  /\ Proper(sort, n - Len(q), scope, "any", ctx, a) /\ Proper(sort, n, scope, "any", ctx, a)
         /\ n - Len(q) \in Nat
         /\ a.op.type # "crash" =>
              /\ a.self \in Trees(sort)[n - Len(q)][scope]["any"]
              /\ a.gen \in Trees(sort)[n - Len(q)][scope]["any"]
              /\ a.gen \in Trees(sort)[n][scope]["any"]
              /\ a.op.type = "nil" => a.gen = Null
              /\ q[i] \in Trees(sort)[n - Len(q)][scope]["endless"] =>
                   /\ a.self \in Trees(sort)[n - Len(q)][scope]["endless"]
                   /\ a.gen \in Trees(sort)[n - Len(q)][scope]["endless"]
                   /\ a.gen \in Trees(sort)[n][scope]["endless"]
                   /\ NotNil(a)
<1>1. /\ n - Len(q) \in 0 .. (n - 1) /\ n - Len(q) \in Nat /\ n - Len(q) <= n
      /\ q[i] \in Trees(sort)[n - Len(q)][scope]["any"]
  <2>1. /\ n - Len(q) \in 0 .. (n - 1)
        /\ q[i] \in Trees(sort)[n - Len(q)][scope]["any"]
    BY MemberTree
  <2>2. \A k \in 0 .. (n - 1) : k \in Nat /\ k <= n
    OBVIOUS
  <2> QED BY <2>1, <2>2
<1>2. Proper(sort, n - Len(q), scope, "any", ctx, a)
  BY <1>1, AskedAt, BothSpans
<1>3. Proper(sort, n, scope, "any", ctx, a)
  BY <1>1, <1>2, ProperLarger, BothSpans
<1>4. ASSUME a.op.type # "crash"
      PROVE  /\ a.self \in Trees(sort)[n - Len(q)][scope]["any"]
             /\ a.gen \in Trees(sort)[n - Len(q)][scope]["any"]
             /\ a.gen \in Trees(sort)[n][scope]["any"]
             /\ a.op.type = "nil" => a.gen = Null
  BY <1>1, <1>2, <1>3, <1>4, ProperParts, BothSpans
<1>5. ASSUME a.op.type # "crash", q[i] \in Trees(sort)[n - Len(q)][scope]["endless"]
      PROVE  /\ a.self \in Trees(sort)[n - Len(q)][scope]["endless"]
             /\ a.gen \in Trees(sort)[n - Len(q)][scope]["endless"]
             /\ a.gen \in Trees(sort)[n][scope]["endless"]
             /\ NotNil(a)
  <2>1. Proper(sort, n - Len(q), scope, "endless", ctx, a)
    BY <1>1, <1>5, AskedAt, BothSpans
  <2>2. Proper(sort, n, scope, "endless", ctx, a)
    BY <1>1, <2>1, ProperLarger, BothSpans
  <2> QED BY <1>1, <1>5, <2>1, <2>2, ProperParts, BothSpans
<1> QED BY <1>1, <1>2, <1>3, <1>4, <1>5

\* The answer of a smaller generator as that of g, which keeps self.
LEMMA ProperInstead ==
  ASSUME NEW sort, NEW n \in Nat, NEW k \in Nat, k <= n, NEW scope \in Scopes, NEW span \in Spans, NEW ctx,
         NEW b, Proper(sort, k, scope, span, ctx, b), NEW self \in Trees(sort)[n][scope][span]
  PROVE  Proper(sort, n, scope, span, ctx, [b EXCEPT !.self = self])
<1> DEFINE c == [b EXCEPT !.self = self]
<1>1. IsAnswer(b) /\ Proper(sort, n, scope, span, ctx, b)
  BY ProperLarger DEF Proper
<1>2. c.op = b.op /\ c.gen = b.gen /\ c.self = self /\ c = Answer(c.op, c.gen, c.self)
  BY <1>1 DEF IsAnswer, Answer
<1> HIDE DEF c
<1>3. Proper(sort, n, scope, span, ctx, c)
  BY <1>1, <1>2 DEF Proper, IsAnswer, NotNil
<1> QED BY <1>3 DEF c

\* The tail of a list is the list without its first element.
LEMMA TailIsWithout ==
  ASSUME NEW q, NEW S, q \in Seq(S), q # <<>>
  PROVE  Tail(q) = Without(q, 1) /\ 1 \in 1 .. Len(q) /\ Len(q) - 1 \in Nat
<1>1. Len(q) \in Nat /\ Len(q) # 0 /\ Tail(q) \in Seq(S) /\ Len(Tail(q)) = Len(q) - 1
  OBVIOUS
<1>2. \A i \in 1 .. Len(Tail(q)) : Tail(q)[i] = q[i + 1]
  OBVIOUS
<1>3. Tail(q) = [i \in 1 .. Len(Tail(q)) |-> Tail(q)[i]]
  <2>1. \A s \in Seq(S) : s = [i \in 1 .. Len(s) |-> s[i]]
    OBVIOUS
  <2> QED BY <1>1, <2>1
<1>4. \A i \in 1 .. (Len(q) - 1) : ~(i < 1)
  BY <1>1
<1>5. Tail(q) = [i \in 1 .. (Len(q) - 1) |-> q[i + 1]]
  BY <1>1, <1>2, <1>3
<1>6. Without(q, 1) = [i \in 1 .. (Len(q) - 1) |-> q[i + 1]]
  BY <1>4 DEF Without
<1> QED BY <1>1, <1>5, <1>6

\* What op of a list made of the answer of its first element.
LEMMA ListParts ==
  ASSUME NEW sort, IsSort(sort), NEW n \in Nat, n <= Size, NEW ask, Responds(ask, sort, n),
         NEW scope \in Scopes, NEW span \in Spans, NEW ctx, ContextFor(sort, scope, ctx),
         NEW q, MemberSeq(sort, n, scope, span, q), List(q) \in Trees(sort)[n][scope][span], n # 0,
         q # <<>>, NEW b \in OpList(ask, List(q), ctx)
  PROVE  \E a \in ask[q[1]][ctx] : \E r :
           OfList(sort, n, scope, span, q, ask, ctx, b, a, r)
<1>1. q \in Seq(NestedTo[n - 1]) /\ Len(q) \in Nat /\ 1 \in 1 .. Len(q) /\ n - 1 \in Nat
  BY DEF MemberSeq
<1>2. List(q).gens = q
  BY DEF List
<1>3. PICK a \in ask[q[1]][ctx] :
        LET self == [List(q) EXCEPT !.gens[1] = a.self]
            copy == CopyOne(self)
        IN b \in IF a.op.type = "crash" THEN {a}
                 ELSE IF CopyCrashes(self) THEN {Crash(self)}
                 ELSE IF ElementExhausted(a)
                 THEN {[d EXCEPT !.self = self] : d \in ask[List(Tail(copy.gens))][ctx]}
                 ELSE IF Len(copy.gens) > 1
                 THEN {Answer(a.op, [copy EXCEPT !.gens[1] = a.gen], self)}
                 ELSE {Answer(a.op, a.gen, self)}
  BY <1>2 DEF OpList
<1> DEFINE r == [q EXCEPT ![1] = a.self]
<1>4. [List(q) EXCEPT !.gens[1] = a.self] = List(r)
  BY DEF List
<1>5. r = [q EXCEPT ![1] = a.self]
  OBVIOUS
<1> HIDE DEF r
<1>6. CASE a.op.type = "crash"
  <2>1. b = a
    BY <1>3, <1>6
  <2>2. OfList(sort, n, scope, span, q, ask, ctx, b, a, r)
    BY <1>1, <1>5, <1>6, <2>1 DEF OfList
  <2> QED BY <2>2
<1>7. CASE a.op.type # "crash"
  <2>1. /\ a.self \in Trees(sort)[n - Len(q)][scope]["any"]
        /\ q[1] \in Trees(sort)[n - Len(q)][scope]["endless"] =>
             a.self \in Trees(sort)[n - Len(q)][scope]["endless"] /\ NotNil(a)
    <3>1. a \in ask[q[1]][ctx] /\ 1 \in 1 .. Len(q)
      BY <1>1, <1>3
    <3> QED BY <1>7, <3>1, MemberAnswer
  <2>2. Like(sort, n, scope, q, r)
    BY <1>1, <1>5, <2>1, LikeSelf, LikeReplaced
  <2>3. CASE CopyCrashes(List(r))
    <3>1. b = Crash(List(r))
      BY <1>3, <1>4, <1>7, <2>3
    <3> QED BY <1>1, <1>3, <1>5, <1>7, <2>2, <2>3, <3>1 DEF OfList
  <2>4. CASE ~CopyCrashes(List(r))
    <3>1. PICK c : CopyOne(List(r)) = List(c) /\ Like(sort, n, scope, q, c) /\ Len(c) = Len(q)
      BY <2>2, LikeCopied
    <3>2. b \in IF ElementExhausted(a)
                THEN {[d EXCEPT !.self = List(r)] : d \in ask[List(Tail(c))][ctx]}
                ELSE IF Len(c) > 1
                THEN {Answer(a.op, [List(c) EXCEPT !.gens[1] = a.gen], List(r))}
                ELSE {Answer(a.op, a.gen, List(r))}
      <4>1. List(c).gens = c
        BY DEF List
      <4> QED BY <1>3, <1>4, <1>7, <2>4, <3>1, <4>1
    <3>3. CASE ElementExhausted(a)
      <4>1. q[1] \notin Trees(sort)[n - Len(q)][scope]["endless"]
        BY <2>1, <3>3 DEF ElementExhausted, NotNil
      <4>2. MemberSeq(sort, n - 1, scope, span, Without(q, 1)) /\ Len(Without(q, 1)) = Len(q) - 1
        BY <1>1, <4>1, FewerMembers
      <4>3. Like(sort, n - 1, scope, Without(q, 1), Without(c, 1))
        BY <1>1, <3>1, <4>2, LikeWithout
      <4>4. MemberSeq(sort, n - 1, scope, span, Without(c, 1))
        BY <1>1, <4>2, <4>3, LikeMembers
      <4>5. Tail(c) = Without(c, 1)
        <5>1. MemberSeq(sort, n, scope, span, c)
          BY <3>1, LikeMembers
        <5>2. c \in Seq(NestedTo[n - 1]) /\ c # <<>>
          BY <1>1, <3>1, <5>1 DEF MemberSeq
        <5> QED BY <5>2, TailIsWithout
      <4>6. \E d \in ask[List(Tail(c))][ctx] : b = [d EXCEPT !.self = List(r)]
        BY <3>2, <3>3
      <4>7. MemberSeq(sort, n - 1, scope, span, Tail(c))
        BY <4>4, <4>5
      <4> QED BY <1>1, <1>3, <1>5, <1>7, <2>2, <3>1, <3>3, <4>5, <4>6, <4>7 DEF OfList
    <3>4. CASE ~ElementExhausted(a) /\ Len(c) > 1
      <4>1. [List(c) EXCEPT !.gens[1] = a.gen] = List([c EXCEPT ![1] = a.gen])
        BY DEF List
      <4>2. b = Answer(a.op, List([c EXCEPT ![1] = a.gen]), List(r))
        BY <3>2, <3>4, <4>1
      <4> QED BY <1>1, <1>3, <1>5, <1>7, <2>2, <3>1, <3>4, <4>2 DEF OfList
    <3>5. CASE ~ElementExhausted(a) /\ ~(Len(c) > 1)
      <4>1. b = Answer(a.op, a.gen, List(r)) /\ Len(q) = 1
        BY <1>1, <3>1, <3>2, <3>5
      <4> QED BY <1>1, <1>3, <1>5, <1>7, <2>2, <3>1, <3>5, <4>1 DEF OfList
    <3> QED BY <3>3, <3>4, <3>5
  <2> QED BY <2>3, <2>4
<1> QED BY <1>6, <1>7

\* The rest of a list answers properly, also when there is none.
LEMMA RestAnswers ==
  ASSUME NEW sort, NEW n \in Nat, n <= Size, n # 0, NEW ask, Responds(ask, sort, n),
         NEW scope \in Scopes, NEW span \in Spans, NEW ctx, ContextFor(sort, scope, ctx),
         NEW q, MemberSeq(sort, n - 1, scope, span, q), NEW d \in ask[List(q)][ctx]
  PROVE  \/ q = <<>> /\ span = "any" /\ d = Nil(List(<<>>))
         \/ n - 1 # 0 /\ q # <<>> /\ List(q) \in Trees(sort)[n - 1][scope][span]
              /\ Proper(sort, n - 1, scope, span, ctx, d)
<1>1. n - 1 \in 0 .. (n - 1) /\ n - 1 \in Nat /\ Size # 0 /\ Len(q) \in Nat /\ q \in Seq(NestedTo[(n - 1) - 1])
  BY SizeAssumption DEF MemberSeq
<1>2. CASE q = <<>>
  <2>1. span = "any"
    <3>1. \A i : i \notin 1 .. Len(<<>>)
      OBVIOUS
    <3> QED BY <1>2, <3>1 DEF MemberSeq, Members, Spans
  <2>2. \A e \in Contexts : ask[List(<<>>)][e] = {Nil(List(<<>>))}
    BY <1>1 DEF Responds
  <2> QED BY <1>2, <2>1, <2>2 DEF ContextFor
<1>3. CASE q # <<>>
  <2>1. n - 1 # 0
    <3>1. 1 \in 1 .. Len(q)
      BY <1>1, <1>3
    <3>2. Len(q) \in 1 .. (n - 1)
      BY <1>1, <3>1, MemberTree
    <3> QED BY <3>2
  <2>2. List(q) \in Trees(sort)[n - 1][scope][span]
    BY <1>1, <2>1, ListTree
  <2>3. Proper(sort, n - 1, scope, span, ctx, d)
    BY <1>1, <2>2, AskedAt
  <2> QED BY <1>3, <2>1, <2>2, <2>3
<1> QED BY <1>2, <1>3

\* op of a list answers properly, also when it goes on with its tail.
LEMMA ListAnswers ==
  ASSUME NEW sort, IsSort(sort), NEW n \in Nat, n <= Size, NEW ask, Responds(ask, sort, n),
         NEW scope \in Scopes, NEW span \in Spans, NEW ctx, ContextFor(sort, scope, ctx),
         NEW g \in Trees(sort)[n][scope][span], g.kind = "list", NEW b \in OpList(ask, g, ctx)
  PROVE  Proper(sort, n, scope, span, ctx, b)
<1> DEFINE q == g.gens
<1>1. /\ n # 0 /\ n - 1 \in Nat /\ n - 1 <= n
      /\ g = List(q) /\ MemberSeq(sort, n, scope, span, q) /\ Len(q) \in Nat
  BY TreeParts DEF Childless, MemberSeq
<1>2. CASE q = <<>>
  <2>1. b = Nil(g)
    BY <1>2 DEF OpList
  <2>2. span = "any"
    <3>1. \A i : i \notin 1 .. Len(q)
      BY <1>2
    <3> QED BY <1>1, <3>1 DEF MemberSeq, Members, Spans
  <2> QED BY <2>1, <2>2, ProperNil
<1>3. CASE q # <<>>
  <2> HIDE DEF q
  <2>0. List(q) \in Trees(sort)[n][scope][span] /\ b \in OpList(ask, List(q), ctx)
    BY <1>1
  <2>1. PICK a, r : a \in ask[q[1]][ctx] /\ OfList(sort, n, scope, span, q, ask, ctx, b, a, r)
    BY <1>1, <1>3, <2>0, ListParts
  <2>2. Proper(sort, n, scope, "any", ctx, a) /\ n - Len(q) \in Nat /\ 1 \in 1 .. Len(q)
    <3>1. 1 \in 1 .. Len(q)
      BY <2>1 DEF OfList
    <3> QED BY <1>1, <2>1, <3>1, MemberAnswer
  <2>3. CASE a.op.type = "crash" /\ b = a
    BY <2>2, <2>3, ProperCrash
  <2>4. CASE b = Crash(List(r))
    BY <2>4, CrashProper
  <2>5. ASSUME a.op.type # "crash", Like(sort, n, scope, q, r), NEW c,
               Like(sort, n, scope, q, c), Len(c) = Len(q)
        PROVE  /\ ElementExhausted(a) /\ MemberSeq(sort, n - 1, scope, span, Tail(c)) =>
                    \A d \in ask[List(Tail(c))][ctx] : b = [d EXCEPT !.self = List(r)] =>
                      Proper(sort, n, scope, span, ctx, b)
               /\ ~ElementExhausted(a) /\ b = Answer(a.op, List([c EXCEPT ![1] = a.gen]), List(r)) =>
                    Proper(sort, n, scope, span, ctx, b)
               /\ ~ElementExhausted(a) /\ Len(q) = 1 /\ b = Answer(a.op, a.gen, List(r)) =>
                    Proper(sort, n, scope, span, ctx, b)
    <3>1. /\ a.gen \in Trees(sort)[n - Len(q)][scope]["any"]
          /\ a.gen \in Trees(sort)[n][scope]["any"]
          /\ a.op.type = "nil" => a.gen = Null
          /\ q[1] \in Trees(sort)[n - Len(q)][scope]["endless"] =>
               /\ a.gen \in Trees(sort)[n - Len(q)][scope]["endless"]
               /\ a.gen \in Trees(sort)[n][scope]["endless"]
               /\ NotNil(a)
      BY <1>1, <2>1, <2>2, <2>5, MemberAnswer
    <3>2. List(r) \in Trees(sort)[n][scope][span]
      BY <1>1, <2>5, LikeMembers, ListTree
    <3>3. ASSUME MemberSeq(sort, n - 1, scope, span, Tail(c)),
                 NEW d \in ask[List(Tail(c))][ctx], b = [d EXCEPT !.self = List(r)]
          PROVE  Proper(sort, n, scope, span, ctx, b)
      <4>1. CASE span = "any" /\ d = Nil(List(<<>>))
        <5>1. b = Nil(List(r))
          BY <3>3, <4>1 DEF Nil, Answer
        <5> QED BY <3>2, <4>1, <5>1, ProperNil
      <4>2. CASE Proper(sort, n - 1, scope, span, ctx, d)
        BY <1>1, <3>2, <3>3, <4>2, ProperInstead
      <4> QED BY <1>1, <3>3, <4>1, <4>2, RestAnswers
    <3>4. ASSUME ~ElementExhausted(a), b = Answer(a.op, List([c EXCEPT ![1] = a.gen]), List(r))
          PROVE  Proper(sort, n, scope, span, ctx, b)
      <4> DEFINE x == [c EXCEPT ![1] = a.gen]
      <4>1. Like(sort, n, scope, q, x)
        BY <2>2, <2>5, <3>1, LikeReplaced
      <4> HIDE DEF x
      <4>2. List(x) \in Trees(sort)[n][scope]["any"] /\ (span = "endless" => List(x) \in Trees(sort)[n][scope]["endless"])
        <5>1. MemberSeq(sort, n, scope, "any", q)
          BY <1>1, AnyMembers
        <5> QED BY <1>1, <4>1, <5>1, LikeMembers, ListTree, BothSpans
      <4>3. a.op.type # "nil" /\ List(x) # Null
        BY <3>1, <3>4 DEF ElementExhausted, List, Null
      <4>4. b = Answer(a.op, List(x), List(r))
        BY <3>4 DEF x
      <4> QED BY <2>2, <2>5, <3>2, <4>2, <4>3, <4>4, BothSpans, ProperWrapped
    <3>5. ASSUME Len(q) = 1, b = Answer(a.op, a.gen, List(r))
          PROVE  Proper(sort, n, scope, span, ctx, b)
      <4>1. span = "endless" =>
              a.gen # Null /\ a.op.type # "nil" /\ a.gen \in Trees(sort)[n][scope]["endless"]
        BY <1>1, <3>1, <3>5 DEF MemberSeq, Members, NotNil
      <4> QED BY <2>2, <2>5, <3>1, <3>2, <3>5, <4>1, BothSpans, ProperWrapped
    <3> QED BY <3>3, <3>4, <3>5
  <2> QED BY <2>1, <2>3, <2>4, <2>5 DEF OfList
<1> QED BY <1>2, <1>3

\* What op of a mix made of the answers of its members.
LEMMA MixParts ==
  ASSUME NEW sort, IsSort(sort), NEW n \in Nat, n <= Size, NEW ask, Responds(ask, sort, n),
         NEW scope \in Scopes, NEW span \in Spans, NEW ctx, ContextFor(sort, scope, ctx),
         NEW g \in Trees(sort)[n][scope][span], g.kind = "mix", NEW b \in OpMix(ask, g, ctx)
  PROVE  \E a \in ask[g.gens[g.idx]][ctx] : \E r :
           OfMix(sort, n, scope, span, g.gens, g.idx, ask, ctx, b, a, r)
<1> DEFINE q == g.gens
           k == g.idx
<1>0. /\ n # 0 /\ g = Mix(k, q) /\ MemberSeq(sort, n, scope, span, q)
      /\ k \in 1 .. Len(q) /\ MemberSeq(sort, n, scope, sort.mixes, q)
  BY TreeParts DEF Childless
<1>1. q \in Seq(NestedTo[n - 1]) /\ Len(q) \in Nat /\ n - 1 \in Nat /\ DOMAIN q = 1 .. Len(q)
  BY <1>0 DEF MemberSeq
<1>2. q # <<>> /\ Len(q) \in Nat
  BY <1>0, <1>1
<1> DEFINE of(a, self, members) ==
             LET copied == IF NotNil(a) THEN DOMAIN members ELSE DOMAIN members \ {k}
             IN IF a.op.type = "crash" THEN {a}
                ELSE IF \E i \in copied : MemberCrashes(members[i]) THEN {Crash(self)}
                ELSE IF NotNil(a)
                THEN {Answer(a.op, Mix(i, [CopyAll(members) EXCEPT ![k] = a.gen]), self) : i \in DOMAIN CopyAll(members)}
                ELSE IF AllBut(members, k) = <<>> THEN DivisionByZero(Nil(self))
                ELSE {[d EXCEPT !.self = self] :
                      d \in UNION {ask[Mix(i, AllBut(members, k))][ctx] : i \in DOMAIN AllBut(members, k)}}
<1>3. PICK a \in ask[q[k]][ctx] :
        b \in of(a, [g EXCEPT !.gens[k] = a.self], [g EXCEPT !.gens[k] = a.self].gens)
  BY <1>2 DEF OpMix
<1> DEFINE r == [q EXCEPT ![k] = a.self]
           c == CopyAll(r)
           rest == AllBut(r, k)
<1>4. [g EXCEPT !.gens[k] = a.self] = Mix(k, r)
  <2>1. [g EXCEPT !.gens[k] = a.self] = [g EXCEPT !.gens = r]
    OBVIOUS
  <2> HIDE DEF r, q, k
  <2>2. [Mix(k, q) EXCEPT !.gens = r] = Mix(k, r)
    BY DEF Mix
  <2> QED BY <1>0, <2>1, <2>2
<1>5. Mix(k, r).gens = r
  BY DEF Mix
<1>6. b \in of(a, Mix(k, r), r)
  <2> HIDE DEF of, r, q, k
  <2> QED BY <1>3, <1>4, <1>5
<1>7. r = [q EXCEPT ![k] = a.self] /\ a \in ask[q[k]][ctx]
  BY <1>3
<1> HIDE DEF r, q, k
<1> SUFFICES OfMix(sort, n, scope, span, q, k, ask, ctx, b, a, r)
  BY <1>7 DEF q, k
<1>8. CASE a.op.type = "crash"
  BY <1>6, <1>7, <1>8 DEF OfMix
<1>9. CASE a.op.type # "crash"
  <2>1. /\ a.self \in Trees(sort)[n - Len(q)][scope]["any"]
        /\ q[k] \in Trees(sort)[n - Len(q)][scope]["endless"] =>
             a.self \in Trees(sort)[n - Len(q)][scope]["endless"] /\ NotNil(a)
    BY <1>0, <1>7, <1>9, MemberAnswer
  <2>2. Like(sort, n, scope, q, r)
    BY <1>0, <1>7, <2>1, LikeSelf, LikeReplaced
  <2>3. DOMAIN r = 1 .. Len(q)
    BY <2>2 DEF Like
  <2>4. Like(sort, n, scope, q, c) /\ Len(c) = Len(q) /\ DOMAIN c = 1 .. Len(q)
    <3>1. Like(sort, n, scope, q, c) /\ Len(c) = Len(q)
      BY <1>0, <2>2, LikeCopied
    <3> HIDE DEF c
    <3> QED BY <3>1 DEF Like
  <2>5. CASE \E i \in IF NotNil(a) THEN DOMAIN r ELSE DOMAIN r \ {k} : MemberCrashes(r[i])
    <3>1. b = Crash(Mix(k, r))
      BY <1>6, <1>9, <2>5
    <3>2. \E i \in 1 .. Len(q) : MemberCrashes(r[i])
      BY <2>3, <2>5
    <3> QED BY <1>7, <1>9, <2>2, <3>1, <3>2 DEF OfMix
  <2>6. CASE NotNil(a) /\ ~(\E i \in DOMAIN r : MemberCrashes(r[i]))
    <3>1. b \in {Answer(a.op, Mix(i, [c EXCEPT ![k] = a.gen]), Mix(k, r)) : i \in DOMAIN c}
      BY <1>6, <1>9, <2>6
    <3>2. \E i \in 1 .. Len(q) : b = Answer(a.op, Mix(i, [c EXCEPT ![k] = a.gen]), Mix(k, r))
      BY <2>4, <3>1
    <3> QED BY <1>7, <1>9, <2>2, <2>4, <2>6, <3>2 DEF OfMix
  <2>7. CASE ~NotNil(a) /\ ~(\E i \in DOMAIN r \ {k} : MemberCrashes(r[i]))
    <3>1. rest = Without(c, k)
      <4>1. ASSUME NEW j \in 1 .. (Len(q) - 1)
            PROVE  (IF j < k THEN j ELSE j + 1) \in 1 .. Len(q)
        BY <1>0, <1>2
      <4>2. \A i \in 1 .. Len(q) : c[i] = CopyOne(r[i])
        BY <2>3 DEF CopyAll
      <4>3. Len(r) = Len(q)
        BY <1>0, <2>2, LikeMembers
      <4> HIDE DEF c
      <4>4. rest = [j \in 1 .. (Len(q) - 1) |-> CopyOne(r[IF j < k THEN j ELSE j + 1])]
        BY <4>3 DEF AllBut
      <4>5. Without(c, k) = [j \in 1 .. (Len(q) - 1) |-> c[IF j < k THEN j ELSE j + 1]]
        BY <2>4 DEF Without
      <4> HIDE DEF rest
      <4> QED BY <4>1, <4>2, <4>4, <4>5
    <3>2. b \in IF rest = <<>> THEN DivisionByZero(Nil(Mix(k, r)))
                ELSE {[d EXCEPT !.self = Mix(k, r)] :
                      d \in UNION {ask[Mix(i, rest)][ctx] : i \in DOMAIN rest}}
      BY <1>6, <1>9, <2>7
    <3> HIDE DEF rest
    <3>3. q[k] \notin Trees(sort)[n - Len(q)][scope]["endless"]
      BY <2>1, <2>7
    <3>4. /\ MemberSeq(sort, n - 1, scope, span, Without(q, k))
          /\ MemberSeq(sort, n - 1, scope, sort.mixes, Without(q, k))
          /\ Len(Without(q, k)) = Len(q) - 1
      <4>1. \A sp : MemberSeq(sort, n, scope, sp, q) =>
                      MemberSeq(sort, n - 1, scope, sp, Without(q, k)) /\ Len(Without(q, k)) = Len(q) - 1
        BY <1>0, <3>3, FewerMembers
      <4> QED BY <1>0, <4>1
    <3>5. Like(sort, n - 1, scope, Without(q, k), Without(c, k))
      <4> HIDE DEF c
      <4>1. Len(q) \in Nat
        BY <1>1
      <4> QED BY <1>0, <2>4, <3>4, <4>1, LikeWithout
    <3>6. /\ MemberSeq(sort, n - 1, scope, span, rest)
          /\ MemberSeq(sort, n - 1, scope, sort.mixes, rest)
          /\ Len(rest) = Len(q) - 1
      <4> HIDE DEF c
      <4>1. n - 1 \in Nat
        BY <1>1
      <4> QED BY <3>1, <3>4, <3>5, <4>1, LikeMembers
    <3>7. CASE rest = <<>>
      <4>1. b \in DivisionByZero(Nil(Mix(k, r)))
        BY <3>2, <3>7
      <4> QED BY <1>7, <1>9, <2>2, <2>7, <3>1, <3>6, <3>7, <4>1 DEF OfMix
    <3>8. CASE rest # <<>>
      <4>1. DOMAIN rest = 1 .. Len(rest) /\ Len(rest) \in Nat
        BY <3>6 DEF MemberSeq
      <4>2. \E i \in 1 .. Len(rest) : \E d \in ask[Mix(i, rest)][ctx] : b = [d EXCEPT !.self = Mix(k, r)]
        BY <3>2, <3>8, <4>1
      <4>3. n - 1 # 0
        <5>1. Len(rest) \in 1 .. (n - 1)
          BY <1>1, <3>6, MemberTree, <4>2
        <5> QED BY <5>1
      <4> QED BY <1>7, <1>9, <2>2, <2>7, <3>1, <3>6, <4>2, <4>3 DEF OfMix
    <3> QED BY <3>7, <3>8
  <2> QED BY <2>5, <2>6, <2>7
<1> QED BY <1>8, <1>9

\* op of a mix answers properly; it crashes only if no member is endless.
LEMMA MixAnswers ==
  ASSUME NEW sort, IsSort(sort), NEW n \in Nat, n <= Size, NEW ask, Responds(ask, sort, n),
         NEW scope \in Scopes, NEW span \in Spans, NEW ctx, ContextFor(sort, scope, ctx),
         NEW g \in Trees(sort)[n][scope][span], g.kind = "mix", NEW b \in OpMix(ask, g, ctx)
  PROVE  Proper(sort, n, scope, span, ctx, b)
<1> DEFINE q == g.gens
           k == g.idx
<1>1. /\ n # 0 /\ n - 1 \in 0 .. (n - 1) /\ n - 1 \in Nat /\ n - 1 <= n
      /\ g = Mix(k, q) /\ MemberSeq(sort, n, scope, span, q)
      /\ k \in 1 .. Len(q) /\ MemberSeq(sort, n, scope, sort.mixes, q)
  BY TreeParts DEF Childless
<1>2. PICK a, r : a \in ask[q[k]][ctx] /\ OfMix(sort, n, scope, span, q, k, ask, ctx, b, a, r)
  BY MixParts
<1> HIDE DEF q, k
<1>3. Proper(sort, n, scope, "any", ctx, a) /\ n - Len(q) \in Nat
  BY <1>1, <1>2, MemberAnswer
<1>4. ASSUME NEW x, Like(sort, n, scope, q, x), NEW i \in 1 .. Len(q)
      PROVE  /\ Mix(i, x) \in Trees(sort)[n][scope][span]
             /\ Mix(i, x) \in Trees(sort)[n][scope]["any"]
  <2>1. /\ MemberSeq(sort, n, scope, span, x) /\ MemberSeq(sort, n, scope, sort.mixes, x)
        /\ MemberSeq(sort, n, scope, "any", x) /\ Len(x) = Len(q)
    BY <1>1, <1>4, LikeMembers, AnyMembers
  <2> QED BY <1>1, <2>1, ListTree, BothSpans
<1>5. CASE a.op.type = "crash" /\ b = a
  BY <1>3, <1>5, ProperCrash
<1>6. CASE b = Crash(Mix(k, r))
  BY <1>6, CrashProper
<1>7. ASSUME a.op.type # "crash", Like(sort, n, scope, q, r), NotNil(a),
             NEW c, Like(sort, n, scope, q, c), NEW i \in 1 .. Len(q),
             b = Answer(a.op, Mix(i, [c EXCEPT ![k] = a.gen]), Mix(k, r))
      PROVE  Proper(sort, n, scope, span, ctx, b)
  <2> DEFINE x == [c EXCEPT ![k] = a.gen]
  <2>1. Like(sort, n, scope, q, x)
    <3>1. /\ a.gen \in Trees(sort)[n - Len(q)][scope]["any"]
          /\ q[k] \in Trees(sort)[n - Len(q)][scope]["endless"] =>
               a.gen \in Trees(sort)[n - Len(q)][scope]["endless"]
      BY <1>1, <1>2, <1>7, MemberAnswer
    <3> QED BY <1>1, <1>7, <3>1, LikeReplaced
  <2>2. b = Answer(a.op, Mix(i, x), Mix(k, r))
    BY <1>7
  <2> HIDE DEF x
  <2>3. a.op.type # "nil" /\ Mix(i, x) # Null
    BY <1>7 DEF NotNil, Mix, Null
  <2>4. /\ Mix(i, x) \in Trees(sort)[n][scope][span] /\ Mix(i, x) \in Trees(sort)[n][scope]["any"]
        /\ Mix(k, r) \in Trees(sort)[n][scope][span]
    BY <1>1, <1>4, <1>7, <2>1
  <2> QED BY <1>3, <1>7, <2>2, <2>3, <2>4, BothSpans, ProperWrapped
<1>8. ASSUME a.op.type # "crash", Like(sort, n, scope, q, r), NEW rest,
             MemberSeq(sort, n - 1, scope, span, rest), MemberSeq(sort, n - 1, scope, sort.mixes, rest)
      PROVE  /\ rest = <<>> /\ b \in DivisionByZero(Nil(Mix(k, r))) => Proper(sort, n, scope, span, ctx, b)
             /\ n - 1 # 0 => \A i \in 1 .. Len(rest) : \A d \in ask[Mix(i, rest)][ctx] :
                               b = [d EXCEPT !.self = Mix(k, r)] => Proper(sort, n, scope, span, ctx, b)
  <2>1. Mix(k, r) \in Trees(sort)[n][scope][span]
    BY <1>1, <1>4, <1>8
  <2>2. ASSUME rest = <<>>, b \in DivisionByZero(Nil(Mix(k, r))) PROVE Proper(sort, n, scope, span, ctx, b)
    <3>1. span = "any"
      <4>1. \A i : i \notin 1 .. Len(<<>>)
        OBVIOUS
      <4> QED BY <1>8, <2>2, <4>1 DEF MemberSeq, Members, Spans
    <3>2. b = Nil(Mix(k, r)) \/ b = Crash(Nil(Mix(k, r)).self)
      BY <2>2 DEF DivisionByZero
    <3> QED BY <2>1, <3>1, <3>2, ProperNil, CrashProper
  <2>3. ASSUME n - 1 # 0, NEW i \in 1 .. Len(rest), NEW d \in ask[Mix(i, rest)][ctx],
               b = [d EXCEPT !.self = Mix(k, r)]
        PROVE  Proper(sort, n, scope, span, ctx, b)
    <3>1. Mix(i, rest) \in Trees(sort)[n - 1][scope][span]
      BY <1>1, <1>8, <2>3, ListTree
    <3>2. Proper(sort, n - 1, scope, span, ctx, d)
      BY <1>1, <2>3, <3>1, AskedAt
    <3> QED BY <1>1, <2>1, <2>3, <3>2, ProperInstead
  <2> QED BY <2>2, <2>3
<1> QED BY <1>2, <1>5, <1>6, <1>7, <1>8 DEF OfMix

\* When an element gave an answer, soonestOpMap finds one.
LEMMA SoonestExists ==
  ASSUME NEW m \in Nat, NEW s, DOMAIN s = 1 .. m, NEW time \in Int,
         \A i \in 1 .. m : IsAnswer(s[i]) /\ s[i].op.type # "crash"
                             /\ (s[i].op.type = "invoke" => time <= s[i].op.time),
         NEW j \in 1 .. m, NotNil(s[j])
  PROVE  Soonest(s) # {}
<1> DEFINE given   == {i \in DOMAIN s : NotNil(s[i])}
           pending == {i \in given : s[i].op.type = "pending"}
           due     == given \ pending
<1>1. Soonest(s) = IF due # {} THEN {i \in due : \A k \in due : s[i].op.time <= s[k].op.time}
                   ELSE {i \in pending : \A k \in pending : k <= i}
  BY DEF Soonest
<1>2. due \subseteq 1 .. m /\ pending \subseteq 1 .. m /\ given \subseteq 1 .. m /\ j \in given
      /\ given = due \cup pending
  OBVIOUS
<1>3. \A i \in due : s[i].op.time \in Int /\ time <= s[i].op.time
  BY DEF IsAnswer, NotNil
<1> HIDE DEF given, pending, due
<1>4. CASE due # {}
  <2> DEFINE T == {s[i].op.time - time : i \in due}
  <2>1. T \in SUBSET Nat /\ T # {}
    BY <1>3, <1>4
  <2> HIDE DEF T
  <2>2. PICK t \in T : \A u \in T : t <= u
    BY <2>1, LeastElement
  <2>3. PICK i \in due : t = s[i].op.time - time
    BY DEF T
  <2>4. ASSUME NEW k \in due PROVE s[i].op.time <= s[k].op.time
    <3>1. s[k].op.time - time \in T
      BY DEF T
    <3>2. s[i].op.time - time <= s[k].op.time - time
      BY <2>2, <2>3, <3>1
    <3> QED BY <1>3, <3>2
  <2> QED BY <1>1, <1>4, <2>4
<1>5. CASE due = {}
  <2> DEFINE T == {m - i : i \in pending}
  <2>1. T \in SUBSET Nat /\ T # {}
    BY <1>2, <1>5
  <2> HIDE DEF T
  <2>2. PICK t \in T : \A u \in T : t <= u
    BY <2>1, LeastElement
  <2>3. PICK i \in pending : t = m - i
    BY DEF T
  <2>4. ASSUME NEW k \in pending PROVE k <= i
    <3>1. m - k \in T
      BY DEF T
    <3>2. m - i <= m - k
      BY <2>2, <2>3, <3>1
    <3> QED BY <1>2, <3>2
  <2> QED BY <1>1, <1>5, <2>4
<1> QED BY <1>4, <1>5

\* The soonest answer is one of the answers.
LEMMA SoonestGiven ==
  ASSUME NEW s, NEW i \in Soonest(s) PROVE i \in DOMAIN s /\ NotNil(s[i])
BY DEF Soonest

\* What op of an any made of the answers of its members.
LEMMA AnyParts ==
  ASSUME NEW sort, IsSort(sort), NEW n \in Nat, n <= Size, NEW ask, Responds(ask, sort, n),
         NEW scope \in Scopes, NEW span \in Spans, NEW ctx, ContextFor(sort, scope, ctx),
         NEW g \in Trees(sort)[n][scope][span], g.kind = "any", NEW b \in OpAny(ask, g, ctx)
  PROVE  \E s, r : OfAny(sort, n, scope, g.gens, b, s, r)
                     /\ \A i \in 1 .. Len(g.gens) : s[i] \in ask[g.gens[i]][ctx]
<1> DEFINE q == g.gens
           of(s, self) ==
             LET crash == {s[i] : i \in {i \in DOMAIN s : s[i].op.type = "crash"}}
             IN IF crash # {} THEN crash
                ELSE IF Soonest(s) = {} THEN {Nil(self)}
                ELSE IF CopyCrashes(self) THEN {Crash(self)}
                ELSE {Answer(s[i].op, [CopyOne(self) EXCEPT !.gens[i] = s[i].gen], self) : i \in Soonest(s)}
<1>1. /\ n # 0 /\ MemberSeq(sort, n, scope, span, q) /\ DOMAIN q = 1 .. Len(q) /\ Len(q) \in Nat
  <2>1. n # 0 /\ MemberSeq(sort, n, scope, span, q)
    BY TreeParts DEF Childless
  <2> HIDE DEF q
  <2> QED BY <2>1 DEF MemberSeq
<1>2. PICK s : /\ DOMAIN s = DOMAIN q /\ \A i \in DOMAIN q : s[i] \in ask[q[i]][ctx]
               /\ b \in of(s, Any([i \in DOMAIN q |-> s[i].self]))
  <2> DEFINE vectors == {s \in [DOMAIN q -> UNION {ask[q[i]][ctx] : i \in DOMAIN q}] :
                           \A i \in DOMAIN q : s[i] \in ask[q[i]][ctx]}
  <2>1. b \in UNION {of(s, Any([i \in DOMAIN q |-> s[i].self])) : s \in vectors}
    BY DEF OpAny
  <2> HIDE DEF of
  <2>2. PICK s \in vectors : b \in of(s, Any([i \in DOMAIN q |-> s[i].self]))
    BY <2>1
  <2> QED BY <2>2
<1> DEFINE r == [i \in DOMAIN q |-> s[i].self]
<1>3. b \in of(s, Any(r))
  BY <1>2
<1>4. \A i \in 1 .. Len(q) : s[i] \in ask[q[i]][ctx]
  BY <1>1, <1>2
<1>5. DOMAIN s = 1 .. Len(q)
  BY <1>1, <1>2
<1>6. r = [i \in 1 .. Len(q) |-> s[i].self]
  BY <1>1
<1>7. DOMAIN r = 1 .. Len(q) /\ r = [i \in 1 .. Len(q) |-> r[i]] /\ \A i \in 1 .. Len(q) : r[i] = s[i].self
  BY <1>6
<1> HIDE DEF q, r
<1> SUFFICES OfAny(sort, n, scope, q, b, s, r)
  BY <1>4 DEF q
<1>8. CASE \E i \in 1 .. Len(q) : s[i].op.type = "crash"
  <2>1. PICK i \in 1 .. Len(q) : b = s[i] /\ s[i].op.type = "crash"
    BY <1>3, <1>5, <1>8
  <2> HIDE DEF of
  <2> QED BY <1>5, <1>6, <2>1 DEF OfAny
<1>9. CASE \A i \in 1 .. Len(q) : s[i].op.type # "crash"
  <2>1. b \in IF Soonest(s) = {} THEN {Nil(Any(r))}
              ELSE IF CopyCrashes(Any(r)) THEN {Crash(Any(r))}
              ELSE {Answer(s[i].op, [CopyOne(Any(r)) EXCEPT !.gens[i] = s[i].gen], Any(r)) : i \in Soonest(s)}
    BY <1>3, <1>5, <1>9
  <2> HIDE DEF of
  <2>2. ASSUME NEW i \in 1 .. Len(q)
        PROVE  /\ s[i].self \in Trees(sort)[n - Len(q)][scope]["any"]
               /\ q[i] \in Trees(sort)[n - Len(q)][scope]["endless"] =>
                    s[i].self \in Trees(sort)[n - Len(q)][scope]["endless"]
    BY <1>1, <1>4, <1>9, MemberAnswer
  <2>3. Like(sort, n, scope, q, r)
    BY <1>7, <2>2 DEF Like
  <2>4. PICK c : CopyOne(Any(r)) = Any(c) /\ Like(sort, n, scope, q, c)
    BY <1>1, <2>3, LikeCopied
  <2>5. CASE b = Nil(Any(r)) /\ Soonest(s) = {}
    BY <1>5, <1>6, <1>9, <2>3, <2>5 DEF OfAny
  <2>6. CASE b = Crash(Any(r)) /\ CopyCrashes(Any(r))
    BY <1>5, <1>6, <1>9, <2>3, <2>6 DEF OfAny
  <2>7. ASSUME NEW i \in Soonest(s), b = Answer(s[i].op, [CopyOne(Any(r)) EXCEPT !.gens[i] = s[i].gen], Any(r))
        PROVE  OfAny(sort, n, scope, q, b, s, r)
    <3>1. [Any(c) EXCEPT !.gens[i] = s[i].gen] = Any([c EXCEPT ![i] = s[i].gen])
      BY DEF Any
    <3>2. b = Answer(s[i].op, Any([c EXCEPT ![i] = s[i].gen]), Any(r))
      BY <2>4, <2>7, <3>1
    <3> QED BY <1>5, <1>6, <1>9, <2>3, <2>4, <3>2 DEF OfAny
  <2> QED BY <2>1, <2>5, <2>6, <2>7
<1> QED BY <1>8, <1>9

\* op of an any answers properly.
LEMMA AnyAnswers ==
  ASSUME NEW sort, IsSort(sort), NEW n \in Nat, n <= Size, NEW ask, Responds(ask, sort, n),
         NEW scope \in Scopes, NEW span \in Spans, NEW ctx, ContextFor(sort, scope, ctx),
         NEW g \in Trees(sort)[n][scope][span], g.kind = "any", NEW b \in OpAny(ask, g, ctx)
  PROVE  Proper(sort, n, scope, span, ctx, b)
<1> DEFINE q == g.gens
<1>1. /\ n # 0 /\ MemberSeq(sort, n, scope, span, q) /\ Len(q) \in Nat
  BY TreeParts DEF Childless, MemberSeq
<1>2. PICK s, r : OfAny(sort, n, scope, q, b, s, r) /\ \A i \in 1 .. Len(q) : s[i] \in ask[q[i]][ctx]
  BY AnyParts
<1> HIDE DEF q
<1>3. ASSUME NEW i \in 1 .. Len(q)
      PROVE  Proper(sort, n, scope, "any", ctx, s[i])
  BY <1>1, <1>2, MemberAnswer
<1>4. ASSUME NEW i \in 1 .. Len(q), s[i].op.type = "crash", b = s[i]
      PROVE  Proper(sort, n, scope, span, ctx, b)
  BY <1>3, <1>4, ProperCrash
<1>5. CASE b = Crash(Any(r))
  BY <1>5, CrashProper
<1>6. ASSUME \A i \in 1 .. Len(q) : s[i].op.type # "crash", Like(sort, n, scope, q, r), DOMAIN s = 1 .. Len(q)
      PROVE  /\ Soonest(s) = {} /\ b = Nil(Any(r)) => Proper(sort, n, scope, span, ctx, b)
             /\ \A c : Like(sort, n, scope, q, c) => \A i \in Soonest(s) :
                  b = Answer(s[i].op, Any([c EXCEPT ![i] = s[i].gen]), Any(r)) =>
                    Proper(sort, n, scope, span, ctx, b)
  <2>1. Any(r) \in Trees(sort)[n][scope][span]
    BY <1>1, <1>6, LikeMembers, ListTree
  <2>2. ASSUME NEW i \in 1 .. Len(q)
        PROVE  /\ s[i].gen \in Trees(sort)[n - Len(q)][scope]["any"]
               /\ q[i] \in Trees(sort)[n - Len(q)][scope]["endless"] =>
                    s[i].gen \in Trees(sort)[n - Len(q)][scope]["endless"] /\ NotNil(s[i])
    BY <1>1, <1>2, <1>6, MemberAnswer
  <2>3. ASSUME Soonest(s) = {}, b = Nil(Any(r)) PROVE Proper(sort, n, scope, span, ctx, b)
    <3>1. span = "any"
      <4>1. SUFFICES ASSUME span = "endless" PROVE FALSE
        BY DEF Spans
      <4>2. PICK j \in 1 .. Len(q) : q[j] \in Trees(sort)[n - Len(q)][scope]["endless"]
        BY <1>1, <4>1 DEF MemberSeq, Members
      <4>3. NotNil(s[j])
        BY <2>2, <4>2
      <4>4. ctx.time \in Int
        BY DEF ContextFor, Contexts
      <4>5. \A i \in 1 .. Len(q) : /\ IsAnswer(s[i]) /\ s[i].op.type # "crash"
                                   /\ s[i].op.type = "invoke" => ctx.time <= s[i].op.time
        BY <1>3, <1>6 DEF Proper
      <4> QED BY <1>1, <1>6, <2>3, <4>3, <4>4, <4>5, SoonestExists
    <3> QED BY <2>1, <2>3, <3>1, ProperNil
  <2>4. ASSUME NEW c, Like(sort, n, scope, q, c), NEW i \in Soonest(s),
               b = Answer(s[i].op, Any([c EXCEPT ![i] = s[i].gen]), Any(r))
        PROVE  Proper(sort, n, scope, span, ctx, b)
    <3>1. i \in 1 .. Len(q) /\ NotNil(s[i])
      BY <1>6, SoonestGiven
    <3> DEFINE x == [c EXCEPT ![i] = s[i].gen]
    <3>2. Like(sort, n, scope, q, x)
      BY <2>2, <2>4, <3>1, LikeReplaced
    <3>3. b = Answer(s[i].op, Any(x), Any(r))
      BY <2>4
    <3> HIDE DEF x
    <3>4. Any(x) \in Trees(sort)[n][scope]["any"] /\ Any(x) \in Trees(sort)[n][scope][span]
      <4>1. MemberSeq(sort, n, scope, "any", q)
        BY <1>1, AnyMembers
      <4>2. MemberSeq(sort, n, scope, "any", x) /\ MemberSeq(sort, n, scope, span, x)
        BY <1>1, <3>2, <4>1, LikeMembers
      <4> QED BY <1>1, <4>2, ListTree, BothSpans
    <3>5. s[i].op.type # "nil" /\ Any(x) # Null
      BY <3>1 DEF NotNil, Any, Null
    <3>6. s[i].op.type # "crash" /\ Proper(sort, n, scope, "any", ctx, s[i])
      BY <1>3, <1>6, <3>1
    <3> QED BY <2>1, <3>3, <3>4, <3>5, <3>6, BothSpans, ProperWrapped
  <2> QED BY <2>3, <2>4
<1> QED BY <1>2, <1>4, <1>5, <1>6 DEF OfAny

\* If the smaller generators answer properly, op of the next ones does.
LEMMA OpStep ==
  ASSUME NEW sort, IsSort(sort), NEW n \in Nat, n <= Size, NEW ask, Responds(ask, sort, n),
         NEW scope \in Scopes, NEW span \in Spans, NEW ctx, ContextFor(sort, scope, ctx),
         NEW g \in Trees(sort)[n][scope][span], NEW b \in OpOver(ask)[g][ctx]
  PROVE  Proper(sort, n, scope, span, ctx, b)
<1>1. b \in OpNode(ask, g, ctx)
  BY TreeIsGenerator DEF OpOver, ContextFor
<1>2. g.kind \in Kinds
  BY TreeElim DEF WellFormed
<1>3. CASE g.kind = "null"
  <2>1. b = Nil(g)
    BY <1>1, <1>3 DEF OpNode
  <2> QED BY <1>3, <2>1, LeafAnswers
<1>4. CASE g.kind = "op"
  <2>1. b \in OpOnce(g, ctx)
    BY <1>1, <1>4 DEF OpNode
  <2> QED BY <1>4, <2>1, LeafAnswers
<1>5. CASE g.kind = "fun"
  <2>1. b \in OpFun(g, ctx)
    BY <1>1, <1>5 DEF OpNode
  <2> QED BY <1>5, <2>1, LeafAnswers
<1>6. CASE g.kind = "list"
  <2>1. b \in OpList(ask, g, ctx)
    BY <1>1, <1>6 DEF OpNode
  <2> QED BY <1>6, <2>1, ListAnswers
<1>7. CASE g.kind = "validate"
  <2>1. b \in OpValidate(ask, g, ctx)
    BY <1>1, <1>7 DEF OpNode
  <2> QED BY <1>7, <2>1, ValidateAnswers
<1>8. CASE g.kind = "onThreads"
  <2>1. b \in OpOnThreads(ask, g, ctx)
    BY <1>1, <1>8 DEF OpNode
  <2> QED BY <1>8, <2>1, OnThreadsAnswers
<1>9. CASE g.kind = "timeLimit"
  <2>1. b \in OpTimeLimit(ask, g, ctx)
    BY <1>1, <1>9 DEF OpNode
  <2> QED BY <1>9, <2>1, TimeLimitAnswers
<1>10. CASE g.kind = "stagger"
  <2>1. b \in OpStagger(ask, g, ctx)
    BY <1>1, <1>10 DEF OpNode
  <2> QED BY <1>10, <2>1, StaggerAnswers
<1>11. CASE g.kind = "mix"
  <2>1. b \in OpMix(ask, g, ctx)
    BY <1>1, <1>11 DEF OpNode
  <2> QED BY <1>11, <2>1, MixAnswers
<1>12. CASE g.kind = "any"
  <2>1. b \in OpAny(ask, g, ctx)
    BY <1>1, <1>12 DEF OpNode
  <2> QED BY <1>12, <2>1, AnyAnswers
<1> QED BY <1>2, <1>3, <1>4, <1>5, <1>6, <1>7, <1>8, <1>9, <1>10, <1>11, <1>12 DEF Kinds

\* op answers properly, for every depth of the recursion.
LEMMA EmptyListAnswer ==
  ASSUME NEW ask, Size # 0, NEW ctx \in Contexts
  PROVE  OpOver(ask)[List(<<>>)][ctx] = {Nil(List(<<>>))}
<1>1. List(<<>>) \in Generators
  <2>1. Size - 1 \in Nat /\ NestedTo[Size] = NodesOver(NestedTo[Size - 1]) /\ <<>> \in Seq(NestedTo[Size - 1])
    <3>1. Size - 1 \in Nat /\ Size \in Nat
      BY SizeAssumption
    <3>2. NestedTo[Size] = NodesOver(NestedTo[Size - 1])
      BY <3>1, NestedValue
    <3> QED BY <3>1, <3>2, EmptySeq
  <2>2. \A q \in Seq(NestedTo[Size - 1]) : List(q) \in NodesOver(NestedTo[Size - 1])
    BY Nodes
  <2>3. List(<<>>) \in NodesOver(NestedTo[Size - 1])
    BY <2>1, <2>2
  <2> QED BY <2>1, <2>3 DEF Generators
<1>2. OpOver(ask)[List(<<>>)][ctx] = OpNode(ask, List(<<>>), ctx)
  BY <1>1 DEF OpOver
<1> QED BY <1>2 DEF OpNode, OpList, List

\* One more level of the recursion answers properly for one more size.
LEMMA RespondsOnce ==
  ASSUME NEW sort, IsSort(sort), NEW k \in Nat, k <= Size, NEW ask,
         \A j \in 0 .. k : Responds(ask, sort, j)
  PROVE  Responds(OpOver(ask), sort, k + 1)
<1>1. ASSUME NEW j \in 0 .. ((k + 1) - 1), NEW scope \in Scopes, NEW span \in Spans, NEW ctx,
             ContextFor(sort, scope, ctx), NEW g \in Trees(sort)[j][scope][span], NEW a \in OpOver(ask)[g][ctx]
      PROVE  Proper(sort, j, scope, span, ctx, a)
  <2>1. j \in 0 .. k /\ j \in Nat /\ j <= Size
    BY SizeAssumption
  <2> QED BY <1>1, <2>1, OpStep
<1> QED BY <1>1, EmptyListAnswer DEF Responds

\* After k levels op answers properly for the generators of size k.
LEMMA OpResponds ==
  ASSUME NEW sort, IsSort(sort)
  PROVE  \A k \in 0 .. Size : Responds(OpAt[k], sort, k + 1)
<1> DEFINE P == {k \in Nat : k <= Size => Responds(OpAt[k], sort, k + 1)}
<1>1. 0 \in P
  <2>1. OpAt[0] = OpOver(<<>>)
    BY OpValue
  <2>2. \A j \in 0 .. 0 : Responds(<<>>, sort, j)
    BY DEF Responds
  <2>3. 0 <= Size
    BY SizeAssumption
  <2> QED BY <2>1, <2>2, <2>3, RespondsOnce
<1>2. ASSUME NEW k \in Nat, k \in P PROVE k + 1 \in P
  <2> SUFFICES ASSUME k + 1 <= Size PROVE Responds(OpAt[k + 1], sort, (k + 1) + 1)
    OBVIOUS
  <2>1. OpAt[k + 1] = OpOver(OpAt[k])
    <3>1. k + 1 \in Nat /\ k + 1 # 0 /\ (k + 1) - 1 = k
      OBVIOUS
    <3> QED BY <3>1, OpValue
  <2>2. Responds(OpAt[k], sort, k + 1)
    <3>1. k <= Size
      BY SizeAssumption
    <3> QED BY <1>2, <3>1
  <2>3. ASSUME NEW j \in 0 .. (k + 1) PROVE Responds(OpAt[k], sort, j)
    <3>1. \A i \in 0 .. (j - 1) : i \in 0 .. ((k + 1) - 1)
      OBVIOUS
    <3>2. k + 1 # 0
      OBVIOUS
    <3> QED BY <2>2, <3>1, <3>2 DEF Responds
  <2> QED BY <2>1, <2>3, RespondsOnce
<1>3. Nat \subseteq P
  <2> HIDE DEF P
  <2> QED BY <1>1, <1>2, Induction
<1> QED BY <1>3, SizeAssumption

\* What op answers on a generator of a test is proper.
LEMMA OpProper ==
  ASSUME NEW sort, IsSort(sort), NEW ctx, ContextFor(sort, "all", ctx), NEW span \in Spans,
         NEW g \in Trees(sort)[Size]["all"][span], NEW a \in Op(g, ctx)
  PROVE  Proper(sort, Size, "all", span, ctx, a)
<1>1. Responds(OpAt[Size], sort, Size + 1) /\ Size \in 0 .. ((Size + 1) - 1) /\ Size + 1 \in Nat
  BY OpResponds, SizeAssumption
<1>2. "all" \in Scopes
  BY DEF Scopes
<1>3. a \in OpAt[Size][g][ctx]
  BY DEF Op
<1> QED BY <1>1, <1>2, <1>3, AskedAt

-----------------------------------------------------------------------------
(***************************************************************************)
(* What the loop gets for an answer.                                       *)
(***************************************************************************)

\* The sorts the properties use are sorts.
LEMMA MadeSort ==
  ASSUME NEW under_all \in SUBSET Operations, NEW under_clients \in SUBSET Operations,
         NEW under_nemesis \in SUBSET Operations
  PROVE  LET sort == Sort(under_all, under_clients, under_nemesis)
         IN /\ IsSort(sort) /\ sort.dts = Int /\ sort.times = Int /\ sort.mixes = "any"
            /\ sort.leaves["all"] = under_all /\ sort.leaves["clients"] = under_clients
            /\ sort.leaves["nemesis"] = under_nemesis
<1> DEFINE sort == Sort(under_all, under_clients, under_nemesis)
<1>1. /\ sort.dts = Int /\ sort.times = Int /\ sort.mixes = "any"
      /\ sort.leaves = [scope \in Scopes |-> CASE scope = "all"     -> under_all
                                               [] scope = "clients" -> under_clients
                                               [] scope = "nemesis" -> under_nemesis]
  BY DEF Sort
<1> HIDE DEF sort
<1>2. /\ sort.leaves["all"] = under_all /\ sort.leaves["clients"] = under_clients
      /\ sort.leaves["nemesis"] = under_nemesis
  BY <1>1 DEF Scopes, Filters
<1>3. sort.leaves \in [Scopes -> SUBSET Operations]
  BY <1>1 DEF Scopes, Filters
<1>4. IsSort(sort)
  BY <1>1, <1>3 DEF IsSort, Spans, kInvalidTime
<1> QED BY <1>1, <1>2, <1>4 DEF sort

\* So are those that differ in what Staggers and mixes may be.
LEMMA PunctualSort ==
  ASSUME NEW under_all \in SUBSET Operations, NEW under_clients \in SUBSET Operations,
         NEW under_nemesis \in SUBSET Operations, NEW times \in SUBSET Int, kInvalidTime \in times
  PROVE  LET sort     == Sort(under_all, under_clients, under_nemesis)
             punctual == [sort EXCEPT !.times = times]
         IN /\ IsSort(punctual) /\ punctual.times = times
            /\ punctual.leaves = sort.leaves /\ punctual.dts = sort.dts /\ punctual.mixes = sort.mixes
<1> DEFINE sort     == Sort(under_all, under_clients, under_nemesis)
           punctual == [sort EXCEPT !.times = times]
<1>1. IsSort(sort)
  BY MadeSort
<1>2. /\ punctual.times = times /\ punctual.leaves = sort.leaves
      /\ punctual.dts = sort.dts /\ punctual.mixes = sort.mixes
  BY DEF Sort
<1> HIDE DEF sort, punctual
<1>3. IsSort(punctual)
  BY <1>1, <1>2 DEF IsSort
<1> QED BY <1>2, <1>3 DEF sort, punctual

\* What op answers in a state of the run.
LEMMA AnswersProper ==
  ASSUME IInv, NEW sort, IsSort(sort), NEW span \in Spans, gen \in Trees(sort)[Size]["all"][span],
         now \in sort.times, NEW a \in Answers
  PROVE  /\ AskGenerator /\ ContextFor(sort, "all", Ctx)
         /\ Proper(sort, Size, "all", span, Ctx, a)
<1>1. a \in Op(gen, Ctx) /\ AskGenerator
  BY DEF Answers
<1>2. ContextFor(sort, "all", Ctx)
  <2>1. free_threads \subseteq Threads /\ workers \in [Threads -> Processes] /\ now \in Int
    BY DEF IInv, TypeOK, IsSort
  <2> QED BY <2>1 DEF ContextFor, Contexts, Ctx, CtxAt, Under
<1> QED BY <1>1, <1>2, OpProper

\* An operation is for a free thread: it has the process of one.
LEMMA InvokedProcess ==
  ASSUME IInv, NEW sort, IsSort(sort), NEW o, Filled(sort, "all", Ctx, o)
  PROVE  o.process \in Processes /\ \E t \in free_threads : o.process = workers[t] \/ o.process = kNemesisProcess
<1>1. PICK f \in Scopes, t \in free_threads : \E l \in sort.leaves[f] :
         /\ Under(f, t)
         /\ o.process = IF l.process = kInvalidProcess THEN workers[t] ELSE l.process
  BY DEF Filled, Ctx, CtxAt
<1>2. PICK l \in sort.leaves[f] : o.process = IF l.process = kInvalidProcess THEN workers[t] ELSE l.process
  BY <1>1
<1>3. l.process \in {kInvalidProcess, kNemesisProcess}
  BY DEF IsSort, Operations
<1>4. workers[t] \in Processes
  BY DEF IInv, TypeOK
<1> QED BY <1>2, <1>3, <1>4 DEF Processes

\* The context of a completion.
LEMMA CompletionContext ==
  ASSUME IInv, now \in Int, NEW t \in Threads, completions[t] # <<>>
  PROVE  CompletionCtx(t) \in Contexts
<1>1. ProcessToThread(workers, Head(completions[t]).process) \in Threads
  BY CompletionOfThread DEF IInv, TypeOK
<1>2. free_threads \subseteq Threads /\ workers \in [Threads -> Processes]
  BY DEF IInv, TypeOK
<1> QED BY <1>1, <1>2 DEF CompletionCtx, CtxAt, Contexts

\* Whatever step is taken, the generator stays one of its sort.
LEMMA StepStays ==
  ASSUME IInv, main # "terminated", GNext, NEW sort, IsSort(sort), gen \in PlansOf(sort), now \in sort.times
  PROVE  gen' \in PlansOf(sort)
<1>1. ASSUME NEW a \in Answers, a.op.type # "crash"
      PROVE  /\ a.self \in PlansOf(sort) /\ a.gen \in PlansOf(sort)
             /\ a.op.type \in {"nil", "pending", "invoke"} /\ a.op.time \in Int
             /\ a.op.type = "invoke" => Filled(sort, "all", Ctx, a.op)
  <2>1. Proper(sort, Size, "all", "any", Ctx, a)
    BY AnswersProper, BothSpans DEF PlansOf
  <2> QED BY <1>1, <2>1 DEF Proper, IsAnswer, PlansOf
<1>2. ASSUME NEW F \in SUBSET Threads, NEW t \in Int
      PROVE  CtxAt(F, t) \in Contexts
  BY DEF CtxAt, Contexts, IInv, TypeOK
<1>3. now \in Int /\ free_threads \subseteq Threads
  BY DEF IsSort, IInv, TypeOK
<1>4. ASSUME NEW t \in Threads, GComplete(t) PROVE gen' \in PlansOf(sort)
  <2>1. completions[t] # <<>> /\ gen' = Update(gen, CompletionCtx(t), Head(completions[t]).process)
    BY <1>4 DEF GComplete, Complete
  <2>3. Head(completions[t]).process \in Processes
    BY <2>1, CompletionOfThread DEF IInv, TypeOK
  <2>5. CompletionCtx(t) \in Contexts
    BY <1>3, <2>1, CompletionContext
  <2> QED BY <2>1, <2>3, <2>5, UpdateOneKeeps
<1>5. ASSUME GDispatch PROVE gen' \in PlansOf(sort)
  <2>1. PICK a \in Answers :
          /\ a.op.type \notin {"nil", "pending", "crash"} /\ DispatchTo(a.op.process)
          /\ gen' = Update(a.gen, DispatchCtx(a.op), a.op.process)
    BY <1>5 DEF GDispatch
  <2>2. a.gen \in PlansOf(sort) /\ a.op.time \in Int /\ Filled(sort, "all", Ctx, a.op)
    BY <1>1, <2>1
  <2>3. a.op.process \in Processes
    BY <2>2, InvokedProcess
  <2>5. DispatchCtx(a.op) \in Contexts
    BY <1>2, <1>3, <2>2 DEF DispatchCtx
  <2> QED BY <2>1, <2>2, <2>3, <2>5, UpdateOneKeeps
<1>6. ASSUME GNotDue \/ GPending \/ GNil PROVE gen' \in PlansOf(sort)
  <2>1. PICK a \in Answers : a.op.type # "crash" /\ gen' = a.self
    BY <1>6 DEF GNotDue, GPending, GNil
  <2> QED BY <1>1, <2>1
<1>7. ASSUME gen' = gen PROVE gen' \in PlansOf(sort)
  BY <1>7
<1>8. ASSUME GNext PROVE \/ \E t \in Threads : GComplete(t)
                         \/ GDispatch \/ GNotDue \/ GPending \/ GNil \/ gen' = gen
  BY <1>8 DEF GNext, GWorker, GCrash, GExit, Tick, SetBack, GEnded, gen_vars
<1> QED BY <1>4, <1>5, <1>6, <1>7, <1>8

-----------------------------------------------------------------------------
(***************************************************************************)
(* The invariant of the loop with generators, and its theorems.            *)
(***************************************************************************)

\* The inductive invariant of RunGenerators: that of RunCases as long as the
\* program runs; the plan and the generator are among those a test may build.
GIInv ==
  /\ main = "terminated" \/ IInv
  /\ now \in Nat \ {0} /\ behind \in Nat
  /\ plan \in PlansOf(Sound) /\ plan.kind = "validate" /\ gen \in PlansOf(Sound)
  /\ issued \in Seq(Issued)

\* The operations the sorts of the properties name are operations.
LEMMA UnboundOperations == Unbound \subseteq Operations /\ Partitions \subseteq Operations
BY DEF Unbound, Partitions

\* The sort of the plans is one.
LEMMA SoundSort == IsSort(Sound) /\ Sound.times = Int
<1>1. Unbound \in SUBSET Operations /\ Operations \in SUBSET Operations
  BY UnboundOperations
<1> QED BY <1>1, MadeSort DEF Sound

\* GExit and GWorker are steps of RunCases.
LEMMA LoopSteps ==
  ASSUME main # "terminated", GExit \/ \E t \in Threads : GWorker(t)
  PROVE  Next /\ UNCHANGED <<gen_vars, clock>>
BY DEF GExit, GWorker, Next, RunnerStep

\* The process of an answer is one the run loop expects.
LEMMA AnswerDispatches ==
  ASSUME IInv, gen \in PlansOf(Sound), now \in Int, NEW a \in Answers,
         a.op.type \notin {"nil", "pending", "crash"}
  PROVE  /\ a.op.process \in GeneratorProcesses
         /\ \E t \in Threads : a.op.process = workers[t]
         /\ a.op \in Issued
         /\ now <= a.op.time
<1>1. /\ Proper(Sound, Size, "all", "any", Ctx, a) 
  BY SoundSort, BothSpans, AnswersProper DEF PlansOf
<1>2. IsAnswer(a) /\ a.op.type = "invoke" /\ Filled(Sound, "all", Ctx, a.op) /\ a.op.time \in Int /\ now <= a.op.time
  BY <1>1, SoundSort DEF Proper, IsAnswer, Ctx, CtxAt
<1>3. PICK f \in Scopes, t \in free_threads : \E l \in Sound.leaves[f] :
         /\ Under(f, t) /\ a.op.f = l.f
         /\ a.op.process = IF l.process = kInvalidProcess THEN workers[t] ELSE l.process
  BY <1>2 DEF Filled, Ctx, CtxAt
<1>4. PICK l \in Sound.leaves[f] :
         /\ a.op.f = l.f
         /\ a.op.process = IF l.process = kInvalidProcess THEN workers[t] ELSE l.process
  BY <1>3
<1>5. l \in Operations /\ (l.process = kNemesisProcess => f = "nemesis")
  <2>1. /\ Sound.leaves["all"] = Unbound /\ Sound.leaves["clients"] = Unbound
        /\ Sound.leaves["nemesis"] = Operations
    BY MadeSort, UnboundOperations DEF Sound, Spans, kInvalidTime
  <2>2. f \in {"all", "clients", "nemesis"}
    BY DEF Scopes, Filters
  <2> QED BY <2>1, <2>2 DEF Unbound, kNemesisProcess, kInvalidProcess
<1>6. t \in Threads /\ workers[t] \in Processes /\ workers[kNemesisProcess] = kNemesisProcess
  BY NemesisIsNoClient DEF IInv, TypeOK, Assigned, Owns
<1>7. a.op.process = workers[t]
  <2>1. l.process \in {kInvalidProcess, kNemesisProcess}
    BY <1>5 DEF Operations
  <2>2. f = "nemesis" => t = kNemesisProcess
    BY <1>3 DEF Under, Passes
  <2> QED BY <1>4, <1>5, <1>6, <2>1, <2>2
<1>8. a.op \in Issued
  <2>1. a.op.f \in STRING /\ a.op.process \in Processes
    BY <1>4, <1>5, <1>6, <1>7 DEF Operations
  <2>2. a.op = [f |-> a.op.f, process |-> a.op.process, type |-> "invoke", time |-> a.op.time]
    BY <1>2 DEF IsAnswer
  <2> QED BY <1>2, <2>1, <2>2 DEF Issued
<1>9. a.op.process \in GeneratorProcesses
  BY <1>6, <1>7 DEF GeneratorProcesses, RandomFreeProcess, Processes, kInvalidProcess, kNemesisProcess
<1> QED BY <1>2, <1>6, <1>7, <1>8, <1>9

\* A generator waits only while a thread is busy.
LEMMA PendingMeansBusy ==
  ASSUME IInv, gen \in PlansOf(Sound), now \in Int, NEW a \in Answers, a.op.type = "pending"
  PROVE  free_threads # Threads
<1>1. Proper(Sound, Size, "all", "any", Ctx, a)
  BY SoundSort, BothSpans, AnswersProper DEF PlansOf
<1>2. PICK f \in Scopes : \A t \in free_threads : ~Under(f, t)
  BY <1>1 DEF Proper, Waits, Ctx, CtxAt
<1>3. f \in {"all", "clients", "nemesis"}
  BY DEF Scopes, Filters
<1>4. 0 \in Threads /\ 0 # kNemesisProcess
  BY GeneratorAssumption, ConcurrencyAssumption DEF Threads, ClientThreads, kNemesisProcess
<1> QED BY <1>2, <1>3, <1>4, NemesisIsNoClient DEF Under, Passes

\* A step with the generator, as long as the program runs, is one of the run loop.
LEMMA GStepOfLoop ==
  ASSUME GIInv, main # "terminated", GNext
  PROVE  [Next \/ GCrash]_vars
<1> USE DEF GIInv
<1>2. IInv /\ gen \in PlansOf(Sound) /\ now \in Int
  OBVIOUS
<1>4. ASSUME NEW t \in Threads, GComplete(t) PROVE Next
  BY <1>4 DEF GComplete, Next, RunnerStep
<1>5. ASSUME GDispatch PROVE Next
  <2>1. PICK a \in Answers : a.op.type \notin {"nil", "pending", "crash"} /\ DispatchTo(a.op.process)
    BY <1>5 DEF GDispatch
  <2>2. PICK t \in Threads : a.op.process = workers[t] /\ workers[t] \in GeneratorProcesses
    BY <1>2, <2>1, AnswerDispatches
  <2>3. Dispatch(workers[t])
    BY <2>1, <2>2 DEF Dispatch
  <2> QED BY <2>3 DEF Next, RunnerStep
<1>6. ASSUME GNotDue PROVE Next
  <2>1. PICK a \in Answers : /\ a.op.type \notin {"nil", "pending", "crash"}
                             /\ generator > 0 /\ WaitFor("until_due")
    BY <1>6 DEF GNotDue
  <2>2. GeneratorProcesses # {}
    BY <1>2, <2>1, AnswerDispatches
  <2> QED BY <2>1, <2>2 DEF NotDue, Next, RunnerStep
<1>7. ASSUME GPending PROVE Next
  <2>1. PICK a \in Answers : a.op.type = "pending" /\ generator > 0 /\ WaitFor("max_pending")
    BY <1>7 DEF GPending
  <2>2. free_threads # Threads
    BY <1>2, <2>1, PendingMeansBusy
  <2> QED BY <2>1, <2>2 DEF Pending, Next, RunnerStep
<1>8. ASSUME GNil PROVE Next
  BY <1>8 DEF GNil, Next, RunnerStep
<1>9. ASSUME GExit \/ \E t \in Threads : GWorker(t) PROVE Next
  BY <1>9, LoopSteps
<1>10. ASSUME Tick \/ (\E by \in 1 .. MaxBehind : SetBack(by)) \/ GEnded PROVE UNCHANGED vars
  BY <1>10 DEF Tick, SetBack, GEnded, Ended
<1> QED BY <1>4, <1>5, <1>6, <1>7, <1>8, <1>9, <1>10 DEF GNext

\* The steps with the generator are steps of the run loop.
LEMMA GImplements ==
  ASSUME GIInv, GNext
  PROVE  [Next \/ GCrash]_vars /\ (main' = "terminated" \/ IInv')
<1>1. CASE main = "terminated"
  <2>1. GEnded
    BY <1>1 DEF GNext
  <2> QED BY <1>1, <2>1 DEF GEnded, Ended, vars, runner_vars
<1>2. CASE main # "terminated"
  <2>1. [Next \/ GCrash]_vars /\ IInv
    BY <1>2, GStepOfLoop DEF GIInv
  <2>2. CASE GCrash
    BY <2>1, <2>2 DEF GCrash
  <2>3. CASE [Next]_vars
    BY <2>1, <2>3, NextKeepsIInv
  <2> QED BY <2>1, <2>2, <2>3
<1> QED BY <1>1, <1>2

\* What a step adds to the dispatched operations.
LEMMA StepIssues ==
  ASSUME IInv, main # "terminated", GNext
  PROVE  \/ issued' = issued
         \/ \E a \in Answers : /\ a.op.type \notin {"nil", "pending", "crash"} /\ Due(a.op)
                               /\ issued' = Append(issued, a.op)
BY DEF GNext, GComplete, GWorker, GDispatch, GNotDue, GPending, GNil, GCrash, GExit, Tick, SetBack, GEnded,
       gen_vars

\* The loop is entered with the plan.
LEMMA GInitGIInv == GInit => GIInv
<1> SUFFICES ASSUME GInit PROVE GIInv
  OBVIOUS
<1>1. IInv
  BY InitIInv DEF GInit
<1>2. plan \in PlansOf(Sound) /\ gen \in PlansOf(Sound)
  <2>1. PICK g \in Plans : plan = Validate(g)
    BY DEF GInit
  <2> QED BY <2>1, GeneratorAssumption DEF GInit
<1>3. GInit => plan.kind = "validate"
  BY DEF GInit, Validate
<1> QED BY <1>1, <1>2, <1>3 DEF GInit, GIInv

\* The clock and the plan.
LEMMA ClockSteps ==
  ASSUME GIInv, GNext
  PROVE  /\ plan' = plan /\ now' \in Nat \ {0} /\ behind' \in Nat
         /\ now' + behind' >= now + behind /\ behind' >= behind
<1> USE DEF GIInv
<1>1. CASE Tick
  BY <1>1 DEF Tick, gen_vars
<1>2. CASE \E by \in 1 .. MaxBehind : SetBack(by)
  <2>1. PICK by \in 1 .. MaxBehind : SetBack(by)
    BY <1>2
  <2>2. by \in Int /\ by >= 1
    BY <2>1
  <2> QED BY <2>1, <2>2 DEF SetBack, gen_vars
<1>3. CASE UNCHANGED <<plan, clock>>
  BY <1>3 DEF clock
<1> QED BY <1>1, <1>2, <1>3
  DEF GNext, GComplete, GWorker, GDispatch, GNotDue, GPending, GNil, GCrash, GExit, GEnded, gen_vars, clock

\* Once the program has ended nothing changes.
LEMMA EndedChangesNothing ==
  ASSUME main = "terminated", GNext
  PROVE  UNCHANGED gvars
<1>1. GEnded
  BY DEF GNext
<1> QED BY <1>1 DEF GEnded, Ended, gvars

\* A sequence with one more element.
LEMMA Added ==
  ASSUME NEW S, NEW s \in Seq(S), NEW o
  PROVE  /\ Len(Append(s, o)) = Len(s) + 1
         /\ \A i \in DOMAIN Append(s, o) : \/ (i \in DOMAIN s /\ Append(s, o)[i] = s[i])
                                          \/ (i = Len(s) + 1 /\ Append(s, o)[i] = o)
OBVIOUS

\* Every step of the loop, the workers and the clock keeps the invariant.
LEMMA GNextKeepsGIInv == GIInv /\ [GNext]_gvars => GIInv'
<1>1. ASSUME GIInv, UNCHANGED gvars PROVE GIInv'
  <2>1. UNCHANGED vars
    BY <1>1 DEF gvars
  <2>2. IInv => IInv'
    BY <2>1, NextKeepsIInv
  <2> QED BY <1>1, <2>1, <2>2 DEF GIInv, gvars, gen_vars, clock, vars, runner_vars
<1>2. ASSUME GIInv, GNext, main # "terminated" PROVE GIInv'
  <2>1. main' = "terminated" \/ IInv'
    BY <1>2, GImplements
  <2>2. IInv /\ gen \in PlansOf(Sound) /\ now \in Int
    BY <1>2 DEF GIInv
  <2>3. gen' \in PlansOf(Sound)
    BY <1>2, <2>2, SoundSort, StepStays
  <2>4. issued' \in Seq(Issued)
    <3>1. CASE issued' = issued
      BY <1>2, <3>1 DEF GIInv
    <3>2. CASE \E a \in Answers : /\ a.op.type \notin {"nil", "pending", "crash"}
                                  /\ issued' = Append(issued, a.op)
      <4>1. PICK a \in Answers : /\ a.op.type \notin {"nil", "pending", "crash"}
                                 /\ issued' = Append(issued, a.op)
        BY <3>2
      <4>2. a.op \in Issued
        BY <2>2, <4>1, AnswerDispatches
      <4>3. issued \in Seq(Issued)
        BY <1>2 DEF GIInv
      <4> QED BY <4>1, <4>2, <4>3, AppendProperties
    <3> QED BY <1>2, <2>2, <3>1, <3>2, StepIssues
  <2>5. plan' = plan /\ now' \in Nat \ {0} /\ behind' \in Nat
    BY <1>2, ClockSteps
  <2> QED BY <1>2, <2>1, <2>3, <2>4, <2>5 DEF GIInv
<1> QED BY <1>1, <1>2, EndedChangesNothing

\* The inductive invariant holds in every reachable state: whatever the loop
\* passes to op and update is a generator a test could have built
\* (Runner.cpp:193, 204, 240).
THEOREM GInductive == GSpec => []GIInv
BY GInitGIInv, GNextKeepsGIInv, PTL DEF GSpec

\* With any plan the run loop does what RunCases says of it, but for a crash in
\* the generator: what op answers is an operation for a thread that is free, and
\* a pending answer comes only while threads are busy (Generator.cpp:12-28,
\* Runner.cpp:193-240). So what is proved of RunCases holds with generators.
THEOREM LoopAsInRunCases == GSpec => ImplementsRunCases
<1>1. GInit => Init
  BY DEF GInit
<1>2. GIInv /\ [GNext]_gvars => [Next \/ GCrash]_vars
  <2>1. GIInv /\ GNext => [Next \/ GCrash]_vars
    BY GImplements
  <2>2. UNCHANGED gvars => UNCHANGED vars
    BY DEF gvars
  <2> QED BY <2>1, <2>2
<1> QED BY <1>1, <1>2, GInductive, PTL DEF GSpec, ImplementsRunCases

-----------------------------------------------------------------------------
\* which is one.
LEMMA PlacedIsSort ==
  /\ IsSort(PlacedSort) /\ PlacedSort.times = Int
  /\ PlacedSort.leaves["all"] = {} /\ PlacedSort.leaves["clients"] = Unbound \ Partitions
  /\ PlacedSort.leaves["nemesis"] = Partitions
<1>1. {} \in SUBSET Operations /\ Unbound \ Partitions \in SUBSET Operations
      /\ Partitions \in SUBSET Operations
  BY UnboundOperations
<1> QED BY <1>1, MadeSort DEF PlacedSort

\* The operations of such a generator are for the right thread.
LEMMA PlacedAnswer ==
  ASSUME IInv, gen \in Placed, now \in Int, NEW a \in Answers,
         a.op.type \notin {"nil", "pending", "crash"}
  PROVE  OnRightThread(a.op)
<1>1. Proper(PlacedSort, Size, "all", "any", Ctx, a)
  <2>1. gen \in Trees(PlacedSort)[Size]["all"]["any"]
    BY DEF Placed, PlansOf, PlacedSort
  <2>2. now \in PlacedSort.times /\ IsSort(PlacedSort) /\ "any" \in Spans
    BY PlacedIsSort DEF Spans
  <2> QED BY <2>1, <2>2, AnswersProper
<1>2. Filled(PlacedSort, "all", Ctx, a.op)
  BY <1>1 DEF Proper, IsAnswer
<1>3. PICK f \in Scopes, t \in free_threads : \E l \in PlacedSort.leaves[f] :
         /\ Under(f, t) /\ a.op.f = l.f
         /\ a.op.process = IF l.process = kInvalidProcess THEN workers[t] ELSE l.process
  BY <1>2 DEF Filled, Ctx, CtxAt
<1>4. PICK l \in PlacedSort.leaves[f] :
         /\ a.op.f = l.f
         /\ a.op.process = IF l.process = kInvalidProcess THEN workers[t] ELSE l.process
  BY <1>3
<1>5. f \in {"all", "clients", "nemesis"}
  BY DEF Scopes, Filters
<1>6. t \in Threads
  BY DEF IInv, TypeOK
<1>7. CASE f = "clients"
  <2>1. l.process = kInvalidProcess /\ l.f # "partition"
    BY <1>7, PlacedIsSort DEF Unbound, Partitions
  <2>2. t \in ClientThreads
    BY <1>3, <1>6, <1>7, NemesisIsNoClient DEF Under, Passes
  <2>3. workers[t] \in Nat
    BY <1>6, <2>2, NemesisIsNoClient DEF IInv, Assigned, Owns
  <2> QED BY <1>4, <2>1, <2>3 DEF OnRightThread, kNemesisProcess
<1>8. CASE f = "nemesis"
  <2>1. l.f = "partition" /\ l.process \in {kInvalidProcess, kNemesisProcess}
    BY <1>8, PlacedIsSort DEF Partitions, Operations
  <2>2. t = kNemesisProcess
    BY <1>3, <1>8 DEF Under, Passes
  <2>3. workers[t] = kNemesisProcess
    BY <1>6, <2>2 DEF IInv, Assigned, Owns
  <2> QED BY <1>4, <2>1, <2>3 DEF OnRightThread
<1> QED BY <1>4, <1>5, <1>7, <1>8, PlacedIsSort

\* The plan has its operations under their filters.
LEMMA InitPlaced == GInit => PlacedInv
BY DEF GInit, PlacedInv

\* No step takes an operation out of its filter.
LEMMA NextPlaced == GIInv /\ PlacedInv /\ [GNext]_gvars => PlacedInv'
<1>1. ASSUME PlacedInv, UNCHANGED gvars PROVE PlacedInv'
  BY <1>1 DEF PlacedInv, gvars, gen_vars
<1>2. ASSUME GIInv, PlacedInv, GNext, main # "terminated" PROVE PlacedInv'
  <2> SUFFICES ASSUME plan' \in Placed
               PROVE  gen' \in Placed /\ \A i \in DOMAIN issued' : OnRightThread(issued'[i])
    BY DEF PlacedInv
  <2>1. plan \in Placed
    BY <1>2, ClockSteps
  <2>2. gen \in Placed /\ \A i \in DOMAIN issued : OnRightThread(issued[i])
    BY <1>2, <2>1 DEF PlacedInv
  <2>3. IInv /\ now \in Int /\ issued \in Seq(Issued)
    BY <1>2 DEF GIInv
  <2>4. gen' \in Placed
    BY <1>2, <2>2, <2>3, PlacedIsSort, StepStays DEF Placed, PlacedSort
  <2>5. CASE issued' = issued
    BY <2>2, <2>4, <2>5
  <2>6. CASE \E a \in Answers : /\ a.op.type \notin {"nil", "pending", "crash"}
                                /\ issued' = Append(issued, a.op)
    <3>1. PICK a \in Answers : /\ a.op.type \notin {"nil", "pending", "crash"}
                               /\ issued' = Append(issued, a.op)
      BY <2>6
    <3>2. OnRightThread(a.op)
      BY <2>2, <2>3, <3>1, PlacedAnswer
    <3>3. \A i \in DOMAIN issued' : issued'[i] = a.op \/ (i \in DOMAIN issued /\ issued'[i] = issued[i])
      BY <2>3, <3>1, Added
    <3> QED BY <2>2, <2>4, <3>2, <3>3
  <2> QED BY <1>2, <2>3, <2>5, <2>6, StepIssues
<1> QED BY <1>1, <1>2, EndedChangesNothing

\* The operations under clients() go to client threads and those under nemesis()
\* to the nemesis, however often update and copyOne rebuild the generator around
\* the filters (Generator.cpp:94-125, 269-291).
THEOREM OperationsOnRightThread == GSpec => []RightThread
<1>1. PlacedInv => RightThread
  BY DEF PlacedInv, RightThread, OnRightThread
<1> QED BY <1>1, GInductive, InitPlaced, NextPlaced, PTL DEF GSpec

-----------------------------------------------------------------------------
(***************************************************************************)
(* The time limit.                                                         *)
(***************************************************************************)

\* The more times a Stagger may be built with, the more trees.
LEMMA TimesMonotone ==
  ASSUME NEW few, NEW many, few.leaves = many.leaves, few.mixes = many.mixes,
         few.dts = many.dts, few.times \subseteq many.times
  PROVE  PlansOf(few) \subseteq PlansOf(many)
<1> DEFINE S == Trees(few)
           T == Trees(many)
           P == {k \in Nat : \A sc \in Scopes, e \in Spans : S[k][sc][e] \subseteq T[k][sc][e]}
<1>1. ASSUME NEW k \in Nat, \A m \in 0 .. (k - 1) : m \in P PROVE k \in P
  <2> SUFFICES ASSUME NEW sc \in Scopes, NEW e \in Spans, NEW g \in S[k][sc][e] PROVE g \in T[k][sc][e]
    OBVIOUS
  <2>1. g \in NestedTo[k] /\ Fits(few, S, k, sc, e, g)
    BY TreeIff
  <2>2. WellFormed(g, NestedTo[k - 1]) /\ (k = 0 => g.kind \in Childless)
    BY TreeElim
  <2>3. \A m \in 0 .. (k - 1), f \in Scopes, d \in Spans : S[m][f][d] \subseteq T[m][f][d]
    BY <1>1
  <2>4. ASSUME NEW q, NEW d \in Spans, NEW len \in Nat, len = Len(q), Members(S, k, sc, d, q)
        PROVE  Members(T, k, sc, d, q)
    <3> HIDE DEF S, T
    <3>1. CASE len = 0
      BY <2>4, <3>1 DEF Members
    <3>2. CASE len # 0
      <4>1. len <= k /\ k - len \in 0 .. (k - 1)
        BY <2>4, <3>2 DEF Members
      <4>2. \A d2 \in Spans : \A h \in S[k - len][sc][d2] : h \in T[k - len][sc][d2]
        BY <2>3, <4>1
      <4> QED BY <2>4, <4>2, BothSpans DEF Members
    <3> QED BY <3>1, <3>2
  <2>5. Fits(many, T, k, sc, e, g)
    <3> HIDE DEF S, T
    <3>1. CASE g.kind \in Childless
      BY <2>1, <3>1 DEF Fits, Childless
    <3>2. CASE g.kind \in {"list", "any", "mix"}
      <4>1. Len(g.gens) \in Nat
        BY <2>2, <3>2, LenProperties DEF WellFormed, Childless
      <4>2. CASE g.kind \in {"list", "any"}
        BY <2>1, <2>4, <4>1, <4>2 DEF Fits
      <4>3. CASE g.kind = "mix"
        <5>1. Members(S, k, sc, e, g.gens) /\ Members(S, k, sc, few.mixes, g.gens) /\ g.idx \in 1 .. Len(g.gens)
          BY <2>1, <4>3 DEF Fits
        <5>2. Members(T, k, sc, e, g.gens)
          BY <2>4, <4>1, <5>1
        <5>3. Members(T, k, sc, many.mixes, g.gens)
          <6>1. CASE few.mixes = "endless"
            BY <2>4, <4>1, <5>1, <6>1, BothSpans
          <6>2. CASE few.mixes # "endless"
            BY <5>2, <6>2 DEF Members
          <6> QED BY <6>1, <6>2
        <5> QED BY <4>3, <5>1, <5>2, <5>3 DEF Fits
      <4> QED BY <3>2, <4>2, <4>3
    <3>3. CASE g.kind \in {"validate", "onThreads", "timeLimit", "stagger"}
      <4>1. k - 1 \in 0 .. (k - 1)
        BY <2>2, <3>3 DEF Childless
      <4>2. \A f \in Scopes, d \in Spans : \A h \in S[k - 1][f][d] : h \in T[k - 1][f][d]
        BY <2>3, <4>1
      <4>3. g.kind = "onThreads" => g.filter \in Scopes
        BY <2>2 DEF WellFormed, Scopes
      <4>4. CASE g.kind = "validate"
        BY <2>1, <4>2, <4>4 DEF Fits
      <4>5. CASE g.kind = "onThreads"
        BY <2>1, <4>2, <4>3, <4>5 DEF Fits
      <4>6. CASE g.kind = "timeLimit"
        BY <2>1, <4>2, <4>6, BothSpans DEF Fits
      <4>7. CASE g.kind = "stagger"
        BY <2>1, <4>2, <4>7 DEF Fits
      <4> QED BY <3>3, <4>4, <4>5, <4>6, <4>7
    <3> QED BY <2>2, <3>1, <3>2, <3>3 DEF WellFormed, Kinds, Childless
  <2> QED BY <2>1, <2>5, TreeIff
<1>2. Nat \subseteq P
  <2> HIDE DEF P
  <2> QED BY <1>1, StrongInduction
<1>3. "all" \in Scopes
  BY DEF Scopes
<1> QED BY <1>2, <1>3, SizeAssumption, BothSpans DEF PlansOf

\* They are of a sort,
LEMMA TimedIsSort ==
  ASSUME NEW latest \in Nat
  PROVE  /\ IsSort(Timed(latest)) /\ Timed(latest).times = {x \in Int : x <= latest}
         /\ Timed(latest).leaves = Sound.leaves /\ Timed(latest).dts = Sound.dts
         /\ Timed(latest).mixes = Sound.mixes
<1> DEFINE times == {x \in Int : x <= latest}
<1>1. times \in SUBSET Int /\ kInvalidTime \in times
  BY DEF kInvalidTime
<1>2. Unbound \in SUBSET Operations /\ Operations \in SUBSET Operations
  BY UnboundOperations
<1> HIDE DEF times
<1> QED BY <1>1, <1>2, PunctualSort DEF Timed, Sound, times

\* later on more of them,
LEMMA TimedLater ==
  ASSUME NEW k \in Nat, NEW n \in Nat, k <= n PROVE PlansOf(Timed(k)) \subseteq PlansOf(Timed(n))
<1>1. Timed(k).times \subseteq Timed(n).times
  BY TimedIsSort
<1>2. Timed(k).leaves = Timed(n).leaves /\ Timed(k).mixes = Timed(n).mixes /\ Timed(k).dts = Timed(n).dts
  BY TimedIsSort
<1> QED BY <1>1, <1>2, TimesMonotone

\* and may be plans of a test.
LEMMA SoundLater ==
  ASSUME NEW latest \in Nat PROVE PlansOf(Timed(latest)) \subseteq PlansOf(Sound)
<1>1. Timed(latest).times \subseteq Sound.times
  BY TimedIsSort, SoundSort
<1>2. Timed(latest).leaves = Sound.leaves /\ Timed(latest).mixes = Sound.mixes /\ Timed(latest).dts = Sound.dts
  BY TimedIsSort
<1> QED BY <1>1, <1>2, TimesMonotone

\* A time limit on top of a plan, under the Validate of setGenerator.
LEMMA TopTimeLimit ==
  ASSUME NEW sort, IsSort(sort), NEW g \in PlansOf(sort), LimitOnTop(g)
  PROVE  /\ Size - 1 \in 1 .. Size /\ g = Validate(g.gen) /\ g \in Generators /\ g.gen \in Generators
         /\ g.gen \in Trees(sort)[Size - 1]["all"]["any"]
         /\ g.gen.limit \in Int /\ g.gen.cutoff \in Int
<1>1. "all" \in Scopes /\ g \in Trees(sort)[Size]["all"]["any"] /\ Size \in Nat
  BY SizeAssumption DEF Scopes, PlansOf
<1>2. g.kind \notin Childless /\ g.gen.kind \notin Childless
  BY DEF Childless, LimitOnTop
<1>3. g = Validate(g.gen) /\ g.gen \in Trees(sort)[Size - 1]["all"]["any"] /\ Size # 0
  <2>1. g.kind = "validate"
    BY DEF LimitOnTop
  <2>2. g \in Trees(sort)[Size]["all"]["any"] /\ "any" \in Spans
    BY <1>1, BothSpans
  <2> QED BY <1>1, <1>2, <2>1, <2>2, TreeParts
<1>4. Size - 1 \in Nat /\ Size - 1 <= Size
  BY <1>1, <1>3
<1>5. g.gen.limit \in Int /\ g.gen.cutoff \in Int /\ Size - 1 # 0
  BY <1>1, <1>2, <1>3, <1>4, TreeParts, BothSpans DEF LimitOnTop
<1>6. g \in Generators /\ g.gen \in Generators
  BY <1>1, <1>3, <1>4, BothSpans, TreeIsGenerator
<1> QED BY <1>1, <1>3, <1>4, <1>5, <1>6

\* update leaves the limit and the cutoff alone.
LEMMA TopUpdate ==
  ASSUME NEW sort, IsSort(sort), NEW g \in PlansOf(sort), LimitOnTop(g), NEW ctx \in Contexts,
         NEW p \in Processes
  PROVE  LET h == Update(g, ctx, p)
         IN LimitOnTop(h) /\ h.gen.limit = g.gen.limit /\ h.gen.cutoff = g.gen.cutoff
<1>1. g \in Generators /\ g.gen \in Generators /\ Size \in Nat /\ Size # 0 /\ Size - 1 \in Nat
  BY TopTimeLimit, SizeAssumption
<1>2. UpdateAt[Size] = UpdateOver(UpdateAt[Size - 1])
  BY <1>1, UpdateValue
<1>3. PICK update : UpdateAt[Size - 1] = UpdateOver(update)
  BY <1>1, UpdateValue
<1>4. Update(g, ctx, p) = UpdateNode(UpdateAt[Size - 1], g, ctx, p)
  BY <1>1, <1>2 DEF Update, UpdateOver
<1>5. Update(g, ctx, p) = Validate(UpdateAt[Size - 1][g.gen][ctx][p])
  BY <1>4 DEF UpdateNode, UpdateValidate, LimitOnTop
<1>6. UpdateAt[Size - 1][g.gen][ctx][p] = UpdateNode(update, g.gen, ctx, p)
  BY <1>1, <1>3 DEF UpdateOver
<1>7. UpdateNode(update, g.gen, ctx, p) = UpdateTimeLimit(update, g.gen, ctx, p)
  BY DEF UpdateNode, LimitOnTop
<1> QED BY <1>5, <1>6, <1>7 DEF UpdateTimeLimit, TimeLimit, Validate, LimitOnTop

\* What the limit lets through, and what it becomes.
LEMMA LimitAnswer ==
  ASSUME NEW sort, IsSort(sort), NEW n \in 1 .. Size, NEW g \in Trees(sort)[n]["all"]["any"],
         g.kind = "timeLimit", g.limit > 0,
         NEW ctx, ContextFor(sort, "all", ctx), ctx.time > 0, NEW b \in OpAt[n][g][ctx], b.op.type # "crash"
  PROVE  /\ b.self.kind = "timeLimit" /\ b.self.limit = g.limit
         /\ \/ b.self.cutoff = g.cutoff
            \/ /\ g.cutoff = kInvalidTime /\ b.self.cutoff # kInvalidTime
               /\ b.self.cutoff - g.limit \in sort.times /\ ctx.time <= b.self.cutoff - g.limit
         /\ b.op.type = "invoke" =>
              /\ b.gen.kind = "timeLimit" /\ b.gen.limit = g.limit /\ b.gen.cutoff = b.self.cutoff
              /\ b.gen.cutoff # kInvalidTime /\ b.op.time < b.gen.cutoff
<1>1. /\ n \in Nat /\ n - 1 \in 0 .. (n - 1) /\ n - 1 \in 0 .. Size /\ n - 1 \in Nat /\ n <= Size
      /\ g = TimeLimit(g.limit, g.cutoff, g.gen) /\ g.limit \in Int /\ g.cutoff \in Int
      /\ g \in Generators /\ g.gen \in Trees(sort)[n - 1]["all"]["any"] /\ ctx \in Contexts
      /\ ctx.time \in Int
  <2>1. "all" \in Scopes /\ n \in Nat /\ n <= Size
    BY SizeAssumption DEF Scopes
  <2>2. g.kind \notin Childless
    BY DEF Childless
  <2>3. /\ g = TimeLimit(g.limit, g.cutoff, g.gen) /\ g.limit \in Int /\ g.cutoff \in Int
        /\ g.gen \in Trees(sort)[n - 1]["all"]["any"]
    BY <2>1, <2>2, TreeParts, BothSpans
  <2>4. g \in Generators
    BY <2>1, BothSpans, TreeIsGenerator
  <2>5. n - 1 \in 0 .. (n - 1) /\ n - 1 \in 0 .. Size /\ n - 1 \in Nat
    BY SizeAssumption
  <2> QED BY <2>1, <2>3, <2>4, <2>5 DEF ContextFor, Contexts
<1> DEFINE ask == OpAt[n - 1]
<1>2. b \in OpTimeLimit(ask, g, ctx)
  <2>1. OpAt[n] = OpOver(ask)
    <3>1. n # 0
      OBVIOUS
    <3> QED BY <1>1, <3>1, OpValue
  <2> HIDE DEF ask
  <2>2. b \in OpNode(ask, g, ctx)
    BY <1>1, <2>1 DEF OpOver
  <2> QED BY <2>2 DEF OpNode
<1>3. Responds(ask, sort, n)
  <2>1. Responds(OpAt[n - 1], sort, (n - 1) + 1)
    BY <1>1, OpResponds
  <2>2. (n - 1) + 1 = n
    BY <1>1
  <2> QED BY <2>1, <2>2
<1> HIDE DEF ask
<1>4. PICK a \in ask[g.gen][ctx] :
        b = LET cutoff == Cutoff(g, a.op.time)
                self   == TimeLimit(g.limit, cutoff, a.self)
            IN Unless(a, IF ~NotNil(a) THEN Nil([g EXCEPT !.gen = a.self])
                         ELSE IF a.op.type = "pending"
                         THEN Answer(a.op, [g EXCEPT !.gen = a.gen], [g EXCEPT !.gen = a.self])
                         ELSE IF a.op.time < cutoff
                         THEN Answer(a.op, TimeLimit(g.limit, cutoff, a.gen), self)
                         ELSE Nil(self))
  BY <1>2 DEF OpTimeLimit
<1>5. Proper(sort, n - 1, "all", "any", ctx, a)
  <2>1. "all" \in Scopes
    BY DEF Scopes
  <2> QED BY <1>1, <1>3, <2>1, BothSpans, AskedAt
<1> DEFINE c == Cutoff(g, a.op.time)
<1>6. a.op.type # "crash"
  BY <1>4 DEF Unless
<1>7. /\ [g EXCEPT !.gen = a.gen] = TimeLimit(g.limit, g.cutoff, a.gen)
      /\ [g EXCEPT !.gen = a.self] = TimeLimit(g.limit, g.cutoff, a.self)
  BY <1>1 DEF TimeLimit
<1>8. b = IF ~NotNil(a) THEN Nil(TimeLimit(g.limit, g.cutoff, a.self))
          ELSE IF a.op.type = "pending"
          THEN Answer(a.op, TimeLimit(g.limit, g.cutoff, a.gen), TimeLimit(g.limit, g.cutoff, a.self))
          ELSE IF a.op.time < c
          THEN Answer(a.op, TimeLimit(g.limit, c, a.gen), TimeLimit(g.limit, c, a.self))
          ELSE Nil(TimeLimit(g.limit, c, a.self))
  BY <1>4, <1>6, <1>7 DEF Unless
<1>9. CASE ~NotNil(a)
  BY <1>8, <1>9 DEF Nil, Answer, NilOp, TimeLimit
<1>10. CASE NotNil(a) /\ a.op.type = "pending"
  BY <1>8, <1>10 DEF Answer, TimeLimit
<1>11. CASE NotNil(a) /\ a.op.type # "pending"
  <2>1. a.op.type = "invoke" /\ a.op.time \in sort.times /\ ctx.time <= a.op.time /\ a.op.time \in Int
    BY <1>5, <1>6, <1>11 DEF Proper, IsAnswer, NotNil
  <2>2. \/ c = g.cutoff /\ g.cutoff # kInvalidTime
        \/ g.cutoff = kInvalidTime /\ c = a.op.time + g.limit
    BY DEF Cutoff
  <2> HIDE DEF c
  <2>3. \/ c = g.cutoff /\ g.cutoff # kInvalidTime
        \/ /\ g.cutoff = kInvalidTime /\ c # kInvalidTime
           /\ c - g.limit \in sort.times /\ ctx.time <= c - g.limit
    <3>1. CASE g.cutoff = kInvalidTime /\ c = a.op.time + g.limit
      <4>1. c - g.limit = a.op.time /\ c > 0
        BY <1>1, <2>1, <3>1
      <4> QED BY <2>1, <3>1, <4>1 DEF kInvalidTime
    <3> QED BY <2>2, <3>1
  <2>4. CASE a.op.time < c
    BY <1>8, <1>11, <2>3, <2>4 DEF Answer, TimeLimit
  <2>5. CASE ~(a.op.time < c)
    BY <1>8, <1>11, <2>3, <2>5 DEF Nil, Answer, NilOp, TimeLimit
  <2> QED BY <2>4, <2>5
<1> QED BY <1>9, <1>10, <1>11

\* What op answers for it keeps the limit and sets the cutoff at most once.
LEMMA TopAnswer ==
  ASSUME NEW sort, IsSort(sort), NEW g \in PlansOf(sort), LimitOnTop(g), g.gen.limit > 0,
         NEW ctx, ContextFor(sort, "all", ctx), ctx.time > 0, NEW b \in Op(g, ctx), b.op.type # "crash"
  PROVE  /\ LimitOnTop(b.self) /\ b.self.gen.limit = g.gen.limit
         /\ \/ b.self.gen.cutoff = g.gen.cutoff
            \/ /\ g.gen.cutoff = kInvalidTime /\ b.self.gen.cutoff # kInvalidTime
               /\ b.self.gen.cutoff - g.gen.limit \in sort.times
               /\ ctx.time <= b.self.gen.cutoff - g.gen.limit
         /\ b.op.type = "invoke" =>
              /\ LimitOnTop(b.gen) /\ b.gen.gen.limit = g.gen.limit
              /\ b.gen.gen.cutoff = b.self.gen.cutoff
              /\ b.gen.gen.cutoff # kInvalidTime /\ b.op.time < b.gen.gen.cutoff
<1>1. /\ Size - 1 \in 1 .. Size /\ g \in Generators /\ g.gen \in Trees(sort)[Size - 1]["all"]["any"]
      /\ ctx \in Contexts
  BY TopTimeLimit DEF ContextFor
<1> DEFINE ask == OpAt[Size - 1]
<1>2. b \in OpValidate(ask, g, ctx)
  <2>1. OpAt[Size] = OpOver(ask)
    BY <1>1, OpValue, SizeAssumption
  <2> HIDE DEF ask
  <2>2. b \in OpNode(ask, g, ctx)
    BY <1>1, <2>1 DEF Op, OpOver
  <2> QED BY <2>2 DEF OpNode, LimitOnTop
<1> HIDE DEF ask
<1>3. PICK a \in ask[g.gen][ctx] :
        b = Unless(a, Answer(a.op, IF NotNil(a) THEN Validate(a.gen) ELSE a.gen, Validate(a.self)))
  BY <1>2 DEF OpValidate
<1>4. /\ a.op.type # "crash"
      /\ b = Answer(a.op, IF NotNil(a) THEN Validate(a.gen) ELSE a.gen, Validate(a.self))
  BY <1>3 DEF Unless
<1>5. /\ a.self.kind = "timeLimit" /\ a.self.limit = g.gen.limit
      /\ \/ a.self.cutoff = g.gen.cutoff
         \/ /\ g.gen.cutoff = kInvalidTime /\ a.self.cutoff # kInvalidTime
            /\ a.self.cutoff - g.gen.limit \in sort.times /\ ctx.time <= a.self.cutoff - g.gen.limit
      /\ a.op.type = "invoke" =>
           /\ a.gen.kind = "timeLimit" /\ a.gen.limit = g.gen.limit /\ a.gen.cutoff = a.self.cutoff
           /\ a.gen.cutoff # kInvalidTime /\ a.op.time < a.gen.cutoff
  <2>1. a \in OpAt[Size - 1][g.gen][ctx] /\ g.gen.kind = "timeLimit"
    BY <1>3 DEF ask, LimitOnTop
  <2> QED BY <1>1, <1>4, <2>1, LimitAnswer
<1>6. b.op = a.op /\ b.self.kind = "validate" /\ b.self.gen = a.self
  BY <1>4 DEF Answer, Validate
<1>7. ASSUME a.op.type = "invoke" PROVE b.gen.kind = "validate" /\ b.gen.gen = a.gen
  <2>1. a.gen # Null
    BY <1>5, <1>7 DEF Null
  <2> QED BY <1>4, <1>7, <2>1 DEF NotNil, Answer, Validate
<1> QED BY <1>5, <1>6, <1>7 DEF LimitOnTop

\* Whatever step is taken, the limit stays and the cutoff is set once.
LEMMA StepLimits ==
  ASSUME IInv, main # "terminated", GNext, now \in Nat \ {0}, NEW latest \in Nat, now <= latest,
         gen \in PlansOf(Timed(latest)), LimitOnTop(gen), gen.gen.limit > 0
  PROVE  /\ LimitOnTop(gen') /\ gen'.gen.limit = gen.gen.limit
         /\ \/ gen'.gen.cutoff = gen.gen.cutoff
            \/ /\ gen.gen.cutoff = kInvalidTime /\ gen'.gen.cutoff # kInvalidTime
               /\ now <= gen'.gen.cutoff - gen.gen.limit /\ gen'.gen.cutoff - gen.gen.limit <= latest
         /\ \/ issued' = issued
            \/ /\ gen'.gen.cutoff # kInvalidTime
               /\ \E o \in Issued : /\ now <= o.time /\ o.time < gen'.gen.cutoff
                                    /\ issued' = Append(issued, o)
<1> DEFINE sort == Timed(latest)
<1>1. IsSort(sort) /\ sort.times = {x \in Int : x <= latest} /\ now \in sort.times
  <2>1. IsSort(sort) /\ sort.times = {x \in Int : x <= latest}
    BY TimedIsSort
  <2> HIDE DEF sort
  <2> QED BY <2>1
<1>2. ASSUME NEW a \in Answers, a.op.type # "crash"
      PROVE  /\ LimitOnTop(a.self) /\ a.self.gen.limit = gen.gen.limit
             /\ \/ a.self.gen.cutoff = gen.gen.cutoff
                \/ /\ gen.gen.cutoff = kInvalidTime /\ a.self.gen.cutoff # kInvalidTime
                   /\ now <= a.self.gen.cutoff - gen.gen.limit /\ a.self.gen.cutoff - gen.gen.limit <= latest
             /\ a.op.type \notin {"nil", "pending"} =>
                  /\ a.op \in Issued /\ now <= a.op.time /\ a.gen \in PlansOf(sort) /\ a.op.process \in Processes
                  /\ LimitOnTop(a.gen) /\ a.gen.gen.limit = gen.gen.limit /\ a.gen.gen.cutoff = a.self.gen.cutoff
                  /\ a.gen.gen.cutoff # kInvalidTime /\ a.op.time < a.gen.gen.cutoff
  <2> HIDE DEF sort
  <2>1. Proper(sort, Size, "all", "any", Ctx, a) /\ ContextFor(sort, "all", Ctx) /\ a \in Op(gen, Ctx)
    BY <1>1, AnswersProper, BothSpans DEF Answers, PlansOf, sort
  <2>2. Ctx.time = now
    BY DEF Ctx, CtxAt
  <2>3. gen \in PlansOf(sort)
    BY DEF sort
  <2>4. /\ LimitOnTop(a.self) /\ a.self.gen.limit = gen.gen.limit
        /\ \/ a.self.gen.cutoff = gen.gen.cutoff
           \/ /\ gen.gen.cutoff = kInvalidTime /\ a.self.gen.cutoff # kInvalidTime
              /\ a.self.gen.cutoff - gen.gen.limit \in sort.times /\ now <= a.self.gen.cutoff - gen.gen.limit
        /\ a.op.type = "invoke" =>
             /\ LimitOnTop(a.gen) /\ a.gen.gen.limit = gen.gen.limit /\ a.gen.gen.cutoff = a.self.gen.cutoff
             /\ a.gen.gen.cutoff # kInvalidTime /\ a.op.time < a.gen.gen.cutoff
    BY <1>1, <1>2, <2>1, <2>2, <2>3, TopAnswer
  <2>5. ASSUME a.op.type \notin {"nil", "pending"}
        PROVE  /\ a.op.type = "invoke" /\ a.gen \in PlansOf(sort)
               /\ a.op \in Issued /\ now <= a.op.time /\ a.op.process \in Processes
    <3>1. a.op.type = "invoke" /\ a.gen \in PlansOf(sort)
      BY <1>2, <2>1, <2>5 DEF Proper, IsAnswer, PlansOf
    <3>2. gen \in PlansOf(Sound)
      BY SoundLater DEF sort
    <3>3. a.op \in Issued /\ now <= a.op.time
      BY <1>2, <2>5, <3>2, AnswerDispatches
    <3> QED BY <3>1, <3>3 DEF Issued
  <2> QED BY <1>1, <2>4, <2>5
<1>3. ASSUME NEW F \in SUBSET Threads, NEW t \in Int
      PROVE  CtxAt(F, t) \in Contexts
  BY DEF CtxAt, Contexts, IInv, TypeOK
<1>4. now \in Int /\ free_threads \subseteq Threads
  BY DEF IInv, TypeOK
<1>5. ASSUME NEW t \in Threads, GComplete(t)
      PROVE  LimitOnTop(gen') /\ gen'.gen.limit = gen.gen.limit /\ gen'.gen.cutoff = gen.gen.cutoff /\ issued' = issued
  <2>1. /\ completions[t] # <<>> /\ gen' = Update(gen, CompletionCtx(t), Head(completions[t]).process)
        /\ issued' = issued
    BY <1>5 DEF GComplete, Complete
  <2>2. Head(completions[t]).process \in Processes
    BY <2>1, CompletionOfThread DEF IInv, TypeOK
  <2>3. CompletionCtx(t) \in Contexts
    BY <1>4, <2>1, CompletionContext
  <2> HIDE DEF sort
  <2>4. gen \in PlansOf(sort)
    BY DEF sort
  <2> QED BY <1>1, <2>1, <2>2, <2>3, <2>4, TopUpdate
<1>6. CASE GDispatch
  <2>1. PICK a \in Answers :
          /\ a.op.type \notin {"nil", "pending", "crash"} /\ DispatchTo(a.op.process)
          /\ gen' = Update(a.gen, DispatchCtx(a.op), a.op.process)
          /\ issued' = Append(issued, a.op)
    BY <1>6 DEF GDispatch
  <2>2. DispatchCtx(a.op) \in Contexts
    <3>1. a.op.time \in Int
      BY <1>2, <2>1 DEF Issued
    <3> QED BY <1>3, <1>4, <3>1 DEF DispatchCtx
  <2>3. LimitOnTop(gen') /\ gen'.gen.limit = a.gen.gen.limit /\ gen'.gen.cutoff = a.gen.gen.cutoff
    <3>1. a.gen \in PlansOf(sort) /\ LimitOnTop(a.gen) /\ a.op.process \in Processes
      BY <1>2, <2>1
    <3> HIDE DEF sort
    <3> QED BY <1>1, <2>1, <2>2, <3>1, TopUpdate
  <2> QED BY <1>2, <2>1, <2>3
<1>7. CASE GNotDue \/ GPending \/ GNil
  <2>1. PICK a \in Answers : a.op.type # "crash" /\ gen' = a.self /\ issued' = issued
    BY <1>7 DEF GNotDue, GPending, GNil
  <2> QED BY <1>2, <2>1
<1>8. CASE UNCHANGED <<gen, issued>>
  BY <1>8
<1>9. ASSUME GNext PROVE \/ \E t \in Threads : GComplete(t)
                         \/ GDispatch \/ (GNotDue \/ GPending \/ GNil) \/ UNCHANGED <<gen, issued>>
  BY <1>9 DEF GNext, GWorker, GCrash, GExit, Tick, SetBack, GEnded, gen_vars
<1> QED BY <1>5, <1>6, <1>7, <1>8, <1>9

\* The limit of the plan has no cutoff yet.
LEMMA InitTimed == GInit => TimedInv
<1> SUFFICES ASSUME GInit, Limited PROVE TimedInv
  BY DEF TimedInv
<1>1. now + behind = 1
  BY DEF GInit
<1>2. gen \in PlansOf(Timed(now + behind))
  BY <1>1 DEF GInit, Limited, Punctual, Timed
<1> QED BY <1>2 DEF GInit, Limited, TimedInv

\* Every step keeps the operations within the limit.
LEMMA NextTimed == GIInv /\ TimedInv /\ [GNext]_gvars => TimedInv'
<1>1. ASSUME TimedInv, UNCHANGED gvars PROVE TimedInv'
  BY <1>1 DEF TimedInv, Limited, Bounds, gvars, gen_vars, clock
<1>2. ASSUME GIInv, TimedInv, GNext, main # "terminated" PROVE TimedInv'
  <2>1. plan' = plan /\ now' + behind' >= now + behind /\ behind' >= behind /\ behind' \in Nat /\ now' \in Nat
    BY <1>2, ClockSteps
  <2> SUFFICES ASSUME Limited'
               PROVE  /\ gen' \in PlansOf(Timed(now' + behind')) /\ LimitOnTop(gen')
                      /\ gen'.gen.limit = plan'.gen.limit
                      /\ IF gen'.gen.cutoff = kInvalidTime THEN issued' = <<>>
                         ELSE /\ gen'.gen.cutoff - gen'.gen.limit <= now' + behind'
                              /\ \A i \in DOMAIN issued' :
                                   /\ issued'[i].time < gen'.gen.cutoff
                                   /\ gen'.gen.cutoff - gen'.gen.limit <= issued'[i].time + behind'
    BY DEF TimedInv, Bounds
  <2>2. Limited /\ plan.gen.limit > 0
    BY <2>1 DEF Limited
  <2> DEFINE latest == now + behind
  <2>3. /\ gen \in PlansOf(Timed(latest)) /\ LimitOnTop(gen) /\ gen.gen.limit = plan.gen.limit
        /\ gen.gen.cutoff = kInvalidTime => issued = <<>>
        /\ gen.gen.cutoff # kInvalidTime => /\ gen.gen.cutoff - gen.gen.limit <= latest
                                        /\ \A i \in DOMAIN issued : Bounds(gen.gen.cutoff, issued[i])
    BY <1>2, <2>2 DEF TimedInv
  <2>4. /\ IInv /\ now \in Nat \ {0} /\ behind \in Nat /\ latest \in Nat /\ now <= latest
        /\ issued \in Seq(Issued) /\ gen \in PlansOf(Sound)
    BY <1>2 DEF GIInv
  <2>5. /\ LimitOnTop(gen') /\ gen'.gen.limit = gen.gen.limit
        /\ \/ gen'.gen.cutoff = gen.gen.cutoff
           \/ /\ gen.gen.cutoff = kInvalidTime /\ gen'.gen.cutoff # kInvalidTime
              /\ now <= gen'.gen.cutoff - gen.gen.limit /\ gen'.gen.cutoff - gen.gen.limit <= latest
        /\ \/ issued' = issued
           \/ /\ gen'.gen.cutoff # kInvalidTime
              /\ \E o \in Issued : /\ now <= o.time /\ o.time < gen'.gen.cutoff
                                   /\ issued' = Append(issued, o)
    <3> HIDE DEF latest
    <3> QED BY <1>2, <2>2, <2>3, <2>4, StepLimits
  <2>6. gen' \in PlansOf(Timed(latest))
    <3>1. now \in Timed(latest).times /\ IsSort(Timed(latest))
      BY <2>4, TimedIsSort
    <3> QED BY <1>2, <2>3, <2>4, <3>1, StepStays
  <2>11. PICK n, d : n = now' /\ d = behind'
    OBVIOUS
  <2>12. /\ n \in Nat /\ d \in Nat /\ n + d \in Nat /\ latest <= n + d /\ behind <= d
         /\ latest \in Int /\ behind \in Int
    <3>1. n \in Nat /\ d \in Nat /\ n + d >= now + behind /\ d >= behind
      BY <2>1, <2>11
    <3>2. now \in Int /\ behind \in Int
      BY <2>4
    <3> QED BY <3>1, <3>2
  <2>7. gen' \in PlansOf(Timed(now' + behind'))
    <3> HIDE DEF latest
    <3>1. gen' \in PlansOf(Timed(n + d))
      BY <2>4, <2>6, <2>12, TimedLater
    <3> QED BY <2>11, <3>1
  <2>8. gen'.gen.cutoff \in Int /\ gen.gen.limit \in Int /\ gen.gen.cutoff \in Int
    <3> HIDE DEF latest
    <3>1. IsSort(Timed(latest))
      BY <2>4, TimedIsSort
    <3> QED BY <2>3, <2>5, <2>6, <3>1, TopTimeLimit
  <2>9. ASSUME gen'.gen.cutoff = kInvalidTime PROVE issued' = <<>>
    BY <2>3, <2>5, <2>9
  <2>10. ASSUME gen'.gen.cutoff # kInvalidTime
         PROVE  /\ gen'.gen.cutoff - gen'.gen.limit <= now' + behind'
                /\ \A i \in DOMAIN issued' :
                     /\ issued'[i].time < gen'.gen.cutoff
                     /\ gen'.gen.cutoff - gen'.gen.limit <= issued'[i].time + behind'
    <3>1. gen'.gen.cutoff - gen.gen.limit <= latest
      BY <2>3, <2>5, <2>10
    <3>2. \A i \in DOMAIN issued : /\ issued[i].time \in Int /\ issued[i].time < gen'.gen.cutoff
                                   /\ gen'.gen.cutoff - gen.gen.limit <= issued[i].time + behind
      <4>1. CASE gen.gen.cutoff = kInvalidTime
        <5>1. issued = <<>>
          BY <2>3, <4>1
        <5> QED BY <5>1
      <4>2. CASE gen.gen.cutoff # kInvalidTime
        <5>1. \A i \in DOMAIN issued : issued[i] \in Issued
          BY <2>4
        <5> QED BY <2>3, <2>5, <4>2, <5>1 DEF Bounds, Issued
      <4> QED BY <4>1, <4>2
    <3>3. ASSUME NEW i \in DOMAIN issued'
          PROVE  issued'[i].time < gen'.gen.cutoff /\ gen'.gen.cutoff - gen'.gen.limit <= issued'[i].time + behind'
      <4>1. /\ issued'[i].time \in Int /\ issued'[i].time < gen'.gen.cutoff
            /\ gen'.gen.cutoff - gen.gen.limit <= issued'[i].time + behind
        <5>1. CASE issued' = issued
          BY <3>2, <3>3, <5>1
        <5>2. CASE \E o \in Issued : /\ now <= o.time /\ o.time < gen'.gen.cutoff
                                     /\ issued' = Append(issued, o)
          <6>1. PICK o \in Issued : /\ now <= o.time /\ o.time < gen'.gen.cutoff
                                    /\ issued' = Append(issued, o)
            BY <5>2
          <6>2. issued'[i] = o \/ (i \in DOMAIN issued /\ issued'[i] = issued[i])
            BY <2>4, <3>3, <6>1, Added
          <6>3. o.time \in Int /\ gen'.gen.cutoff - gen.gen.limit <= o.time + behind
            BY <2>4, <2>8, <3>1, <6>1 DEF Issued
          <6> QED BY <3>2, <6>1, <6>2, <6>3
        <5> QED BY <2>5, <5>1, <5>2
      <4>2. gen'.gen.cutoff - gen'.gen.limit <= issued'[i].time + behind'
        <5>1. gen'.gen.cutoff - gen.gen.limit <= issued'[i].time + d
          BY <2>8, <2>12, <4>1
        <5> QED BY <2>5, <2>11, <5>1
      <4> QED BY <4>1, <4>2
    <3>4. gen'.gen.cutoff - gen'.gen.limit <= now' + behind'
      <4>1. gen'.gen.cutoff - gen.gen.limit <= n + d
        <5> HIDE DEF latest
        <5> QED BY <2>8, <2>12, <3>1
      <4>2. gen'.gen.limit = gen.gen.limit
        BY <2>5
      <4>3. n = now' /\ d = behind'
        BY <2>11
      <4> QED BY <4>1, <4>2, <4>3
    <3> QED BY <3>3, <3>4
  <2> QED BY <2>1, <2>3, <2>5, <2>7, <2>9, <2>10
<1> QED BY <1>1, <1>2, EndedChangesNothing

\* A time limit around the whole plan holds from the first operation to the
\* last, although answers that started the count may have been dropped, and
\* although the clock may be set back by what behind counts
\* (Generator.cpp:294-313, TimeHelper.cpp:9-11).
THEOREM TimeLimitHolds == GSpec => []WithinTimeLimit
<1>1. GIInv /\ TimedInv => WithinTimeLimit
  <2> SUFFICES ASSUME GIInv, TimedInv, Limited, NEW i \in DOMAIN issued, NEW j \in DOMAIN issued
               PROVE  issued[j].time - issued[i].time < plan.gen.limit + behind
    BY DEF WithinTimeLimit, Limited, LimitOnTop, GIInv
  <2>1. /\ gen \in PlansOf(Timed(now + behind)) /\ LimitOnTop(gen) /\ gen.gen.limit = plan.gen.limit
        /\ gen.gen.cutoff = kInvalidTime => issued = <<>>
        /\ gen.gen.cutoff # kInvalidTime => \A k \in DOMAIN issued : Bounds(gen.gen.cutoff, issued[k])
    BY DEF TimedInv
  <2>2. issued \in Seq(Issued) /\ now + behind \in Nat /\ behind \in Nat
    BY DEF GIInv
  <2>3. gen.gen.cutoff \in Int /\ gen.gen.limit \in Int
    BY <2>1, <2>2, TimedIsSort, TopTimeLimit
  <2>4. issued # <<>> /\ issued[i] \in Issued /\ issued[j] \in Issued
    BY <2>2
  <2>5. Bounds(gen.gen.cutoff, issued[i]) /\ Bounds(gen.gen.cutoff, issued[j])
    BY <2>1, <2>4
  <2>6. issued[i].time \in Int /\ issued[j].time \in Int
    BY <2>4 DEF Issued
  <2>7. \A cutoff, limit, b, early, late \in Int :
          late < cutoff /\ cutoff - limit <= early + b => late - early < limit + b
    OBVIOUS
  <2>8. /\ issued[j].time < gen.gen.cutoff
        /\ gen.gen.cutoff - gen.gen.limit <= issued[i].time + behind
    BY <2>5 DEF Bounds
  <2>9. behind \in Int
    BY <2>2
  <2> HIDE DEF Limited
  <2> QED BY <2>1, <2>3, <2>6, <2>7, <2>8, <2>9
<1> QED BY <1>1, GInductive, InitTimed, NextTimed, PTL DEF GSpec

-----------------------------------------------------------------------------
(***************************************************************************)
(* The names of a list, and what its wrappers and copyOne make of it.      *)
(***************************************************************************)

\* The first element of a list and the list of the others are smaller trees.
LEMMA FirstAndOthers ==
  ASSUME NEW sort, NEW n \in Nat, NEW scope \in Scopes, NEW g \in Trees(sort)[n][scope]["any"],
         g.kind = "list", g.gens # <<>>
  PROVE  /\ n # 0 /\ n - 1 \in Nat /\ n - 1 \in 0 .. (n - 1) /\ g = List(g.gens)
         /\ g.gens \in Seq(NestedTo[n - 1]) /\ 1 \in 1 .. Len(g.gens)
         /\ g.gens[1] \in Trees(sort)[n - 1][scope]["any"]
         /\ Tail(g.gens) = <<>> \/ List(Tail(g.gens)) \in Trees(sort)[n - 1][scope]["any"]
<1> DEFINE q == g.gens
<1>1. /\ n # 0 /\ n - 1 \in 0 .. (n - 1) /\ n - 1 \in Nat /\ g = List(q)
      /\ MemberSeq(sort, n, scope, "any", q) /\ q \in Seq(NestedTo[n - 1]) /\ q # <<>>
  BY TreeParts, BothSpans DEF Childless, MemberSeq
<1> HIDE DEF q
<1>2. Tail(q) = Without(q, 1) /\ 1 \in 1 .. Len(q) /\ Len(q) - 1 \in Nat
  BY <1>1, TailIsWithout
<1>3. q[1] \in Trees(sort)[n - 1][scope]["any"]
  <2>1. n - Len(q) \in Nat /\ n - Len(q) <= n - 1 /\ q[1] \in Trees(sort)[n - Len(q)][scope]["any"]
    BY <1>1, <1>2, MemberTree
  <2> QED BY <1>1, <2>1, TreesMonotone, BothSpans
<1>4. MemberSeq(sort, n - 1, scope, "any", Tail(q)) /\ Len(Tail(q)) = Len(q) - 1
  <2>1. "any" # "endless"
    OBVIOUS
  <2>2. MemberSeq(sort, n - 1, scope, "any", Without(q, 1)) /\ Len(Without(q, 1)) = Len(q) - 1
    BY <1>1, <1>2, <2>1, FewerMembers
  <2> QED BY <1>2, <2>2
<1>5. Tail(q) = <<>> \/ List(Tail(q)) \in Trees(sort)[n - 1][scope]["any"]
  <2>1. CASE n - 1 # 0
    BY <1>1, <1>4, <2>1, ListTree, BothSpans
  <2>2. CASE n - 1 = 0
    <3>1. Len(q) \in 1 .. n
      BY <1>1, <1>2, MemberTree
    <3>2. Len(Tail(q)) = 0
      <4>1. n = 1
        BY <2>2
      <4>2. Len(q) = 1
        BY <3>1, <4>1
      <4> QED BY <1>4, <4>2
    <3>3. Tail(q) \in Seq(NestedTo[n - 1])
      BY <1>1, HeadTailProperties
    <3> QED BY <3>2, <3>3, EmptySeq
  <2> QED BY <2>1, <2>2
<1> QED BY <1>1, <1>2, <1>3, <1>5 DEF q

\* There is a list without elements.
LEMMA EmptyListIsGenerator ==
  ASSUME Size # 0 PROVE List(<<>>) \in Generators
<1>1. Size - 1 \in Nat /\ Size \in Nat
  BY SizeAssumption
<1>2. NestedTo[Size] = NodesOver(NestedTo[Size - 1]) /\ <<>> \in Seq(NestedTo[Size - 1])
  BY <1>1, NestedValue, EmptySeq
<1>3. \A q \in Seq(NestedTo[Size - 1]) : List(q) \in NodesOver(NestedTo[Size - 1])
  BY Nodes
<1> QED BY <1>2, <1>3 DEF Generators

\* The names of a generator, by those of its parts at the level below.
LEMMA ListedNode ==
  ASSUME NEW listed, NEW g \in Generators
  PROVE  /\ g.kind = "op" => ListedOver(listed)[g] = <<g.op.f>>
         /\ g.kind = "list" => ListedOver(listed)[g] = IF g.gens = <<>> THEN <<>>
                                 ELSE listed[g.gens[1]] \o listed[List(Tail(g.gens))]
         /\ g.kind \in Wrappers => ListedOver(listed)[g] = listed[g.gen]
         /\ g.kind \notin Wrappers \cup {"op", "list"} => ListedOver(listed)[g] = <<>>
<1>1. ListedOver(listed)[g] =
        CASE g.kind = "op"       -> <<g.op.f>>
          [] g.kind = "list"     -> IF g.gens = <<>> THEN <<>>
                                    ELSE listed[g.gens[1]] \o listed[List(Tail(g.gens))]
          [] g.kind \in Wrappers -> listed[g.gen]
          [] OTHER               -> <<>>
  BY DEF ListedOver
<1>2. "op" \notin Wrappers /\ "list" \notin Wrappers /\ "op" # "list"
  BY DEF Wrappers
<1>3. CASE g.kind = "op"
  BY <1>1, <1>2, <1>3
<1>4. CASE g.kind = "list"
  BY <1>1, <1>2, <1>4
<1>5. CASE g.kind \in Wrappers
  BY <1>1, <1>2, <1>5
<1>6. CASE g.kind \notin Wrappers \cup {"op", "list"}
  BY <1>1, <1>2, <1>6
<1> QED BY <1>2, <1>3, <1>4, <1>5, <1>6

\* An empty list has no names, however deep the recursion.
LEMMA ListedEmpty ==
  ASSUME Size # 0, NEW j \in Nat PROVE ListedAt[j][List(<<>>)] = <<>>
<1>1. PICK listed : ListedAt[j] = ListedOver(listed)
  BY ListedValue
<1>2. List(<<>>) \in Generators
  BY EmptyListIsGenerator
<1>3. List(<<>>).kind = "list" /\ List(<<>>).gens = <<>>
  BY DEF List
<1> QED BY <1>1, <1>2, <1>3, ListedNode

\* The recursion has the names of a tree of size k as soon as it is that deep.
LEMMA ListedStable ==
  ASSUME NEW sort, NEW k \in Nat, k <= Size, NEW scope \in Scopes,
         NEW g \in Trees(sort)[k][scope]["any"], NEW j \in Nat, k <= j
  PROVE  ListedAt[j][g] = ListedAt[k][g] /\ ListedAt[k][g] \in Seq(STRING)
<1> DEFINE P == {n \in Nat : n <= Size =>
                   \A sc \in Scopes, m \in Nat : n <= m =>
                     \A h \in Trees(sort)[n][sc]["any"] :
                       ListedAt[m][h] = ListedAt[n][h] /\ ListedAt[n][h] \in Seq(STRING)}
<1>1. ASSUME NEW n \in Nat, \A m \in 0 .. (n - 1) : m \in P PROVE n \in P
  <2> SUFFICES ASSUME n <= Size, NEW sc \in Scopes, NEW m \in Nat, n <= m,
                      NEW h \in Trees(sort)[n][sc]["any"]
               PROVE  ListedAt[m][h] = ListedAt[n][h] /\ ListedAt[n][h] \in Seq(STRING)
    OBVIOUS
  <2> DEFINE x == IF n = 0 THEN <<>> ELSE ListedAt[n - 1]
             y == IF m = 0 THEN <<>> ELSE ListedAt[m - 1]
  <2>1. ListedAt[n] = ListedOver(x) /\ ListedAt[m] = ListedOver(y)
    BY ListedValue
  <2>2. h \in Generators
    BY TreeIsGenerator, BothSpans
  <2>3. ASSUME NEW s \in Scopes, n # 0, NEW f \in Trees(sort)[n - 1][s]["any"]
        PROVE  y[f] = x[f] /\ x[f] \in Seq(STRING)
    <3>1. n - 1 \in 0 .. (n - 1) /\ n - 1 \in Nat /\ n - 1 <= Size /\ m # 0 /\ m - 1 \in Nat /\ n - 1 <= m - 1
      BY <2>3, SizeAssumption
    <3>2. ListedAt[m - 1][f] = ListedAt[n - 1][f] /\ ListedAt[n - 1][f] \in Seq(STRING)
      BY <1>1, <2>3, <3>1
    <3> QED BY <2>3, <3>1, <3>2
  <2>4. ASSUME n # 0 PROVE y[List(<<>>)] = <<>> /\ x[List(<<>>)] = <<>>
    <3>1. n - 1 \in Nat /\ m # 0 /\ m - 1 \in Nat /\ Size # 0
      BY <2>4, SizeAssumption
    <3> QED BY <2>4, <3>1, ListedEmpty
  <2> HIDE DEF x, y
  <2>5. h.kind \in Kinds /\ (h.kind = "op" => h.op \in Operations)
    BY TreeElim, BothSpans DEF WellFormed
  <2>6. CASE h.kind = "op"
    <3>1. h.op.f \in STRING
      BY <2>5, <2>6 DEF Operations
    <3>2. ListedOver(x)[h] = <<h.op.f>> /\ ListedOver(y)[h] = <<h.op.f>>
      BY <2>2, <2>6, ListedNode
    <3> QED BY <2>1, <3>1, <3>2
  <2>7. CASE h.kind = "list" /\ h.gens = <<>>
    <3>1. <<>> \in Seq(STRING)
      BY EmptySeq
    <3>2. ListedOver(x)[h] = <<>> /\ ListedOver(y)[h] = <<>>
      BY <2>2, <2>7, ListedNode
    <3> QED BY <2>1, <3>1, <3>2
  <2>8. CASE h.kind = "list" /\ h.gens # <<>>
    <3>1. /\ n # 0 /\ h.gens[1] \in Trees(sort)[n - 1][sc]["any"]
          /\ Tail(h.gens) = <<>> \/ List(Tail(h.gens)) \in Trees(sort)[n - 1][sc]["any"]
      BY <2>8, FirstAndOthers
    <3>2. y[h.gens[1]] = x[h.gens[1]] /\ x[h.gens[1]] \in Seq(STRING)
      BY <2>3, <3>1
    <3>3. y[List(Tail(h.gens))] = x[List(Tail(h.gens))] /\ x[List(Tail(h.gens))] \in Seq(STRING)
      <4>1. CASE Tail(h.gens) = <<>>
        <5>1. <<>> \in Seq(STRING)
          BY EmptySeq
        <5> QED BY <2>4, <3>1, <4>1, <5>1
      <4>2. CASE List(Tail(h.gens)) \in Trees(sort)[n - 1][sc]["any"]
        BY <2>3, <3>1, <4>2
      <4> QED BY <3>1, <4>1, <4>2
    <3>4. x[h.gens[1]] \o x[List(Tail(h.gens))] \in Seq(STRING)
      BY <3>2, <3>3, ConcatProperties
    <3>5. /\ ListedAt[n][h] = x[h.gens[1]] \o x[List(Tail(h.gens))]
          /\ ListedAt[m][h] = y[h.gens[1]] \o y[List(Tail(h.gens))]
      <4>1. /\ ListedOver(x)[h] = x[h.gens[1]] \o x[List(Tail(h.gens))]
            /\ ListedOver(y)[h] = y[h.gens[1]] \o y[List(Tail(h.gens))]
        BY <2>2, <2>8, ListedNode
      <4> QED BY <2>1, <4>1
    <3> QED BY <3>2, <3>3, <3>4, <3>5
  <2>9. CASE h.kind \in Wrappers
    <3>1. n # 0 /\ \E s \in Scopes : h.gen \in Trees(sort)[n - 1][s]["any"]
      BY <2>9, TreeParts, BothSpans DEF Wrappers, Childless
    <3>2. y[h.gen] = x[h.gen] /\ x[h.gen] \in Seq(STRING)
      BY <2>3, <3>1
    <3> QED BY <2>1, <2>2, <2>9, <3>2, ListedNode
  <2>10. CASE h.kind \notin Wrappers \cup {"op", "list"}
    <3>1. <<>> \in Seq(STRING)
      BY EmptySeq
    <3>2. ListedOver(x)[h] = <<>> /\ ListedOver(y)[h] = <<>>
      BY <2>2, <2>10, ListedNode
    <3> QED BY <2>1, <3>1, <3>2
  <2> QED BY <2>6, <2>7, <2>8, <2>9, <2>10
<1>2. Nat \subseteq P
  <2> HIDE DEF P
  <2> QED BY <1>1, StrongInduction
<1> QED BY <1>2

\* The names of a tree by those of its parts.
LEMMA ListedParts ==
  ASSUME NEW sort, NEW n \in Nat, n <= Size, NEW scope \in Scopes, NEW g \in Trees(sort)[n][scope]["any"]
  PROVE  /\ Listed(g) \in Seq(STRING)
         /\ g.kind = "null" => Listed(g) = <<>>
         /\ g.kind = "op" => Listed(g) = <<g.op.f>>
         /\ g.kind = "list" =>
              IF g.gens = <<>> THEN Listed(g) = <<>>
              ELSE /\ Listed(g) = Listed(g.gens[1]) \o Listed(List(Tail(g.gens)))
                   /\ Listed(g.gens[1]) \in Seq(STRING) /\ Listed(List(Tail(g.gens))) \in Seq(STRING)
         /\ g.kind \in Wrappers => Listed(g) = Listed(g.gen)
<1> DEFINE x == IF n = 0 THEN <<>> ELSE ListedAt[n - 1]
<1>1. Listed(g) = ListedAt[n][g] /\ ListedAt[n][g] \in Seq(STRING)
  BY ListedStable, SizeAssumption DEF Listed
<1>2. ListedAt[n] = ListedOver(x)
  BY ListedValue
<1>3. g \in Generators
  BY TreeIsGenerator, BothSpans
<1>4. ASSUME NEW s \in Scopes, n # 0, NEW f \in Trees(sort)[n - 1][s]["any"]
      PROVE  Listed(f) = x[f] /\ x[f] \in Seq(STRING)
  <2>1. n - 1 \in Nat /\ n - 1 <= Size /\ Size \in Nat
    BY <1>4, SizeAssumption
  <2>2. ListedAt[Size][f] = ListedAt[n - 1][f] /\ ListedAt[n - 1][f] \in Seq(STRING)
    BY <1>4, <2>1, ListedStable
  <2> QED BY <1>4, <2>2 DEF Listed
<1>5. ASSUME n # 0 PROVE Listed(List(<<>>)) = <<>> /\ x[List(<<>>)] = <<>>
  <2>1. n - 1 \in Nat /\ Size # 0 /\ Size \in Nat
    BY <1>5, SizeAssumption
  <2> QED BY <1>5, <2>1, ListedEmpty DEF Listed
<1> HIDE DEF x
<1>6. CASE g.kind \in {"null", "op"}
  <2>1. g.kind = "null" => g.kind \notin Wrappers \cup {"op", "list"}
    BY DEF Wrappers
  <2>2. g.kind \notin Wrappers
    BY <1>6 DEF Wrappers
  <2> QED BY <1>1, <1>2, <1>3, <1>6, <2>1, <2>2, ListedNode
<1>7. CASE g.kind = "list" /\ g.gens = <<>>
  <2>1. g.kind \notin Wrappers
    BY <1>7 DEF Wrappers
  <2> QED BY <1>1, <1>2, <1>3, <1>7, <2>1, ListedNode
<1>8. CASE g.kind = "list" /\ g.gens # <<>>
  <2>1. /\ n # 0 /\ g.gens[1] \in Trees(sort)[n - 1][scope]["any"]
        /\ Tail(g.gens) = <<>> \/ List(Tail(g.gens)) \in Trees(sort)[n - 1][scope]["any"]
    BY <1>8, FirstAndOthers
  <2>2. Listed(g.gens[1]) = x[g.gens[1]] /\ x[g.gens[1]] \in Seq(STRING)
    BY <1>4, <2>1
  <2>3. Listed(List(Tail(g.gens))) = x[List(Tail(g.gens))] /\ x[List(Tail(g.gens))] \in Seq(STRING)
    BY <1>4, <1>5, <2>1, EmptySeq
  <2>4. ListedAt[n][g] = x[g.gens[1]] \o x[List(Tail(g.gens))]
    BY <1>2, <1>3, <1>8, ListedNode
  <2>5. g.kind \notin Wrappers /\ g.kind # "null" /\ g.kind # "op"
    BY <1>8 DEF Wrappers
  <2> QED BY <1>1, <1>8, <2>2, <2>3, <2>4, <2>5
<1>9. CASE g.kind \in Wrappers
  <2>1. n # 0 /\ \E s \in Scopes : g.gen \in Trees(sort)[n - 1][s]["any"]
    BY <1>9, TreeParts, BothSpans DEF Wrappers, Childless
  <2>2. Listed(g.gen) = x[g.gen]
    BY <1>4, <2>1
  <2>3. g.kind \notin {"null", "op", "list"}
    BY <1>9 DEF Wrappers
  <2> QED BY <1>1, <1>2, <1>3, <1>9, <2>2, <2>3, ListedNode
<1>10. CASE g.kind \notin Wrappers \cup {"null", "op", "list"}
  BY <1>1, <1>10
<1> QED BY <1>6, <1>7, <1>8, <1>9, <1>10

\* The elements of a list are smaller trees, and so is what a wrapper holds.
LEMMA SmallerParts ==
  ASSUME NEW sort, NEW n \in Nat, NEW scope \in Scopes, NEW g \in Trees(sort)[n][scope]["any"]
  PROVE  /\ g.kind = "list" => \A i \in DOMAIN g.gens : n # 0 /\ g.gens[i] \in Trees(sort)[n - 1][scope]["any"]
         /\ g.kind \in Wrappers => n # 0 /\ \E s \in Scopes : g.gen \in Trees(sort)[n - 1][s]["any"]
<1>1. CASE g.kind = "list"
  <2> DEFINE q == g.gens
  <2>1. n # 0 /\ MemberSeq(sort, n, scope, "any", q)
    BY <1>1, TreeParts, BothSpans DEF Childless
  <2>2. SUFFICES ASSUME NEW i \in DOMAIN q PROVE q[i] \in Trees(sort)[n - 1][scope]["any"]
    BY <1>1, <2>1 DEF Wrappers
  <2> HIDE DEF q
  <2>3. i \in 1 .. Len(q)
    BY <2>1 DEF MemberSeq
  <2>4. n - Len(q) \in Nat /\ n - Len(q) <= n - 1 /\ q[i] \in Trees(sort)[n - Len(q)][scope]["any"]
    BY <2>1, <2>3, MemberTree
  <2>5. n - 1 \in Nat
    BY <2>1
  <2> QED BY <2>4, <2>5, TreesMonotone, BothSpans
<1>2. CASE g.kind \in Wrappers
  BY <1>2, TreeParts, BothSpans DEF Wrappers, Childless
<1> QED BY <1>1, <1>2

\* A list in wrappers, by its parts at the level below.
LEMMA ListsNode ==
  ASSUME NEW lists, NEW n, NEW kinds \in SUBSET Wrappers, NEW g \in NestedTo[n]
  PROVE  g \in ListsOver(lists, n)[kinds] <=>
           \/ g.kind \in {"null", "op"}
           \/ g.kind = "list" /\ \A i \in DOMAIN g.gens : g.gens[i] \in lists[{}]
           \/ g.kind \in kinds /\ g.gen \in lists[kinds]
BY DEF ListsOver

\* The recursion knows a tree of size k as soon as it is that deep.
LEMMA ListsStable ==
  ASSUME NEW sort, NEW k \in Nat, NEW scope \in Scopes, NEW g \in Trees(sort)[k][scope]["any"],
         NEW j \in Nat, k <= j, NEW kinds \in SUBSET Wrappers
  PROVE  g \in ListsTo[j][kinds] <=> g \in ListsTo[k][kinds]
<1> DEFINE P == {n \in Nat : \A sc \in Scopes, m \in Nat, ks \in SUBSET Wrappers : n <= m =>
                               \A h \in Trees(sort)[n][sc]["any"] :
                                 h \in ListsTo[m][ks] <=> h \in ListsTo[n][ks]}
<1>1. ASSUME NEW n \in Nat, \A m \in 0 .. (n - 1) : m \in P PROVE n \in P
  <2> SUFFICES ASSUME NEW sc \in Scopes, NEW m \in Nat, NEW ks \in SUBSET Wrappers, n <= m,
                      NEW h \in Trees(sort)[n][sc]["any"]
               PROVE  h \in ListsTo[m][ks] <=> h \in ListsTo[n][ks]
    OBVIOUS
  <2> DEFINE x == IF n = 0 THEN <<>> ELSE ListsTo[n - 1]
             y == IF m = 0 THEN <<>> ELSE ListsTo[m - 1]
  <2>1. ListsTo[n] = ListsOver(x, n) /\ ListsTo[m] = ListsOver(y, m)
    BY ListsValue
  <2>2. h \in NestedTo[n] /\ h \in NestedTo[m]
    BY TreeElim, BothSpans, NestedMonotone
  <2>3. ASSUME n # 0, NEW s \in Scopes, NEW f \in Trees(sort)[n - 1][s]["any"], NEW ls \in SUBSET Wrappers
        PROVE  f \in y[ls] <=> f \in x[ls]
    <3>1. n - 1 \in 0 .. (n - 1) /\ n - 1 \in Nat /\ m # 0 /\ m - 1 \in Nat /\ n - 1 <= m - 1
      BY <2>3
    <3>2. f \in ListsTo[m - 1][ls] <=> f \in ListsTo[n - 1][ls]
      BY <1>1, <2>3, <3>1
    <3> QED BY <2>3, <3>1, <3>2
  <2> HIDE DEF x, y
  <2>4. {} \in SUBSET Wrappers
    OBVIOUS
  <2>5. CASE h.kind = "list"
    <3>1. \A i \in DOMAIN h.gens : h.gens[i] \in y[{}] <=> h.gens[i] \in x[{}]
      BY <2>3, <2>4, <2>5, SmallerParts
    <3>2. h.kind \notin ks /\ h.kind \notin {"null", "op"}
      BY <2>5 DEF Wrappers
    <3>3. h \in ListsOver(x, n)[ks] <=> \A i \in DOMAIN h.gens : h.gens[i] \in x[{}]
      BY <2>2, <2>5, <3>2, ListsNode
    <3>4. h \in ListsOver(y, m)[ks] <=> \A i \in DOMAIN h.gens : h.gens[i] \in y[{}]
      BY <2>2, <2>5, <3>2, ListsNode
    <3> QED BY <2>1, <3>1, <3>3, <3>4
  <2>6. CASE h.kind # "list"
    <3>1. h.kind \in ks => (h.gen \in y[ks] <=> h.gen \in x[ks])
      BY <2>3, SmallerParts
    <3>2. h \in ListsOver(x, n)[ks] <=> h.kind \in {"null", "op"} \/ (h.kind \in ks /\ h.gen \in x[ks])
      BY <2>2, <2>6, ListsNode
    <3>3. h \in ListsOver(y, m)[ks] <=> h.kind \in {"null", "op"} \/ (h.kind \in ks /\ h.gen \in y[ks])
      BY <2>2, <2>6, ListsNode
    <3> QED BY <2>1, <3>1, <3>2, <3>3
  <2> QED BY <2>5, <2>6
<1>2. Nat \subseteq P
  <2> HIDE DEF P
  <2> QED BY <1>1, StrongInduction
<1> QED BY <1>2

\* A list in wrappers, by its parts.
LEMMA ListsParts ==
  ASSUME NEW sort, NEW n \in Nat, n <= Size, NEW scope \in Scopes, NEW g \in Trees(sort)[n][scope]["any"],
         NEW kinds \in SUBSET Wrappers
  PROVE  g \in Lists(kinds) <=>
           \/ g.kind \in {"null", "op"}
           \/ g.kind = "list" /\ \A i \in DOMAIN g.gens : g.gens[i] \in Lists({})
           \/ g.kind \in kinds /\ g.gen \in Lists(kinds)
<1> DEFINE x == IF n = 0 THEN <<>> ELSE ListsTo[n - 1]
<1>1. ListsTo[n] = ListsOver(x, n)
  BY ListsValue
<1>2. g \in NestedTo[n]
  BY TreeElim, BothSpans
<1>3. g \in Lists(kinds) <=> g \in ListsTo[n][kinds]
  BY ListsStable, SizeAssumption DEF Lists
<1>4. ASSUME n # 0, NEW s \in Scopes, NEW f \in Trees(sort)[n - 1][s]["any"], NEW ks \in SUBSET Wrappers
      PROVE  f \in Lists(ks) <=> f \in x[ks]
  <2>1. n - 1 \in Nat /\ n - 1 <= Size /\ Size \in Nat
    BY <1>4, SizeAssumption
  <2>2. f \in ListsTo[Size][ks] <=> f \in ListsTo[n - 1][ks]
    BY <1>4, <2>1, ListsStable
  <2> QED BY <1>4, <2>2 DEF Lists
<1> HIDE DEF x
<1>5. g.kind = "list" => \A i \in DOMAIN g.gens : g.gens[i] \in Lists({}) <=> g.gens[i] \in x[{}]
  BY <1>4, SmallerParts
<1>6. g.kind \in kinds => (g.gen \in Lists(kinds) <=> g.gen \in x[kinds])
  BY <1>4, SmallerParts
<1>7. g \in ListsOver(x, n)[kinds] <=>
        \/ g.kind \in {"null", "op"}
        \/ g.kind = "list" /\ \A i \in DOMAIN g.gens : g.gens[i] \in x[{}]
        \/ g.kind \in kinds /\ g.gen \in x[kinds]
  BY <1>2, ListsNode
<1> QED BY <1>1, <1>3, <1>5, <1>6, <1>7

\* A list in no wrapper is one in wrappers of any kinds.
LEMMA BareLists ==
  ASSUME NEW sort, NEW n \in Nat, n <= Size, NEW scope \in Scopes, NEW g \in Trees(sort)[n][scope]["any"],
         NEW kinds \in SUBSET Wrappers, g \in Lists({})
  PROVE  g \in Lists(kinds)
<1>1. {} \in SUBSET Wrappers
  OBVIOUS
<1>2. \/ g.kind \in {"null", "op"}
      \/ g.kind = "list" /\ \A i \in DOMAIN g.gens : g.gens[i] \in Lists({})
  BY <1>1, ListsParts
<1> QED BY <1>2, ListsParts

\* copyOne leaves a list as it is, at every level of the recursion,
LEMMA BareCopyAt ==
  ASSUME NEW sort, NEW k \in Nat, k <= Size, NEW scope \in Scopes, NEW g \in Trees(sort)[k][scope]["any"],
         NEW j \in Nat, k <= j, g \in Lists({})
  PROVE  CopyAt[j][g] = g
<1> DEFINE P == {n \in Nat : n <= Size =>
                   \A sc \in Scopes, m \in Nat : n <= m =>
                     \A h \in Trees(sort)[n][sc]["any"] : h \in Lists({}) => CopyAt[m][h] = h}
<1>1. ASSUME NEW n \in Nat, \A m \in 0 .. (n - 1) : m \in P PROVE n \in P
  <2> SUFFICES ASSUME n <= Size, NEW sc \in Scopes, NEW m \in Nat, n <= m,
                      NEW h \in Trees(sort)[n][sc]["any"], h \in Lists({})
               PROVE  CopyAt[m][h] = h
    OBVIOUS
  <2> DEFINE copy == IF m = 0 THEN <<>> ELSE CopyAt[m - 1]
  <2>1. CopyAt[m] = CopyOver(copy)
    BY CopyValue
  <2>2. h \in Generators
    BY TreeIsGenerator, BothSpans
  <2>3. \/ h.kind \in {"null", "op"}
        \/ h.kind = "list" /\ \A i \in DOMAIN h.gens : h.gens[i] \in Lists({})
    <3>1. {} \in SUBSET Wrappers
      OBVIOUS
    <3> QED BY <3>1, ListsParts
  <2>4. CASE h.kind \in {"null", "op"}
    <3> HIDE DEF copy
    <3> QED BY <2>1, <2>2, <2>4 DEF CopyOver
  <2>5. CASE h.kind = "list" /\ \A i \in DOMAIN h.gens : h.gens[i] \in Lists({})
    <3>1. ASSUME NEW i \in DOMAIN h.gens PROVE copy[h.gens[i]] = h.gens[i]
      <4>1. n # 0 /\ h.gens[i] \in Trees(sort)[n - 1][sc]["any"]
        BY <2>5, SmallerParts
      <4>2. n - 1 \in 0 .. (n - 1) /\ n - 1 \in Nat /\ n - 1 <= Size /\ m # 0 /\ m - 1 \in Nat /\ n - 1 <= m - 1
        BY <4>1, SizeAssumption
      <4>3. CopyAt[m - 1][h.gens[i]] = h.gens[i]
        BY <1>1, <2>5, <4>1, <4>2
      <4> QED BY <4>2, <4>3
    <3> HIDE DEF copy
    <3>2. CopyOver(copy)[h] = List([i \in DOMAIN h.gens |-> copy[h.gens[i]]])
      BY <2>2, <2>5 DEF CopyOver, CopyList
    <3>3. h = List(h.gens) /\ h.gens = [i \in DOMAIN h.gens |-> h.gens[i]]
      <4>1. h = List(h.gens) /\ h.gens \in Seq(NestedTo[n - 1])
        BY <2>5, TreeElim, BothSpans DEF WellFormed
      <4> QED BY <4>1
    <3>4. [i \in DOMAIN h.gens |-> copy[h.gens[i]]] = h.gens
      BY <3>1, <3>3
    <3> QED BY <2>1, <3>2, <3>3, <3>4
  <2> QED BY <2>3, <2>4, <2>5
<1>2. Nat \subseteq P
  <2> HIDE DEF P
  <2> QED BY <1>1, StrongInduction
<1> QED BY <1>2

\* and so at the deepest.
LEMMA BareCopy ==
  ASSUME NEW sort, NEW k \in Nat, k <= Size, NEW scope \in Scopes, NEW g \in Trees(sort)[k][scope]["any"],
         g \in Lists({})
  PROVE  CopyOne(g) = g
BY BareCopyAt, SizeAssumption DEF CopyOne

\* Lists of names, one before the other.
LEMMA Joined ==
  ASSUME NEW S, NEW p \in Seq(S), NEW q \in Seq(S), NEW r \in Seq(S)
  PROVE  /\ (p \o q) \o r = p \o (q \o r) /\ p \o q \in Seq(S) /\ Len(p \o q) = Len(p) + Len(q)
         /\ <<>> \o p = p /\ p \o <<>> = p
         /\ Len(p) = 0 => p = <<>>
BY ConcatAssociative, ConcatEmptySeq, ConcatProperties, EmptySeq

\* No generator at all is a list without operations.
LEMMA NullList ==
  ASSUME NEW kinds \in SUBSET Wrappers
  PROVE  Null \in Lists(kinds) /\ Listed(Null) = <<>>
<1>1. Null \in Trees(Sound)[Size]["all"]["any"] /\ "all" \in Scopes /\ Size \in Nat /\ Size <= Size
  BY NullTree, SizeAssumption DEF Scopes
<1>2. Null.kind = "null"
  BY DEF Null
<1>3. Null \in Lists(kinds)
  BY <1>1, <1>2, ListsParts
<1>4. Listed(Null) = <<>>
  BY <1>1, <1>2, ListedParts
<1> QED BY <1>3, <1>4

\* What a wrapper holds is such a list too, with the names of the wrapper.
LEMMA WrapperList ==
  ASSUME NEW sort, NEW n \in Nat, n <= Size, NEW scope \in Scopes, NEW g \in Trees(sort)[n][scope]["any"],
         NEW kinds \in SUBSET Wrappers, g.kind \in Wrappers
  PROVE  /\ g \in Lists(kinds) <=> g.kind \in kinds /\ g.gen \in Lists(kinds)
         /\ Listed(g) = Listed(g.gen)
<1>1. g.kind \notin {"null", "op", "list"}
  BY DEF Wrappers
<1>2. g \in Lists(kinds) <=> g.kind \in kinds /\ g.gen \in Lists(kinds)
  BY <1>1, ListsParts
<1>3. Listed(g) = Listed(g.gen)
  BY ListedParts
<1> QED BY <1>2, <1>3

\* The elements of a list are lists in no wrapper,
LEMMA ElementsOfList ==
  ASSUME NEW sort, NEW n \in Nat, n <= Size, NEW scope \in Scopes, NEW g \in Trees(sort)[n][scope]["any"],
         g.kind = "list", NEW kinds \in SUBSET Wrappers
  PROVE  g \in Lists(kinds) <=> \A i \in DOMAIN g.gens : g.gens[i] \in Lists({})
<1>1. g.kind \notin kinds /\ g.kind \notin {"null", "op"}
  BY DEF Wrappers
<1> QED BY <1>1, ListsParts

\* and its names those of the first and of the others.
LEMMA FirstAndRest ==
  ASSUME NEW sort, NEW n \in Nat, n <= Size, NEW scope \in Scopes, NEW g \in Trees(sort)[n][scope]["any"],
         g.kind = "list", g.gens # <<>>
  PROVE  /\ Listed(g) = Listed(g.gens[1]) \o Listed(List(Tail(g.gens)))
         /\ Listed(g.gens[1]) \in Seq(STRING) /\ Listed(List(Tail(g.gens))) \in Seq(STRING)
BY ListedParts

\* A sequence with another first element
LEMMA ReplacedAt ==
  ASSUME NEW S, NEW q \in Seq(S), q # <<>>, NEW x
  PROVE  /\ [q EXCEPT ![1] = x] # <<>> /\ Len([q EXCEPT ![1] = x]) = Len(q)
         /\ [q EXCEPT ![1] = x][1] = x
         /\ \A i \in 2 .. Len(q) : [q EXCEPT ![1] = x][i] = q[i]
<1>1. 1 \in 1 .. Len(q) /\ DOMAIN q = 1 .. Len(q) /\ Len(q) \in Nat
  OBVIOUS
<1>2. 1 \in DOMAIN [q EXCEPT ![1] = x] /\ DOMAIN <<>> = {}
  BY <1>1
<1>3. [q EXCEPT ![1] = x] # <<>>
  BY <1>2
<1>4. Len([q EXCEPT ![1] = x]) = Len(q)
  BY <1>1
<1>5. [q EXCEPT ![1] = x][1] = x
  BY <1>1
<1>6. \A i \in 2 .. Len(q) : [q EXCEPT ![1] = x][i] = q[i]
  BY <1>1
<1> QED BY <1>3, <1>4, <1>5, <1>6

\* makes a list with the names of that one before the others.
LEMMA FirstReplaced ==
  ASSUME NEW sort, NEW n \in Nat, n <= Size, NEW scope \in Scopes,
         NEW q, q # <<>>, List(q) \in Trees(sort)[n][scope]["any"], List(q) \in Lists({}),
         NEW r, List(r) \in Trees(sort)[n][scope]["any"], r # <<>>, Len(r) = Len(q), r[1] \in Lists({}),
         \A i \in 2 .. Len(q) : r[i] = q[i]
  PROVE  /\ List(r) \in Lists({})
         /\ Listed(List(r)) = Listed(r[1]) \o Listed(List(Tail(q)))
         /\ Listed(r[1]) \in Seq(STRING)
<1>1. \A s : List(s).kind = "list" /\ List(s).gens = s
  BY DEF List
<1>2. /\ q \in Seq(NestedTo[n - 1]) /\ 1 \in 1 .. Len(q) /\ r \in Seq(NestedTo[n - 1])
  BY <1>1, FirstAndOthers
<1>3. Len(q) \in Nat /\ DOMAIN q = 1 .. Len(q) /\ DOMAIN r = 1 .. Len(q)
  BY <1>2, LenProperties
<1>4. Tail(r) = Tail(q)
  <2>1. Tail(r) = Without(r, 1) /\ Tail(q) = Without(q, 1)
    BY <1>2, TailIsWithout
  <2>2. \A j \in 1 .. (Len(q) - 1) : ~(j < 1) /\ j + 1 \in 2 .. Len(q)
    BY <1>3
  <2>3. Without(r, 1) = Without(q, 1)
    BY <2>2 DEF Without
  <2> QED BY <2>1, <2>3
<1>5. {} \in SUBSET Wrappers
  OBVIOUS
<1>6. \A i \in DOMAIN q : q[i] \in Lists({})
  BY <1>1, <1>5, ElementsOfList
<1>7. \A i \in DOMAIN r : r[i] \in Lists({})
  <2>1. \A i \in 1 .. Len(q) : i = 1 \/ i \in 2 .. Len(q)
    BY <1>3
  <2> QED BY <1>3, <1>6, <2>1
<1>8. List(r) \in Lists({})
  BY <1>1, <1>5, <1>7, ElementsOfList
<1>9. /\ Listed(List(r)) = Listed(r[1]) \o Listed(List(Tail(r)))
      /\ Listed(r[1]) \in Seq(STRING)
  <2> DEFINE g == List(r)
  <2>1. g.kind = "list" /\ g.gens = r /\ g \in Trees(sort)[n][scope]["any"]
    BY <1>1
  <2> HIDE DEF g
  <2>2. /\ Listed(g) = Listed(g.gens[1]) \o Listed(List(Tail(g.gens)))
        /\ Listed(g.gens[1]) \in Seq(STRING)
    BY <2>1, FirstAndRest
  <2> QED BY <2>1, <2>2 DEF g
<1> QED BY <1>4, <1>8, <1>9

-----------------------------------------------------------------------------
(***************************************************************************)
(* What op answers keeps the order of a list.                              *)
(***************************************************************************)

\* What that says of one of them.
LEMMA OrderedAt ==
  ASSUME NEW ask, NEW sort, NEW n \in Nat, Orders(ask, sort, n), NEW k \in 0 .. (n - 1),
         NEW scope \in Scopes, NEW ctx, ContextFor(sort, scope, ctx), NEW kinds \in SUBSET Wrappers,
         NEW g \in Trees(sort)[k][scope]["any"], g \in Lists(kinds), NEW a \in ask[g][ctx]
  PROVE  Ordered(g, kinds, a)
BY DEF Orders

\* The answers of a list without names,
LEMMA NullOrdered ==
  ASSUME NEW kinds \in SUBSET Wrappers, NEW g, g \in Lists(kinds), Listed(g) = <<>>
  PROVE  Ordered(g, kinds, Nil(g))
BY EmptySeq DEF Ordered, Nil, Answer, NilOp, AtMostTheLast

\* of a single operation (Generator.cpp:12-29, 34-41),
LEMMA OnceOrdered ==
  ASSUME NEW sort, IsSort(sort), NEW n \in Nat, n <= Size, NEW scope \in Scopes, NEW ctx,
         ContextFor(sort, scope, ctx), NEW g \in Trees(sort)[n][scope]["any"], g.kind = "op",
         NEW kinds \in SUBSET Wrappers, g \in Lists(kinds), NEW b \in OpOnce(g, ctx)
  PROVE  Ordered(g, kinds, b)
<1>1. g.op \in sort.leaves[scope] /\ Listed(g) = <<g.op.f>> /\ g.op \in Operations
  <2>1. Fits(sort, Trees(sort), n, scope, "any", g)
    BY BothSpans, TreeElim
  <2>2. g.op \in sort.leaves[scope] /\ sort.leaves[scope] \subseteq Operations
    BY <2>1 DEF Fits, IsSort
  <2>3. Listed(g) = <<g.op.f>>
    BY ListedParts
  <2> QED BY <2>2, <2>3
<1>2. PICK o \in FillInOperation(ctx, g.op) : b = Answer(o, IF o.type = "pending" THEN g ELSE Null, g)
  BY DEF OpOnce
<1>3. o.type \in {"pending", "invoke"}
  BY <1>1, <1>2, FilledIn
<1>4. o.f = g.op.f
  BY <1>1, <1>2 DEF FillInOperation, Operations
<1>5. <<g.op.f>> \o <<>> = <<g.op.f>>
  <2>1. <<g.op.f>> \in Seq(STRING)
    BY <1>1 DEF Operations
  <2> QED BY <2>1, ConcatEmptySeq
<1>6. g # Null
  BY DEF Null
<1>7. b.op = o /\ b.self = g /\ b.gen = IF o.type = "pending" THEN g ELSE Null
  BY <1>2 DEF Answer
<1> QED BY <1>1, <1>3, <1>4, <1>5, <1>6, <1>7, NullList DEF Ordered

\* of a wrapper, by an answer of what it holds,
LEMMA WrappedOrdered ==
  ASSUME NEW sort, NEW n \in Nat, n <= Size, NEW scope \in Scopes, NEW ctx,
         NEW g \in Trees(sort)[n][scope]["any"], NEW kinds \in SUBSET Wrappers,
         g.kind \in Wrappers, g \in Lists(kinds),
         NEW a, Ordered(g.gen, kinds, a), a.op.type # "crash", NEW b, Proper(sort, n, scope, "any", ctx, b),
         b.op.type # "crash", b.self.kind = g.kind, b.self.gen = a.self,
         b.op.type = "invoke" => /\ a.op.type = "invoke" /\ b.op.f = a.op.f
                                 /\ (b.gen.kind = g.kind /\ b.gen.gen = a.gen) \/ (b.gen = Null /\ a.gen = Null),
         b.op.type = "pending" => b.gen # Null,
         b.op.type = "nil" => \/ g.kind = "timeLimit"
                              \/ a.op.type = "nil"
                              \/ a.op.type = "invoke" /\ a.gen = Null /\ g.kind # "validate"
  PROVE  Ordered(g, kinds, b)
<1>1. g.kind \in kinds /\ g.gen \in Lists(kinds) /\ Listed(g) = Listed(g.gen)
  BY WrapperList
<1>2. b.self \in Trees(sort)[n][scope]["any"] /\ b.gen \in Trees(sort)[n][scope]["any"]
  BY DEF Proper
<1>3. a.self \in Lists(kinds) /\ Listed(a.self) = Listed(g.gen)
  BY DEF Ordered
<1>4. b.self \in Lists(kinds) /\ Listed(b.self) = Listed(g)
  BY <1>1, <1>2, <1>3, WrapperList
<1>5. ASSUME b.op.type = "invoke"
      PROVE  b.gen \in Lists(kinds) /\ Listed(g) = <<b.op.f>> \o Listed(b.gen)
  <2>1. a.gen \in Lists(kinds) /\ Listed(g.gen) = <<a.op.f>> \o Listed(a.gen) /\ a.op.f = b.op.f
    BY <1>5 DEF Ordered
  <2>2. b.gen \in Lists(kinds) /\ Listed(b.gen) = Listed(a.gen)
    <3>1. CASE b.gen.kind = g.kind /\ b.gen.gen = a.gen
      BY <1>1, <1>2, <2>1, <3>1, WrapperList
    <3>2. CASE b.gen = Null /\ a.gen = Null
      BY <2>1, <3>2
    <3> QED BY <1>5, <3>1, <3>2
  <2> QED BY <1>1, <2>1, <2>2
<1>6. ASSUME b.op.type = "nil" PROVE AtMostTheLast(Listed(g), kinds)
  <2>1. CASE g.kind = "timeLimit"
    BY <1>1, <2>1 DEF AtMostTheLast
  <2>2. CASE a.op.type = "nil"
    BY <1>1, <2>2 DEF Ordered
  <2>3. CASE a.op.type = "invoke" /\ a.gen = Null /\ g.kind # "validate"
    <3>1. Listed(g) = <<a.op.f>> \o <<>>
      BY <1>1, <2>3, NullList DEF Ordered
    <3>2. Len(<<a.op.f>> \o <<>>) = 1
      OBVIOUS
    <3> QED BY <1>1, <2>3, <3>1, <3>2 DEF AtMostTheLast
  <2> QED BY <1>6, <2>1, <2>2, <2>3
<1>7. kinds # {}
  BY <1>1
<1> QED BY <1>4, <1>5, <1>6, <1>7 DEF Ordered

\* of Validate (Generator.cpp:234-255),
LEMMA ValidateOrdered ==
  ASSUME NEW sort, IsSort(sort), NEW n \in Nat, n <= Size, NEW ask, Responds(ask, sort, n), Orders(ask, sort, n),
         NEW scope \in Scopes, NEW ctx, ContextFor(sort, scope, ctx),
         NEW g \in Trees(sort)[n][scope]["any"], g.kind = "validate",
         NEW kinds \in SUBSET Wrappers, g \in Lists(kinds), NEW b \in OpValidate(ask, g, ctx)
  PROVE  Ordered(g, kinds, b)
<1> SUFFICES ASSUME b.op.type # "crash" PROVE Ordered(g, kinds, b)
  BY DEF Ordered
<1>1. n - 1 \in 0 .. (n - 1) /\ g.gen \in Trees(sort)[n - 1][scope]["any"]
  BY BothSpans, TreeParts DEF Childless
<1>2. g.kind \in Wrappers /\ g.gen \in Lists(kinds)
  BY WrapperList DEF Wrappers
<1>3. PICK a \in ask[g.gen][ctx] :
        b = Unless(a, Answer(a.op, IF NotNil(a) THEN Validate(a.gen) ELSE a.gen, Validate(a.self)))
  BY DEF OpValidate
<1>4. Ordered(g.gen, kinds, a)
  BY <1>1, <1>2, OrderedAt
<1>5. IsAnswer(a)
  BY <1>1, BothSpans, AskedAt DEF Proper
<1>6. /\ a.op.type # "crash"
      /\ b = Answer(a.op, IF NotNil(a) THEN Validate(a.gen) ELSE a.gen, Validate(a.self))
  BY <1>3 DEF Unless
<1>7. Proper(sort, n, scope, "any", ctx, b)
  BY BothSpans, ValidateAnswers
<1>8. b.op = a.op /\ b.self.kind = "validate" /\ b.self.gen = a.self
  BY <1>6 DEF Answer, Validate
<1>9. b.op.type # "nil" => (b.gen.kind = "validate" /\ b.gen.gen = a.gen) \/ (b.gen = Null /\ a.gen = Null)
  BY <1>6 DEF Answer, Validate, NotNil
<1>10. b.op.type = "pending" => b.gen # Null
  BY <1>4, <1>6, <1>8 DEF Ordered, Answer, Validate, NotNil, Null
<1> QED BY <1>2, <1>4, <1>6, <1>7, <1>8, <1>9, <1>10, WrappedOrdered

\* of OnThreads (Generator.cpp:269-276),
LEMMA OnThreadsOrdered ==
  ASSUME NEW sort, IsSort(sort), NEW n \in Nat, n <= Size, NEW ask, Responds(ask, sort, n), Orders(ask, sort, n),
         NEW scope \in Scopes, NEW ctx, ContextFor(sort, scope, ctx),
         NEW g \in Trees(sort)[n][scope]["any"], g.kind = "onThreads",
         NEW kinds \in SUBSET Wrappers, g \in Lists(kinds), NEW b \in OpOnThreads(ask, g, ctx)
  PROVE  Ordered(g, kinds, b)
<1> SUFFICES ASSUME b.op.type # "crash" PROVE Ordered(g, kinds, b)
  BY DEF Ordered
<1> DEFINE f == g.filter
           c == OnThreadsContext(f, ctx)
<1>1. /\ n - 1 \in 0 .. (n - 1) /\ f \in Filters /\ f \in Scopes /\ scope \in {"all", f}
      /\ g.gen \in Trees(sort)[n - 1][f]["any"]
  <2>1. g.kind \notin Childless
    BY DEF Childless
  <2> QED BY <2>1, BothSpans, TreeParts
<1>2. g.kind \in Wrappers /\ g.gen \in Lists(kinds)
  BY WrapperList DEF Wrappers
<1>3. PICK a \in ask[g.gen][c] :
        b = Unless(a, IF NotNil(a) THEN Answer(a.op, OnThreads(f, a.gen), OnThreads(f, a.self))
                      ELSE Nil(OnThreads(f, a.self)))
  BY DEF OpOnThreads
<1>4. ContextFor(sort, f, c)
  BY <1>1, RestrictedFor
<1> HIDE DEF c, f
<1>5. Ordered(g.gen, kinds, a)
  BY <1>1, <1>2, <1>4, OrderedAt
<1>6. IsAnswer(a)
  BY <1>1, <1>4, BothSpans, AskedAt DEF Proper
<1>7. Proper(sort, n, scope, "any", ctx, b)
  BY BothSpans, OnThreadsAnswers
<1>8. a.op.type # "crash" /\ a.op.type \in {"nil", "pending", "invoke", "crash"}
  BY <1>3, <1>6 DEF Unless, IsAnswer
<1>9. b.self.kind = "onThreads" /\ b.self.gen = a.self
  BY <1>3, <1>8 DEF Unless, Answer, OnThreads, Nil
<1>10. CASE NotNil(a)
  <2>1. b.op = a.op /\ b.gen.kind = "onThreads" /\ b.gen.gen = a.gen /\ b.gen # Null /\ b.op.type # "nil"
    BY <1>3, <1>8, <1>10 DEF Unless, Answer, OnThreads, NotNil, Null
  <2> QED BY <1>2, <1>5, <1>7, <1>8, <1>9, <2>1, WrappedOrdered
<1>11. CASE ~NotNil(a)
  <2>1. b.op.type = "nil"
    BY <1>3, <1>8, <1>11 DEF Unless, Nil, Answer, NilOp
  <2>2. a.op.type = "nil" \/ (a.op.type = "invoke" /\ a.gen = Null)
    BY <1>5, <1>8, <1>11 DEF NotNil, Ordered
  <2> QED BY <1>2, <1>5, <1>7, <1>8, <1>9, <2>1, <2>2, WrappedOrdered
<1> QED BY <1>10, <1>11

\* of TimeLimit (Generator.cpp:294-313),
LEMMA TimeLimitOrdered ==
  ASSUME NEW sort, IsSort(sort), NEW n \in Nat, n <= Size, NEW ask, Responds(ask, sort, n), Orders(ask, sort, n),
         NEW scope \in Scopes, NEW ctx, ContextFor(sort, scope, ctx),
         NEW g \in Trees(sort)[n][scope]["any"], g.kind = "timeLimit",
         NEW kinds \in SUBSET Wrappers, g \in Lists(kinds), NEW b \in OpTimeLimit(ask, g, ctx)
  PROVE  Ordered(g, kinds, b)
<1> SUFFICES ASSUME b.op.type # "crash" PROVE Ordered(g, kinds, b)
  BY DEF Ordered
<1>1. /\ n - 1 \in 0 .. (n - 1) /\ g.gen \in Trees(sort)[n - 1][scope]["any"]
      /\ g = TimeLimit(g.limit, g.cutoff, g.gen)
  <2>1. g.kind \notin Childless
    BY DEF Childless
  <2> QED BY <2>1, BothSpans, TreeParts
<1>2. g.kind \in Wrappers /\ g.gen \in Lists(kinds)
  BY WrapperList DEF Wrappers
<1>3. PICK a \in ask[g.gen][ctx] :
        LET cutoff == Cutoff(g, a.op.time)
            self   == TimeLimit(g.limit, cutoff, a.self)
        IN b = Unless(a, IF ~NotNil(a) THEN Nil([g EXCEPT !.gen = a.self])
                         ELSE IF a.op.type = "pending"
                         THEN Answer(a.op, [g EXCEPT !.gen = a.gen], [g EXCEPT !.gen = a.self])
                         ELSE IF a.op.time < cutoff
                         THEN Answer(a.op, TimeLimit(g.limit, cutoff, a.gen), self)
                         ELSE Nil(self))
  BY DEF OpTimeLimit
<1>4. Ordered(g.gen, kinds, a)
  BY <1>1, <1>2, OrderedAt
<1>5. Proper(sort, n, scope, "any", ctx, b)
  BY BothSpans, TimeLimitAnswers
<1>6. a.op.type # "crash"
  BY <1>3 DEF Unless
<1> DEFINE c == Cutoff(g, a.op.time)
<1>7. \A x : [g EXCEPT !.gen = x] = TimeLimit(g.limit, g.cutoff, x)
  BY <1>1 DEF TimeLimit
<1>8. \E k \in {g.cutoff, c} :
        \/ b = Nil(TimeLimit(g.limit, k, a.self))
        \/ b = Answer(a.op, TimeLimit(g.limit, k, a.gen), TimeLimit(g.limit, k, a.self)) /\ NotNil(a)
  BY <1>3, <1>6, <1>7 DEF Unless
<1> HIDE DEF c
<1>9. PICK k : \/ b = Nil(TimeLimit(g.limit, k, a.self))
               \/ b = Answer(a.op, TimeLimit(g.limit, k, a.gen), TimeLimit(g.limit, k, a.self)) /\ NotNil(a)
  BY <1>8
<1>10. b.self.kind = "timeLimit" /\ b.self.gen = a.self
  BY <1>9 DEF Nil, Answer, TimeLimit
<1>11. CASE b = Nil(TimeLimit(g.limit, k, a.self))
  <2>1. b.op.type = "nil"
    BY <1>11 DEF Nil, Answer, NilOp
  <2> QED BY <1>2, <1>4, <1>5, <1>6, <1>10, <2>1, WrappedOrdered
<1>12. CASE b = Answer(a.op, TimeLimit(g.limit, k, a.gen), TimeLimit(g.limit, k, a.self)) /\ NotNil(a)
  <2>1. b.op = a.op /\ b.gen.kind = "timeLimit" /\ b.gen.gen = a.gen /\ b.gen # Null /\ b.op.type # "nil"
    BY <1>12 DEF Answer, TimeLimit, NotNil, Null
  <2> QED BY <1>2, <1>4, <1>5, <1>6, <1>10, <2>1, WrappedOrdered
<1> QED BY <1>9, <1>11, <1>12

\* of Stagger (Generator.cpp:326-344).
LEMMA StaggerOrdered ==
  ASSUME NEW sort, IsSort(sort), NEW n \in Nat, n <= Size, NEW ask, Responds(ask, sort, n), Orders(ask, sort, n),
         NEW scope \in Scopes, NEW ctx, ContextFor(sort, scope, ctx),
         NEW g \in Trees(sort)[n][scope]["any"], g.kind = "stagger",
         NEW kinds \in SUBSET Wrappers, g \in Lists(kinds), NEW b \in OpStagger(ask, g, ctx)
  PROVE  Ordered(g, kinds, b)
<1> SUFFICES ASSUME b.op.type # "crash" PROVE Ordered(g, kinds, b)
  BY DEF Ordered
<1>1. /\ n - 1 \in 0 .. (n - 1) /\ g.gen \in Trees(sort)[n - 1][scope]["any"]
      /\ g = Stagger(g.dt, g.next_time, g.gen)
  <2>1. g.kind \notin Childless
    BY DEF Childless
  <2> QED BY <2>1, BothSpans, TreeParts
<1>2. g.kind \in Wrappers /\ g.gen \in Lists(kinds)
  BY WrapperList DEF Wrappers
<1> DEFINE t == IF g.next_time = kInvalidTime THEN ctx.time ELSE g.next_time
       later(a) == IF t > a.op.time THEN t ELSE a.op.time
       self(a) == Stagger(g.dt, t, a.self)
       staggered(a) == Answer([a.op EXCEPT !.time = later(a)], StaggerFrom(g.dt, t, a.gen), self(a))
<1>3. PICK a \in ask[g.gen][ctx] :
        b \in IF a.op.type = "crash" THEN {a}
              ELSE IF ~NotNil(a) THEN {Nil([g EXCEPT !.gen = a.self])}
              ELSE IF a.op.type = "pending" THEN {Answer(a.op, self(a), self(a))}
              ELSE IF g.dt = 0 THEN DivisionByZero(staggered(a))
              ELSE {staggered(a)}
  BY DEF OpStagger
<1>4. Ordered(g.gen, kinds, a)
  BY <1>1, <1>2, OrderedAt
<1>5. IsAnswer(a)
  BY <1>1, BothSpans, AskedAt DEF Proper
<1>6. Proper(sort, n, scope, "any", ctx, b)
  BY BothSpans, StaggerAnswers
<1>7. a.op.type # "crash" /\ a.op.type \in {"nil", "pending", "invoke", "crash"}
  BY <1>3, <1>5 DEF IsAnswer
<1> HIDE DEF t
<1>8. [g EXCEPT !.gen = a.self] = Stagger(g.dt, g.next_time, a.self)
  BY <1>1 DEF Stagger
<1>9. CASE ~NotNil(a)
  <2>1. b = Nil(Stagger(g.dt, g.next_time, a.self))
    BY <1>3, <1>7, <1>8, <1>9
  <2>2. b.op.type = "nil" /\ b.self.kind = "stagger" /\ b.self.gen = a.self
    BY <2>1 DEF Nil, Answer, NilOp, Stagger
  <2>3. a.op.type = "nil" \/ (a.op.type = "invoke" /\ a.gen = Null)
    BY <1>4, <1>7, <1>9 DEF NotNil, Ordered
  <2> QED BY <1>2, <1>4, <1>6, <1>7, <2>2, <2>3, WrappedOrdered
<1>10. CASE NotNil(a) /\ a.op.type = "pending"
  <2>1. b = Answer(a.op, Stagger(g.dt, t, a.self), Stagger(g.dt, t, a.self))
    BY <1>3, <1>7, <1>10
  <2>2. b.op = a.op /\ b.gen # Null /\ b.self.kind = "stagger" /\ b.self.gen = a.self
    BY <2>1 DEF Answer, Stagger, Null
  <2> QED BY <1>2, <1>4, <1>6, <1>7, <1>10, <2>2, WrappedOrdered
<1>11. CASE NotNil(a) /\ a.op.type # "pending"
  <2> HIDE DEF later
  <2> DEFINE o == [a.op EXCEPT !.time = later(a)]
  <2>1. b = Answer(o, Stagger(g.dt, kInvalidTime, a.gen), Stagger(g.dt, t, a.self))
    <3> DEFINE d == Answer(o, Stagger(g.dt, kInvalidTime, a.gen), Stagger(g.dt, t, a.self))
    <3>1. staggered(a) = d
      BY DEF StaggerFrom
    <3>2. b = d \/ b = Crash(d.self)
      <4> HIDE DEF d, staggered
      <4> QED BY <1>3, <1>7, <1>11, <3>1 DEF DivisionByZero
    <3>3. \A s : Crash(s).op.type = "crash"
      BY DEF Crash, Answer, CrashOp
    <3> HIDE DEF d
    <3>4. b = d
      BY <3>2, <3>3
    <3> QED BY <3>4 DEF d
  <2>2. o.f = a.op.f /\ o.type = a.op.type
    BY <1>5 DEF IsAnswer
  <2>3. /\ b.op.f = a.op.f /\ b.op.type = a.op.type /\ b.self.kind = "stagger" /\ b.self.gen = a.self
        /\ b.gen.kind = "stagger" /\ b.gen.gen = a.gen
    <3> HIDE DEF o
    <3> QED BY <2>1, <2>2 DEF Answer, Stagger
  <2>4. b.op.type = "invoke"
    BY <1>7, <1>11, <2>3 DEF NotNil
  <2> QED BY <1>2, <1>4, <1>6, <1>7, <1>11, <2>3, <2>4, WrappedOrdered
<1> QED BY <1>9, <1>10, <1>11

\* The kinds of the wrappers do not matter to a list that is in none.
LEMMA BareOrdered ==
  ASSUME NEW sort, NEW n \in Nat, n <= Size, NEW scope \in Scopes, NEW ctx,
         NEW g \in Trees(sort)[n][scope]["any"], NEW b, Proper(sort, n, scope, "any", ctx, b),
         Ordered(g, {}, b), NEW kinds \in SUBSET Wrappers
  PROVE  Ordered(g, kinds, b)
<1> SUFFICES ASSUME b.op.type # "crash" PROVE Ordered(g, kinds, b)
  BY DEF Ordered
<1>1. b.op.type # "crash" /\ b.self \in Lists({}) /\ Listed(b.self) = Listed(g) /\ b.self = g
  BY DEF Ordered
<1>2. b.self \in Trees(sort)[n][scope]["any"] /\ b.gen \in Trees(sort)[n][scope]["any"]
  BY <1>1 DEF Proper
<1>3. b.self \in Lists(kinds)
  BY <1>1, <1>2, BareLists
<1>4. b.op.type = "invoke" => b.gen \in Lists(kinds) /\ Listed(g) = <<b.op.f>> \o Listed(b.gen)
  BY <1>2, BareLists DEF Ordered
<1>5. b.op.type = "nil" => Len(Listed(g)) = 0
  BY DEF Ordered, AtMostTheLast
<1> QED BY <1>1, <1>3, <1>4, <1>5 DEF Ordered, AtMostTheLast

\* The answer of the rest of a list whose first element is exhausted
LEMMA RestOrdered ==
  ASSUME NEW sort, IsSort(sort), NEW n \in Nat, n <= Size, NEW ask, Responds(ask, sort, n), Orders(ask, sort, n),
         NEW scope \in Scopes, NEW ctx, ContextFor(sort, scope, ctx),
         NEW g \in Trees(sort)[n][scope]["any"], g.kind = "list", g \in Lists({}), g.gens # <<>>,
         Listed(g.gens[1]) = <<>>, NEW d \in ask[List(Tail(g.gens))][ctx],
         NEW b, b.op = d.op, b.gen = d.gen, b.self = g
  PROVE  Ordered(g, {}, b)
<1> DEFINE rest == List(Tail(g.gens))
<1>1. /\ n # 0 /\ n - 1 \in Nat /\ n - 1 \in 0 .. (n - 1) /\ g.gens \in Seq(NestedTo[n - 1])
      /\ Tail(g.gens) = <<>> \/ rest \in Trees(sort)[n - 1][scope]["any"]
  BY FirstAndOthers
<1>2. {} \in SUBSET Wrappers
  OBVIOUS
<1>3. Listed(g) = Listed(rest)
  <2>1. Listed(g) = Listed(g.gens[1]) \o Listed(rest) /\ Listed(rest) \in Seq(STRING)
    BY FirstAndRest
  <2> QED BY <2>1, ConcatEmptySeq
<1>4. CASE Tail(g.gens) = <<>>
  <2>1. Size # 0 /\ Size \in Nat
    BY <1>1, SizeAssumption
  <2>2. \A e \in Contexts : ask[List(<<>>)][e] = {Nil(List(<<>>))}
    BY <1>1, <2>1 DEF Responds
  <2>3. d = Nil(List(<<>>))
    <3>1. ask[List(<<>>)][ctx] = {Nil(List(<<>>))}
      BY <2>2 DEF ContextFor
    <3>2. d \in ask[List(<<>>)][ctx]
      BY <1>4
    <3> QED BY <3>1, <3>2
  <2>4. b.op.type = "nil"
    BY <2>3 DEF Nil, Answer, NilOp
  <2>5. 0 \in Nat
    OBVIOUS
  <2>6. Listed(rest) = <<>>
    BY <1>4, <2>1, ListedEmpty DEF Listed
  <2> QED BY <1>3, <2>4, <2>6, EmptySeq DEF Ordered, AtMostTheLast
<1>5. CASE rest \in Trees(sort)[n - 1][scope]["any"]
  <2>1. rest \in Lists({})
    <3>1. \A i \in DOMAIN g.gens : g.gens[i] \in Lists({})
      BY <1>2, ElementsOfList
    <3>2. \A s : List(s).kind = "list" /\ List(s).gens = s
      BY DEF List
    <3>3. \A i \in DOMAIN Tail(g.gens) : Tail(g.gens)[i] \in Lists({})
      <4> DEFINE q == g.gens
      <4>1. q \in Seq(NestedTo[n - 1]) /\ q # <<>>
        BY <1>1
      <4> HIDE DEF q
      <4>2. \A i \in DOMAIN Tail(q) : i + 1 \in DOMAIN q /\ Tail(q)[i] = q[i + 1]
        BY <4>1
      <4>3. \A i \in DOMAIN q : q[i] \in Lists({})
        BY <3>1 DEF q
      <4>4. \A i \in DOMAIN Tail(q) : Tail(q)[i] \in Lists({})
        BY <4>2, <4>3
      <4> QED BY <4>4 DEF q
    <3>4. n - 1 <= Size
      BY <1>1, SizeAssumption
    <3>5. rest.kind = "list" /\ rest.gens = Tail(g.gens)
      BY <3>2
    <3> HIDE DEF rest
    <3> QED BY <1>1, <1>2, <1>5, <3>3, <3>4, <3>5, ElementsOfList
  <2> HIDE DEF rest
  <2>2. d \in ask[rest][ctx]
    BY DEF rest
  <2>3. Ordered(rest, {}, d)
    BY <1>1, <1>2, <1>5, <2>1, <2>2, OrderedAt
  <2> QED BY <1>3, <2>3 DEF Ordered
<1> QED BY <1>1, <1>4, <1>5

\* and of the whole list, which drops exhausted elements (Generator.cpp:49-66).
LEMMA BareListOrdered ==
  ASSUME NEW sort, IsSort(sort), NEW n \in Nat, n <= Size, NEW ask, Responds(ask, sort, n), Orders(ask, sort, n),
         NEW scope \in Scopes, NEW ctx, ContextFor(sort, scope, ctx),
         NEW g \in Trees(sort)[n][scope]["any"], g.kind = "list", g \in Lists({}), NEW b \in OpList(ask, g, ctx)
  PROVE  Ordered(g, {}, b)
<1> SUFFICES ASSUME b.op.type # "crash" PROVE Ordered(g, {}, b)
  BY DEF Ordered
<1> DEFINE q == g.gens
<1>1. {} \in SUBSET Wrappers
  OBVIOUS
<1>2. CASE q = <<>>
  <2>1. b = Nil(g)
    BY <1>2 DEF OpList
  <2>2. Listed(g) = <<>>
    BY <1>2, ListedParts
  <2> QED BY <1>1, <2>1, <2>2, NullOrdered
<1>3. CASE q # <<>>
  <2>1. /\ n # 0 /\ n - 1 \in Nat /\ n - 1 \in 0 .. (n - 1) /\ g = List(q)
        /\ q \in Seq(NestedTo[n - 1]) /\ 1 \in 1 .. Len(q)
        /\ q[1] \in Trees(sort)[n - 1][scope]["any"]
    BY <1>3, FirstAndOthers
  <2>2. PICK a \in ask[q[1]][ctx] :
          LET self == [g EXCEPT !.gens[1] = a.self]
              copy == CopyOne(self)
          IN b \in IF a.op.type = "crash" THEN {a}
                   ELSE IF CopyCrashes(self) THEN {Crash(self)}
                   ELSE IF ElementExhausted(a)
                   THEN {[d EXCEPT !.self = self] : d \in ask[List(Tail(copy.gens))][ctx]}
                   ELSE IF Len(copy.gens) > 1
                   THEN {Answer(a.op, [copy EXCEPT !.gens[1] = a.gen], self)}
                   ELSE {Answer(a.op, a.gen, self)}
    BY <1>3 DEF OpList
  <2>3. q[1] \in Lists({})
    <3>1. \A i \in DOMAIN q : q[i] \in Lists({})
      BY <1>1, ElementsOfList
    <3> QED BY <2>1, <3>1
  <2>4. Ordered(q[1], {}, a)
    BY <1>1, <2>1, <2>2, <2>3, OrderedAt
  <2>5. Proper(sort, n - 1, scope, "any", ctx, a)
    BY <2>1, <2>2, BothSpans, AskedAt
  <2>6. a.op.type # "crash" /\ a.self = q[1]
    <3>1. a.op.type # "crash"
      BY <2>2
    <3> QED BY <2>4, <3>1 DEF Ordered
  <2>7. /\ a.op.type \in {"nil", "pending", "invoke"} /\ (a.op.type = "nil" => a.gen = Null)
        /\ a.op.type = "pending" => a.gen # Null
    BY <2>4, <2>5, <2>6 DEF Proper, IsAnswer, Ordered
  <2>8. [g EXCEPT !.gens[1] = a.self] = g
    <3>1. [List(q) EXCEPT !.gens[1] = q[1]] = List([q EXCEPT ![1] = q[1]])
      BY DEF List
    <3>2. [q EXCEPT ![1] = q[1]] = q
      BY <2>1
    <3> QED BY <2>1, <2>6, <3>1, <3>2
  <2>9. CopyOne(g) = g
    BY BareCopy
  <2>10. b \in IF ElementExhausted(a)
               THEN {[d EXCEPT !.self = g] : d \in ask[List(Tail(q))][ctx]}
               ELSE IF Len(q) > 1
               THEN {Answer(a.op, [g EXCEPT !.gens[1] = a.gen], g)}
               ELSE {Answer(a.op, a.gen, g)}
    <3>1. b # Crash(g)
      BY DEF Crash, Answer, CrashOp
    <3> QED BY <2>2, <2>6, <2>8, <2>9, <3>1
  <2>11. /\ Listed(g) = Listed(q[1]) \o Listed(List(Tail(q)))
         /\ Listed(q[1]) \in Seq(STRING) /\ Listed(List(Tail(q))) \in Seq(STRING)
    BY <1>3, FirstAndRest
  <2>12. Proper(sort, n, scope, "any", ctx, b)
    BY BothSpans, ListAnswers
  <2>13. CASE ElementExhausted(a)
    <3>1. PICK d \in ask[List(Tail(q))][ctx] : b = [d EXCEPT !.self = g]
      BY <2>10, <2>13
    <3>2. Len(Listed(q[1])) = 0
      BY <2>4, <2>6, <2>13 DEF ElementExhausted, Ordered, AtMostTheLast
    <3>3. Listed(q[1]) = <<>>
      BY <2>11, <3>2, EmptySeq
    <3>4. IsAnswer(d)
      <4>1. IsAnswer(Nil(List(<<>>)))
        BY DEF IsAnswer, Nil, Answer, NilOp, kInvalidProcess
      <4>2. CASE Tail(q) = <<>>
        <5>1. Size # 0 /\ Size \in Nat
          BY <2>1, SizeAssumption
        <5>2. \A e \in Contexts : ask[List(<<>>)][e] = {Nil(List(<<>>))}
          BY <2>1, <5>1 DEF Responds
        <5>3. ask[List(<<>>)][ctx] = {Nil(List(<<>>))}
          BY <5>2 DEF ContextFor
        <5>4. d \in ask[List(<<>>)][ctx]
          BY <3>1, <4>2
        <5>5. d = Nil(List(<<>>))
          BY <5>3, <5>4
        <5> QED BY <4>1, <5>5
      <4>3. CASE List(Tail(q)) \in Trees(sort)[n - 1][scope]["any"]
        BY <2>1, <3>1, <4>3, BothSpans, AskedAt DEF Proper
      <4> QED BY <1>3, <4>2, <4>3, FirstAndOthers
    <3>5. b.op = d.op /\ b.gen = d.gen /\ b.self = g
      BY <3>1, <3>4 DEF IsAnswer, Answer
    <3>6. d \in ask[List(Tail(g.gens))][ctx] /\ Listed(g.gens[1]) = <<>> /\ g.gens # <<>>
      BY <1>3, <3>1, <3>3
    <3> HIDE DEF q
    <3> QED BY <3>5, <3>6, RestOrdered
  <2>14. CASE ~ElementExhausted(a) /\ Len(q) > 1
    <3> DEFINE x == [q EXCEPT ![1] = a.gen]
    <3>1. [List(q) EXCEPT !.gens[1] = a.gen] = List(x)
      BY DEF List
    <3>2. b = Answer(a.op, List(x), g)
      BY <2>1, <2>10, <2>14, <3>1
    <3>3. b.op = a.op /\ b.gen = List(x) /\ b.self = g /\ a.op.type # "nil"
      BY <2>7, <2>14, <3>2 DEF Answer, ElementExhausted
    <3>4. List(x) \in Trees(sort)[n][scope]["any"]
      BY <2>6, <2>12, <3>3 DEF Proper
    <3>5. List(x) # Null
      BY DEF List, Null
    <3>6. ASSUME a.op.type = "invoke"
          PROVE  List(x) \in Lists({}) /\ Listed(g) = <<a.op.f>> \o Listed(List(x))
      <4>1. a.gen \in Lists({}) /\ Listed(q[1]) = <<a.op.f>> \o Listed(a.gen)
        BY <2>4, <2>6, <3>6 DEF Ordered
      <4>2. /\ List(x) \in Lists({}) /\ Listed(List(x)) = Listed(a.gen) \o Listed(List(Tail(q)))
            /\ Listed(a.gen) \in Seq(STRING)
        <5>1. List(q) \in Trees(sort)[n][scope]["any"] /\ List(q) \in Lists({})
          BY <2>1
        <5>2. q # <<>> /\ q \in Seq(NestedTo[n - 1])
          BY <1>3, <2>1
        <5> HIDE DEF q
        <5>3. /\ x # <<>> /\ Len(x) = Len(q) /\ x[1] = a.gen
              /\ \A i \in 2 .. Len(q) : x[i] = q[i]
          BY <5>2, ReplacedAt
        <5> HIDE DEF x
        <5>4. /\ List(x) \in Lists({})
              /\ Listed(List(x)) = Listed(x[1]) \o Listed(List(Tail(q)))
              /\ Listed(x[1]) \in Seq(STRING)
          <6>1. x[1] \in Lists({})
            BY <4>1, <5>3
          <6> QED BY <3>4, <5>1, <5>2, <5>3, <6>1, FirstReplaced
        <5> QED BY <5>3, <5>4
      <4>3. <<a.op.f>> \in Seq(STRING)
        <5>1. Filled(sort, scope, ctx, a.op)
          BY <2>5, <2>6, <3>6 DEF Proper
        <5>2. a.op.f \in STRING
          BY <5>1 DEF Filled, IsSort, Operations
        <5> QED BY <5>2
      <4> HIDE DEF x, q
      <4> QED BY <2>11, <4>1, <4>2, <4>3, Joined
    <3> HIDE DEF x
    <3> QED BY <2>7, <3>3, <3>5, <3>6 DEF Ordered
  <2>15. CASE ~ElementExhausted(a) /\ ~(Len(q) > 1)
    <3>1. b = Answer(a.op, a.gen, g)
      BY <2>10, <2>15
    <3>2. b.op = a.op /\ b.gen = a.gen /\ b.self = g /\ a.op.type # "nil"
      BY <2>7, <2>15, <3>1 DEF Answer, ElementExhausted
    <3>3. Tail(q) = <<>>
      <4>1. q \in Seq(NestedTo[n - 1]) /\ q # <<>> /\ 1 \in 1 .. Len(q) /\ ~(Len(q) > 1)
        BY <1>3, <2>1, <2>15
      <4> HIDE DEF q
      <4>2. Len(q) \in Nat
        BY <4>1, LenProperties
      <4>3. Len(q) = 1
        <5>1. \A m \in Nat : 1 \in 1 .. m /\ ~(m > 1) => m = 1
          OBVIOUS
        <5> QED BY <4>1, <4>2, <5>1
      <4>4. Tail(q) \in Seq(NestedTo[n - 1]) /\ Len(Tail(q)) = 0
        BY <4>1, <4>3, HeadTailProperties
      <4> QED BY <4>4, EmptySeq
    <3>4. Listed(List(Tail(q))) = <<>>
      <4>1. Size # 0 /\ Size \in Nat
        BY <2>1, SizeAssumption
      <4> QED BY <3>3, <4>1, ListedEmpty DEF Listed
    <3>5. Listed(g) = Listed(q[1])
      BY <2>11, <3>4, ConcatEmptySeq
    <3> QED BY <2>4, <2>7, <3>2, <3>5 DEF Ordered
  <2> QED BY <2>13, <2>14, <2>15
<1> QED BY <1>2, <1>3

\* One level of op keeps the order if the levels below do,
LEMMA OrderStep ==
  ASSUME NEW sort, IsSort(sort), NEW n \in Nat, n <= Size, NEW ask, Responds(ask, sort, n), Orders(ask, sort, n),
         NEW scope \in Scopes, NEW ctx, ContextFor(sort, scope, ctx),
         NEW g \in Trees(sort)[n][scope]["any"], NEW kinds \in SUBSET Wrappers, g \in Lists(kinds),
         NEW b \in OpOver(ask)[g][ctx]
  PROVE  Ordered(g, kinds, b)
<1>1. b \in OpNode(ask, g, ctx)
  BY TreeIsGenerator, BothSpans DEF OpOver, ContextFor
<1>2. g.kind \in {"null", "op", "list"} \cup Wrappers
  BY ListsParts
<1>3. CASE g.kind = "null"
  <2>1. b = Nil(g)
    BY <1>1, <1>3 DEF OpNode
  <2>2. Listed(g) = <<>>
    BY <1>3, ListedParts
  <2> QED BY <2>1, <2>2, NullOrdered
<1>4. CASE g.kind = "op"
  <2>1. b \in OpOnce(g, ctx)
    BY <1>1, <1>4 DEF OpNode
  <2> QED BY <1>4, <2>1, OnceOrdered
<1>5. CASE g.kind = "list"
  <2>1. b \in OpList(ask, g, ctx)
    BY <1>1, <1>5 DEF OpNode
  <2>2. {} \in SUBSET Wrappers
    OBVIOUS
  <2>3. g \in Lists({})
    BY <1>5, <2>2, ElementsOfList
  <2>4. Proper(sort, n, scope, "any", ctx, b)
    BY <1>5, <2>1, BothSpans, ListAnswers
  <2>5. Ordered(g, {}, b)
    BY <1>5, <2>1, <2>3, BareListOrdered
  <2> QED BY <2>4, <2>5, BareOrdered
<1>6. CASE g.kind = "validate"
  <2>1. b \in OpValidate(ask, g, ctx)
    BY <1>1, <1>6 DEF OpNode
  <2> QED BY <1>6, <2>1, ValidateOrdered
<1>7. CASE g.kind = "onThreads"
  <2>1. b \in OpOnThreads(ask, g, ctx)
    BY <1>1, <1>7 DEF OpNode
  <2> QED BY <1>7, <2>1, OnThreadsOrdered
<1>8. CASE g.kind = "timeLimit"
  <2>1. b \in OpTimeLimit(ask, g, ctx)
    BY <1>1, <1>8 DEF OpNode
  <2> QED BY <1>8, <2>1, TimeLimitOrdered
<1>9. CASE g.kind = "stagger"
  <2>1. b \in OpStagger(ask, g, ctx)
    BY <1>1, <1>9 DEF OpNode
  <2> QED BY <1>9, <2>1, StaggerOrdered
<1> QED BY <1>2, <1>3, <1>4, <1>5, <1>6, <1>7, <1>8, <1>9 DEF Wrappers

\* for all generators of that size,
LEMMA OrdersOnce ==
  ASSUME NEW sort, IsSort(sort), NEW k \in Nat, k <= Size, NEW ask,
         \A j \in 0 .. k : Responds(ask, sort, j) /\ Orders(ask, sort, j)
  PROVE  Orders(OpOver(ask), sort, k + 1)
<1>1. ASSUME NEW j \in 0 .. ((k + 1) - 1), NEW scope \in Scopes, NEW ctx,
             ContextFor(sort, scope, ctx), NEW kinds \in SUBSET Wrappers,
             NEW g \in Trees(sort)[j][scope]["any"], g \in Lists(kinds), NEW a \in OpOver(ask)[g][ctx]
      PROVE  Ordered(g, kinds, a)
  <2>1. j \in 0 .. k /\ j \in Nat /\ j <= Size
    BY SizeAssumption
  <2> QED BY <1>1, <2>1, OrderStep
<1> QED BY <1>1 DEF Orders

\* and so does op at every depth.
LEMMA OpOrders ==
  ASSUME NEW sort, IsSort(sort)
  PROVE  \A k \in 0 .. Size : Orders(OpAt[k], sort, k + 1)
<1> DEFINE P == {k \in Nat : k <= Size => Orders(OpAt[k], sort, k + 1)}
<1>1. 0 \in P
  <2>1. OpAt[0] = OpOver(<<>>)
    BY OpValue
  <2>2. \A j \in 0 .. 0 : Responds(<<>>, sort, j) /\ Orders(<<>>, sort, j)
    BY DEF Responds, Orders
  <2>3. 0 <= Size
    BY SizeAssumption
  <2> QED BY <2>1, <2>2, <2>3, OrdersOnce
<1>2. ASSUME NEW k \in Nat, k \in P PROVE k + 1 \in P
  <2> SUFFICES ASSUME k + 1 <= Size PROVE Orders(OpAt[k + 1], sort, (k + 1) + 1)
    OBVIOUS
  <2>1. OpAt[k + 1] = OpOver(OpAt[k])
    <3>1. k + 1 \in Nat /\ k + 1 # 0 /\ (k + 1) - 1 = k
      OBVIOUS
    <3> QED BY <3>1, OpValue
  <2>2. Responds(OpAt[k], sort, k + 1) /\ Orders(OpAt[k], sort, k + 1)
    <3>1. k <= Size /\ k \in 0 .. Size
      BY SizeAssumption
    <3>2. Responds(OpAt[k], sort, k + 1)
      BY <3>1, OpResponds
    <3> QED BY <1>2, <3>1, <3>2
  <2>3. ASSUME NEW j \in 0 .. (k + 1) PROVE Responds(OpAt[k], sort, j) /\ Orders(OpAt[k], sort, j)
    <3>1. \A i \in 0 .. (j - 1) : i \in 0 .. ((k + 1) - 1)
      OBVIOUS
    <3>2. k + 1 # 0
      OBVIOUS
    <3>3. Responds(OpAt[k], sort, j)
      BY <2>2, <3>1, <3>2 DEF Responds
    <3>4. Orders(OpAt[k], sort, j)
      BY <2>2, <3>1 DEF Orders
    <3> QED BY <3>3, <3>4
  <2> QED BY <2>1, <2>3, OrdersOnce
<1>3. Nat \subseteq P
  <2> HIDE DEF P
  <2> QED BY <1>1, <1>2, Induction
<1> QED BY <1>3, SizeAssumption

\* op keeps the order of a list, whatever it is wrapped in.
LEMMA OpOrdered ==
  ASSUME NEW sort, IsSort(sort), NEW ctx, ContextFor(sort, "all", ctx), NEW kinds \in SUBSET Wrappers,
         NEW g \in PlansOf(sort), g \in Lists(kinds), NEW a \in Op(g, ctx)
  PROVE  Ordered(g, kinds, a)
<1>1. Orders(OpAt[Size], sort, Size + 1) /\ Size \in 0 .. ((Size + 1) - 1) /\ Size + 1 \in Nat
  BY OpOrders, SizeAssumption
<1>2. "all" \in Scopes
  BY DEF Scopes
<1>3. a \in OpAt[Size][g][ctx] /\ g \in Trees(sort)[Size]["all"]["any"]
  BY DEF Op, PlansOf
<1> QED BY <1>1, <1>2, <1>3, OrderedAt

-----------------------------------------------------------------------------
(***************************************************************************)
(* update keeps it, and so does the run.                                   *)
(***************************************************************************)

\* A wrapper has the names of what it holds.
LEMMA WrappedNames ==
  ASSUME NEW sort, NEW n \in Nat, n <= Size, NEW scope \in Scopes, NEW g \in Trees(sort)[n][scope]["any"],
         NEW kinds \in SUBSET Wrappers, g.kind \in Wrappers, g \in Lists(kinds),
         NEW h \in Trees(sort)[n][scope]["any"], h.kind = g.kind, SameNames(g.gen, kinds, h.gen)
  PROVE  SameNames(g, kinds, h)
<1>1. g.kind \in kinds /\ Listed(g) = Listed(g.gen)
  BY WrapperList
<1>2. h \in Lists(kinds) /\ Listed(h) = Listed(h.gen)
  BY <1>1, WrapperList DEF SameNames
<1> QED BY <1>1, <1>2 DEF SameNames

\* One level of update keeps the names if the levels below do,
LEMMA NamesStep ==
  ASSUME NEW sort, IsSort(sort), NEW n \in Nat, n <= Size, NEW update,
         UpdateKeeps(update, sort, n), KeepsOrder(update, sort, n),
         NEW scope \in Scopes, NEW ctx \in Contexts, NEW p \in Processes,
         NEW g \in Trees(sort)[n][scope]["any"], NEW kinds \in SUBSET Wrappers, g \in Lists(kinds)
  PROVE  SameNames(g, kinds, UpdateOver(update)[g][ctx][p])
<1> DEFINE h == UpdateNode(update, g, ctx, p)
<1>1. UpdateOver(update)[g][ctx][p] = h
  BY TreeIsGenerator, BothSpans DEF UpdateOver
<1>2. h \in Trees(sort)[n][scope]["any"]
  BY <1>1, BothSpans, UpdateStep
<1>3. SUFFICES SameNames(g, kinds, h)
  BY <1>1
<1>4. g.kind \in {"null", "op", "list"} \cup Wrappers
  BY ListsParts
<1>5. {} \in SUBSET Wrappers
  OBVIOUS
<1>6. ASSUME g.kind # "null", g.kind # "op" PROVE n # 0 /\ n - 1 \in 0 .. (n - 1)
  <2>1. g.kind # "fun"
    BY <1>4 DEF Wrappers
  <2> QED BY <1>6, <2>1, BothSpans, TreeParts DEF Childless
<1>7. ASSUME n # 0, NEW sc \in Scopes, NEW f \in Trees(sort)[n - 1][sc]["any"], NEW c \in Contexts,
             NEW ks \in SUBSET Wrappers, f \in Lists(ks)
      PROVE  SameNames(f, ks, update[f][c][p])
  <2>1. n - 1 \in 0 .. (n - 1)
    BY <1>7
  <2> QED BY <1>7, <2>1 DEF KeepsOrder
<1>8. CASE g.kind \in {"null", "op"}
  <2>1. g \in Lists({})
    BY <1>5, <1>8, ListsParts
  <2>2. h = g
    BY <1>8, <2>1, BareCopy DEF UpdateNode
  <2> QED BY <2>2 DEF SameNames
<1>9. CASE g.kind = "validate"
  <2>1. g.gen \in Trees(sort)[n - 1][scope]["any"]
    BY <1>9, BothSpans, TreeParts DEF Childless
  <2>2. g.kind \in Wrappers /\ g.gen \in Lists(kinds)
    BY <1>9, WrapperList DEF Wrappers
  <2>3. h.kind = "validate" /\ h.gen = update[g.gen][ctx][p]
    BY <1>9 DEF UpdateNode, UpdateValidate, Validate
  <2> HIDE DEF h
  <2> QED BY <1>2, <1>6, <1>7, <1>9, <2>1, <2>2, <2>3, WrappedNames
<1>10. CASE g.kind = "timeLimit"
  <2>1. g.gen \in Trees(sort)[n - 1][scope]["any"]
    BY <1>10, BothSpans, TreeParts DEF Childless
  <2>2. g.kind \in Wrappers /\ g.gen \in Lists(kinds)
    BY <1>10, WrapperList DEF Wrappers
  <2>3. h.kind = "timeLimit" /\ h.gen = update[g.gen][ctx][p]
    BY <1>10 DEF UpdateNode, UpdateTimeLimit, TimeLimit
  <2> HIDE DEF h
  <2> QED BY <1>2, <1>6, <1>7, <1>10, <2>1, <2>2, <2>3, WrappedNames
<1>11. CASE g.kind = "stagger"
  <2>1. g.gen \in Trees(sort)[n - 1][scope]["any"]
    BY <1>11, BothSpans, TreeParts DEF Childless
  <2>2. g.kind \in Wrappers /\ g.gen \in Lists(kinds)
    BY <1>11, WrapperList DEF Wrappers
  <2>3. h.kind = "stagger" /\ h.gen = update[g.gen][ctx][p]
    BY <1>11 DEF UpdateNode, UpdateStagger, StaggerFrom, Stagger
  <2> HIDE DEF h
  <2> QED BY <1>2, <1>6, <1>7, <1>11, <2>1, <2>2, <2>3, WrappedNames
<1>12. CASE g.kind = "onThreads"
  <2>1. g.filter \in Filters /\ g.filter \in Scopes /\ g.gen \in Trees(sort)[n - 1][g.filter]["any"]
    <3>1. g.kind \notin Childless
      BY <1>12 DEF Childless
    <3> QED BY <1>12, <3>1, BothSpans, TreeParts
  <2>2. g.kind \in Wrappers /\ g.gen \in Lists(kinds)
    BY <1>12, WrapperList DEF Wrappers
  <2>3. OnThreadsContext(g.filter, ctx) \in Contexts
    BY <2>1, RestrictedContext
  <2>4. \/ h = g
        \/ h.kind = "onThreads" /\ h.gen = update[g.gen][OnThreadsContext(g.filter, ctx)][p]
    BY <1>12 DEF UpdateNode, UpdateOnThreads, OnThreads
  <2> HIDE DEF h
  <2>5. CASE h = g
    BY <2>5 DEF SameNames
  <2>6. CASE h.kind = "onThreads" /\ h.gen = update[g.gen][OnThreadsContext(g.filter, ctx)][p]
    BY <1>2, <1>6, <1>7, <1>12, <2>1, <2>2, <2>3, <2>6, WrappedNames
  <2> QED BY <2>4, <2>5, <2>6
<1>13. CASE g.kind = "list" /\ g.gens = <<>>
  <2>1. h = Null
    BY <1>13 DEF UpdateNode, UpdateList
  <2>2. Listed(g) = <<>>
    BY <1>13, ListedParts
  <2> QED BY <2>1, <2>2, NullList DEF SameNames
<1>14. CASE g.kind = "list" /\ g.gens # <<>>
  <2> DEFINE q == g.gens
             x == update[q[1]][ctx][p]
             r == [q EXCEPT ![1] = x]
  <2>1. /\ n # 0 /\ g = List(q) /\ q \in Seq(NestedTo[n - 1]) /\ 1 \in 1 .. Len(q)
        /\ q[1] \in Trees(sort)[n - 1][scope]["any"]
    BY <1>14, FirstAndOthers
  <2>2. g \in Lists({}) /\ q[1] \in Lists({})
    <3>1. \A i \in DOMAIN q : q[i] \in Lists({})
      BY <1>14, ElementsOfList
    <3>2. g \in Lists({})
      BY <1>5, <1>14, <3>1, ElementsOfList
    <3> QED BY <2>1, <3>1, <3>2
  <2>3. SameNames(q[1], {}, x)
    BY <1>5, <1>7, <2>1, <2>2
  <2>4. h = [CopyOne(g) EXCEPT !.gens[1] = x]
    BY <1>14 DEF UpdateNode, UpdateList
  <2>5. h = List(r)
    <3>1. CopyOne(g) = g
      BY <2>2, BareCopy
    <3>2. [List(q) EXCEPT !.gens[1] = x] = List(r)
      BY DEF List
    <3> QED BY <2>1, <2>4, <3>1, <3>2
  <2>6. Listed(g) = Listed(q[1]) \o Listed(List(Tail(q)))
    BY <1>14, FirstAndRest
  <2> HIDE DEF h, x
  <2>7. q # <<>> /\ List(q) \in Trees(sort)[n][scope]["any"] /\ List(q) \in Lists({})
    BY <1>14, <2>1, <2>2
  <2> HIDE DEF q
  <2>8. r # <<>> /\ Len(r) = Len(q) /\ r[1] = x /\ \A i \in 2 .. Len(q) : r[i] = q[i]
    BY <2>1, <2>7, ReplacedAt
  <2> HIDE DEF r
  <2>9. List(r) \in Lists({}) /\ Listed(List(r)) = Listed(x) \o Listed(List(Tail(q)))
    <3>1. x \in Lists({}) /\ List(r) \in Trees(sort)[n][scope]["any"]
      BY <1>2, <2>3, <2>5 DEF SameNames
    <3>2. r # <<>> /\ Len(r) = Len(q) /\ r[1] \in Lists({}) /\ \A i \in 2 .. Len(q) : r[i] = q[i]
      BY <2>8, <3>1
    <3>3. List(r) \in Lists({}) /\ Listed(List(r)) = Listed(r[1]) \o Listed(List(Tail(q)))
      BY <2>7, <3>1, <3>2, FirstReplaced
    <3> QED BY <2>8, <3>3
  <2>10. h \in Lists(kinds)
    BY <1>2, <2>5, <2>9, BareLists
  <2> QED BY <2>3, <2>5, <2>6, <2>9, <2>10 DEF SameNames
<1> QED BY <1>4, <1>8, <1>9, <1>10, <1>11, <1>12, <1>13, <1>14 DEF Wrappers

\* and so does update at every depth.
LEMMA UpdatesKeepOrder ==
  ASSUME NEW sort, IsSort(sort)
  PROVE  \A k \in 0 .. Size : KeepsOrder(UpdateAt[k], sort, k + 1)
<1> DEFINE P == {k \in Nat : k <= Size => KeepsOrder(UpdateAt[k], sort, k + 1)}
<1>1. 0 \in P
  <2>1. UpdateAt[0] = UpdateOver(<<>>)
    BY UpdateValue
  <2>2. UpdateKeeps(<<>>, sort, 0) /\ KeepsOrder(<<>>, sort, 0)
    BY DEF UpdateKeeps, KeepsOrder
  <2>3. ASSUME NEW k \in 0 .. (0 + 1 - 1) PROVE k = 0
    OBVIOUS
  <2>4. 0 <= Size
    BY SizeAssumption
  <2>5. KeepsOrder(UpdateAt[0], sort, 0 + 1)
    BY <2>1, <2>2, <2>3, <2>4, NamesStep DEF KeepsOrder
  <2> QED BY <2>5
<1>2. ASSUME NEW k \in Nat, k \in P PROVE k + 1 \in P
  <2> SUFFICES ASSUME k + 1 <= Size PROVE KeepsOrder(UpdateAt[k + 1], sort, (k + 1) + 1)
    OBVIOUS
  <2>1. UpdateAt[k + 1] = UpdateOver(UpdateAt[k])
    <3>1. k + 1 \in Nat /\ k + 1 # 0 /\ (k + 1) - 1 = k
      OBVIOUS
    <3> QED BY <3>1, UpdateValue
  <2>2. UpdateKeeps(UpdateAt[k], sort, k + 1) /\ KeepsOrder(UpdateAt[k], sort, k + 1)
    <3>1. k <= Size /\ k \in 0 .. Size
      BY SizeAssumption
    <3>2. UpdateKeeps(UpdateAt[k], sort, k + 1)
      BY <3>1, UpdatesKeep
    <3> QED BY <1>2, <3>1, <3>2
  <2>3. ASSUME NEW j \in 0 .. (k + 1) PROVE UpdateKeeps(UpdateAt[k], sort, j) /\ KeepsOrder(UpdateAt[k], sort, j)
    <3>1. \A i \in 0 .. (j - 1) : i \in 0 .. ((k + 1) - 1)
      OBVIOUS
    <3>2. UpdateKeeps(UpdateAt[k], sort, j)
      BY <2>2, <3>1 DEF UpdateKeeps
    <3>3. KeepsOrder(UpdateAt[k], sort, j)
      BY <2>2, <3>1 DEF KeepsOrder
    <3> QED BY <3>2, <3>3
  <2>4. \A j \in 0 .. (k + 1) : j \in Nat /\ j <= Size
    BY SizeAssumption
  <2>5. 0 .. (((k + 1) + 1) - 1) = 0 .. (k + 1)
    OBVIOUS
  <2> QED BY <2>1, <2>3, <2>4, <2>5, NamesStep DEF KeepsOrder
<1>3. Nat \subseteq P
  <2> HIDE DEF P
  <2> QED BY <1>1, <1>2, Induction
<1> QED BY <1>3, SizeAssumption

\* An event leaves the names of a list.
LEMMA UpdateOneNames ==
  ASSUME NEW sort, IsSort(sort), NEW g \in PlansOf(sort), NEW ctx \in Contexts, NEW p \in Processes,
         NEW kinds \in SUBSET Wrappers, g \in Lists(kinds)
  PROVE  SameNames(g, kinds, Update(g, ctx, p))
<1>1. KeepsOrder(UpdateAt[Size], sort, Size + 1) /\ Size \in 0 .. (Size + 1 - 1)
  BY UpdatesKeepOrder, SizeAssumption
<1>2. "all" \in Scopes
  BY DEF Scopes
<1> QED BY <1>1, <1>2 DEF KeepsOrder, Update, PlansOf

\* The loop is left by an exhausted generator, or was before.
LEMMA EndsOfPolling ==
  ASSUME main # "terminated", GNext, main' \in {"exiting", "done"}
  PROVE  main \in {"exiting", "done"} \/ GNil
<1>1. ASSUME NEW t \in Threads, GWorker(t) PROVE main' = main
  BY <1>1 DEF GWorker, WorkerStep, Take, Reopen, Enqueue, Close, Throw, Invoke, runner_vars
<1>2. ASSUME NEW t \in Threads, GComplete(t) PROVE main' = main
  BY <1>2 DEF GComplete, Complete
<1>3. ASSUME GDispatch \/ GNotDue \/ GPending \/ Tick PROVE main' = main
  BY <1>3 DEF GDispatch, DispatchTo, GNotDue, GPending, WaitFor, Tick, vars, runner_vars
<1>4. ASSUME NEW by \in 1 .. MaxBehind, SetBack(by) PROVE main' = main
  BY <1>4 DEF SetBack, vars, runner_vars
<1>5. ASSUME GExit PROVE main = "exiting"
  BY <1>5 DEF GExit, Finish, PutExit, Join
<1>6. ASSUME GEnded PROVE main' = main
  BY <1>6 DEF GEnded, Ended, vars, runner_vars
<1>7. ~GCrash
  BY DEF GCrash
<1>8. CASE GDispatch \/ GNotDue \/ GPending \/ GNil \/ GExit \/ Tick
  BY <1>3, <1>5, <1>8
<1>9. CASE \E t \in Threads : GComplete(t) \/ GWorker(t)
  BY <1>1, <1>2, <1>9
<1>10. CASE \E by \in 1 .. MaxBehind : SetBack(by)
  BY <1>4, <1>10
<1> QED BY <1>6, <1>7, <1>8, <1>9, <1>10 DEF GNext

\* What the loop may be answered for a list.
LEMMA AnswerOrdered ==
  ASSUME IInv, gen \in PlansOf(Sound), now \in Int, NEW kinds \in SUBSET Wrappers, gen \in Lists(kinds),
         NEW a \in Answers, a.op.type # "crash"
  PROVE  /\ Ordered(gen, kinds, a) /\ a.op.type \in {"nil", "pending", "invoke"}
         /\ main = "polling" /\ a.gen \in PlansOf(Sound) /\ a.op.time \in Int
<1>1. AskGenerator /\ ContextFor(Sound, "all", Ctx) /\ Proper(Sound, Size, "all", "any", Ctx, a)
  BY SoundSort, BothSpans, AnswersProper DEF PlansOf
<1>2. a \in Op(gen, Ctx)
  BY DEF Answers
<1>3. Ordered(gen, kinds, a)
  BY <1>1, <1>2, SoundSort, OpOrdered
<1> QED BY <1>1, <1>3 DEF AskGenerator, Proper, IsAnswer, PlansOf

\* A step leaves the names that are to come or dispatches the first of them.
LEMMA StepNames ==
  ASSUME IInv, main # "terminated", GNext, gen \in PlansOf(Sound), now \in Int,
         NEW kinds \in SUBSET Wrappers, gen \in Lists(kinds)
  PROVE  /\ gen' \in Lists(kinds)
         /\ \/ issued' = issued /\ Listed(gen') = Listed(gen)
            \/ \E a \in Answers : /\ a.op.type = "invoke" /\ issued' = Append(issued, a.op)
                                  /\ Listed(gen) = <<a.op.f>> \o Listed(gen')
<1>1. ASSUME NEW F \in SUBSET Threads, NEW t \in Int PROVE CtxAt(F, t) \in Contexts
  BY DEF CtxAt, Contexts, IInv, TypeOK
<1>2. ASSUME NEW t \in Threads, GComplete(t)
      PROVE  gen' \in Lists(kinds) /\ issued' = issued /\ Listed(gen') = Listed(gen)
  <2>1. /\ completions[t] # <<>> /\ gen' = Update(gen, CompletionCtx(t), Head(completions[t]).process)
        /\ issued' = issued
    BY <1>2 DEF GComplete, Complete
  <2>3. Head(completions[t]).process \in Processes
    BY <2>1, CompletionOfThread DEF IInv, TypeOK
  <2>5. CompletionCtx(t) \in Contexts
    BY <2>1, CompletionContext
  <2>6. SameNames(gen, kinds, gen')
    BY <2>1, <2>3, <2>5, SoundSort, UpdateOneNames
  <2> QED BY <2>1, <2>6 DEF SameNames
<1>3. ASSUME GDispatch
      PROVE  /\ gen' \in Lists(kinds)
             /\ \E a \in Answers : /\ a.op.type = "invoke" /\ issued' = Append(issued, a.op)
                                   /\ Listed(gen) = <<a.op.f>> \o Listed(gen')
  <2>1. PICK a \in Answers :
          /\ a.op.type \notin {"nil", "pending", "crash"} /\ DispatchTo(a.op.process)
          /\ gen' = Update(a.gen, DispatchCtx(a.op), a.op.process)
          /\ issued' = Append(issued, a.op)
    BY <1>3 DEF GDispatch
  <2>2. /\ Ordered(gen, kinds, a) /\ a.op.type = "invoke"
        /\ a.gen \in PlansOf(Sound) /\ a.op.time \in Int
    BY <2>1, AnswerOrdered
  <2>3. a.op.process \in Processes
    BY <2>1, AnswerDispatches DEF Issued
  <2>4. free_threads \subseteq Threads
    BY DEF IInv, TypeOK
  <2>5. DispatchCtx(a.op) \in Contexts
    BY <1>1, <2>2, <2>4 DEF DispatchCtx
  <2>6. a.gen \in Lists(kinds) /\ Listed(gen) = <<a.op.f>> \o Listed(a.gen)
    BY <2>1, <2>2 DEF Ordered
  <2>7. SameNames(a.gen, kinds, gen')
    BY <2>1, <2>2, <2>3, <2>5, <2>6, SoundSort, UpdateOneNames
  <2>8. gen' \in Lists(kinds) /\ Listed(gen) = <<a.op.f>> \o Listed(gen')
    BY <2>6, <2>7 DEF SameNames
  <2> QED BY <2>1, <2>2, <2>8
<1>4. ASSUME GNotDue \/ GPending \/ GNil
      PROVE  gen' \in Lists(kinds) /\ issued' = issued /\ Listed(gen') = Listed(gen)
  <2>1. PICK a \in Answers : a.op.type # "crash" /\ gen' = a.self /\ issued' = issued
    BY <1>4 DEF GNotDue, GPending, GNil
  <2>2. Ordered(gen, kinds, a)
    BY <2>1, AnswerOrdered
  <2> QED BY <2>1, <2>2 DEF Ordered
<1>5. \/ \E t \in Threads : GComplete(t)
      \/ GDispatch \/ GNotDue \/ GPending \/ GNil \/ (gen' = gen /\ issued' = issued)
  BY DEF GNext, GWorker, GCrash, GExit, Tick, SetBack, GEnded, gen_vars
<1> QED BY <1>2, <1>3, <1>4, <1>5

\* A generator is only exhausted when all but the last operation are out.
LEMMA NilOrdered ==
  ASSUME IInv, GNil, gen \in PlansOf(Sound), now \in Int, NEW kinds \in SUBSET Wrappers, gen \in Lists(kinds)
  PROVE  AtMostTheLast(Listed(gen'), kinds)
<1>1. PICK a \in Answers : a.op.type = "nil" /\ gen' = a.self
  BY DEF GNil
<1>2. Ordered(gen, kinds, a)
  BY <1>1, AnswerOrdered
<1> QED BY <1>1, <1>2 DEF Ordered

\* There are as many names as operations.
LEMMA NamesOf ==
  ASSUME NEW s \in Seq(Issued)
  PROVE  /\ Names(s) \in Seq(STRING) /\ Len(Names(s)) = Len(s)
         /\ \A i \in DOMAIN s : Names(s)[i] = s[i].f
<1>1. DOMAIN s = 1 .. Len(s) /\ Len(s) \in Nat /\ \A i \in 1 .. Len(s) : s[i].f \in STRING
  <2>1. DOMAIN s = 1 .. Len(s) /\ Len(s) \in Nat /\ \A i \in 1 .. Len(s) : s[i] \in Issued
    OBVIOUS
  <2>2. \A o \in Issued : o.f \in STRING
    BY DEF Issued
  <2> QED BY <2>1, <2>2
<1>2. Names(s) = [i \in 1 .. Len(s) |-> s[i].f]
  BY <1>1 DEF Names
<1> QED BY <1>1, <1>2

\* Another operation is another name.
LEMMA NamesAppended ==
  ASSUME NEW s \in Seq(Issued), NEW o \in Issued
  PROVE  Names(Append(s, o)) = Names(s) \o <<o.f>>
<1>1. Append(s, o) \in Seq(Issued) /\ Len(Append(s, o)) = Len(s) + 1 /\ Len(s) \in Nat
  OBVIOUS
<1>2. o.f \in STRING
  BY DEF Issued
<1>3. /\ Names(s) \in Seq(STRING) /\ Len(Names(s)) = Len(s) /\ \A i \in DOMAIN s : Names(s)[i] = s[i].f
      /\ Names(Append(s, o)) \in Seq(STRING) /\ Len(Names(Append(s, o))) = Len(s) + 1
      /\ \A i \in DOMAIN Append(s, o) : Names(Append(s, o))[i] = Append(s, o)[i].f
  BY <1>1, NamesOf
<1>4. /\ Names(s) \o <<o.f>> \in Seq(STRING) /\ Len(Names(s) \o <<o.f>>) = Len(s) + 1
      /\ \A i \in 1 .. Len(s) : (Names(s) \o <<o.f>>)[i] = Names(s)[i]
      /\ (Names(s) \o <<o.f>>)[Len(s) + 1] = o.f
  BY <1>1, <1>2, <1>3
<1>5. \A i \in 1 .. (Len(s) + 1) : Names(Append(s, o))[i] = (Names(s) \o <<o.f>>)[i]
  <2>1. \A i \in 1 .. Len(s) : i \in DOMAIN s /\ i \in DOMAIN Append(s, o) /\ Append(s, o)[i] = s[i]
    BY <1>1
  <2>2. Len(s) + 1 \in DOMAIN Append(s, o) /\ Append(s, o)[Len(s) + 1] = o
    BY <1>1
  <2>3. \A i \in 1 .. (Len(s) + 1) : i \in 1 .. Len(s) \/ i = Len(s) + 1
    BY <1>1
  <2> QED BY <1>3, <1>4, <2>1, <2>2, <2>3
<1> QED BY <1>1, <1>3, <1>4, <1>5, SeqEqual

\* The names of a plan are strings.
LEMMA ListedPlan ==
  ASSUME NEW g \in PlansOf(Sound)
  PROVE  Listed(g) \in Seq(STRING)
<1>1. g \in Trees(Sound)[Size]["all"]["any"] /\ "all" \in Scopes /\ Size \in Nat /\ Size <= Size
  BY SizeAssumption DEF PlansOf, Scopes
<1> QED BY <1>1, ListedParts

\* At first all names are to come.
LEMMA InitOrder == GInit => OrderInv
<1> SUFFICES ASSUME GInit, NEW kinds \in SUBSET Wrappers, plan \in Lists(kinds)
             PROVE  /\ gen \in Lists(kinds)
                    /\ Names(issued) \o Listed(gen) = Listed(plan)
                    /\ main \in {"exiting", "done"} => AtMostTheLast(Listed(gen), kinds)
  BY DEF OrderInv
<1>1. gen = plan /\ issued = <<>> /\ main = "polling" /\ plan \in PlansOf(Sound)
  BY GeneratorAssumption DEF GInit, Init
<1>2. Names(<<>>) = <<>>
  <2>1. <<>> \in Seq(Issued) /\ Len(<<>>) = 0
    BY EmptySeq
  <2> QED BY <2>1, NamesOf, EmptySeq
<1>3. <<>> \o Listed(plan) = Listed(plan)
  BY <1>1, ListedPlan, ConcatEmptySeq
<1> QED BY <1>1, <1>2, <1>3

\* Every step keeps the order of the names.
LEMMA NextOrder == GIInv /\ OrderInv /\ [GNext]_gvars => OrderInv'
<1>1. ASSUME OrderInv, UNCHANGED gvars PROVE OrderInv'
  BY <1>1 DEF OrderInv, Names, AtMostTheLast, gvars, gen_vars, vars, runner_vars
<1>2. ASSUME GIInv, OrderInv, GNext, main # "terminated" PROVE OrderInv'
  <2> SUFFICES ASSUME NEW kinds \in SUBSET Wrappers, plan' \in Lists(kinds)
               PROVE  /\ gen' \in Lists(kinds)
                      /\ Names(issued') \o Listed(gen') = Listed(plan')
                      /\ main' \in {"exiting", "done"} => AtMostTheLast(Listed(gen'), kinds)
    BY DEF OrderInv
  <2>1. plan' = plan /\ plan \in Lists(kinds)
    BY <1>2, ClockSteps
  <2>2. /\ gen \in Lists(kinds) /\ Names(issued) \o Listed(gen) = Listed(plan)
        /\ main \in {"exiting", "done"} => AtMostTheLast(Listed(gen), kinds)
    BY <1>2, <2>1 DEF OrderInv
  <2>3. IInv /\ now \in Int /\ gen \in PlansOf(Sound) /\ issued \in Seq(Issued)
    BY <1>2 DEF GIInv
  <2>4. /\ gen' \in Lists(kinds)
        /\ \/ issued' = issued /\ Listed(gen') = Listed(gen)
           \/ \E a \in Answers : /\ a.op.type = "invoke" /\ issued' = Append(issued, a.op)
                                 /\ Listed(gen) = <<a.op.f>> \o Listed(gen')
    BY <1>2, <2>2, <2>3, StepNames
  <2>5. gen' \in PlansOf(Sound)
    BY <1>2, <2>3, SoundSort, StepStays
  <2>6. CASE issued' = issued /\ Listed(gen') = Listed(gen)
    <3>1. Names(issued') \o Listed(gen') = Listed(plan')
      BY <2>1, <2>2, <2>6
    <3>2. ASSUME main' \in {"exiting", "done"} PROVE AtMostTheLast(Listed(gen'), kinds)
      <4>1. CASE main \in {"exiting", "done"}
        BY <2>2, <2>6, <4>1
      <4>2. CASE GNil
        BY <2>2, <2>3, <4>2, NilOrdered
      <4> QED BY <1>2, <3>2, <4>1, <4>2, EndsOfPolling
    <3> QED BY <2>4, <3>1, <3>2
  <2>7. CASE \E a \in Answers : /\ a.op.type = "invoke" /\ issued' = Append(issued, a.op)
                                /\ Listed(gen) = <<a.op.f>> \o Listed(gen')
    <3>1. PICK a \in Answers : /\ a.op.type = "invoke" /\ issued' = Append(issued, a.op)
                               /\ Listed(gen) = <<a.op.f>> \o Listed(gen')
      BY <2>7
    <3>2. a.op \in Issued
      BY <2>3, <3>1, AnswerDispatches
    <3>3. Names(issued') = Names(issued) \o <<a.op.f>>
      BY <2>3, <3>1, <3>2, NamesAppended
    <3>4. /\ Names(issued) \in Seq(STRING) /\ <<a.op.f>> \in Seq(STRING) /\ Listed(gen') \in Seq(STRING)
      <4>1. \A g \in PlansOf(Sound) : Listed(g) \in Seq(STRING)
        BY ListedPlan
      <4>2. a.op.f \in STRING
        BY <3>2 DEF Issued
      <4>3. <<a.op.f>> \in Seq(STRING)
        BY <4>2
      <4>4. Names(issued) \in Seq(STRING)
        BY <2>3, NamesOf
      <4> QED BY <2>5, <4>1, <4>3, <4>4
    <3>5. Names(issued') \o Listed(gen') = Names(issued) \o Listed(gen)
      <4>1. \A p, q, r \in Seq(STRING) : (p \o q) \o r = p \o (q \o r)
        BY Joined
      <4> QED BY <3>1, <3>3, <3>4, <4>1
    <3>6. main = "polling"
      BY <2>2, <2>3, <3>1, AnswerOrdered
    <3>7. ASSUME main' \in {"exiting", "done"} PROVE AtMostTheLast(Listed(gen'), kinds)
      BY <1>2, <2>2, <2>3, <3>6, <3>7, EndsOfPolling, NilOrdered
    <3> QED BY <2>1, <2>2, <2>4, <3>5, <3>7
  <2> QED BY <2>4, <2>6, <2>7
<1> QED BY <1>1, <1>2, EndedChangesNothing

\* The order, for the plans that are lists in wrappers.
LEMMA OrderKept == GIInv /\ OrderInv => ListInOrder
<1> SUFFICES ASSUME GIInv, OrderInv, plan \in Lists(Wrappers)
             PROVE  /\ Len(issued) <= Len(Listed(plan))
                    /\ \A i \in DOMAIN issued : issued[i].f = Listed(plan)[i]
                    /\ main = "done" => \/ Len(issued) = Len(Listed(plan))
                                        \/ Len(issued) = Len(Listed(plan)) - 1 /\ plan \notin Lists({"validate"})
                                        \/ plan \notin Lists(Wrappers \ {"timeLimit"})
  BY DEF ListInOrder
<1>1. issued \in Seq(Issued) /\ Listed(gen) \in Seq(STRING)
  <2>1. \A g \in PlansOf(Sound) : Listed(g) \in Seq(STRING)
    BY ListedPlan
  <2> QED BY <2>1 DEF GIInv
<1>2. /\ Names(issued) \in Seq(STRING) /\ Len(Names(issued)) = Len(issued)
      /\ \A i \in DOMAIN issued : Names(issued)[i] = issued[i].f
  BY <1>1, NamesOf
<1>3. Listed(plan) = Names(issued) \o Listed(gen)
  BY DEF OrderInv
<1>4. /\ Len(Listed(plan)) = Len(issued) + Len(Listed(gen)) /\ Len(issued) \in Nat /\ Len(Listed(gen)) \in Nat
      /\ \A i \in 1 .. Len(issued) : Listed(plan)[i] = Names(issued)[i]
  BY <1>1, <1>2, <1>3
<1>5. ASSUME main = "done", plan \in Lists(Wrappers \ {"timeLimit"})
      PROVE  \/ Len(issued) = Len(Listed(plan))
             \/ Len(issued) = Len(Listed(plan)) - 1 /\ plan \notin Lists({"validate"})
  <2>1. AtMostTheLast(Listed(gen), Wrappers \ {"timeLimit"})
    BY <1>5 DEF OrderInv
  <2>2. Len(Listed(gen)) = 0 \/ Len(Listed(gen)) = 1
    BY <2>1 DEF AtMostTheLast
  <2>3. ASSUME plan \in Lists({"validate"}) PROVE Len(Listed(gen)) = 0
    <3>1. {"validate"} \in SUBSET Wrappers
      BY DEF Wrappers
    <3>2. AtMostTheLast(Listed(gen), {"validate"})
      BY <1>5, <2>3, <3>1 DEF OrderInv
    <3> QED BY <3>2 DEF AtMostTheLast
  <2>4. /\ Len(issued) \in Nat /\ Len(Listed(gen)) \in Nat
        /\ Len(Listed(plan)) = Len(issued) + Len(Listed(gen))
    BY <1>4
  <2>5. CASE Len(Listed(gen)) = 0
    BY <2>4, <2>5
  <2>6. CASE Len(Listed(gen)) = 1
    <3>1. plan \notin Lists({"validate"})
      BY <2>3, <2>6
    <3>2. Len(issued) = Len(Listed(plan)) - 1
      BY <2>4, <2>6
    <3> QED BY <3>1, <3>2
  <2> QED BY <2>2, <2>5, <2>6
<1>6. DOMAIN issued = 1 .. Len(issued)
  BY <1>1
<1> QED BY <1>2, <1>4, <1>5, <1>6

\* The operations of a list, in whatever wrappers, are dispatched in its order
\* and none twice; when the run has ended at most the last one is missing, and
\* that only behind a wrapper other than Validate, which takes the answer that
\* comes without a generator for nil (Generator.cpp:7-9, 49-66, 236, 271, 296,
\* 328).
THEOREM ListsKeepTheirOrder == GSpec => []ListInOrder
BY OrderKept, GInductive, InitOrder, NextOrder, PTL DEF GSpec

-----------------------------------------------------------------------------
(***************************************************************************)
(* Solid generators: where op, copyOne and update call a member through a  *)
(* pointer without a look, it is not null.                                 *)
(***************************************************************************)

\* The members of a list, any or mix are smaller trees, and so is what a wrapper holds.
LEMMA SmallerChildren ==
  ASSUME NEW sort, NEW n \in Nat, NEW scope \in Scopes, NEW g \in Trees(sort)[n][scope]["any"]
  PROVE  /\ g.kind \in {"list", "any", "mix"} =>
              /\ DOMAIN g.gens = 1 .. Len(g.gens)
              /\ \A i \in DOMAIN g.gens : n # 0 /\ g.gens[i] \in Trees(sort)[n - 1][scope]["any"]
         /\ g.kind \in Wrappers => n # 0 /\ \E s \in Scopes : g.gen \in Trees(sort)[n - 1][s]["any"]
<1>1. CASE g.kind \in {"list", "any", "mix"}
  <2> DEFINE q == g.gens
  <2>1. g.kind \notin Childless
    BY <1>1 DEF Childless
  <2>2. n # 0 /\ MemberSeq(sort, n, scope, "any", q)
    BY <1>1, <2>1, TreeParts, BothSpans
  <2>3. DOMAIN q = 1 .. Len(q)
    BY <2>2 DEF MemberSeq
  <2>4. ASSUME NEW i \in DOMAIN q PROVE q[i] \in Trees(sort)[n - 1][scope]["any"]
    <3> HIDE DEF q
    <3>1. i \in 1 .. Len(q)
      BY <2>3
    <3>2. n - Len(q) \in Nat /\ n - Len(q) <= n - 1 /\ q[i] \in Trees(sort)[n - Len(q)][scope]["any"]
      BY <2>2, <3>1, MemberTree
    <3>3. n - 1 \in Nat
      BY <2>2
    <3> QED BY <3>2, <3>3, TreesMonotone, BothSpans
  <2>5. g.kind \notin Wrappers
    BY <1>1 DEF Wrappers
  <2> QED BY <2>2, <2>3, <2>4, <2>5
<1>2. CASE g.kind \in Wrappers
  <2>1. g.kind \notin {"list", "any", "mix"}
    BY <1>2 DEF Wrappers
  <2> QED BY <1>2, <2>1, SmallerParts
<1> QED BY <1>1, <1>2

\* Only what its members are in matters to a node.
LEMMA SolidNodes ==
  ASSUME NEW sort, NEW n \in Nat, NEW scope \in Scopes, NEW g \in Trees(sort)[n][scope]["any"],
         NEW x, NEW y, SameTrees(sort, n, x, y)
  PROVE  SolidNode(g, x) <=> SolidNode(g, y)
<1>1. CASE g.kind \in {"list", "any", "mix"}
  <2>1. \A i \in DOMAIN g.gens : g.gens[i] \in x <=> g.gens[i] \in y
    BY <1>1, SmallerChildren DEF SameTrees
  <2>2. g.kind \notin Wrappers
    BY <1>1 DEF Wrappers
  <2> QED BY <1>1, <2>1, <2>2 DEF SolidNode
<1>2. CASE g.kind \in Wrappers
  <2>1. g.gen \in x <=> g.gen \in y
    BY <1>2, SmallerChildren DEF SameTrees
  <2>2. g.kind \notin {"list", "any", "mix"}
    BY <1>2 DEF Wrappers
  <2> QED BY <1>2, <2>1, <2>2 DEF SolidNode
<1>3. CASE g.kind \notin {"list", "any", "mix"} \cup Wrappers
  BY <1>3 DEF SolidNode
<1> QED BY <1>1, <1>2, <1>3

\* The recursion knows a tree of size k as soon as it is that deep.
LEMMA SolidStable ==
  ASSUME NEW sort, NEW k \in Nat, k <= Size, NEW scope \in Scopes, NEW g \in Trees(sort)[k][scope]["any"],
         NEW j \in Nat, k <= j
  PROVE  g \in SolidTo[j] <=> g \in SolidTo[k]
<1> DEFINE P == {n \in Nat : n <= Size => \A sc \in Scopes, m \in Nat : n <= m =>
                               \A h \in Trees(sort)[n][sc]["any"] :
                                 h \in SolidTo[m] <=> h \in SolidTo[n]}
<1>1. ASSUME NEW n \in Nat, \A m \in 0 .. (n - 1) : m \in P PROVE n \in P
  <2> SUFFICES ASSUME n <= Size, NEW sc \in Scopes, NEW m \in Nat, n <= m,
                      NEW h \in Trees(sort)[n][sc]["any"]
               PROVE  h \in SolidTo[m] <=> h \in SolidTo[n]
    OBVIOUS
  <2> DEFINE x == IF n = 0 THEN {} ELSE SolidTo[n - 1]
             y == IF m = 0 THEN {} ELSE SolidTo[m - 1]
  <2>1. SolidTo[n] = SolidOver(x) /\ SolidTo[m] = SolidOver(y)
    BY SolidValue
  <2>2. h \in Generators
    BY TreeIsGenerator, BothSpans
  <2>3. ASSUME n # 0, NEW s \in Scopes, NEW f \in Trees(sort)[n - 1][s]["any"]
        PROVE  f \in y <=> f \in x
    <3>1. n - 1 \in 0 .. (n - 1) /\ n - 1 \in Nat /\ m # 0 /\ m - 1 \in Nat /\ n - 1 <= m - 1 /\ n - 1 <= Size
      BY <2>3, SizeAssumption
    <3>2. f \in SolidTo[m - 1] <=> f \in SolidTo[n - 1]
      BY <1>1, <2>3, <3>1
    <3> QED BY <2>3, <3>1, <3>2
  <2> HIDE DEF x, y
  <2>4. SolidNode(h, y) <=> SolidNode(h, x)
    <3>1. SameTrees(sort, n, y, x)
      BY <2>3 DEF SameTrees
    <3> HIDE DEF P
    <3> QED BY <3>1, SolidNodes
  <2>5. \A z : h \in SolidOver(z) <=> SolidNode(h, z)
    BY <2>2 DEF SolidOver, SolidNode
  <2> QED BY <2>1, <2>4, <2>5
<1>2. Nat \subseteq P
  <2> HIDE DEF P
  <2> QED BY <1>1, StrongInduction
<1> QED BY <1>2

\* A solid generator, by its parts.
LEMMA SolidParts ==
  ASSUME NEW sort, NEW n \in Nat, n <= Size, NEW scope \in Scopes, NEW g \in Trees(sort)[n][scope]["any"]
  PROVE  g \in Solid <=> SolidNode(g, Solid)
<1> DEFINE x == IF n = 0 THEN {} ELSE SolidTo[n - 1]
<1>1. SolidTo[n] = SolidOver(x)
  BY SolidValue
<1>2. g \in Generators
  BY TreeIsGenerator, BothSpans
<1>3. g \in Solid <=> g \in SolidTo[n]
  BY SolidStable, SizeAssumption DEF Solid
<1>4. ASSUME n # 0, NEW s \in Scopes, NEW f \in Trees(sort)[n - 1][s]["any"]
      PROVE  f \in Solid <=> f \in x
  <2>1. n - 1 \in Nat /\ n - 1 <= Size /\ Size \in Nat
    BY <1>4, SizeAssumption
  <2>2. f \in SolidTo[Size] <=> f \in SolidTo[n - 1]
    BY <1>4, <2>1, SolidStable
  <2> QED BY <1>4, <2>2 DEF Solid
<1> HIDE DEF x
<1>5. SolidNode(g, Solid) <=> SolidNode(g, x)
  <2>1. SameTrees(sort, n, Solid, x)
    BY <1>4 DEF SameTrees
  <2> QED BY <2>1, SolidNodes
<1>6. \A z : g \in SolidOver(z) <=> SolidNode(g, z)
  BY <1>2 DEF SolidOver, SolidNode
<1> QED BY <1>1, <1>3, <1>5, <1>6

\* The kinds of nodes do not overlap.
LEMMA SolidKinds ==
  ASSUME NEW g, NEW solid
  PROVE  /\ g.kind \in {"op", "fun"} => SolidNode(g, solid)
         /\ g.kind = "list" => (SolidNode(g, solid) <=> g.gens # <<>> /\ \A i \in DOMAIN g.gens : g.gens[i] \in {Null} \cup solid)
         /\ g.kind \in {"mix", "any"} => (SolidNode(g, solid) <=> \A i \in DOMAIN g.gens : g.gens[i] \in solid)
         /\ g.kind \in Wrappers => (SolidNode(g, solid) <=> g.gen \in solid)
         /\ g.kind = "null" => ~SolidNode(g, solid)
BY DEF SolidNode, Wrappers

\* The null pointer is not solid.
LEMMA NullNotSolid == Null \notin Solid
<1>1. Null \in Trees(Sound)[Size]["all"]["any"] /\ "all" \in Scopes /\ Size \in Nat /\ Size <= Size
  BY NullTree, SizeAssumption DEF Scopes
<1>2. Null.kind = "null"
  BY DEF Null
<1> QED BY <1>1, <1>2, SolidParts, SolidKinds

\* What a harmless generator is made of.
LEMMA HarmlessParts ==
  ASSUME NEW sort, NEW n \in Nat, n <= Size, NEW scope \in Scopes,
         NEW g \in Trees(sort)[n][scope]["any"], g \in Harmless
  PROVE  /\ g.kind = "null" => g = Null
         /\ g.kind = "list" => g.gens # <<>> /\ \A i \in DOMAIN g.gens : g.gens[i] \in Harmless
         /\ g.kind \in {"mix", "any"} => \A i \in DOMAIN g.gens : g.gens[i] \in Solid
         /\ g.kind \in Wrappers => g.gen \in Solid
<1>1. CASE g = Null
  <2>1. g.kind = "null" /\ g.kind \notin Wrappers
    BY <1>1 DEF Null, Wrappers
  <2> QED BY <1>1, <2>1
<1>2. CASE g \in Solid
  <2>1. SolidNode(g, Solid)
    BY <1>2, SolidParts
  <2> QED BY <2>1, SolidKinds DEF Harmless
<1> QED BY <1>1, <1>2 DEF Harmless

\* copyOne does not meet a null pointer.
LEMMA HarmlessCopies ==
  ASSUME NEW sort, NEW k \in Nat, k <= Size, NEW scope \in Scopes, NEW g \in Trees(sort)[k][scope]["any"],
         g \in Harmless, NEW j \in Nat
  PROVE  g \notin CannotCopyTo[j]
<1> DEFINE P == {n \in Nat : n <= Size => \A sc \in Scopes, m \in Nat :
                               \A h \in Trees(sort)[n][sc]["any"] :
                                 h \in Harmless => h \notin CannotCopyTo[m]}
<1>1. ASSUME NEW n \in Nat, \A m \in 0 .. (n - 1) : m \in P PROVE n \in P
  <2> SUFFICES ASSUME n <= Size, NEW sc \in Scopes, NEW m \in Nat,
                      NEW h \in Trees(sort)[n][sc]["any"], h \in Harmless
               PROVE  h \notin CannotCopyTo[m]
    OBVIOUS
  <2> DEFINE x == IF m = 0 THEN {} ELSE CannotCopyTo[m - 1]
  <2>1. CannotCopyTo[m] = CannotCopyOver(x)
    BY CannotCopyValue
  <2>2. ASSUME n # 0, NEW s \in Scopes, NEW f \in Trees(sort)[n - 1][s]["any"], f \in Harmless
        PROVE  f \notin x
    <3>1. n - 1 \in 0 .. (n - 1) /\ n - 1 \in Nat /\ n - 1 <= Size
      BY <2>2, SizeAssumption
    <3>2. ASSUME m # 0 PROVE f \notin CannotCopyTo[m - 1]
      <4>1. m - 1 \in Nat
        BY <3>2
      <4> QED BY <1>1, <2>2, <3>1, <4>1
    <3> QED BY <3>2
  <2> HIDE DEF x
  <2>3. CASE h.kind \in {"list", "any", "mix"}
    <3>1. \A i \in DOMAIN h.gens : h.gens[i] \in Harmless
      BY <2>3, HarmlessParts DEF Harmless
    <3>2. \A i \in DOMAIN h.gens : h.gens[i] \notin x
      BY <2>2, <2>3, <3>1, SmallerChildren
    <3>3. h.kind \in {"mix", "any"} => \A i \in DOMAIN h.gens : h.gens[i] # Null
      BY HarmlessParts, NullNotSolid
    <3>4. h.kind \notin Wrappers
      BY <2>3 DEF Wrappers
    <3> QED BY <2>1, <3>2, <3>3, <3>4 DEF CannotCopyOver
  <2>4. CASE h.kind \in Wrappers
    <3>1. h.gen \notin x
      BY <2>2, <2>4, HarmlessParts, SmallerChildren DEF Harmless
    <3>2. h.kind \notin {"list", "mix", "any"}
      BY <2>4 DEF Wrappers
    <3> QED BY <2>1, <3>1, <3>2 DEF CannotCopyOver
  <2>5. CASE h.kind \notin {"list", "any", "mix"} \cup Wrappers
    BY <2>1, <2>5 DEF CannotCopyOver
  <2> QED BY <2>3, <2>4, <2>5
<1>2. Nat \subseteq P
  <2> HIDE DEF P
  <2> QED BY <1>1, StrongInduction
<1> QED BY <1>2

\* Nor does copyOne of a mix or an any, whose members are solid.
LEMMA HarmlessCopy ==
  ASSUME NEW sort, NEW k \in Nat, k <= Size, NEW scope \in Scopes, NEW g \in Trees(sort)[k][scope]["any"],
         g \in Harmless
  PROVE  ~CopyCrashes(g) /\ (g \in Solid => ~MemberCrashes(g))
<1>1. ~CopyCrashes(g)
  BY HarmlessCopies, SizeAssumption DEF CopyCrashes
<1> QED BY <1>1, NullNotSolid DEF MemberCrashes

\* The copy of a solid generator, by the copies of its parts.
LEMMA SolidCopyNode ==
  ASSUME NEW sort, IsSort(sort), NEW n \in Nat, n <= Size, NEW copy, Keeps(copy, sort, n), NEW scope \in Scopes,
         NEW g \in Trees(sort)[n][scope]["any"], g \in Solid,
         n # 0 => \A s \in Scopes : \A h \in Trees(sort)[n - 1][s]["any"] :
                    /\ h \in Harmless => copy[h] \in Harmless
                    /\ h \in Solid => copy[h] \in Solid
  PROVE  CopyOver(copy)[g] \in Solid
<1> DEFINE c == CopyOver(copy)[g]
<1> SUFFICES c \in Solid
  OBVIOUS
<1>1. c \in Trees(sort)[n][scope]["any"]
  BY CopyStep, BothSpans
<1>2. g \in Generators /\ g \in Harmless
  BY TreeIsGenerator, BothSpans DEF Harmless
<1>3. SolidNode(c, Solid) => c \in Solid
  BY <1>1, SolidParts
<1>4. CASE g.kind \in {"op", "fun"}
  BY <1>2, <1>4 DEF CopyOver
<1>5. CASE g.kind = "list"
  <2>1. \A i \in DOMAIN g.gens : copy[g.gens[i]] \in Harmless
    BY <1>2, <1>5, HarmlessParts, SmallerChildren
  <2>2. c = List(Mapped(copy, g.gens))
    BY <1>2, <1>5 DEF CopyOver, CopyList, Mapped
  <2>3. c.kind = "list" /\ c.gens = Mapped(copy, g.gens)
    BY <2>2 DEF List
  <2>4. g.gens # <<>>
    BY <1>2, <1>5, HarmlessParts
  <2>5. DOMAIN g.gens = 1 .. Len(g.gens) /\ g.gens \in Seq(NestedTo[n - 1])
    BY <1>5, SmallerChildren, TreeElim, BothSpans DEF WellFormed
  <2>6. Mapped(copy, g.gens) # <<>>
    BY <2>4, <2>5 DEF Mapped
  <2>7. \A i \in DOMAIN c.gens : c.gens[i] \in Harmless
    BY <2>1, <2>3 DEF Mapped
  <2> HIDE DEF c
  <2> QED BY <1>3, <2>3, <2>6, <2>7, SolidKinds DEF Harmless
<1>6. CASE g.kind = "any"
  <2>1. \A i \in DOMAIN g.gens : copy[g.gens[i]] \in Solid
    BY <1>2, <1>6, HarmlessParts, SmallerChildren
  <2>2. c = Any(Mapped(copy, g.gens))
    BY <1>2, <1>6 DEF CopyOver, CopyAny, Mapped
  <2>3. c.kind = "any" /\ c.gens = Mapped(copy, g.gens)
    BY <2>2 DEF Any
  <2>4. \A i \in DOMAIN c.gens : c.gens[i] \in Solid
    BY <2>1, <2>3 DEF Mapped
  <2> HIDE DEF c
  <2> QED BY <1>3, <2>3, <2>4, SolidKinds
<1>7. CASE g.kind = "mix"
  <2>1. c = Mix(g.idx, g.gens)
    BY <1>2, <1>7 DEF CopyOver, CopyMix
  <2>2. c.kind = "mix" /\ c.gens = g.gens
    BY <2>1 DEF Mix
  <2>3. \A i \in DOMAIN g.gens : g.gens[i] \in Solid
    BY <1>2, <1>7, HarmlessParts
  <2> HIDE DEF c
  <2> QED BY <1>3, <2>2, <2>3, SolidKinds
<1>8. CASE g.kind \in Wrappers
  <2>1. g.gen \in Solid /\ copy[g.gen] \in Solid /\ g.gen # Null
    BY <1>2, <1>8, HarmlessParts, SmallerChildren, NullNotSolid
  <2>2. c.kind \in Wrappers /\ c.gen = copy[g.gen]
    BY <1>2, <1>8, <2>1
       DEF CopyOver, CopyValidate, CopyOnThreads, CopyTimeLimit, CopyStagger, Validate, OnThreads, TimeLimit,
           StaggerFrom, Stagger, Wrappers
  <2> HIDE DEF c
  <2> QED BY <1>3, <2>1, <2>2, SolidKinds
<1>9. g.kind \in Kinds /\ g.kind # "null"
  <2>1. g.kind \in Kinds
    BY TreeElim, BothSpans DEF WellFormed
  <2>2. SolidNode(g, Solid)
    BY SolidParts
  <2> QED BY <2>1, <2>2, SolidKinds
<1> QED BY <1>4, <1>5, <1>6, <1>7, <1>8, <1>9 DEF Kinds, Wrappers

\* The copy of the null pointer is the null pointer.
LEMMA NullCopies == \A j \in Nat : CopyAt[j][Null] = Null
<1>1. Null.kind = "null"
  BY DEF Null
<1>2. Null \in Generators
  <2>1. Null \in Trees(Sound)[Size]["all"]["any"] /\ "all" \in Scopes /\ Size \in Nat /\ Size <= Size
    BY NullTree, SizeAssumption DEF Scopes
  <2> QED BY <2>1, TreeIsGenerator, BothSpans
<1>3. ASSUME NEW copy PROVE CopyOver(copy)[Null] = Null
  BY <1>1, <1>2 DEF CopyOver
<1> QED BY <1>3, CopyValue

\* Copies of solid generators are solid.
LEMMA SolidCopies ==
  ASSUME NEW sort, IsSort(sort), NEW k \in Nat, NEW scope \in Scopes, NEW g \in Trees(sort)[k][scope]["any"],
         NEW j \in Nat, k <= j, j <= Size, g \in Solid
  PROVE  CopyAt[j][g] \in Solid
<1> DEFINE P == {n \in Nat : \A sc \in Scopes, m \in Nat : n <= m /\ m <= Size =>
                     \A h \in Trees(sort)[n][sc]["any"] : h \in Solid => CopyAt[m][h] \in Solid}
<1>1. ASSUME NEW n \in Nat, \A m \in 0 .. (n - 1) : m \in P PROVE n \in P
  <2> SUFFICES ASSUME NEW sc \in Scopes, NEW m \in Nat, n <= m, m <= Size,
                      NEW h \in Trees(sort)[n][sc]["any"], h \in Solid
               PROVE  CopyAt[m][h] \in Solid
    OBVIOUS
  <2> DEFINE copy == IF m = 0 THEN <<>> ELSE CopyAt[m - 1]
  <2>1. CopyAt[m] = CopyOver(copy)
    BY CopyValue
  <2>2. n <= Size
    BY SizeAssumption
  <2>3. Keeps(copy, sort, n)
    <3>1. CASE n = 0
      BY <3>1 DEF Keeps
    <3>2. CASE n # 0
      <4>1. m # 0 /\ m - 1 \in Nat /\ m - 1 <= Size /\ \A i \in 0 .. (n - 1) : i \in 0 .. ((m - 1 + 1) - 1)
        BY <3>2, SizeAssumption
      <4>2. Keeps(CopyAt[m - 1], sort, (m - 1) + 1)
        BY <4>1, CopyKeeps
      <4> QED BY <4>1, <4>2 DEF Keeps
    <3> QED BY <3>1, <3>2
  <2>4. ASSUME n # 0, NEW s \in Scopes, NEW f \in Trees(sort)[n - 1][s]["any"]
        PROVE  /\ f \in Harmless => copy[f] \in Harmless
               /\ f \in Solid => copy[f] \in Solid
    <3>1. n - 1 \in 0 .. (n - 1) /\ m # 0 /\ m - 1 \in Nat /\ n - 1 <= m - 1 /\ m - 1 <= Size
      BY <2>4, SizeAssumption
    <3>2. f \in Solid => CopyAt[m - 1][f] \in Solid
      BY <1>1, <2>4, <3>1
    <3>3. CopyAt[m - 1][Null] = Null
      BY <3>1, NullCopies
    <3> QED BY <3>1, <3>2, <3>3 DEF Harmless
  <2> HIDE DEF copy
  <2>5. n # 0 => \A s \in Scopes : \A f \in Trees(sort)[n - 1][s]["any"] :
                   /\ f \in Harmless => copy[f] \in Harmless
                   /\ f \in Solid => copy[f] \in Solid
    BY <2>4
  <2>6. CopyOver(copy)[h] \in Solid
    BY <2>2, <2>3, <2>5, SolidCopyNode
  <2> QED BY <2>1, <2>6
<1>2. Nat \subseteq P
  <2> HIDE DEF P
  <2> QED BY <1>1, StrongInduction
<1> QED BY <1>2

\* CopyOne, the copy at the top, keeps solid generators and the null pointer.
LEMMA SolidCopy ==
  ASSUME NEW sort, IsSort(sort), NEW k \in Nat, k <= Size, NEW scope \in Scopes,
         NEW g \in Trees(sort)[k][scope]["any"]
  PROVE  (g \in Solid => CopyOne(g) \in Solid) /\ CopyOne(Null) = Null
BY SolidCopies, NullCopies, SizeAssumption DEF CopyOne

\* The elements of the copy of a solid list.
LEMMA CopyOfElements ==
  ASSUME NEW sort, IsSort(sort), NEW n \in Nat, n <= Size, NEW scope \in Scopes,
         NEW q, List(q) \in Trees(sort)[n][scope]["any"], List(q) \in Solid,
         NEW c, CopyOne(List(q)) = List(c)
  PROVE  c # <<>> /\ \A i \in DOMAIN c : c[i] \in Harmless
<1> DEFINE g == List(c)
<1>1. g.kind = "list" /\ g.gens = c
  BY DEF List
<1>2. g \in Trees(sort)[n][scope]["any"] /\ g \in Solid
  BY CopyOneKeeps, SolidCopy, BothSpans
<1> HIDE DEF g
<1> QED BY <1>1, <1>2, HarmlessParts DEF Harmless

\* The members of the copy of a solid any.
LEMMA CopyOfMembers ==
  ASSUME NEW sort, IsSort(sort), NEW n \in Nat, n <= Size, NEW scope \in Scopes,
         NEW q, Any(q) \in Trees(sort)[n][scope]["any"], Any(q) \in Solid,
         NEW c, CopyOne(Any(q)) = Any(c)
  PROVE  \A i \in DOMAIN c : c[i] \in Solid
<1> DEFINE g == Any(c)
<1>1. g.kind = "any" /\ g.gens = c
  BY DEF Any
<1>2. g \in Trees(sort)[n][scope]["any"] /\ g \in Solid
  BY CopyOneKeeps, SolidCopy, BothSpans
<1> HIDE DEF g
<1> QED BY <1>1, <1>2, HarmlessParts DEF Harmless

\* update keeps a solid generator if it keeps the smaller ones.
LEMMA SolidStep ==
  ASSUME NEW sort, IsSort(sort), NEW n \in Nat, n <= Size, NEW update,
         UpdateKeeps(update, sort, n), KeepsSolid(update, sort, n),
         NEW scope \in Scopes, NEW ctx \in Contexts, NEW p \in Processes,
         NEW g \in Trees(sort)[n][scope]["any"], g \in Solid
  PROVE  UpdateOver(update)[g][ctx][p] \in Solid
<1> DEFINE h == UpdateNode(update, g, ctx, p)
<1>1. UpdateOver(update)[g][ctx][p] = h
  BY TreeIsGenerator, BothSpans DEF UpdateOver
<1>2. h \in Trees(sort)[n][scope]["any"]
  BY <1>1, BothSpans, UpdateStep
<1>3. SUFFICES h \in Solid
  BY <1>1
<1>4. g.kind \in Kinds /\ g.kind # "null" /\ g \in Harmless
  <2>1. g.kind \in Kinds
    BY TreeElim, BothSpans DEF WellFormed
  <2>2. SolidNode(g, Solid)
    BY SolidParts
  <2> QED BY <2>1, <2>2, SolidKinds DEF Harmless
<1>5. SolidNode(h, Solid) => h \in Solid
  BY <1>2, SolidParts
<1>6. ASSUME n # 0, NEW sc \in Scopes, NEW f \in Trees(sort)[n - 1][sc]["any"], NEW c \in Contexts
      PROVE  /\ f \in Solid => update[f][c][p] \in Solid
             /\ f \in Harmless => update[f][c][p] \in Harmless
  <2>1. n - 1 \in 0 .. (n - 1)
    BY <1>6
  <2> QED BY <1>6, <2>1 DEF KeepsSolid
<1>7. CASE g.kind \in {"op", "fun"}
  <2>1. h = CopyOne(g)
    BY <1>7 DEF UpdateNode
  <2> QED BY <2>1, SolidCopy
<1>8. CASE g.kind \in {"validate", "timeLimit", "stagger"}
  <2>1. g.gen \in Solid /\ update[g.gen][ctx][p] \in Solid
    <3>1. g.kind \in Wrappers
      BY <1>8 DEF Wrappers
    <3> QED BY <1>4, <1>6, <3>1, HarmlessParts, SmallerChildren
  <2>2. h.kind \in Wrappers /\ h.gen = update[g.gen][ctx][p]
    BY <1>8 DEF UpdateNode, UpdateValidate, UpdateTimeLimit, UpdateStagger, Validate, TimeLimit,
                StaggerFrom, Stagger, Wrappers
  <2> HIDE DEF h
  <2> QED BY <1>5, <2>1, <2>2, SolidKinds
<1>9. CASE g.kind = "onThreads"
  <2>1. g.kind \in Wrappers /\ g.gen \in Solid
    BY <1>4, <1>9, HarmlessParts DEF Wrappers
  <2>2. g.filter \in Filters
    BY <1>9, TreeElim, BothSpans DEF WellFormed
  <2>3. OnThreadsContext(g.filter, ctx) \in Contexts
    BY <2>2, RestrictedContext
  <2>4. update[g.gen][OnThreadsContext(g.filter, ctx)][p] \in Solid
    BY <1>6, <2>1, <2>3, SmallerChildren
  <2>5. \/ h = g
        \/ h.kind \in Wrappers /\ h.gen = update[g.gen][OnThreadsContext(g.filter, ctx)][p]
    BY <1>9 DEF UpdateNode, UpdateOnThreads, OnThreads, Wrappers
  <2> HIDE DEF h
  <2> QED BY <1>5, <2>4, <2>5, SolidKinds
<1>10. CASE g.kind = "mix"
  <2>1. h = Mix(g.idx, g.gens)
    BY <1>10 DEF UpdateNode, UpdateMix
  <2>2. g = Mix(g.idx, g.gens)
    BY <1>10, TreeElim, BothSpans DEF WellFormed
  <2> QED BY <2>1, <2>2
<1>11. CASE g.kind = "any"
  <2>1. \A i \in DOMAIN g.gens : update[g.gens[i]][ctx][p] \in Solid
    BY <1>4, <1>6, <1>11, HarmlessParts, SmallerChildren
  <2>2. h.kind = "any" /\ h.gens = [i \in DOMAIN g.gens |-> update[g.gens[i]][ctx][p]]
    BY <1>11 DEF UpdateNode, UpdateAny, Any
  <2> HIDE DEF h
  <2>3. \A i \in DOMAIN h.gens : h.gens[i] \in Solid
    BY <2>1, <2>2
  <2> QED BY <1>5, <2>2, <2>3, SolidKinds
<1>12. CASE g.kind = "list"
  <2> DEFINE q == g.gens
             x == update[q[1]][ctx][p]
  <2>1. q # <<>> /\ q \in Seq(NestedTo[n - 1]) /\ g = List(q) /\ \A i \in DOMAIN q : q[i] \in Harmless
    BY <1>4, <1>12, HarmlessParts, TreeElim, BothSpans DEF WellFormed
  <2>2. 1 \in DOMAIN q
    <3> HIDE DEF q
    <3> QED BY <2>1
  <2>3. x \in Harmless
    <3>1. n # 0 /\ q[1] \in Trees(sort)[n - 1][scope]["any"]
      BY <1>12, <2>2, SmallerChildren
    <3>2. q[1] \in Harmless
      BY <2>1, <2>2
    <3> HIDE DEF q
    <3> QED BY <1>6, <3>1, <3>2
  <2>4. n # 0 /\ MemberSeq(sort, n, scope, "any", q)
    <3>1. g.kind \notin Childless
      BY <1>12 DEF Childless
    <3> QED BY <1>12, <3>1, TreeParts, BothSpans
  <2>5. h = [CopyOne(g) EXCEPT !.gens[1] = x]
    BY <1>12, <2>1 DEF UpdateNode, UpdateList
  <2> HIDE DEF x, h, q
  <2>6. PICK c : CopyOne(List(q)) = List(c) /\ MemberSeq(sort, n, scope, "any", c)
    BY <2>4, CopyOfList, BothSpans
  <2>7. c # <<>> /\ \A i \in DOMAIN c : c[i] \in Harmless
    BY <2>1, <2>6, CopyOfElements
  <2>8. 1 \in DOMAIN c
    BY <2>6, <2>7 DEF MemberSeq
  <2>9. [List(c) EXCEPT !.gens[1] = x] = List([c EXCEPT ![1] = x])
    BY DEF List
  <2>10. h.kind = "list" /\ h.gens = [c EXCEPT ![1] = x]
    BY <2>1, <2>5, <2>6, <2>9 DEF List
  <2>11. \A i \in DOMAIN h.gens : h.gens[i] \in Harmless
    BY <2>3, <2>7, <2>10
  <2>12. h.gens # <<>>
    BY <2>8, <2>10
  <2> QED BY <1>5, <2>10, <2>11, <2>12, SolidKinds DEF Harmless
<1> QED BY <1>4, <1>7, <1>8, <1>9, <1>10, <1>11, <1>12 DEF Kinds

\* update leaves the null pointer alone.
LEMMA NullUpdates == \A update : \A ctx \in Contexts, p \in Processes : UpdateOver(update)[Null][ctx][p] = Null
<1>1. Null.kind = "null"
  BY DEF Null
<1>2. Null \in Trees(Sound)[Size]["all"]["any"] /\ "all" \in Scopes /\ Size \in Nat /\ Size <= Size
  BY NullTree, SizeAssumption DEF Scopes
<1>3. Null \in Generators /\ CopyOne(Null) = Null
  BY <1>2, TreeIsGenerator, BothSpans, NullCopies DEF CopyOne
<1> QED BY <1>1, <1>3 DEF UpdateOver, UpdateNode

\* So update keeps solid generators of every size.
LEMMA UpdatesKeepSolid ==
  ASSUME NEW sort, IsSort(sort)
  PROVE  \A k \in 0 .. Size : KeepsSolid(UpdateAt[k], sort, k + 1)
<1> DEFINE P == {k \in Nat : k <= Size => KeepsSolid(UpdateAt[k], sort, k + 1)}
<1>1. ASSUME NEW k \in Nat, k <= Size, NEW update,
             \A j \in 0 .. k : UpdateKeeps(update, sort, j) /\ KeepsSolid(update, sort, j)
      PROVE  KeepsSolid(UpdateOver(update), sort, k + 1)
  <2> SUFFICES ASSUME NEW j \in 0 .. ((k + 1) - 1), NEW scope \in Scopes, NEW ctx \in Contexts, NEW p \in Processes,
                      NEW g \in Trees(sort)[j][scope]["any"]
               PROVE  /\ g \in Solid => UpdateOver(update)[g][ctx][p] \in Solid
                      /\ g \in Harmless => UpdateOver(update)[g][ctx][p] \in Harmless
    BY DEF KeepsSolid
  <2>1. j \in 0 .. k /\ j \in Nat /\ j <= Size
    BY <1>1, SizeAssumption
  <2>2. g \in Solid => UpdateOver(update)[g][ctx][p] \in Solid
    BY <1>1, <2>1, SolidStep
  <2>3. UpdateOver(update)[Null][ctx][p] = Null
    BY NullUpdates
  <2> QED BY <2>2, <2>3 DEF Harmless
<1>2. 0 \in P
  <2>1. UpdateAt[0] = UpdateOver(<<>>)
    BY UpdateValue
  <2>2. \A j \in 0 .. 0 : UpdateKeeps(<<>>, sort, j) /\ KeepsSolid(<<>>, sort, j)
    BY DEF UpdateKeeps, KeepsSolid
  <2>3. 0 <= Size
    BY SizeAssumption
  <2> QED BY <1>1, <2>1, <2>2, <2>3
<1>3. ASSUME NEW k \in Nat, k \in P PROVE k + 1 \in P
  <2> SUFFICES ASSUME k + 1 <= Size PROVE KeepsSolid(UpdateAt[k + 1], sort, (k + 1) + 1)
    OBVIOUS
  <2>1. UpdateAt[k + 1] = UpdateOver(UpdateAt[k])
    <3>1. k + 1 \in Nat /\ k + 1 # 0 /\ (k + 1) - 1 = k
      OBVIOUS
    <3> QED BY <3>1, UpdateValue
  <2>2. UpdateKeeps(UpdateAt[k], sort, k + 1) /\ KeepsSolid(UpdateAt[k], sort, k + 1)
    <3>1. k <= Size /\ k \in 0 .. Size
      BY SizeAssumption
    <3>2. UpdateKeeps(UpdateAt[k], sort, k + 1)
      BY <3>1, UpdatesKeep
    <3> QED BY <1>3, <3>1, <3>2
  <2>3. ASSUME NEW j \in 0 .. (k + 1) PROVE UpdateKeeps(UpdateAt[k], sort, j) /\ KeepsSolid(UpdateAt[k], sort, j)
    <3>1. \A i \in 0 .. (j - 1) : i \in 0 .. ((k + 1) - 1)
      OBVIOUS
    <3>2. UpdateKeeps(UpdateAt[k], sort, j)
      BY <2>2, <3>1 DEF UpdateKeeps
    <3>3. KeepsSolid(UpdateAt[k], sort, j)
      BY <2>2, <3>1 DEF KeepsSolid
    <3> QED BY <3>2, <3>3
  <2>4. k + 1 \in Nat
    OBVIOUS
  <2> HIDE DEF P
  <2>5. KeepsSolid(UpdateOver(UpdateAt[k]), sort, (k + 1) + 1)
    BY <1>1, <2>3, <2>4
  <2> QED BY <2>1, <2>5
<1>4. Nat \subseteq P
  <2> HIDE DEF P
  <2> QED BY <1>2, <1>3, Induction
<1> QED BY <1>4, SizeAssumption

\* update does not meet a null pointer where it goes on without a look.
LEMMA HarmlessUpdates ==
  ASSUME NEW sort, IsSort(sort), NEW k \in Nat, NEW scope \in Scopes, NEW g \in Trees(sort)[k][scope]["any"],
         g \in Harmless, NEW j \in Nat, k <= j, j <= Size, NEW ctx \in Contexts, NEW p \in Processes
  PROVE  g \notin CannotUpdateTo[j][ctx][p]
<1> DEFINE P == {n \in Nat : \A sc \in Scopes, m \in Nat, c \in Contexts : n <= m /\ m <= Size =>
                               \A h \in Trees(sort)[n][sc]["any"] :
                                 h \in Harmless => h \notin CannotUpdateTo[m][c][p]}
<1>1. ASSUME NEW n \in Nat, \A m \in 0 .. (n - 1) : m \in P PROVE n \in P
  <2> SUFFICES ASSUME NEW sc \in Scopes, NEW m \in Nat, NEW c \in Contexts, n <= m, m <= Size,
                      NEW h \in Trees(sort)[n][sc]["any"], h \in Harmless
               PROVE  h \notin CannotUpdateTo[m][c][p]
    OBVIOUS
  <2> DEFINE x == IF m = 0 THEN <<>> ELSE CannotUpdateTo[m - 1]
  <2>1. CannotUpdateTo[m] = CannotUpdateOver(x)
    BY CannotUpdateValue
  <2>2. n <= Size
    BY SizeAssumption
  <2>3. ASSUME n # 0, NEW s \in Scopes, NEW f \in Trees(sort)[n - 1][s]["any"], f \in Harmless, NEW d \in Contexts
        PROVE  f \notin x[d][p]
    <3>1. n - 1 \in 0 .. (n - 1) /\ m # 0 /\ m - 1 \in Nat /\ n - 1 <= m - 1 /\ m - 1 <= Size
      BY <2>3, SizeAssumption
    <3>2. f \notin CannotUpdateTo[m - 1][d][p]
      BY <1>1, <2>3, <3>1
    <3> QED BY <3>1, <3>2
  <2> HIDE DEF x
  <2>4. h \in CannotUpdateOver(x)[c][p] =>
          \/ /\ h.kind = "list" /\ h.gens # <<>>
             /\ CopyCrashes(h) \/ h.gens[1] \in x[c][p]
          \/ h.kind \in Wrappers \ {"onThreads"} /\ h.gen \in x[c][p]
          \/ /\ h.kind = "onThreads"
             /\ h.gen \in x[OnThreadsContext(h.filter, c)][p]
          \/ h.kind = "any" /\ \E i \in DOMAIN h.gens : h.gens[i] \in x[c][p]
    BY DEF CannotUpdateOver
  <2>5. ~CopyCrashes(h)
    BY <2>2, HarmlessCopy
  <2>6. CASE h.kind \in {"list", "any"}
    <3>1. \A i \in DOMAIN h.gens : h.gens[i] \in Harmless
      BY <2>2, <2>6, HarmlessParts DEF Harmless
    <3>2. \A i \in DOMAIN h.gens : h.gens[i] \notin x[c][p]
      BY <2>3, <2>6, <3>1, SmallerChildren
    <3>3. h.kind = "list" /\ h.gens # <<>> => 1 \in DOMAIN h.gens
      <4>1. h.kind = "list" => h.gens \in Seq(NestedTo[n - 1])
        BY TreeElim, BothSpans DEF WellFormed
      <4> QED BY <4>1
    <3>4. h.kind \notin Wrappers /\ h.kind # "onThreads"
      BY <2>6 DEF Wrappers
    <3> QED BY <2>1, <2>4, <2>5, <3>2, <3>3, <3>4
  <2>7. CASE h.kind \in Wrappers
    <3>1. h.gen \in Harmless
      BY <2>2, <2>7, HarmlessParts DEF Harmless
    <3>2. h.gen \notin x[c][p]
      BY <2>3, <2>7, <3>1, SmallerChildren
    <3>3. h.kind = "onThreads" => h.gen \notin x[OnThreadsContext(h.filter, c)][p]
      <4>1. h.kind = "onThreads" => h.filter \in Filters
        BY TreeElim, BothSpans DEF WellFormed
      <4> QED BY <2>3, <2>7, <3>1, <4>1, RestrictedContext, SmallerChildren
    <3>4. h.kind \notin {"list", "any"}
      BY <2>7 DEF Wrappers
    <3> QED BY <2>1, <2>4, <3>2, <3>3, <3>4
  <2>8. CASE h.kind \notin {"list", "any"} \cup Wrappers
    <3>1. h.kind # "onThreads"
      BY <2>8 DEF Wrappers
    <3> QED BY <2>1, <2>4, <2>8, <3>1
  <2> QED BY <2>6, <2>7, <2>8
<1>2. Nat \subseteq P
  <2> HIDE DEF P
  <2> QED BY <1>1, StrongInduction
<1> QED BY <1>2

\* An event does no harm.
LEMMA HarmlessUpdate ==
  ASSUME NEW sort, IsSort(sort), NEW g \in PlansOf(sort), g \in Harmless, NEW ctx \in Contexts, NEW p \in Processes
  PROVE  ~UpdateCrashes(g, ctx, p) /\ Update(g, ctx, p) \in Harmless
<1>1. "all" \in Scopes /\ Size \in Nat /\ Size <= Size /\ Size \in 0 .. Size /\ Size \in 0 .. ((Size + 1) - 1)
  BY SizeAssumption DEF Scopes
<1>2. g \in Trees(sort)[Size]["all"]["any"]
  BY DEF PlansOf
<1>3. ~UpdateCrashes(g, ctx, p)
  BY <1>1, <1>2, HarmlessUpdates DEF UpdateCrashes
<1>4. KeepsSolid(UpdateAt[Size], sort, Size + 1)
  BY <1>1, UpdatesKeepSolid
<1>5. UpdateAt[Size][g][ctx][p] \in Harmless
  BY <1>1, <1>2, <1>4 DEF KeepsSolid
<1> QED BY <1>3, <1>5 DEF Update

-----------------------------------------------------------------------------
(***************************************************************************)
(* What op answers for a solid generator: neither a null pointer, nor an   *)
(* empty mix, nor a dt of zero ends the program.                           *)
(***************************************************************************)

\* What that says of one answer.
LEMMA CalmAt ==
  ASSUME NEW ask, NEW sort, NEW n \in Nat, StaysCalm(ask, sort, n), NEW k \in 0 .. (n - 1),
         NEW scope \in Scopes, NEW ctx, ContextFor(sort, scope, ctx),
         NEW g \in Trees(sort)[k][scope]["any"], g \in Harmless, NEW a \in ask[g][ctx]
  PROVE  Calm(g, a)
BY DEF StaysCalm

\* Trees made of solid parts are solid.
LEMMA MadeSolid ==
  ASSUME NEW sort, NEW n \in Nat, n <= Size, NEW scope \in Scopes,
         NEW g \in Trees(sort)[n][scope]["any"]
  PROVE  /\ \A x : g = List(x) /\ x # <<>> /\ (\A i \in DOMAIN x : x[i] \in Harmless) => g \in Solid
         /\ \A x : g = Any(x) /\ (\A i \in DOMAIN x : x[i] \in Solid) => g \in Solid
         /\ \A j, x : g = Mix(j, x) /\ (\A i \in DOMAIN x : x[i] \in Solid) => g \in Solid
         /\ g.kind \in Wrappers /\ g.gen \in Solid => g \in Solid
<1>1. g \in Solid <=> SolidNode(g, Solid)
  BY SolidParts
<1>2. ASSUME NEW x, g = List(x), x # <<>>, \A i \in DOMAIN x : x[i] \in Harmless PROVE g \in Solid
  <2>1. g.kind = "list" /\ g.gens = x
    BY <1>2 DEF List
  <2> QED BY <1>1, <1>2, <2>1, SolidKinds DEF Harmless
<1>3. ASSUME NEW x, g = Any(x), \A i \in DOMAIN x : x[i] \in Solid PROVE g \in Solid
  <2>1. g.kind = "any" /\ g.gens = x
    BY <1>3 DEF Any
  <2> QED BY <1>1, <1>3, <2>1, SolidKinds
<1>4. ASSUME NEW j, NEW x, g = Mix(j, x), \A i \in DOMAIN x : x[i] \in Solid PROVE g \in Solid
  <2>1. g.kind = "mix" /\ g.gens = x
    BY <1>4 DEF Mix
  <2> QED BY <1>1, <1>4, <2>1, SolidKinds
<1> QED BY <1>1, <1>2, <1>3, <1>4, SolidKinds

\* An answer that a wrapper made of a calm one.
LEMMA WrapperCalm ==
  ASSUME NEW sort, NEW n \in Nat, n <= Size, NEW scope \in Scopes, NEW ctx,
         NEW g, g \in Solid, NEW h \in Solid, NEW a, Calm(h, a),
         NEW b, Proper(sort, n, scope, "any", ctx, b), b.op.type # "crash",
         b.self.kind \in Wrappers, b.self.gen = a.self,
         \/ b.gen = Null \/ b.gen = a.gen \/ b.gen = b.self
         \/ b.gen.kind \in Wrappers /\ b.gen.gen = a.gen /\ a.gen # Null
  PROVE  Calm(g, b)
<1>1. b.self \in Trees(sort)[n][scope]["any"] /\ b.gen \in Trees(sort)[n][scope]["any"]
  BY DEF Proper
<1>2. a.self \in Solid /\ a.gen \in Harmless
  BY DEF Calm
<1>3. b.self \in Solid
  BY <1>1, <1>2, MadeSolid
<1>4. b.gen \in Harmless
  <2>1. CASE b.gen.kind \in Wrappers /\ b.gen.gen = a.gen /\ a.gen # Null
    <3>1. a.gen \in Solid
      BY <1>2, <2>1 DEF Harmless
    <3> QED BY <1>1, <2>1, <3>1, MadeSolid DEF Harmless
  <2> QED BY <1>2, <1>3, <2>1 DEF Harmless
<1> QED BY <1>3, <1>4 DEF Calm, Harmless

\* A wrapper whose Stagger does not divide by zero.
LEMMA WrappedCalm ==
  ASSUME NEW sort, IsSort(sort), 0 \notin sort.dts, NEW n \in Nat, n <= Size, NEW ask,
         Responds(ask, sort, n), StaysCalm(ask, sort, n),
         NEW scope \in Scopes, NEW ctx, ContextFor(sort, scope, ctx),
         NEW g \in Trees(sort)[n][scope]["any"], g \in Solid, g.kind \in Wrappers,
         NEW b \in OpOver(ask)[g][ctx]
  PROVE  Calm(g, b)
<1>1. b \in OpNode(ask, g, ctx)
  BY TreeIsGenerator, BothSpans DEF OpOver, ContextFor
<1>2. Proper(sort, n, scope, "any", ctx, b)
  BY OpStep, BothSpans
<1>3. g.gen \in Solid /\ g.gen \in Harmless
  BY HarmlessParts DEF Harmless
<1>4. g.kind \notin Childless
  BY DEF Wrappers, Childless
<1>5. n # 0 /\ n - 1 \in 0 .. (n - 1)
  BY <1>4, TreeParts, BothSpans
<1>6. CASE g.kind = "validate"
  <2>1. PICK a \in ask[g.gen][ctx] :
          b = Unless(a, Answer(a.op, IF NotNil(a) THEN Validate(a.gen) ELSE a.gen, Validate(a.self)))
    BY <1>1, <1>6 DEF OpNode, OpValidate
  <2>2. g.gen \in Trees(sort)[n - 1][scope]["any"]
    BY <1>4, <1>6, TreeParts, BothSpans
  <2>3. Calm(g.gen, a)
    BY <1>3, <1>5, <2>2, CalmAt
  <2>4. /\ b.op.type # "crash" /\ b.self.kind \in Wrappers /\ b.self.gen = a.self
        /\ \/ b.gen = a.gen
           \/ b.gen.kind \in Wrappers /\ b.gen.gen = a.gen /\ a.gen # Null
    BY <2>1, <2>3 DEF Calm, Unless, Answer, Validate, Wrappers, NotNil
  <2> QED BY <1>2, <1>3, <2>3, <2>4, WrapperCalm
<1>7. CASE g.kind = "onThreads"
  <2> DEFINE c == OnThreadsContext(g.filter, ctx)
  <2>1. PICK a \in ask[g.gen][c] :
          b = Unless(a, IF NotNil(a) THEN Answer(a.op, OnThreads(g.filter, a.gen), OnThreads(g.filter, a.self))
                        ELSE Nil(OnThreads(g.filter, a.self)))
    BY <1>1, <1>7 DEF OpNode, OpOnThreads
  <2>2. /\ g.filter \in Filters /\ g.filter \in Scopes /\ scope \in {"all", g.filter}
        /\ g.gen \in Trees(sort)[n - 1][g.filter]["any"]
    BY <1>4, <1>7, TreeParts, BothSpans
  <2>3. ContextFor(sort, g.filter, c)
    BY <2>2, RestrictedFor
  <2> HIDE DEF c
  <2>4. Calm(g.gen, a)
    BY <1>3, <1>5, <2>2, <2>3, CalmAt
  <2>5. /\ b.op.type # "crash" /\ b.self.kind \in Wrappers /\ b.self.gen = a.self
        /\ \/ b.gen = Null
           \/ b.gen.kind \in Wrappers /\ b.gen.gen = a.gen /\ a.gen # Null
    BY <2>1, <2>4 DEF Calm, Unless, Answer, Nil, NilOp, OnThreads, Wrappers, NotNil
  <2> QED BY <1>2, <1>3, <2>4, <2>5, WrapperCalm
<1>8. CASE g.kind = "timeLimit"
  <2>1. PICK a \in ask[g.gen][ctx] :
          b = LET cutoff == Cutoff(g, a.op.time)
                  self   == TimeLimit(g.limit, cutoff, a.self)
              IN Unless(a, IF ~NotNil(a) THEN Nil([g EXCEPT !.gen = a.self])
                           ELSE IF a.op.type = "pending"
                           THEN Answer(a.op, [g EXCEPT !.gen = a.gen], [g EXCEPT !.gen = a.self])
                           ELSE IF a.op.time < cutoff
                           THEN Answer(a.op, TimeLimit(g.limit, cutoff, a.gen), self)
                           ELSE Nil(self))
    BY <1>1, <1>8 DEF OpNode, OpTimeLimit
  <2>2. g.gen \in Trees(sort)[n - 1][scope]["any"] /\ g = TimeLimit(g.limit, g.cutoff, g.gen)
    BY <1>4, <1>8, TreeParts, BothSpans
  <2>3. Calm(g.gen, a)
    BY <1>3, <1>5, <2>2, CalmAt
  <2>4. \A x : [g EXCEPT !.gen = x] = TimeLimit(g.limit, g.cutoff, x)
    BY <2>2 DEF TimeLimit
  <2>5. \A l, c, x : TimeLimit(l, c, x).kind \in Wrappers /\ TimeLimit(l, c, x).gen = x
    BY DEF TimeLimit, Wrappers
  <2>6. \A o, x, y : Answer(o, x, y).op = o /\ Answer(o, x, y).gen = x /\ Answer(o, x, y).self = y
    BY DEF Answer
  <2>7. \A y : Nil(y).op.type # "crash" /\ Nil(y).gen = Null /\ Nil(y).self = y
    BY DEF Nil, Answer, NilOp
  <2>8. a.op.type # "crash"
    BY <2>3 DEF Calm
  <2>9. NotNil(a) => a.gen # Null
    BY DEF NotNil
  <2>10. \/ b = Nil(TimeLimit(g.limit, g.cutoff, a.self))
         \/ b = Nil(TimeLimit(g.limit, Cutoff(g, a.op.time), a.self))
         \/ NotNil(a) /\ \E c1, c2 : b = Answer(a.op, TimeLimit(g.limit, c1, a.gen), TimeLimit(g.limit, c2, a.self))
    BY <2>1, <2>4, <2>8 DEF Unless
  <2>11. /\ b.op.type # "crash" /\ b.self.kind \in Wrappers /\ b.self.gen = a.self
         /\ \/ b.gen = Null
            \/ b.gen.kind \in Wrappers /\ b.gen.gen = a.gen /\ a.gen # Null
    BY <2>5, <2>6, <2>7, <2>8, <2>9, <2>10
  <2> QED BY <1>2, <1>3, <2>3, <2>11, WrapperCalm
<1>9. CASE g.kind = "stagger"
  <2>1. PICK a \in ask[g.gen][ctx] :
          b \in LET next_time == IF g.next_time = kInvalidTime THEN ctx.time ELSE g.next_time
                    self      == Stagger(g.dt, next_time, a.self)
                    later     == IF next_time > a.op.time THEN next_time ELSE a.op.time
                    staggered == Answer([a.op EXCEPT !.time = later], StaggerFrom(g.dt, next_time, a.gen), self)
                IN IF a.op.type = "crash" THEN {a}
                   ELSE IF ~NotNil(a) THEN {Nil([g EXCEPT !.gen = a.self])}
                   ELSE IF a.op.type = "pending" THEN {Answer(a.op, self, self)}
                   ELSE IF g.dt = 0 THEN DivisionByZero(staggered)
                   ELSE {staggered}
    BY <1>1, <1>9 DEF OpNode, OpStagger
  <2>2. /\ g.gen \in Trees(sort)[n - 1][scope]["any"] /\ g = Stagger(g.dt, g.next_time, g.gen)
        /\ g.dt # 0
    BY <1>4, <1>9, TreeParts, BothSpans
  <2>3. Calm(g.gen, a)
    BY <1>3, <1>5, <2>2, CalmAt
  <2>4. \A x : [g EXCEPT !.gen = x] = Stagger(g.dt, g.next_time, x)
    BY <2>2 DEF Stagger
  <2>5. \A d, t, x : Stagger(d, t, x).kind \in Wrappers /\ Stagger(d, t, x).gen = x
    BY DEF Stagger, Wrappers
  <2>6. \A o, x, y : Answer(o, x, y).op = o /\ Answer(o, x, y).gen = x /\ Answer(o, x, y).self = y
    BY DEF Answer
  <2>7. \A y : Nil(y).op.type # "crash" /\ Nil(y).gen = Null /\ Nil(y).self = y
    BY DEF Nil, Answer, NilOp
  <2>8. a.op.type # "crash"
    BY <2>3 DEF Calm
  <2>9. NotNil(a) => a.gen # Null
    BY DEF NotNil
  <2>10. /\ a.op = [f |-> a.op.f, process |-> a.op.process, type |-> a.op.type, time |-> a.op.time]
    <3>1. Proper(sort, n - 1, scope, "any", ctx, a)
      BY <1>5, <2>1, <2>2, BothSpans, AskedAt
    <3> QED BY <3>1 DEF Proper, IsAnswer
  <2>11. \A t : [a.op EXCEPT !.time = t].type = a.op.type
    BY <2>10
  <2>12. \/ b = Nil(Stagger(g.dt, g.next_time, a.self))
         \/ \E t : b = Answer(a.op, Stagger(g.dt, t, a.self), Stagger(g.dt, t, a.self))
         \/ NotNil(a) /\ \E t, u, v : b = Answer([a.op EXCEPT !.time = t], Stagger(g.dt, u, a.gen), Stagger(g.dt, v, a.self))
    <3> DEFINE next_time == IF g.next_time = kInvalidTime THEN ctx.time ELSE g.next_time
               later     == IF next_time > a.op.time THEN next_time ELSE a.op.time
    <3>1. b \in IF ~NotNil(a) THEN {Nil([g EXCEPT !.gen = a.self])}
                ELSE IF a.op.type = "pending"
                THEN {Answer(a.op, Stagger(g.dt, next_time, a.self), Stagger(g.dt, next_time, a.self))}
                ELSE {Answer([a.op EXCEPT !.time = later], Stagger(g.dt, kInvalidTime, a.gen),
                             Stagger(g.dt, next_time, a.self))}
      BY <2>1, <2>2, <2>8 DEF StaggerFrom
    <3> HIDE DEF next_time, later
    <3>2. CASE ~NotNil(a)
      BY <2>4, <3>1, <3>2
    <3>3. CASE NotNil(a) /\ a.op.type = "pending"
      BY <3>1, <3>3
    <3>4. CASE NotNil(a) /\ a.op.type # "pending"
      BY <3>1, <3>4
    <3> QED BY <3>2, <3>3, <3>4
  <2>13. /\ b.op.type # "crash" /\ b.self.kind \in Wrappers /\ b.self.gen = a.self
         /\ \/ b.gen = Null \/ b.gen = b.self
            \/ b.gen.kind \in Wrappers /\ b.gen.gen = a.gen /\ a.gen # Null
    <3>1. CASE b = Nil(Stagger(g.dt, g.next_time, a.self))
      BY <2>5, <2>7, <3>1
    <3>2. CASE \E t : b = Answer(a.op, Stagger(g.dt, t, a.self), Stagger(g.dt, t, a.self))
      BY <2>5, <2>6, <2>8, <3>2
    <3>3. ASSUME NotNil(a), NEW t, NEW u, NEW v,
                 b = Answer([a.op EXCEPT !.time = t], Stagger(g.dt, u, a.gen), Stagger(g.dt, v, a.self))
          PROVE  /\ b.op.type # "crash" /\ b.self.kind \in Wrappers /\ b.self.gen = a.self
                 /\ b.gen.kind \in Wrappers /\ b.gen.gen = a.gen /\ a.gen # Null
      <4>1. b.op = [a.op EXCEPT !.time = t] /\ b.gen = Stagger(g.dt, u, a.gen) /\ b.self = Stagger(g.dt, v, a.self)
        BY <2>6, <3>3
      <4>2. b.op.type # "crash"
        BY <2>8, <2>11, <4>1
      <4> QED BY <2>5, <2>9, <3>3, <4>1, <4>2
    <3> QED BY <2>12, <3>1, <3>2, <3>3
  <2> QED BY <1>2, <1>3, <2>3, <2>13, WrapperCalm
<1> QED BY <1>6, <1>7, <1>8, <1>9 DEF Wrappers

\* Trees of members like those of a tree.
LEMMA LikeTrees ==
  ASSUME NEW sort, NEW n \in Nat, n # 0, NEW scope \in Scopes, NEW q, MemberSeq(sort, n, scope, "any", q),
         NEW x, Like(sort, n, scope, q, x)
  PROVE  /\ List(x) \in Trees(sort)[n][scope]["any"] /\ Any(x) \in Trees(sort)[n][scope]["any"]
         /\ MemberSeq(sort, n, scope, sort.mixes, q) =>
              \A i \in 1 .. Len(q) : Mix(i, x) \in Trees(sort)[n][scope]["any"]
         /\ DOMAIN x = 1 .. Len(q) /\ Len(x) = Len(q)
<1>1. MemberSeq(sort, n, scope, "any", x) /\ Len(x) = Len(q) /\ DOMAIN x = 1 .. Len(q)
  <2>1. MemberSeq(sort, n, scope, "any", x) /\ Len(x) = Len(q)
    BY LikeMembers
  <2> QED BY <2>1 DEF Like
<1>2. MemberSeq(sort, n, scope, sort.mixes, q) => MemberSeq(sort, n, scope, sort.mixes, x)
  BY LikeMembers
<1> QED BY <1>1, <1>2, ListTree, BothSpans

\* An answer under another self.
LEMMA CalmInstead ==
  ASSUME NEW g, NEW h, NEW d, IsAnswer(d), Calm(h, d), NEW self \in Solid
  PROVE  Calm(g, [d EXCEPT !.self = self])
<1>1. d = Answer(d.op, d.gen, d.self)
  BY DEF IsAnswer
<1>2. [d EXCEPT !.self = self] = Answer(d.op, d.gen, self)
  BY <1>1 DEF Answer
<1>3. /\ Answer(d.op, d.gen, self).op = d.op /\ Answer(d.op, d.gen, self).gen = d.gen
      /\ Answer(d.op, d.gen, self).self = self
  BY DEF Answer
<1> QED BY <1>2, <1>3 DEF Calm, Harmless

\* A list, which answers with its first element and a list of the rest.
LEMMA ListCalm ==
  ASSUME NEW sort, IsSort(sort), NEW n \in Nat, n <= Size, NEW ask,
         Responds(ask, sort, n), StaysCalm(ask, sort, n),
         NEW scope \in Scopes, NEW ctx, ContextFor(sort, scope, ctx),
         NEW g \in Trees(sort)[n][scope]["any"], g \in Solid, g.kind = "list",
         NEW b \in OpList(ask, g, ctx)
  PROVE  Calm(g, b)
<1> DEFINE q == g.gens
<1>1. /\ n # 0 /\ n - 1 \in Nat /\ n - 1 \in 0 .. (n - 1) /\ n - 1 <= Size
      /\ g = List(q) /\ MemberSeq(sort, n, scope, "any", q)
  <2>1. g.kind \notin Childless
    BY DEF Childless
  <2> QED BY <2>1, TreeParts, BothSpans, SizeAssumption
<1>2. q # <<>> /\ (\A i \in DOMAIN q : q[i] \in Harmless) /\ DOMAIN q = 1 .. Len(q)
  BY HarmlessParts, SmallerChildren DEF Harmless
<1>3. Proper(sort, n, scope, "any", ctx, b)
  BY ListAnswers, BothSpans
<1> HIDE DEF q
<1>4. List(q) \in Trees(sort)[n][scope]["any"] /\ b \in OpList(ask, List(q), ctx)
  BY <1>1
<1>5. PICK a, r : a \in ask[q[1]][ctx] /\ OfList(sort, n, scope, "any", q, ask, ctx, b, a, r)
  BY <1>1, <1>2, <1>4, ListParts, BothSpans
<1>6. 1 \in 1 .. Len(q) /\ r = [q EXCEPT ![1] = a.self]
  BY <1>5 DEF OfList
<1>7. Calm(q[1], a)
  <2>1. n - Len(q) \in 0 .. (n - 1) /\ q[1] \in Trees(sort)[n - Len(q)][scope]["any"]
    BY <1>1, <1>6, MemberTree
  <2>2. q[1] \in Harmless
    BY <1>2, <1>6
  <2> QED BY <1>5, <2>1, <2>2, CalmAt
<1>8. a.op.type # "crash" /\ a.gen \in Harmless
  BY <1>7 DEF Calm
<1>9. Like(sort, n, scope, q, r)
  BY <1>5, <1>8 DEF OfList
<1>10. /\ List(r) \in Trees(sort)[n][scope]["any"] /\ DOMAIN r = 1 .. Len(q)
  BY <1>1, <1>9, LikeTrees
<1>11. List(r) \in Solid
  <2>1. \A i \in DOMAIN r : r[i] \in Harmless
    BY <1>2, <1>6, <1>7, <1>10 DEF Calm
  <2>2. r # <<>>
    BY <1>6, <1>10
  <2> QED BY <1>10, <2>1, <2>2, MadeSolid
<1>12. ~CopyCrashes(List(r))
  BY <1>10, <1>11, HarmlessCopy DEF Harmless
<1>13. PICK c : /\ CopyOne(List(r)) = List(c) /\ Like(sort, n, scope, q, c) /\ Len(c) = Len(q)
                /\ \/ /\ ElementExhausted(a)
                      /\ MemberSeq(sort, n - 1, scope, "any", Tail(c))
                      /\ Tail(c) = Without(c, 1)
                      /\ \E d \in ask[List(Tail(c))][ctx] : b = [d EXCEPT !.self = List(r)]
                   \/ /\ ~ElementExhausted(a) /\ Len(c) > 1
                      /\ b = Answer(a.op, List([c EXCEPT ![1] = a.gen]), List(r))
                   \/ /\ ~ElementExhausted(a) /\ Len(q) = 1
                      /\ b = Answer(a.op, a.gen, List(r))
  BY <1>5, <1>8, <1>12 DEF OfList
<1>14. c # <<>> /\ (\A i \in DOMAIN c : c[i] \in Harmless) /\ DOMAIN c = 1 .. Len(q)
  <2>1. c # <<>> /\ \A i \in DOMAIN c : c[i] \in Harmless
    BY <1>10, <1>11, <1>13, CopyOfElements
  <2>2. DOMAIN c = 1 .. Len(q)
    BY <1>13 DEF Like
  <2> QED BY <2>1, <2>2
<1>15. ASSUME MemberSeq(sort, n - 1, scope, "any", Tail(c)), Tail(c) = Without(c, 1),
              NEW d \in ask[List(Tail(c))][ctx], b = [d EXCEPT !.self = List(r)]
       PROVE  Calm(g, b)
  <2> DEFINE rest == Tail(c)
  <2>1. MemberSeq(sort, n - 1, scope, "any", rest) /\ d \in ask[List(rest)][ctx]
    BY <1>15
  <2>2. \A i \in DOMAIN rest : rest[i] \in Harmless
    <3>1. DOMAIN Without(c, 1) = 1 .. (Len(c) - 1) /\ \A i \in 1 .. (Len(c) - 1) : Without(c, 1)[i] = c[i + 1]
      BY DEF Without
    <3>2. Len(q) \in Nat
      BY <1>1 DEF MemberSeq
    <3>3. \A i \in 1 .. (Len(c) - 1) : i + 1 \in DOMAIN c
      BY <1>13, <1>14, <3>2
    <3> QED BY <1>14, <1>15, <3>1, <3>3
  <2> HIDE DEF rest
  <2>3. CASE d = Nil(List(<<>>))
    <3>1. b.op.type # "crash" /\ b.gen = Null /\ b.self = List(r)
      BY <1>15, <2>3 DEF Nil, Answer, NilOp
    <3> QED BY <1>11, <3>1 DEF Calm, Harmless
  <2>4. CASE rest # <<>> /\ List(rest) \in Trees(sort)[n - 1][scope]["any"] /\ Proper(sort, n - 1, scope, "any", ctx, d)
    <3>1. List(rest) \in Solid
      BY <1>1, <2>2, <2>4, MadeSolid
    <3>2. Calm(List(rest), d)
      BY <1>1, <2>1, <2>4, <3>1, CalmAt DEF Harmless
    <3>3. IsAnswer(d)
      BY <2>4 DEF Proper
    <3> QED BY <1>11, <1>15, <3>2, <3>3, CalmInstead
  <2> QED BY <1>1, <2>1, <2>3, <2>4, RestAnswers, BothSpans
<1>16. ASSUME b = Answer(a.op, List([c EXCEPT ![1] = a.gen]), List(r))
       PROVE  Calm(g, b)
  <2> DEFINE x == [c EXCEPT ![1] = a.gen]
  <2>1. DOMAIN x = 1 .. Len(q) /\ x # <<>> /\ \A i \in DOMAIN x : x[i] \in Harmless
    BY <1>6, <1>8, <1>14
  <2>2. b = Answer(a.op, List(x), List(r))
    BY <1>16
  <2> HIDE DEF x
  <2>3. b.op = a.op /\ b.gen = List(x) /\ b.self = List(r)
    BY <2>2 DEF Answer
  <2>4. List(x) \in Trees(sort)[n][scope]["any"]
    BY <1>3, <1>8, <2>3 DEF Proper
  <2>5. List(x) \in Solid
    BY <2>1, <2>4, MadeSolid
  <2> QED BY <1>8, <1>11, <2>3, <2>5 DEF Calm, Harmless
<1>17. ASSUME b = Answer(a.op, a.gen, List(r))
       PROVE  Calm(g, b)
  <2>1. b.op = a.op /\ b.gen = a.gen /\ b.self = List(r)
    BY <1>17 DEF Answer
  <2> QED BY <1>8, <1>11, <2>1 DEF Calm, Harmless
<1> QED BY <1>13, <1>15, <1>16, <1>17

\* A mix with an endless member, which is never exhausted: there is one to draw.
LEMMA MixCalm ==
  ASSUME NEW sort, IsSort(sort), sort.mixes = "endless", NEW n \in Nat, n <= Size, NEW ask,
         Responds(ask, sort, n), StaysCalm(ask, sort, n),
         NEW scope \in Scopes, NEW ctx, ContextFor(sort, scope, ctx),
         NEW g \in Trees(sort)[n][scope]["any"], g \in Solid, g.kind = "mix",
         NEW b \in OpMix(ask, g, ctx)
  PROVE  Calm(g, b)
<1> DEFINE q == g.gens
           k == g.idx
<1>1. /\ n # 0 /\ n - 1 \in Nat /\ n - 1 \in 0 .. (n - 1) /\ n - 1 <= Size
      /\ g = Mix(k, q) /\ MemberSeq(sort, n, scope, "any", q)
      /\ k \in 1 .. Len(q) /\ MemberSeq(sort, n, scope, sort.mixes, q)
  <2>1. g.kind \notin Childless
    BY DEF Childless
  <2> QED BY <2>1, TreeParts, BothSpans, SizeAssumption
<1>2. (\A i \in DOMAIN q : q[i] \in Solid) /\ DOMAIN q = 1 .. Len(q)
  BY HarmlessParts, SmallerChildren DEF Harmless
<1>3. Proper(sort, n, scope, "any", ctx, b)
  BY MixAnswers, BothSpans
<1>4. PICK a, r : a \in ask[q[k]][ctx] /\ OfMix(sort, n, scope, "any", q, k, ask, ctx, b, a, r)
  BY MixParts, BothSpans
<1> HIDE DEF q, k
<1>5. Calm(q[k], a) /\ n - Len(q) \in Nat /\ n - Len(q) <= Size
  <2>1. n - Len(q) \in 0 .. (n - 1) /\ q[k] \in Trees(sort)[n - Len(q)][scope]["any"] /\ Len(q) \in 1 .. n
    BY <1>1, MemberTree
  <2>2. q[k] \in Harmless
    BY <1>1, <1>2 DEF Harmless
  <2>3. Calm(q[k], a)
    BY <1>4, <2>1, <2>2, CalmAt
  <2> QED BY <2>1, <2>3, SizeAssumption
<1>6. a.op.type # "crash" /\ a.gen \in Harmless /\ a.self \in Solid
  BY <1>1, <1>2, <1>5 DEF Calm
<1>7. Like(sort, n, scope, q, r) /\ r = [q EXCEPT ![k] = a.self]
  BY <1>4, <1>6 DEF OfMix
<1>8. /\ Mix(k, r) \in Trees(sort)[n][scope]["any"] /\ DOMAIN r = 1 .. Len(q)
  BY <1>1, <1>7, LikeTrees
<1>9. \A i \in 1 .. Len(q) : r[i] \in Solid /\ r[i] \in Trees(sort)[n - Len(q)][scope]["any"]
  <2>1. \A i \in 1 .. Len(q) : r[i] \in Solid
    BY <1>2, <1>6, <1>7
  <2> QED BY <1>7, <2>1 DEF Like
<1>10. Mix(k, r) \in Solid
  <2>1. \A i \in DOMAIN r : r[i] \in Solid
    BY <1>8, <1>9
  <2> QED BY <1>8, <2>1, MadeSolid
<1>11. \A i \in 1 .. Len(q) : ~MemberCrashes(r[i]) /\ CopyOne(r[i]) \in Solid
  <2> SUFFICES ASSUME NEW i \in 1 .. Len(q) PROVE ~MemberCrashes(r[i]) /\ CopyOne(r[i]) \in Solid
    OBVIOUS
  <2>1. r[i] \in Solid /\ r[i] \in Harmless /\ r[i] \in Trees(sort)[n - Len(q)][scope]["any"]
    BY <1>9 DEF Harmless
  <2> QED BY <1>5, <2>1, HarmlessCopy, SolidCopy
<1> DEFINE c == CopyAll(r)
<1>12. DOMAIN c = 1 .. Len(q) /\ \A i \in 1 .. Len(q) : c[i] \in Solid
  BY <1>8, <1>11 DEF CopyAll
<1> HIDE DEF c
<1>13. \/ /\ NotNil(a)
          /\ \E i \in 1 .. Len(q) : b = Answer(a.op, Mix(i, [c EXCEPT ![k] = a.gen]), Mix(k, r))
       \/ \E rest : /\ rest = Without(c, k) /\ Len(rest) = Len(q) - 1
                    /\ MemberSeq(sort, n - 1, scope, "any", rest)
                    /\ MemberSeq(sort, n - 1, scope, sort.mixes, rest)
                    /\ \/ rest = <<>>
                       \/ \E i \in 1 .. Len(rest) : \E d \in ask[Mix(i, rest)][ctx] :
                            n - 1 # 0 /\ b = [d EXCEPT !.self = Mix(k, r)]
  BY <1>4, <1>6, <1>11 DEF OfMix, c
<1>14. ASSUME NotNil(a), NEW i \in 1 .. Len(q), b = Answer(a.op, Mix(i, [c EXCEPT ![k] = a.gen]), Mix(k, r))
       PROVE  Calm(g, b)
  <2> DEFINE x == [c EXCEPT ![k] = a.gen]
  <2>1. a.gen \in Solid
    BY <1>6, <1>14 DEF NotNil, Harmless
  <2>2. \A j \in DOMAIN x : x[j] \in Solid
    BY <1>12, <2>1
  <2>3. b = Answer(a.op, Mix(i, x), Mix(k, r))
    BY <1>14
  <2> HIDE DEF x
  <2>4. b.op = a.op /\ b.gen = Mix(i, x) /\ b.self = Mix(k, r)
    BY <2>3 DEF Answer
  <2>5. Mix(i, x) \in Trees(sort)[n][scope]["any"]
    BY <1>3, <1>6, <2>4 DEF Proper
  <2>6. Mix(i, x) \in Solid
    BY <2>2, <2>5, MadeSolid
  <2> QED BY <1>6, <1>10, <2>4, <2>6 DEF Calm, Harmless
<1>15. ASSUME NEW rest, rest = Without(c, k), Len(rest) = Len(q) - 1,
              MemberSeq(sort, n - 1, scope, "any", rest), MemberSeq(sort, n - 1, scope, "endless", rest),
              \/ rest = <<>>
              \/ \E i \in 1 .. Len(rest) : \E d \in ask[Mix(i, rest)][ctx] :
                   n - 1 # 0 /\ b = [d EXCEPT !.self = Mix(k, r)]
       PROVE  Calm(g, b)
  <2>1. rest # <<>>
    <3>1. \A i : i \notin 1 .. Len(<<>>)
      OBVIOUS
    <3> QED BY <1>15, <3>1 DEF MemberSeq, Members
  <2>2. PICK i \in 1 .. Len(rest) : \E d \in ask[Mix(i, rest)][ctx] :
                n - 1 # 0 /\ b = [d EXCEPT !.self = Mix(k, r)]
    BY <1>15, <2>1
  <2>3. PICK d \in ask[Mix(i, rest)][ctx] : n - 1 # 0 /\ b = [d EXCEPT !.self = Mix(k, r)]
    BY <2>2
  <2>4. Mix(i, rest) \in Trees(sort)[n - 1][scope]["any"]
    BY <1>1, <1>15, <2>3, ListTree, BothSpans
  <2>5. \A j \in DOMAIN rest : rest[j] \in Solid
    <3>1. Len(c) = Len(q) /\ Len(q) \in Nat
      <4>1. Len(q) \in Nat
        BY <1>1 DEF MemberSeq
      <4> QED BY <1>12, <4>1
    <3>2. /\ DOMAIN rest = 1 .. (Len(q) - 1)
          /\ \A j \in 1 .. (Len(q) - 1) : rest[j] = c[IF j < k THEN j ELSE j + 1]
      BY <1>15, <3>1 DEF Without
    <3>3. \A j \in 1 .. (Len(q) - 1) : (IF j < k THEN j ELSE j + 1) \in 1 .. Len(q)
      BY <1>1, <3>1
    <3> QED BY <1>12, <3>2, <3>3
  <2>6. Mix(i, rest) \in Solid
    BY <1>1, <2>4, <2>5, MadeSolid
  <2>7. Calm(Mix(i, rest), d)
    BY <1>1, <2>3, <2>4, <2>6, CalmAt DEF Harmless
  <2>8. IsAnswer(d)
    BY <1>1, <2>3, <2>4, AskedAt, BothSpans DEF Proper
  <2> QED BY <1>10, <2>3, <2>7, <2>8, CalmInstead
<1> QED BY <1>13, <1>14, <1>15

\* An any, which answers with the soonest of its members.
LEMMA AnyCalm ==
  ASSUME NEW sort, IsSort(sort), NEW n \in Nat, n <= Size, NEW ask,
         Responds(ask, sort, n), StaysCalm(ask, sort, n),
         NEW scope \in Scopes, NEW ctx, ContextFor(sort, scope, ctx),
         NEW g \in Trees(sort)[n][scope]["any"], g \in Solid, g.kind = "any",
         NEW b \in OpAny(ask, g, ctx)
  PROVE  Calm(g, b)
<1> DEFINE q == g.gens
<1>1. /\ n # 0 /\ g = Any(q) /\ MemberSeq(sort, n, scope, "any", q)
  <2>1. g.kind \notin Childless
    BY DEF Childless
  <2> QED BY <2>1, TreeParts, BothSpans
<1>2. (\A i \in DOMAIN q : q[i] \in Solid) /\ DOMAIN q = 1 .. Len(q)
  BY HarmlessParts, SmallerChildren DEF Harmless
<1>3. Proper(sort, n, scope, "any", ctx, b)
  BY AnyAnswers, BothSpans
<1>4. PICK s, r : OfAny(sort, n, scope, q, b, s, r) /\ \A i \in 1 .. Len(q) : s[i] \in ask[q[i]][ctx]
  BY AnyParts, BothSpans
<1> HIDE DEF q
<1>5. \A i \in 1 .. Len(q) : s[i].op.type # "crash" /\ s[i].gen \in Harmless /\ s[i].self \in Solid
  <2> SUFFICES ASSUME NEW i \in 1 .. Len(q)
               PROVE  s[i].op.type # "crash" /\ s[i].gen \in Harmless /\ s[i].self \in Solid
    OBVIOUS
  <2>1. n - Len(q) \in 0 .. (n - 1) /\ q[i] \in Trees(sort)[n - Len(q)][scope]["any"]
    BY <1>1, MemberTree
  <2>2. q[i] \in Harmless /\ q[i] \in Solid
    BY <1>2 DEF Harmless
  <2>3. s[i] \in ask[q[i]][ctx]
    BY <1>4
  <2>4. Calm(q[i], s[i])
    BY <2>1, <2>2, <2>3, CalmAt
  <2> QED BY <2>2, <2>4 DEF Calm
<1>6. Like(sort, n, scope, q, r) /\ r = [i \in 1 .. Len(q) |-> s[i].self] /\ DOMAIN s = 1 .. Len(q)
  BY <1>4, <1>5 DEF OfAny
<1>7. Any(r) \in Trees(sort)[n][scope]["any"]
  BY <1>1, <1>6, LikeTrees
<1>8. Any(r) \in Solid
  <2>1. \A i \in DOMAIN r : r[i] \in Solid
    BY <1>5, <1>6
  <2> QED BY <1>7, <2>1, MadeSolid
<1>9. ~CopyCrashes(Any(r))
  BY <1>7, <1>8, HarmlessCopy DEF Harmless
<1>10. \/ b = Nil(Any(r))
       \/ \E c : \E i \in Soonest(s) : /\ CopyOne(Any(r)) = Any(c) /\ Like(sort, n, scope, q, c)
                                       /\ b = Answer(s[i].op, Any([c EXCEPT ![i] = s[i].gen]), Any(r))
  BY <1>4, <1>5, <1>9 DEF OfAny
<1>11. CASE b = Nil(Any(r))
  <2>1. b.op.type # "crash" /\ b.gen = Null /\ b.self = Any(r)
    BY <1>11 DEF Nil, Answer, NilOp
  <2> QED BY <1>8, <2>1 DEF Calm, Harmless
<1>12. ASSUME NEW c, NEW i \in Soonest(s), CopyOne(Any(r)) = Any(c), Like(sort, n, scope, q, c),
              b = Answer(s[i].op, Any([c EXCEPT ![i] = s[i].gen]), Any(r))
       PROVE  Calm(g, b)
  <2> DEFINE x == [c EXCEPT ![i] = s[i].gen]
  <2>1. i \in 1 .. Len(q) /\ NotNil(s[i])
    BY <1>6, <1>12, SoonestGiven
  <2>2. s[i].gen \in Solid /\ s[i].op.type # "crash"
    BY <1>5, <2>1 DEF NotNil, Harmless
  <2>3. \A j \in DOMAIN c : c[j] \in Solid
    BY <1>7, <1>8, <1>12, CopyOfMembers
  <2>4. \A j \in DOMAIN x : x[j] \in Solid
    BY <2>2, <2>3
  <2>5. b = Answer(s[i].op, Any(x), Any(r))
    BY <1>12
  <2> HIDE DEF x
  <2>6. b.op = s[i].op /\ b.gen = Any(x) /\ b.self = Any(r)
    BY <2>5 DEF Answer
  <2>7. Any(x) \in Trees(sort)[n][scope]["any"]
    BY <1>3, <2>2, <2>6 DEF Proper
  <2>8. Any(x) \in Solid
    BY <2>4, <2>7, MadeSolid
  <2> QED BY <1>8, <2>2, <2>6, <2>8 DEF Calm, Harmless
<1> QED BY <1>10, <1>11, <1>12

\* Any harmless generator answers calmly if the smaller ones do.
LEMMA CalmStep ==
  ASSUME NEW sort, IsSort(sort), 0 \notin sort.dts, sort.mixes = "endless", NEW n \in Nat, n <= Size, NEW ask,
         Responds(ask, sort, n), StaysCalm(ask, sort, n),
         NEW scope \in Scopes, NEW ctx, ContextFor(sort, scope, ctx),
         NEW g \in Trees(sort)[n][scope]["any"], g \in Harmless, NEW b \in OpOver(ask)[g][ctx]
  PROVE  Calm(g, b)
<1>1. b \in OpNode(ask, g, ctx)
  BY TreeIsGenerator, BothSpans DEF OpOver, ContextFor
<1>2. CASE g = Null
  <2>1. b = Nil(Null) /\ Nil(Null).op.type # "crash" /\ Nil(Null).gen = Null /\ Nil(Null).self = Null
    BY <1>1, <1>2 DEF OpNode, Null, Nil, Answer, NilOp
  <2> QED BY <1>2, <2>1, NullNotSolid DEF Calm, Harmless
<1>3. CASE g \in Solid
  <2>1. g.kind \in Kinds /\ g.kind # "null"
    <3>1. g.kind \in Kinds
      BY TreeElim, BothSpans DEF WellFormed
    <3>2. SolidNode(g, Solid)
      BY <1>3, SolidParts
    <3> QED BY <3>1, <3>2, SolidKinds
  <2>2. CASE g.kind \in {"op", "fun"}
    <3>1. b \in OpOnce(g, ctx) \cup OpFun(g, ctx)
      BY <1>1, <2>2 DEF OpNode
    <3>2. b.self = g /\ b.gen \in {Null, g}
      BY <3>1 DEF OpOnce, OpFun, Answer
    <3>3. b.op.type # "crash"
      <4>1. \E o \in FillInOperation(ctx, g.op) : b.op = o
        BY <3>1 DEF OpOnce, OpFun, Answer
      <4>2. g.op \in sort.leaves[scope]
        <5>1. Fits(sort, Trees(sort), n, scope, "any", g)
          BY TreeElim, BothSpans
        <5>2. CASE g.kind = "op"
          BY <5>1, <5>2 DEF Fits
        <5>3. CASE g.kind = "fun"
          BY <5>1, <5>3 DEF Fits
        <5> QED BY <2>2, <5>2, <5>3
      <4>3. b.op.type \in {"pending", "invoke"}
        BY <4>1, <4>2, FilledIn
      <4> QED BY <4>3
    <3> QED BY <1>3, <3>2, <3>3 DEF Calm, Harmless
  <2>3. CASE g.kind = "list"
    <3>1. b \in OpList(ask, g, ctx)
      BY <1>1, <2>3 DEF OpNode
    <3> QED BY <1>3, <2>3, <3>1, ListCalm
  <2>4. CASE g.kind = "mix"
    <3>1. b \in OpMix(ask, g, ctx)
      BY <1>1, <2>4 DEF OpNode
    <3> QED BY <1>3, <2>4, <3>1, MixCalm
  <2>5. CASE g.kind = "any"
    <3>1. b \in OpAny(ask, g, ctx)
      BY <1>1, <2>5 DEF OpNode
    <3> QED BY <1>3, <2>5, <3>1, AnyCalm
  <2>6. CASE g.kind \in Wrappers
    BY <1>3, <2>6, WrappedCalm
  <2> QED BY <2>1, <2>2, <2>3, <2>4, <2>5, <2>6 DEF Kinds, Wrappers
<1> QED BY <1>2, <1>3 DEF Harmless

\* So generators of every size do.
LEMMA OpStaysCalm ==
  ASSUME NEW sort, IsSort(sort), 0 \notin sort.dts, sort.mixes = "endless"
  PROVE  \A k \in 0 .. Size : StaysCalm(OpAt[k], sort, k + 1)
<1> DEFINE P == {k \in Nat : k <= Size => StaysCalm(OpAt[k], sort, k + 1)}
<1>1. ASSUME NEW k \in Nat, k <= Size, NEW ask,
             \A j \in 0 .. k : Responds(ask, sort, j) /\ StaysCalm(ask, sort, j)
      PROVE  StaysCalm(OpOver(ask), sort, k + 1)
  <2>1. ASSUME NEW j \in 0 .. ((k + 1) - 1), NEW scope \in Scopes, NEW ctx,
               ContextFor(sort, scope, ctx), NEW g \in Trees(sort)[j][scope]["any"], g \in Harmless,
               NEW a \in OpOver(ask)[g][ctx]
        PROVE  Calm(g, a)
    <3>1. j \in 0 .. k /\ j \in Nat /\ j <= Size
      BY <1>1, SizeAssumption
    <3> QED BY <1>1, <2>1, <3>1, CalmStep
  <2> QED BY <2>1 DEF StaysCalm
<1>2. 0 \in P
  <2>1. OpAt[0] = OpOver(<<>>)
    BY OpValue
  <2>2. \A j \in 0 .. 0 : Responds(<<>>, sort, j) /\ StaysCalm(<<>>, sort, j)
    BY DEF Responds, StaysCalm
  <2>3. 0 <= Size
    BY SizeAssumption
  <2> QED BY <1>1, <2>1, <2>2, <2>3
<1>3. ASSUME NEW k \in Nat, k \in P PROVE k + 1 \in P
  <2> SUFFICES ASSUME k + 1 <= Size PROVE StaysCalm(OpAt[k + 1], sort, (k + 1) + 1)
    OBVIOUS
  <2>1. OpAt[k + 1] = OpOver(OpAt[k])
    <3>1. k + 1 \in Nat /\ k + 1 # 0 /\ (k + 1) - 1 = k
      OBVIOUS
    <3> QED BY <3>1, OpValue
  <2>2. Responds(OpAt[k], sort, k + 1) /\ StaysCalm(OpAt[k], sort, k + 1)
    <3>1. k <= Size /\ k \in 0 .. Size
      BY SizeAssumption
    <3>2. Responds(OpAt[k], sort, k + 1)
      BY <3>1, OpResponds
    <3> QED BY <1>3, <3>1, <3>2
  <2>3. ASSUME NEW j \in 0 .. (k + 1) PROVE Responds(OpAt[k], sort, j) /\ StaysCalm(OpAt[k], sort, j)
    <3>1. \A i \in 0 .. (j - 1) : i \in 0 .. ((k + 1) - 1)
      OBVIOUS
    <3>2. k + 1 # 0
      OBVIOUS
    <3>3. Responds(OpAt[k], sort, j)
      BY <2>2, <3>1, <3>2 DEF Responds
    <3>4. StaysCalm(OpAt[k], sort, j)
      BY <2>2, <3>1 DEF StaysCalm
    <3> QED BY <3>3, <3>4
  <2>4. k + 1 \in Nat
    OBVIOUS
  <2> HIDE DEF P
  <2>5. StaysCalm(OpOver(OpAt[k]), sort, (k + 1) + 1)
    BY <1>1, <2>3, <2>4
  <2> QED BY <2>1, <2>5
<1>4. Nat \subseteq P
  <2> HIDE DEF P
  <2> QED BY <1>2, <1>3, Induction
<1> QED BY <1>4, SizeAssumption

\* op does not crash on a harmless generator.
LEMMA OpCalm ==
  ASSUME NEW sort, IsSort(sort), 0 \notin sort.dts, sort.mixes = "endless",
         NEW ctx, ContextFor(sort, "all", ctx), NEW g \in PlansOf(sort), g \in Harmless, NEW a \in Op(g, ctx)
  PROVE  Calm(g, a)
<1>1. StaysCalm(OpAt[Size], sort, Size + 1) /\ Size \in 0 .. ((Size + 1) - 1) /\ Size + 1 \in Nat
  BY OpStaysCalm, SizeAssumption
<1>2. "all" \in Scopes
  BY DEF Scopes
<1>3. a \in OpAt[Size][g][ctx]
  BY DEF Op
<1>4. g \in Trees(sort)[Size]["all"]["any"]
  BY DEF PlansOf
<1> QED BY <1>1, <1>2, <1>3, <1>4, CalmAt

-----------------------------------------------------------------------------
(***************************************************************************)
(* The run of a steady plan.                                               *)
(***************************************************************************)

\* It is a sort, with every time and every dt but zero.
LEMMA SteadyIsSort ==
  IsSort(SteadySort) /\ SteadySort.times = Int /\ SteadySort.mixes = "endless" /\ 0 \notin SteadySort.dts
<1> DEFINE dts    == Int \ {0}
           steady == [Sound EXCEPT !.mixes = "endless", !.dts = dts]
<1>1. Unbound \in SUBSET Operations /\ Operations \in SUBSET Operations
  BY UnboundOperations
<1>2. dts \in SUBSET Int /\ 0 \notin dts
  OBVIOUS
<1>3. SteadySort = steady
  BY DEF SteadySort
<1> HIDE DEF dts
<1>4. IsSort(Sound) /\ Sound.times = Int
  BY <1>1, MadeSort DEF Sound
<1>5. /\ steady.times = Sound.times /\ steady.dts = dts /\ steady.mixes = "endless"
      /\ steady.leaves = Sound.leaves
  BY DEF Sound, Sort
<1> HIDE DEF steady
<1>6. IsSort(steady)
  BY <1>2, <1>4, <1>5 DEF IsSort, Spans
<1> QED BY <1>2, <1>3, <1>4, <1>5, <1>6

\* What op answers in a steady run is no crash, is harmless again, and is asked
\* for a process update knows.
LEMMA SteadyAnswer ==
  ASSUME IInv, gen \in PlansOf(SteadySort), gen \in Harmless, now \in Int, NEW a \in Answers
  PROVE  /\ a.op.type # "crash" /\ a.self \in Harmless /\ a.gen \in Harmless
         /\ a.gen \in PlansOf(SteadySort)
         /\ a.op.type \notin {"nil", "pending"} =>
              a.op.process \in Processes /\ DispatchCtx(a.op) \in Contexts
<1>1. gen \in Trees(SteadySort)[Size]["all"]["any"]
  BY DEF PlansOf
<1>2. now \in SteadySort.times /\ IsSort(SteadySort) /\ 0 \notin SteadySort.dts /\ SteadySort.mixes = "endless"
  BY SteadyIsSort
<1>3. Proper(SteadySort, Size, "all", "any", Ctx, a) /\ ContextFor(SteadySort, "all", Ctx)
  BY <1>1, <1>2, AnswersProper, BothSpans
<1>4. a \in Op(gen, Ctx)
  BY DEF Answers
<1>5. Calm(gen, a)
  BY <1>2, <1>3, <1>4, OpCalm
<1>6. a.op.type # "crash" /\ a.self \in Harmless /\ a.gen \in Harmless
  BY <1>5 DEF Calm
<1>7. a.gen \in PlansOf(SteadySort)
  BY <1>3, <1>6 DEF Proper, PlansOf
<1>8. ASSUME a.op.type \notin {"nil", "pending"}
      PROVE  a.op.process \in Processes /\ DispatchCtx(a.op) \in Contexts
  <2>1. Filled(SteadySort, "all", Ctx, a.op) /\ a.op.time \in Int
    BY <1>3, <1>6, <1>8 DEF Proper, IsAnswer
  <2>2. a.op.process \in Processes
    BY <1>2, <2>1, InvokedProcess
  <2>3. DispatchCtx(a.op) \in Contexts
    BY <2>1 DEF DispatchCtx, CtxAt, Contexts, IInv, TypeOK
  <2> QED BY <2>2, <2>3
<1> QED BY <1>6, <1>7, <1>8

\* The program is ended by a crash in the generator or by a failed worker.
LEMMA EndsOfProgram ==
  ASSUME main # "terminated", GNext, main' = "terminated"
  PROVE  GCrash \/ \E t \in Threads : Join(t)
<1>1. ASSUME NEW t \in Threads, GWorker(t) PROVE main' = main
  BY <1>1 DEF GWorker, WorkerStep, Take, Reopen, Enqueue, Close, Throw, Invoke, runner_vars
<1>2. ASSUME NEW t \in Threads, GComplete(t) PROVE main' = main
  BY <1>2 DEF GComplete, Complete
<1>3. ASSUME GDispatch \/ GNotDue \/ GPending \/ Tick PROVE main' = main
  BY <1>3 DEF GDispatch, DispatchTo, GNotDue, GPending, WaitFor, Tick, vars, runner_vars
<1>4. ASSUME NEW by \in 1 .. MaxBehind, SetBack(by) PROVE main' = main
  BY <1>4 DEF SetBack, vars, runner_vars
<1>5. ASSUME GNil PROVE main' = main \/ main' = "exiting"
  BY <1>5 DEF GNil, NilOutstanding, WaitFor, NilFinished
<1>6. ASSUME GExit, ~\E t \in Threads : Join(t) PROVE main' = main \/ main' = "done"
  BY <1>6 DEF GExit, Finish, PutExit
<1>7. CASE GEnded
  BY <1>7 DEF GEnded, Ended, vars, runner_vars
<1>8. CASE GDispatch \/ GNotDue \/ GPending \/ GNil \/ GCrash \/ GExit \/ Tick
  BY <1>3, <1>5, <1>6, <1>8
<1>9. CASE \E t \in Threads : GComplete(t) \/ GWorker(t)
  BY <1>1, <1>2, <1>9
<1>10. CASE \E by \in 1 .. MaxBehind : SetBack(by)
  BY <1>4, <1>10
<1> QED BY <1>7, <1>8, <1>9, <1>10 DEF GNext

\* update of a completed operation does not crash either.
LEMMA SteadyCompletion ==
  ASSUME IInv, gen \in PlansOf(SteadySort), gen \in Harmless, now \in Int,
         NEW t \in Threads, completions[t] # <<>>
  PROVE  /\ ~UpdateCrashes(gen, CompletionCtx(t), Head(completions[t]).process)
         /\ Update(gen, CompletionCtx(t), Head(completions[t]).process) \in Harmless
<1>1. CompletionCtx(t) \in Contexts
  BY CompletionContext
<1>2. Head(completions[t]).process \in Processes
  BY CompletionOfThread DEF IInv, TypeOK
<1> QED BY <1>1, <1>2, SteadyIsSort, HarmlessUpdate

\* None of the ways to crash is open.
LEMMA SteadyRuns ==
  ASSUME IInv, gen \in PlansOf(SteadySort), gen \in Harmless, now \in Int
  PROVE  ~GCrash
<1>1. ASSUME NEW a \in Answers PROVE a.op.type # "crash"
  BY SteadyAnswer
<1>2. ASSUME NEW t \in Threads, completions[t] # <<>>
      PROVE  ~UpdateCrashes(gen, CompletionCtx(t), Head(completions[t]).process)
  BY <1>2, SteadyCompletion
<1>3. ASSUME NEW a \in Answers, a.op.type \notin {"nil", "pending", "crash"}
      PROVE  ~UpdateCrashes(a.gen, DispatchCtx(a.op), a.op.process)
  <2>1. /\ a.gen \in Harmless /\ a.gen \in PlansOf(SteadySort)
        /\ a.op.process \in Processes /\ DispatchCtx(a.op) \in Contexts
    BY <1>3, SteadyAnswer
  <2> QED BY <2>1, SteadyIsSort, HarmlessUpdate
<1> QED BY <1>1, <1>2, <1>3 DEF GCrash

\* Whatever the loop does with the answer, the next generator is harmless.
LEMMA StaysHarmless ==
  ASSUME IInv, gen \in PlansOf(SteadySort), gen \in Harmless, now \in Int, GNext
  PROVE  gen' \in Harmless
<1>1. ASSUME NEW t \in Threads, GComplete(t) PROVE gen' \in Harmless
  <2>1. completions[t] # <<>> /\ gen' = Update(gen, CompletionCtx(t), Head(completions[t]).process)
    BY <1>1 DEF GComplete, Complete
  <2> QED BY <2>1, SteadyCompletion
<1>2. ASSUME GDispatch PROVE gen' \in Harmless
  <2>1. PICK a \in Answers : /\ a.op.type \notin {"nil", "pending", "crash"}
                             /\ gen' = Update(a.gen, DispatchCtx(a.op), a.op.process)
    BY <1>2 DEF GDispatch
  <2>2. /\ a.gen \in Harmless /\ a.gen \in PlansOf(SteadySort)
        /\ a.op.process \in Processes /\ DispatchCtx(a.op) \in Contexts
    BY <2>1, SteadyAnswer
  <2> QED BY <2>1, <2>2, SteadyIsSort, HarmlessUpdate
<1>3. ASSUME GNotDue \/ GPending \/ GNil PROVE gen' \in Harmless
  <2>1. PICK a \in Answers : gen' = a.self
    BY <1>3 DEF GNotDue, GPending, GNil
  <2> QED BY <2>1, SteadyAnswer
<1>4. \/ \E t \in Threads : GComplete(t)
      \/ GDispatch \/ GNotDue \/ GPending \/ GNil \/ gen' = gen
  BY DEF GNext, GWorker, GCrash, GExit, Tick, SetBack, GEnded, gen_vars
<1> QED BY <1>1, <1>2, <1>3, <1>4

\* A steady plan starts that way,
LEMMA InitSteady == GInit => SteadyInv
BY DEF GInit, Init, SteadyInv, Steady, SteadySort, Harmless

\* and every step of the loop keeps it that way.
LEMMA NextSteady == GIInv /\ SteadyInv /\ [GNext]_gvars => SteadyInv'
<1>1. ASSUME SteadyInv, UNCHANGED gvars PROVE SteadyInv'
  BY <1>1 DEF SteadyInv, gvars, gen_vars, vars, runner_vars
<1>2. ASSUME GIInv, SteadyInv, GNext, main # "terminated" PROVE SteadyInv'
  <2> SUFFICES ASSUME plan' \in Steady
               PROVE  /\ gen' \in PlansOf(SteadySort) /\ gen' \in Harmless
                      /\ main' = "terminated" => \E t \in Threads : stop'[t] # "none"
    BY DEF SteadyInv
  <2>1. plan \in Steady
    BY <1>2, ClockSteps
  <2>2. gen \in PlansOf(SteadySort) /\ gen \in Harmless
    BY <1>2, <2>1 DEF SteadyInv
  <2>3. IInv /\ now \in Int
    BY <1>2 DEF GIInv
  <2>4. gen' \in PlansOf(SteadySort)
    BY <1>2, <2>2, <2>3, SteadyIsSort, StepStays
  <2>5. gen' \in Harmless
    BY <1>2, <2>2, <2>3, StaysHarmless
  <2>6. ~GCrash
    BY <2>2, <2>3, SteadyRuns
  <2>7. CASE \E t \in Threads : Join(t)
    BY <2>4, <2>5, <2>7 DEF Join
  <2>8. main' # "terminated" \/ GCrash \/ \E t \in Threads : Join(t)
    BY <1>2, EndsOfProgram
  <2> QED BY <2>4, <2>5, <2>6, <2>7, <2>8
<1> QED BY <1>1, <1>2, EndedChangesNothing

\* As long as no worker has failed, the generators of a plan in Steady do not end
\* the program, however the answers and completions come: mix() is not called
\* without generators, rand() % dt does not divide by zero (Generator.cpp:139-142,
\* 335, 369-377), and copyOne of a mix or an any, also where op and update of the
\* generators above them copy, meets no null pointer (Generator.cpp:84, 365, 374,
\* 388, 413, 434).
THEOREM SteadyPlansNeverCrash == GSpec => []SteadyNeverCrashes
<1>1. SteadyInv => SteadyNeverCrashes
  BY DEF SteadyInv, SteadyNeverCrashes
<1> QED BY <1>1, GInductive, InitSteady, NextSteady, PTL DEF GSpec
==============================================================================
