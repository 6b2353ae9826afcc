# Jepsen-in-C++: a verification project

Jepsen-in-C++ tests a distributed system: it prepares the nodes over SSH,
starts a set of worker threads that invoke operations on the system while a
nemesis disturbs it, and records a history for a checker. Everything here is
translated from the sources under `src/src/jepsen` (and, where a plan of the
tests is used as an instance, `src/test`); comments in the modules cite file and
line.

## 1. Inventory

| Part | State | Operations | Talks to |
|---|---|---|---|
| Run loop, `Runner::runCases` | `outstanding`, `poll_timeout`, `history`, `ctx`, `generator`, `workers` | take a completion, ask the generator, dispatch, wait, end the workers, save the history | workers through two kinds of queues; the generator by calls |
| Workers, `Worker.{h,cpp}` | queue `in`, shared queue `out`, `client`, `process`, `fut` | `run`, `runAsync`, `putOp`, `exit`, `open`/`close`/`invoke` | runner (queues, `fut.get()`), the client or nemesis of the test |
| Context, `Context.{h,cpp}` | `free_threads`, `workers` (thread -> process), `time` | `randomFreeProcess`, `nextProcess`, `processToThread` | owned by the runner, copied for the generators |
| Generators, `generator/` | a tree of nodes; `cutoff` and `next_time` are changed in place | `op`, `update`, `copyOne` per class | called by the runner with the context |
| Recorded history | sequence of operations | appended at dispatch and completion, written once at the end | read by a checker (interface only) |
| Run lifecycle, `Runner::run` | nodes, clients, remotes, a nemesis future | parallel set-up and tear-down of OS, database, clients, nemesis | all of the above |
| SSH client and channel | socket, session, agent; a process-wide init counter | connect, authenticate, execute, disconnect | libssh2, nodes |
| Control helpers | files on a node | `tmpDir`, `cachedWget`, `installArchive`, `startDaemon`, `stopDaemon` | remote commands |
| Base64 coder | none | `base64_encode`, `base64_decode` | names of cached files |
| etcd test | none of its own | installs, starts, stops and removes etcd; reads, writes and compare-and-sets keys | control helpers, the etcd client |
| Checker, OS, database, client, nemesis interfaces | none | the calls the framework makes on user code | |
| Logging, clock, thread names, demonstrations | none that the program depends on | | |

What is hard here:

* **Interleaving.** Completions of several workers arrive in any order. The
  runner renumbers the process of a thread in its own thread while the worker
  compares its own `process` field with the number in the next operation
  (`Runner.cpp:195-197`, `Worker.cpp:57-63`): together they must keep a client with an
  operation of unknown outcome from being used again.
* **Ordering at the end.** The `exit` operation goes through the same queue as
  the others and must overtake none.
* **Failure.** Worker threads have no exception handler. What was in the hands
  of a worker that died never comes back.
* **Impure generators.** `op` is called, and its answer is dropped, whenever the
  operation is not yet due; `TimeLimit` and `Stagger` have by then assigned to
  their own fields. Each class copies itself through its own constructor, and the
  constructor decides what survives.
* **Time.** Due times and cutoffs compare readings of a clock the program does
  not control.
* **Set-up failures** of one node among several, whose results are ignored.
* **Remote commands** that fail, are cut off or never answer, programs that are killed
  between two of them, and what that leaves on a node: files, processes, pid files.
* **Answers that are lost**: an operation of the database may have taken effect though the
  client reports an error.

What makes each part correct:

* run loop and workers: a thread never has two operations; a thread is free
  exactly if nothing of it is in flight; the loop ends only when everything came
  back; an operation that is lost keeps it from ending; every operation comes
  back and the run ends if clients return;
* context: threads never share a process number; a process of a crashed client
  never comes back;
* generators: operations go to the threads a wrapper names, within the time
  limit, in the order of the list, and no wrapper ends the program;
* history: sequential processes, completions that answer an open invocation,
  nothing open at the end;
* lifecycle: all nodes go through the phases in lockstep, cases run on databases that
  were set up from scratch, whatever was left on the nodes, and under a nemesis that
  is ready; everything that was set up is taken down;
* SSH client: a command is only sent over an authenticated session, no session is
  lost, and what may be left open is bounded;
* control helpers: a call whose commands succeed installs exactly its archive,
  whatever failed and killed calls have left on the node; what is cached stays;
  after a tear-down nothing is left, and a set-up runs a new database on new data;
* SSH channel: a command that is said to have succeeded has, and its output is complete;
* base64: decoding inverts encoding, the code of a url is a legal file name;
* etcd client: there is an order of the operations on a key that explains the history.

The full list of hazards, each at its line and with the properties that cover
it, is in `PROJECT.json`.

## 2. Modules

```
Context ──> RunCases ──> MCRunCases          History (abstract)
   │           │  └── implements History
   │           ├──> SecondRun ──> MCSecondRun
   │           └──> RunGenerators ──> MCRunGenerators
   │                  │ └── implements RunCases
   └──> Generator ──> Trees
RunGenerators ──> GeneratorInvariants
SecondRun, GeneratorInvariants ──> RunCasesProofs

InstallArchive ──> MCInstallArchive, InstallArchiveProofs
Daemon ──> MCDaemon, DaemonProofs
Base64 ──> MCBase64, Base64Proofs

Lifecycle ── implements Lockstep (abstract)
   └──> LifecycleProofs

SSHClient ──> SSHClientProofs
SSHChannel ──> SSHChannelProofs

EtcdClient ──> MCEtcdClient, EtcdClientProofs
```

### Context

Constants and functions of `Context.{h,cpp}` and `include/constant.h`. The maps are arguments,
because `OnThreads` calls the same functions on a restricted copy.
`RandomFreeProcess` is a set: `rand` may pick any free thread. `ProcessToThread`
returns `kInvalidProcess` when nobody plays the process, as the code does.

### History: the abstract specification

What a recorded history promises to its reader, without threads, queues or
generators: a process has at most one open operation, a completion answers an
open one, a client process whose operation ended in `:info` is never used again,
nothing is open when the history is closed.

### RunCases

One run of `runCases` with its worker threads. The correspondence:

| In the module | In the code |
|---|---|
| `main = "polling"` | the `while (true)` of `runCases` |
| `Complete(t)` | `wait_dequeue_timed` succeeded (`Runner.cpp:186-200`). The queue keeps the order of each producer, hence one sequence per worker, of which any head may be taken |
| `AskGenerator` | the queue was empty for `poll_timeout` (`:201-205`) |
| `Dispatch`, `NotDue`, `Pending` | the answer is an operation that is due, not due, or `pending` (`:225-245`) |
| `NilOutstanding`, `NilFinished` | the answer is `nil` (`:206-213`) |
| `PutExit`, `Join`, `Finish` | the parallel `for_each` over the workers, `saveHistory`, `break` |
| `Take`, `Reopen`, `Invoke`, `Enqueue`, `Close` | `runAsync` and `ClientWorker::invoke`, split where another thread can run and the state it can see changes |
| `Throw` | an exception out of `open`, `invoke` or `close` of a client: the thread ends, `std::async` stores the exception |
| `client = "tainted"` | a ghost: the client reported `:info`, so the request may still be in flight. No action reads it |

An operation is its process and its type. The content and the time are left out
here; time appears as the choice between `Dispatch` and `NotDue`. The generator is
a number of operations still to be issued: any generator that holds finitely many.
`NilOutstanding` and `NilFinished` do not look at that number, so a generator may
also end early (a time limit). An operation is for the process of some free thread,
which is what `fillInOperation` and `onThreadsContext` promise; module
RunGenerators discharges that assumption for actual generators (LoopAsInRunCases).

The queue classes of `moodycamel` are external. They are taken to be linearisable
with the order of each producer kept; a completion that has been enqueued is found
by the next `wait_dequeue_timed` (the runner asks the generator only if the
queue is empty).

### Generator

`generator::op`, `generator::update` and `copyOne` for every class with code. A
generator is a record; `Op(g, ctx)` is the set of possible answers (`rand` chooses
among threads, due operations and mix members), each with the operation, the
generator of the answer, and `self`: what the call left in the old generator, for
the case where the answer is dropped. The copying that every `op` and `update`
does is kept, including what constructors forget (`StaggerFrom`).

An answer of type `crash` ends the program. There are three ways to it: `mix()` of no generators divides by zero
(`Generator.cpp:139-142`, `DivisionByZero`: the build may also go on), so does `rand() % dt` of a Stagger built by
`stagger(0, g)` (`:335`), and `copyOne` of a `Mix` or an `Any`, or the copying in `Mix::op`, calls every member without
asking whether it is null (`:365, 374, 388, 434`; `CopyCrashes`, `MemberCrashes`). A list, a wrapper and the free
functions `op` and `update` do ask. A member becomes null in the course of a run: `update` makes a null
generator of an empty list (`:82`), `copyOne` of a time limit or a stagger around null (`:320, 351`). As `update` of a
list copies the list, an event may end the program too (`UpdateCrashes`).

Generators are values here, where the code has pointers. It differs in one place: `Mix::update` and `Mix::copyOne` make a new
`Mix` of the old members (`:381, 390`), so that the copies of a mix share what `TimeLimit` and `Stagger` in them assign to
their own fields. It shows only where an answer is dropped that came from a copy of the rest of a list or of a mix; the
header of the module says so.

The methods call each other down the tree. There is one definition per class and method, and it gets
what it calls as an argument: `ask`, `copy` and `update` are the functions of the generators one level
further down, and `OpAt[n]`, `CopyAt[n]` and `UpdateAt[n]` tie the knot for `n` levels. They are recursive
functions, not recursive operators, so that theorems can be stated about them. The bound on the levels is
`Size`; it also bounds how often `op` goes on with the rest of a list or a mix.

### Trees

The generators by what they are made of, which the properties and the assumption on
`Plans` refer to. A *sort* says which operations may stand under which filter, which `dt` and `next_time` a
Stagger may be built with, and whether each mix needs an endless member; `PlansOf(sort)` are the
generators of that sort whose size is at most `Size`. `Solid` are the generators without empty lists and with no
null generator but as an element of a list. `Lists(kinds)` are the lists of operations in wrappers of the
given kinds, and `Listed(g)` the names of their operations in order.

### RunGenerators

RunCases with these generators. The run starts with the plan of the test in the `Validate` that `setGenerator` puts
around it (`Runner.cpp:52-54`). `GDispatch`, `GNotDue`, `GPending`, `GNil`, `GCrash` take
the place of the runner's choices; `GCrash` is `op` that ends the program, or the `update` for a completion or for
a dispatch. `ImplementsRunCases` says that the loop with
real generators makes only steps that RunCases allows, but for those crashes, so that what is proved of
RunCases also holds of it. GeneratorAssumption is its only premise: the plans are of the sort *Sound* (any
generator of a bounded size in which an operation with a preset process is that of the nemesis and stands under
`nemesis()`), and there is a client thread. The other properties name their plans:

* *Placed*, for RightThread: every operation stands under the filter its name asks for;
* *Punctual*, for WithinTimeLimit: no Stagger is built with a `next_time` that is still to come. Without that
  the property fails: in `timeLimit(limit, mix({exhausted, a staggered by garbage, b}))` an operation
  that is not yet due is dropped, but has set the cutoff to its own time plus the limit; `b` comes next and is
  early by as much;
* *Steady*, for SteadyNeverCrashes: every mix has an endless member, no Stagger has a `dt` of zero, and the plan is
  *Solid*. Each of the three is needed: a mix of two finite lists, `stagger(0, g)`, and a list in which an `any` has
  an empty list for a member end the program;
* `Lists`, for ListInOrder.

The clock is the reading of `system_clock` (`TimeHelper.cpp:9-11`): `Tick` lets it go on, `SetBack`
sets it back, `behind` is by how much it was set back so far. `issued` has the time of every
dispatched operation. A time limit then lasts longer by `behind` and no more than that
(WithinTimeLimit).

### SecondRun

RunCases, called a second time for the same Runner. `Again` makes the context and the completions
queue anew and leaves what `workers.emplace` leaves (`Runner.cpp:168-173`): the workers of the first
call, whose threads start again, and whose answers go to `old`, the queue that nobody reads.
A worker keeps `process` although its client was closed; `NullClient` is its call on the null client,
which ends the program. Until `Again` it is RunCases step by step, so that the liveness of a first
call (Answered, Termination) is checked here too.

### InstallArchive

The file system of one node under `cachedWget`, `tmpDir` and `installArchive`
(`Control.cpp:7-65`), one action per remote command, with `pc` naming the next one:
clear and lookup of the cache, `mkdir`, `wget`, the choice of a temporary directory
(all iterations of the loop in one action, as they change nothing), `mkdir`, `tar` or
`unzip`, `ls`, `mv`, `rm`. `Teardown` is the `rm -rf` of `ETCD::teardown`. `Kill` ends the program
at any command; the files stay.

The commands are external and are modelled from their manuals. What the code uses of
them is in the model: `tar` leaves some entries of a truncated file behind and takes an
empty file for an empty archive, `wget -O` leaves the file it opened, `mv` moves into a directory that exists
and may stop half way, `mkdir -p` accepts what is there. Each command in the constant
`Fallible` may fail. As `installArchive` looks at no result but that of `stat`, it goes on;
`failed` records the fact for the properties only. `before` records what the call found.

A tree is a set of top-level entries, each whole or in part. A url is its kind, its number
of top-level entries, and whether its base64 code contains a `/`: then its
name in the cache lies in a directory nobody makes, and `wget` fails.

### Daemon

`ETCD::teardown` and `ETCD::setup` on one node, again one remote command per action: `stopDaemon`
is `killall -9` and the removal of the pid file, then the directory goes; `installArchive` is one step with
the outcomes InstallArchive shows, then `startDaemon` with its options. The node is the directory
(with the round its archive is from), the data in it, the pid file, and the processes with the data
they work on. `start-stop-daemon` does nothing if a process matches (`Matches`); only one database has the
ports of the node, another one ends at once. `Kill` ends the program at any
command, databases crash, other processes come, go and get old numbers. `failed` and
`crashed` record for the properties what went wrong and since when.

### Base64

The two loops of `base64.cpp`, a character or a byte per step, with the accumulator of `Width` bits
that overflows, and the assertions on the size of the code, in a build that has them (`Asserts`). A character is its index in the table; those without one are padding, whitespace
or illegal. CodeOf and TextOf are the reference: they name the code bit by bit,
without loop or accumulator.

### Lifecycle and Lockstep

`Runner::run` (`Runner.cpp:68-151, 251-270`). `phase` is the function `run` is in; the
first call of `teardownDB` is called `wipeDB`. `task` is the parallel `for_each` of that
function, one element per node, or per entry of `indexs` where clients are concerned;
`Advance` is its return, after `nf.get()` where there is a nemesis. The calls are those of
the test's own classes. Each is in progress for a while (`Start`, then `CallOS`, `TeardownDB`
or `SetupDB`; `CallClient` has two calls per element) and succeeds, returns false or throws.
`Throw` ends the program (an exception in a parallel algorithm, or out of `run`).
`CasesEnd` and `CasesHang` stand for `runCases`, which RunCases has in detail: it returns, or
it waits for ever because an operation was lost or because it is the second of this Runner.

What the calls do on a node is what their names say, and as little as possible: a
database is clean, in between, running, or mixed with what was there before. It stays when
the program is killed (`Kill`), and the next program meets it. A Runner that has finished may run
again (`RunAgain`): `clients` and `indexs` then grow, and two tasks share a client (`ClientOf`).
`leave_db` is the setting of the Runner, chosen at the start. `failed` records for the
properties that a call of this run has returned false; the code never looks.

Lockstep is the abstract specification: a node is some number of calls into the sequence, and
no call begins for a node while another node has an earlier one before it. The mapping
counts the calls of each node from `phase` and `task`.

### SSHClient

`SSHClient` and `SSHChannel` as `SSHRemote` uses them (`src/jepsen/control`), one action per
call of libssh2 or the operating system, with `pc[n]` for the thread of node n. Its results
are those after the loops on `LIBSSH2_ERROR_EAGAIN`. `attempts` counts the calls of
`connectTo`, the first from the constructor and a second, if any, from `execute`; it is also the name
of the socket made last. `open`, `sessions`, `hosts` and `libssh2` count what the program holds.
`Lose` cuts a connection. A channel that cannot be opened, or a command that cannot be sent,
ends the program (`Dies`). The copy constructor and the assignment, which make a temporary
client and nothing else, are not called by any code. The phases of Lifecycle order
the commands of different nodes; here they are free to interleave.

libssh2 is external; what is used of it: a null session has no channel (or crashes), the node gives
channels to authenticated sessions only, and calls on a lost connection fail.

### SSHChannel

One command from the moment it runs, which SSHClient has as the single steps `Read` and `Close`: the two loops of `exec` over
the streams and the answer `close` makes. The node writes chunks, closes its output, ends the
command with a status, a signal or without a report, and closes the channel; each is a message on
`wire`, and `Arrive` is libssh2 taking it in. The connection may be reset; be hung up, where the
node still takes what is sent, so that libssh2 can send its close and, knowing that nothing will come, waits for no other (`CloseResult`);
or fall silent, which nobody notices. `waitsocket` changes nothing: its ten seconds lead
back into the same call.

### EtcdClient

One key of the etcd test. `Dispatch` and `Record` are the run loop, which has its two entries
of the history, `Execute` is etcd, and `Respond` and `GiveUp` are the ends of `ETCDClient::invoke`: an
answer, an exception of `std::stoi` (`Throws`), or an error of the library when the
request was not answered. The request may then never arrive, arrive later (`late`), or have
been executed. Values are texts; a read answers with the number `stoi` makes of one. `invoke`
never answers `:info`, so a process is a thread. Explained is the definition of linearisability
of Herlihy and Wing for one register: some order of the operations, compatible with
the recorded intervals, replays all `:ok` answers. It looks at the history alone.

## 3. What is checked

| Run | Instance | Shows |
|---|---|---|
| `run_loop` | two client threads and the nemesis, three operations, outcomes ok and info, clients may throw anywhere | type correctness, OneOpInFlight, ProcessIdentity, FreshClient, DoneMeansDrained, LostOperationBlocksExit, DrainedBeforeExit, and the refinement of History |
| `second_run` | two client threads, two calls of up to two operations, clients return, fair scheduling | NothingComesBack, CrashesOnFirstProcess, Answered, Termination |
| `generators` | one client thread and the nemesis; fifteen trees: lists in every wrapper, mixes of finite and of endless generators, a Stagger with a `dt` of zero, members that become null, the generator of `test_runner.cpp`; fair scheduling; the clock is set back once | RightThread, WithinTimeLimit, ListInOrder, SteadyNeverCrashes, GTermination, and the refinement of RunCases |
| `install` | five archives (with a directory of its own, with several entries, empty, not cacheable, zip), two calls, every command may fail, the program may be killed | InstalledTree, FreshTmp, CacheKept |
| `daemon` | three rounds of tear-down and set-up, three process numbers, five sets of options, every command may fail, programs killed at any command | TornDown, FromScratch, SomeDatabaseRuns |
| `base64` | all texts of up to four bytes out of seven, one of ten bytes, all codes of up to five characters out of six; a build with assertions | EncodesText, DecodesOrThrows, SlashInName |
| `lifecycle` | two nodes, databases left running or not; calls fail and throw; then one program is killed and another started, or the Runner runs again | ReadyForClients, NemesisApart, EverythingTakenDown, and the refinement of Lockstep |
| `ssh` | two nodes, two commands each, every call may fail, connections may be lost | AuthenticatedCommands, AllConnected, LeaksOnce, ClosedAtEnd, NoSessionLost |
| `ssh_channel` | one command, up to two chunks in each stream, a connection that breaks in any of three ways | TrueMeansSuccess, ExactWhenUp, ReturnsUnlessSilent |
| `etcd_client` | two processes, three operations on one key, one request given up on | HistoryExplained |
| `install_assertion` | one archive, nothing fails | a counterexample to the assertion at `Control.cpp:55` |
| `copy_one` | the client generator of `test_runner.cpp` | a counterexample to the comment on `copyOne` |

The bounds, all constants:

* `Concurrency = 2` with the nemesis gives three threads: two that can race, with
  renumbering, and one whose process survives `:info`. With one client thread
  (generators) the two kinds of threads remain, and the races are those of
  RunCases, which the refinement refers to.
* `MaxOps = 3`: a thread can have its process renumbered, be used again and fail
  again while another operation is outstanding. In `generators` three operations use
  up the lists and the mixes, whose members hold one or two.
* `Outcomes`: the scheduling compares with `info` only; `ok` stands for all others. In
  `generators` every operation ends in `info`, so that each one renumbers its process; what differs
  with `ok` is in RunCases.
* `ClientThrows`: TRUE for safety. FALSE for liveness, where a thrown exception
  would end the run by itself: that is the case LostOperationBlocksExit is about.
* `MaxTime`, `LatestStart`: the clock stops, so that the state space is finite. It
  stops late enough for every time limit and every due time of the plans to pass.
* `MaxCalls = 2`, two temporary names: the second call meets everything the first may have
  left, in the cache, in a temporary directory and at the destination. The names are
  interchangeable, hence the symmetry.
* `FailingRuns = 1`, `MaxAgain = 1`: a killed program can stop in every state, and the next one
  meets it; a second run meets all a first one leaves. Calls fail in the first run of each Runner
  only, as failing calls in a second one make the state space some hundred times larger and meet
  nothing a killed program does not leave. Two nodes can be in every relative order.
* `MaxCommands = 2`: the command that connects, and one that finds what the first has left.
* `Size = 8`: the size of the largest plan, that of `test_runner.cpp` under the `Validate` of `setGenerator`. A wrapper adds one to what it holds, a list,
  an any or a mix of k generators adds k to the largest of them, so that `Size` is also enough for the recursion.
* `MaxBehind = 1`: the clock is set back by one unit, before, at or after the cutoff.
* SecondRun, `MaxOps = 2`: the second call can use a thread that was renumbered in the first one, one
  that was not and one that was not used. Clients do not throw: RunCases has that.
* `MaxRounds = 3`, `Pids = 1 .. 3`: the last round meets what a failed one left of an ordinary one;
  a database, its successor and a stranger can have numbers at the same time.
* Base64, `Width = 16`: as for 32 and 64 bits, the accumulator overflows, after
  the second byte instead of the fourth; the ten-byte text overflows it many times. Four bytes are one full group of
  three and one more, and the bytes have all, no and only sign bits set, or are the ones that give a slash.
* `MaxChunks = 2`: a chunk can be read, queued and on its way at the same time in each stream.
* EtcdClient: with three operations a process can have a write given up on, write again and
  read while the first arrives late; `"x"` is a text that is no number. A compare-and-set
  writes another value than it expects.
* `Plans`: lists in every wrapper and wrapper order that changes what happens, the
  generator of `test_runner.cpp`, staggers whose uninitialised `next_time` happens to be in the
  past or in the future, mixes with and without an endless member, and one plan for each of the other ways to end the program: a `dt` of zero,
  a null member met by the `update` for a completion, and one met by the `update` for a dispatch.

The proofs of section 4 have none of these bounds: they hold for every value of the constants.

Every property has a mutant in `PROJECT.json`: a plausible slip in a mapped
definition with which the same run finds the property violated. The definitions TypeOK of the modules
other than RunCases are in no run: the proof modules prove those of InstallArchive, SSHClient, Daemon,
SSHChannel, Lifecycle and Base64, and the others say what the variables of a module range over.

**Fairness.** Weak fairness of each worker thread (the operating system schedules
it, client calls return), of taking completions (a non-empty queue is dequeued), of
the exit of each worker and of `Finish`. For the choice of the generator: once no
thread is busy, `Dispatch` or `NilFinished` eventually happens, because the timeouts
of the loop are finite, an unrestricted generator cannot then be pending, and a
due time passes. Nothing is assumed of a generator while a thread is busy.
In RunGenerators the clock ticks, and dispatching is fair as long as the tree has
an operation. No fairness is assumed of `Throw`. SecondRun has the fairness of RunCases in both
calls. In SSHChannel the client thread is scheduled, what is on its way arrives (on a silent connection
that is what was sent before), and the server closes the channel of a command that is over; nothing
is assumed of the command. ReturnsUnlessSilent has no other premise: a command that does not end,
a child that keeps the output open, and a silent connection are what `exec` may wait for.

## 4. What is proved

`RunCasesProofs`, for every `Concurrency`, `MaxOps`, `Outcomes` and
`ClientThrows` that satisfy ConcurrencyAssumption and RunAssumption (naturals, a
non-empty set of outcomes, a Boolean); its third part also for every `Size`, `Plans`, `LatestStart`, `MaxTime`
and `MaxBehind` that satisfy SizeAssumption and GeneratorAssumption.

`Inductive` (`Spec => []IInv`) is the core. None of the safety invariants is
inductive by itself: whether `outstanding` is right depends on where the operation
of each thread is. IInv says where a thread can be on its way around the loop:
*Idle* (free), *Queued*, *Held*, *Completed*, *Lost* (its worker died), or *Leaving* (the exit of
the workers has begun), with the process number of whatever it carries in
each case. To this it adds

* that `outstanding` counts the threads that are not free (CountInv),
* that each thread plays one of its own numbers t, t + Concurrency, ..., and the
  worker's own `process` field is never ahead of it: a worker whose client is tainted
  has either not given back its operation or will see a different process
  (ClientInv),
* and, for the refinement, that a thread's process has never appeared in the
  history with `:info`, as these numbers only grow (HistoryInv).

Each action has a lemma that it preserves IInv. From the invariant follow TypeCorrect,
OneOperationPerThread, ProcessesIdentifyThreads, NoStaleClient, NothingLeftWhenDone,
LostOperationBlocks, ExitOvertakesNothing (an action property) and
HistoryIsWellFormed, the refinement of History step by step. The arithmetic comes
first: OwnerIsUnique says that the numbers of different threads never meet.

Its second part is about SecondRun, for the same constants, and rests on the first. Until `Again`, SecondRun makes the steps of
RunCases, so IInv holds of it (*FirstCall*). Afterwards IInv does not hold, and *SecondCall* takes its place: a worker is
given at most one operation and nothing comes back from it (*OneWay*), each thread plays the process of its own number
(*FirstProcess*), and what a worker has from the first call is as that call left it, with a client that
is closed if it had one (*Inherited*). The step of `Again` is where the first
gives the second: IInv says that nothing is left when the first call is done. The
theorems are SecondCallGetsNothing and, for clients that do not throw, CrashIsOfFirstProcess.

Its third part is about RunGenerators, and rests on the first. What a generator does, it does by calling
smaller ones, so everything is shown by induction on the size (as a least counterexample, by WFMin
of the library, as the prover cannot instantiate induction over a predicate). At the bottom are facts about the shape:
what the recursive functions are at each level, that a tree of size n has parts of smaller sizes, and that more levels
change nothing. Then, one lemma per class and method:

* *Keeps*, *UpdateKeeps*: `copyOne` and `update` yield a generator of the same sort and no larger;
* *Proper* is what `op` may answer: an operation of the sort with the process of a free thread its filter lets
  through, at the time of the context or later, and generators of the sort, in the answer as in
  `self`; pending only if such a thread is missing; of a crash nothing is said. *Responds* says that the
  smaller generators answer so, and OpStep that then the present one does;
* *Ordered*, *Orders*: on a list in wrappers `op` either leaves the names that are to come, or dispatches the
  first and leaves the others; nil comes when all names are out, or all but the last if a wrapper other than `Validate`
  is around the list (*AtMostTheLast*). `update` leaves the names (*SameNames*);
* *Calm*, *StaysCalm*: if every mix has an endless member and no Stagger a `dt` of zero, `op` does not crash on a generator that is
  solid or null (*Harmless*), and leaves it so. An endless member is never exhausted, so `mix()` always has
  one to draw; the copies of solid members are solid, so `copyOne` meets no null pointer (HarmlessCopies, SolidCopies);
  and `update`, which makes null of empty lists, meets none (HarmlessUpdates, *KeepsSolid*).

These notions and the invariants are in `GeneratorInvariants`, their lemmas in `RunCasesProofs`.
With them the loop is a matter of one action at a time. GIInv joins IInv of the first part with the sort of `gen`; it gives
LoopAsInRunCases, the refinement of RunCases: the answer is for a free thread, so that `DispatchTo` is possible,
and pending never comes when all threads are free. An invariant for each property goes on from there: PlacedInv
gives OperationsOnRightThread; SteadyInv, that the generator stays harmless, gives SteadyPlansNeverCrash; TimedInv gives TimeLimitHolds (the cutoff is
at most `limit + behind` after every operation, as nothing in the plan has a `next_time` later than `now + behind`); OrderInv, that
what is dispatched and what is to come make up the names of the plan, gives ListsKeepTheirOrder.

`InstallArchiveProofs`, for every finite set of archives, every set of names, every
`Fallible` and every `MaxCalls` that satisfy UrlAssumption. Its inductive invariant adds to the types what the commands so
far have left if none failed (Stage): the copy in the cache is complete when it is
unpacked, the temporary directory is new and empty, then holds exactly the archive, the
split listing has one element more than the archive has entries (LinesOfContents), and until the move
the destination is as the call found it. From it follow TypeCorrect, ArchiveIsInstalled,
NothingIsMixed, and the action property CacheIsKept.

`SSHClientProofs`, for every number of nodes and commands and every set of calls that may fail.
The inductive invariant has three parts for each client: *Sockets* (only the last socket is
still held, and a session has it), *Sessions* (which session there is at which step) and *Attempts*
(a client without a session has tried once; one that waits after a command is authenticated),
and the count of entries into libssh2, which is the number of living clients. As a step of one
thread leaves the other clients alone (OthersUnchanged), each action is a matter of one
client. From it follow CommandsNeedAuthentication, CommandsConnect, LeaksAreBounded,
EndCloses, SessionsAreKept and TypeCorrect.

`DaemonProofs`, for every set of options, process numbers, `MaxRounds` and every set of commands that may fail.
A property of one set-up depends on what all earlier rounds, programs that were killed, and
strangers have left, so the invariant says for each command what the node is like before it unless something has failed
(*Stage*): after `killall` no process of the database, after `rm` no pid file, then no directory, then an
archive of this round and nothing else, then a database on data of this round. To it come the
types, that at most one database has the ports (*OneDaemon*), and, for a set-up after a tear-down that failed, that
one that is still running explains why `start-stop-daemon` did nothing (*Waits*). From it follow NothingIsLeft,
StartsFromScratch, DatabaseRuns and TypeCorrect.

`SSHChannelProofs`, for every number of chunks and every way the connection may break. The
messages on `wire` are in the order in which the node takes its steps (*Order*) and none is there
twice (*AtMost*); every chunk of a stream is read, queued, on the wire, not yet written, or lost
with the connection (*NothingLost*); what each loop of `exec` leaves behind (*Left*), and what the
answer was made of (*Answered*). That the output is complete is not inductive without the first three: the end of
a stream is one message, its chunks are others. From it follow TrueIsEarned, AnswersAreExact and TypeCorrect.

`LifecycleProofs`, for every number of nodes, runs and killed programs. The phases are a
sequence, and the call of each node is before, in or behind the present one. The invariant gives, phase by phase,
the state of each node (*OnNodes*), of the nemesis (*NemesisIs*) and of the clients (*ClientsAre*), under the premise that no
call of this run has failed, next to the shape of the variables (*Shape*). From it follow
ClientsFindDatabases, NemesisHasItsPlace, NothingIsLeftBehind, TypeCorrect, and NodesInLockstep, the
refinement of Lockstep step by step.

`Base64Proofs`, for texts and codes of any length and every `Width` from 16 bits. The argument, from the
bottom: 2^16 divides the modulus of the accumulator, so what overflows does not touch its last 16
bits (WrapKeeps; that 2^(a+b) = 2^a * 2^b is proved by counting subsets); hence the accumulator always ends in the two bytes, or the two digits, taken last (*LastTwo*, *LastDigits*).
How many bits have been taken, put out and are held determine each other (*Held*, *Kept*), so the place in the group of
three bytes or four digits is known, and with it which bits the next digit or byte must have (EmittedDigit,
FlushedDigit, DecodedByte). The reference names bits, the lemmas DigitsOfBytes and BytesOfDigits bring
it to groups. Whitespace and padding are numbered away: Rank counts the digits up to a place, and the lemmas about it replace
an induction over the code. The invariant says that what has been put into `retval` is the beginning of the
result. From it follow CodeIsRight, DecoderIsRight, AssertionsHold, NameIsFlat and TypeCorrect;
and RoundTrip, because TextOf(CodeOf(t)) = t (TextBack).

`EtcdClientProofs`, for every set of processes, every `MaxOps` and every `MaxLost`. HistoryExplained asks of
every state for an order of the operations, and does not say how that of one state comes from that of the state before.
The invariant carries a witness along: the invocations in the order in which etcd executed them with success (*Places*),
the value of the key before and after each (*Values*), and the invocations of the requests that may still arrive
(*LateOnes*). It says where each operation is (*Threads*) and what is known of its place in the order: a request under way has none, an answer has
the value found at its place (*Requested*), a completion has the number read there, and one recorded `:fail` has no place
unless something was given up on (*Returned*). That the order respects the intervals (*Intervals*) holds because places are only added at its
end, by requests without an `:ok` completion. Each action has a lemma. Explains shows that the witness is one for
HistoryExplained: CompletionOf finds the completion (Completion, as sets of naturals have a least element), and the
recursive function of Replays is the sequence of values (ReplayIsUnique, by induction on sets of naturals, which
WFMin of the library gives without an operator as parameter). The theorem is HistoryIsExplained.

**Only model-checked** is liveness (GTermination, Termination, Answered, ReturnsUnlessSilent): it depends on fairness and
ENABLED, which the prover does not treat. Every invariant, action property and refinement of the passing runs is
a theorem.

## 5. What the code does that a reader may not expect

Found while modelling. Each is modelled as it is, where it lies in a module.

* `OperationGenerator` answers its operation with a null generator, and every
  wrapper but `Validate` treats such an answer as nil (`Generator.cpp:7-9`). The last
  operation of a finite list in any other wrapper is never dispatched (ListInOrder).
* Generators can end the program (SteadyNeverCrashes). A `Mix` whose members are all used up calls `mix()` of an empty
  vector: `rand() % 0` (`Generator.cpp:140`). So does `stagger(0, g)` with its first operation (`:335`). A `Mix` or an
  `Any` with a null member, which an empty list becomes in `update` (`:82`) and a time limit around null when it is
  copied (`:320`), calls `copyOne` on the null pointer when it is copied next (`:365, 374, 388, 434`).
* The constructors of `Stagger` ignore or do not initialise `next_time`
  (`Generator.h:180-182`). A copy forgets it, and every dispatched operation
  goes through a copy, so that stagger does not space operations. This contradicts
  the comment on `copyOne`: run `copy_one`.
* The assertion `result.size() == 0` at `Control.cpp:55` fails in every installation: a
  split has at least one element. Run `install_assertion`; `File/jepsen.log:113` shows it.
* A partial download stays in the cache and is installed by every later call that is
  not forced (CacheKept). A zip file is unpacked into the working directory of the
  shell, and the destination becomes an empty directory (InstalledTree).
* The decoder and encoder of base64 are right (EncodesText, DecodesOrThrows), but for the assertion at
  `base64.cpp:43`: `size() - 2` is unsigned, and the empty text fails it. A build without `NDEBUG` aborts there
  (`pc = "aborted"`, AssertionsHold).
* A url with a `?` in its third, sixth, ... place has a slash in its code and can never be
  fetched (SlashInName). The code of a url of more than 189 characters is longer than the 255 a
  file name may have.
* Set back, the clock prolongs a time limit by as much (`TimeHelper.cpp:10`, WithinTimeLimit).
* A tear-down whose `rm` fails leaves the data of the last run. The next set-up reports
  nothing and the database goes on with the old data (`ETCD.cpp:75`, the premise of FromScratch).
  With a stale pid file and neither executable nor name compared, `start-stop-daemon` takes a stranger for
  the database (the premise of SomeDatabaseRuns; the etcd test compares the executable).
* A command whose end the server does not report counts as successful, because the
  status of a channel is 0 until it is set; so may one whose node has hung up (TrueMeansSuccess).
* `waitsocket` waits ten seconds, and its result is ignored: on a silent connection, `exec` waits for
  ever (ReturnsUnlessSilent).
* `ETCDClient::invoke` reports every error as `:fail` and none as `:info` (`ETCDClient.cpp:33, 52`). A
  write whose answer was lost may take effect after its `:fail`, and after later operations of the
  same process: a checker must read `:fail` as unknown (HistoryExplained), unless every request
  was answered. The renumbering of processes is never used.
* A value that is no number ends the worker at the next read (`ETCDClient.cpp:40`), and the run
  hangs.
* A second `run` of one Runner adds clients but uses only the first ones, each in two tasks at
  the same time (`Runner.cpp:125-131`); its `runCases` then waits for ever, because the old
  workers answer into the old queue (`Runner.cpp:168`; CasesHang, NothingComesBack), or calls
  a null client (CrashesOnFirstProcess), unless its generator has no operation at all.
  Its context starts with the first processes again (`Runner.cpp:160`), so that a process that has crashed comes back in its
  part of the history.
* A nemesis that was active when a program was killed is not taken down by the next one
  before the databases are set up: only databases are (Kill; NemesisApart speaks of one run).
* A node that cannot be reached ends the whole program at its first command, from the thread of
  that node, while commands of other nodes are running (`SSHChannel.h:22-25`, AllConnected). A
  connection that is lost is never made again (`SSHClient.cpp:183`).
* A failed connection leaves its socket open (`SSHClient.cpp:42-45`). As the next failure ends
  the program, it is at most one per client (LeaksOnce).
* An exception out of `invoke` leaves the runner polling for ever, and the
  history is not written. An exception out of `close` ends the program before
  `saveHistory` is reached.

## 6. What is not modelled

* Formatting, JSON content, logging and thread names: no control depends on them.
* Generator classes without code (`FriendlyExceptions`, `Trace`, `Map`, `Filter`,
  `IgnoreUpdates`, `EachThread`, `Reserve`).
* What a remote command prints and answers: InstallArchive and SSHChannel have it where it matters.
* `libssh2`, the etcd client library, the commands of the nodes and the queue implementation: external.
* The arguments of etcd and the urls of its nodes; the length check of the base64 encoder against
  the largest string; process numbers beyond an `int` (`Context.cpp:25`).
* Overload of a connection: libssh2 reads both streams in one window, and a command that fills it with error
  output while `exec` reads the output is flow control inside libssh2.
* Members that copies of a `Mix` share (`Generator.cpp:381, 390`): generators are values.
* The demonstration programs and the interfaces without code (`Checker.h`).

## 7. Plan

Done, in this order: Context, History, RunCases, its runs and RunCasesProofs, Generator, RunGenerators,
InstallArchive and its proofs, Lifecycle with Lockstep, SSHClient and its proofs, Base64, SecondRun, the clock
in RunGenerators, Daemon, SSHChannel, EtcdClient, the proofs about Daemon, SSHChannel, Lifecycle, SecondRun, Base64 and EtcdClient,
Trees with the walk over a generator as a recursive function, the proofs about generators, and the crashes of generators. A generator class that gets
code (section 6) becomes a definition in Generator, a clause of `Fits`, and a lemma next to those of OpStep.
