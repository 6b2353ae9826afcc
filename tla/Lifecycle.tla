------------------------------ MODULE Lifecycle ------------------------------
(***************************************************************************)
(* A whole test: Runner::run (src/jepsen/Runner.cpp) sets up the operating *)
(* systems, wipes and sets up the databases, sets up the clients and the   *)
(* nemesis, runs the cases and takes everything down again. Each phase is  *)
(* a parallel for_each over the nodes; the nemesis runs beside the clients *)
(* in a future. The calls are those of the test's own OS, DB, Client and   *)
(* Nemesis: each may succeed, return false, which nobody looks at, or      *)
(* throw.                                                                  *)
(*                                                                         *)
(* What is on the nodes outlives the program: it may be killed at any      *)
(* time, and the next one starts with what it finds. One Runner may also   *)
(* run more than once; its clients and indexs then grow.                   *)
(***************************************************************************)
EXTENDS Integers, Sequences

CONSTANTS NodeCount,        \* Runner::nodes.size()
          LeaveDB,          \* the values of Runner::leave_db_running
          FailingRuns,      \* bound: runs of a Runner in which calls fail or throw
          MaxAgain          \* bound: further runs and further programs

ASSUME LifecycleAssumption ==
  /\ NodeCount \in Nat \ {0}
  /\ LeaveDB \subseteq BOOLEAN
  /\ FailingRuns \in Nat /\ MaxAgain \in Nat

VARIABLES
  \* the program
  leave_db,         \* Runner::leave_db_running
  status,           \* "running", "finished", "hung" or "terminated"
  phase,            \* the function run() is in
  task,             \* per element of the for_each: how far it is
  nf,               \* Runner::nf
  clients,          \* Runner::clients: what was called on each, last
  runs,             \* how often run() was called
  \* the nodes, and what the nemesis did to them
  os, db, nemesis,
  failed,           \* did a call of this run return false? (for the properties)
  kills

program == <<status, phase, task, nf, clients, runs>>
world   == <<os, db, nemesis>>
vars    == <<program, world, failed, kills, leave_db>>

-----------------------------------------------------------------------------
Nodes == 1 .. NodeCount

ClientPhases == {"setupClients", "teardownClients"}
NodePhases   == {"setupOS", "wipeDB", "setupDB", "teardownDB", "teardownOS"}

\* Mutant: the databases are not torn down before they are set up.
AfterUnwiped(p) ==
  CASE p = "setupOS" -> "setupDB" [] p = "wipeDB" -> "setupDB"
    [] p = "setupDB" -> "setupClients" [] p = "setupClients" -> "runCases"
    [] p = "runCases" -> "teardownClients"
    [] p = "teardownClients" -> IF leave_db THEN "teardownOS" ELSE "teardownDB"
    [] p = "teardownDB" -> "teardownOS" [] p = "teardownOS" -> "end"

\* The order of the calls in run(). The first teardownDB is called wipeDB.
After(p) ==
  CASE p = "setupOS"         -> "wipeDB"
    [] p = "wipeDB"          -> "setupDB"
    [] p = "setupDB"         -> "setupClients"
    [] p = "setupClients"    -> "runCases"
    [] p = "runCases"        -> "teardownClients"
    [] p = "teardownClients" -> IF leave_db THEN "teardownOS" ELSE "teardownDB"
    [] p = "teardownDB"      -> "teardownOS"
    [] p = "teardownOS"      -> "end"

\* setupClientNemesis adds a client for each node to those that are there.
ClientsAdded(cs) == cs \o [i \in Nodes |-> "new"]

\* indexs has grown along with clients, by the numbers of the nodes: element
\* j works on one of the first NodeCount clients.
ClientOf(j) == ((j - 1) % NodeCount) + 1

Elements(p, cs) == IF p \in ClientPhases THEN 1 .. Len(cs) ELSE Nodes

Init ==
  /\ leave_db \in LeaveDB
  /\ status = "running" /\ phase = "setupOS"
  /\ task = [n \in Nodes |-> "todo"]
  /\ nf = "none"
  /\ clients = <<>>
  /\ runs = 1
  /\ os = [n \in Nodes |-> "down"]
  /\ db = [n \in Nodes |-> "clean"]
  /\ nemesis = "down"
  /\ failed = FALSE
  /\ kills = 0

-----------------------------------------------------------------------------
(***************************************************************************)
(* The elements of a parallel for_each, in any order and interleaving.     *)
(***************************************************************************)

In(p, j, state) ==
  /\ status = "running" /\ phase = p
  /\ j \in DOMAIN task /\ task[j] = state

Goes(j, state) == task' = [task EXCEPT ![j] = state]

MayFail  == runs <= FailingRuns
Succeeds == UNCHANGED failed
Fails    == MayFail /\ failed' = TRUE

\* A database whose set-up or tear-down has begun is in between until the call
\* has returned true; one that is set up must have been clean.
HalfDone(p, state) ==
  CASE p = "setupDB"                  -> IF state = "clean" THEN "partial" ELSE "mixed"
    [] p \in {"wipeDB", "teardownDB"} -> IF state = "clean" THEN "clean" ELSE "mixed"
    [] OTHER                          -> state

\* The call for a node begins.
Start(j) ==
  \E p \in NodePhases :
    /\ In(p, j, "todo") /\ Goes(j, "running")
    /\ db' = [db EXCEPT ![j] = HalfDone(p, @)]
    /\ UNCHANGED <<status, phase, nf, clients, runs, os, nemesis, failed, kills>>

\* os->setup and os->teardown.
CallOS(j) ==
  \E c \in {<<"setupOS", "up">>, <<"teardownOS", "down">>} :
    /\ In(c[1], j, "running") /\ Goes(j, "done")
    /\ \/ Succeeds /\ os' = [os EXCEPT ![j] = c[2]]
       \/ Fails /\ UNCHANGED os
    /\ UNCHANGED <<status, phase, nf, clients, runs, db, nemesis, kills>>

\* db->teardown.
TeardownDB(j) ==
  /\ In("wipeDB", j, "running") \/ In("teardownDB", j, "running")
  /\ Goes(j, "done")
  /\ \/ Succeeds /\ db' = [db EXCEPT ![j] = "clean"]
     \/ Fails /\ UNCHANGED db
  /\ UNCHANGED <<status, phase, nf, clients, runs, os, nemesis, kills>>

\* db->setup.
SetupDB(j) ==
  /\ In("setupDB", j, "running") /\ Goes(j, "done")
  /\ \/ Succeeds /\ db' = [db EXCEPT ![j] = IF @ = "partial" THEN "running" ELSE "mixed"]
     \/ Fails /\ UNCHANGED db
  /\ UNCHANGED <<status, phase, nf, clients, runs, os, nemesis, kills>>

\* The two calls on a client in setupClientNemesis, open and setup, and in
\* teardownClientNemesis, teardown and close.
CallClient(j) ==
  /\ \E c \in {<<"setupClients", "todo", "open", "running">>,
               <<"setupClients", "running", "setup", "done">>,
               <<"teardownClients", "todo", "teardown", "running">>,
               <<"teardownClients", "running", "closed", "done">>} :
       /\ In(c[1], j, c[2]) /\ Goes(j, c[4])
       /\ \/ Succeeds /\ clients' = [clients EXCEPT ![ClientOf(j)] = c[3]]
          \/ Fails /\ UNCHANGED clients
  /\ UNCHANGED <<status, phase, nf, runs, world, kills>>

\* Nemesis::setup or teardown, on an instance of its own, in a thread of its
\* own or only when nf.get() asks for it.
CallNemesis ==
  /\ status = "running" /\ nf = "launched"
  /\ \/ /\ Succeeds /\ nf' = "ready"
        /\ nemesis' = IF phase = "setupClients" THEN "up" ELSE "down"
     \/ Fails /\ nf' = "ready" /\ UNCHANGED nemesis
     \/ MayFail /\ nf' = "exception" /\ UNCHANGED <<nemesis, failed>>
  /\ UNCHANGED <<status, phase, task, clients, runs, os, db, kills>>

\* Mutant: the for_each is left when one element is done.
OneDone == \E j \in DOMAIN task : task[j] = "done"

\* The for_each returns.
AllDone == \A j \in DOMAIN task : task[j] = "done"

\* An exception out of an element of a parallel for_each, out of the set-up
\* of the primaries, or out of runCases, ends the program.
Throw ==
  /\ MayFail /\ status = "running"
  /\ \/ \E j \in DOMAIN task : task[j] = "running"
     \/ phase = "setupDB" /\ AllDone
     \/ phase = "runCases"
  /\ status' = "terminated"
  /\ UNCHANGED <<phase, task, nf, clients, runs, world, failed, kills>>

-----------------------------------------------------------------------------
(***************************************************************************)
(* The thread of run().                                                    *)
(***************************************************************************)

\* Mutant: nobody waits for the nemesis.
NemesisIgnored == nf # "exception"

\* In the phases with a nemesis, nf.get() follows; elsewhere nf holds none.
NemesisDone == nf \in {"none", "ready"}

\* The next function is entered. Those with clients launch the nemesis first.
Enter(p) ==
  /\ phase' = p
  /\ clients' = IF p = "setupClients" THEN ClientsAdded(clients) ELSE clients
  /\ nf' = IF p \in ClientPhases THEN "launched" ELSE "none"
  /\ task' = IF p \in {"runCases", "end"} THEN <<>>
             ELSE [j \in Elements(p, clients') |-> "todo"]

\* A function returns to run(). At the end of setupDB the primaries are set
\* up, one after the other.
Advance ==
  /\ status = "running" /\ phase # "runCases" /\ AllDone /\ NemesisDone
  /\ Enter(After(phase))
  /\ status' = IF After(phase) = "end" THEN "finished" ELSE status
  /\ UNCHANGED <<runs, world, failed, kills>>

\* nf.get() rethrows the exception of the nemesis, out of run().
GetThrows ==
  /\ status = "running" /\ AllDone /\ nf = "exception"
  /\ status' = "terminated"
  /\ UNCHANGED <<phase, task, nf, clients, runs, world, failed, kills>>

\* runCases returns.
CasesEnd ==
  /\ status = "running" /\ phase = "runCases"
  /\ Enter(After(phase))
  /\ UNCHANGED <<status, runs, world, failed, kills>>

\* runCases waits for ever: for an operation lost with its worker, or, in a
\* second run, for any operation at all, as the workers of the first run
\* complete it into the queue of the first run.
CasesHang ==
  /\ status = "running" /\ phase = "runCases" /\ (MayFail \/ runs > 1)
  /\ status' = "hung"
  /\ UNCHANGED <<phase, task, nf, clients, runs, world, failed, kills>>

\* run() is called again.
RunAgain ==
  /\ status = "finished" /\ kills + runs <= MaxAgain
  /\ status' = "running" /\ Enter("setupOS")
  /\ runs' = runs + 1
  /\ failed' = FALSE
  /\ UNCHANGED <<world, kills>>

\* The program is killed and another one started.
Kill ==
  /\ status # "finished" /\ kills + runs <= MaxAgain
  /\ kills' = kills + 1
  /\ status' = "running" /\ phase' = "setupOS"
  /\ task' = [n \in Nodes |-> "todo"]
  /\ nf' = "none" /\ clients' = <<>> /\ runs' = 1
  /\ failed' = FALSE
  /\ UNCHANGED world

Ended == status # "running" /\ UNCHANGED vars

Element(j) ==
  Start(j) \/ CallOS(j) \/ TeardownDB(j) \/ SetupDB(j) \/ CallClient(j)

Program ==
  \/ \E j \in DOMAIN task : Element(j)
  \/ CallNemesis \/ Throw \/ Advance \/ GetThrows \/ CasesEnd \/ CasesHang

\* leave_db_running is a setting: no run changes it.
Next == UNCHANGED leave_db /\ (Program \/ RunAgain \/ Kill \/ Ended)

Spec == Init /\ [][Next]_vars

-----------------------------------------------------------------------------
(***************************************************************************)
(* Properties.                                                             *)
(***************************************************************************)

\* The ranges of the variables. There is a client for every node and run
\* once they are set up, so that clients[i] is in range for all of indexs
\* (Runner.cpp:125-131).
TypeOK ==
  /\ status \in {"running", "finished", "hung", "terminated"}
  /\ phase \in NodePhases \cup ClientPhases \cup {"runCases", "end"}
  /\ \A j \in DOMAIN task : task[j] \in {"todo", "running", "done"}
  /\ nf \in {"none", "launched", "ready", "exception"}
  /\ runs \in Nat \ {0}
  /\ clients \in Seq({"new", "open", "setup", "teardown", "closed"})
  /\ Len(clients) = NodeCount * (IF phase \in {"setupOS", "wipeDB", "setupDB"}
                                 THEN runs - 1 ELSE runs)
  /\ os \in [Nodes -> {"up", "down"}]
  /\ db \in [Nodes -> {"clean", "partial", "running", "mixed"}]
  /\ nemesis \in {"up", "down"}
  /\ failed \in BOOLEAN
  /\ kills \in 0 .. MaxAgain /\ leave_db \in LeaveDB

\* From the first call on a client to the last, every node runs a database
\* that was set up from scratch in this run, whatever killed programs and
\* earlier runs have left; unless a call has failed (Runner.cpp:251-262).
ReadyForClients ==
  phase \in ClientPhases \cup {"runCases"} /\ ~failed =>
    \A n \in Nodes : os[n] = "up" /\ db[n] = "running"

\* The nemesis is only set up or taken down while no node is: cases run
\* under a nemesis whose set-up has returned, and databases are taken down
\* after its tear-down has (Runner.cpp:123-150).
NemesisApart ==
  /\ nf # "none" => phase \in ClientPhases
  /\ ~failed => /\ phase = "runCases" => nemesis = "up"
                /\ phase \in {"teardownDB", "teardownOS", "end"} => nemesis = "down"

\* A run that ends without a failed call has taken down what it has set up:
\* no client that was opened is left open, no operating system is left set
\* up, no nemesis is active and, unless it is to be left running, no database
\* (Runner.cpp:261-268).
EverythingTakenDown ==
  status = "finished" /\ ~failed =>
    /\ \A i \in DOMAIN clients : clients[i] \in {"new", "closed"}
    /\ nemesis = "down"
    /\ \A n \in Nodes : os[n] = "down" /\ db[n] = (IF leave_db THEN "running" ELSE "clean")

\* The calls of one run that are over for every node when a phase is entered,
\* and how far node n is in the next one. A run that leaves its databases
\* running has one call less.
CallsBefore ==
  CASE phase = "setupOS" -> 0
    [] phase = "wipeDB" -> 1
    [] phase = "setupDB" -> 2
    [] phase = "setupClients" -> 3
    [] phase \in {"runCases", "teardownClients"} -> 4
    [] phase = "teardownDB" -> 5
    [] phase = "teardownOS" -> IF leave_db THEN 5 ELSE 6
    [] phase = "end" -> IF leave_db THEN 6 ELSE 7

Progress(n) ==
  LET elements == {j \in DOMAIN task : ClientOf(j) = n}
  IN IF phase = "runCases" \/ \A j \in elements : task[j] = "todo" THEN 0
     ELSE IF \A j \in elements : task[j] = "done" THEN 2 ELSE 1

\* The nodes go through the calls in lockstep: no call for a node begins
\* before the earlier calls for all nodes have returned (Runner.cpp:251-270).
Steps == INSTANCE Lockstep
           WITH Node  <- Nodes,
                Calls <- 7,
                stage <- [n \in Nodes |->
                            IF phase = "end" THEN 2 * CallsBefore
                            ELSE 2 * CallsBefore + Progress(n)]
InLockstep == Steps!LSpec
==============================================================================
