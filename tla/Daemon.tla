------------------------------- MODULE Daemon -------------------------------
(***************************************************************************)
(* ETCD::teardown and ETCD::setup (src/test/etcd/ETCD.cpp) on one node,    *)
(* with ControlHelper::stopDaemon and startDaemon (src/jepsen/Control.cpp):*)
(* the database is killed and its directory removed, then the archive is   *)
(* installed and the daemon started, one remote command at a time. The     *)
(* directory holds the binary, the data, the log and the pid file.         *)
(*                                                                         *)
(* The commands are external; a Fallible one may fail, and the code looks  *)
(* at no result. The program may be killed at any command, the database    *)
(* may crash, and other processes of the node come and go and may get the  *)
(* number that a stale pid file holds. installArchive is one step here,    *)
(* with what InstallArchive shows of it.                                   *)
(***************************************************************************)
EXTENDS Integers, FiniteSets, Functions

CONSTANTS Pids,             \* process numbers of the node
          Options,          \* StartDaemonOptions with their defaults filled in
          Fallible,         \* commands that may fail
          MaxRounds         \* bound: calls of teardown

ASSUME DaemonAssumption ==
  /\ IsFiniteSet(Pids) /\ Pids \subseteq Nat \ {0}
  /\ Options \subseteq [background : BOOLEAN, make_pidfile : BOOLEAN,
                        match_executable : BOOLEAN, match_process_name : BOOLEAN]
  /\ Fallible \subseteq {"killall", "rm", "install", "start"}
  /\ MaxRounds \in Nat

NoPid  == 0
Absent == 0
Broken == -1

VARIABLES
  \* the node
  dir,              \* kDir: Absent, Broken or the round whose archive is there
  data,             \* the data directory in it: Absent or the round it is from
  pidfile,          \* what kPidFile names
  procs,            \* pid -> its executable and the data it works on
  \* the test
  opts,
  pc,               \* the next command; "idle", "torn_down", "set_up" in between
  round,            \* how often teardown was called
  \* for the properties
  failed,           \* has a command failed in this "round", in this "setup"?
  crashed           \* has a database crashed in this setup or after it?

node == <<dir, data, pidfile, procs>>
vars == <<node, opts, pc, round, failed, crashed>>

-----------------------------------------------------------------------------
Etcd(r)  == [exe |-> "etcd", data |-> r]
OtherExe == [exe |-> "other", data |-> Absent]

Daemons == {p \in DOMAIN procs : procs[p].exe = "etcd"}

Running(p, process) == [q \in DOMAIN procs \cup {p} |-> IF q = p THEN process ELSE procs[q]]

Succeeds   == UNCHANGED failed
FailsFor(s) == failed' = failed \cup {"round"} \cup s
Fails(cmd) == cmd \in Fallible /\ FailsFor({})

Init ==
  /\ dir = Absent /\ data = Absent /\ pidfile = NoPid
  /\ procs = [p \in {} |-> OtherExe]
  /\ opts \in Options
  /\ pc = "idle" /\ round = 0
  /\ failed = {} /\ crashed = FALSE

\* The commands of stopDaemon and teardown in their order.
After(c) ==
  [begin |-> "killall", killall |-> "rm_pid", rm_pid |-> "rm_dir", rm_dir |-> "torn_down"][c]

\* Teardown is what a run begins and, unless it leaves the database running,
\* ends with.
Teardown ==
  /\ pc \in {"idle", "torn_down", "set_up"} /\ round < MaxRounds
  /\ round' = round + 1
  /\ pc' = After("begin")
  /\ failed' = {}
  /\ UNCHANGED <<node, opts, crashed>>

\* Mutant: only the process of the pid file is killed.
Named == IF pidfile \in Daemons THEN {pidfile} ELSE {}

\* The processes of that name.
ByName == Daemons

\* killall -9 -w etcd.
KillAll ==
  /\ pc = "killall" /\ pc' = After("killall")
  /\ \/ Succeeds /\ procs' = Restrict(procs, DOMAIN procs \ ByName)
     \/ Fails("killall") /\ UNCHANGED procs
  /\ UNCHANGED <<dir, data, pidfile, opts, round, crashed>>

\* rm -rf pidfile.
RmPid ==
  /\ pc = "rm_pid" /\ pc' = After("rm_pid")
  /\ \/ Succeeds /\ pidfile' = NoPid
     \/ Fails("rm") /\ UNCHANGED pidfile
  /\ UNCHANGED <<dir, data, procs, opts, round, crashed>>

\* Mutant: the data is somewhere else.
DataStays == UNCHANGED data

\* The data directory goes with its parent.
DataGoes == data' = Absent

\* rm -rf kDir, where the pid file is too. If it fails something is left.
RmDir ==
  /\ pc = "rm_dir" /\ pc' = After("rm_dir")
  /\ \/ Succeeds /\ dir' = Absent /\ pidfile' = NoPid /\ DataGoes
     \/ /\ Fails("rm")
        /\ dir' \in {dir} \cup (IF dir = Absent THEN {} ELSE {Broken})
        /\ data' \in {data, Absent} /\ pidfile' \in {pidfile, NoPid}
  /\ UNCHANGED <<procs, opts, round, crashed>>

\* setup: installArchive. What is there already stays, and the archive goes
\* into it.
Install ==
  /\ pc = "torn_down" /\ pc' = "log"
  /\ crashed' = FALSE
  /\ \/ Succeeds /\ dir' = IF dir = Absent THEN round ELSE dir
     \/ /\ "install" \in Fallible /\ FailsFor({"setup"})
        /\ dir' \in {dir} \cup (IF dir = Absent THEN {Broken, round} ELSE {})
  /\ UNCHANGED <<data, pidfile, procs, opts, round>>

\* startDaemon: echo ... >> kLogFile.
Log ==
  /\ pc = "log" /\ pc' = "start"
  /\ IF dir = Absent THEN FailsFor({"setup"}) ELSE Succeeds
  /\ UNCHANGED <<node, opts, round, crashed>>

\* Mutant: any process of that number is the daemon.
MatchesNumber(p) == p \in DOMAIN procs

\* The process start-stop-daemon takes for the daemon it is to start: the pid
\* file names it and, as far as the options ask for it, it is of that name.
Matches(p) ==
  /\ p \in DOMAIN procs
  /\ opts.match_executable \/ opts.match_process_name => procs[p].exe = "etcd"

\* The ports are the same for every database of a node.
PortsTaken == Daemons # {}

\* A process is forked and its number written; it ends when it cannot listen
\* because another database does.
Fork(p) ==
  /\ p \notin DOMAIN procs
  /\ pidfile' = IF opts.make_pidfile THEN p ELSE pidfile
  /\ IF PortsTaken
     THEN UNCHANGED <<procs, data>>
     ELSE /\ data' = IF data = Absent THEN round ELSE data
          /\ procs' = Running(p, Etcd(data'))

\* Without --background the command is the daemon and returns when it ends.
Returns == IF opts.background \/ procs' = procs THEN pc' = "set_up" ELSE pc' = "blocked"

\* startDaemon: start-stop-daemon --start ... >> kLogFile, run in kDir. In what
\* is left of a directory there may be a binary or none.
Start ==
  /\ pc = "start"
  /\ \/ /\ dir # Absent /\ Matches(pidfile)
        /\ Succeeds /\ UNCHANGED <<data, pidfile, procs>>
     \/ /\ dir # Absent /\ ~Matches(pidfile)
        /\ Succeeds /\ \E p \in Pids : Fork(p)
     \/ /\ "start" \in Fallible \/ dir \in {Absent, Broken}
        /\ FailsFor({"setup"}) /\ UNCHANGED <<data, pidfile, procs>>
  /\ Returns
  /\ UNCHANGED <<dir, opts, round, crashed>>

\* The daemon in the foreground has ended.
Unblock ==
  /\ pc = "blocked" /\ Daemons = {} /\ pc' = "set_up"
  /\ UNCHANGED <<node, opts, round, failed, crashed>>

\* The database crashes, now and then a number is taken by another process or
\* becomes free again.
Crash(p) ==
  /\ p \in Daemons
  /\ procs' = Restrict(procs, DOMAIN procs \ {p}) /\ crashed' = TRUE
  /\ UNCHANGED <<dir, data, pidfile, opts, pc, round, failed>>

Other(p) ==
  /\ p \notin Daemons
  /\ procs' = IF p \in DOMAIN procs THEN Restrict(procs, DOMAIN procs \ {p})
              ELSE Running(p, OtherExe)
  /\ UNCHANGED <<dir, data, pidfile, opts, pc, round, failed, crashed>>

\* The program is killed, the node is left as it is.
Kill ==
  /\ pc # "idle" /\ pc' = "idle"
  /\ failed' = {}
  /\ UNCHANGED <<node, opts, round, crashed>>

Next ==
  \/ Teardown \/ KillAll \/ RmPid \/ RmDir
  \/ Install \/ Log \/ Start \/ Unblock
  \/ \E p \in Pids : Crash(p) \/ Other(p)
  \/ Kill

Spec == Init /\ [][Next]_vars

-----------------------------------------------------------------------------
(***************************************************************************)
(* Properties.                                                             *)
(***************************************************************************)

\* The ranges of the variables; one database at most has the ports of the node.
TypeOK ==
  /\ dir \in {Broken} \cup (Absent .. MaxRounds) /\ data \in Absent .. MaxRounds
  /\ pidfile \in Pids \cup {NoPid}
  /\ \E P \in SUBSET Pids :
       procs \in [P -> [exe : {"etcd", "other"}, data : Absent .. MaxRounds]]
  /\ Cardinality(Daemons) <= 1
  /\ opts \in Options
  /\ pc \in {"idle", "killall", "rm_pid", "rm_dir", "torn_down", "log", "start",
             "blocked", "set_up"}
  /\ round \in 0 .. MaxRounds
  /\ failed \subseteq {"round", "setup"} /\ crashed \in BOOLEAN

\* After a tear-down none of whose commands failed there is no database and
\* none of its files, whatever was left by failed commands, killed programs
\* and crashed databases, also if the pid file names another process or none
\* (Control.cpp:118-122, ETCD.cpp:70-77).
TornDown ==
  pc = "torn_down" /\ "round" \notin failed =>
    Daemons = {} /\ dir = Absent /\ data = Absent /\ pidfile = NoPid

\* A set-up that follows it starts the new binary on data of its own, and the
\* pid file names the daemon, in spite of other processes that may have got
\* the number of an old one (ETCD.cpp:3-68, Control.cpp:94-113).
FromScratch ==
  pc \in {"blocked", "set_up"} /\ "round" \notin failed /\ ~crashed =>
    /\ dir = round
    /\ \E p \in Daemons : /\ procs[p].data = round
                          /\ pidfile = IF opts.make_pidfile THEN p ELSE NoPid

\* A set-up whose own commands succeed leaves a database running even after a
\* failed tear-down, be it the old one: the number in a stale pid file is not
\* enough to do nothing, as long as the executable or the name is compared
\* (Control.cpp:97-110).
SomeDatabaseRuns ==
  /\ pc = "set_up" /\ "setup" \notin failed /\ ~crashed
  /\ opts.background /\ (opts.match_executable \/ opts.match_process_name)
  => Daemons # {}
=============================================================================
