---------------------------- MODULE DaemonProofs ----------------------------
(***************************************************************************)
(* Proofs about Daemon, for any process numbers, any options of            *)
(* startDaemon, any commands that may fail and any number of rounds.       *)
(***************************************************************************)
EXTENDS Daemon, FiniteSetTheorems, TLAPS

-----------------------------------------------------------------------------
(***************************************************************************)
(* The inductive invariant: the types, what the commands of this round     *)
(* have left so far, and who waits for a daemon in the foreground.         *)
(***************************************************************************)
Process == [exe : {"etcd", "other"}, data : Absent .. MaxRounds]

Types ==
  /\ dir \in {Broken} \cup (Absent .. MaxRounds) /\ data \in Absent .. MaxRounds
  /\ pidfile \in Pids \cup {NoPid}
  /\ DOMAIN procs \subseteq Pids
  /\ procs \in [DOMAIN procs -> Process]
  /\ opts \in Options
  /\ pc \in {"idle", "killall", "rm_pid", "rm_dir", "torn_down", "log", "start",
             "blocked", "set_up"}
  /\ round \in 0 .. MaxRounds
  /\ pc # "idle" => round > 0
  /\ failed \subseteq {"round", "setup"} /\ crashed \in BOOLEAN

\* The ports of the node are those of one database.
OneDaemon == \A p, q \in Daemons : p = q

\* What a round none of whose commands failed has done when a command is next.
Stage ==
  "round" \notin failed =>
    /\ pc \in {"rm_pid", "rm_dir", "torn_down", "log", "start"} => Daemons = {}
    /\ pc \in {"rm_dir", "torn_down", "log", "start"} => pidfile = NoPid
    /\ pc = "torn_down" => dir = Absent
    /\ pc \in {"torn_down", "log", "start"} => data = Absent
    /\ pc \in {"log", "start", "blocked", "set_up"} => dir = round

\* Only without --background does the command wait for its daemon.
Waits == pc = "blocked" => ~opts.background

IInv == Types /\ OneDaemon /\ Stage /\ Waits /\ FromScratch /\ SomeDatabaseRuns

-----------------------------------------------------------------------------
(***************************************************************************)
(* The processes of a node.                                                *)
(***************************************************************************)

\* A process that begins has a number of its own.
LEMMA RunningProcess ==
  ASSUME NEW p \in Pids, p \notin DOMAIN procs, NEW x \in Process,
         DOMAIN procs \subseteq Pids, procs \in [DOMAIN procs -> Process],
         procs' = Running(p, x)
  PROVE  /\ DOMAIN procs' = DOMAIN procs \cup {p}
         /\ DOMAIN procs' \subseteq Pids
         /\ procs' \in [DOMAIN procs' -> Process]
         /\ procs'[p] = x
         /\ \A q \in DOMAIN procs : procs'[q] = procs[q]
         /\ Daemons' = IF x.exe = "etcd" THEN Daemons \cup {p} ELSE Daemons
BY DEF Running, Daemons

\* Processes that end leave the others alone.
LEMMA EndedProcesses ==
  ASSUME NEW S, DOMAIN procs \subseteq Pids, procs \in [DOMAIN procs -> Process],
         procs' = Restrict(procs, DOMAIN procs \ S)
  PROVE  /\ DOMAIN procs' = DOMAIN procs \ S
         /\ DOMAIN procs' \subseteq Pids
         /\ procs' \in [DOMAIN procs' -> Process]
         /\ \A q \in DOMAIN procs' : procs'[q] = procs[q]
         /\ Daemons' = Daemons \ S
BY DEF Restrict, Daemons

LEMMA InitIInv == Init => IInv
<1> SUFFICES ASSUME Init PROVE IInv
  OBVIOUS
<1>1. DOMAIN procs = {} /\ Daemons = {}
  BY DEF Init, Daemons
<1>2. procs \in [DOMAIN procs -> Process]
  BY <1>1 DEF Init
<1>3. Types
  <2>1. /\ dir \in Absent .. MaxRounds /\ data \in Absent .. MaxRounds
        /\ round \in 0 .. MaxRounds /\ pidfile = NoPid
    BY DaemonAssumption DEF Init, Absent
  <2>2. crashed \in BOOLEAN /\ opts \in Options /\ failed = {} /\ pc = "idle"
    BY DEF Init
  <2> QED BY <1>1, <1>2, <2>1, <2>2 DEF Types
<1> QED BY <1>1, <1>3 DEF Init, IInv, OneDaemon, Stage, Waits, FromScratch, SomeDatabaseRuns

-----------------------------------------------------------------------------
(***************************************************************************)
(* Every action preserves the invariant.                                   *)
(***************************************************************************)

\* stopDaemon and teardown begin (Control.cpp:118, ETCD.cpp:70-74).
LEMMA TeardownStep == ASSUME IInv, Teardown PROVE IInv'
<1> USE DEF Teardown, After, node, IInv
<1>1. Types' /\ Daemons' = Daemons
  BY DaemonAssumption DEF Types, Daemons
<1> QED BY <1>1 DEF OneDaemon, Stage, Waits, FromScratch, SomeDatabaseRuns

\* killall (Control.cpp:120).
LEMMA KillAllStep == ASSUME IInv, KillAll PROVE IInv'
<1> USE DEF KillAll, After, IInv, Succeeds, Fails, FailsFor
<1>1. CASE Succeeds /\ procs' = Restrict(procs, DOMAIN procs \ ByName)
  <2>1. Types' /\ Daemons' = {}
    BY <1>1, EndedProcesses DEF Types, ByName
  <2> QED BY <1>1, <2>1 DEF OneDaemon, Stage, Waits, FromScratch, SomeDatabaseRuns
<1>2. CASE Fails("killall") /\ UNCHANGED procs
  <2>1. Types' /\ Daemons' = Daemons
    BY <1>2 DEF Types, Daemons
  <2> QED BY <1>2, <2>1 DEF OneDaemon, Stage, Waits, FromScratch, SomeDatabaseRuns
<1> QED BY <1>1, <1>2

\* rm -rf of the pid file (Control.cpp:121).
LEMMA RmPidStep == ASSUME IInv, RmPid PROVE IInv'
<1> USE DEF RmPid, After, IInv, Succeeds, Fails, FailsFor
<1>1. Types' /\ Daemons' = Daemons
  BY DEF Types, Daemons
<1> QED BY <1>1 DEF OneDaemon, Stage, Waits, FromScratch, SomeDatabaseRuns

\* rm -rf of the directory (ETCD.cpp:75).
LEMMA RmDirStep == ASSUME IInv, RmDir PROVE IInv'
<1> USE DEF RmDir, After, IInv, Succeeds, Fails, FailsFor, DataGoes
<1>1. Types' /\ Daemons' = Daemons
  BY DaemonAssumption DEF Types, Daemons, Absent, Broken, NoPid
<1> QED BY <1>1 DEF OneDaemon, Stage, Waits, FromScratch, SomeDatabaseRuns

\* installArchive (ETCD.cpp:5-8).
LEMMA InstallStep == ASSUME IInv, Install PROVE IInv'
<1> USE DEF Install, IInv, Succeeds, FailsFor
<1>1. Types' /\ Daemons' = Daemons
  BY DaemonAssumption DEF Types, Daemons, Absent, Broken
<1> QED BY <1>1 DEF Types, OneDaemon, Stage, Waits, FromScratch, SomeDatabaseRuns

\* The line in the log (Control.cpp:78-83).
LEMMA LogStep == ASSUME IInv, Log PROVE IInv'
<1> USE DEF Log, IInv, node, Succeeds, FailsFor
<1>1. Types' /\ Daemons' = Daemons
  BY DEF Types, Daemons
<1> QED BY <1>1 DEF OneDaemon, Stage, Waits, FromScratch, SomeDatabaseRuns

\* A process is forked; it goes on if nobody has the ports (Control.cpp:94-113).
LEMMA ForkStep == ASSUME IInv, pc = "start", dir # Absent, NEW p \in Pids, Fork(p), Returns, Succeeds,
                         UNCHANGED <<dir, opts, round, crashed>>
                  PROVE  IInv'
<1> USE DEF Fork, Returns, Succeeds, IInv
<1>1. CASE PortsTaken
  <2>1. Types' /\ Daemons' = Daemons /\ pc' = "set_up"
    BY <1>1 DEF Types, Daemons
  <2>2. Daemons # {}
    BY <1>1 DEF PortsTaken
  <2>3. "round" \in failed
    BY <2>2 DEF Stage
  <2> QED BY <2>1, <2>2, <2>3 DEF OneDaemon, Stage, Waits, FromScratch, SomeDatabaseRuns
<1>2. CASE ~PortsTaken
  <2>1. data' \in Absent .. MaxRounds /\ (data = Absent => data' = round)
    BY <1>2 DEF Types, Absent
  <2>2. Etcd(data') \in Process /\ Etcd(data').exe = "etcd" /\ Etcd(data').data = data'
    BY <2>1 DEF Etcd, Process
  <2>3. Types' /\ Daemons' = {p} /\ procs'[p] = Etcd(data')
    <3>1. /\ DOMAIN procs' \subseteq Pids /\ procs' \in [DOMAIN procs' -> Process]
          /\ procs'[p] = Etcd(data') /\ Daemons' = Daemons \cup {p}
      BY <1>2, <2>2, RunningProcess DEF Types
    <3>2. Daemons = {}
      BY <1>2 DEF PortsTaken
    <3> QED BY <2>1, <3>1, <3>2 DEF Types
  <2>4. OneDaemon' /\ Waits'
    BY <2>3 DEF OneDaemon, Waits
  <2>5. Stage'
    BY <2>3 DEF Stage
  <2>6. FromScratch'
    BY <2>1, <2>2, <2>3 DEF FromScratch, Stage
  <2>7. SomeDatabaseRuns'
    BY <2>3 DEF SomeDatabaseRuns
  <2> QED BY <2>3, <2>4, <2>5, <2>6, <2>7
<1> QED BY <1>1, <1>2

\* start-stop-daemon (Control.cpp:85-116).
LEMMA StartStep == ASSUME IInv, Start PROVE IInv'
<1> USE DEF Start
<1>1. CASE dir # Absent /\ Matches(pidfile) /\ Succeeds /\ UNCHANGED <<data, pidfile, procs>>
  <2> USE <1>1 DEF IInv, Returns, Succeeds
  <2>1. Types' /\ Daemons' = Daemons /\ pc' = "set_up"
    BY DEF Types, Daemons
  <2>2. pidfile # NoPid
    BY DaemonAssumption DEF Types, Matches, NoPid
  <2>3. "round" \in failed
    BY <2>2 DEF Stage
  <2>4. opts.match_executable \/ opts.match_process_name => Daemons # {}
    BY DEF Matches, Daemons
  <2> QED BY <2>1, <2>3, <2>4 DEF OneDaemon, Stage, Waits, FromScratch, SomeDatabaseRuns
<1>2. CASE dir # Absent /\ ~Matches(pidfile) /\ Succeeds /\ \E p \in Pids : Fork(p)
  BY <1>2, ForkStep
<1>3. CASE FailsFor({"setup"}) /\ UNCHANGED <<data, pidfile, procs>>
  <2> USE <1>3 DEF IInv, Returns, FailsFor
  <2>1. Types' /\ Daemons' = Daemons /\ pc' = "set_up"
    BY DEF Types, Daemons
  <2> QED BY <2>1 DEF OneDaemon, Stage, Waits, FromScratch, SomeDatabaseRuns
<1> QED BY <1>1, <1>2, <1>3

\* The daemon in the foreground has ended (Control.cpp:91-93).
LEMMA UnblockStep == ASSUME IInv, Unblock PROVE IInv'
<1> USE DEF Unblock, IInv, node
<1>1. Types' /\ Daemons' = Daemons
  BY DEF Types, Daemons
<1> QED BY <1>1 DEF OneDaemon, Stage, Waits, FromScratch, SomeDatabaseRuns

\* A database crashes; a process begins or ends; the program is killed.
LEMMA CrashStep == ASSUME IInv, NEW p \in Pids, Crash(p) PROVE IInv'
<1> USE DEF Crash, IInv
<1>1. Types' /\ Daemons' = Daemons \ {p}
  BY EndedProcesses DEF Types
<1> QED BY <1>1 DEF OneDaemon, Stage, Waits, FromScratch, SomeDatabaseRuns

LEMMA OtherStep == ASSUME IInv, NEW p \in Pids, Other(p) PROVE IInv'
<1> USE DEF Other, IInv
<1>1. OtherExe \in Process /\ OtherExe.exe = "other"
  BY DaemonAssumption DEF OtherExe, Process, Absent
<1>2. Types' /\ Daemons' = Daemons /\ \A q \in Daemons : procs'[q] = procs[q]
  <2>1. CASE p \in DOMAIN procs
    BY <2>1, EndedProcesses DEF Types, Daemons
  <2>2. CASE p \notin DOMAIN procs
    BY <2>2, <1>1, RunningProcess DEF Types, Daemons
  <2> QED BY <2>1, <2>2
<1> QED BY <1>2 DEF OneDaemon, Stage, Waits, FromScratch, SomeDatabaseRuns

LEMMA KillStep == ASSUME IInv, Kill PROVE IInv'
<1> USE DEF Kill, IInv, node
<1>1. Types' /\ Daemons' = Daemons
  BY DEF Types, Daemons
<1> QED BY <1>1 DEF OneDaemon, Stage, Waits, FromScratch, SomeDatabaseRuns

LEMMA StutterStep == ASSUME IInv, UNCHANGED vars PROVE IInv'
BY DEF IInv, vars, node, Types, OneDaemon, Daemons, Stage, Waits, FromScratch, SomeDatabaseRuns

-----------------------------------------------------------------------------
(***************************************************************************)
(* Theorems.                                                               *)
(***************************************************************************)

\* The invariant holds in every state of every behaviour of teardown, setup
\* and the node (ETCD.cpp:3-77, Control.cpp:68-122).
THEOREM Inductive == Spec => []IInv
<1>1. IInv /\ [Next]_vars => IInv'
  BY TeardownStep, KillAllStep, RmPidStep, RmDirStep, InstallStep, LogStep, StartStep,
     UnblockStep, CrashStep, OtherStep, KillStep, StutterStep DEF Next
<1> QED BY InitIInv, <1>1, PTL DEF Spec

\* The ranges of the variables; at most one database has the ports of the node
\* (ETCD.cpp:88-103).
THEOREM TypeCorrect == Spec => []TypeOK
<1>1. IInv => TypeOK
  <2> SUFFICES ASSUME IInv PROVE TypeOK
    OBVIOUS
  <2>1. Cardinality(Daemons) <= 1
    <3>1. CASE Daemons = {}
      BY <3>1, FS_EmptySet
    <3>2. CASE Daemons # {}
      <4>1. PICK p \in Daemons : Daemons = {p}
        BY <3>2 DEF IInv, OneDaemon
      <4> QED BY <4>1, FS_Singleton
    <3> QED BY <3>1, <3>2
  <2>2. \E P \in SUBSET Pids :
          procs \in [P -> [exe : {"etcd", "other"}, data : Absent .. MaxRounds]]
    BY DEF IInv, Types, Process
  <2> QED BY <2>1, <2>2 DEF IInv, Types, TypeOK
<1> QED BY Inductive, <1>1, PTL

\* After a tear-down none of whose commands failed there is no database and
\* none of its files (Control.cpp:118-122, ETCD.cpp:70-77).
THEOREM NothingIsLeft == Spec => []TornDown
<1>1. IInv => TornDown
  BY DEF IInv, Stage, TornDown
<1> QED BY Inductive, <1>1, PTL

\* A set-up after it runs the new binary on data of its own, and the pid file
\* names the daemon (ETCD.cpp:3-68, Control.cpp:94-113).
THEOREM StartsFromScratch == Spec => []FromScratch
<1>1. IInv => FromScratch
  BY DEF IInv
<1> QED BY Inductive, <1>1, PTL

\* A set-up whose own commands succeed leaves a database running, as long as
\* the executable or the name is compared (Control.cpp:97-110).
THEOREM DatabaseRuns == Spec => []SomeDatabaseRuns
<1>1. IInv => SomeDatabaseRuns
  BY DEF IInv
<1> QED BY Inductive, <1>1, PTL
=============================================================================
