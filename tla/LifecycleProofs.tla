--------------------------- MODULE LifecycleProofs ---------------------------
(***************************************************************************)
(* Proofs about Lifecycle, for any number of nodes, failing calls, runs    *)
(* and killed programs.                                                    *)
(***************************************************************************)
EXTENDS Lifecycle, SequenceTheorems, TLAPS

-----------------------------------------------------------------------------
(***************************************************************************)
(* The inductive invariant: the types, which elements a phase works on,    *)
(* and what the calls of the run so far have made of the nodes, the        *)
(* nemesis and the clients.                                                *)
(***************************************************************************)
Types ==
  /\ status \in {"running", "finished", "hung", "terminated"}
  /\ phase \in NodePhases \cup ClientPhases \cup {"runCases", "end"}
  /\ nf \in {"none", "launched", "ready", "exception"}
  /\ runs \in Nat \ {0}
  /\ clients \in Seq({"new", "open", "setup", "teardown", "closed"})
  /\ os \in [Nodes -> {"up", "down"}]
  /\ db \in [Nodes -> {"clean", "partial", "running", "mixed"}]
  /\ nemesis \in {"up", "down"}
  /\ failed \in BOOLEAN
  /\ kills \in 0 .. MaxAgain /\ leave_db \in LeaveDB

Early == {"setupOS", "wipeDB", "setupDB"}
Late  == {"teardownDB", "teardownOS", "end"}

\* What a phase works on.
Shape ==
  /\ DOMAIN task = IF phase \in {"runCases", "end"} THEN {} ELSE Elements(phase, clients)
  /\ \A j \in DOMAIN task : task[j] \in {"todo", "running", "done"}
  /\ Len(clients) = NodeCount * (IF phase \in Early THEN runs - 1 ELSE runs)
  /\ phase \notin Early => Len(clients) >= NodeCount
  /\ status = "finished" <=> phase = "end"
  /\ nf # "none" <=> phase \in ClientPhases
  /\ phase = "teardownDB" => ~leave_db

\* What the operating system and the database of node n are.
OSOf(n) ==
  /\ phase = "setupOS" /\ task[n] = "done" => os[n] = "up"
  /\ phase \in {"wipeDB", "setupDB", "runCases", "teardownDB"} \cup ClientPhases => os[n] = "up"
  /\ phase = "teardownOS" /\ task[n] = "done" => os[n] = "down"
  /\ phase = "end" => os[n] = "down"

DBOf(n) ==
  /\ phase = "wipeDB" /\ task[n] = "done" => db[n] = "clean"
  /\ phase = "setupDB" => /\ task[n] = "todo" => db[n] = "clean"
                          /\ task[n] = "running" => db[n] = "partial"
                          /\ task[n] = "done" => db[n] = "running"
  /\ phase \in ClientPhases \cup {"runCases"} => db[n] = "running"
  /\ phase = "teardownDB" /\ task[n] = "done" => db[n] = "clean"
  /\ phase \in {"teardownOS", "end"} => db[n] = IF leave_db THEN "running" ELSE "clean"

OnNodes == ~failed => \A n \in Nodes : OSOf(n) /\ DBOf(n)

NemesisIs ==
  ~failed => /\ phase = "setupClients" /\ nf = "ready" => nemesis = "up"
             /\ phase = "runCases" => nemesis = "up"
             /\ phase = "teardownClients" /\ nf = "ready" => nemesis = "down"
             /\ phase \in Late => nemesis = "down"

\* A client is closed by the last element that works on it; the clients that
\* a further run adds are not worked on.
ClientsAre ==
  /\ \A i \in 1 .. Len(clients) : i > NodeCount => clients[i] = "new"
  /\ ~failed =>
       \A n \in Nodes :
         /\ (/\ phase = "teardownClients"
             /\ \A j \in DOMAIN task : ClientOf(j) = n => task[j] = "done")
              => clients[n] = "closed"
         /\ phase \in Late => clients[n] = "closed"

IInv == Types /\ Shape /\ OnNodes /\ NemesisIs /\ ClientsAre

-----------------------------------------------------------------------------
(***************************************************************************)
(* The elements of a for_each.                                             *)
(***************************************************************************)

\* Every element works for one of the nodes, and the first ones each for the
\* node of their own number (Runner.cpp:125-131).
LEMMA ClientInRange ==
  /\ \A j \in Nat \ {0} : ClientOf(j) \in Nodes
  /\ \A n \in Nodes : ClientOf(n) = n
<1>1. ASSUME NEW j \in Nat \ {0} PROVE ClientOf(j) \in Nodes
  <2>1. NodeCount \in Nat \ {0} /\ j - 1 \in Nat
    BY LifecycleAssumption
  <2>2. (j - 1) % NodeCount \in 0 .. NodeCount - 1
    BY <2>1
  <2> QED BY <2>1, <2>2 DEF ClientOf, Nodes
<1>2. ASSUME NEW n \in Nodes PROVE ClientOf(n) = n
  <2>1. n \in 1 .. NodeCount /\ NodeCount \in Nat \ {0}
    BY LifecycleAssumption DEF Nodes
  <2>2. (n - 1) % NodeCount = n - 1
    BY <2>1
  <2> QED BY <2>1, <2>2 DEF ClientOf
<1> QED BY <1>1, <1>2

\* There is an element for every node, in every phase that has any.
LEMMA EveryNodeHasOne ==
  ASSUME Types, Shape, phase \notin {"runCases", "end"}
  PROVE  /\ \A n \in Nodes : n \in DOMAIN task
         /\ \A j \in DOMAIN task : j \in Nat \ {0}
<1>1. NodeCount \in Nat \ {0} /\ Len(clients) \in Nat
  BY LifecycleAssumption DEF Types
<1>2. CASE phase \in ClientPhases
  <2>1. DOMAIN task = 1 .. Len(clients) /\ Len(clients) >= NodeCount
    BY <1>2 DEF Shape, Elements, ClientPhases, Early
  <2> QED BY <1>1, <2>1 DEF Nodes
<1>3. CASE phase \notin ClientPhases
  <2>1. DOMAIN task = Nodes
    BY <1>3 DEF Shape, Elements
  <2> QED BY <1>1, <2>1 DEF Nodes
<1> QED BY <1>2, <1>3

\* In the phases with a call on each node there is nothing else.
LEMMA OnlyNodes ==
  ASSUME Shape, phase \in NodePhases
  PROVE  DOMAIN task = Nodes
BY DEF Shape, Elements, NodePhases, ClientPhases

LEMMA InitIInv == Init => IInv
<1> SUFFICES ASSUME Init PROVE IInv
  OBVIOUS
<1>1. Types
  <2>1. clients \in Seq({"new", "open", "setup", "teardown", "closed"})
    BY EmptySeq DEF Init
  <2>2. kills \in 0 .. MaxAgain /\ runs \in Nat \ {0}
    BY LifecycleAssumption DEF Init
  <2>3. /\ os \in [Nodes -> {"up", "down"}]
        /\ db \in [Nodes -> {"clean", "partial", "running", "mixed"}]
    BY DEF Init
  <2> QED BY <2>1, <2>2, <2>3 DEF Init, Types, NodePhases
<1>2. Shape
  <2>1. Len(clients) = 0 /\ NodeCount \in Nat
    BY LifecycleAssumption DEF Init
  <2>2. NodeCount * (runs - 1) = 0
    BY <2>1 DEF Init
  <2> QED BY <2>1, <2>2 DEF Init, Shape, Elements, ClientPhases, Early
<1>3. OnNodes /\ NemesisIs
  BY DEF Init, OnNodes, OSOf, DBOf, NemesisIs, ClientPhases, Late
<1>4. ClientsAre
  <2>1. Len(clients) = 0
    BY DEF Init
  <2> QED BY <2>1 DEF Init, ClientsAre, Late
<1> QED BY <1>1, <1>2, <1>3, <1>4 DEF IInv

-----------------------------------------------------------------------------
(***************************************************************************)
(* The steps of the elements.                                              *)
(***************************************************************************)

\* The call for a node begins (Runner.cpp:88-121).
LEMMA StartStep ==
  ASSUME IInv, UNCHANGED leave_db, NEW j \in DOMAIN task, Start(j) PROVE IInv'
<1> USE DEF IInv
<1>1. PICK p \in NodePhases :
        /\ In(p, j, "todo") /\ Goes(j, "running")
        /\ db' = [db EXCEPT ![j] = HalfDone(p, @)]
        /\ UNCHANGED <<status, phase, nf, clients, runs, os, nemesis, failed, kills>>
  BY DEF Start
<1>2. phase = p /\ DOMAIN task = Nodes /\ DOMAIN task' = Nodes /\ task[j] = "todo"
  BY <1>1, OnlyNodes DEF In, Goes
<1>3. \A n \in Nodes : /\ task'[n] = IF n = j THEN "running" ELSE task[n]
                       /\ db'[n] = IF n = j THEN HalfDone(p, db[n]) ELSE db[n]
  BY <1>1, <1>2 DEF Goes, Types
<1>4. Types'
  <2>1. HalfDone(p, db[j]) \in {"clean", "partial", "running", "mixed"}
    BY <1>2 DEF Types, HalfDone
  <2> QED BY <1>1, <2>1 DEF Types
<1>5. Shape'
  BY <1>1, <1>2, <1>3 DEF Shape, Elements
<1>6. OnNodes'
  <2> SUFFICES ASSUME ~failed', NEW n \in Nodes PROVE OSOf(n)' /\ DBOf(n)'
    BY DEF OnNodes
  <2>1. OSOf(n) /\ DBOf(n)
    BY <1>1 DEF OnNodes
  <2>2. OSOf(n)'
    BY <1>1, <1>3, <2>1 DEF OSOf
  <2>3. DBOf(n)'
    <3>1. CASE n = j
      <4>1. task[n] = "todo" /\ task'[n] = "running"
        BY <1>2, <1>3, <3>1
      <4>2. phase \notin ClientPhases \cup {"runCases", "end"}
        BY <1>2 DEF NodePhases, ClientPhases
      <4>3. p \notin {"setupDB", "wipeDB", "teardownDB"} => db'[n] = db[n]
        BY <1>3 DEF HalfDone
      <4>4. p = "setupDB" /\ db[n] = "clean" => db'[n] = "partial"
        BY <1>3, <3>1 DEF HalfDone
      <4> QED BY <1>1, <1>2, <2>1, <4>1, <4>2, <4>3, <4>4 DEF DBOf
    <3>2. CASE n # j
      BY <1>1, <1>3, <2>1, <3>2 DEF DBOf
    <3> QED BY <3>1, <3>2
  <2> QED BY <2>2, <2>3
<1>7. NemesisIs' /\ ClientsAre'
  <2>1. phase \notin ClientPhases
    BY <1>2 DEF NodePhases, ClientPhases
  <2> QED BY <1>1, <2>1 DEF NemesisIs, ClientsAre, ClientPhases
<1> QED BY <1>4, <1>5, <1>6, <1>7

\* An operating system is set up or taken down (Runner.cpp:88-100).
LEMMA CallOSStep ==
  ASSUME IInv, UNCHANGED leave_db, NEW j \in DOMAIN task, CallOS(j) PROVE IInv'
<1> USE DEF IInv
<1>1. PICK c \in {<<"setupOS", "up">>, <<"teardownOS", "down">>} :
        /\ In(c[1], j, "running") /\ Goes(j, "done")
        /\ \/ Succeeds /\ os' = [os EXCEPT ![j] = c[2]]
           \/ Fails /\ UNCHANGED os
        /\ UNCHANGED <<status, phase, nf, clients, runs, db, nemesis, kills>>
  BY DEF CallOS
<1>2. /\ phase \in {"setupOS", "teardownOS"} /\ task[j] = "running"
      /\ \/ UNCHANGED failed /\ os' = [os EXCEPT ![j] = IF phase = "setupOS" THEN "up" ELSE "down"]
         \/ failed' = TRUE /\ UNCHANGED os
  BY <1>1 DEF In, Succeeds, Fails
<1>3. DOMAIN task = Nodes /\ DOMAIN task' = Nodes
  BY <1>1, <1>2, OnlyNodes DEF Goes, NodePhases
<1>4. \A n \in Nodes : task'[n] = IF n = j THEN "done" ELSE task[n]
  BY <1>1, <1>3 DEF Goes
<1>5. Types'
  BY <1>1, <1>2, <1>3 DEF Types
<1>6. Shape'
  BY <1>1, <1>3, <1>4 DEF Shape, Elements
<1>7. OnNodes'
  <2> SUFFICES ASSUME ~failed', NEW n \in Nodes PROVE OSOf(n)' /\ DBOf(n)'
    BY DEF OnNodes
  <2>1. OSOf(n) /\ DBOf(n) /\ ~failed
    BY <1>2 DEF OnNodes
  <2>2. os'[n] = IF n = j THEN IF phase = "setupOS" THEN "up" ELSE "down" ELSE os[n]
    BY <1>2 DEF Types
  <2>3. OSOf(n)'
    BY <1>1, <1>2, <1>4, <2>1, <2>2 DEF OSOf, ClientPhases
  <2>4. DBOf(n)'
    BY <1>1, <1>2, <1>4, <2>1 DEF DBOf, ClientPhases
  <2> QED BY <2>3, <2>4
<1>8. NemesisIs' /\ ClientsAre'
  <2>1. failed \/ (failed <=> failed') \/ failed'
    BY <1>2
  <2> QED BY <1>1, <1>2, <2>1 DEF NemesisIs, ClientsAre, Late
<1> QED BY <1>5, <1>6, <1>7, <1>8

\* A database is taken down (Runner.cpp:113-121).
LEMMA TeardownDBStep ==
  ASSUME IInv, UNCHANGED leave_db, NEW j \in DOMAIN task, TeardownDB(j) PROVE IInv'
<1> USE DEF IInv
<1>1. /\ phase \in {"wipeDB", "teardownDB"} /\ task[j] = "running" /\ Goes(j, "done")
      /\ \/ UNCHANGED failed /\ db' = [db EXCEPT ![j] = "clean"]
         \/ failed' = TRUE /\ UNCHANGED db
      /\ UNCHANGED <<status, phase, nf, clients, runs, os, nemesis, kills>>
  BY DEF TeardownDB, In, Succeeds, Fails
<1>2. DOMAIN task = Nodes /\ DOMAIN task' = Nodes
  BY <1>1, OnlyNodes DEF Goes, NodePhases
<1>3. \A n \in Nodes : task'[n] = IF n = j THEN "done" ELSE task[n]
  BY <1>1, <1>2 DEF Goes
<1>4. Types'
  BY <1>1, <1>2 DEF Types
<1>5. Shape'
  BY <1>1, <1>2, <1>3 DEF Shape, Elements
<1>6. OnNodes'
  <2> SUFFICES ASSUME ~failed', NEW n \in Nodes PROVE OSOf(n)' /\ DBOf(n)'
    BY DEF OnNodes
  <2>1. OSOf(n) /\ DBOf(n) /\ ~failed
    BY <1>1 DEF OnNodes
  <2>2. db'[n] = IF n = j THEN "clean" ELSE db[n]
    BY <1>1 DEF Types
  <2>3. OSOf(n)'
    BY <1>1, <1>3, <2>1 DEF OSOf, ClientPhases
  <2>4. DBOf(n)'
    BY <1>1, <1>3, <2>1, <2>2 DEF DBOf, ClientPhases
  <2> QED BY <2>3, <2>4
<1>7. NemesisIs' /\ ClientsAre'
  BY <1>1 DEF NemesisIs, ClientsAre, Late
<1> QED BY <1>4, <1>5, <1>6, <1>7

\* A database is set up (Runner.cpp:101-112).
LEMMA SetupDBStep ==
  ASSUME IInv, UNCHANGED leave_db, NEW j \in DOMAIN task, SetupDB(j) PROVE IInv'
<1> USE DEF IInv
<1>1. /\ phase = "setupDB" /\ task[j] = "running" /\ Goes(j, "done")
      /\ \/ /\ UNCHANGED failed
            /\ db' = [db EXCEPT ![j] = IF @ = "partial" THEN "running" ELSE "mixed"]
         \/ failed' = TRUE /\ UNCHANGED db
      /\ UNCHANGED <<status, phase, nf, clients, runs, os, nemesis, kills>>
  BY DEF SetupDB, In, Succeeds, Fails
<1>2. DOMAIN task = Nodes /\ DOMAIN task' = Nodes
  BY <1>1, OnlyNodes DEF Goes, NodePhases
<1>3. \A n \in Nodes : task'[n] = IF n = j THEN "done" ELSE task[n]
  BY <1>1, <1>2 DEF Goes
<1>4. Types'
  BY <1>1, <1>2 DEF Types
<1>5. Shape'
  BY <1>1, <1>2, <1>3 DEF Shape, Elements
<1>6. OnNodes'
  <2> SUFFICES ASSUME ~failed', NEW n \in Nodes PROVE OSOf(n)' /\ DBOf(n)'
    BY DEF OnNodes
  <2>1. OSOf(n) /\ DBOf(n) /\ ~failed
    BY <1>1 DEF OnNodes
  <2>2. db'[n] = IF n = j THEN IF db[n] = "partial" THEN "running" ELSE "mixed" ELSE db[n]
    BY <1>1 DEF Types
  <2>3. OSOf(n)'
    BY <1>1, <1>3, <2>1 DEF OSOf, ClientPhases
  <2>4. DBOf(n)'
    BY <1>1, <1>3, <2>1, <2>2 DEF DBOf, ClientPhases
  <2> QED BY <2>3, <2>4
<1>7. NemesisIs' /\ ClientsAre'
  BY <1>1 DEF NemesisIs, ClientsAre, Late
<1> QED BY <1>4, <1>5, <1>6, <1>7

\* A call on a client (Runner.cpp:123-150).
LEMMA CallClientStep ==
  ASSUME IInv, UNCHANGED leave_db, NEW j \in DOMAIN task, CallClient(j) PROVE IInv'
<1> USE DEF IInv
<1>1. PICK c \in {<<"setupClients", "todo", "open", "running">>,
                  <<"setupClients", "running", "setup", "done">>,
                  <<"teardownClients", "todo", "teardown", "running">>,
                  <<"teardownClients", "running", "closed", "done">>} :
        /\ In(c[1], j, c[2]) /\ Goes(j, c[4])
        /\ \/ Succeeds /\ clients' = [clients EXCEPT ![ClientOf(j)] = c[3]]
           \/ Fails /\ UNCHANGED clients
  BY DEF CallClient
<1>2. /\ phase \in ClientPhases /\ phase = c[1] /\ c[4] \in {"running", "done"}
      /\ c[3] \in {"open", "setup", "teardown", "closed"}
      /\ phase = "teardownClients" /\ c[4] = "done" => c[3] = "closed"
      /\ UNCHANGED <<status, phase, nf, runs, os, db, nemesis, kills>>
  BY <1>1 DEF In, CallClient, ClientPhases, world
<1>3. /\ j \in Nat \ {0} /\ ClientOf(j) \in Nodes
      /\ \A n \in Nodes : n \in DOMAIN task
  BY <1>2, EveryNodeHasOne, ClientInRange DEF ClientPhases
<1>4. /\ DOMAIN task' = DOMAIN task
      /\ \A k \in DOMAIN task : task'[k] = IF k = j THEN c[4] ELSE task[k]
  BY <1>1 DEF Goes
<1>5. /\ NodeCount \in Nat \ {0} /\ Len(clients) \in Nat /\ Len(clients) >= NodeCount
      /\ \A n \in Nodes : n \in 1 .. Len(clients)
  BY <1>2, LifecycleAssumption DEF Types, Shape, Early, ClientPhases, Nodes
<1>6. /\ clients' \in Seq({"new", "open", "setup", "teardown", "closed"})
      /\ Len(clients') = Len(clients)
      /\ \A i \in 1 .. Len(clients) : i # ClientOf(j) => clients'[i] = clients[i]
      /\ ~failed' => clients'[ClientOf(j)] = c[3] /\ ~failed
  <2>1. CASE Succeeds /\ clients' = [clients EXCEPT ![ClientOf(j)] = c[3]]
    BY <1>2, <1>3, <1>5, <2>1 DEF Types, Succeeds
  <2>2. CASE Fails /\ UNCHANGED clients
    BY <2>2 DEF Types, Fails
  <2> QED BY <1>1, <2>1, <2>2
<1>7. Types'
  <2>1. failed' \in BOOLEAN
    BY <1>1 DEF Types, Succeeds, Fails
  <2> QED BY <1>2, <1>6, <2>1 DEF Types
<1>8. Shape'
  BY <1>2, <1>4, <1>6 DEF Shape, Elements
<1>9. OnNodes' /\ NemesisIs'
  BY <1>2, <1>6 DEF OnNodes, OSOf, DBOf, NemesisIs, ClientPhases
<1>10. ClientsAre'
  <2>1. \A i \in 1 .. Len(clients') : i > NodeCount => clients'[i] = "new"
    BY <1>3, <1>5, <1>6 DEF ClientsAre, Nodes
  <2>2. ASSUME ~failed', NEW n \in Nodes, phase = "teardownClients",
               \A k \in DOMAIN task' : ClientOf(k) = n => task'[k] = "done"
        PROVE  clients'[n] = "closed"
    <3>1. CASE ClientOf(j) = n
      BY <1>2, <1>4, <1>6, <2>2, <3>1
    <3>2. CASE ClientOf(j) # n
      <4>1. \A k \in DOMAIN task : ClientOf(k) = n => task[k] = "done"
        BY <1>4, <2>2, <3>2
      <4> QED BY <1>5, <1>6, <2>2, <3>2, <4>1 DEF ClientsAre
    <3> QED BY <3>1, <3>2
  <2>3. phase \notin Late
    BY <1>2 DEF ClientPhases, Late
  <2> QED BY <1>2, <2>1, <2>2, <2>3 DEF ClientsAre
<1> QED BY <1>7, <1>8, <1>9, <1>10

\* The nemesis is set up or taken down, or has thrown (Runner.cpp:123-150).
LEMMA CallNemesisStep ==
  ASSUME IInv, UNCHANGED leave_db, CallNemesis PROVE IInv'
<1> USE DEF IInv, CallNemesis, Succeeds, Fails
<1>1. /\ UNCHANGED <<status, phase, task, clients, runs, os, db, kills>>
      /\ nf = "launched" /\ phase \in ClientPhases
      /\ nf' \in {"ready", "exception"} /\ nemesis' \in {"up", "down"} /\ failed' \in BOOLEAN
      /\ ~failed' => ~failed
  BY DEF Types, Shape
<1>2. Types' /\ Shape'
  BY <1>1 DEF Types, Shape, Elements
<1>3. OnNodes' /\ ClientsAre'
  BY <1>1 DEF OnNodes, OSOf, DBOf, ClientsAre
<1>4. NemesisIs'
  BY <1>1 DEF NemesisIs, ClientPhases, Late
<1> QED BY <1>2, <1>3, <1>4

-----------------------------------------------------------------------------
(***************************************************************************)
(* The steps of the thread of run().                                       *)
(***************************************************************************)

\* A function returns to run(), and the next one is entered
\* (Runner.cpp:251-270).
LEMMA AdvanceStep == ASSUME IInv, UNCHANGED leave_db, Advance PROVE IInv'
<1> USE DEF IInv
<1>1. /\ status = "running" /\ phase \notin {"runCases", "end"} /\ AllDone /\ NemesisDone
      /\ Enter(After(phase))
      /\ status' = IF After(phase) = "end" THEN "finished" ELSE status
      /\ UNCHANGED <<runs, os, db, nemesis, failed, kills>>
  BY DEF Advance, Shape, world
<1>2. phase' = After(phase)
  BY <1>1 DEF Enter
<1>3. /\ \A n \in Nodes : n \in DOMAIN task /\ task[n] = "done"
      /\ NodeCount \in Nat \ {0} /\ Len(clients) \in Nat
  BY <1>1, EveryNodeHasOne, LifecycleAssumption DEF AllDone, Types
<1>4. <<phase, phase'>> \in
        {<<"setupOS", "wipeDB">>, <<"wipeDB", "setupDB">>, <<"setupDB", "setupClients">>,
         <<"setupClients", "runCases">>, <<"teardownDB", "teardownOS">>, <<"teardownOS", "end">>,
         <<"teardownClients", IF leave_db THEN "teardownOS" ELSE "teardownDB">>}
  BY <1>1, <1>2 DEF After, Types, NodePhases, ClientPhases
<1>5. /\ phase # "setupDB" => clients' = clients
      /\ phase = "setupDB" => clients' = ClientsAdded(clients)
      /\ phase' # "setupClients" <=> phase # "setupDB"
  BY <1>1, <1>2, <1>4 DEF Enter
<1>6. phase = "setupDB" =>
        /\ clients' \in Seq({"new", "open", "setup", "teardown", "closed"})
        /\ Len(clients') = Len(clients) + NodeCount
        /\ \A i \in 1 .. Len(clients) : clients'[i] = clients[i]
        /\ \A i \in Len(clients) + 1 .. Len(clients') : clients'[i] = "new"
  <2> DEFINE added == [i \in Nodes |-> "new"]
  <2>1. /\ added \in Seq({"new", "open", "setup", "teardown", "closed"})
        /\ Len(added) = NodeCount
        /\ \A i \in 1 .. NodeCount : added[i] = "new"
    BY <1>3 DEF Nodes
  <2>2. clients \in Seq({"new", "open", "setup", "teardown", "closed"})
    BY DEF Types
  <2>3. phase = "setupDB" => clients' = clients \o added
    BY <1>5 DEF ClientsAdded
  <2> HIDE DEF added
  <2> SUFFICES ASSUME phase = "setupDB"
               PROVE  /\ clients' \in Seq({"new", "open", "setup", "teardown", "closed"})
                      /\ Len(clients') = Len(clients) + NodeCount
                      /\ \A i \in 1 .. Len(clients) : clients'[i] = clients[i]
                      /\ \A i \in Len(clients) + 1 .. Len(clients') : clients'[i] = "new"
    OBVIOUS
  <2>4. /\ clients' \in Seq({"new", "open", "setup", "teardown", "closed"})
        /\ Len(clients') = Len(clients) + NodeCount
        /\ \A i \in 1 .. Len(clients') :
             clients'[i] = IF i <= Len(clients) THEN clients[i] ELSE added[i - Len(clients)]
    <3>1. clients' = clients \o added
      BY <2>3
    <3> QED BY <2>1, <2>2, <3>1, ConcatProperties
  <2>5. ASSUME NEW i \in Len(clients) + 1 .. Len(clients') PROVE clients'[i] = "new"
    <3>1. i \in 1 .. Len(clients') /\ ~(i <= Len(clients)) /\ i - Len(clients) \in 1 .. NodeCount
      BY <1>3, <2>4
    <3> QED BY <2>1, <2>4, <3>1
  <2> QED BY <1>3, <2>4, <2>5
<1>7. /\ nf' = IF phase' \in ClientPhases THEN "launched" ELSE "none"
      /\ task' = IF phase' \in {"runCases", "end"} THEN <<>>
                 ELSE [j \in Elements(phase', clients') |-> "todo"]
  BY <1>1, <1>2 DEF Enter
<1>8. /\ DOMAIN task' = IF phase' \in {"runCases", "end"} THEN {} ELSE Elements(phase', clients')
      /\ \A j \in DOMAIN task' : task'[j] = "todo"
  <2>1. DOMAIN <<>> = {}
    OBVIOUS
  <2> QED BY <1>7, <2>1
<1>9. Types'
  <2>1. clients' \in Seq({"new", "open", "setup", "teardown", "closed"})
    BY <1>5, <1>6 DEF Types
  <2>2. phase' \in NodePhases \cup ClientPhases \cup {"runCases", "end"}
    BY <1>4 DEF NodePhases, ClientPhases
  <2>3. /\ nf' \in {"none", "launched", "ready", "exception"}
        /\ status' \in {"running", "finished", "hung", "terminated"}
    BY <1>1, <1>7
  <2> QED BY <1>1, <2>1, <2>2, <2>3 DEF Types
<1>10. Shape'
  <2>1. Len(clients') = NodeCount * (IF phase' \in Early THEN runs - 1 ELSE runs)
        /\ (phase' \notin Early => Len(clients') >= NodeCount)
    <3>1. /\ NodeCount * (runs - 1) + NodeCount = NodeCount * runs
          /\ runs \in Nat \ {0}
      BY <1>3 DEF Types
    <3>2. CASE phase = "setupDB"
      <4>1. Len(clients) = NodeCount * (runs - 1) /\ phase' = "setupClients"
        BY <1>4, <3>2 DEF Shape, Early
      <4>2. Len(clients') = NodeCount * runs /\ Len(clients') >= NodeCount
        BY <1>3, <1>6, <3>1, <3>2, <4>1
      <4> QED BY <1>1, <4>1, <4>2 DEF Early
    <3>3. CASE phase # "setupDB"
      <4>1. phase' \in Early <=> phase \in Early
        BY <1>4, <3>3 DEF Early
      <4> QED BY <1>1, <1>5, <3>3, <4>1 DEF Shape
    <3> QED BY <3>2, <3>3
  <2>2. phase' = "teardownDB" => ~leave_db
    BY <1>4
  <2>3. status' = "finished" <=> phase' = "end"
    BY <1>1, <1>2
  <2>4. nf' # "none" <=> phase' \in ClientPhases
    BY <1>7
  <2>5. \A j \in DOMAIN task' : task'[j] \in {"todo", "running", "done"}
    BY <1>8
  <2>6. DOMAIN task' = IF phase' \in {"runCases", "end"} THEN {}
                       ELSE Elements(phase, clients)'
    BY <1>8 DEF Elements
  <2> QED BY <1>1, <2>1, <2>2, <2>3, <2>4, <2>5, <2>6 DEF Shape
<1>11. OnNodes'
  <2> SUFFICES ASSUME ~failed', NEW n \in Nodes PROVE OSOf(n)' /\ DBOf(n)'
    BY DEF OnNodes
  <2>1. OSOf(n) /\ DBOf(n) /\ task[n] = "done" /\ UNCHANGED <<os, db>>
    BY <1>1, <1>3 DEF OnNodes
  <2>2. phase' \notin {"runCases", "end"} => task'[n] = "todo"
    <3>1. Types' /\ Shape'
      BY <1>9, <1>10
    <3>2. ASSUME phase' \notin {"runCases", "end"} PROVE n \in DOMAIN task'
      <4>1. ASSUME phase' \in ClientPhases PROVE n \in 1 .. Len(clients')
        <5>1. Len(clients') >= NodeCount /\ Len(clients') \in Nat
          BY <3>1, <4>1 DEF Shape, Types, Early, ClientPhases
        <5> QED BY <1>3, <5>1 DEF Nodes
      <4>2. DOMAIN task' = IF phase' \in ClientPhases THEN 1 .. Len(clients') ELSE Nodes
        BY <1>8, <3>2 DEF Elements
      <4> QED BY <4>1, <4>2
    <3> QED BY <1>8, <3>2
  <2>3. OSOf(n)'
    BY <1>4, <2>1, <2>2 DEF OSOf, ClientPhases
  <2>4. DBOf(n)'
    BY <1>4, <2>1, <2>2 DEF DBOf, ClientPhases, Shape
  <2> QED BY <2>3, <2>4
<1>12. NemesisIs'
  <2>1. phase \in ClientPhases => nf = "ready"
    BY <1>1 DEF NemesisDone, Shape
  <2> QED BY <1>1, <1>4, <1>7, <2>1 DEF NemesisIs, ClientPhases, Late
<1>13. ClientsAre'
  <2>1. ASSUME NEW i \in 1 .. Len(clients'), i > NodeCount PROVE clients'[i] = "new"
    <3>1. CASE phase = "setupDB"
      <4>1. i \in 1 .. Len(clients) \/ i \in Len(clients) + 1 .. Len(clients')
        BY <1>3, <1>6, <3>1
      <4> QED BY <1>6, <2>1, <3>1, <4>1 DEF ClientsAre
    <3>2. CASE phase # "setupDB"
      BY <1>5, <2>1, <3>2 DEF ClientsAre
    <3> QED BY <3>1, <3>2
  <2>2. ~failed' /\ phase' \in Late => \A n \in Nodes : clients'[n] = "closed"
    BY <1>1, <1>4, <1>5 DEF ClientsAre, Late, AllDone
  <2>3. phase' # "teardownClients"
    BY <1>4
  <2> QED BY <2>1, <2>2, <2>3 DEF ClientsAre
<1> QED BY <1>9, <1>10, <1>11, <1>12, <1>13

\* runCases returns (Runner.cpp:261-263).
LEMMA CasesEndStep == ASSUME IInv, UNCHANGED leave_db, CasesEnd PROVE IInv'
<1> USE DEF IInv
<1>1. /\ status = "running" /\ phase = "runCases" /\ phase' = "teardownClients"
      /\ clients' = clients /\ nf' = "launched"
      /\ task' = [j \in 1 .. Len(clients) |-> "todo"]
      /\ UNCHANGED <<status, runs, os, db, nemesis, failed, kills>>
  BY DEF CasesEnd, Enter, After, Elements, ClientPhases, world
<1>2. NodeCount \in Nat \ {0} /\ Len(clients) \in Nat /\ Len(clients) >= NodeCount
  BY <1>1, LifecycleAssumption DEF Types, Shape, Early
<1>3. \A n \in Nodes : n \in DOMAIN task' /\ task'[n] = "todo" /\ ClientOf(n) = n
  BY <1>1, <1>2, ClientInRange DEF Nodes
<1>4. Types'
  BY <1>1 DEF Types, ClientPhases
<1>5. Shape'
  BY <1>1 DEF Shape, Elements, ClientPhases, Early
<1>6. OnNodes' /\ NemesisIs'
  BY <1>1 DEF OnNodes, OSOf, DBOf, NemesisIs, ClientPhases, Late
<1>7. ClientsAre'
  <2>1. \A n \in Nodes : \E j \in DOMAIN task' : ClientOf(j) = n /\ task'[j] # "done"
    BY <1>3
  <2> QED BY <1>1, <2>1 DEF ClientsAre, Late
<1> QED BY <1>4, <1>5, <1>6, <1>7

\* run() is called again.
LEMMA RunAgainStep == ASSUME IInv, UNCHANGED leave_db, RunAgain PROVE IInv'
<1> USE DEF IInv
<1>1. /\ phase = "end" /\ status' = "running" /\ phase' = "setupOS"
      /\ clients' = clients /\ nf' = "none" /\ runs' = runs + 1 /\ failed' = FALSE
      /\ task' = [j \in Nodes |-> "todo"]
      /\ UNCHANGED <<os, db, nemesis, kills>>
  BY DEF RunAgain, Enter, Elements, ClientPhases, world, Shape
<1>2. Types'
  <2>1. runs' \in Nat \ {0}
    BY <1>1 DEF Types
  <2> QED BY <1>1, <2>1 DEF Types, NodePhases
<1>3. Shape'
  <2>1. Len(clients) = NodeCount * runs /\ runs' - 1 = runs
    BY <1>1 DEF Shape, Early, Types
  <2> QED BY <1>1, <2>1 DEF Shape, Elements, ClientPhases, Early
<1>4. OnNodes' /\ NemesisIs' /\ ClientsAre'
  BY <1>1 DEF OnNodes, OSOf, DBOf, NemesisIs, ClientsAre, ClientPhases, Late
<1> QED BY <1>2, <1>3, <1>4

\* The program is killed, and another one started.
LEMMA KillStep == ASSUME IInv, UNCHANGED leave_db, Kill PROVE IInv'
<1> USE DEF IInv
<1>1. /\ kills + runs <= MaxAgain /\ kills' = kills + 1
      /\ status' = "running" /\ phase' = "setupOS"
      /\ clients' = <<>> /\ nf' = "none" /\ runs' = 1 /\ failed' = FALSE
      /\ task' = [n \in Nodes |-> "todo"]
      /\ UNCHANGED <<os, db, nemesis>>
  BY DEF Kill, world
<1>2. Types'
  <2>1. clients' \in Seq({"new", "open", "setup", "teardown", "closed"})
    BY <1>1, EmptySeq
  <2>2. kills' \in 0 .. MaxAgain /\ runs' \in Nat \ {0}
    BY <1>1, LifecycleAssumption DEF Types
  <2> QED BY <1>1, <2>1, <2>2 DEF Types, NodePhases
<1>3. Len(clients') = 0
  BY <1>1
<1>4. Shape'
  <2>1. NodeCount * (runs' - 1) = 0
    BY <1>1, LifecycleAssumption
  <2> QED BY <1>1, <1>3, <2>1 DEF Shape, Elements, ClientPhases, Early
<1>5. OnNodes' /\ NemesisIs'
  BY <1>1 DEF OnNodes, OSOf, DBOf, NemesisIs, ClientPhases, Late
<1>6. ClientsAre'
  BY <1>1, <1>3 DEF ClientsAre, Late
<1> QED BY <1>2, <1>4, <1>5, <1>6

\* run() is left by an exception, or does not return.
LEMMA StopStep ==
  ASSUME IInv, UNCHANGED leave_db, Throw \/ GetThrows \/ CasesHang PROVE IInv'
<1> USE DEF IInv
<1>1. /\ status = "running" /\ status' \in {"terminated", "hung"}
      /\ UNCHANGED <<phase, task, nf, clients, runs, os, db, nemesis, failed, kills>>
  BY DEF Throw, GetThrows, CasesHang, world
<1>2. Types' /\ Shape'
  BY <1>1 DEF Types, Shape, Elements
<1>3. OnNodes' /\ NemesisIs' /\ ClientsAre'
  BY <1>1 DEF OnNodes, OSOf, DBOf, NemesisIs, ClientsAre
<1> QED BY <1>2, <1>3

LEMMA StutterStep == ASSUME IInv, UNCHANGED vars PROVE IInv'
BY DEF vars, program, world, IInv, Types, Shape, Elements, OnNodes, OSOf, DBOf, NemesisIs,
       ClientsAre

-----------------------------------------------------------------------------
(***************************************************************************)
(* Theorems.                                                               *)
(***************************************************************************)

\* The invariant holds in every state of every run of every program
\* (Runner.cpp:251-270).
THEOREM Inductive == Spec => []IInv
<1>1. IInv /\ [Next]_vars => IInv'
  <2> SUFFICES ASSUME IInv, [Next]_vars PROVE IInv'
    OBVIOUS
  <2>1. ASSUME UNCHANGED leave_db, Program PROVE IInv'
    BY <2>1, StartStep, CallOSStep, TeardownDBStep, SetupDBStep, CallClientStep, CallNemesisStep,
       AdvanceStep, CasesEndStep, StopStep DEF Program, Element
  <2>2. ASSUME UNCHANGED leave_db, RunAgain \/ Kill PROVE IInv'
    BY <2>2, RunAgainStep, KillStep
  <2> QED BY <2>1, <2>2, StutterStep DEF Next, Ended
<1> QED BY InitIInv, <1>1, PTL DEF Spec

\* The ranges of the variables, and the number of clients (Runner.cpp:125-131).
THEOREM TypeCorrect == Spec => []TypeOK
<1>1. IInv => TypeOK
  BY DEF IInv, Types, Shape, Early, TypeOK
<1> QED BY Inductive, <1>1, PTL

\* Every node runs a database that was set up from scratch in this run while
\* clients are used, unless a call has failed (Runner.cpp:251-262).
THEOREM ClientsFindDatabases == Spec => []ReadyForClients
<1>1. IInv => ReadyForClients
  BY DEF IInv, OnNodes, OSOf, DBOf, ReadyForClients
<1> QED BY Inductive, <1>1, PTL

\* The nemesis is only set up and taken down between the set-up of the
\* databases and their tear-down, and is there while cases run
\* (Runner.cpp:123-150).
THEOREM NemesisHasItsPlace == Spec => []NemesisApart
<1>1. IInv => NemesisApart
  BY DEF IInv, Shape, NemesisIs, Late, NemesisApart
<1> QED BY Inductive, <1>1, PTL

\* A run that ends without a failed call leaves nothing behind
\* (Runner.cpp:261-268).
THEOREM NothingIsLeftBehind == Spec => []EverythingTakenDown
<1>1. IInv => EverythingTakenDown
  <2> SUFFICES ASSUME IInv, status = "finished", ~failed
               PROVE  /\ \A i \in DOMAIN clients : clients[i] \in {"new", "closed"}
                      /\ nemesis = "down"
                      /\ \A n \in Nodes :
                           os[n] = "down" /\ db[n] = (IF leave_db THEN "running" ELSE "clean")
    BY DEF EverythingTakenDown
  <2>1. phase = "end"
    BY DEF IInv, Shape
  <2>2. ASSUME NEW i \in DOMAIN clients PROVE clients[i] \in {"new", "closed"}
    <3>1. i \in 1 .. Len(clients) /\ NodeCount \in Nat
      BY LifecycleAssumption DEF IInv, Types
    <3>2. i > NodeCount \/ i \in Nodes
      BY <3>1 DEF Nodes
    <3> QED BY <2>1, <3>1, <3>2 DEF IInv, ClientsAre, Late
  <2> QED BY <2>1, <2>2 DEF IInv, OnNodes, OSOf, DBOf, NemesisIs, Late
<1> QED BY Inductive, <1>1, PTL

-----------------------------------------------------------------------------
(***************************************************************************)
(* Lockstep: how many calls are over in a phase, and how far a node is in  *)
(* the current one.                                                        *)
(***************************************************************************)

\* How many calls are over.
LEMMA CallsCounted ==
  ASSUME Types
  PROVE  /\ CallsBefore \in 0 .. 7
         /\ phase # "end" => CallsBefore \in 0 .. 6
  BY LifecycleAssumption DEF Types, CallsBefore, NodePhases, ClientPhases

\* A node has not begun the current call, is in it, or is through with it.
LEMMA ProgressCounted == \A n \in Nodes : Progress(n) \in {0, 1, 2}
BY DEF Progress

Stage == [n \in Nodes |-> IF phase = "end" THEN 2 * CallsBefore
                          ELSE 2 * CallsBefore + Progress(n)]

\* The first call on an element begins the call for its node.
LEMMA ElementBegins ==
  ASSUME Types, Shape, phase \notin {"runCases", "end"}, UNCHANGED <<phase, leave_db>>,
         NEW j \in DOMAIN task, task[j] = "todo", Goes(j, "running")
  PROVE  Stage' = Stage \/ Steps!StartCall(ClientOf(j))
<1> DEFINE node == ClientOf(j)
<1>1. node \in Nodes
  BY EveryNodeHasOne, ClientInRange
<1>2. /\ DOMAIN task' = DOMAIN task /\ task'[j] = "running"
      /\ \A k \in DOMAIN task : k # j => task'[k] = task[k]
  BY DEF Goes
<1>3. CallsBefore' = CallsBefore /\ CallsBefore \in 0 .. 6
  BY CallsCounted DEF CallsBefore
<1>4. ASSUME NEW n \in Nodes, n # node PROVE Progress(n)' = Progress(n)
  BY <1>2, <1>4 DEF Progress
<1>5. Progress(node)' = 1 /\ Progress(node) \in {0, 1}
  BY <1>1, <1>2 DEF Progress
<1>6. CASE Progress(node) = 1
  BY <1>3, <1>4, <1>5, <1>6 DEF Stage
<1>7. CASE Progress(node) = 0
  <2>1. \A n \in Nodes : Stage[n] = 2 * CallsBefore + Progress(n)
    BY DEF Stage
  <2>2. Stage[node] = 2 * CallsBefore /\ \A n \in Nodes : Stage[n] >= Stage[node]
    BY <1>1, <1>3, <1>7, <2>1, ProgressCounted
  <2>3. Stage[node] % 2 = 0 /\ Stage[node] < 2 * 7
    BY <1>3, <2>2
  <2>4. Stage' = [Stage EXCEPT ![node] = @ + 1]
    BY <1>1, <1>3, <1>4, <1>5, <1>7, <2>2 DEF Stage
  <2> QED BY <2>2, <2>3, <2>4 DEF Stage, Steps!StartCall
<1> QED BY <1>5, <1>6, <1>7

\* The last call on an element of a node ends the call for it.
LEMMA ElementEnds ==
  ASSUME Types, Shape, phase \notin {"runCases", "end"}, UNCHANGED <<phase, leave_db>>,
         NEW j \in DOMAIN task, task[j] = "running", Goes(j, "done")
  PROVE  Stage' = Stage \/ Steps!EndCall(ClientOf(j))
<1> DEFINE node == ClientOf(j)
<1>1. node \in Nodes
  BY EveryNodeHasOne, ClientInRange
<1>2. /\ DOMAIN task' = DOMAIN task /\ task'[j] = "done"
      /\ \A k \in DOMAIN task : k # j => task'[k] = task[k]
  BY DEF Goes
<1>3. CallsBefore' = CallsBefore /\ CallsBefore \in 0 .. 6
  BY CallsCounted DEF CallsBefore
<1>4. ASSUME NEW n \in Nodes, n # node PROVE Progress(n)' = Progress(n)
  BY <1>2, <1>4 DEF Progress
<1>5. Progress(node) = 1 /\ Progress(node)' \in {1, 2}
  BY <1>1, <1>2 DEF Progress
<1>6. CASE Progress(node)' = 1
  BY <1>3, <1>4, <1>5, <1>6 DEF Stage
<1>7. CASE Progress(node)' = 2
  <2>1. Stage[node] = 2 * CallsBefore + 1
    BY <1>1, <1>5 DEF Stage
  <2>2. Stage[node] % 2 = 1
    BY <1>3, <2>1
  <2>3. Stage' = [Stage EXCEPT ![node] = @ + 1]
    <3>1. \A n \in Nodes : Stage'[n] = 2 * CallsBefore + Progress(n)'
      BY <1>3 DEF Stage
    <3>2. Stage'[node] = Stage[node] + 1
      BY <1>1, <1>3, <1>7, <2>1, <3>1
    <3>3. \A n \in Nodes : n # node => Stage'[n] = Stage[n]
      BY <1>4, <3>1 DEF Stage
    <3> QED BY <1>1, <3>2, <3>3 DEF Stage
  <2> QED BY <2>2, <2>3 DEF Stage, Steps!EndCall
<1> QED BY <1>5, <1>6, <1>7

\* When a function returns, all its calls are over; the next begins with none.
LEMMA Boundary ==
  ASSUME IInv, IInv', UNCHANGED leave_db, Advance \/ CasesEnd
  PROVE  Stage' = Stage
<1> USE DEF IInv
<1>1. /\ phase # "end"
      /\ phase # "runCases" => AllDone
      /\ Enter(After(phase))
  BY DEF Advance, CasesEnd, Shape
<1>2. phase' = After(phase)
  BY <1>1 DEF Enter
<1>3. \A n \in Nodes : Progress(n) = IF phase = "runCases" THEN 0 ELSE 2
  <2> SUFFICES ASSUME NEW n \in Nodes, phase # "runCases" PROVE Progress(n) = 2
    BY DEF Progress
  <2>1. n \in DOMAIN task /\ ClientOf(n) = n
    BY <1>1, EveryNodeHasOne, ClientInRange
  <2> QED BY <1>1, <2>1 DEF Progress, AllDone
<1>4. phase' # "end" => \A n \in Nodes : Progress(n)' = 0
  BY <1>1, <1>2 DEF Enter, Progress
<1>5. CallsBefore' = IF phase = "runCases" THEN CallsBefore ELSE CallsBefore + 1
  <2>1. <<phase, phase'>> \in
          {<<"setupOS", "wipeDB">>, <<"wipeDB", "setupDB">>, <<"setupDB", "setupClients">>,
           <<"setupClients", "runCases">>, <<"runCases", "teardownClients">>,
           <<"teardownClients", IF leave_db THEN "teardownOS" ELSE "teardownDB">>,
           <<"teardownDB", "teardownOS">>, <<"teardownOS", "end">>}
    BY <1>1, <1>2 DEF After, Types, NodePhases, ClientPhases
  <2>2. phase = "teardownDB" => ~leave_db
    BY DEF Shape
  <2> QED BY <2>1, <2>2 DEF CallsBefore
<1> QED BY <1>1, <1>3, <1>4, <1>5, CallsCounted DEF Stage

\* A new run and a new program start over.
LEMMA Restart ==
  ASSUME phase' = "setupOS", task' = [n \in Nodes |-> "todo"]
  PROVE  Steps!StartOver
<1>1. CallsBefore' = 0 /\ \A n \in Nodes : Progress(n)' = 0
  BY DEF CallsBefore, Progress
<1> QED BY <1>1 DEF Steps!StartOver

\* No call for a node begins before the earlier calls for all nodes have
\* returned (Runner.cpp:251-270).
THEOREM NodesInLockstep == Spec => InLockstep
<1>1. Init => Steps!AtStart
  BY DEF Init, Steps!AtStart, CallsBefore, Progress
<1>2. IInv /\ IInv' /\ [Next]_vars => Steps!LNext \/ Stage' = Stage
  <2> SUFFICES ASSUME IInv, IInv', [Next]_vars PROVE Steps!LNext \/ Stage' = Stage
    OBVIOUS
  <2> USE DEF IInv
  <2>1. ASSUME UNCHANGED <<phase, leave_db, task>> PROVE Stage' = Stage
    BY <2>1 DEF Stage, CallsBefore, Progress
  <2>2. ASSUME UNCHANGED leave_db, NEW j \in DOMAIN task, Element(j)
        PROVE  Steps!LNext \/ Stage' = Stage
    <3>1. /\ UNCHANGED phase /\ phase \notin {"runCases", "end"} /\ ClientOf(j) \in Nodes
          /\ \/ task[j] = "todo" /\ Goes(j, "running")
             \/ task[j] = "running" /\ Goes(j, "done")
      <4>1. /\ UNCHANGED phase /\ phase \notin {"runCases", "end"}
            /\ \/ task[j] = "todo" /\ Goes(j, "running")
               \/ task[j] = "running" /\ Goes(j, "done")
        BY <2>2 DEF Element, Start, CallOS, TeardownDB, SetupDB, CallClient, In, NodePhases
      <4> QED BY <4>1, EveryNodeHasOne, ClientInRange
    <3> QED BY <2>2, <3>1, ElementBegins, ElementEnds DEF Steps!LNext
  <2>3. ASSUME UNCHANGED leave_db, CallNemesis \/ Throw \/ GetThrows \/ CasesHang
        PROVE  Stage' = Stage
    BY <2>1, <2>3 DEF CallNemesis, Throw, GetThrows, CasesHang
  <2>4. ASSUME UNCHANGED leave_db, Advance \/ CasesEnd PROVE Stage' = Stage
    BY <2>4, Boundary
  <2>5. ASSUME RunAgain \/ Kill PROVE Steps!LNext
    <3>1. phase' = "setupOS" /\ task' = [n \in Nodes |-> "todo"]
      BY <2>5 DEF RunAgain, Kill, Enter, Elements, ClientPhases
    <3> QED BY <3>1, Restart DEF Steps!LNext
  <2>6. ASSUME UNCHANGED vars PROVE Stage' = Stage
    BY <2>1, <2>6 DEF vars, program
  <2> QED BY <2>2, <2>3, <2>4, <2>5, <2>6 DEF Next, Program, Ended
<1>3. IInv /\ IInv' /\ [Next]_vars => [Steps!LNext]_Stage
  BY <1>2
<1> QED BY <1>1, <1>3, Inductive, PTL DEF Spec, InLockstep, Steps!LSpec, Stage
=============================================================================
