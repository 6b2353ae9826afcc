--------------------------- MODULE SSHClientProofs ---------------------------
(***************************************************************************)
(* Proofs about SSHClient, for any number of nodes and of commands, and    *)
(* any calls that may fail.                                                *)
(***************************************************************************)
EXTENDS SSHClient, FiniteSetTheorems, TLAPS

-----------------------------------------------------------------------------
(***************************************************************************)
(* The inductive invariant: the types, what holds of each client at each   *)
(* step of its thread, and how often libssh2 was entered.                  *)
(***************************************************************************)
SessionType == [state : {"null", "new", "shaken", "authenticated"},
                on    : Nat \cup {kSocketInit}]

Types ==
  /\ program \in {"running", "exited", "crashed", "ended"}
  /\ pc \in [Nodes -> {"unmade", "idle", "gone"} \cup Connecting \cup Channel]
  /\ attempts \in [Nodes -> 0 .. 2]
  /\ commands \in [Nodes -> 0 .. MaxCommands]
  /\ sock \in [Nodes -> Int]
  /\ session \in [Nodes -> SessionType]
  /\ open \in [Nodes -> SUBSET Int]
  /\ sessions \in [Nodes -> Nat]
  /\ hosts \in [Nodes -> 0 .. 1]
  /\ libssh2 \in Int
  /\ link \in [Nodes -> {"up", "lost"}]

\* The sockets: only the last may be closed again, and a session has it.
Sockets(n) ==
  /\ open[n] \subseteq 1 .. attempts[n]
  /\ sock[n] \in open[n] \cup {kSocketInit}
  /\ open[n] \ {sock[n]} \subseteq 1 .. attempts[n] - 1
  /\ pc[n] = "socket" => open[n] \subseteq 1 .. attempts[n] - 1
  /\ pc[n] = "session" \/ session[n] # Null => sock[n] = attempts[n]

\* The session: which one a client has at which step.
Sessions(n) ==
  /\ sessions[n] = IF session[n] = Null THEN 0 ELSE 1
  /\ session[n].state = "null" => session[n] = Null
  /\ session[n].state \in {"shaken", "authenticated"} => session[n].on = sock[n]
  /\ pc[n] \in {"unmade", "socket", "session", "gone"} => session[n] = Null
  /\ pc[n] = "handshake" => session[n].state = "new"
  /\ pc[n] \in {"knownhosts", "authenticate"} => session[n].state = "shaken"
  /\ pc[n] \in {"exec", "read", "close"} => session[n].state = "authenticated"

\* The attempts: a client that was given a command and waits for the next
\* has a connection; one without a session has tried once.
Attempts(n) ==
  /\ pc[n] = "unmade" <=> attempts[n] = 0
  /\ pc[n] = "unmade" => commands[n] = 0
  /\ pc[n] \in {"unmade", "gone"} => sock[n] = kSocketInit
  /\ pc[n] \in {"unmade"} \cup Connecting => hosts[n] = 0
  /\ pc[n] \in Connecting /\ attempts[n] = 1 => commands[n] = 0
  /\ pc[n] = "idle" /\ commands[n] > 0 => session[n].state = "authenticated"
  /\ pc[n] = "idle" /\ session[n] = Null => attempts[n] = 1 /\ hosts[n] = 0

ClientInv(n) == Sockets(n) /\ Sessions(n) /\ Attempts(n)

Made == {n \in Nodes : pc[n] \notin {"unmade", "gone"}}

Entered ==
  /\ libssh2 = Cardinality(Made)
  /\ program = "ended" => \A n \in Nodes : pc[n] = "gone"

IInv == Types /\ (\A n \in Nodes : ClientInv(n)) /\ Entered

-----------------------------------------------------------------------------
(***************************************************************************)
(* What the steps have in common.                                          *)
(***************************************************************************)

\* The values connectTo gives the session are sessions (SSHClient.cpp:51-67).
LEMMA SessionValues ==
  /\ Null \in SessionType
  /\ [state |-> "new", on |-> kSocketInit] \in SessionType
  /\ \A k \in Nat \cup {kSocketInit} : [state |-> "shaken", on |-> k] \in SessionType
  /\ \A x \in SessionType : [x EXCEPT !.state = "authenticated"] \in SessionType
BY DEF Null, SessionType

\* A step of one thread leaves the other clients as they are.
LEMMA OthersUnchanged ==
  ASSUME NEW m \in Nodes, ClientInv(m),
         pc'[m] = pc[m], attempts'[m] = attempts[m], commands'[m] = commands[m],
         sock'[m] = sock[m], session'[m] = session[m], open'[m] = open[m],
         sessions'[m] = sessions[m], hosts'[m] = hosts[m]
  PROVE  ClientInv(m)'
BY DEF ClientInv, Sockets, Sessions, Attempts

\* libssh2 is entered once for every client that is alive.
LEMMA MadeIsFinite == IsFiniteSet(Made)
<1>1. IsFiniteSet(Nodes)
  BY FS_Interval, ClientAssumption DEF Nodes
<1> QED BY <1>1, FS_Subset DEF Made

\* A step of a client that is alive, and stays so, leaves the count alone
\* (every step but those of SSHClient.h:27-62).
LEMMA StaysEntered ==
  ASSUME IInv, NEW n \in Nodes, NEW p, pc' = [pc EXCEPT ![n] = p],
         pc[n] \notin {"unmade", "gone"}, p \notin {"unmade", "gone"},
         program = "running", UNCHANGED <<program, libssh2>>
  PROVE  Entered'
<1>1. Made' = Made
  BY DEF IInv, Types, Made
<1> QED BY <1>1 DEF IInv, Entered

\* The initial state.
LEMMA InitIInv == Init => IInv
<1> SUFFICES ASSUME Init PROVE IInv
  OBVIOUS
<1>1. Types
  BY ClientAssumption DEF Init, Types, SessionType, Null, kSocketInit
<1>2. ASSUME NEW n \in Nodes PROVE ClientInv(n)
  BY DEF Init, ClientInv, Sockets, Sessions, Attempts, Null, kSocketInit, Connecting, Channel
<1>3. Made = {}
  BY DEF Init, Made
<1>4. Entered
  BY <1>3, FS_EmptySet DEF Init, Entered
<1> QED BY <1>1, <1>2, <1>4 DEF IInv

\* The end of the program leaves everything as it was.
LEMMA DiesKeepsIInv ==
  ASSUME IInv, NEW how \in {"exited", "crashed"}, Dies(how)
  PROVE  IInv'
<1> USE DEF Dies, client, held
<1>1. Types'
  BY DEF IInv, Types
<1>2. ASSUME NEW m \in Nodes PROVE ClientInv(m)'
  BY OthersUnchanged DEF IInv
<1>3. Made' = Made
  BY DEF Made
<1>4. Entered'
  BY <1>3 DEF IInv, Entered
<1> QED BY <1>1, <1>2, <1>4 DEF IInv

-----------------------------------------------------------------------------
(***************************************************************************)
(* Every action preserves the invariant.                                   *)
(***************************************************************************)

\* A client is made (SSHClient.h:27-56).
LEMMA ConstructStep == ASSUME IInv, NEW n \in Nodes, Construct(n) PROVE IInv'
<1>1. CASE Dies("exited")
  BY <1>1, DiesKeepsIInv
<1>2. CASE ~Dies("exited")
  <2> USE <1>2 DEF Construct, At, Goto
  <2>1. Types'
    BY ClientAssumption DEF IInv, Types, Connecting
  <2>2. ASSUME NEW m \in Nodes, m # n PROVE ClientInv(m)'
    BY <2>2, OthersUnchanged DEF IInv, Types
  <2>3. ClientInv(n)'
    BY DEF IInv, Types, ClientInv, Sockets, Sessions, Attempts, Null, kSocketInit, Connecting, SessionType
  <2>4. Made' = Made \cup {n} /\ n \notin Made
    BY DEF IInv, Types, Made
  <2>5. Entered'
    BY <2>4, MadeIsFinite, FS_AddElement DEF IInv, Entered
  <2> QED BY <2>1, <2>2, <2>3, <2>5 DEF IInv
<1> QED BY <1>1, <1>2

\* A socket is made and connected (SSHClient.cpp:36-45).
LEMMA OpenSocketStep == ASSUME IInv, NEW n \in Nodes, OpenSocket(n) PROVE IInv'
<1> USE DEF OpenSocket, At, Goto, Return
<1>1. Types'
  BY DEF IInv, Types, Connecting, Channel, kSocketInit
<1>2. ASSUME NEW m \in Nodes, m # n PROVE ClientInv(m)'
  BY <1>2, OthersUnchanged DEF IInv, Types
<1>3. Sockets(n)'
  BY DEF IInv, Types, ClientInv, Sockets, Sessions, Attempts, kSocketInit, Connecting
<1>4. Sessions(n)' /\ Attempts(n)'
  BY DEF IInv, Types, ClientInv, Sessions, Attempts, Null, kSocketInit, Connecting
<1>5. Entered'
  BY StaysEntered
<1> QED BY <1>1, <1>2, <1>3, <1>4, <1>5 DEF IInv, ClientInv

\* A session is made (SSHClient.cpp:51-55).
LEMMA InitSessionStep == ASSUME IInv, NEW n \in Nodes, InitSession(n) PROVE IInv'
<1> USE DEF InitSession, At, Goto, Return
<1>1. Types'
  BY SessionValues DEF IInv, Types, Connecting, Channel
<1>2. ASSUME NEW m \in Nodes, m # n PROVE ClientInv(m)'
  BY <1>2, OthersUnchanged DEF IInv, Types
<1>3. Sockets(n)'
  BY DEF IInv, Types, ClientInv, Sockets, Sessions, Attempts, SessionType, Null, kSocketInit, Connecting, Channel
<1>4. Sessions(n)' /\ Attempts(n)'
  BY DEF IInv, Types, ClientInv, Sockets, Sessions, Attempts, SessionType, Null, kSocketInit, Connecting, Channel
<1>5. Entered'
  BY StaysEntered
<1> QED BY <1>1, <1>2, <1>3, <1>4, <1>5 DEF IInv, ClientInv

\* The handshake (SSHClient.cpp:61-67).
LEMMA HandshakeStep == ASSUME IInv, NEW n \in Nodes, Handshake(n) PROVE IInv'
<1> USE DEF Handshake, At, Goto, Return, held
<1>1. Types'
  <2>1. sock[n] \in Nat \cup {kSocketInit}
    BY DEF IInv, Types, ClientInv, Sockets, kSocketInit
  <2> QED BY <2>1, SessionValues DEF IInv, Types, Connecting, Channel
<1>2. ASSUME NEW m \in Nodes, m # n PROVE ClientInv(m)'
  BY <1>2, OthersUnchanged DEF IInv, Types
<1>3. Sockets(n)'
  BY DEF IInv, Types, ClientInv, Sockets, Sessions, Attempts, SessionType, Null, kSocketInit, Connecting, Channel
<1>4. Sessions(n)' /\ Attempts(n)'
  BY DEF IInv, Types, ClientInv, Sockets, Sessions, Attempts, SessionType, Null, kSocketInit, Connecting, Channel
<1>5. Entered'
  BY StaysEntered
<1> QED BY <1>1, <1>2, <1>3, <1>4, <1>5 DEF IInv, ClientInv

\* The known hosts and the key of the host (SSHClient.cpp:69-123).
LEMMA KnownHostsStep == ASSUME IInv, NEW n \in Nodes, KnownHosts(n) PROVE IInv'
<1> USE DEF KnownHosts, At, Goto, Return, client
<1>1. Types'
  <2>1. hosts[n] = 0
    BY DEF IInv, ClientInv, Attempts, Connecting
  <2> QED BY <2>1 DEF IInv, Types, Connecting, Channel
<1>2. ASSUME NEW m \in Nodes, m # n PROVE ClientInv(m)'
  BY <1>2, OthersUnchanged DEF IInv, Types
<1>3. Sockets(n)'
  BY DEF IInv, Types, ClientInv, Sockets, Sessions, Attempts, SessionType, Null, kSocketInit, Connecting, Channel
<1>4. Sessions(n)' /\ Attempts(n)'
  BY DEF IInv, Types, ClientInv, Sockets, Sessions, Attempts, SessionType, Null, kSocketInit, Connecting, Channel
<1>5. Entered'
  BY StaysEntered
<1> QED BY <1>1, <1>2, <1>3, <1>4, <1>5 DEF IInv, ClientInv

\* Authentication; a failure closes what there is (SSHClient.cpp:125-150).
LEMMA AuthenticateStep == ASSUME IInv, NEW n \in Nodes, Authenticate(n) PROVE IInv'
<1> USE DEF Authenticate, At, Goto, Return, MayFail, Disconnect, CloseSession, CloseSocket, held
<1>1. Types'
  <2>1. sessions[n] \in {0, 1} /\ (session[n] # Null => sessions[n] = 1)
    BY DEF IInv, ClientInv, Sessions
  <2>2. session' \in [Nodes -> SessionType]
    BY SessionValues DEF IInv, Types
  <2>3. sessions' \in [Nodes -> Nat]
    BY <2>1 DEF IInv, Types
  <2>4. sock' \in [Nodes -> Int] /\ open' \in [Nodes -> SUBSET Int]
    BY DEF IInv, Types, kSocketInit
  <2>5. pc' \in [Nodes -> {"unmade", "idle", "gone"} \cup Connecting \cup Channel]
    BY DEF IInv, Types, Channel
  <2> QED BY <2>2, <2>3, <2>4, <2>5 DEF IInv, Types
<1>2. ASSUME NEW m \in Nodes, m # n PROVE ClientInv(m)'
  BY <1>2, OthersUnchanged DEF IInv, Types
<1>3. Sockets(n)'
  BY DEF IInv, Types, ClientInv, Sockets, Sessions, Attempts, SessionType, Null, kSocketInit, Connecting, Channel
<1>4. Sessions(n)' /\ Attempts(n)'
  BY DEF IInv, Types, ClientInv, Sockets, Sessions, Attempts, SessionType, Null, kSocketInit, Connecting, Channel
<1>5. Entered'
  <2>1. PICK p \in {"idle", "channel"} : pc' = [pc EXCEPT ![n] = p]
    OBVIOUS
  <2> QED BY <2>1, StaysEntered
<1> QED BY <1>1, <1>2, <1>3, <1>4, <1>5 DEF IInv, ClientInv

\* A command begins, with another attempt to connect if there is no connection
\* (SSHClient.cpp:180-185).
LEMMA ExecuteStep == ASSUME IInv, NEW n \in Nodes, Execute(n) PROVE IInv'
<1> USE DEF Execute, At, Goto, NotConnected, held
<1>1. Types'
  <2>1. attempts' \in [Nodes -> 0 .. 2]
    <3>1. NotConnected(n) => attempts[n] = 1
      BY DEF IInv, Types, ClientInv, Sockets, Attempts, kSocketInit
    <3> QED BY <3>1 DEF IInv, Types
  <2>2. commands' \in [Nodes -> 0 .. MaxCommands]
    BY ClientAssumption DEF IInv, Types
  <2>3. pc' \in [Nodes -> {"unmade", "idle", "gone"} \cup Connecting \cup Channel]
    BY DEF IInv, Types, Connecting, Channel
  <2> QED BY <2>1, <2>2, <2>3 DEF IInv, Types
<1>2. ASSUME NEW m \in Nodes, m # n PROVE ClientInv(m)'
  BY <1>2, OthersUnchanged DEF IInv, Types
<1>3. Sockets(n)'
  BY DEF IInv, Types, ClientInv, Sockets, Sessions, Attempts, SessionType, Null, kSocketInit, Connecting, Channel
<1>4. Sessions(n)' /\ Attempts(n)'
  BY DEF IInv, Types, ClientInv, Sockets, Sessions, Attempts, SessionType, Null, kSocketInit, Connecting, Channel
<1>5. Entered'
  BY StaysEntered
<1> QED BY <1>1, <1>2, <1>3, <1>4, <1>5 DEF IInv, ClientInv

\* A channel is opened (SSHChannel.h:13-26).
LEMMA OpenChannelStep == ASSUME IInv, NEW n \in Nodes, OpenChannel(n) PROVE IInv'
<1>1. CASE Dies("exited") \/ Dies("crashed")
  BY <1>1, DiesKeepsIInv
<1>2. CASE ~(Dies("exited") \/ Dies("crashed"))
  <2> USE <1>2 DEF OpenChannel, At, Goto, NoChannel, ChannelPossible, client, held
  <2>1. Types'
    BY DEF IInv, Types, Channel
  <2>2. ASSUME NEW m \in Nodes, m # n PROVE ClientInv(m)'
    BY <2>2, OthersUnchanged DEF IInv, Types
  <2>3. ClientInv(n)'
    BY DEF IInv, Types, ClientInv, Sockets, Sessions, Attempts, Null, Connecting
  <2>4. Entered'
    BY StaysEntered
  <2> QED BY <2>1, <2>2, <2>3, <2>4 DEF IInv
<1> QED BY <1>1, <1>2

\* The command is sent (SSHChannel.cpp:54-60).
LEMMA ExecStep == ASSUME IInv, NEW n \in Nodes, Exec(n) PROVE IInv'
<1>1. CASE Dies("exited") \/ Dies("crashed")
  BY <1>1, DiesKeepsIInv
<1>2. CASE ~(Dies("exited") \/ Dies("crashed"))
  <2> USE <1>2 DEF Exec, At, Goto, client, held
  <2>1. Types'
    BY DEF IInv, Types, Channel
  <2>2. ASSUME NEW m \in Nodes, m # n PROVE ClientInv(m)'
    BY <2>2, OthersUnchanged DEF IInv, Types
  <2>3. ClientInv(n)'
    BY DEF IInv, Types, ClientInv, Sockets, Sessions, Attempts, Null, Connecting
  <2>4. Entered'
    BY StaysEntered
  <2> QED BY <2>1, <2>2, <2>3, <2>4 DEF IInv
<1> QED BY <1>1, <1>2

\* Its output is read (SSHChannel.cpp:61-124).
LEMMA ReadStep == ASSUME IInv, NEW n \in Nodes, Read(n) PROVE IInv'
<1> USE DEF Read, At, Goto, client, held
<1>1. Types'
  BY DEF IInv, Types, Channel
<1>2. ASSUME NEW m \in Nodes, m # n PROVE ClientInv(m)'
  BY <1>2, OthersUnchanged DEF IInv, Types
<1>3. ClientInv(n)'
  BY DEF IInv, Types, ClientInv, Sockets, Sessions, Attempts, Null, Connecting
<1>4. Entered'
  BY StaysEntered
<1> QED BY <1>1, <1>2, <1>3, <1>4 DEF IInv

\* It is answered (SSHChannel.cpp:13-47).
LEMMA CloseStep == ASSUME IInv, NEW n \in Nodes, Close(n) PROVE IInv'
<1> USE DEF Close, At, Goto, client, held
<1>1. Types'
  BY DEF IInv, Types, Channel
<1>2. ASSUME NEW m \in Nodes, m # n PROVE ClientInv(m)'
  BY <1>2, OthersUnchanged DEF IInv, Types
<1>3. ClientInv(n)'
  BY DEF IInv, Types, ClientInv, Sockets, Sessions, Attempts, Null, Connecting
<1>4. Entered'
  BY StaysEntered
<1> QED BY <1>1, <1>2, <1>3, <1>4 DEF IInv

\* A client is destroyed (SSHClient.h:58-62).
LEMMA DestroyStep == ASSUME IInv, NEW n \in Nodes, Destroy(n) PROVE IInv'
<1> USE DEF Destroy, At, Goto, Disconnect, CloseSession, CloseSocket
<1>1. Types'
  BY DEF IInv, Types, ClientInv, Sessions, SessionType, Null, kSocketInit
<1>2. ASSUME NEW m \in Nodes, m # n PROVE ClientInv(m)'
  BY <1>2, OthersUnchanged DEF IInv, Types
<1>3. ClientInv(n)'
  BY DEF IInv, Types, ClientInv, Sockets, Sessions, Attempts, SessionType, Null, kSocketInit, Connecting, Channel
<1>4. Made' = Made \ {n} /\ n \in Made
  BY DEF IInv, Types, Made
<1>5. Entered'
  BY <1>4, MadeIsFinite, FS_RemoveElement DEF IInv, Types, Entered
<1> QED BY <1>1, <1>2, <1>3, <1>5 DEF IInv

\* A connection is lost.
LEMMA LoseStep == ASSUME IInv, NEW n \in Nodes, Lose(n) PROVE IInv'
<1> USE DEF Lose, client, held
<1>1. Types'
  BY DEF IInv, Types
<1>2. ASSUME NEW m \in Nodes PROVE ClientInv(m)'
  BY OthersUnchanged DEF IInv
<1>3. Made' = Made
  BY DEF Made
<1>4. Entered'
  BY <1>3 DEF IInv, Entered
<1> QED BY <1>1, <1>2, <1>4 DEF IInv

\* The invariant holds of every execution.
THEOREM Inductive == Spec => []IInv
<1>1. IInv /\ [Next]_vars => IInv'
  <2> SUFFICES ASSUME IInv, [Next]_vars PROVE IInv'
    OBVIOUS
  <2>1. ASSUME NEW n \in Nodes, Construct(n) \/ Destroy(n) \/ Lose(n) PROVE IInv'
    BY <2>1, ConstructStep, DestroyStep, LoseStep
  <2>2. ASSUME NEW n \in Nodes, Connect(n) PROVE IInv'
    BY <2>2, OpenSocketStep, InitSessionStep, HandshakeStep, KnownHostsStep, AuthenticateStep DEF Connect
  <2>3. ASSUME NEW n \in Nodes, Command(n) PROVE IInv'
    BY <2>3, ExecuteStep, OpenChannelStep, ExecStep, ReadStep, CloseStep DEF Command
  <2>4. CASE UNCHANGED vars
    <3> USE <2>4 DEF vars, client, held
    <3>1. Types'
      BY DEF IInv, Types
    <3>2. ASSUME NEW m \in Nodes PROVE ClientInv(m)'
      BY OthersUnchanged DEF IInv
    <3>3. Made' = Made
      BY DEF Made
    <3>4. Entered'
      BY <3>3 DEF IInv, Entered
    <3> QED BY <3>1, <3>2, <3>4 DEF IInv
  <2> QED BY <2>1, <2>2, <2>3, <2>4 DEF Next, Ended
<1> QED BY <1>1, InitIInv, PTL DEF Spec

-----------------------------------------------------------------------------
(***************************************************************************)
(* The theorems.                                                           *)
(***************************************************************************)

\* Type correctness; a descriptor that a client holds is open
\* (SSHClient.cpp:155-172).
THEOREM TypeCorrect == Spec => []TypeOK
<1>1. IInv => TypeOK
  <2> SUFFICES ASSUME IInv PROVE TypeOK
    OBVIOUS
  <2>1. Made \subseteq Nodes /\ IsFiniteSet(Nodes) /\ Cardinality(Nodes) = NodeCount
    BY FS_Interval, ClientAssumption DEF Made, Nodes
  <2>2. Cardinality(Made) \in 0 .. NodeCount
    BY <2>1, FS_Subset, FS_CardinalityType, ClientAssumption
  <2>3. \A n \in Nodes : open[n] \subseteq 1 .. attempts[n] /\ sock[n] \in open[n] \cup {kSocketInit}
    BY DEF IInv, ClientInv, Sockets
  <2>4. attempts \in [Nodes -> Nat] /\ hosts \in [Nodes -> Nat]
    BY DEF IInv, Types
  <2> QED BY <2>2, <2>3, <2>4 DEF IInv, Types, SessionType, Entered, TypeOK
<1> QED BY <1>1, Inductive, PTL

\* Commands only go over authenticated sessions on the client's own socket
\* (SSHClient.cpp:180-189).
THEOREM CommandsNeedAuthentication == Spec => []AuthenticatedCommands
<1>1. IInv => AuthenticatedCommands
  BY DEF IInv, Types, ClientInv, Sockets, Sessions, AuthenticatedCommands, Null, kSocketInit
<1> QED BY <1>1, Inductive, PTL

\* A program that goes on has a session for every node with a command
\* (SSHClient.cpp:183-186).
THEOREM CommandsConnect == Spec => []AllConnected
<1>1. IInv => AllConnected
  BY DEF IInv, ClientInv, Sessions, Attempts, AllConnected
<1> QED BY <1>1, Inductive, PTL

\* A client leaks one socket and one collection of known hosts at most
\* (SSHClient.cpp:36-121).
THEOREM LeaksAreBounded == Spec => []LeaksOnce
<1>1. IInv => LeaksOnce
  <2> SUFFICES ASSUME IInv, NEW n \in Nodes
               PROVE  /\ attempts[n] <= 2
                      /\ Cardinality(open[n]) <= 2 /\ hosts[n] <= 1
                      /\ open[n] \ {sock[n]} \subseteq 1 .. attempts[n] - 1
    BY DEF LeaksOnce
  <2>1. open[n] \subseteq 1 .. 2
    BY DEF IInv, Types, ClientInv, Sockets
  <2>2. IsFiniteSet(1 .. 2) /\ Cardinality(1 .. 2) = 2
    <3>1. 1 \in Int /\ 2 \in Int
      OBVIOUS
    <3>2. IsFiniteSet(1 .. 2) /\ Cardinality(1 .. 2) = IF 1 > 2 THEN 0 ELSE 2 - 1 + 1
      BY ONLY <3>1, FS_Interval
    <3> QED BY <3>2
  <2>3. Cardinality(open[n]) <= 2
    BY <2>1, <2>2, FS_Subset
  <2> QED BY <2>3 DEF IInv, Types, ClientInv, Sockets
<1> QED BY <1>1, Inductive, PTL

\* A program that ends by itself leaves nothing else (SSHClient.h:58-62).
THEOREM EndCloses == Spec => []ClosedAtEnd
<1>1. IInv => ClosedAtEnd
  <2> SUFFICES ASSUME IInv, program = "ended" PROVE ClosedAtEnd
    BY DEF ClosedAtEnd
  <2>1. Made = {}
    BY DEF IInv, Entered, Made
  <2>2. libssh2 = 0
    BY <2>1, FS_EmptySet DEF IInv, Entered
  <2>3. ASSUME NEW n \in Nodes
        PROVE  /\ session[n] = Null /\ sock[n] = kSocketInit
               /\ open[n] \subseteq 1 .. attempts[n] - 1
    BY DEF IInv, Types, Entered, ClientInv, Sockets, Sessions, Attempts, kSocketInit
  <2> QED BY <2>2, <2>3 DEF ClosedAtEnd
<1> QED BY <1>1, Inductive, PTL

\* No session is overwritten while it is live (SSHClient.cpp:51, 183).
THEOREM SessionsAreKept == Spec => []NoSessionLost
<1>1. IInv => NoSessionLost
  BY DEF IInv, ClientInv, Sessions, NoSessionLost
<1> QED BY <1>1, Inductive, PTL
==============================================================================
