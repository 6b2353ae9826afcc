------------------------------ MODULE SSHClient ------------------------------
(***************************************************************************)
(* The connections to the nodes: SSHRemote, SSHClient and SSHChannel       *)
(* (src/jepsen/control). The Runner makes one client per node, one after   *)
(* the other; each tries to connect as it is made. Then the threads of the *)
(* phases execute commands, one thread per node, and at the end of the     *)
(* program the clients are destroyed. A client that has no connection      *)
(* tries again at a command. A channel that cannot be opened, or cannot    *)
(* start its command, ends the program, for all nodes.                     *)
(*                                                                         *)
(* Any call of the operating system or of libssh2 named in Faults may      *)
(* fail, and a connection may be lost at any time.                         *)
(***************************************************************************)
EXTENDS Integers, FiniteSets

CONSTANTS NodeCount,        \* clients, in the order they are made
          Faults,           \* calls that may fail
          MaxCommands       \* bound: commands per client

ASSUME ClientAssumption == NodeCount \in Nat \ {0} /\ MaxCommands \in Nat

kSocketInit == -1           \* no socket

VARIABLES
  program,      \* "running", "exited", "crashed" or "ended"
  pc,           \* per client: the next step of its thread
  attempts,     \* calls of connectTo; the last one made socket number attempts
  sock,         \* SSHClient::sock
  session,      \* SSHClient::session: how far it is, and its socket
  commands,     \* commands begun
  \* what the program holds
  open,         \* sockets that are open
  sessions,     \* sessions that were not freed
  hosts,        \* collections of known hosts that were not freed
  libssh2,      \* libssh2_init less libssh2_exit
  \* the world
  link          \* per client: is its last connection "up" or "lost"?

client == <<attempts, sock, session, commands>>
held   == <<open, sessions, hosts, libssh2>>
vars   == <<program, pc, client, held, link>>

-----------------------------------------------------------------------------
Nodes == 1 .. NodeCount

Null == [state |-> "null", on |-> kSocketInit]

Connecting == {"socket", "session", "handshake", "knownhosts", "authenticate"}
Channel    == {"channel", "exec", "read", "close"}

Init ==
  /\ program = "running"
  /\ pc = [n \in Nodes |-> "unmade"]
  /\ attempts = [n \in Nodes |-> 0]
  /\ sock = [n \in Nodes |-> kSocketInit]
  /\ session = [n \in Nodes |-> Null]
  /\ commands = [n \in Nodes |-> 0]
  /\ open = [n \in Nodes |-> {}]
  /\ sessions = [n \in Nodes |-> 0]
  /\ hosts = [n \in Nodes |-> 0]
  /\ libssh2 = 0
  /\ link = [n \in Nodes |-> "up"]

At(n, where)   == program = "running" /\ pc[n] = where
Goto(n, where) == pc' = [pc EXCEPT ![n] = where]

MayFail(call, n) == call \in Faults \/ link[n] = "lost"

\* exit(), or the end of the program at a null pointer.
Dies(how) ==
  /\ program' = how
  /\ UNCHANGED <<pc, client, held, link>>

-----------------------------------------------------------------------------
(***************************************************************************)
(* The constructors, one after the other, in initRemotes.                  *)
(***************************************************************************)

Construct(n) ==
  /\ At(n, "unmade")
  /\ \A m \in 1 .. n - 1 : pc[m] = "idle"
  /\ \/ /\ libssh2' = libssh2 + 1
        /\ attempts' = [attempts EXCEPT ![n] = 1]
        /\ Goto(n, "socket")
        /\ UNCHANGED <<program, sock, session, commands, open, sessions, hosts, link>>
     \/ "init" \in Faults /\ Dies("exited")

(***************************************************************************)
(* connectTo. The first call is the constructor's, the second that of      *)
(* execute; neither looks at the result.                                   *)
(***************************************************************************)

Return(n) == Goto(n, IF attempts[n] = 1 THEN "idle" ELSE "channel")

\* socket and connect. The socket of a connect that fails stays.
OpenSocket(n) ==
  /\ At(n, "socket")
  /\ \/ /\ "socket" \in Faults
        /\ sock' = [sock EXCEPT ![n] = kSocketInit]
        /\ Return(n) /\ UNCHANGED <<open, link>>
     \/ /\ sock' = [sock EXCEPT ![n] = attempts[n]]
        /\ open' = [open EXCEPT ![n] = @ \cup {attempts[n]}]
        /\ link' = [link EXCEPT ![n] = "up"]
        /\ \/ Goto(n, "session")
           \/ "connect" \in Faults /\ Return(n)
  /\ UNCHANGED <<program, attempts, session, commands, sessions, hosts, libssh2>>

InitSession(n) ==
  /\ At(n, "session")
  /\ \/ /\ session' = [session EXCEPT ![n] = [state |-> "new", on |-> kSocketInit]]
        /\ sessions' = [sessions EXCEPT ![n] = @ + 1]
        /\ Goto(n, "handshake")
     \/ /\ "session" \in Faults
        /\ session' = [session EXCEPT ![n] = Null]
        /\ Return(n) /\ UNCHANGED sessions
  /\ UNCHANGED <<program, attempts, sock, commands, open, hosts, libssh2, link>>

\* A session whose handshake fails stays.
Handshake(n) ==
  /\ At(n, "handshake")
  /\ \/ /\ link[n] = "up"
        /\ session' = [session EXCEPT ![n] = [state |-> "shaken", on |-> sock[n]]]
        /\ Goto(n, "knownhosts")
     \/ MayFail("handshake", n) /\ Return(n) /\ UNCHANGED session
  /\ UNCHANGED <<program, attempts, sock, commands, held, link>>

\* The known hosts are read and written; whatever the check of the key finds,
\* the connection is used. Without a key they are not freed.
KnownHosts(n) ==
  /\ At(n, "knownhosts")
  /\ \/ Goto(n, "authenticate") /\ UNCHANGED hosts
     \/ "knownhosts" \in Faults /\ Return(n) /\ UNCHANGED hosts
     \/ /\ "hostkey" \in Faults
        /\ hosts' = [hosts EXCEPT ![n] = @ + 1]
        /\ Return(n)
  /\ UNCHANGED <<program, client, open, sessions, libssh2, link>>

CloseSession(n) ==
  /\ session' = [session EXCEPT ![n] = Null]
  /\ sessions' = [sessions EXCEPT ![n] = IF session[n] = Null THEN @ ELSE @ - 1]

\* Mutant: the socket is only closed with a session.
CloseWithSession(n) ==
  /\ open' = [open EXCEPT ![n] = IF session[n] = Null THEN @ ELSE @ \ {sock[n]}]
  /\ sock' = [sock EXCEPT ![n] = kSocketInit]

CloseSocket(n) ==
  /\ open' = [open EXCEPT ![n] = @ \ {sock[n]}]
  /\ sock' = [sock EXCEPT ![n] = kSocketInit]

\* disConnect: what there is of a session and a socket is closed.
Disconnect(n) == CloseSession(n) /\ CloseSocket(n)

Authenticate(n) ==
  /\ At(n, "authenticate") /\ Return(n)
  /\ \/ /\ link[n] = "up"
        /\ session' = [session EXCEPT ![n].state = "authenticated"]
        /\ UNCHANGED <<sock, open, sessions>>
     \/ MayFail("authenticate", n) /\ Disconnect(n)
  /\ UNCHANGED <<program, attempts, commands, hosts, libssh2, link>>

-----------------------------------------------------------------------------
(***************************************************************************)
(* execute: a channel of its own for each command.                         *)
(***************************************************************************)

\* Mutant: a session that is not authenticated is made again.
NotAuthenticated(n) == session[n].state # "authenticated"

\* execute takes any session and any socket for a connection.
NotConnected(n) == session[n] = Null \/ sock[n] = kSocketInit

\* The constructor of Runner is done, and its destructor has not begun.
AllMade ==
  \A m \in Nodes : /\ pc[m] \in {"idle"} \cup Connecting \cup Channel
                  /\ pc[m] \in Connecting => attempts[m] > 1

Execute(n) ==
  /\ At(n, "idle") /\ commands[n] < MaxCommands /\ AllMade
  /\ commands' = [commands EXCEPT ![n] = @ + 1]
  /\ IF NotConnected(n)
       THEN /\ attempts' = [attempts EXCEPT ![n] = @ + 1]
            /\ Goto(n, "socket")
       ELSE Goto(n, "channel") /\ UNCHANGED attempts
  /\ UNCHANGED <<program, sock, session, held, link>>

\* A node gives channels to authenticated sessions.
ChannelPossible(n) == session[n].state = "authenticated" /\ link[n] = "up"

\* Mutants: the constructor goes on without a channel; the command is
\* answered with false.
NoChannelGoesOn(n)  == Goto(n, "exec") /\ UNCHANGED <<program, client, held, link>>
NoChannelQuietly(n) == Goto(n, "idle") /\ UNCHANGED <<program, client, held, link>>

\* libssh2 need not get past a null session.
NoChannel(n) ==
  \/ Dies("exited")
  \/ session[n] = Null /\ Dies("crashed")

\* The constructor of SSHChannel.
OpenChannel(n) ==
  /\ At(n, "channel")
  /\ \/ /\ ChannelPossible(n)
        /\ Goto(n, "exec") /\ UNCHANGED <<program, client, held, link>>
     \/ /\ "channel" \in Faults \/ ~ChannelPossible(n)
        /\ NoChannel(n)

\* libssh2_channel_exec.
Exec(n) ==
  /\ At(n, "exec")
  /\ \/ /\ link[n] = "up"
        /\ Goto(n, "read") /\ UNCHANGED <<program, client, held, link>>
     \/ MayFail("exec", n) /\ Dies("exited")

\* What the command writes is read to its end, or to that of the connection.
Read(n) ==
  /\ At(n, "read") /\ Goto(n, "close")
  /\ UNCHANGED <<program, client, held, link>>

\* SSHChannel::close. The command is answered, with success or not.
Close(n) ==
  /\ At(n, "close") /\ Goto(n, "idle")
  /\ UNCHANGED <<program, client, held, link>>

-----------------------------------------------------------------------------
\* The end of the program: the clients are destroyed.
Destroy(n) ==
  /\ At(n, "idle")
  /\ \A m \in Nodes : pc[m] \in {"idle", "gone"}
  /\ Disconnect(n)
  /\ libssh2' = libssh2 - 1
  /\ Goto(n, "gone")
  /\ program' = IF \A m \in Nodes \ {n} : pc[m] = "gone" THEN "ended" ELSE program
  /\ UNCHANGED <<attempts, commands, hosts, link>>

\* A connection is lost.
Lose(n) ==
  /\ program = "running" /\ "lose" \in Faults
  /\ sock[n] # kSocketInit /\ link[n] = "up"
  /\ link' = [link EXCEPT ![n] = "lost"]
  /\ UNCHANGED <<program, pc, client, held>>

Ended == program # "running" /\ UNCHANGED vars

Connect(n) ==
  OpenSocket(n) \/ InitSession(n) \/ Handshake(n) \/ KnownHosts(n) \/ Authenticate(n)

Command(n) ==
  Execute(n) \/ OpenChannel(n) \/ Exec(n) \/ Read(n) \/ Close(n)

Next ==
  \/ \E n \in Nodes : Construct(n) \/ Connect(n) \/ Command(n) \/ Destroy(n) \/ Lose(n)
  \/ Ended

Spec == Init /\ [][Next]_vars

-----------------------------------------------------------------------------
(***************************************************************************)
(* Properties.                                                             *)
(***************************************************************************)

\* The ranges of the variables. A client that holds a descriptor holds an
\* open one: it never closes, or waits for, a descriptor that may by now be
\* that of something else (SSHClient.cpp:155-172).
TypeOK ==
  /\ program \in {"running", "exited", "crashed", "ended"}
  /\ pc \in [Nodes -> {"unmade", "idle", "gone"} \cup Connecting \cup Channel]
  /\ attempts \in [Nodes -> Nat] /\ commands \in [Nodes -> 0 .. MaxCommands]
  /\ session \in [Nodes -> [state : {"null", "new", "shaken", "authenticated"},
                            on : Nat \cup {kSocketInit}]]
  /\ sessions \in [Nodes -> Nat] /\ hosts \in [Nodes -> Nat]
  /\ libssh2 \in 0 .. NodeCount
  /\ link \in [Nodes -> {"up", "lost"}]
  /\ \A n \in Nodes : /\ open[n] \subseteq 1 .. attempts[n]
                      /\ sock[n] \in open[n] \cup {kSocketInit}

\* Commands only ever go over an authenticated session, on the open socket
\* that the client holds, however many connections have failed before
\* (SSHClient.cpp:180-189, SSHChannel.h:21-25).
AuthenticatedCommands ==
  \A n \in Nodes :
    pc[n] \in {"exec", "read", "close"} =>
      /\ session[n].state = "authenticated"
      /\ session[n].on = sock[n] /\ sock[n] \in open[n]

\* As the first failure after a command ends the program, a program that
\* goes on has a session for every node that was given a command; in
\* particular, a session that a failed connectTo has left is never used
\* (SSHClient.cpp:183-186).
AllConnected ==
  program \in {"running", "ended"} =>
    \A n \in Nodes :
      commands[n] > 0 /\ pc[n] \in {"exec", "read", "close", "idle"} =>
        session[n].state = "authenticated"

\* connectTo leaks the socket of a connection that failed before there was a
\* session, and the known hosts of one without a host key; but a client
\* leaks at most one of them, as it tries at most twice (SSHClient.cpp:36-121).
LeaksOnce ==
  \A n \in Nodes :
    /\ attempts[n] <= 2
    /\ Cardinality(open[n]) <= 2 /\ hosts[n] <= 1
    /\ open[n] \ {sock[n]} \subseteq 1 .. attempts[n] - 1

\* A program that ends by itself has freed the sessions, has closed the last
\* socket of every client, and has left libssh2 as often as it has entered
\* it (SSHClient.h:58-62).
ClosedAtEnd ==
  program = "ended" =>
    /\ libssh2 = 0
    /\ \A n \in Nodes : /\ session[n] = Null /\ sock[n] = kSocketInit
                        /\ open[n] \subseteq 1 .. attempts[n] - 1

\* connectTo overwrites the session of the client with a new one and never
\* asks whether it has one. No session is lost by it: a client has never more
\* than the one it knows of (SSHClient.cpp:51, 183).
NoSessionLost ==
  \A n \in Nodes : sessions[n] = IF session[n] = Null THEN 0 ELSE 1
==============================================================================
