----------------------------- MODULE SSHChannel -----------------------------
(***************************************************************************)
(* One remote command from the moment it runs: the loops of                *)
(* SSHChannel::exec that read its output and error output, and            *)
(* SSHChannel::close that makes the answer of execute                      *)
(* (src/jepsen/control/SSHChannel.cpp). SSHClient has both as single       *)
(* steps.                                                                  *)
(*                                                                         *)
(* libssh2, the network and the node are external: the node sends the      *)
(* output in chunks, then the end of the output and how the command has    *)
(* ended in any order, and closes the channel; every call of libssh2 takes *)
(* in what has arrived, and says EAGAIN when that is not enough. The       *)
(* connection may be reset, be hung up by the node (which still takes what *)
(* is sent, without an answer), or fall silent without a word.             *)
(***************************************************************************)
EXTENDS Integers, Sequences

CONSTANTS MaxChunks,        \* bound: chunks the command writes to each stream
          Faults            \* what may happen to the connection and the server

Streams == {"stdout", "stderr"}
Endings == {"zero", "nonzero", "signal", "unreported"}

ASSUME ChannelAssumption ==
  MaxChunks \in Nat /\ Faults \subseteq {"reset", "hangup", "silent", "unreported"}

VARIABLES
  \* the node
  ending,           \* "running", or how the command has ended
  writing,          \* does the command, or a child of it, hold its output open?
  written,          \* chunks written to each stream
  sent_close,       \* has the server closed the channel?
  \* the network
  wire,             \* messages on their way to the client
  link,             \* "up", "reset", "hangup" or "silent"
  \* what libssh2 has taken in
  queue,            \* chunks of each stream
  eof, closed,      \* end of the output, end of the channel
  exit_status,      \* 0 until a status arrives
  exit_signal,
  \* the client
  pc,               \* "stdout", "stderr", "closing" or "answered"
  got,              \* chunks in channel_stdout and channel_stderr
  answer            \* what execute returns

remote  == <<ending, writing, written, sent_close>>
library == <<queue, eof, closed, exit_status, exit_signal>>
local   == <<pc, got, answer>>
vars    == <<remote, wire, link, library, local>>

Init ==
  /\ ending = "running" /\ writing = TRUE /\ sent_close = FALSE
  /\ written = [s \in Streams |-> 0]
  /\ wire = <<>> /\ link = "up"
  /\ queue = [s \in Streams |-> 0] /\ eof = FALSE /\ closed = FALSE
  /\ exit_status = 0 /\ exit_signal = FALSE
  /\ pc = "stdout" /\ got = [s \in Streams |-> 0] /\ answer = FALSE

-----------------------------------------------------------------------------
(***************************************************************************)
(* The node.                                                               *)
(***************************************************************************)
Send(message) ==
  /\ wire' = IF link = "up" THEN Append(wire, message) ELSE wire
  /\ UNCHANGED <<link, library, local>>

Write(s) ==
  /\ writing /\ written[s] < MaxChunks
  /\ written' = [written EXCEPT ![s] = @ + 1]
  /\ Send(s)
  /\ UNCHANGED <<ending, writing, sent_close>>

\* The output ends when everyone who can write to it has closed it.
EndOutput ==
  /\ writing /\ writing' = FALSE
  /\ Send("eof")
  /\ UNCHANGED <<ending, written, sent_close>>

\* The command ends. A server that is killed with it reports nothing.
End(e) ==
  /\ ending = "running" /\ ending' = e
  /\ IF e = "unreported" THEN e \in Faults /\ UNCHANGED <<wire, link, library, local>>
                         ELSE Send(e)
  /\ UNCHANGED <<writing, written, sent_close>>

CloseRemote ==
  /\ ending # "running" /\ ~writing /\ ~sent_close
  /\ sent_close' = TRUE
  /\ Send("close")
  /\ UNCHANGED <<ending, writing, written>>

-----------------------------------------------------------------------------
(***************************************************************************)
(* The network. What was sent before a fault arrives up to some point.     *)
(***************************************************************************)
Arrive ==
  /\ wire # <<>>
  /\ wire' = Tail(wire)
  /\ LET m == Head(wire)
     IN  /\ queue' = IF m \in Streams THEN [queue EXCEPT ![m] = @ + 1] ELSE queue
         /\ eof' = (eof \/ m = "eof")
         /\ closed' = (closed \/ m = "close")
         /\ exit_status' = IF m = "nonzero" THEN 1 ELSE exit_status
         /\ exit_signal' = (exit_signal \/ m = "signal")
  /\ UNCHANGED <<remote, link, local>>

Lose(how) ==
  /\ how \in Faults /\ link = "up"
  /\ link' = how
  /\ \E n \in 0 .. Len(wire) : wire' = SubSeq(wire, 1, n)
  /\ UNCHANGED <<remote, library, local>>

\* The next call of libssh2 returns an error of the socket.
Dead == link \in {"reset", "hangup"} /\ wire = <<>>

-----------------------------------------------------------------------------
(***************************************************************************)
(* The client.                                                             *)
(***************************************************************************)
After(s) == IF s = "stdout" THEN "stderr" ELSE "closing"

\* A chunk is taken out of the queue of the library.
TakeChunk(s) == queue' = [queue EXCEPT ![s] = @ - 1]

\* rc > 0: the chunk is appended, and the stream read again.
ReadChunk(s) ==
  /\ pc = s /\ queue[s] > 0
  /\ TakeChunk(s)
  /\ got' = [got EXCEPT ![s] = @ + 1]
  /\ UNCHANGED <<remote, wire, link, eof, closed, exit_status, exit_signal, pc, answer>>

\* Mutant: only the end of the output ends a loop.
ReadsToEnd(s) == queue[s] = 0 /\ (eof \/ closed)

\* rc = 0 or an error other than EAGAIN.
NothingToCome(s) == queue[s] = 0 /\ (eof \/ closed \/ Dead)

\* The loop over a stream ends; an error is only logged.
LeaveLoop(s) ==
  /\ pc = s /\ NothingToCome(s)
  /\ pc' = After(s)
  /\ UNCHANGED <<remote, wire, link, library, got, answer>>

\* Mutants: the exit status is asked for whatever close returned; the initial
\* value of exitsignal is taken for one.
StatusAnyway(rc)   == exit_status = 0 /\ ~exit_signal
SignalNotReset(rc) == FALSE

\* The answer. Without a clean close exitcode stays 127 and exitsignal "none".
Success(rc) == rc = 0 /\ exit_status = 0 /\ ~exit_signal

\* close returns 0 when the server has closed its side, and an error when the
\* own message cannot be sent or the other one not received; on a connection
\* that is known to be hung up it waits for nothing once it has sent its own.
CloseResult ==
  (IF closed THEN {0} ELSE {}) \cup (IF Dead THEN {-1} ELSE {})
    \cup (IF Dead /\ link = "hangup" THEN {0} ELSE {})

Close ==
  /\ pc = "closing"
  /\ \E rc \in CloseResult : answer' = Success(rc)
  /\ pc' = "answered"
  /\ UNCHANGED <<remote, wire, link, library, got>>

\* EAGAIN: waitsocket waits for the socket, ten seconds at most, and the call
\* is made again.
WouldBlock ==
  \/ \E s \in Streams : pc = s /\ queue[s] = 0 /\ ~NothingToCome(s)
  \/ pc = "closing" /\ CloseResult = {}

waitsocket == WouldBlock /\ UNCHANGED vars

Client == Close \/ \E s \in Streams : ReadChunk(s) \/ LeaveLoop(s)

Next ==
  \/ EndOutput \/ CloseRemote
  \/ \E s \in Streams : Write(s)
  \/ \E e \in Endings : End(e)
  \/ Arrive
  \/ \E how \in {"reset", "hangup", "silent"} : Lose(how)
  \/ Client \/ waitsocket
  \/ pc = "answered" /\ UNCHANGED vars

\* The thread is scheduled, what is on its way arrives, and a server closes
\* the channel of a command that is over.
Spec     == Init /\ [][Next]_vars
FairSpec == Spec /\ WF_vars(Client) /\ WF_vars(Arrive) /\ WF_vars(CloseRemote)

-----------------------------------------------------------------------------
(***************************************************************************)
(* Properties.                                                             *)
(***************************************************************************)

\* The ranges of the variables; no chunk is read twice.
TypeOK ==
  /\ ending \in Endings \cup {"running"} /\ writing \in BOOLEAN
  /\ written \in [Streams -> 0 .. MaxChunks] /\ sent_close \in BOOLEAN
  /\ wire \in Seq(Streams \cup {"zero", "nonzero", "signal", "eof", "close"})
  /\ link \in {"up", "reset", "hangup", "silent"}
  /\ queue \in [Streams -> Nat] /\ eof \in BOOLEAN /\ closed \in BOOLEAN
  /\ exit_status \in {0, 1} /\ exit_signal \in BOOLEAN
  /\ pc \in Streams \cup {"closing", "answered"} /\ answer \in BOOLEAN
  /\ got \in [Streams -> Nat]
  /\ \A s \in Streams : got[s] + queue[s] <= written[s]

\* execute only returns true when the command has ended, with status zero or
\* with its end unreported, and all of its output has been read, unless the
\* node has hung up: neither a signal nor a connection that broke between the
\* output and the status is taken for success (SSHChannel.cpp:13-47, 61-124).
TrueMeansSuccess ==
  answer => \/ ending \in {"zero", "unreported"} /\ got = written
            \/ link = "hangup"

\* Over a connection that holds, the answer is true if the command succeeds,
\* and all of its output is read whatever the answer: none is left in either
\* stream when the loops are over (SSHChannel.cpp:17-24, 35-43).
ExactWhenUp ==
  pc = "answered" /\ link = "up" =>
    /\ got = written
    /\ ending = "zero" => answer

\* execute returns, unless the connection falls silent or the command, or a
\* child that holds its output, does not end: nothing but the reading bounds
\* the wait (SSHChannel.cpp:61-90, SSHConfig.h:44-70).
ReturnsUnlessSilent ==
  <>(pc = "answered") \/ <>[](link = "silent" \/ ending = "running" \/ writing)
=============================================================================
