-------------------------- MODULE SSHChannelProofs --------------------------
(***************************************************************************)
(* Proofs about SSHChannel, for any number of chunks and any faults.       *)
(***************************************************************************)
EXTENDS SSHChannel, FiniteSetTheorems, SequenceTheorems, TLAPS

-----------------------------------------------------------------------------
(***************************************************************************)
(* The inductive invariant: the types, the order of the messages on the    *)
(* wire, what of the messages sent so far has been taken in, and what the  *)
(* client knows when it has left a loop.                                   *)
(***************************************************************************)
Reports  == {"zero", "nonzero", "signal"}
Messages == Streams \cup Reports \cup {"eof", "close"}

Types ==
  /\ ending \in Endings \cup {"running"} /\ writing \in BOOLEAN
  /\ written \in [Streams -> 0 .. MaxChunks] /\ sent_close \in BOOLEAN
  /\ wire \in Seq(Messages)
  /\ link \in {"up", "reset", "hangup", "silent"}
  /\ queue \in [Streams -> Nat] /\ eof \in BOOLEAN /\ closed \in BOOLEAN
  /\ exit_status \in {0, 1} /\ exit_signal \in BOOLEAN
  /\ pc \in Streams \cup {"closing", "answered"} /\ answer \in BOOLEAN
  /\ got \in [Streams -> Nat]

\* Where a message is on the wire, and whether it is there.
Places(m) == {i \in 1 .. Len(wire) : wire[i] = m}
OnWire(m) == \E i \in 1 .. Len(wire) : wire[i] = m

\* No chunk is sent after the end of the output, nothing after the close, and
\* the report is that of the command.
Order ==
  /\ sent_close => ending # "running" /\ ~writing
  /\ \A i \in 1 .. Len(wire) :
       /\ wire[i] \in Reports => ending = wire[i]
       /\ wire[i] = "eof" =>
            ~writing /\ \A j \in 1 .. Len(wire) : j > i => wire[j] \notin Streams
       /\ wire[i] = "close" => sent_close /\ i = Len(wire)
  /\ eof => ~writing /\ \A s \in Streams : ~OnWire(s)
  /\ closed => sent_close /\ wire = <<>>
  /\ exit_status = 1 => ending = "nonzero"
  /\ exit_signal => ending = "signal"

\* Chunks are not made on the way.
AtMost == \A s \in Streams : got[s] + queue[s] + Cardinality(Places(s)) <= written[s]

\* Nothing that was sent is lost as long as the connection holds, nor if the
\* close, which is sent last, has made it.
NothingLost ==
  link = "up" \/ closed \/ OnWire("close") =>
    /\ \A s \in Streams : got[s] + queue[s] + Cardinality(Places(s)) = written[s]
    /\ ending = "nonzero" => exit_status = 1 \/ OnWire("nonzero")
    /\ ending = "signal" => exit_signal \/ OnWire("signal")

\* What a stream whose loop has been left still has to give: nothing.
Drained(s) ==
  /\ queue[s] = 0 /\ ~OnWire(s)
  /\ link = "up" => ~writing

Left ==
  /\ pc # "stdout" => Drained("stdout")
  /\ pc \in {"closing", "answered"} => Drained("stderr")

\* What the answer rests on.
Answered ==
  /\ pc = "answered" /\ link = "up" => closed /\ (ending = "zero" => answer)
  /\ answer => /\ pc = "answered"
               /\ link = "hangup" \/ (closed /\ exit_status = 0 /\ ~exit_signal)

IInv == Types /\ Order /\ AtMost /\ NothingLost /\ Left /\ Answered

-----------------------------------------------------------------------------
(***************************************************************************)
(* Messages on the wire.                                                   *)
(***************************************************************************)
LEMMA PlacesAreFinite ==
  ASSUME wire \in Seq(Messages), NEW m
  PROVE  /\ IsFiniteSet(Places(m)) /\ Cardinality(Places(m)) \in Nat
         /\ ~OnWire(m) => Cardinality(Places(m)) = 0
<1>1. Len(wire) \in Nat
  OBVIOUS
<1>2. IsFiniteSet(1 .. Len(wire))
  BY <1>1, FS_Interval
<1>3. IsFiniteSet(Places(m))
  BY <1>2, FS_Subset DEF Places
<1>4. ~OnWire(m) => Places(m) = {}
  BY DEF OnWire, Places
<1> QED BY <1>3, <1>4, FS_CardinalityType, FS_EmptySet

\* A message that is sent is the last one.
LEMMA Appended ==
  ASSUME wire \in Seq(Messages), NEW m \in Messages, wire' = Append(wire, m)
  PROVE  /\ wire' \in Seq(Messages) /\ Len(wire') = Len(wire) + 1
         /\ \A i \in 1 .. Len(wire) : wire'[i] = wire[i]
         /\ wire'[Len(wire) + 1] = m
         /\ \A x : OnWire(x)' <=> OnWire(x) \/ x = m
         /\ \A x : Cardinality(Places(x)') = Cardinality(Places(x)) + (IF x = m THEN 1 ELSE 0)
<1>1. /\ wire' \in Seq(Messages) /\ Len(wire') = Len(wire) + 1 /\ Len(wire) \in Nat
      /\ \A i \in 1 .. Len(wire) : wire'[i] = wire[i]
      /\ wire'[Len(wire) + 1] = m
  OBVIOUS
<1>2. ASSUME NEW x PROVE OnWire(x)' <=> OnWire(x) \/ x = m
  BY <1>1 DEF OnWire
<1>3. ASSUME NEW x
      PROVE  Cardinality(Places(x)') = Cardinality(Places(x)) + (IF x = m THEN 1 ELSE 0)
  <2>1. CASE x = m
    <3>1. Places(x)' = Places(x) \cup {Len(wire) + 1} /\ Len(wire) + 1 \notin Places(x)
      BY <1>1, <2>1 DEF Places
    <3> QED BY <2>1, <3>1, PlacesAreFinite, FS_AddElement
  <2>2. CASE x # m
    <3>1. Places(x)' = Places(x)
      BY <1>1, <2>2 DEF Places
    <3> QED BY <2>2, <3>1, PlacesAreFinite
  <2> QED BY <2>1, <2>2
<1> QED BY <1>1, <1>2, <1>3

\* A message that arrives is the first one.
LEMMA Arrived ==
  ASSUME wire \in Seq(Messages), wire # <<>>, wire' = Tail(wire)
  PROVE  /\ wire' \in Seq(Messages) /\ Len(wire') = Len(wire) - 1
         /\ wire[1] = Head(wire) /\ Head(wire) \in Messages
         /\ \A i \in 1 .. Len(wire') : wire'[i] = wire[i + 1]
         /\ \A x : OnWire(x)' => OnWire(x)
         /\ \A x : OnWire(x) => OnWire(x)' \/ x = Head(wire)
         /\ \A x : Cardinality(Places(x)')
                     = Cardinality(Places(x)) - (IF x = Head(wire) THEN 1 ELSE 0)
<1>1. /\ wire' \in Seq(Messages) /\ Len(wire') = Len(wire) - 1 /\ Len(wire) \in Nat \ {0}
      /\ \A i \in 1 .. Len(wire') : wire'[i] = wire[i + 1]
      /\ wire[1] = Head(wire) /\ Head(wire) \in Messages
  OBVIOUS
<1>2. ASSUME NEW x, OnWire(x)' PROVE OnWire(x)
  <2>1. PICK i \in 1 .. Len(wire') : wire'[i] = x
    BY <1>2 DEF OnWire
  <2>2. i + 1 \in 1 .. Len(wire) /\ wire[i + 1] = x
    BY <1>1, <2>1
  <2> QED BY <2>2 DEF OnWire
<1>3. ASSUME NEW x, OnWire(x) PROVE OnWire(x)' \/ x = Head(wire)
  <2>1. PICK i \in 1 .. Len(wire) : wire[i] = x
    BY <1>3 DEF OnWire
  <2>2. CASE i # 1
    <3>1. i - 1 \in 1 .. Len(wire') /\ wire'[i - 1] = x
      BY <1>1, <2>1, <2>2
    <3> QED BY <3>1 DEF OnWire
  <2> QED BY <1>1, <2>1, <2>2
<1>4. ASSUME NEW x
      PROVE  Cardinality(Places(x)')
               = Cardinality(Places(x)) - (IF x = Head(wire) THEN 1 ELSE 0)
  <2> DEFINE Rest == Places(x) \ {1}
             down == [i \in Rest |-> i - 1]
  <2>1. IsFiniteSet(Rest)
    BY PlacesAreFinite, FS_Subset
  <2>2. down \in Bijection(Rest, Places(x)')
    <3>1. \A i \in Rest : i - 1 \in Places(x)'
      <4> SUFFICES ASSUME NEW i \in Rest PROVE i - 1 \in 1 .. Len(wire') /\ wire'[i - 1] = x
        BY DEF Places
      <4>1. i \in 1 .. Len(wire) /\ i # 1 /\ wire[i] = x
        BY DEF Places
      <4> QED BY <1>1, <4>1
    <3>2. \A i \in Places(x)' : i + 1 \in Rest /\ i \in Int
      <4> SUFFICES ASSUME NEW i \in Places(x)'
                   PROVE  i + 1 \in 1 .. Len(wire) /\ i + 1 # 1 /\ wire[i + 1] = x /\ i \in Int
        BY DEF Places
      <4>1. i \in 1 .. Len(wire') /\ wire'[i] = x
        BY DEF Places
      <4> QED BY <1>1, <4>1
    <3>3. \A i \in Rest : i \in Int
      BY DEF Places
    <3>4. down \in Injection(Rest, Places(x)')
      BY <3>1, <3>3 DEF Injection, IsInjective
    <3>5. down \in Surjection(Rest, Places(x)')
      BY <3>1, <3>2, <3>3 DEF Surjection
    <3> QED BY <3>4, <3>5 DEF Bijection
  <2>3. Cardinality(Places(x)') = Cardinality(Rest)
    <3>1. ExistsBijection(Rest, Places(x)')
      BY <2>2 DEF ExistsBijection
    <3> QED BY <2>1, <3>1, FS_Bijection
  <2>4. CASE x = Head(wire)
    <3>1. 1 \in Places(x)
      BY <1>1, <2>4 DEF Places
    <3> QED BY <2>3, <2>4, <3>1, PlacesAreFinite, FS_RemoveElement
  <2>5. CASE x # Head(wire)
    <3>1. Rest = Places(x)
      BY <1>1, <2>5 DEF Places
    <3>2. Cardinality(Places(x)) \in Nat
      BY PlacesAreFinite
    <3>3. Cardinality(Places(x)') = Cardinality(Places(x))
      BY <2>3, <3>1
    <3> HIDE DEF Rest, down
    <3> QED BY <2>5, <3>2, <3>3
  <2> QED BY <2>4, <2>5
<1> QED BY <1>1, <1>2, <1>3, <1>4

\* What is cut off was behind what is not.
LEMMA Cut ==
  ASSUME wire \in Seq(Messages), NEW n \in 0 .. Len(wire), wire' = SubSeq(wire, 1, n)
  PROVE  /\ wire' \in Seq(Messages) /\ Len(wire') = n
         /\ \A i \in 1 .. Len(wire') : wire'[i] = wire[i]
         /\ \A x : OnWire(x)' => OnWire(x)
         /\ \A x : /\ Cardinality(Places(x)') \in Nat
                   /\ Cardinality(Places(x)') <= Cardinality(Places(x))
         /\ n = Len(wire) => wire' = wire
<1>1. /\ wire' \in Seq(Messages) /\ Len(wire') = n /\ Len(wire) \in Nat
      /\ \A i \in 1 .. Len(wire') : wire'[i] = wire[i]
  OBVIOUS
<1>2. \A x : OnWire(x)' => OnWire(x)
  BY <1>1 DEF OnWire
<1>3. ASSUME NEW x
      PROVE  /\ Cardinality(Places(x)') \in Nat
             /\ Cardinality(Places(x)') <= Cardinality(Places(x))
  <2>1. Places(x)' \subseteq Places(x)
    BY <1>1 DEF Places
  <2> QED BY <2>1, PlacesAreFinite, FS_Subset, FS_CardinalityType
<1>4. n = Len(wire) => wire' = wire
  BY <1>1, SeqEqual
<1> QED BY <1>1, <1>2, <1>3, <1>4

LEMMA InitIInv == Init => IInv
<1> SUFFICES ASSUME Init PROVE IInv
  OBVIOUS
<1> USE DEF Init
<1>1. Types
  <2>1. wire \in Seq(Messages)
    BY EmptySeq
  <2>2. written \in [Streams -> 0 .. MaxChunks]
    BY ChannelAssumption
  <2>3. queue \in [Streams -> Nat] /\ got \in [Streams -> Nat]
    OBVIOUS
  <2>4. "stdout" \in Streams
    BY DEF Streams
  <2> QED BY <2>1, <2>2, <2>3, <2>4 DEF Types
<1>2. Len(wire) = 0 /\ \A m : ~OnWire(m)
  BY DEF OnWire
<1>3. \A m : Cardinality(Places(m)) = 0
  BY <1>1, <1>2, PlacesAreFinite DEF Types
<1>4. Order
  BY <1>2 DEF Order
<1>5. AtMost /\ NothingLost
  BY <1>3 DEF AtMost, NothingLost, Streams
<1>6. Left /\ Answered
  BY DEF Left, Answered
<1> QED BY <1>1, <1>4, <1>5, <1>6 DEF IInv

-----------------------------------------------------------------------------
(***************************************************************************)
(* The steps of the node.                                                  *)
(***************************************************************************)

\* A chunk is written.
LEMMA WriteStep == ASSUME IInv, NEW s \in Streams, Write(s) PROVE IInv'
<1> USE DEF Write, Send, library, local
<1>1. CASE link = "up"
  <2>1. wire' = Append(wire, s) /\ s \in Messages /\ wire \in Seq(Messages)
    BY <1>1 DEF Messages, IInv, Types
  <2>2. /\ wire' \in Seq(Messages) /\ Len(wire') = Len(wire) + 1 /\ Len(wire) \in Nat
        /\ \A i \in 1 .. Len(wire) : wire'[i] = wire[i]
        /\ wire'[Len(wire) + 1] = s
        /\ \A x : OnWire(x)' <=> OnWire(x) \/ x = s
        /\ \A x : Cardinality(Places(x)') = Cardinality(Places(x)) + (IF x = s THEN 1 ELSE 0)
    BY <2>1, Appended
  <2>3. Types'
    BY <2>2, ChannelAssumption DEF IInv, Types
  <2>4. Order'
    BY <2>2 DEF IInv, Types, Order, Streams, Reports
  <2>5. \A t \in Streams : Cardinality(Places(t)) \in Nat
    BY PlacesAreFinite DEF IInv, Types
  <2>6. \A t \in Streams :
          /\ written'[t] = written[t] + (IF t = s THEN 1 ELSE 0)
          /\ Cardinality(Places(t)') = Cardinality(Places(t)) + (IF t = s THEN 1 ELSE 0)
          /\ written[t] \in Nat /\ got[t] \in Nat /\ queue[t] \in Nat
    BY <2>2, ChannelAssumption DEF IInv, Types
  <2>7. \A t \in Streams :
          got[t] + queue[t] + Cardinality(Places(t)) = written[t]
    BY <1>1 DEF IInv, NothingLost
  <2>8. \A t \in Streams :
          got'[t] + queue'[t] + Cardinality(Places(t)') = written'[t]
    <3> SUFFICES ASSUME NEW t \in Streams
                 PROVE  got[t] + queue[t] + Cardinality(Places(t)') = written'[t]
      OBVIOUS
    <3> QED BY <2>5, <2>6, <2>7
  <2>10. AtMost'
    BY <2>6, <2>8, <2>5, <2>7 DEF AtMost
  <2>11. NothingLost'
    BY <1>1, <2>2, <2>8 DEF IInv, NothingLost, Streams
  <2>9. Left' /\ Answered'
    BY <1>1 DEF IInv, Left, Answered, Drained, Order
  <2> QED BY <2>3, <2>4, <2>9, <2>10, <2>11 DEF IInv
<1>2. CASE link # "up"
  <2>1. wire' = wire /\ \A x : (OnWire(x)' <=> OnWire(x)) /\ Places(x)' = Places(x)
    BY <1>2 DEF OnWire, Places
  <2>2. ~closed /\ ~OnWire("close")
    BY DEF IInv, Order, OnWire
  <2>3. \A t \in Streams : Cardinality(Places(t)) \in Nat
    BY PlacesAreFinite DEF IInv, Types
  <2>4. Types'
    BY <2>1, ChannelAssumption DEF IInv, Types
  <2>6. AtMost'
    <3> SUFFICES ASSUME NEW t \in Streams
                 PROVE  got[t] + queue[t] + Cardinality(Places(t)) <= written'[t]
      BY <2>1 DEF AtMost
    <3>1. got[t] \in Nat /\ queue[t] \in Nat /\ written[t] \in Nat /\ written'[t] >= written[t]
      BY ChannelAssumption DEF IInv, Types
    <3>2. got[t] + queue[t] + Cardinality(Places(t)) <= written[t]
      BY DEF IInv, AtMost
    <3>3. written'[t] \in Int
      BY <2>4, ChannelAssumption DEF Types
    <3> HIDE DEF Write, Send
    <3> QED BY <3>1, <3>2, <3>3, <2>3
  <2>5. Order' /\ NothingLost' /\ Left' /\ Answered'
    BY <1>2, <2>1, <2>2 DEF IInv, Order, NothingLost, Left, Answered, Drained
  <2> QED BY <2>4, <2>5, <2>6 DEF IInv
<1> QED BY <1>1, <1>2

\* A message that is no chunk is sent, or is not because the connection is lost.
LEMMA NoChunk ==
  ASSUME IInv, NEW m \in Messages \ Streams, Send(m)
  PROVE  /\ wire' \in Seq(Messages) /\ Len(wire) \in Nat
         /\ \A s \in Streams : /\ Cardinality(Places(s)') = Cardinality(Places(s))
                               /\ OnWire(s)' <=> OnWire(s)
         /\ link = "up" =>
              /\ Len(wire') = Len(wire) + 1
              /\ \A i \in 1 .. Len(wire) : wire'[i] = wire[i]
              /\ wire'[Len(wire) + 1] = m
              /\ \A x : OnWire(x)' <=> OnWire(x) \/ x = m
         /\ link # "up" => wire' = wire /\ \A x : OnWire(x)' <=> OnWire(x)
<1>1. CASE link = "up"
  <2>1. wire' = Append(wire, m) /\ wire \in Seq(Messages) /\ m \in Messages
    BY <1>1 DEF Send, IInv, Types
  <2>2. /\ wire' \in Seq(Messages) /\ Len(wire') = Len(wire) + 1 /\ Len(wire) \in Nat
        /\ \A i \in 1 .. Len(wire) : wire'[i] = wire[i]
        /\ wire'[Len(wire) + 1] = m
        /\ \A x : OnWire(x)' <=> OnWire(x) \/ x = m
        /\ \A x : Cardinality(Places(x)') = Cardinality(Places(x)) + (IF x = m THEN 1 ELSE 0)
    BY <2>1, Appended
  <2>3. \A s \in Streams : Cardinality(Places(s)) \in Nat /\ s # m
    BY <2>1, PlacesAreFinite
  <2>4. \A s \in Streams : /\ Cardinality(Places(s)') = Cardinality(Places(s))
                           /\ OnWire(s)' <=> OnWire(s)
    BY <2>2, <2>3
  <2> QED BY <1>1, <2>2, <2>4
<1>2. CASE link # "up"
  <2>1. wire' = wire /\ \A x : (OnWire(x)' <=> OnWire(x)) /\ Places(x)' = Places(x)
    BY <1>2 DEF Send, OnWire, Places
  <2>2. wire \in Seq(Messages)
    BY DEF IInv, Types
  <2> QED BY <1>2, <2>1, <2>2
<1> QED BY <1>1, <1>2

\* The output is closed.
LEMMA EndOutputStep == ASSUME IInv, EndOutput PROVE IInv'
<1> USE DEF EndOutput, Send, library, local
<1>1. "eof" \in Messages \ Streams /\ Send("eof")
  BY DEF Messages, Streams
<1>2. ~sent_close /\ ~closed /\ ~OnWire("close")
  BY DEF IInv, Order, OnWire
<1>3. Types'
  BY <1>1, NoChunk DEF IInv, Types
<1>4. Order'
  <2>1. CASE link = "up"
    BY <1>1, <1>2, <2>1, NoChunk DEF IInv, Order, Streams, Reports
  <2>2. CASE link # "up"
    BY <1>1, <1>2, <2>2, NoChunk DEF IInv, Order
  <2> QED BY <2>1, <2>2
<1>5. AtMost' /\ NothingLost' /\ Left' /\ Answered'
  BY <1>1, <1>2, NoChunk DEF IInv, AtMost, NothingLost, Left, Answered, Drained, Streams
<1> QED BY <1>3, <1>4, <1>5 DEF IInv

\* The command ends, and the server reports how or not.
LEMMA EndStep == ASSUME IInv, NEW e \in Endings, End(e) PROVE IInv'
<1> USE DEF End, library, local
<1>1. ~sent_close /\ ~closed /\ ~OnWire("close") /\ exit_status = 0 /\ ~exit_signal
  BY DEF IInv, Order, OnWire, Types
<1>2. \A i \in 1 .. Len(wire) : wire[i] \notin Reports
  BY DEF IInv, Order, Reports
<1>3. CASE e = "unreported"
  <2>1. wire' = wire /\ \A x : (OnWire(x)' <=> OnWire(x)) /\ Places(x)' = Places(x)
    BY <1>3 DEF OnWire, Places
  <2>2. Types'
    BY <1>3 DEF IInv, Types, Endings
  <2>3. Order' /\ AtMost' /\ NothingLost' /\ Left' /\ Answered'
    BY <1>1, <1>2, <1>3, <2>1 DEF IInv, Order, AtMost, NothingLost, Left, Answered, Drained
  <2> QED BY <2>2, <2>3 DEF IInv
<1>4. CASE e # "unreported"
  <2>1. e \in Messages \ Streams /\ Send(e) /\ e \in Reports
    BY <1>4 DEF Messages, Streams, Endings, Reports
  <2>2. Types'
    BY <2>1, NoChunk DEF IInv, Types, Send
  <2>3. Order'
    <3>1. CASE link = "up"
      BY <1>1, <1>2, <2>1, <3>1, NoChunk DEF IInv, Order, Send, Reports
    <3>2. CASE link # "up"
      BY <1>1, <1>2, <2>1, <3>2, NoChunk DEF IInv, Order, Send
    <3> QED BY <3>1, <3>2
  <2>4. AtMost' /\ NothingLost' /\ Left' /\ Answered'
    BY <1>1, <2>1, NoChunk
    DEF IInv, AtMost, NothingLost, Left, Answered, Drained, Send, Streams, Reports
  <2> QED BY <2>2, <2>3, <2>4 DEF IInv
<1> QED BY <1>3, <1>4

\* The server closes the channel.
LEMMA CloseRemoteStep == ASSUME IInv, CloseRemote PROVE IInv'
<1> USE DEF CloseRemote, library, local
<1>1. "close" \in Messages \ Streams /\ Send("close")
  BY DEF Messages, Streams
<1>2. ~closed /\ ~OnWire("close")
  BY DEF IInv, Order, OnWire
<1>3. Types'
  BY <1>1, NoChunk DEF IInv, Types, Send
<1>4. Order'
  <2>1. CASE link = "up"
    BY <1>1, <1>2, <2>1, NoChunk DEF IInv, Order, Send, Streams, Reports, OnWire
  <2>2. CASE link # "up"
    BY <1>1, <1>2, <2>2, NoChunk DEF IInv, Order, Send
  <2> QED BY <2>1, <2>2
<1>5. AtMost' /\ NothingLost' /\ Left' /\ Answered'
  BY <1>1, <1>2, NoChunk DEF IInv, AtMost, NothingLost, Left, Answered, Drained, Send, Streams
<1> QED BY <1>3, <1>4, <1>5 DEF IInv

-----------------------------------------------------------------------------
(***************************************************************************)
(* The steps of the network.                                               *)
(***************************************************************************)

\* A message is taken in.
LEMMA ArriveStep == ASSUME IInv, Arrive PROVE IInv'
<1> DEFINE m == Head(wire)
<1> USE DEF remote, local
<1>1. /\ wire # <<>> /\ wire' = Tail(wire) /\ wire \in Seq(Messages)
      /\ queue' = IF m \in Streams THEN [queue EXCEPT ![m] = @ + 1] ELSE queue
      /\ eof' = (eof \/ m = "eof") /\ closed' = (closed \/ m = "close")
      /\ exit_status' = IF m = "nonzero" THEN 1 ELSE exit_status
      /\ exit_signal' = (exit_signal \/ m = "signal")
      /\ UNCHANGED <<ending, writing, written, sent_close, link, pc, got, answer>>
  BY DEF Arrive, IInv, Types
<1>2. /\ wire' \in Seq(Messages) /\ Len(wire') = Len(wire) - 1
      /\ wire[1] = m /\ m \in Messages
      /\ \A i \in 1 .. Len(wire') : wire'[i] = wire[i + 1]
      /\ \A x : OnWire(x)' => OnWire(x)
      /\ \A x : OnWire(x) => OnWire(x)' \/ x = m
      /\ \A x : Cardinality(Places(x)') = Cardinality(Places(x)) - (IF x = m THEN 1 ELSE 0)
  BY <1>1, Arrived
<1>3. Len(wire) \in Nat \ {0} /\ 1 \in 1 .. Len(wire)
  BY <1>1, EmptySeq, LenProperties
<1> HIDE DEF m
<1>4. Types'
  BY <1>1, <1>2 DEF IInv, Types
<1>5. Order'
  <2>1. /\ m \in Reports => ending = m
        /\ m = "eof" => ~writing /\ \A s \in Streams : ~OnWire(s)'
        /\ m = "close" => sent_close /\ Len(wire) = 1
    <3>1. /\ m \in Reports => ending = m
          /\ m = "eof" => ~writing /\ \A j \in 1 .. Len(wire) : j > 1 => wire[j] \notin Streams
          /\ m = "close" => sent_close /\ Len(wire) = 1
      BY <1>2, <1>3 DEF IInv, Order
    <3>2. ASSUME m = "eof", NEW s \in Streams PROVE ~OnWire(s)'
      <4>1. ASSUME NEW i \in 1 .. Len(wire') PROVE wire'[i] # s
        <5>1. i + 1 \in 1 .. Len(wire) /\ i + 1 > 1 /\ wire'[i] = wire[i + 1]
          BY <1>2, <1>3
        <5> QED BY <3>1, <3>2, <5>1
      <4> QED BY <4>1 DEF OnWire
    <3> QED BY <3>1, <3>2
  <2>2. ASSUME NEW i \in 1 .. Len(wire')
        PROVE  /\ wire'[i] \in Reports => ending = wire'[i]
               /\ wire'[i] = "eof" =>
                    ~writing /\ \A j \in 1 .. Len(wire') : j > i => wire'[j] \notin Streams
               /\ wire'[i] = "close" => sent_close /\ i = Len(wire')
    <3>1. /\ i + 1 \in 1 .. Len(wire) /\ wire'[i] = wire[i + 1]
          /\ \A j \in 1 .. Len(wire') :
               j + 1 \in 1 .. Len(wire) /\ wire'[j] = wire[j + 1] /\ (j > i => j + 1 > i + 1)
      BY <1>2, <1>3
    <3> QED BY <3>1, <1>2, <1>3 DEF IInv, Order
  <2>3. closed' => sent_close /\ wire' = <<>>
    <3>1. ~closed
      BY <1>1 DEF IInv, Order
    <3>2. ASSUME m = "close" PROVE wire' = <<>>
      <4>1. Len(wire) = 1
        BY <2>1, <3>2
      <4>2. Len(wire') = 0 /\ wire' \in Seq(Messages)
        BY <1>2, <4>1
      <4>3. \A seq \in Seq(Messages) : Len(seq) = 0 => seq = <<>>
        BY EmptySeq
      <4> QED BY <4>2, <4>3
    <3> QED BY <1>1, <2>1, <3>1, <3>2
  <2>4. /\ eof' => ~writing /\ \A s \in Streams : ~OnWire(s)'
        /\ exit_status' = 1 => ending = "nonzero"
        /\ exit_signal' => ending = "signal"
        /\ sent_close => ending # "running" /\ ~writing
    BY <1>1, <1>2, <2>1 DEF IInv, Order, Reports
  <2> QED BY <1>1, <2>2, <2>3, <2>4 DEF Order
<1>6. \A s \in Streams : /\ queue'[s] + Cardinality(Places(s)') = queue[s] + Cardinality(Places(s))
                         /\ got'[s] = got[s]
  <2> SUFFICES ASSUME NEW s \in Streams
               PROVE  queue'[s] + Cardinality(Places(s)') = queue[s] + Cardinality(Places(s))
    BY <1>1
  <2>1. queue'[s] = queue[s] + (IF s = m THEN 1 ELSE 0) /\ queue[s] \in Nat
    BY <1>1 DEF IInv, Types
  <2>2. Cardinality(Places(s)) \in Nat
    BY <1>1, PlacesAreFinite
  <2> QED BY <1>2, <2>1, <2>2
<1>7. \A s \in Streams : /\ got'[s] + queue'[s] + Cardinality(Places(s)')
                              = got[s] + queue[s] + Cardinality(Places(s))
                         /\ written'[s] = written[s]
  <2> SUFFICES ASSUME NEW s \in Streams
               PROVE  got[s] + queue'[s] + Cardinality(Places(s)')
                        = got[s] + queue[s] + Cardinality(Places(s))
    BY <1>1, <1>6
  <2>1. queue[s] \in Nat /\ got[s] \in Nat /\ queue'[s] \in Nat
    BY <1>4, <1>1 DEF IInv, Types
  <2>2. Cardinality(Places(s)) \in Nat /\ Cardinality(Places(s)') \in Int
    BY <1>1, <1>2, PlacesAreFinite
  <2> QED BY <1>6, <2>1, <2>2
<1>8. AtMost'
  BY <1>7 DEF IInv, AtMost
<1>9. NothingLost'
  <2>1. (link = "up" \/ closed \/ OnWire("close"))' => link = "up" \/ OnWire("close")
    <3>1. m = "close" => OnWire("close")
      BY <1>2, <1>3 DEF OnWire
    <3>2. ~closed
      BY <1>1 DEF IInv, Order
    <3> QED BY <1>1, <1>2, <3>1, <3>2
  <2> QED BY <1>1, <1>2, <1>7, <2>1 DEF IInv, NothingLost
<1>10. Left' /\ Answered'
  <2>1. ~closed
    BY <1>1 DEF IInv, Order
  <2>2. ASSUME NEW s \in Streams, Drained(s) PROVE Drained(s)'
    <3>1. m # s
      BY <1>2, <1>3, <2>2 DEF Drained, OnWire
    <3>2. queue'[s] = queue[s]
      BY <1>1, <3>1 DEF IInv, Types
    <3> QED BY <1>1, <1>2, <2>2, <3>2 DEF Drained
  <2>3. Left'
    BY <1>1, <2>2 DEF IInv, Left, Streams
  <2> QED BY <1>1, <2>1, <2>3 DEF IInv, Answered
<1> QED BY <1>4, <1>5, <1>8, <1>9, <1>10 DEF IInv

\* The connection is lost, and some of what is on its way.
LEMMA LoseStep == ASSUME IInv, NEW how \in {"reset", "hangup", "silent"}, Lose(how) PROVE IInv'
<1> USE DEF remote, library, local
<1>1. PICK n \in 0 .. Len(wire) : wire' = SubSeq(wire, 1, n)
  BY DEF Lose
<1>2. /\ wire \in Seq(Messages) /\ link = "up" /\ link' = how
      /\ UNCHANGED <<ending, writing, written, sent_close, queue, eof, closed, exit_status,
                     exit_signal, pc, got, answer>>
  BY DEF Lose, IInv, Types
<1>3. /\ wire' \in Seq(Messages) /\ Len(wire') = n
      /\ \A i \in 1 .. Len(wire') : wire'[i] = wire[i]
      /\ \A x : OnWire(x)' => OnWire(x)
      /\ \A x : /\ Cardinality(Places(x)') \in Nat
                /\ Cardinality(Places(x)') <= Cardinality(Places(x))
      /\ n = Len(wire) => wire' = wire
  BY <1>1, <1>2, Cut
<1>4. Len(wire) \in Nat /\ \A i \in 1 .. n : i \in 1 .. Len(wire)
  BY <1>2, LenProperties
<1>5. Types'
  BY <1>2, <1>3 DEF IInv, Types
<1>6. closed \/ OnWire("close")' => wire' = wire
  <2>1. CASE closed
    <3>1. Len(wire) = 0
      BY <2>1, EmptySeq DEF IInv, Order
    <3> QED BY <1>3, <3>1
  <2>2. CASE OnWire("close")'
    <3>1. PICK i \in 1 .. n : wire[i] = "close"
      BY <1>3, <2>2 DEF OnWire
    <3>2. i = Len(wire)
      BY <1>4, <3>1 DEF IInv, Order
    <3> QED BY <1>3, <1>4, <3>1, <3>2
  <2> QED BY <2>1, <2>2
<1>7. Order'
  <2>1. ASSUME NEW i \in 1 .. Len(wire')
        PROVE  /\ wire'[i] \in Reports => ending = wire'[i]
               /\ wire'[i] = "eof" =>
                    ~writing /\ \A j \in 1 .. Len(wire') : j > i => wire'[j] \notin Streams
               /\ wire'[i] = "close" => sent_close
    BY <1>3, <1>4 DEF IInv, Order
  <2>2. ASSUME NEW i \in 1 .. Len(wire'), wire'[i] = "close" PROVE i = Len(wire')
    <3>1. wire' = wire
      BY <1>6, <2>2 DEF OnWire
    <3> QED BY <2>2, <3>1 DEF IInv, Order
  <2>3. closed => wire' = <<>>
    BY <1>6 DEF IInv, Order
  <2> QED BY <1>2, <1>3, <2>1, <2>2, <2>3 DEF IInv, Order
<1>8. AtMost'
  <2> SUFFICES ASSUME NEW s \in Streams
               PROVE  got[s] + queue[s] + Cardinality(Places(s)') <= written[s]
    BY <1>2 DEF AtMost
  <2>1. got[s] + queue[s] + Cardinality(Places(s)) <= written[s]
    BY DEF IInv, AtMost
  <2>2. got[s] \in Nat /\ queue[s] \in Nat /\ written[s] \in Int
    BY ChannelAssumption DEF IInv, Types
  <2>3. Cardinality(Places(s)) \in Nat /\ Cardinality(Places(s)') \in Nat
    BY <1>1, <1>2, <1>3, PlacesAreFinite
  <2> QED BY <1>3, <2>1, <2>2, <2>3
<1>9. NothingLost'
  <2>1. closed \/ OnWire("close")' => \A x : (OnWire(x)' <=> OnWire(x)) /\ Places(x)' = Places(x)
    BY <1>6 DEF OnWire, Places
  <2> QED BY <1>2, <2>1 DEF IInv, NothingLost
<1>10. Left' /\ Answered'
  BY <1>2, <1>3 DEF IInv, Left, Answered, Drained
<1> QED BY <1>5, <1>7, <1>8, <1>9, <1>10 DEF IInv

-----------------------------------------------------------------------------
(***************************************************************************)
(* The steps of the client.                                                *)
(***************************************************************************)

\* A chunk is read (SSHChannel.cpp:61-82).
LEMMA ReadChunkStep == ASSUME IInv, NEW s \in Streams, ReadChunk(s) PROVE IInv'
<1> USE DEF ReadChunk, TakeChunk, remote
<1>1. \A m : (OnWire(m)' <=> OnWire(m)) /\ Places(m)' = Places(m)
  BY DEF OnWire, Places
<1>2. Types'
  BY DEF IInv, Types
<1>3. \A t \in Streams : got'[t] + queue'[t] = got[t] + queue[t]
  BY DEF IInv, Types
<1>4. AtMost' /\ NothingLost'
  BY <1>1, <1>3 DEF IInv, AtMost, NothingLost
<1>5. Order' /\ Answered'
  BY <1>1 DEF IInv, Order, Answered
<1>6. Left'
  BY <1>1 DEF IInv, Types, Left, Drained, Streams
<1> QED BY <1>2, <1>4, <1>5, <1>6 DEF IInv

\* A loop is left: the end of the output or of the channel was taken in, or
\* the socket is in error (SSHChannel.cpp:61-90).
LEMMA LeaveLoopStep == ASSUME IInv, NEW s \in Streams, LeaveLoop(s) PROVE IInv'
<1> USE DEF LeaveLoop, After, NothingToCome, remote, library
<1>1. \A m : (OnWire(m)' <=> OnWire(m)) /\ Places(m)' = Places(m)
  BY DEF OnWire, Places
<1>2. Types' /\ Order' /\ AtMost' /\ NothingLost'
  <2>1. Types'
    BY DEF IInv, Types, Streams
  <2>2. Order'
    BY <1>1 DEF IInv, Order
  <2>3. AtMost' /\ NothingLost'
    BY <1>1 DEF IInv, AtMost, NothingLost
  <2> QED BY <2>1, <2>2, <2>3
<1>3. Drained(s)
  <2>1. wire = <<>> => ~OnWire(s)
    BY DEF OnWire
  <2> QED BY <2>1 DEF IInv, Order, Drained, Dead
<1>4. Left' /\ Answered'
  BY <1>1, <1>3 DEF IInv, Left, Drained, Answered, Streams
<1> QED BY <1>2, <1>4 DEF IInv

\* The answer is made (SSHChannel.cpp:13-47).
LEMMA CloseStep == ASSUME IInv, Close PROVE IInv'
<1> USE DEF Close, remote, library
<1>1. \A m : (OnWire(m)' <=> OnWire(m)) /\ Places(m)' = Places(m)
  BY DEF OnWire, Places
<1>2. PICK rc \in CloseResult : answer' = Success(rc)
  OBVIOUS
<1>3. Types' /\ Order' /\ AtMost' /\ NothingLost' /\ Left'
  BY <1>1, <1>2 DEF IInv, Types, Order, AtMost, NothingLost, Left, Drained, Success
<1>4. rc = 0 => closed \/ link = "hangup"
  BY <1>2 DEF CloseResult
<1>5. link = "up" => closed /\ rc = 0
  BY <1>2 DEF CloseResult, Dead
<1>6. ending = "zero" => exit_status = 0 /\ ~exit_signal
  BY DEF IInv, Types, Order
<1>7. Answered'
  BY <1>2, <1>4, <1>5, <1>6 DEF Answered, Success
<1> QED BY <1>3, <1>7 DEF IInv

LEMMA StutterStep == ASSUME IInv, UNCHANGED vars PROVE IInv'
<1> USE DEF vars, remote, library, local
<1>1. \A m : (OnWire(m)' <=> OnWire(m)) /\ Places(m)' = Places(m)
  BY DEF OnWire, Places
<1> QED BY <1>1 DEF IInv, Types, Order, AtMost, NothingLost, Left, Drained, Answered

-----------------------------------------------------------------------------
(***************************************************************************)
(* Theorems.                                                               *)
(***************************************************************************)

\* The invariant holds in every state of every command (SSHChannel.cpp:13-124).
THEOREM Inductive == Spec => []IInv
<1>1. IInv /\ [Next]_vars => IInv'
  BY WriteStep, EndOutputStep, EndStep, CloseRemoteStep, ArriveStep, LoseStep,
     ReadChunkStep, LeaveLoopStep, CloseStep, StutterStep DEF Next, Client, waitsocket
<1> QED BY InitIInv, <1>1, PTL DEF Spec

\* What a stream has given when its loop was left and the channel is closed:
\* everything.
LEMMA AllIsRead ==
  ASSUME IInv, closed, pc \in {"closing", "answered"}
  PROVE  got = written
<1>1. ASSUME NEW s \in Streams PROVE got[s] = written[s]
  <2>1. queue[s] = 0 /\ Cardinality(Places(s)) = 0
    BY PlacesAreFinite DEF IInv, Types, Left, Drained, Streams
  <2>2. got[s] + queue[s] + Cardinality(Places(s)) = written[s] /\ got[s] \in Nat
    BY DEF IInv, Types, NothingLost
  <2> QED BY <2>1, <2>2
<1>2. got \in [Streams -> Nat] /\ written \in [Streams -> 0 .. MaxChunks]
  BY DEF IInv, Types
<1>3. got = [s \in Streams |-> got[s]] /\ written = [s \in Streams |-> written[s]]
  BY <1>2
<1> QED BY <1>1, <1>3

\* The ranges of the variables; no chunk is read twice (SSHChannel.cpp:61-82).
THEOREM TypeCorrect == Spec => []TypeOK
<1>1. IInv => TypeOK
  <2> SUFFICES ASSUME IInv PROVE TypeOK
    OBVIOUS
  <2>1. ASSUME NEW s \in Streams PROVE got[s] + queue[s] <= written[s]
    <3>1. got[s] \in Nat /\ queue[s] \in Nat /\ Cardinality(Places(s)) \in Nat /\ written[s] \in Int
      BY PlacesAreFinite, ChannelAssumption DEF IInv, Types
    <3>2. got[s] + queue[s] + Cardinality(Places(s)) <= written[s]
      BY DEF IInv, AtMost
    <3> QED BY <3>1, <3>2
  <2>2. wire \in Seq(Streams \cup {"zero", "nonzero", "signal", "eof", "close"})
    <3>1. Messages = Streams \cup {"zero", "nonzero", "signal", "eof", "close"}
      BY DEF Messages, Reports
    <3> QED BY <3>1 DEF IInv, Types
  <2> QED BY <2>1, <2>2 DEF IInv, Types, TypeOK
<1> QED BY Inductive, <1>1, PTL

\* execute only returns true when the command has ended, with status zero or
\* with its end unreported, and all of its output has been read, unless the
\* node has hung up (SSHChannel.cpp:13-47, 61-124).
THEOREM TrueIsEarned == Spec => []TrueMeansSuccess
<1>1. IInv => TrueMeansSuccess
  <2> SUFFICES ASSUME IInv, answer, link # "hangup"
               PROVE  ending \in {"zero", "unreported"} /\ got = written
    BY DEF TrueMeansSuccess
  <2>1. pc = "answered" /\ closed /\ exit_status = 0 /\ ~exit_signal
    BY DEF IInv, Answered
  <2>2. ~OnWire("nonzero") /\ ~OnWire("signal")
    BY <2>1 DEF IInv, Order, OnWire
  <2>3. ending \in {"zero", "unreported"}
    BY <2>1, <2>2 DEF IInv, Types, Endings, Order, NothingLost
  <2> QED BY <2>1, <2>3, AllIsRead
<1> QED BY Inductive, <1>1, PTL

\* Over a connection that holds, all output is read and the answer is true if
\* the command succeeds (SSHChannel.cpp:17-24, 35-43).
THEOREM AnswersAreExact == Spec => []ExactWhenUp
<1>1. IInv => ExactWhenUp
  BY AllIsRead DEF IInv, Answered, ExactWhenUp
<1> QED BY Inductive, <1>1, PTL
=============================================================================
