----------------------------- MODULE EtcdClient -----------------------------
(***************************************************************************)
(* What a run of the etcd test records of one key: ETCDClient::invoke      *)
(* (test/etcd/ETCDClient.cpp) between the run loop, which dispatches       *)
(* operations and records them with their completions                      *)
(* (src/jepsen/Runner.cpp), and etcd, which is external: a store that      *)
(* executes a request at one moment. The client library may give up on a   *)
(* request and answer with an error: the request then never arrives, or    *)
(* arrives later, or has been executed and only its answer is lost.        *)
(*                                                                         *)
(* RunCases has the threads, the clients and the queues in detail.         *)
(***************************************************************************)
EXTENDS Integers, Sequences, SequencesExt

CONSTANTS Processes,        \* one per thread: no operation of etcd ends in :info
          Texts,            \* the values the generator writes, as the store has them
          MaxOps,           \* bound: operations of the run
          MaxLost           \* bound: requests the library gives up on

ASSUME EtcdAssumption ==
  Texts \subseteq {"1", "2", "x"} /\ MaxOps \in Nat /\ MaxLost \in Nat

Missing == "missing"        \* the key is not in the store

VARIABLES
  history,          \* what the run loop has recorded
  inside,           \* [Processes -> the operation inside invoke, or Idle]
  request,          \* [Processes -> what has become of its request]
  completions,      \* operations that workers have given back
  dead,             \* processes whose worker has ended with an exception
  store,            \* the value of the key
  late,             \* requests given up on that may still arrive
  lost              \* how many requests were given up on

vars == <<history, inside, request, completions, dead, store, late, lost>>

Idle      == [func |-> "none"]
NoRequest == [at |-> "nowhere"]
Sent      == [at |-> "etcd"]
Answer(ok, found) == [at |-> "client", ok |-> ok, found |-> found]

\* Operations on the key; a read has no number until it is answered.
read           == [func |-> "read", number |-> 0]
write(v)       == [func |-> "write", value |-> v]
cas(v, old)    == [func |-> "cas", value |-> v, old |-> old]
Operations     == {read} \cup {write(v) : v \in Texts}
                    \cup {o \in {cas(v, old) : v, old \in Texts} : o.value # o.old}

Init ==
  /\ history = <<>> /\ completions = {} /\ dead = {}
  /\ inside = [p \in Processes |-> Idle]
  /\ request = [p \in Processes |-> NoRequest]
  /\ store = Missing /\ late = <<>> /\ lost = 0

-----------------------------------------------------------------------------
(***************************************************************************)
(* The run loop: a free process is given an operation; a completion is     *)
(* recorded and frees its process. An entry is <<type, process, operation>>.*)
(***************************************************************************)
Entries(type)  == SelectSeq(history, LAMBDA e : e[1] = type)
OpsInvoked     == Len(Entries("invoke"))
Free(p) ==
  inside[p] = Idle /\ p \notin dead /\ \A c \in completions : c[2] # p

Dispatch(p, o) ==
  /\ Free(p) /\ OpsInvoked < MaxOps
  /\ history' = Append(history, <<"invoke", p, o>>)
  /\ inside' = [inside EXCEPT ![p] = o]
  /\ request' = [request EXCEPT ![p] = Sent]
  /\ UNCHANGED <<completions, dead, store, late, lost>>

Record(c) ==
  /\ completions' = completions \ {c}
  /\ history' = Append(history, c)
  /\ UNCHANGED <<inside, request, dead, store, late, lost>>

-----------------------------------------------------------------------------
(***************************************************************************)
(* etcd: what a request does to the value it finds, and whether it is ok.  *)
(***************************************************************************)
Ok(o, found) ==
  CASE o.func = "read"  -> found # Missing
    [] o.func = "write" -> TRUE
    [] o.func = "cas"   -> found = o.old

Effect(o, found) ==
  IF o.func # "read" /\ Ok(o, found) THEN o.value ELSE found

Execute(p) ==
  /\ request[p] = Sent
  /\ request' = [request EXCEPT ![p] = Answer(Ok(inside[p], store), store)]
  /\ store' = Effect(inside[p], store)
  /\ UNCHANGED <<history, inside, completions, dead, late, lost>>

\* A request that was given up on arrives after all.
ExecuteLate(i) ==
  /\ store' = Effect(late[i], store)
  /\ late' = RemoveAt(late, i)
  /\ UNCHANGED <<history, inside, request, completions, dead, lost>>

-----------------------------------------------------------------------------
(***************************************************************************)
(* invoke. The type is set from is_ok() alone.                             *)
(***************************************************************************)
\* Mutant: the branch of cas has its cases the wrong way round.
CasReversed(func, ok) == IF ok = (func # "cas") THEN "ok" ELSE "fail"

TypeOf(func, ok) == IF ok THEN "ok" ELSE "fail"

\* std::stoi of a text: a number, or an exception.
IsNumber(t) == t \in {"1", "2"}
stoi        == [t \in {"1", "2"} |-> IF t = "1" THEN 1 ELSE 2]

\* op[1] of a read becomes the number.
Answered(o, found) ==
  IF o.func = "read" /\ IsNumber(found) THEN [o EXCEPT !.number = stoi[found]] ELSE o

Throws(p) == request[p].ok /\ inside[p].func = "read" /\ ~IsNumber(request[p].found)

Complete(p, type, o) ==
  /\ completions' = completions \cup {<<type, p, o>>}
  /\ inside' = [inside EXCEPT ![p] = Idle]
  /\ request' = [request EXCEPT ![p] = NoRequest]

Respond(p) ==
  /\ request[p].at = "client"
  /\ LET o == inside[p]
         r == request[p]
     IN  IF Throws(p)
         THEN /\ dead' = dead \cup {p}
              /\ request' = [request EXCEPT ![p] = NoRequest]
              /\ UNCHANGED <<completions, inside>>
         ELSE /\ Complete(p, TypeOf(o.func, r.ok), Answered(o, r.found))
              /\ UNCHANGED dead
  /\ UNCHANGED <<history, store, late, lost>>

\* The library answers with an error of its own.
GiveUp(p) ==
  /\ request[p] # NoRequest /\ lost < MaxLost
  /\ lost' = lost + 1
  /\ \/ late' = late
     \/ request[p] = Sent /\ late' = Append(late, inside[p])
  /\ Complete(p, TypeOf(inside[p].func, FALSE), inside[p])
  /\ UNCHANGED <<history, dead, store>>

Over ==
  /\ OpsInvoked = MaxOps /\ completions = {} /\ late = <<>>
  /\ \A p \in Processes : inside[p] = Idle \/ p \in dead

Next ==
  \/ \E p \in Processes :
       \/ \E o \in Operations : Dispatch(p, o)
       \/ Execute(p) \/ Respond(p) \/ GiveUp(p)
  \/ \E c \in completions : Record(c)
  \/ \E i \in 1 .. Len(late) : ExecuteLate(i)
  \/ Over /\ UNCHANGED vars

Spec == Init /\ [][Next]_vars

-----------------------------------------------------------------------------
(***************************************************************************)
(* Which orders of the operations explain a history? An operation is named *)
(* by the place of its invocation.                                         *)
(***************************************************************************)
Invocations == {i \in 1 .. Len(history) : history[i][1] = "invoke"}

\* The place of the completion of i, or one past the end.
CompletionOf(i) ==
  LET later == {j \in i + 1 .. Len(history) : history[j][2] = history[i][2]}
  IN  IF later = {} THEN Len(history) + 1 ELSE CHOOSE j \in later : \A k \in later : j <= k

TypeAt(i) == IF CompletionOf(i) > Len(history) THEN "open" ELSE history[CompletionOf(i)][1]
OfType(type) == {i \in Invocations : TypeAt(i) = type}

\* The operations of seq, one after the other, with the answers recorded.
Replays(seq) ==
  LET before[n \in 0 .. Len(seq)] ==
        IF n = 0 THEN Missing ELSE Effect(history[seq[n]][3], before[n - 1])
  IN  \A n \in 1 .. Len(seq) :
        TypeAt(seq[n]) = "ok" =>
          LET o      == history[seq[n]][3]
              answer == history[CompletionOf(seq[n])][3]
          IN  /\ Ok(o, before[n - 1])
              /\ o.func = "read" => IsNumber(before[n - 1])
                                      /\ answer.number = stoi[before[n - 1]]

\* None stands behind one that was invoked after its completion; where only
\* the beginning counts, a failed one may come at any time later.
InOrder(seq) ==
  \A m, n \in 1 .. Len(seq) :
    m < n => ~(CompletionOf(seq[n]) < seq[m] /\ TypeAt(seq[n]) = "ok")

Explained(possible) ==
  \E chosen \in SUBSET possible :
    \E seq \in SetToSeqs(OfType("ok") \cup chosen) : InOrder(seq) /\ Replays(seq)

(***************************************************************************)
(* Properties.                                                             *)
(***************************************************************************)

\* There is an order of the operations of the key that explains the history:
\* those recorded :ok took effect between invocation and completion and with
\* the recorded answer; those recorded :fail, like those without completion,
\* did so at some time after their invocation or never. As long as every
\* request was answered, :fail means never (ETCDClient.cpp:21-57).
HistoryExplained ==
  Explained(OfType("open") \cup (IF lost = 0 THEN {} ELSE OfType("fail")))
=============================================================================
