-------------------------- MODULE EtcdClientProofs --------------------------
(***************************************************************************)
(* Proofs about EtcdClient, for any number of processes, operations and    *)
(* requests that are given up on: the histories that the run loop          *)
(* records of a key of etcd can be explained.                              *)
(***************************************************************************)
EXTENDS EtcdClient, FiniteSetTheorems, SequenceTheorems, WellFoundedInduction, TLAPS

-----------------------------------------------------------------------------
(***************************************************************************)
(* Places of a history. Runner::runCases only ever appends to it.          *)
(***************************************************************************)

\* Values of the key, operations with and without their answer, entries.
Found   == Texts \cup {Missing}
Results == Operations \cup {[func |-> "read", number |-> n] : n \in {1, 2}}
Entry   == {"invoke", "ok", "fail"} \X Processes \X Results

\* Place i of h has the last entry of its process.
Latest(h, i) ==
  i \in 1 .. Len(h) /\ \A j \in i + 1 .. Len(h) : h[j][2] # h[i][2]

\* The next entry of the process of i is at j.
Closes(h, i, j) ==
  /\ i \in 1 .. Len(h) /\ j \in i + 1 .. Len(h) /\ h[j][2] = h[i][2]
  /\ \A k \in i + 1 .. j - 1 : h[k][2] # h[i][2]

\* Place i of h has an invocation.
Invoked(h, i) == i \in 1 .. Len(h) /\ h[i][1] = "invoke"

\* What an entry e behind h changes.
Grows(h, g, e) ==
  /\ Len(g) = Len(h) + 1 /\ g[Len(h) + 1] = e /\ Latest(g, Len(h) + 1)
  /\ \A i \in 1 .. Len(h) :
       /\ g[i] = h[i]
       /\ Latest(g, i) <=> Latest(h, i) /\ h[i][2] # e[2]
       /\ \A j : Closes(g, i, j) <=> Closes(h, i, j) \/ (j = Len(h) + 1 /\ Latest(h, i) /\ h[i][2] = e[2])
  /\ \A j : ~Closes(g, Len(h) + 1, j)

\* What an entry behind h leaves of h, and which place it closes.
LEMMA AppendGrows ==
  ASSUME NEW h \in Seq(Entry), NEW e \in Entry
  PROVE  Append(h, e) \in Seq(Entry) /\ Grows(h, Append(h, e), e)
<1> DEFINE g == Append(h, e)
           n == Len(h)
<1>1. /\ n \in Nat /\ g \in Seq(Entry) /\ Len(g) = n + 1 /\ g[n + 1] = e
      /\ \A i \in 1 .. n : g[i] = h[i]
  BY AppendProperties
<1> HIDE DEF g, n
<1>2. Latest(g, n + 1)
  BY <1>1 DEF Latest
<1>3. ASSUME NEW i \in 1 .. n PROVE Latest(g, i) <=> Latest(h, i) /\ h[i][2] # e[2]
  <2>1. Latest(g, i) <=> \A j \in i + 1 .. n + 1 : g[j][2] # h[i][2]
    BY <1>1 DEF Latest
  <2>2. Latest(h, i) <=> \A j \in i + 1 .. n : g[j][2] # h[i][2]
    BY <1>1 DEF Latest, n
  <2>3. \A j : j \in i + 1 .. n + 1 <=> j \in i + 1 .. n \/ j = n + 1
    BY <1>1
  <2> QED BY <1>1, <2>1, <2>2, <2>3
<1>4. ASSUME NEW i \in 1 .. n, NEW j
      PROVE  Closes(g, i, j) <=> Closes(h, i, j) \/ (j = n + 1 /\ Latest(h, i) /\ h[i][2] = e[2])
  <2>1. CASE j \in i + 1 .. n
    <3>1. j \in 1 .. n /\ j # n + 1 /\ j \in i + 1 .. n + 1 /\ i \in 1 .. n + 1
      BY <1>1, <2>1
    <3>2. \A k \in i + 1 .. j - 1 : g[k] = h[k]
      BY <1>1, <2>1
    <3>3. g[j] = h[j] /\ g[i] = h[i]
      BY <1>1, <3>1
    <3> QED BY <1>1, <2>1, <3>1, <3>2, <3>3 DEF Closes, n
  <2>2. CASE j = n + 1
    <3>1. j \notin i + 1 .. n /\ j \in i + 1 .. n + 1 /\ j - 1 = n /\ i \in 1 .. n + 1
      BY <1>1, <2>2
    <3>2. ~Closes(h, i, j)
      BY <3>1 DEF Closes, n
    <3>3. Closes(g, i, j) <=> e[2] = h[i][2] /\ \A k \in i + 1 .. n : g[k][2] # h[i][2]
      BY <1>1, <2>2, <3>1 DEF Closes
    <3>4. Latest(h, i) <=> \A k \in i + 1 .. n : g[k][2] # h[i][2]
      BY <1>1 DEF Latest, n
    <3> QED BY <2>2, <3>2, <3>3, <3>4
  <2>3. CASE j \notin i + 1 .. n /\ j # n + 1
    <3>1. j \notin i + 1 .. n + 1
      BY <1>1, <2>3
    <3> QED BY <1>1, <2>3, <3>1 DEF Closes, n
  <2> QED BY <2>1, <2>2, <2>3
<1>5. \A j : ~Closes(g, n + 1, j)
  BY <1>1 DEF Closes
<1> QED BY <1>1, <1>2, <1>3, <1>4, <1>5 DEF Grows, g, n

-----------------------------------------------------------------------------
(***************************************************************************)
(* The inductive invariant. Beside what holds of the threads of control it *)
(* says that there is a witness: order, the invocations in the order in    *)
(* which etcd executed them successfully; value, the values the key had;   *)
(* lateAt, the invocations of the requests that may still arrive.          *)
(***************************************************************************)
In(s, x) == \E n \in 1 .. Len(s) : s[n] = x

\* c is the completion of the invocation at i, recorded or not yet.
Result(h, cs, i, c) ==
  \/ c \in cs /\ Latest(h, i) /\ h[i][2] = c[2]
  \/ \E j : Closes(h, i, j) /\ h[j] = c

Types ==
  /\ history \in Seq(Entry)
  /\ inside \in [Processes -> Operations \cup {Idle}]
  /\ request \in [Processes -> {NoRequest, Sent}
                               \cup [at : {"client"}, ok : BOOLEAN, found : Found]]
  /\ completions \subseteq {"ok", "fail"} \X Processes \X Results
  /\ dead \subseteq Processes
  /\ store \in Found
  /\ late \in Seq(Operations)
  /\ lost \in Nat

\* Where the operation of each process is: in the worker, or completed.
Threads ==
  /\ \A p \in Processes : inside[p] # Idle =>
       \E i \in 1 .. Len(history) : Latest(history, i) /\ history[i] = <<"invoke", p, inside[p]>>
  /\ \A c \in completions :
       /\ inside[c[2]] = Idle
       /\ \E i \in 1 .. Len(history) :
            Latest(history, i) /\ Invoked(history, i) /\ history[i][2] = c[2]
       /\ \A d \in completions : c[2] = d[2] => c = d
  /\ \A i \in 1 .. Len(history) : Invoked(history, i) /\ Latest(history, i) =>
       inside[history[i][2]] # Idle \/ \E c \in completions : c[2] = history[i][2]
  /\ \A p \in Processes : request[p] # NoRequest => inside[p] # Idle

\* An invocation is followed by a completion.
Alternating ==
  \A i, j \in 1 .. Len(history) : Invoked(history, i) /\ Closes(history, i, j) => ~Invoked(history, j)

Places(order, lateAt) ==
  /\ \A n \in 1 .. Len(order) : Invoked(history, order[n])
  /\ \A n \in 1 .. Len(lateAt) : Invoked(history, lateAt[n])
  /\ \A m, n \in 1 .. Len(order) : order[m] = order[n] => m = n
  /\ \A m, n \in 1 .. Len(lateAt) : lateAt[m] = lateAt[n] => m = n
  /\ \A m \in 1 .. Len(order), n \in 1 .. Len(lateAt) : order[m] # lateAt[n]

\* value[n] is in the store after the first n of order.
Values(order, value) ==
  /\ value \in [0 .. Len(order) -> Found]
  /\ value[0] = Missing /\ value[Len(order)] = store
  /\ \A n \in 1 .. Len(order) :
       /\ Ok(history[order[n]][3], value[n - 1])
       /\ value[n] = Effect(history[order[n]][3], value[n - 1])

LateOnes(lateAt) ==
  /\ Len(lateAt) = Len(late)
  /\ \A k \in 1 .. Len(late) : late[k] = history[lateAt[k]][3] /\ lost > 0

Requested(order, value, lateAt) ==
  \A i \in 1 .. Len(history) : Latest(history, i) /\ Invoked(history, i) =>
    LET r == request[history[i][2]] IN
    /\ r # NoRequest => ~In(lateAt, i)
    /\ r = Sent => ~In(order, i)
    /\ r.at = "client" =>
         IF r.ok THEN \E n \in 1 .. Len(order) : order[n] = i /\ value[n - 1] = r.found
                 ELSE ~In(order, i)

\* The answer c to the operation at i is the one of its place n in order.
Right(order, value, i, c) ==
  \E n \in 1 .. Len(order) :
    /\ order[n] = i
    /\ history[i][3].func = "read" =>
         IsNumber(value[n - 1]) /\ c[3].number = stoi[value[n - 1]]

Returned(order, value, lateAt) ==
  \A i \in 1 .. Len(history) : Invoked(history, i) =>
    \A c : Result(history, completions, i, c) =>
      /\ c[1] = "ok"   => Right(order, value, i, c) /\ ~In(lateAt, i)
      /\ c[1] = "fail" => lost > 0 \/ (~In(order, i) /\ ~In(lateAt, i))

Intervals(order) ==
  \A m, n \in 1 .. Len(order) : m < n =>
    \A j : Closes(history, order[n], j) /\ history[j][1] = "ok" => ~(j < order[m])

Witnessed(order, value, lateAt) ==
  /\ Places(order, lateAt) /\ Values(order, value) /\ LateOnes(lateAt)
  /\ Requested(order, value, lateAt) /\ Returned(order, value, lateAt) /\ Intervals(order)

IInv ==
  /\ Types /\ Threads /\ Alternating
  /\ \E order, lateAt \in Seq(Nat) :
       \E value \in [0 .. Len(order) -> Found] : Witnessed(order, value, lateAt)

-----------------------------------------------------------------------------
(***************************************************************************)
(* The invariant is established, and preserved by each action.             *)
(***************************************************************************)

\* Before the first operation nothing has been executed.
LEMMA InitIInv == Init => IInv
<1> SUFFICES ASSUME Init PROVE IInv
  OBVIOUS
<1>1. /\ history = <<>> /\ completions = {} /\ dead = {} /\ store = Missing /\ late = <<>> /\ lost = 0
      /\ inside = [p \in Processes |-> Idle] /\ request = [p \in Processes |-> NoRequest]
      /\ Len(history) = 0 /\ Len(late) = 0
  BY DEF Init
<1>2. Types
  BY <1>1 DEF Types, Found
<1>3. Threads /\ Alternating
  BY <1>1 DEF Threads, Alternating
<1> DEFINE value == [n \in 0 .. 0 |-> Missing]
<1>4. value \in [0 .. Len(<<>>) -> Found] /\ <<>> \in Seq(Nat) /\ Len(<<>>) = 0 /\ value[0] = Missing
  BY DEF Found
<1> HIDE DEF value
<1>5. Witnessed(<<>>, value, <<>>)
  BY <1>1, <1>4 DEF Witnessed, Places, Values, LateOnes, Requested, Returned, Intervals
<1> QED BY <1>2, <1>3, <1>4, <1>5 DEF IInv

\* No operation is taken for a free process, no request for none.
LEMMA OperationsAreNotIdle ==
  /\ \A o \in Operations : o # Idle /\ o \in Results /\ o.func \in {"read", "write", "cas"}
  /\ Sent # NoRequest
BY DEF Operations, Idle, Results, read, write, cas, Sent, NoRequest

\* The entry that closes another is in the history, behind it.
LEMMA ClosesInside ==
  ASSUME NEW h \in Seq(Entry), NEW i, NEW j, Closes(h, i, j)
  PROVE  i \in 1 .. Len(h) /\ j \in 1 .. Len(h) /\ i < j /\ h[j][2] = h[i][2] /\ ~Latest(h, i)
<1>1. Len(h) \in Nat /\ i \in 1 .. Len(h) /\ j \in i + 1 .. Len(h) /\ h[j][2] = h[i][2]
  BY DEF Closes
<1>2. ~Latest(h, i)
  BY <1>1 DEF Latest
<1>3. j \in 1 .. Len(h) /\ i < j
  BY <1>1
<1> QED BY <1>1, <1>2, <1>3

\* A new invocation is the latest of its process, and open; it is in no order yet
\* (Runner.cpp:231-241).
LEMMA DispatchStep ==
  ASSUME IInv, NEW p \in Processes, NEW o \in Operations, Dispatch(p, o)
  PROVE  IInv'
<1> DEFINE e == <<"invoke", p, o>>
           n == Len(history)
<1>1. /\ Types /\ Threads /\ Alternating
      /\ history' = Append(history, e)
      /\ inside' = [inside EXCEPT ![p] = o] /\ request' = [request EXCEPT ![p] = Sent]
      /\ completions' = completions /\ dead' = dead /\ store' = store /\ late' = late /\ lost' = lost
      /\ inside[p] = Idle /\ p \notin dead /\ \A c \in completions : c[2] # p
  BY DEF IInv, Dispatch, Free
<1>2. history \in Seq(Entry) /\ e \in Entry /\ n \in Nat /\ e[1] = "invoke" /\ e[2] = p /\ e[3] = o
  BY <1>1, OperationsAreNotIdle DEF Types, Entry
<1>3. history' \in Seq(Entry) /\ Grows(history, history', e)
  BY <1>1, <1>2, AppendGrows
<1> HIDE DEF e
<1>4. /\ Len(history') = n + 1 /\ history'[n + 1] = e /\ Latest(history', n + 1)
      /\ \A i \in 1 .. n : history'[i] = history[i]
      /\ \A j : ~Closes(history', n + 1, j)
      /\ \A i : i \in 1 .. Len(history') <=> i \in 1 .. n \/ i = n + 1
  BY <1>2, <1>3 DEF Grows
<1>5. \A i \in 1 .. n : Invoked(history, i) /\ Latest(history, i) => history[i][2] # p
  BY <1>1 DEF Threads
<1>6. \A i \in 1 .. n : Invoked(history, i) =>
        /\ Latest(history', i) <=> Latest(history, i)
        /\ \A j : Closes(history', i, j) <=> Closes(history, i, j)
  BY <1>2, <1>3, <1>5 DEF Grows
<1>7. /\ \A i \in 1 .. n : Invoked(history', i) <=> Invoked(history, i)
      /\ Invoked(history', n + 1)
  BY <1>2, <1>4 DEF Invoked
<1>8. Types'
  BY <1>1, <1>3 DEF Types
<1>9. Threads'
  <2>1. ASSUME NEW q \in Processes, inside'[q] # Idle
        PROVE  \E i \in 1 .. Len(history') :
                 Latest(history', i) /\ history'[i] = <<"invoke", q, inside'[q]>>
    <3>1. CASE q = p
      <4>1. inside'[q] = o
        BY <1>1, <3>1 DEF Types
      <4> QED BY <1>4, <3>1, <4>1 DEF e
    <3>2. CASE q # p
      <4>1. inside'[q] = inside[q]
        BY <1>1, <3>2 DEF Types
      <4>2. PICK i \in 1 .. n : Latest(history, i) /\ history[i] = <<"invoke", q, inside[q]>>
        BY <1>1, <2>1, <4>1 DEF Threads
      <4>3. Invoked(history, i)
        BY <4>2 DEF Invoked
      <4> QED BY <1>4, <1>6, <4>1, <4>2, <4>3
    <3> QED BY <3>1, <3>2
  <2>2. ASSUME NEW c \in completions
        PROVE  /\ inside'[c[2]] = Idle
               /\ \E i \in 1 .. Len(history') :
                    Latest(history', i) /\ Invoked(history', i) /\ history'[i][2] = c[2]
               /\ \A d \in completions : c[2] = d[2] => c = d
    <3>1. PICK i \in 1 .. n : Latest(history, i) /\ Invoked(history, i) /\ history[i][2] = c[2]
      BY <1>1 DEF Threads
    <3>2. inside'[c[2]] = inside[c[2]]
      BY <1>1 DEF Types
    <3> QED BY <1>1, <1>4, <1>6, <1>7, <3>1, <3>2 DEF Threads
  <2>3. ASSUME NEW i \in 1 .. Len(history'), Invoked(history', i), Latest(history', i)
        PROVE  inside'[history'[i][2]] # Idle \/ \E c \in completions : c[2] = history'[i][2]
    <3>1. CASE i \in 1 .. n
      <4>1. inside[history[i][2]] # Idle \/ \E c \in completions : c[2] = history[i][2]
        BY <1>1, <1>6, <1>7, <2>3, <3>1 DEF Threads
      <4>2. history[i][2] # p
        BY <1>5, <1>6, <1>7, <2>3, <3>1
      <4>3. history[i][2] \in Processes
        BY <1>2, <3>1, ElementOfSeq DEF Entry
      <4> QED BY <1>1, <1>4, <3>1, <4>1, <4>2, <4>3 DEF Types
    <3>2. CASE i = n + 1
      <4>1. history'[i][2] = p
        BY <1>2, <1>4, <3>2
      <4>2. inside'[p] = o
        BY <1>1 DEF Types
      <4> QED BY <4>1, <4>2, OperationsAreNotIdle
    <3> QED BY <1>4, <3>1, <3>2
  <2>4. ASSUME NEW q \in Processes, request'[q] # NoRequest PROVE inside'[q] # Idle
    <3>1. CASE q = p
      BY <1>1, <3>1, OperationsAreNotIdle DEF Types
    <3>2. CASE q # p
      BY <1>1, <2>4, <3>2 DEF Types, Threads
    <3> QED BY <3>1, <3>2
  <2> QED BY <1>1, <2>1, <2>2, <2>3, <2>4 DEF Threads
<1>10. Alternating'
  <2> SUFFICES ASSUME NEW i \in 1 .. Len(history'), NEW j \in 1 .. Len(history'),
                      Invoked(history', i), Closes(history', i, j)
               PROVE  ~Invoked(history', j)
    BY DEF Alternating
  <2>1. i \in 1 .. n
    BY <1>4
  <2>2. Invoked(history, i) /\ Closes(history, i, j)
    BY <1>6, <1>7, <2>1
  <2>3. j \in 1 .. n
    BY <1>2, <2>2, ClosesInside
  <2> QED BY <1>1, <1>7, <2>1, <2>2, <2>3 DEF Alternating
<1>11. ASSUME NEW order \in Seq(Nat), NEW lateAt \in Seq(Nat), NEW value \in [0 .. Len(order) -> Found],
              Witnessed(order, value, lateAt)
       PROVE  Witnessed(order, value, lateAt)'
  <2>1. /\ Places(order, lateAt) /\ Values(order, value) /\ LateOnes(lateAt)
        /\ Requested(order, value, lateAt) /\ Returned(order, value, lateAt) /\ Intervals(order)
    BY <1>11 DEF Witnessed
  <2>2. /\ \A m \in 1 .. Len(order) : Invoked(history, order[m]) /\ order[m] \in 1 .. n
        /\ \A m \in 1 .. Len(lateAt) : Invoked(history, lateAt[m]) /\ lateAt[m] \in 1 .. n
    BY <2>1 DEF Places, Invoked
  <2>3. Places(order, lateAt)'
    BY <1>7, <2>1, <2>2 DEF Places
  <2>4. Values(order, value)'
    BY <1>1, <1>4, <2>1, <2>2 DEF Values
  <2>5. LateOnes(lateAt)'
    BY <1>1, <1>4, <2>1, <2>2 DEF LateOnes
  <2>6. Requested(order, value, lateAt)'
    <3> SUFFICES ASSUME NEW i \in 1 .. Len(history'), Latest(history', i), Invoked(history', i)
                 PROVE  LET r == request'[history'[i][2]] IN
                        /\ r # NoRequest => ~In(lateAt, i)
                        /\ r = Sent => ~In(order, i)
                        /\ r.at = "client" =>
                             IF r.ok THEN \E m \in 1 .. Len(order) : order[m] = i /\ value[m - 1] = r.found
                                     ELSE ~In(order, i)
      BY DEF Requested
    <3>1. CASE i \in 1 .. n
      <4>1. Latest(history, i) /\ Invoked(history, i) /\ history[i][2] # p /\ history[i][2] \in Processes
        BY <1>2, <1>5, <1>6, <1>7, <3>1, ElementOfSeq DEF Entry
      <4>2. request'[history'[i][2]] = request[history[i][2]]
        BY <1>1, <1>4, <3>1, <4>1 DEF Types
      <4> QED BY <2>1, <3>1, <4>1, <4>2 DEF Requested
    <3>2. CASE i = n + 1
      <4>1. request'[history'[i][2]] = Sent
        BY <1>1, <1>2, <1>4, <3>2 DEF Types
      <4>2. ~In(lateAt, i) /\ ~In(order, i)
        BY <1>2, <2>2, <3>2 DEF In
      <4> QED BY <4>1, <4>2 DEF Sent
    <3> QED BY <1>4, <3>1, <3>2
  <2>7. Returned(order, value, lateAt)'
    <3> SUFFICES ASSUME NEW i \in 1 .. Len(history'), Invoked(history', i), NEW c,
                        Result(history', completions', i, c)
                 PROVE  /\ c[1] = "ok"   => Right(order, value, i, c)' /\ ~In(lateAt, i)
                        /\ c[1] = "fail" => lost' > 0 \/ (~In(order, i) /\ ~In(lateAt, i))
      BY DEF Returned
    <3>1. i \in 1 .. n
      BY <1>1, <1>2, <1>4 DEF Result
    <3>2. Invoked(history, i) /\ Result(history, completions, i, c)
      BY <1>1, <1>2, <1>4, <1>6, <1>7, <3>1, ClosesInside DEF Result
    <3>3. Right(order, value, i, c)' <=> Right(order, value, i, c)
      BY <1>4, <3>1 DEF Right
    <3> QED BY <1>1, <2>1, <3>1, <3>2, <3>3 DEF Returned
  <2>8. Intervals(order)'
    <3> SUFFICES ASSUME NEW k \in 1 .. Len(order), NEW m \in 1 .. Len(order), k < m,
                        NEW j, Closes(history', order[m], j), history'[j][1] = "ok"
                 PROVE  ~(j < order[k])
      BY DEF Intervals
    <3>1. Closes(history, order[m], j)
      BY <1>6, <2>2
    <3>2. history'[j] = history[j]
      BY <1>2, <1>4, <3>1, ClosesInside
    <3> QED BY <2>1, <3>1, <3>2 DEF Intervals
  <2> QED BY <2>3, <2>4, <2>5, <2>6, <2>7, <2>8 DEF Witnessed
<1> QED BY <1>8, <1>9, <1>10, <1>11 DEF IInv

\* A completion closes the invocation of its process, and comes after all that
\* were invoked so far: no order is refuted by it (Runner.cpp:186-199).
LEMMA RecordStep ==
  ASSUME IInv, NEW c \in completions, Record(c)
  PROVE  IInv'
<1> DEFINE n == Len(history)
<1>1. /\ Types /\ Threads /\ Alternating
      /\ history' = Append(history, c) /\ completions' = completions \ {c}
      /\ inside' = inside /\ request' = request /\ dead' = dead /\ store' = store
      /\ late' = late /\ lost' = lost
  BY DEF IInv, Record
<1>2. /\ history \in Seq(Entry) /\ c \in Entry /\ n \in Nat
      /\ c[1] \in {"ok", "fail"} /\ c[1] # "invoke" /\ c[2] \in Processes
  BY <1>1 DEF Types, Entry
<1>3. history' \in Seq(Entry) /\ Grows(history, history', c)
  BY <1>1, <1>2, AppendGrows
<1>4. /\ Len(history') = n + 1 /\ history'[n + 1] = c
      /\ \A i \in 1 .. n : history'[i] = history[i]
      /\ \A i : i \in 1 .. Len(history') <=> i \in 1 .. n \/ i = n + 1
  BY <1>2, <1>3 DEF Grows
<1>5. \A i \in 1 .. n :
        /\ Latest(history', i) <=> Latest(history, i) /\ history[i][2] # c[2]
        /\ \A j : Closes(history', i, j) <=>
                 Closes(history, i, j) \/ (j = n + 1 /\ Latest(history, i) /\ history[i][2] = c[2])
  BY <1>2, <1>3 DEF Grows
<1>6. \A i : Invoked(history', i) <=> Invoked(history, i)
  BY <1>2, <1>4 DEF Invoked
<1>7. \A i : Invoked(history, i) => i \in 1 .. n
  BY DEF Invoked
<1>8. /\ inside[c[2]] = Idle
      /\ \A d \in completions : c[2] = d[2] => c = d
  BY <1>1 DEF Threads
<1>9. Types'
  BY <1>1, <1>3 DEF Types
<1>10. Threads'
  <2>1. ASSUME NEW q \in Processes, inside'[q] # Idle
        PROVE  \E i \in 1 .. Len(history') :
                 Latest(history', i) /\ history'[i] = <<"invoke", q, inside'[q]>>
    <3>1. PICK i \in 1 .. n : Latest(history, i) /\ history[i] = <<"invoke", q, inside[q]>>
      BY <1>1, <2>1 DEF Threads
    <3>2. history[i][2] # c[2]
      BY <1>1, <1>8, <2>1, <3>1
    <3> QED BY <1>1, <1>4, <1>5, <3>1, <3>2
  <2>2. ASSUME NEW d \in completions'
        PROVE  /\ inside'[d[2]] = Idle
               /\ \E i \in 1 .. Len(history') :
                    Latest(history', i) /\ Invoked(history', i) /\ history'[i][2] = d[2]
               /\ \A f \in completions' : d[2] = f[2] => d = f
    <3>1. d \in completions /\ d # c
      BY <1>1
    <3>2. PICK i \in 1 .. n : Latest(history, i) /\ Invoked(history, i) /\ history[i][2] = d[2]
      BY <1>1, <3>1 DEF Threads
    <3>3. history[i][2] # c[2]
      BY <1>8, <3>1, <3>2
    <3>4. Latest(history', i) /\ Invoked(history', i) /\ history'[i][2] = d[2] /\ i \in 1 .. Len(history')
      BY <1>4, <1>5, <1>6, <3>2, <3>3
    <3> QED BY <1>1, <3>1, <3>4 DEF Threads
  <2>3. ASSUME NEW i \in 1 .. Len(history'), Invoked(history', i), Latest(history', i)
        PROVE  inside'[history'[i][2]] # Idle \/ \E d \in completions' : d[2] = history'[i][2]
    <3>1. i \in 1 .. n /\ Invoked(history, i)
      BY <1>6, <1>7, <2>3
    <3>2. Latest(history, i) /\ history[i][2] # c[2] /\ history'[i] = history[i]
      BY <1>4, <1>5, <2>3, <3>1
    <3>3. inside[history[i][2]] # Idle \/ \E d \in completions : d[2] = history[i][2]
      BY <1>1, <3>1, <3>2 DEF Threads
    <3> QED BY <1>1, <3>2, <3>3
  <2>4. \A q \in Processes : request'[q] # NoRequest => inside'[q] # Idle
    BY <1>1 DEF Threads
  <2> QED BY <2>1, <2>2, <2>3, <2>4 DEF Threads
<1>11. Alternating'
  <2> SUFFICES ASSUME NEW i \in 1 .. Len(history'), NEW j \in 1 .. Len(history'),
                      Invoked(history', i), Closes(history', i, j)
               PROVE  ~Invoked(history', j)
    BY DEF Alternating
  <2>1. i \in 1 .. n /\ Invoked(history, i)
    BY <1>6, <1>7
  <2>2. CASE j = n + 1
    BY <1>2, <1>4, <2>2 DEF Invoked
  <2>3. CASE Closes(history, i, j)
    <3>1. j \in 1 .. n
      BY <1>2, <2>3, ClosesInside
    <3> QED BY <1>1, <1>6, <2>1, <2>3, <3>1 DEF Alternating
  <2> QED BY <1>5, <2>1, <2>2, <2>3
<1>12. ASSUME NEW order \in Seq(Nat), NEW lateAt \in Seq(Nat), NEW value \in [0 .. Len(order) -> Found],
              Witnessed(order, value, lateAt)
       PROVE  Witnessed(order, value, lateAt)'
  <2>1. /\ Places(order, lateAt) /\ Values(order, value) /\ LateOnes(lateAt)
        /\ Requested(order, value, lateAt) /\ Returned(order, value, lateAt) /\ Intervals(order)
    BY <1>12 DEF Witnessed
  <2>2. /\ \A m \in 1 .. Len(order) : Invoked(history, order[m]) /\ order[m] \in 1 .. n
        /\ \A m \in 1 .. Len(lateAt) : Invoked(history, lateAt[m]) /\ lateAt[m] \in 1 .. n
    BY <2>1 DEF Places, Invoked
  <2>3. Places(order, lateAt)'
    BY <1>6, <2>1, <2>2 DEF Places
  <2>4. Values(order, value)'
    BY <1>1, <1>4, <2>1, <2>2 DEF Values
  <2>5. LateOnes(lateAt)'
    BY <1>1, <1>4, <2>1, <2>2 DEF LateOnes
  <2>6. Requested(order, value, lateAt)'
    <3> SUFFICES ASSUME NEW i \in 1 .. Len(history'), Latest(history', i), Invoked(history', i)
                 PROVE  LET r == request'[history'[i][2]] IN
                        /\ r # NoRequest => ~In(lateAt, i)
                        /\ r = Sent => ~In(order, i)
                        /\ r.at = "client" =>
                             IF r.ok THEN \E m \in 1 .. Len(order) : order[m] = i /\ value[m - 1] = r.found
                                     ELSE ~In(order, i)
      BY DEF Requested
    <3>1. i \in 1 .. n /\ Invoked(history, i) /\ Latest(history, i) /\ history'[i] = history[i]
      BY <1>4, <1>5, <1>6, <1>7
    <3> QED BY <1>1, <2>1, <3>1 DEF Requested
  <2>7. Returned(order, value, lateAt)'
    <3> SUFFICES ASSUME NEW i \in 1 .. Len(history'), Invoked(history', i), NEW d,
                        Result(history', completions', i, d)
                 PROVE  /\ d[1] = "ok"   => Right(order, value, i, d)' /\ ~In(lateAt, i)
                        /\ d[1] = "fail" => lost' > 0 \/ (~In(order, i) /\ ~In(lateAt, i))
      BY DEF Returned
    <3>1. i \in 1 .. n /\ Invoked(history, i) /\ history'[i] = history[i]
      BY <1>4, <1>6, <1>7
    <3>2. Result(history, completions, i, d)
      <4>1. CASE d \in completions' /\ Latest(history', i) /\ history'[i][2] = d[2]
        BY <1>1, <1>5, <3>1, <4>1 DEF Result
      <4>2. ASSUME NEW j, Closes(history', i, j), history'[j] = d
            PROVE  Result(history, completions, i, d)
        <5>1. CASE Closes(history, i, j)
          BY <1>2, <1>4, <4>2, <5>1, ClosesInside DEF Result
        <5>2. CASE j = n + 1 /\ Latest(history, i) /\ history[i][2] = c[2]
          BY <1>4, <4>2, <5>2 DEF Result
        <5> QED BY <1>5, <3>1, <4>2, <5>1, <5>2
      <4> QED BY <4>1, <4>2 DEF Result
    <3>3. Right(order, value, i, d)' <=> Right(order, value, i, d)
      BY <3>1 DEF Right
    <3> QED BY <1>1, <2>1, <3>1, <3>2, <3>3 DEF Returned
  <2>8. Intervals(order)'
    <3> SUFFICES ASSUME NEW k \in 1 .. Len(order), NEW m \in 1 .. Len(order), k < m,
                        NEW j, Closes(history', order[m], j), history'[j][1] = "ok"
                 PROVE  ~(j < order[k])
      BY DEF Intervals
    <3>1. CASE Closes(history, order[m], j)
      <4>1. history'[j] = history[j]
        BY <1>2, <1>4, <3>1, ClosesInside
      <4> QED BY <2>1, <3>1, <4>1 DEF Intervals
    <3>2. CASE j = n + 1
      BY <1>2, <2>2, <3>2
    <3> QED BY <1>5, <2>2, <3>1, <3>2
  <2> QED BY <2>3, <2>4, <2>5, <2>6, <2>7, <2>8 DEF Witnessed
<1> QED BY <1>9, <1>10, <1>11, <1>12 DEF IInv
\* A process has one latest place.
LEMMA LatestIsUnique ==
  ASSUME NEW h \in Seq(Entry), NEW i, NEW j, Latest(h, i), Latest(h, j), h[i][2] = h[j][2]
  PROVE  i = j
<1>1. Len(h) \in Nat /\ i \in 1 .. Len(h) /\ j \in 1 .. Len(h)
  BY DEF Latest
<1>2. ~(j \in i + 1 .. Len(h)) /\ ~(i \in j + 1 .. Len(h))
  BY DEF Latest
<1> QED BY <1>1, <1>2

\* An operation leaves a text or nothing behind.
LEMMA EffectFound ==
  ASSUME NEW o \in Results, NEW found \in Found
  PROVE  Effect(o, found) \in Found
<1>1. o.func # "read" => o.value \in Texts
  BY DEF Results, Operations, read, write, cas
<1> QED BY <1>1 DEF Effect, Found

\* What x, executed in the store, adds to order and value.
Extends(order, value, x, g, v) ==
  /\ Len(g) = Len(order) + 1 /\ g[Len(order) + 1] = x /\ v[Len(order)] = store
  /\ \A n \in 1 .. Len(order) : g[n] = order[n] /\ v[n - 1] = value[n - 1]
  /\ \A i : In(g, i) <=> In(order, i) \/ i = x
  /\ \A i, c : Right(order, value, i, c) => Right(g, v, i, c)
  /\ (\A j : Closes(history, x, j) => history[j][1] # "ok") => Intervals(g)
  /\ \A m, n \in 1 .. Len(g) : g[m] = g[n] => m = n

\* An operation that succeeds in the store can stand at the end of the order.
LEMMA OneMore ==
  ASSUME Types, NEW order \in Seq(Nat), NEW value \in [0 .. Len(order) -> Found],
         Values(order, value), Intervals(order),
         \A m, n \in 1 .. Len(order) : order[m] = order[n] => m = n,
         \A n \in 1 .. Len(order) : Invoked(history, order[n]),
         NEW x, Invoked(history, x), ~In(order, x), Ok(history[x][3], store),
         history' = history, store' = Effect(history[x][3], store)
  PROVE  \E g \in Seq(Nat) : \E v \in [0 .. Len(g) -> Found] :
           Extends(order, value, x, g, v) /\ Values(g, v)'
<1> DEFINE n == Len(order)
           g == Append(order, x)
<1>1. history \in Seq(Entry) /\ x \in 1 .. Len(history) /\ x \in Nat /\ n \in Nat
  BY DEF Types, Invoked
<1>2. history[x][3] \in Results /\ store \in Found
  BY <1>1, ElementOfSeq DEF Types, Entry
<1>3. store' \in Found
  BY <1>2, EffectFound
<1>4. /\ g \in Seq(Nat) /\ Len(g) = n + 1 /\ g[n + 1] = x
      /\ \A k \in 1 .. n : g[k] = order[k]
  BY <1>1, AppendProperties
<1> HIDE DEF g
<1>5. PICK v \in [0 .. Len(g) -> Found] :
        \A k \in 0 .. n + 1 : v[k] = IF k = n + 1 THEN store' ELSE value[k]
  <2> DEFINE w == [k \in 0 .. n + 1 |-> IF k = n + 1 THEN store' ELSE value[k]]
  <2>1. \A k \in 0 .. n + 1 : k = n + 1 \/ k \in 0 .. n
    BY <1>1
  <2>2. w \in [0 .. Len(g) -> Found]
    BY <1>3, <1>4, <2>1
  <2> QED BY <2>2
<1>6. /\ v[n] = store /\ v[n + 1] = store' /\ v[0] = Missing
      /\ \A k \in 1 .. n : v[k] = value[k] /\ v[k - 1] = value[k - 1]
  <2>1. /\ n \in 0 .. n + 1 /\ n # n + 1 /\ n + 1 \in 0 .. n + 1 /\ 0 \in 0 .. n + 1 /\ 0 # n + 1
        /\ \A k \in 1 .. n : k \in 0 .. n + 1 /\ k # n + 1 /\ k - 1 \in 0 .. n + 1 /\ k - 1 # n + 1
    BY <1>1
  <2> QED BY <1>5, <2>1 DEF Values
<1>7. \A k \in 1 .. Len(g) : k \in 1 .. n \/ k = n + 1
  BY <1>1, <1>4
<1>8. \A k : k \in 1 .. n \/ k = n + 1 => k \in 1 .. Len(g)
  BY <1>1, <1>4
<1>9. Values(g, v)'
  <2>1. ASSUME NEW k \in 1 .. Len(g)
        PROVE  Ok(history[g[k]][3], v[k - 1]) /\ v[k] = Effect(history[g[k]][3], v[k - 1])
    <3>1. CASE k \in 1 .. n
      BY <1>4, <1>6, <3>1 DEF Values
    <3>2. CASE k = n + 1
      BY <1>1, <1>4, <1>6, <3>2
    <3> QED BY <1>7, <3>1, <3>2
  <2> QED BY <1>4, <1>5, <1>6, <2>1 DEF Values
<1>10. \A i : In(g, i) <=> In(order, i) \/ i = x
  BY <1>4, <1>7, <1>8 DEF In
<1>11. ASSUME NEW i, NEW c, Right(order, value, i, c) PROVE Right(g, v, i, c)
  <2>1. PICK k \in 1 .. n :
          /\ order[k] = i
          /\ history[i][3].func = "read" =>
               IsNumber(value[k - 1]) /\ c[3].number = stoi[value[k - 1]]
    BY <1>11 DEF Right
  <2>2. k \in 1 .. Len(g) /\ g[k] = i /\ v[k - 1] = value[k - 1]
    BY <1>4, <1>6, <1>8, <2>1
  <2> QED BY <2>1, <2>2 DEF Right
<1>12. ASSUME \A j : Closes(history, x, j) => history[j][1] # "ok" PROVE Intervals(g)
  <2> SUFFICES ASSUME NEW k \in 1 .. Len(g), NEW m \in 1 .. Len(g), k < m,
                      NEW j, Closes(history, g[m], j), history[j][1] = "ok"
               PROVE  ~(j < g[k])
    BY DEF Intervals
  <2>1. m \in 1 .. n
    BY <1>4, <1>7, <1>12
  <2>2. k \in 1 .. n
    BY <1>1, <1>4, <2>1
  <2> QED BY <1>4, <2>1, <2>2 DEF Intervals
<1>13. ASSUME NEW k \in 1 .. Len(g), NEW m \in 1 .. Len(g), g[k] = g[m] PROVE k = m
  BY <1>4, <1>7, <1>13 DEF In
<1>14. Extends(order, value, x, g, v)
  BY <1>4, <1>6, <1>10, <1>11, <1>12, <1>13 DEF Extends
<1> QED BY <1>4, <1>5, <1>9, <1>14

\* etcd executes a request: a success is the next of the order, what fails has
\* changed nothing.
LEMMA ExecuteStep ==
  ASSUME IInv, NEW p \in Processes, Execute(p)
  PROVE  IInv'
<1> DEFINE o == inside[p]
<1>1. /\ Types /\ Threads /\ Alternating
      /\ request[p] = Sent /\ request' = [request EXCEPT ![p] = Answer(Ok(o, store), store)]
      /\ store' = Effect(o, store)
      /\ history' = history /\ inside' = inside /\ completions' = completions /\ dead' = dead
      /\ late' = late /\ lost' = lost
  BY DEF IInv, Execute
<1>2. o # Idle
  BY <1>1, OperationsAreNotIdle DEF Threads
<1>3. o \in Operations /\ o \in Results /\ store \in Found /\ history \in Seq(Entry)
  BY <1>1, <1>2, OperationsAreNotIdle DEF Types
<1>4. PICK i \in 1 .. Len(history) : Latest(history, i) /\ history[i] = <<"invoke", p, o>>
  BY <1>1, <1>2 DEF Threads
<1>5. Invoked(history, i) /\ history[i][2] = p /\ history[i][3] = o
  BY <1>4 DEF Invoked
<1>6. Ok(o, store) \in BOOLEAN
  BY <1>3, OperationsAreNotIdle DEF Ok
<1>7. Types'
  <2>1. store' \in Found
    BY <1>1, <1>3, EffectFound
  <2>2. Answer(Ok(o, store), store) \in [at : {"client"}, ok : BOOLEAN, found : Found]
    BY <1>3, <1>6 DEF Answer
  <2> QED BY <1>1, <2>1, <2>2 DEF Types
<1>8. Threads' /\ Alternating'
  <2>1. \A q \in Processes : request'[q] # NoRequest => request[q] # NoRequest
    BY <1>1, OperationsAreNotIdle DEF Types
  <2> QED BY <1>1, <2>1 DEF Threads, Alternating
<1>9. ASSUME NEW k, Latest(history, k), k # i
      PROVE  request'[history[k][2]] = request[history[k][2]]
  <2>1. history[k][2] # p
    BY <1>3, <1>4, <1>5, <1>9, LatestIsUnique
  <2>2. history[k][2] \in Processes
    BY <1>3, <1>9, ElementOfSeq DEF Latest, Entry
  <2> QED BY <1>1, <2>1, <2>2 DEF Types
<1>10. request'[p] = Answer(Ok(o, store), store)
  BY <1>1 DEF Types
<1>11. \A j : ~Closes(history, i, j)
  BY <1>3, <1>4, ClosesInside
<1>12. ASSUME NEW c PROVE ~Result(history, completions, i, c)
  BY <1>1, <1>2, <1>5, <1>11 DEF Result, Threads
<1>13. ASSUME NEW order \in Seq(Nat), NEW lateAt \in Seq(Nat), NEW value \in [0 .. Len(order) -> Found],
              Witnessed(order, value, lateAt)
       PROVE  \E g \in Seq(Nat) : \E v \in [0 .. Len(g) -> Found] : Witnessed(g, v, lateAt)'
  <2>1. /\ Places(order, lateAt) /\ Values(order, value) /\ LateOnes(lateAt)
        /\ Requested(order, value, lateAt) /\ Returned(order, value, lateAt) /\ Intervals(order)
    BY <1>13 DEF Witnessed
  <2>2. ~In(order, i) /\ ~In(lateAt, i)
    BY <1>1, <1>4, <1>5, <2>1, OperationsAreNotIdle DEF Requested
  <2>3. LateOnes(lateAt)'
    BY <1>1, <2>1 DEF LateOnes
  <2>4. CASE Ok(o, store)
    <3>1. PICK g \in Seq(Nat) : \E v \in [0 .. Len(g) -> Found] :
            Extends(order, value, i, g, v) /\ Values(g, v)'
      BY <1>1, <1>5, <2>1, <2>2, <2>4, OneMore DEF Places
    <3>2. PICK v \in [0 .. Len(g) -> Found] : Extends(order, value, i, g, v) /\ Values(g, v)'
      BY <3>1
    <3>3. /\ Len(g) = Len(order) + 1 /\ g[Len(order) + 1] = i /\ v[Len(order)] = store
          /\ \A n \in 1 .. Len(order) : g[n] = order[n] /\ v[n - 1] = value[n - 1]
          /\ \A k : In(g, k) <=> In(order, k) \/ k = i
          /\ \A k, c : Right(order, value, k, c) => Right(g, v, k, c)
          /\ Intervals(g)
          /\ \A m, n \in 1 .. Len(g) : g[m] = g[n] => m = n
      BY <1>11, <3>2 DEF Extends
    <3>4. /\ Len(order) \in Nat
          /\ \A n : n \in 1 .. Len(g) <=> n \in 1 .. Len(order) \/ n = Len(order) + 1
      BY <3>3
    <3>5. Places(g, lateAt)'
      <4>1. \A m \in 1 .. Len(g) : Invoked(history, g[m])
        BY <1>5, <2>1, <3>3, <3>4 DEF Places
      <4>2. ASSUME NEW m \in 1 .. Len(g), NEW k \in 1 .. Len(lateAt) PROVE g[m] # lateAt[k]
        <5>1. CASE m \in 1 .. Len(order)
          <6>1. order[m] # lateAt[k]
            BY <2>1, <5>1 DEF Places
          <6> QED BY <3>3, <5>1, <6>1
        <5>2. CASE m = Len(order) + 1
          BY <2>2, <3>3, <5>2 DEF In
        <5> QED BY <3>4, <5>1, <5>2
      <4>3. /\ \A m \in 1 .. Len(lateAt) : Invoked(history, lateAt[m])
            /\ \A m, n \in 1 .. Len(lateAt) : lateAt[m] = lateAt[n] => m = n
        BY <2>1 DEF Places
      <4>4. \A m, n \in 1 .. Len(g) : g[m] = g[n] => m = n
        BY <3>3
      <4> QED BY <1>1, <4>1, <4>2, <4>3, <4>4 DEF Places
    <3>6. Requested(g, v, lateAt)'
      <4> SUFFICES ASSUME NEW k \in 1 .. Len(history), Latest(history, k), Invoked(history, k)
                   PROVE  LET r == request'[history[k][2]] IN
                          /\ r # NoRequest => ~In(lateAt, k)
                          /\ r = Sent => ~In(g, k)
                          /\ r.at = "client" =>
                               IF r.ok THEN \E m \in 1 .. Len(g) : g[m] = k /\ v[m - 1] = r.found
                                       ELSE ~In(g, k)
        BY <1>1 DEF Requested
      <4>1. CASE k = i
        <5>1. Len(order) + 1 \in 1 .. Len(g) /\ (Len(order) + 1) - 1 = Len(order)
          BY <3>4
        <5>2. /\ request'[history[k][2]].ok /\ request'[history[k][2]].found = store
              /\ request'[history[k][2]].at = "client" /\ request'[history[k][2]] # Sent
          BY <1>5, <1>10, <2>4, <4>1 DEF Answer, Sent
        <5> QED BY <2>2, <3>3, <4>1, <5>1, <5>2
      <4>2. CASE k # i
        <5>1. request'[history[k][2]] = request[history[k][2]]
          BY <1>9, <4>2
        <5>2. In(g, k) <=> In(order, k)
          BY <3>3, <4>2
        <5>3. \A m \in 1 .. Len(order) : m \in 1 .. Len(g) /\ g[m] = order[m] /\ v[m - 1] = value[m - 1]
          BY <3>3, <3>4
        <5> DEFINE r == request[history[k][2]]
        <5>4. /\ r # NoRequest => ~In(lateAt, k)
              /\ r = Sent => ~In(order, k)
              /\ r.at = "client" =>
                   IF r.ok THEN \E m \in 1 .. Len(order) : order[m] = k /\ value[m - 1] = r.found
                           ELSE ~In(order, k)
          BY <2>1 DEF Requested
        <5> HIDE DEF r
        <5>5. r.at = "client" /\ r.ok => \E m \in 1 .. Len(g) : g[m] = k /\ v[m - 1] = r.found
          BY <5>3, <5>4
        <5>6. /\ r # NoRequest => ~In(lateAt, k)
              /\ r = Sent => ~In(g, k)
              /\ r.at = "client" =>
                   IF r.ok THEN \E m \in 1 .. Len(g) : g[m] = k /\ v[m - 1] = r.found
                           ELSE ~In(g, k)
          BY <5>2, <5>4, <5>5
        <5> QED BY <5>1, <5>6 DEF r
      <4> QED BY <4>1, <4>2
    <3>7. Returned(g, v, lateAt)'
      <4> SUFFICES ASSUME NEW k \in 1 .. Len(history), Invoked(history, k),
                          NEW c, Result(history, completions, k, c)
                   PROVE  /\ c[1] = "ok"   => Right(g, v, k, c) /\ ~In(lateAt, k)
                          /\ c[1] = "fail" => lost > 0 \/ (~In(g, k) /\ ~In(lateAt, k))
        BY <1>1 DEF Returned, Right
      <4> QED BY <1>12, <2>1, <3>3 DEF Returned
    <3>8. Intervals(g)'
      BY <1>1, <3>3 DEF Intervals
    <3> QED BY <2>3, <3>2, <3>5, <3>6, <3>7, <3>8 DEF Witnessed
  <2>5. CASE ~Ok(o, store)
    <3>1. store' = store
      BY <1>1, <2>5 DEF Effect
    <3>2. Places(order, lateAt)' /\ Values(order, value)' /\ Intervals(order)'
      BY <1>1, <2>1, <3>1 DEF Places, Values, Intervals
    <3>3. Requested(order, value, lateAt)'
      <4> SUFFICES ASSUME NEW k \in 1 .. Len(history), Latest(history, k), Invoked(history, k)
                   PROVE  LET r == request'[history[k][2]] IN
                          /\ r # NoRequest => ~In(lateAt, k)
                          /\ r = Sent => ~In(order, k)
                          /\ r.at = "client" =>
                               IF r.ok THEN \E m \in 1 .. Len(order) : order[m] = k /\ value[m - 1] = r.found
                                       ELSE ~In(order, k)
        BY <1>1 DEF Requested
      <4>1. CASE k = i
        <5>1. ~request'[history[k][2]].ok /\ request'[history[k][2]] # Sent
          BY <1>5, <1>6, <1>10, <2>5, <4>1 DEF Answer, Sent
        <5> QED BY <2>2, <4>1, <5>1
      <4>2. CASE k # i
        <5>1. request'[history[k][2]] = request[history[k][2]]
          BY <1>9, <4>2
        <5> QED BY <2>1, <4>2, <5>1 DEF Requested
      <4> QED BY <4>1, <4>2
    <3>4. Returned(order, value, lateAt)'
      BY <1>1, <2>1 DEF Returned, Right
    <3> QED BY <2>3, <3>2, <3>3, <3>4 DEF Witnessed
  <2> QED BY <2>4, <2>5
<1> QED BY <1>7, <1>8, <1>13 DEF IInv
\* RemoveAt of SequencesExt.
LEMMA WithoutOne ==
  ASSUME NEW S, NEW s \in Seq(S), NEW a \in 1 .. Len(s)
  PROVE  /\ RemoveAt(s, a) \in Seq(S) /\ Len(RemoveAt(s, a)) = Len(s) - 1
         /\ \A k \in 1 .. Len(s) - 1 : RemoveAt(s, a)[k] = s[IF k < a THEN k ELSE k + 1]
<1> DEFINE n == Len(s)
           f == SubSeq(s, 1, a - 1)
           b == SubSeq(s, a + 1, n)
<1>1. n \in Nat /\ a \in Int /\ 1 <= a /\ a <= n
  OBVIOUS
<1>2. /\ f \in Seq(S) /\ Len(f) = a - 1
      /\ \A k \in 1 .. a - 1 : f[k] = s[k]
  <2>1. \A k \in 1 .. a - 1 : s[k] \in S
    BY <1>1, ElementOfSeq
  <2>2. /\ f \in Seq(S) /\ Len(f) = IF 1 <= a - 1 THEN (a - 1) - 1 + 1 ELSE 0
        /\ \A k \in 1 .. (a - 1) - 1 + 1 : f[k] = s[1 + k - 1]
    BY <1>1, <2>1, SubSeqProperties
  <2> HIDE DEF f
  <2> QED BY <1>1, <2>2
<1>3. /\ b \in Seq(S) /\ Len(b) = n - a
      /\ \A k \in 1 .. n - a : b[k] = s[a + k]
  <2>1. \A k \in a + 1 .. n : s[k] \in S
    BY <1>1, ElementOfSeq
  <2>2. /\ b \in Seq(S) /\ Len(b) = IF a + 1 <= n THEN n - (a + 1) + 1 ELSE 0
        /\ \A k \in 1 .. n - (a + 1) + 1 : b[k] = s[a + 1 + k - 1]
    BY <1>1, <2>1, SubSeqProperties
  <2> HIDE DEF b
  <2> QED BY <1>1, <2>2
<1> HIDE DEF f, b
<1>4. /\ f \o b \in Seq(S) /\ Len(f \o b) = Len(f) + Len(b)
      /\ \A k \in 1 .. Len(f) + Len(b) : (f \o b)[k] = IF k <= Len(f) THEN f[k] ELSE b[k - Len(f)]
  BY <1>2, <1>3, ConcatProperties
<1>5. ASSUME NEW k \in 1 .. n - 1 PROVE (f \o b)[k] = s[IF k < a THEN k ELSE k + 1]
  <2>1. (f \o b)[k] = IF k <= a - 1 THEN f[k] ELSE b[k - (a - 1)]
    BY <1>1, <1>2, <1>3, <1>4
  <2>2. CASE k < a
    BY <1>1, <1>2, <2>1, <2>2
  <2>3. CASE ~(k < a)
    <3>1. k - (a - 1) \in 1 .. n - a /\ a + (k - (a - 1)) = k + 1 /\ ~(k <= a - 1)
      BY <1>1, <2>3
    <3> QED BY <1>3, <2>1, <2>3, <3>1
  <2> QED BY <2>2, <2>3
<1>6. RemoveAt(s, a) = f \o b
  BY DEF RemoveAt, f, b
<1>7. f \o b \in Seq(S) /\ Len(f \o b) = n - 1
  BY <1>1, <1>2, <1>3, <1>4
<1> QED BY <1>5, <1>6, <1>7

\* A request that arrives late is the next of the order as well: it was recorded
\* :fail, or not at all, so its completion is no limit.
LEMMA ExecuteLateStep ==
  ASSUME IInv, NEW a \in 1 .. Len(late), ExecuteLate(a)
  PROVE  IInv'
<1> DEFINE o == late[a]
           n == Len(late)
<1>1. /\ Types /\ Threads /\ Alternating
      /\ store' = Effect(o, store) /\ late' = RemoveAt(late, a)
      /\ history' = history /\ inside' = inside /\ request' = request
      /\ completions' = completions /\ dead' = dead /\ lost' = lost
  BY DEF IInv, ExecuteLate
<1>2. o \in Operations /\ o \in Results /\ store \in Found /\ n \in Nat /\ late \in Seq(Operations)
  BY <1>1, ElementOfSeq DEF Types, Results
<1>3. store' \in Found
  BY <1>1, <1>2, EffectFound
<1>4. /\ late' \in Seq(Operations) /\ Len(late') = n - 1
      /\ \A k \in 1 .. n - 1 : late'[k] = late[IF k < a THEN k ELSE k + 1]
  BY <1>1, <1>2, WithoutOne
<1>5. Types'
  BY <1>1, <1>3, <1>4 DEF Types
<1>6. Threads' /\ Alternating'
  BY <1>1 DEF Threads, Alternating
<1>7. ASSUME NEW order \in Seq(Nat), NEW lateAt \in Seq(Nat), NEW value \in [0 .. Len(order) -> Found],
             Witnessed(order, value, lateAt)
      PROVE  \E g, l \in Seq(Nat) : \E v \in [0 .. Len(g) -> Found] : Witnessed(g, v, l)'
  <2> DEFINE x == lateAt[a]
  <2>1. /\ Places(order, lateAt) /\ Values(order, value) /\ LateOnes(lateAt)
        /\ Requested(order, value, lateAt) /\ Returned(order, value, lateAt) /\ Intervals(order)
    BY <1>7 DEF Witnessed
  <2>2. Len(lateAt) = n /\ o = history[x][3] /\ lost > 0
    BY <2>1 DEF LateOnes
  <2>3. Invoked(history, x) /\ In(lateAt, x) /\ ~In(order, x)
    BY <2>1, <2>2 DEF Places, In
  <2>4. PICK l \in Seq(Nat) :
          Len(l) = n - 1 /\ \A k \in 1 .. n - 1 : l[k] = lateAt[IF k < a THEN k ELSE k + 1]
    <3>1. a \in 1 .. Len(lateAt)
      BY <2>2
    <3>2. /\ RemoveAt(lateAt, a) \in Seq(Nat) /\ Len(RemoveAt(lateAt, a)) = Len(lateAt) - 1
          /\ \A k \in 1 .. Len(lateAt) - 1 : RemoveAt(lateAt, a)[k] = lateAt[IF k < a THEN k ELSE k + 1]
      BY <3>1, WithoutOne
    <3> QED BY <2>2, <3>2
  <2> HIDE DEF x
  <2>5. \A k \in 1 .. n - 1 : (IF k < a THEN k ELSE k + 1) \in 1 .. n
    BY <1>2
  <2>6. LateOnes(l)'
    <3>1. ASSUME NEW k \in 1 .. n - 1 PROVE late'[k] = history'[l[k]][3]
      <4> DEFINE b == IF k < a THEN k ELSE k + 1
      <4>1. b \in 1 .. n /\ late'[k] = late[b] /\ l[k] = lateAt[b]
        BY <1>4, <2>4, <2>5
      <4> HIDE DEF b
      <4> QED BY <1>1, <2>1, <4>1 DEF LateOnes
    <3> QED BY <1>1, <1>4, <2>2, <2>4, <3>1 DEF LateOnes
  <2>7. \A k : In(l, k) => In(lateAt, k)
    BY <2>2, <2>4, <2>5 DEF In
  <2>8. ~In(l, x)
    <3> SUFFICES ASSUME NEW k \in 1 .. n - 1, l[k] = x PROVE FALSE
      BY <2>4 DEF In
    <3> DEFINE b == IF k < a THEN k ELSE k + 1
    <3>1. b \in 1 .. n /\ b # a
      BY <1>2
    <3>2. lateAt[b] = lateAt[a]
      BY <2>4 DEF x
    <3> QED BY <2>1, <2>2, <3>1, <3>2 DEF Places
  <2>9. /\ \A k \in 1 .. Len(l) : Invoked(history, l[k])
        /\ \A k, m \in 1 .. Len(l) : l[k] = l[m] => k = m
    <3>1. ASSUME NEW k \in 1 .. Len(l) PROVE Invoked(history, l[k])
      BY <2>1, <2>2, <2>4, <2>5 DEF Places
    <3>2. ASSUME NEW k \in 1 .. Len(l), NEW m \in 1 .. Len(l), l[k] = l[m] PROVE k = m
      <4> DEFINE b == IF k < a THEN k ELSE k + 1
                 d == IF m < a THEN m ELSE m + 1
      <4>1. b \in 1 .. n /\ d \in 1 .. n /\ l[k] = lateAt[b] /\ l[m] = lateAt[d]
        BY <2>4, <2>5
      <4> HIDE DEF b, d
      <4>2. b = d
        BY <2>1, <2>2, <3>2, <4>1 DEF Places
      <4> QED BY <1>2, <2>4, <4>2 DEF b, d
    <3> QED BY <3>1, <3>2
  <2>10. \A j : Closes(history, x, j) => history[j][1] # "ok"
    <3> SUFFICES ASSUME NEW j, Closes(history, x, j), history[j][1] = "ok" PROVE FALSE
      OBVIOUS
    <3>1. Result(history, completions, x, history[j])
      BY DEF Result
    <3> QED BY <2>1, <2>3, <3>1 DEF Returned, Invoked
  <2>11. CASE Ok(o, store)
    <3>1. PICK g \in Seq(Nat) : \E v \in [0 .. Len(g) -> Found] :
            Extends(order, value, x, g, v) /\ Values(g, v)'
      BY <1>1, <2>1, <2>2, <2>3, <2>11, OneMore DEF Places
    <3>2. PICK v \in [0 .. Len(g) -> Found] : Extends(order, value, x, g, v) /\ Values(g, v)'
      BY <3>1
    <3>3. /\ Len(g) = Len(order) + 1 /\ g[Len(order) + 1] = x
          /\ \A m \in 1 .. Len(order) : g[m] = order[m] /\ v[m - 1] = value[m - 1]
          /\ \A k : In(g, k) <=> In(order, k) \/ k = x
          /\ \A k, c : Right(order, value, k, c) => Right(g, v, k, c)
          /\ Intervals(g)
          /\ \A k, m \in 1 .. Len(g) : g[k] = g[m] => k = m
      BY <2>10, <3>2 DEF Extends
    <3>4. /\ Len(order) \in Nat
          /\ \A m : m \in 1 .. Len(g) <=> m \in 1 .. Len(order) \/ m = Len(order) + 1
      BY <3>3
    <3>5. Places(g, l)'
      <4>1. \A m \in 1 .. Len(g) : Invoked(history, g[m])
        BY <2>1, <2>3, <3>3, <3>4 DEF Places
      <4>2. ASSUME NEW m \in 1 .. Len(g), NEW k \in 1 .. Len(l) PROVE g[m] # l[k]
        <5>1. In(l, l[k]) /\ In(lateAt, l[k]) /\ l[k] # x
          BY <2>7, <2>8 DEF In
        <5>2. ~In(order, l[k])
          BY <2>1, <5>1 DEF Places, In
        <5> QED BY <3>3, <5>1, <5>2 DEF In
      <4>3. \A k, m \in 1 .. Len(g) : g[k] = g[m] => k = m
        BY <3>3
      <4> QED BY <1>1, <2>9, <4>1, <4>2, <4>3 DEF Places
    <3>6. Requested(g, v, l)'
      <4> SUFFICES ASSUME NEW k \in 1 .. Len(history), Latest(history, k), Invoked(history, k)
                   PROVE  LET r == request[history[k][2]] IN
                          /\ r # NoRequest => ~In(l, k)
                          /\ r = Sent => ~In(g, k)
                          /\ r.at = "client" =>
                               IF r.ok THEN \E m \in 1 .. Len(g) : g[m] = k /\ v[m - 1] = r.found
                                       ELSE ~In(g, k)
        BY <1>1 DEF Requested
      <4> DEFINE r == request[history[k][2]]
      <4>1. /\ r # NoRequest => ~In(lateAt, k)
            /\ r = Sent => ~In(order, k)
            /\ r.at = "client" =>
                 IF r.ok THEN \E m \in 1 .. Len(order) : order[m] = k /\ value[m - 1] = r.found
                         ELSE ~In(order, k)
        BY <2>1 DEF Requested
      <4>2. (r = Sent \/ r.at = "client") => r # NoRequest
        BY DEF Sent, NoRequest
      <4>3. \A m \in 1 .. Len(order) : m \in 1 .. Len(g) /\ g[m] = order[m] /\ v[m - 1] = value[m - 1]
        BY <3>3, <3>4
      <4> HIDE DEF r
      <4>4. r.at = "client" /\ r.ok => \E m \in 1 .. Len(g) : g[m] = k /\ v[m - 1] = r.found
        BY <4>1, <4>3
      <4>5. r # NoRequest => k # x
        BY <2>3, <4>1
      <4>6. /\ r # NoRequest => ~In(l, k)
            /\ r = Sent => ~In(g, k)
            /\ r.at = "client" =>
                 IF r.ok THEN \E m \in 1 .. Len(g) : g[m] = k /\ v[m - 1] = r.found
                         ELSE ~In(g, k)
        BY <2>7, <3>3, <4>1, <4>2, <4>4, <4>5
      <4> QED BY <4>6 DEF r
    <3>7. Returned(g, v, l)'
      <4> SUFFICES ASSUME NEW k \in 1 .. Len(history), Invoked(history, k),
                          NEW c, Result(history, completions, k, c)
                   PROVE  /\ c[1] = "ok"   => Right(g, v, k, c)' /\ ~In(l, k)
                          /\ c[1] = "fail" => lost' > 0 \/ (~In(g, k) /\ ~In(l, k))
        BY <1>1 DEF Returned
      <4>2. Right(g, v, k, c)' <=> Right(g, v, k, c)
        BY <1>1 DEF Right
      <4>1. c[1] = "ok" => Right(order, value, k, c) /\ ~In(lateAt, k)
        BY <2>1 DEF Returned
      <4> QED BY <1>1, <2>2, <2>7, <3>3, <4>1, <4>2
    <3>8. Intervals(g)'
      BY <1>1, <3>3 DEF Intervals
    <3> QED BY <2>6, <3>2, <3>5, <3>6, <3>7, <3>8 DEF Witnessed
  <2>12. CASE ~Ok(o, store)
    <3>1. store' = store
      BY <1>1, <2>12 DEF Effect
    <3>2. Values(order, value)' /\ Intervals(order)'
      BY <1>1, <2>1, <3>1 DEF Values, Intervals
    <3>3. Places(order, l)'
      <4>1. ASSUME NEW m \in 1 .. Len(order), NEW k \in 1 .. Len(l) PROVE order[m] # l[k]
        <5>1. In(lateAt, l[k])
          BY <2>7 DEF In
        <5> QED BY <2>1, <5>1 DEF Places, In
      <4> QED BY <1>1, <2>1, <2>9, <4>1 DEF Places
    <3>4. Requested(order, value, l)' /\ Returned(order, value, l)'
      BY <1>1, <2>1, <2>7 DEF Requested, Returned, Right
    <3> QED BY <2>6, <3>2, <3>3, <3>4 DEF Witnessed
  <2> QED BY <2>11, <2>12
<1> QED BY <1>5, <1>6, <1>7 DEF IInv
\* A completion takes the operation out of invoke, and is a new result of it.
LEMMA Completes ==
  ASSUME Types, Threads, Alternating, NEW p \in Processes, inside[p] # Idle,
         NEW type \in {"ok", "fail"}, NEW o \in Results, Complete(p, type, o), history' = history
  PROVE  /\ Threads' /\ Alternating'
         /\ completions' \subseteq {"ok", "fail"} \X Processes \X Results
         /\ inside' \in [Processes -> Operations \cup {Idle}]
         /\ request' \in [Processes -> {NoRequest, Sent}
                                       \cup [at : {"client"}, ok : BOOLEAN, found : Found]]
         /\ \A i, c : Result(history', completions', i, c) =>
              \/ Result(history, completions, i, c)
              \/ c = <<type, p, o>> /\ Latest(history, i) /\ history[i][2] = p
         /\ request'[p] = NoRequest
         /\ \A q \in Processes : q # p => request'[q] = request[q]
<1> DEFINE e == <<type, p, o>>
<1>1. /\ completions' = completions \cup {e}
      /\ inside' = [inside EXCEPT ![p] = Idle] /\ request' = [request EXCEPT ![p] = NoRequest]
      /\ e \in {"ok", "fail"} \X Processes \X Results /\ e[2] = p
  BY DEF Complete
<1> HIDE DEF e
<1>2. /\ inside'[p] = Idle /\ \A q \in Processes : q # p => inside'[q] = inside[q]
      /\ request'[p] = NoRequest /\ \A q \in Processes : q # p => request'[q] = request[q]
  BY <1>1 DEF Types
<1>3. \A c \in completions : c[2] # p /\ c[2] \in Processes
  BY DEF Threads, Types
<1>4. Threads'
  <2>1. ASSUME NEW q \in Processes, inside'[q] # Idle
        PROVE  \E i \in 1 .. Len(history) :
                 Latest(history, i) /\ history[i] = <<"invoke", q, inside'[q]>>
    BY <1>2, <2>1 DEF Threads
  <2>2. ASSUME NEW c \in completions'
        PROVE  /\ inside'[c[2]] = Idle
               /\ \E i \in 1 .. Len(history) :
                    Latest(history, i) /\ Invoked(history, i) /\ history[i][2] = c[2]
               /\ \A d \in completions' : c[2] = d[2] => c = d
    <3>1. CASE c = e
      <4>1. PICK i \in 1 .. Len(history) : Latest(history, i) /\ history[i] = <<"invoke", p, inside[p]>>
        BY DEF Threads
      <4>2. Invoked(history, i) /\ history[i][2] = p
        BY <4>1 DEF Invoked
      <4>3. \A d \in completions' : d[2] = p => d = e
        BY <1>1, <1>3
      <4> QED BY <1>1, <1>2, <3>1, <4>1, <4>2, <4>3
    <3>2. CASE c \in completions
      <4>1. inside'[c[2]] = Idle
        BY <1>2, <1>3, <3>2 DEF Threads
      <4>2. \A d \in completions' : c[2] = d[2] => c = d
        BY <1>1, <1>3, <3>2 DEF Threads
      <4>3. \E i \in 1 .. Len(history) :
              Latest(history, i) /\ Invoked(history, i) /\ history[i][2] = c[2]
        BY <3>2 DEF Threads
      <4> QED BY <4>1, <4>2, <4>3
    <3> QED BY <1>1, <3>1, <3>2
  <2>3. ASSUME NEW i \in 1 .. Len(history), Invoked(history, i), Latest(history, i)
        PROVE  inside'[history[i][2]] # Idle \/ \E c \in completions' : c[2] = history[i][2]
    <3>1. CASE history[i][2] = p
      BY <1>1, <3>1
    <3>2. CASE history[i][2] # p
      <4>1. history[i][2] \in Processes
        BY ElementOfSeq DEF Types, Entry
      <4>2. inside[history[i][2]] # Idle \/ \E c \in completions : c[2] = history[i][2]
        BY <2>3 DEF Threads
      <4> QED BY <1>1, <1>2, <3>2, <4>1, <4>2
    <3> QED BY <3>1, <3>2
  <2>4. ASSUME NEW q \in Processes, request'[q] # NoRequest PROVE inside'[q] # Idle
    BY <1>2, <2>4 DEF Threads
  <2> QED BY <2>1, <2>2, <2>3, <2>4 DEF Threads
<1>5. Alternating'
  BY DEF Alternating
<1>6. \A i, c : Result(history', completions', i, c) =>
        Result(history, completions, i, c) \/ (c = e /\ Latest(history, i) /\ history[i][2] = p)
  BY <1>1 DEF Result
<1> QED BY <1>1, <1>2, <1>4, <1>5, <1>6 DEF Types, e

\* What ETCDClient::invoke gives back of an answer.
LEMMA AnsweredIsResult ==
  ASSUME NEW o \in Operations, NEW found \in Found
  PROVE  /\ Answered(o, found) \in Results
         /\ o.func = "read" /\ IsNumber(found) => Answered(o, found).number = stoi[found]
<1>1. CASE o.func = "read" /\ IsNumber(found)
  <2>1. o = read
    BY <1>1 DEF Operations, write, cas
  <2>2. stoi[found] \in {1, 2}
    BY <1>1 DEF IsNumber, stoi
  <2>3. Answered(o, found) = [o EXCEPT !.number = stoi[found]]
    BY <1>1 DEF Answered
  <2>4. [o EXCEPT !.number = stoi[found]] = [func |-> "read", number |-> stoi[found]]
    BY <2>1 DEF read
  <2> QED BY <2>2, <2>3, <2>4 DEF Results
<1>2. CASE ~(o.func = "read" /\ IsNumber(found))
  BY <1>2 DEF Answered, Results
<1> QED BY <1>1, <1>2

\* Once the request of p is over, nothing is to be shown of it.
LEMMA OtherRequests ==
  ASSUME Types, NEW p \in Processes, history' = history, request'[p] = NoRequest,
         \A q \in Processes : q # p => request'[q] = request[q],
         NEW order, NEW value, NEW lateAt, Requested(order, value, lateAt)
  PROVE  Requested(order, value, lateAt)'
<1> SUFFICES ASSUME NEW i \in 1 .. Len(history), Latest(history, i), Invoked(history, i)
             PROVE  LET r == request'[history[i][2]] IN
                    /\ r # NoRequest => ~In(lateAt, i)
                    /\ r = Sent => ~In(order, i)
                    /\ r.at = "client" =>
                         IF r.ok THEN \E n \in 1 .. Len(order) : order[n] = i /\ value[n - 1] = r.found
                                 ELSE ~In(order, i)
  BY DEF Requested
<1>1. CASE history[i][2] = p
  BY <1>1 DEF NoRequest, Sent
<1>2. CASE history[i][2] # p
  <2>1. history[i][2] \in Processes
    BY ElementOfSeq DEF Types, Entry
  <2>2. request'[history[i][2]] = request[history[i][2]]
    BY <1>2, <2>1
  <2> QED BY <2>2 DEF Requested
<1> QED BY <1>1, <1>2

\* An operation is completed :ok only when etcd has executed it successfully, with
\* the value it found there (ETCDClient.cpp:21-57); an exception of std::stoi leaves
\* its invocation open.
LEMMA RespondStep ==
  ASSUME IInv, NEW p \in Processes, Respond(p)
  PROVE  IInv'
<1> DEFINE o == inside[p]
           r == request[p]
<1>1. /\ Types /\ Threads /\ Alternating
      /\ r.at = "client" /\ r # NoRequest /\ r # Sent
      /\ history' = history /\ store' = store /\ late' = late /\ lost' = lost
  BY DEF IInv, Respond, NoRequest, Sent
<1>2. o # Idle /\ o \in Operations /\ r.ok \in BOOLEAN /\ r.found \in Found
  BY <1>1 DEF Threads, Types
<1>3. CASE Throws(p)
  <2>1. /\ dead' = dead \cup {p} /\ request' = [request EXCEPT ![p] = NoRequest]
        /\ completions' = completions /\ inside' = inside
    BY <1>3 DEF Respond
  <2>2. request'[p] = NoRequest /\ \A q \in Processes : q # p => request'[q] = request[q]
    BY <1>1, <2>1 DEF Types
  <2>3. Types' /\ Threads' /\ Alternating'
    BY <1>1, <2>1, <2>2 DEF Types, Threads, Alternating
  <2>4. ASSUME NEW order \in Seq(Nat), NEW lateAt \in Seq(Nat), NEW value \in [0 .. Len(order) -> Found],
               Witnessed(order, value, lateAt)
        PROVE  Witnessed(order, value, lateAt)'
    <3>1. Requested(order, value, lateAt)'
      BY <1>1, <2>2, <2>4, OtherRequests DEF Witnessed
    <3>2. Places(order, lateAt)' /\ Values(order, value)' /\ LateOnes(lateAt)' /\ Intervals(order)'
      BY <1>1, <2>4 DEF Witnessed, Places, Values, LateOnes, Intervals
    <3>3. Returned(order, value, lateAt)'
      <4>1. Returned(order, value, lateAt)
        BY <2>4 DEF Witnessed
      <4>2. \A i, c : Right(order, value, i, c)' <=> Right(order, value, i, c)
        BY <1>1 DEF Right
      <4>3. \A i, c : Result(history', completions', i, c) <=> Result(history, completions, i, c)
        BY <1>1, <2>1
      <4> QED BY <1>1, <4>1, <4>2, <4>3 DEF Returned
    <3> QED BY <3>1, <3>2, <3>3 DEF Witnessed
  <2> QED BY <2>3, <2>4 DEF IInv
<1>4. CASE ~Throws(p)
  <2> DEFINE type == TypeOf(o.func, r.ok)
             a    == Answered(o, r.found)
  <2>1. Complete(p, type, a) /\ dead' = dead
    BY <1>4 DEF Respond
  <2>2. type \in {"ok", "fail"} /\ (type = "ok" <=> r.ok) /\ a \in Results
    BY <1>2, AnsweredIsResult DEF TypeOf
  <2> HIDE DEF type, a
  <2>3. /\ Threads' /\ Alternating'
        /\ completions' \subseteq {"ok", "fail"} \X Processes \X Results
        /\ inside' \in [Processes -> Operations \cup {Idle}]
        /\ request' \in [Processes -> {NoRequest, Sent}
                                      \cup [at : {"client"}, ok : BOOLEAN, found : Found]]
        /\ \A i, c : Result(history', completions', i, c) =>
             \/ Result(history, completions, i, c)
             \/ c = <<type, p, a>> /\ Latest(history, i) /\ history[i][2] = p
        /\ request'[p] = NoRequest
        /\ \A q \in Processes : q # p => request'[q] = request[q]
    BY <1>1, <1>2, <2>1, <2>2, Completes
  <2>4. Types'
    BY <1>1, <2>1, <2>3 DEF Types
  <2>5. ASSUME NEW order \in Seq(Nat), NEW lateAt \in Seq(Nat), NEW value \in [0 .. Len(order) -> Found],
               Witnessed(order, value, lateAt)
        PROVE  Witnessed(order, value, lateAt)'
    <3>1. /\ Places(order, lateAt) /\ Values(order, value) /\ LateOnes(lateAt)
          /\ Requested(order, value, lateAt) /\ Returned(order, value, lateAt) /\ Intervals(order)
      BY <2>5 DEF Witnessed
    <3>2. Requested(order, value, lateAt)'
      BY <1>1, <2>3, <3>1, OtherRequests
    <3>3. Returned(order, value, lateAt)'
      <4> SUFFICES ASSUME NEW i \in 1 .. Len(history), Invoked(history, i),
                          NEW c, Result(history', completions', i, c)
                   PROVE  /\ c[1] = "ok"   => Right(order, value, i, c)' /\ ~In(lateAt, i)
                          /\ c[1] = "fail" => lost' > 0 \/ (~In(order, i) /\ ~In(lateAt, i))
        BY <1>1 DEF Returned
      <4>1. Right(order, value, i, c)' <=> Right(order, value, i, c)
        BY <1>1 DEF Right
      <4>2. CASE Result(history, completions, i, c)
        BY <1>1, <3>1, <4>1, <4>2 DEF Returned
      <4>3. CASE c = <<type, p, a>> /\ Latest(history, i) /\ history[i][2] = p
        <5>1. /\ ~In(lateAt, i)
              /\ IF r.ok THEN \E n \in 1 .. Len(order) : order[n] = i /\ value[n - 1] = r.found
                         ELSE ~In(order, i)
          BY <1>1, <3>1, <4>3 DEF Requested
        <5>2. history[i][3] = o
          <6>1. PICK k \in 1 .. Len(history) : Latest(history, k) /\ history[k] = <<"invoke", p, o>>
            BY <1>1, <1>2 DEF Threads
          <6>2. history[k][2] = history[i][2]
            BY <4>3, <6>1
          <6>3. k = i
            BY <1>1, <4>3, <6>1, <6>2, LatestIsUnique DEF Types
          <6> QED BY <6>1, <6>3
        <5>3. c[1] = type /\ c[3] = a
          BY <4>3
        <5>4. CASE r.ok
          <6>1. PICK n \in 1 .. Len(order) : order[n] = i /\ value[n - 1] = r.found
            BY <5>1, <5>4
          <6>2. o.func = "read" => IsNumber(r.found)
            BY <1>4, <5>4 DEF Throws
          <6>3. o.func = "read" => a.number = stoi[r.found]
            BY <1>2, <6>2, AnsweredIsResult DEF a
          <6>4. Right(order, value, i, c)
            BY <5>2, <5>3, <6>1, <6>2, <6>3 DEF Right
          <6> QED BY <2>2, <4>1, <5>1, <5>3, <5>4, <6>4
        <5>5. CASE ~r.ok
          BY <2>2, <5>1, <5>3, <5>5
        <5> QED BY <5>4, <5>5
      <4> QED BY <2>3, <4>2, <4>3
    <3>4. Places(order, lateAt)' /\ Values(order, value)' /\ LateOnes(lateAt)' /\ Intervals(order)'
      BY <1>1, <3>1 DEF Places, Values, LateOnes, Intervals
    <3> QED BY <3>2, <3>3, <3>4 DEF Witnessed
  <2> QED BY <2>3, <2>4, <2>5 DEF IInv
<1> QED BY <1>3, <1>4
\* What is given up on is recorded :fail, and then a failed operation may have
\* been executed, or may be later.
LEMMA GiveUpStep ==
  ASSUME IInv, NEW p \in Processes, GiveUp(p)
  PROVE  IInv'
<1> DEFINE o == inside[p]
           e == <<"fail", p, o>>
<1>1. /\ Types /\ Threads /\ Alternating /\ request[p] # NoRequest /\ lost' = lost + 1
      /\ late' = late \/ (request[p] = Sent /\ late' = Append(late, o))
      /\ Complete(p, "fail", o) /\ history' = history /\ dead' = dead /\ store' = store
  BY DEF IInv, GiveUp, TypeOf
<1>2. o # Idle /\ o \in Operations /\ o \in Results /\ lost \in Nat /\ lost' > 0 /\ lost' \in Nat
  BY <1>1 DEF Threads, Types, Results
<1>3. /\ Threads' /\ Alternating'
      /\ completions' \subseteq {"ok", "fail"} \X Processes \X Results
      /\ inside' \in [Processes -> Operations \cup {Idle}]
      /\ request' \in [Processes -> {NoRequest, Sent}
                                    \cup [at : {"client"}, ok : BOOLEAN, found : Found]]
      /\ \A i, c : Result(history', completions', i, c) =>
           Result(history, completions, i, c) \/ (c = e /\ Latest(history, i) /\ history[i][2] = p)
      /\ request'[p] = NoRequest
      /\ \A q \in Processes : q # p => request'[q] = request[q]
  BY <1>1, <1>2, Completes
<1>4. Types'
  <2>1. late' \in Seq(Operations)
    BY <1>1, <1>2, AppendProperties DEF Types
  <2> QED BY <1>1, <1>2, <1>3, <2>1 DEF Types
<1>5. PICK x \in 1 .. Len(history) : Latest(history, x) /\ history[x] = <<"invoke", p, o>>
  BY <1>1, <1>2 DEF Threads
<1>6. Invoked(history, x) /\ history[x][2] = p /\ history[x][3] = o /\ history \in Seq(Entry)
  BY <1>1, <1>5 DEF Invoked, Types
<1>7. ASSUME NEW c PROVE ~Result(history, completions, x, c)
  BY <1>1, <1>2, <1>5, <1>6, ClosesInside DEF Result, Threads
<1>8. ASSUME NEW order \in Seq(Nat), NEW lateAt \in Seq(Nat), NEW value \in [0 .. Len(order) -> Found],
             Witnessed(order, value, lateAt)
      PROVE  \E l \in Seq(Nat) : Witnessed(order, value, l)'
  <2>1. /\ Places(order, lateAt) /\ Values(order, value) /\ LateOnes(lateAt)
        /\ Requested(order, value, lateAt) /\ Returned(order, value, lateAt) /\ Intervals(order)
    BY <1>8 DEF Witnessed
  <2>2. Values(order, value)' /\ Intervals(order)'
    BY <1>1, <2>1 DEF Values, Intervals
  \* What remains: the late ones, with or without this one.
  <2>3. ASSUME NEW l \in Seq(Nat), \A k : In(l, k) => In(lateAt, k) \/ k = x
        PROVE  Requested(order, value, l)' /\ Returned(order, value, l)'
    <3>1. ASSUME NEW i \in 1 .. Len(history), Latest(history, i), Invoked(history, i)
          PROVE  LET r == request'[history[i][2]] IN
                 /\ r # NoRequest => ~In(l, i)
                 /\ r = Sent => ~In(order, i)
                 /\ r.at = "client" =>
                      IF r.ok THEN \E n \in 1 .. Len(order) : order[n] = i /\ value[n - 1] = r.found
                              ELSE ~In(order, i)
      <4>1. CASE history[i][2] = p
        BY <1>3, <4>1 DEF NoRequest, Sent
      <4>2. CASE history[i][2] # p
        <5>1. history[i][2] \in Processes
          BY <1>6, <3>1, ElementOfSeq DEF Entry
        <5>2. request'[history[i][2]] = request[history[i][2]] /\ i # x
          BY <1>3, <1>6, <4>2, <5>1
        <5> QED BY <2>1, <2>3, <3>1, <5>2 DEF Requested
      <4> QED BY <4>1, <4>2
    <3>2. ASSUME NEW i \in 1 .. Len(history), Invoked(history, i),
                 NEW c, Result(history', completions', i, c)
          PROVE  /\ c[1] = "ok"   => Right(order, value, i, c)' /\ ~In(l, i)
                 /\ c[1] = "fail" => lost' > 0
      <4>1. CASE Result(history, completions, i, c)
        <5>1. c[1] = "ok" => Right(order, value, i, c) /\ ~In(lateAt, i)
          BY <2>1, <3>2, <4>1 DEF Returned
        <5>2. Right(order, value, i, c)' <=> Right(order, value, i, c)
          BY <1>1 DEF Right
        <5>3. i # x
          BY <1>7, <4>1
        <5> QED BY <1>2, <2>3, <5>1, <5>2, <5>3
      <4>2. CASE c = e
        BY <1>2, <4>2
      <4> QED BY <1>3, <3>2, <4>1, <4>2
    <3>3. Requested(order, value, l)'
      BY <1>1, <3>1 DEF Requested
    <3>4. Returned(order, value, l)'
      BY <1>1, <3>2 DEF Returned
    <3> QED BY <3>3, <3>4
  <2>4. CASE late' = late
    <3>1. Places(order, lateAt)'
      BY <1>1, <2>1 DEF Places
    <3>2. LateOnes(lateAt)'
      BY <1>1, <1>2, <2>1, <2>4 DEF LateOnes
    <3> QED BY <2>2, <2>3, <3>1, <3>2 DEF Witnessed
  <2>5. CASE request[p] = Sent /\ late' = Append(late, o)
    <3>1. PICK l : l = Append(lateAt, x)
      OBVIOUS
    <3>2. /\ l \in Seq(Nat) /\ Len(l) = Len(lateAt) + 1 /\ l[Len(lateAt) + 1] = x
          /\ \A k \in 1 .. Len(lateAt) : l[k] = lateAt[k]
          /\ Len(lateAt) \in Nat
      BY <3>1, AppendProperties
    <3>3. /\ Len(late') = Len(late) + 1 /\ late'[Len(late) + 1] = o
          /\ \A k \in 1 .. Len(late) : late'[k] = late[k]
      BY <1>1, <1>2, <2>5, AppendProperties DEF Types
    <3>4. \A k : k \in 1 .. Len(l) <=> k \in 1 .. Len(lateAt) \/ k = Len(lateAt) + 1
      BY <3>2
    <3>5. \A k : In(l, k) => In(lateAt, k) \/ k = x
      BY <3>2, <3>4 DEF In
    <3>6. ~In(order, x) /\ ~In(lateAt, x)
      BY <1>1, <1>5, <1>6, <2>1, <2>5 DEF Requested
    <3>7. Places(order, l)'
      <4>1. \A k \in 1 .. Len(l) : Invoked(history, l[k])
        BY <1>6, <2>1, <3>2, <3>4 DEF Places
      <4>2. ASSUME NEW m \in 1 .. Len(order), NEW k \in 1 .. Len(l) PROVE order[m] # l[k]
        <5>1. CASE k \in 1 .. Len(lateAt)
          <6>1. order[m] # lateAt[k]
            BY <2>1, <5>1 DEF Places
          <6> QED BY <3>2, <5>1, <6>1
        <5>2. CASE k = Len(lateAt) + 1
          BY <3>2, <3>6, <5>2 DEF In
        <5> QED BY <3>4, <5>1, <5>2
      <4>3. ASSUME NEW m \in 1 .. Len(l), NEW k \in 1 .. Len(l), l[m] = l[k] PROVE m = k
        <5>1. CASE m \in 1 .. Len(lateAt) /\ k \in 1 .. Len(lateAt)
          <6>1. lateAt[m] = lateAt[k]
            BY <3>2, <4>3, <5>1
          <6> QED BY <2>1, <5>1, <6>1 DEF Places
        <5> QED BY <3>2, <3>4, <3>6, <4>3, <5>1 DEF In
      <4>4. /\ \A m \in 1 .. Len(order) : Invoked(history, order[m])
            /\ \A m, n \in 1 .. Len(order) : order[m] = order[n] => m = n
        BY <2>1 DEF Places
      <4> QED BY <1>1, <4>1, <4>2, <4>3, <4>4 DEF Places
    <3>8. LateOnes(l)'
      <4>1. Len(lateAt) = Len(late) /\ \A k \in 1 .. Len(late) : late[k] = history[lateAt[k]][3]
        BY <2>1 DEF LateOnes
      <4>2. ASSUME NEW k \in 1 .. Len(late') PROVE late'[k] = history[l[k]][3]
        <5>1. CASE k \in 1 .. Len(late)
          BY <3>2, <3>3, <4>1, <5>1
        <5>2. CASE k = Len(late) + 1
          BY <1>6, <3>2, <3>3, <4>1, <5>2
        <5> QED BY <3>2, <3>3, <4>1, <5>1, <5>2
      <4> QED BY <1>1, <1>2, <3>2, <3>3, <4>1, <4>2 DEF LateOnes
    <3> QED BY <2>2, <2>3, <3>2, <3>5, <3>7, <3>8 DEF Witnessed
  <2> QED BY <1>1, <2>4, <2>5
<1> QED BY <1>3, <1>4, <1>8 DEF IInv

\* The witness can be carried along every step of the run loop, of the worker and
\* of etcd.
THEOREM Inductive == Spec => []IInv
<1>1. Init => IInv
  BY InitIInv
<1>2. IInv /\ [Next]_vars => IInv'
  <2> SUFFICES ASSUME IInv, [Next]_vars PROVE IInv'
    OBVIOUS
  <2>1. CASE UNCHANGED vars
    <3>1. Types' /\ Threads' /\ Alternating'
      BY <2>1 DEF vars, IInv, Types, Threads, Alternating
    <3>2. ASSUME NEW order, NEW value, NEW lateAt, Witnessed(order, value, lateAt)
          PROVE  Witnessed(order, value, lateAt)'
      BY <2>1, <3>2 DEF vars, Witnessed, Places, Values, LateOnes, Requested, Returned, Right, Intervals
    <3> QED BY <3>1, <3>2 DEF IInv
  <2>2. ASSUME NEW p \in Processes, NEW o \in Operations, Dispatch(p, o) PROVE IInv'
    BY <2>2, DispatchStep
  <2>3. ASSUME NEW p \in Processes, Execute(p) PROVE IInv'
    BY <2>3, ExecuteStep
  <2>4. ASSUME NEW p \in Processes, Respond(p) PROVE IInv'
    BY <2>4, RespondStep
  <2>5. ASSUME NEW p \in Processes, GiveUp(p) PROVE IInv'
    BY <2>5, GiveUpStep
  <2>6. ASSUME NEW c \in completions, Record(c) PROVE IInv'
    BY <2>6, RecordStep
  <2>7. ASSUME NEW i \in 1 .. Len(late), ExecuteLate(i) PROVE IInv'
    BY <2>7, ExecuteLateStep
  <2> QED BY <2>1, <2>2, <2>3, <2>4, <2>5, <2>6, <2>7 DEF Next
<1> QED BY <1>1, <1>2, PTL DEF Spec
-----------------------------------------------------------------------------
(***************************************************************************)
(* The witness of the invariant explains the history.                      *)
(***************************************************************************)

\* Sets of natural numbers have a least element, as < is well-founded.
LEMMA LeastElement ==
  ASSUME NEW T \in SUBSET Nat, T # {}
  PROVE  \E n \in T : \A m \in T : n <= m
<1> DEFINE R == OpToRel(<, Nat)
<1>1. IsWellFoundedOn(R, Nat)
  BY NatLessThanWellFounded
<1>2. \A x, y \in Nat : x < y => <<x, y>> \in R
  BY DEF OpToRel
<1> HIDE DEF R
<1>3. PICK n \in T : \A m \in T : ~(<<m, n>> \in R)
  BY <1>1, WFMin
<1>4. ASSUME NEW m \in T PROVE n <= m
  <2>1. m \in Nat /\ n \in Nat
    OBVIOUS
  <2>2. ~(m < n)
    BY <1>2, <1>3, <2>1
  <2> QED BY <2>1, <2>2
<1> QED BY <1>4

\* Induction, for sets of natural numbers.
LEMMA Induction ==
  ASSUME NEW T, 0 \in T, \A n \in Nat : n \in T => n + 1 \in T
  PROVE  Nat \subseteq T
<1> SUFFICES ASSUME NEW k \in Nat, k \notin T PROVE FALSE
  OBVIOUS
<1> DEFINE B == Nat \ T
<1>1. PICK n \in B : \A m \in B : n <= m
  <2>1. B \in SUBSET Nat /\ B # {}
    OBVIOUS
  <2> HIDE DEF B
  <2> QED BY <2>1, LeastElement
<1>2. n \in Nat /\ n # 0
  BY <1>1
<1>3. n - 1 \in Nat /\ n - 1 \in T
  BY <1>1, <1>2
<1> QED BY <1>1, <1>3

\* CompletionOf and TypeAt name the entry that closes an invocation, if there is one.
LEMMA Completion ==
  ASSUME Types, NEW i \in 1 .. Len(history)
  PROVE  \/ Latest(history, i) /\ CompletionOf(i) = Len(history) + 1 /\ TypeAt(i) = "open"
         \/ /\ Closes(history, i, CompletionOf(i)) /\ ~Latest(history, i)
            /\ TypeAt(i) = history[CompletionOf(i)][1]
<1> DEFINE later == {j \in i + 1 .. Len(history) : history[j][2] = history[i][2]}
<1>1. Len(history) \in Nat
  BY DEF Types
<1>2. CASE later = {}
  <2>1. CompletionOf(i) = Len(history) + 1
    BY <1>2 DEF CompletionOf
  <2>2. Latest(history, i)
    BY <1>2 DEF Latest
  <2> QED BY <1>1, <2>1, <2>2 DEF TypeAt
<1>3. CASE later # {}
  <2>1. \E j \in later : \A k \in later : j <= k
    <3>1. later \in SUBSET Nat
      BY <1>1
    <3> HIDE DEF later
    <3> QED BY <1>3, <3>1, LeastElement
  <2>2. CompletionOf(i) = CHOOSE j \in later : \A k \in later : j <= k
    BY <1>3 DEF CompletionOf
  <2>3. CompletionOf(i) \in later /\ \A k \in later : CompletionOf(i) <= k
    BY <2>1, <2>2
  <2> DEFINE j == CompletionOf(i)
  <2>4. j \in i + 1 .. Len(history) /\ history[j][2] = history[i][2] /\ j <= Len(history) /\ j \in Int
    BY <1>1, <2>3
  <2>5. \A k \in i + 1 .. j - 1 : history[k][2] # history[i][2]
    <3> SUFFICES ASSUME NEW k \in i + 1 .. j - 1, history[k][2] = history[i][2] PROVE FALSE
      OBVIOUS
    <3> HIDE DEF j
    <3>1. k \in i + 1 .. Len(history) /\ ~(j <= k)
      BY <1>1, <2>4
    <3>2. k \in later
      BY <3>1
    <3> QED BY <2>3, <3>1, <3>2 DEF j
  <2>6. Closes(history, i, j)
    BY <2>4, <2>5 DEF Closes
  <2>7. TypeAt(i) = history[j][1]
    <3>1. ~(j > Len(history))
      BY <1>1, <2>4
    <3> QED BY <3>1 DEF TypeAt
  <2> QED BY <2>6, <2>7, ClosesInside DEF Types
<1> QED BY <1>2, <1>3

\* What a completion that is recorded says of its invocation.
LEMMA Completed ==
  ASSUME Types, Alternating, NEW order, NEW value, NEW lateAt, Returned(order, value, lateAt),
         NEW i, Invoked(history, i)
  PROVE  /\ TypeAt(i) \in {"open", "ok", "fail"}
         /\ TypeAt(i) = "ok" => /\ Closes(history, i, CompletionOf(i))
                                /\ Right(order, value, i, history[CompletionOf(i)])
         /\ TypeAt(i) = "fail" => lost > 0 \/ ~In(order, i)
<1> DEFINE j == CompletionOf(i)
<1>1. i \in 1 .. Len(history)
  BY DEF Invoked
<1>2. CASE TypeAt(i) = "open"
  BY <1>2
<1>3. CASE Closes(history, i, j) /\ TypeAt(i) = history[j][1]
  <2> HIDE DEF j
  <2>1. Result(history, completions, i, history[j])
    BY <1>3 DEF Result
  <2>2. /\ history[j][1] = "ok"   => Right(order, value, i, history[j])
        /\ history[j][1] = "fail" => lost > 0 \/ ~In(order, i)
    BY <1>1, <2>1 DEF Returned
  <2>3. j \in 1 .. Len(history)
    BY <1>3, ClosesInside DEF Types
  <2>4. history[j][1] \in {"invoke", "ok", "fail"}
    BY <2>3, ElementOfSeq DEF Types, Entry
  <2>5. history[j][1] # "invoke"
    BY <1>1, <1>3, <2>3 DEF Alternating, Invoked
  <2> QED BY <1>3, <2>2, <2>4, <2>5 DEF j
<1> QED BY <1>1, <1>2, <1>3, Completion

\* The values of value are those that Replays goes through.
\* The recursive function of Replays is value: by induction on the places.
LEMMA ReplayIsUnique ==
  ASSUME NEW order \in Seq(Nat), NEW f, NEW value \in [0 .. Len(order) -> Found],
         f = [n \in 0 .. Len(order) |->
                IF n = 0 THEN Missing ELSE Effect(history[order[n]][3], f[n - 1])],
         value[0] = Missing,
         \A n \in 1 .. Len(order) : value[n] = Effect(history[order[n]][3], value[n - 1])
  PROVE  f = value
<1> DEFINE N == Len(order)
           T == {n \in Nat : n \in 0 .. N => f[n] = value[n]}
<1>1. N \in Nat
  OBVIOUS
<1>2. 0 \in T
  BY <1>1
<1>3. ASSUME NEW n \in Nat, n \in T PROVE n + 1 \in T
  <2> SUFFICES ASSUME n + 1 \in 0 .. N PROVE f[n + 1] = value[n + 1]
    OBVIOUS
  <2>1. n \in 0 .. N /\ n + 1 \in 1 .. N /\ n + 1 # 0 /\ (n + 1) - 1 = n
    BY <1>1
  <2>2. f[n] = value[n]
    BY <1>3, <2>1
  <2>3. f[n + 1] = Effect(history[order[n + 1]][3], f[(n + 1) - 1])
    BY <2>1
  <2>4. value[n + 1] = Effect(history[order[n + 1]][3], value[(n + 1) - 1])
    BY <2>1
  <2> QED BY <2>1, <2>2, <2>3, <2>4
<1>4. Nat \subseteq T
  <2> HIDE DEF T
  <2> QED BY <1>2, <1>3, Induction
<1>5. ASSUME NEW n \in 0 .. N PROVE f[n] = value[n]
  <2>1. n \in Nat
    BY <1>1
  <2>2. n \in T
    BY <1>4, <2>1
  <2> QED BY <2>2
<1>6. DOMAIN f = 0 .. N /\ f = [n \in 0 .. N |-> f[n]]
  OBVIOUS
<1> QED BY <1>5, <1>6

\* The invariant implies the property: chosen are the operations of order that
\* were not recorded :ok.
LEMMA Explains ==
  ASSUME IInv PROVE HistoryExplained
<1> DEFINE possible == OfType("open") \cup (IF lost = 0 THEN {} ELSE OfType("fail"))
<1>1. Types /\ Alternating /\ history \in Seq(Entry) /\ lost \in Nat
  BY DEF IInv, Types
<1>2. PICK order \in Seq(Nat), lateAt \in Seq(Nat) :
        \E value \in [0 .. Len(order) -> Found] : Witnessed(order, value, lateAt)
  BY DEF IInv
<1>3. PICK value \in [0 .. Len(order) -> Found] : Witnessed(order, value, lateAt)
  BY <1>2
<1>4. /\ Places(order, lateAt) /\ Values(order, value)
      /\ Returned(order, value, lateAt) /\ Intervals(order)
  BY <1>3 DEF Witnessed
<1> DEFINE N == Len(order)
           R == {order[n] : n \in 1 .. N}
           chosen == R \ OfType("ok")
<1>5. /\ N \in Nat
      /\ \A n \in 1 .. N : Invoked(history, order[n]) /\ order[n] \in Invocations
      /\ \A m, n \in 1 .. N : order[m] = order[n] => m = n
  <2>1. /\ \A n \in 1 .. N : Invoked(history, order[n])
        /\ \A m, n \in 1 .. N : order[m] = order[n] => m = n
    BY <1>4 DEF Places
  <2>2. \A n \in 1 .. N : order[n] \in Invocations
    BY <2>1 DEF Invoked, Invocations
  <2> QED BY <2>1, <2>2
<1>6. \A i \in Invocations :
        /\ TypeAt(i) \in {"open", "ok", "fail"}
        /\ TypeAt(i) = "ok" => /\ Closes(history, i, CompletionOf(i))
                               /\ Right(order, value, i, history[CompletionOf(i)])
        /\ TypeAt(i) = "fail" => lost > 0 \/ ~In(order, i)
  BY <1>1, <1>4, Completed DEF Invocations, Invoked
<1>7. OfType("ok") \subseteq R
  BY <1>6 DEF OfType, Right
<1>8. chosen \subseteq possible
  <2> SUFFICES ASSUME NEW n \in 1 .. N, order[n] \notin OfType("ok") PROVE order[n] \in possible
    OBVIOUS
  <2>1. order[n] \in Invocations /\ In(order, order[n])
    BY <1>5 DEF In
  <2>2. TypeAt(order[n]) = "open" \/ (TypeAt(order[n]) = "fail" /\ lost > 0)
    BY <1>6, <2>1 DEF OfType
  <2> QED BY <1>1, <2>1, <2>2 DEF OfType
<1>9. OfType("ok") \cup chosen = R
  BY <1>7
<1>10. order \in SetToSeqs(R)
  <2>1. order \in [1 .. N -> R]
    OBVIOUS
  <2>2. Cardinality(R) = N
    <3>1. order \in Bijection(1 .. N, R)
      <4>1. order \in Injection(1 .. N, R)
        BY <1>5, <2>1 DEF Injection, IsInjective
      <4>2. order \in Surjection(1 .. N, R)
        BY <2>1 DEF Surjection
      <4> QED BY <4>1, <4>2 DEF Bijection
    <3>2. ExistsBijection(1 .. N, R)
      BY <3>1 DEF ExistsBijection
    <3> QED BY <1>5, <3>2, FS_CountingElements
  <2>3. \A i, j \in 1 .. N : i # j => order[i] # order[j]
    BY <1>5
  <2> HIDE DEF R
  <2> QED BY <2>1, <2>2, <2>3 DEF SetToSeqs
<1>11. InOrder(order)
  <2> SUFFICES ASSUME NEW m \in 1 .. N, NEW n \in 1 .. N, m < n, TypeAt(order[n]) = "ok"
               PROVE  ~(CompletionOf(order[n]) < order[m])
    BY DEF InOrder
  <2>1. Closes(history, order[n], CompletionOf(order[n])) /\ history[CompletionOf(order[n])][1] = "ok"
    <3>1. order[n] \in 1 .. Len(history)
      BY <1>5 DEF Invoked
    <3> QED BY <1>1, <3>1, Completion
  <2> QED BY <1>4, <2>1 DEF Intervals
<1>12. Replays(order)
  <2> DEFINE Step(f) == [n \in 0 .. N |->
               IF n = 0 THEN Missing ELSE Effect(history[order[n]][3], f[n - 1])]
             before == CHOOSE f : f = Step(f)
  <2>1. value = Step(value)
    <3>1. \A n \in 0 .. N : n # 0 => n \in 1 .. N
      BY <1>5
    <3>2. \A n \in 0 .. N :
            value[n] = IF n = 0 THEN Missing ELSE Effect(history[order[n]][3], value[n - 1])
      BY <1>4, <3>1 DEF Values
    <3>3. value = [n \in 0 .. N |-> value[n]]
      OBVIOUS
    <3> QED BY <3>2, <3>3
  <2>2. before = Step(before)
    <3> HIDE DEF Step
    <3> QED BY <2>1
  <2> HIDE DEF before
  <2>3. before = value
    <3>1. /\ value[0] = Missing
          /\ \A n \in 1 .. Len(order) : value[n] = Effect(history[order[n]][3], value[n - 1])
      BY <1>4 DEF Values
    <3> QED BY <2>2, <3>1, ReplayIsUnique
  <2>4. ASSUME NEW n \in 1 .. N, TypeAt(order[n]) = "ok"
        PROVE  LET o      == history[order[n]][3]
                   answer == history[CompletionOf(order[n])][3]
               IN  /\ Ok(o, value[n - 1])
                   /\ o.func = "read" => IsNumber(value[n - 1]) /\ answer.number = stoi[value[n - 1]]
    <3>1. Right(order, value, order[n], history[CompletionOf(order[n])])
      BY <1>5, <1>6, <2>4
    <3>2. PICK m \in 1 .. N :
            /\ order[m] = order[n]
            /\ history[order[n]][3].func = "read" =>
                 /\ IsNumber(value[m - 1])
                 /\ history[CompletionOf(order[n])][3].number = stoi[value[m - 1]]
      BY <3>1 DEF Right
    <3>3. m = n
      BY <1>5, <3>2
    <3> QED BY <1>4, <3>2, <3>3 DEF Values
  <2> QED BY <2>3, <2>4 DEF Replays, before
<1>13. Explained(possible)
  <2> HIDE DEF chosen, R, possible
  <2> QED BY <1>8, <1>9, <1>10, <1>11, <1>12 DEF Explained
<1> QED BY <1>13 DEF HistoryExplained

\* Every history that a run of the etcd test records of a key can be explained by
\* an order of its operations: :ok operations took effect between invocation and
\* completion and answered with the value they found, :fail ones, as long as every
\* request was answered, had no effect (ETCDClient.cpp:21-57).
THEOREM HistoryIsExplained == Spec => []HistoryExplained
BY Inductive, Explains, PTL
=============================================================================
