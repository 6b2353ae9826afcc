------------------------------- MODULE Lockstep -------------------------------
(***************************************************************************)
(* How a test run treats its nodes: each goes through the same sequence of *)
(* calls, calls for different nodes overlap, but no call starts for a node *)
(* while another node still has a call of an earlier kind ahead of it or   *)
(* in progress. A new run, or a new program, starts over.                  *)
(***************************************************************************)
EXTENDS Integers

CONSTANTS Node, Calls       \* nodes, and the number of calls for each

VARIABLE stage              \* per node: 2 * calls made, plus one during a call

AtStart == stage = [n \in Node |-> 0]

StartCall(n) ==
  /\ stage[n] % 2 = 0 /\ stage[n] < 2 * Calls
  /\ \A m \in Node : stage[m] >= stage[n]
  /\ stage' = [stage EXCEPT ![n] = @ + 1]

EndCall(n) ==
  /\ stage[n] % 2 = 1
  /\ stage' = [stage EXCEPT ![n] = @ + 1]

StartOver == stage' = [n \in Node |-> 0]

LNext == StartOver \/ \E n \in Node : StartCall(n) \/ EndCall(n)

LSpec == AtStart /\ [][LNext]_stage
==============================================================================
