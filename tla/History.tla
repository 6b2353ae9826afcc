------------------------------- MODULE History -------------------------------
(***************************************************************************)
(* What a recorded history promises to the checker that reads it,          *)
(* independently of threads, queues and generators: every process is       *)
(* sequential (it has at most one open operation), every completion        *)
(* answers an open operation, a client process whose operation ended in    *)
(* :info is never used again, and nothing is open when the run is over.    *)
(* Runner::runCases builds Runner::history; module RunCases implements     *)
(* this specification.                                                     *)
(***************************************************************************)
EXTENDS Integers, Sequences

CONSTANTS Process,          \* process numbers
          Nemesis           \* the nemesis process, which survives :info

VARIABLES history,          \* sequence of records [process, type]
          open,             \* processes whose last invocation is unanswered
          closed            \* the run is over and the history is final

hvars == <<history, open, closed>>

\* Client processes with an operation of unknown outcome.
Crashed(h) ==
  {h[i].process : i \in {j \in DOMAIN h : h[j].type = "info"}} \ {Nemesis}

HInit == history = <<>> /\ open = {} /\ closed = FALSE

HInvoke(p) ==
  /\ ~closed /\ p \in Process /\ p \notin open /\ p \notin Crashed(history)
  /\ history' = Append(history, [process |-> p, type |-> "invoke"])
  /\ open' = open \cup {p}
  /\ UNCHANGED closed

HComplete(p, outcome) ==
  /\ ~closed /\ p \in open
  /\ history' = Append(history, [process |-> p, type |-> outcome])
  /\ open' = open \ {p}
  /\ UNCHANGED closed

HClose ==
  /\ ~closed /\ open = {}
  /\ closed' = TRUE
  /\ UNCHANGED <<history, open>>

\* The process is named through the change of open, so that TLC need not
\* enumerate Process.
HNext ==
  \/ \E p \in open' \ open : HInvoke(p)
  \/ \E p \in open \ open', o \in {"invoke", "ok", "fail", "info"} : HComplete(p, o)
  \/ HClose

HSpec == HInit /\ [][HNext]_hvars
==============================================================================
