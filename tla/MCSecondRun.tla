----------------------------- MODULE MCSecondRun -----------------------------
(***************************************************************************)
(* Instances of SecondRun for TLC.                                         *)
(***************************************************************************)
EXTENDS SecondRun

\* What tells apart the operations the scheduling looks at.
TwoOutcomes == {"ok", "info"}
==============================================================================
