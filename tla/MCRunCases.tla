------------------------------ MODULE MCRunCases ------------------------------
(***************************************************************************)
(* Instances of RunCases for TLC.                                          *)
(***************************************************************************)
EXTENDS RunCases

\* What tells apart the operations the scheduling looks at.
TwoOutcomes == {"ok", "info"}
==============================================================================
