------------------------------ MODULE MCDaemon ------------------------------
(***************************************************************************)
(* Instances of Daemon for TLC.                                            *)
(***************************************************************************)
EXTENDS Daemon

AllCommands == {"killall", "rm", "install", "start"}
ThreePids   == 1 .. 3

Option(b, m, e, n) == [background |-> b, make_pidfile |-> m,
                       match_executable |-> e, match_process_name |-> n]

\* The options of the etcd test, and each of them changed.
SomeOptions ==
  {Option(TRUE, TRUE, TRUE, FALSE), Option(FALSE, TRUE, TRUE, FALSE),
   Option(TRUE, FALSE, TRUE, FALSE), Option(TRUE, TRUE, FALSE, FALSE),
   Option(TRUE, TRUE, FALSE, TRUE)}
=============================================================================
