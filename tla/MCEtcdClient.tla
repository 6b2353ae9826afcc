---------------------------- MODULE MCEtcdClient ----------------------------
(* The instance of EtcdClient that is checked. *)
EXTENDS EtcdClient

Symmetry == Permutations(Processes)
=============================================================================
