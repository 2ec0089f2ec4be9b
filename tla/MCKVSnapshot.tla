---------------------------- MODULE MCKVSnapshot ----------------------------
(***************************************************************************)
(* Instances of the snapshots for TLC: no clients and no cluster, only the *)
(* commands.                                                               *)
(***************************************************************************)
EXTENDS KVSnapshot

NoClients == [s \in Servers |-> 0]
=============================================================================
