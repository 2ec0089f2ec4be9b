--------------------------- MODULE MCOmniPaxosKV ----------------------------
(***************************************************************************)
(* Instances of the whole system for TLC.                                  *)
(***************************************************************************)
EXTENDS OmniPaxosKV

OneClientEach == [s \in Servers |-> 1]
NoneAtLeader == [s \in Servers |-> IF s = InitialLeader THEN 0 ELSE 1]

OneRequestEach == [c \in Client |-> 1]
TwoRequestsEach == [c \in Client |-> 2]
=============================================================================
