------------------------------ MODULE MCServer ------------------------------
(***************************************************************************)
(* Instances of the cluster for TLC.                                       *)
(***************************************************************************)
EXTENDS ServerProperties

\* One client everywhere; or none at the initial leader; or one there and one
\* at some other server.
OneClientEach == [s \in Servers |-> 1]
NoneAtLeader == [s \in Servers |-> IF s = InitialLeader THEN 0 ELSE 1]
OneBesidesLeader ==
  LET other == CHOOSE s \in Servers : s # InitialLeader
  IN [s \in Servers |-> IF s \in {InitialLeader, other} THEN 1 ELSE 0]

\* No action tells one start time from another.
StartTimesAlike == Permutations(StartTimes)

NoRequests == [c \in Client |-> 0]
OneRequestEach == [c \in Client |-> 1]
TwoRequestsEach == [c \in Client |-> 2]
=============================================================================
