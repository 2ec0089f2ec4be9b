--------------------------- MODULE MCConnections ---------------------------
(***************************************************************************)
(* Instances of the connection phase for TLC.                              *)
(***************************************************************************)
EXTENDS Connections

Lowest == CHOOSE s \in Servers : \A t \in Servers : s <= t

\* Every client uses the server that all the others dial.
AllAtLowest == [c \in Clients |-> Lowest]
AllExpected == [s \in Servers |-> IF s = Lowest THEN Cardinality(Clients) ELSE 0]
=============================================================================
