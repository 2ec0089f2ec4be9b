----------------------------- MODULE MCTransport ----------------------------
(***************************************************************************)
(* Instances of the transport for TLC.                                     *)
(***************************************************************************)
EXTENDS Transport

AllAtLowest == [c \in Clients |-> CHOOSE s \in Servers : \A t \in Servers : s <= t]

\* Two servers fill every queue between them, in both directions.
BusyServers ==
  [batch_size |-> 1, wire_capacity |-> 1, too_large |-> {},
   max_sent |-> [ch \in Channel |-> IF ch \in PeerChannel THEN 6 ELSE 0]]

\* One client fills every queue to its server, the other shares the last one.
Eager == CHOOSE c \in Clients : TRUE
BusyClients ==
  [batch_size |-> 1, wire_capacity |-> 1, too_large |-> {},
   max_sent |-> [ch \in Channel |-> IF ch \in PeerChannel THEN 0
                                    ELSE IF From(ch) = Eager THEN 7 ELSE 2]]

\* Batches in which the second message of one server is too large.
LargeMessage ==
  [batch_size |-> 2, wire_capacity |-> 2, too_large |-> {<< <<1, 2>>, 2>>},
   max_sent |-> [ch \in Channel |-> IF ch = <<1, 2>> THEN 4
                                    ELSE IF ch \in PeerChannel THEN 1 ELSE 0]]

AllLoads == {BusyServers, BusyClients, LargeMessage}
=============================================================================
