------------------------------ MODULE Streams -------------------------------
(***************************************************************************)
(* The connections between clients and their servers (client/network.rs,   *)
(* server/network.rs).  A byte stream is an append-only sequence and the   *)
(* number of its messages consumed so far.                                 *)
(***************************************************************************)
EXTENDS Common, Sequences

CONSTANT MaxRequests  \* bound: requests a client sends, for every client

ASSUME MaxRequestsAssumption == MaxRequests \in [Client -> Nat]

VARIABLES
  requests,     \* key-value commands a client has sent; the id of the i-th is i-1
  appended,     \* how many of them its server has handled
  responses,    \* messages sent to a client
  delivered,    \* how many of them the client has taken
  client_link   \* "up"; "gone": the client left; "closed": the server's writer task noticed

LinkState == {"up", "gone", "closed"}

StreamsTypeOK ==
  /\ requests \in [Client -> Seq(KVCommand)]
  /\ appended \in [Client -> Nat]
  /\ responses \in [Client -> Seq(ServerMessage)]
  /\ delivered \in [Client -> Nat]
  /\ client_link \in [Client -> LinkState]

StreamsInit ==
  /\ requests = [c \in Client |-> <<>>]
  /\ appended = [c \in Client |-> 0]
  /\ responses = [c \in Client |-> <<>>]
  /\ delivered = [c \in Client |-> 0]
  /\ client_link = [c \in Client |-> "up"]
=============================================================================
