------------------------------- MODULE Client -------------------------------
(***************************************************************************)
(* The benchmark client: src/src/client/client.rs, with the bookkeeping of *)
(* data_collection.rs and the sending half of client/network.rs.  It waits *)
(* for the start signal, sends requests while its intervals last, and ends *)
(* when it has counted as many answers as requests.                        *)
(*                                                                         *)
(* The server's end of the streams is in Server.tla.                       *)
(***************************************************************************)
EXTENDS Streams, Integers

CONSTANT Intervals  \* length of config.requests

ASSUME IntervalsAssumption == Intervals \in Nat

VARIABLES
  client_state,         \* where run() is: "waiting", "running", "finished" (loop left),
                        \* "closed" (connection shut down); "panicked", "crashed"
  server_connection,    \* the client's slot: "up", "closed" (writer task ended), "none"
  request_data,         \* for every request made, whether it has a response time
  response_count,
  final_request_count,  \* a number, or -1 for None
  intervals_left        \* intervals not begun yet

clientVars == <<client_state, server_connection, request_data, response_count,
                final_request_count, intervals_left>>

ClientInit ==
  /\ client_state = [c \in Client |-> "waiting"]
  /\ server_connection = [c \in Client |-> "up"]
  /\ request_data = [c \in Client |-> <<>>]
  /\ response_count = [c \in Client |-> 0]
  /\ final_request_count = [c \in Client |-> -1]
  /\ intervals_left = [c \in Client |-> Intervals]

NextMessage(c) == responses[c][delivered[c] + 1]

\* server_messages.recv() returns the next message from the server.
Take(c) ==
  /\ delivered[c] < Len(responses[c])
  /\ delivered' = [delivered EXCEPT ![c] = @ + 1]

\* The first message must be the start signal.  A client with no intervals is
\* done; the others begin the first one.
TakeStartSignal(c) ==
  /\ client_state[c] = "waiting"
  /\ Take(c)
  /\ client_state' = [client_state EXCEPT ![c] =
       IF NextMessage(c).type # "StartSignal" THEN "panicked"
       ELSE IF Intervals = 0 THEN "finished" ELSE "running"]
  /\ intervals_left' = [intervals_left EXCEPT ![c] = IF @ = 0 THEN 0 ELSE @ - 1]
  /\ UNCHANGED <<requests, client_link, server_connection, request_data, response_count,
                 final_request_count>>

\* Mutant: the final count is enough.
FinalCountTaken(c, count, final) == final # -1

RunFinished(c, count, final) == final # -1 /\ count >= final

\* new_response indexes request_data by the id it is given and counts.
HandleServerMessage(c) ==
  LET m == NextMessage(c)
      counted == IF m.type = "StartSignal" THEN response_count[c] ELSE response_count[c] + 1
      unknown == m.type # "StartSignal" /\ m.id >= Len(request_data[c])
  IN
  /\ client_state[c] = "running"
  /\ Take(c)
  /\ request_data' =
       IF m.type = "StartSignal" \/ unknown THEN request_data
       ELSE [request_data EXCEPT ![c][m.id + 1] = TRUE]
  /\ response_count' = [response_count EXCEPT ![c] = IF unknown THEN @ ELSE counted]
  /\ client_state' = [client_state EXCEPT ![c] =
       IF unknown THEN "panicked"
       ELSE IF RunFinished(c, counted, final_request_count[c]) THEN "finished" ELSE @]
  /\ UNCHANGED <<requests, client_link, server_connection, final_request_count, intervals_left>>

\* The commands of the request a client makes next: its number is key and value.
NextCommands(c) == LET id == Len(request_data[c]) IN {Put(id, id), Get(id)}

\* Mutant: the start signal is not awaited.
SendBeforeStart(c, cmd) ==
  /\ client_state[c] \in {"waiting", "running"}
  /\ final_request_count[c] = -1
  /\ Len(request_data[c]) < MaxRequests[c]
  /\ requests' = [requests EXCEPT ![c] = Append(@, cmd)]
  /\ request_data' = [request_data EXCEPT ![c] = Append(@, FALSE)]
  /\ UNCHANGED <<delivered, client_link, client_state, server_connection, response_count,
                 final_request_count, intervals_left>>

\* The request timer fires.  A request that cannot be sent is recorded too.
SendRequest(c, cmd) ==
  /\ client_state[c] = "running"
  /\ final_request_count[c] = -1
  /\ Len(request_data[c]) < MaxRequests[c]
  /\ cmd \in NextCommands(c)
  /\ requests' = IF server_connection[c] = "up"
                 THEN [requests EXCEPT ![c] = Append(@, cmd)] ELSE requests
  /\ server_connection' = [server_connection EXCEPT ![c] = IF @ = "closed" THEN "none" ELSE @]
  /\ request_data' = [request_data EXCEPT ![c] = Append(@, FALSE)]
  /\ UNCHANGED <<delivered, client_link, client_state, response_count,
                 final_request_count, intervals_left>>

\* The interval timer fires: the next interval begins, or no more requests will
\* be made and the client may be done already.
NextInterval(c) ==
  /\ client_state[c] = "running"
  /\ IF intervals_left[c] > 0
     THEN /\ intervals_left' = [intervals_left EXCEPT ![c] = @ - 1]
          /\ UNCHANGED <<final_request_count, client_state>>
     ELSE /\ final_request_count' = [final_request_count EXCEPT ![c] = Len(request_data[c])]
          /\ client_state' = [client_state EXCEPT ![c] =
               IF RunFinished(c, response_count[c], Len(request_data[c])) THEN "finished" ELSE @]
          /\ UNCHANGED intervals_left
  /\ UNCHANGED <<requests, delivered, client_link, server_connection,
                 request_data, response_count>>

\* network.shutdown(), or the end of the process.
Shutdown(c) ==
  /\ client_state[c] = "finished"
  /\ client_state' = [client_state EXCEPT ![c] = "closed"]
  /\ server_connection' = [server_connection EXCEPT ![c] = "none"]
  /\ client_link' = [client_link EXCEPT ![c] = IF @ = "up" THEN "gone" ELSE @]
  /\ UNCHANGED <<requests, delivered, request_data, response_count,
                 final_request_count, intervals_left>>

\* The writer task gets an error from the socket and ends.
ServerConnectionCloses(c) ==
  /\ client_state[c] \in {"waiting", "running"}
  /\ server_connection[c] = "up"
  /\ server_connection' = [server_connection EXCEPT ![c] = "closed"]
  /\ UNCHANGED <<requests, delivered, client_link, client_state, request_data,
                 response_count, final_request_count, intervals_left>>

ClientRuns(c) ==
  \/ TakeStartSignal(c)
  \/ HandleServerMessage(c)
  \/ \E cmd \in NextCommands(c) : SendRequest(c, cmd)
  \/ NextInterval(c)
  \/ Shutdown(c)
=============================================================================
