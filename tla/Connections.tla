----------------------------- MODULE Connections ----------------------------
(***************************************************************************)
(* How a cluster gets connected: Network::new of src/src/server/network.rs *)
(* and the connecting half of src/src/client/network.rs.  A server dials   *)
(* every server with a lower id and waits, behind its listener, for those  *)
(* with a higher one and for num_clients clients.  What it ends with is    *)
(* what NetworkReady of Server.tla begins a server with.                   *)
(*                                                                         *)
(* A connection is the pair <<dialler, server>>.  The dialling end, the    *)
(* listener, the handshake task of the accepting end and the loop of       *)
(* initialize_connections run concurrently.                                *)
(***************************************************************************)
EXTENDS Integers, FiniteSets, Sequences

CONSTANTS
  Servers,      \* node ids; their order decides who dials whom
  Clients,      \* client processes
  Home,         \* the server a client process is configured to use
  NumClients,   \* num_clients of every server
  MaxFailures   \* bound: processes that stop

ASSUME ServersAssumption == Servers \subseteq Nat
ASSUME HomeAssumption == Home \in [Clients -> Servers]
ASSUME ClientsAssumption == IsFiniteSet(Clients) /\ Clients \cap Servers = {}
ASSUME NumClientsAssumption == NumClients \in [Servers -> Nat]

VARIABLES
  network,            \* Network::new of a server: "off", "starting", "ready"; "crashed"
  listener,           \* its listener task: "none", "listening", "aborted"
  left,               \* clients that have stopped
  dialler,            \* the dialling end: "idle", "connected", "registered", "failed"
  acceptor,           \* the accepting end: "none", "backlog", "accepted", "identified",
                      \*   "announced"; "reset"
  max_client_id,
  client_id,          \* the id a client was given, 0 before
  connection_source,  \* new connections on their way to initialize_connections
  peer_connections,   \* peers whose slot is filled
  client_connections, \* client ids connected
  sent,               \* connections whose dialler has sent more than its registration
  spoiled             \* those of which some of that was lost with the handshake's buffer

endVars == <<dialler, acceptor, sent, spoiled>>
idVars == <<max_client_id, client_id>>
slotVars == <<connection_source, peer_connections, client_connections>>
connVars == <<network, listener, left, endVars, idVars, slotVars>>

Peers(s) == Servers \ {s}
ClientsOf(s) == {c \in Clients : Home[c] = s}
Dialled == {<<c, Home[c]>> : c \in Clients} \cup {d \in Servers \X Servers : d[2] < d[1]}
ToPeer(p) == [kind |-> "ToPeer", peer_id |-> p]
ToClient(id) == [kind |-> "ToClient", client_id |-> id]
NewConnection == [kind : {"ToPeer"}, peer_id : Servers] \cup [kind : {"ToClient"}, client_id : Nat]

ConnTypeOK ==
  /\ network \in [Servers -> {"off", "starting", "ready", "crashed"}]
  /\ listener \in [Servers -> {"none", "listening", "aborted"}]
  /\ left \subseteq Clients
  /\ dialler \in [Dialled -> {"idle", "connected", "registered", "failed"}]
  /\ acceptor \in [Dialled -> {"none", "backlog", "accepted", "identified", "announced", "reset"}]
  /\ max_client_id \in [Servers -> Nat]
  /\ client_id \in [Clients -> Nat]
  /\ connection_source \in [Servers -> Seq(NewConnection)]
  /\ peer_connections \in [Servers -> SUBSET Servers]
  /\ client_connections \in [Servers -> SUBSET Nat]
  /\ sent \subseteq Dialled
  /\ spoiled \subseteq sent

ConnInit ==
  /\ network = [s \in Servers |-> "off"]
  /\ listener = [s \in Servers |-> "none"]
  /\ left = {}
  /\ dialler = [d \in Dialled |-> "idle"]
  /\ acceptor = [d \in Dialled |-> "none"]
  /\ max_client_id = [s \in Servers |-> 0]
  /\ client_id = [c \in Clients |-> 0]
  /\ connection_source = [s \in Servers |-> <<>>]
  /\ peer_connections = [s \in Servers |-> {}]
  /\ client_connections = [s \in Servers |-> {}]
  /\ sent = {}
  /\ spoiled = {}

Alive(x) == IF x \in Clients THEN x \notin left ELSE network[x] \in {"starting", "ready"}
Announced(s, connection) ==
  [connection_source EXCEPT ![s] = IF network[s] = "starting" THEN Append(@, connection) ELSE @]
-----------------------------------------------------------------------------
(* The dialling end: a task of spawn_peer_connectors, or, the same way, a *)
(* client in get_server_connection.                                       *)

\* Mutant: an attempt that fails is the last one.
ConnectOnce(d) ==
  /\ dialler[d] = "idle" /\ Alive(d[1])
  /\ dialler' = [dialler EXCEPT ![d] = IF listener[d[2]] = "listening" THEN "connected" ELSE "failed"]
  /\ acceptor' = [acceptor EXCEPT ![d] = IF listener[d[2]] = "listening" THEN "backlog" ELSE @]
  /\ UNCHANGED <<network, listener, left, sent, spoiled, idVars, slotVars>>

\* One turn of the retry loop that succeeds; one that fails changes nothing.
Connect(d) ==
  /\ dialler[d] = "idle" /\ Alive(d[1])
  /\ listener[d[2]] = "listening"
  /\ dialler' = [dialler EXCEPT ![d] = "connected"]
  /\ acceptor' = [acceptor EXCEPT ![d] = "backlog"]
  /\ UNCHANGED <<network, listener, left, sent, spoiled, idVars, slotVars>>

\* Mutant: a registration that cannot be written is tried again from the start.
RegisterOrRetry(d) ==
  /\ dialler[d] = "connected" /\ Alive(d[1])
  /\ \/ /\ dialler' = [dialler EXCEPT ![d] = "registered"]
        /\ connection_source' =
             IF d[1] \in Servers THEN Announced(d[1], ToPeer(d[2])) ELSE connection_source
     \/ /\ acceptor[d] = "reset"
        /\ dialler' = [dialler EXCEPT ![d] = "idle"]
        /\ UNCHANGED connection_source
  /\ UNCHANGED <<network, listener, left, acceptor, sent, spoiled, idVars, peer_connections,
                 client_connections>>

\* The registration is written, the connection announced to the own server.  On
\* a connection that was reset this may fail, and there is no second attempt.
Register(d) ==
  /\ dialler[d] = "connected" /\ Alive(d[1])
  /\ \/ /\ dialler' = [dialler EXCEPT ![d] = "registered"]
        /\ connection_source' =
             IF d[1] \in Servers THEN Announced(d[1], ToPeer(d[2])) ELSE connection_source
     \/ /\ acceptor[d] = "reset"
        /\ dialler' = [dialler EXCEPT ![d] = "failed"]
        /\ UNCHANGED connection_source
  /\ UNCHANGED <<network, listener, left, acceptor, sent, spoiled, idVars, peer_connections,
                 client_connections>>

\* Mutant: a client does not wait for the start signal.
SpeakAtOnce(d) ==
  /\ dialler[d] = "registered" /\ Alive(d[1])
  /\ d[1] \in Servers => network[d[1]] = "ready"
  /\ sent' = sent \cup {d}
  /\ UNCHANGED <<network, listener, left, dialler, acceptor, spoiled, idVars, slotVars>>

\* The dialler goes on to send: a server when its own network is ready, a
\* client when its server has sent it the start signal.
Speak(d) ==
  /\ dialler[d] = "registered" /\ Alive(d[1])
  /\ IF d[1] \in Servers THEN network[d[1]] = "ready"
     ELSE /\ network[d[2]] = "ready"
          /\ client_id[d[1]] \in client_connections[d[2]] \cap 1..NumClients[d[2]]
  /\ sent' = sent \cup {d}
  /\ UNCHANGED <<network, listener, left, dialler, acceptor, spoiled, idVars, slotVars>>
-----------------------------------------------------------------------------
(* The accepting end: spawn_connection_listener, handle_incoming_connection. *)

StartServer(s) ==
  /\ network[s] = "off"
  /\ network' = [network EXCEPT ![s] = "starting"]
  /\ UNCHANGED <<listener, left, endVars, idVars, slotVars>>

Bind(s) ==
  /\ network[s] = "starting" /\ listener[s] = "none"
  /\ listener' = [listener EXCEPT ![s] = "listening"]
  /\ UNCHANGED <<network, left, endVars, idVars, slotVars>>

Accept(d) ==
  /\ acceptor[d] = "backlog" /\ listener[d[2]] = "listening"
  /\ acceptor' = [acceptor EXCEPT ![d] = "accepted"]
  /\ UNCHANGED <<network, listener, left, dialler, sent, spoiled, idVars, slotVars>>

\* Mutants: the number of clients connected so far decides; the counter goes down.
NextIdByCount(s) == Cardinality(client_connections[s]) + 1
NextIdDownwards(s) == max_client_id[s] - 1

\* The counter is stepped and read under its lock.
NextId(s) == max_client_id[s] + 1

\* The registration comes in and a client gets its id.  What the dialler has
\* sent since may have been read along with it, and goes with the buffer.
Identify(d) ==
  LET s == d[2] IN
  /\ acceptor[d] = "accepted" /\ dialler[d] = "registered"
  /\ acceptor' = [acceptor EXCEPT ![d] = "identified"]
  /\ IF d[1] \in Clients
     THEN /\ client_id' = [client_id EXCEPT ![d[1]] = NextId(s)]
          /\ max_client_id' = [max_client_id EXCEPT ![s] = @ + 1]
     ELSE UNCHANGED idVars
  /\ spoiled' \in {spoiled, spoiled \cup ({d} \cap sent)}
  /\ UNCHANGED <<network, listener, left, dialler, sent, slotVars>>

\* The dialler is gone before it has registered.
DropUnidentified(d) ==
  /\ acceptor[d] = "accepted" /\ dialler[d] # "registered" /\ ~ Alive(d[1])
  /\ acceptor' = [acceptor EXCEPT ![d] = "reset"]
  /\ UNCHANGED <<network, listener, left, dialler, sent, spoiled, idVars, slotVars>>

\* The handshake task hands the connection over.  If initialize_connections has
\* returned the task panics, and the connection is gone.
Announce(d) ==
  LET s == d[2] IN
  /\ acceptor[d] = "identified"
  /\ acceptor' = [acceptor EXCEPT ![d] = IF network[s] = "starting" THEN "announced" ELSE "reset"]
  /\ connection_source' =
       Announced(s, IF d[1] \in Clients THEN ToClient(client_id[d[1]]) ELSE ToPeer(d[1]))
  /\ UNCHANGED <<network, listener, left, dialler, sent, spoiled, idVars, peer_connections,
                 client_connections>>
-----------------------------------------------------------------------------
(* The loop of initialize_connections. *)

\* Mutant: the peers are not waited for.
ClientsConnected(s, peers, clients) == Cardinality(clients) >= NumClients[s]

AllConnected(s, peers, clients) ==
  Cardinality(clients) >= NumClients[s] /\ peers = Peers(s)

\* One new connection goes to its slot.  With everyone there the listener is
\* aborted, with it what waits to be accepted or to be taken here.
TakeConnection(s) ==
  LET new     == Head(connection_source[s])
      peers   == peer_connections[s] \cup (IF new.kind = "ToPeer" THEN {new.peer_id} ELSE {})
      clients == client_connections[s] \cup (IF new.kind = "ToClient" THEN {new.client_id} ELSE {})
      done    == AllConnected(s, peers, clients)
  IN
  /\ network[s] = "starting" /\ connection_source[s] # <<>>
  /\ peer_connections' = [peer_connections EXCEPT ![s] = peers]
  /\ client_connections' = [client_connections EXCEPT ![s] = clients]
  /\ connection_source' = [connection_source EXCEPT ![s] = IF done THEN <<>> ELSE Tail(@)]
  /\ network' = [network EXCEPT ![s] = IF done THEN "ready" ELSE @]
  /\ listener' = [listener EXCEPT ![s] = IF done THEN "aborted" ELSE @]
  /\ acceptor' = [d \in Dialled |-> IF done /\ d[2] = s /\ acceptor[d] = "backlog"
                                    THEN "reset" ELSE acceptor[d]]
  /\ UNCHANGED <<left, dialler, sent, spoiled, idVars>>
-----------------------------------------------------------------------------
Crashes == left \cup {s \in Servers : network[s] = "crashed"}

ClientStops(c) ==
  /\ Cardinality(Crashes) < MaxFailures
  /\ c \notin left
  /\ left' = left \cup {c}
  /\ UNCHANGED <<network, listener, endVars, idVars, slotVars>>

ServerStops(s) ==
  /\ Cardinality(Crashes) < MaxFailures
  /\ network[s] \in {"starting", "ready"}
  /\ network' = [network EXCEPT ![s] = "crashed"]
  /\ listener' = [listener EXCEPT ![s] = "aborted"]
  /\ acceptor' = [d \in Dialled |-> IF d[2] = s /\ acceptor[d] # "none" THEN "reset" ELSE acceptor[d]]
  /\ UNCHANGED <<left, dialler, sent, spoiled, idVars, slotVars>>

ConnectionSteps(d) ==
  Connect(d) \/ Register(d) \/ Accept(d) \/ Identify(d) \/ DropUnidentified(d) \/ Announce(d)
StartingSteps(s) == StartServer(s) \/ Bind(s) \/ TakeConnection(s)

ConnNext ==
  \/ \E d \in Dialled : ConnectionSteps(d) \/ Speak(d)
  \/ \E s \in Servers : StartingSteps(s) \/ ServerStops(s)
  \/ \E c \in Clients : ClientStops(c)

ConnSpec == ConnInit /\ [][ConnNext]_connVars

\* Every task that can run runs; the retry timer fires again and again.
FairConnSpec ==
  /\ ConnSpec
  /\ \A d \in Dialled : WF_connVars(ConnectionSteps(d))
  /\ \A s \in Servers : WF_connVars(StartingSteps(s))
-----------------------------------------------------------------------------
\* Two clients of a server never have the same id, although handshake tasks run
\* concurrently, in any order, and some of them stop half-way.
IdsAreUnique ==
  \A c, e \in Clients :
    Home[c] = Home[e] /\ client_id[c] # 0 /\ client_id[c] = client_id[e] => c = e

\* The listener is there as long as a server has yet to dial it: no listener is
\* aborted while a peer still needs it, whoever has failed.
PeersFindListener ==
  \A d \in Dialled :
    d[1] \in Servers /\ dialler[d] = "idle" /\ listener[d[2]] = "aborted"
    => network[d[2]] = "crashed"

\* "Waits until connections to all servers and clients are established before
\* resolving" (network.rs:55).  When new() returns, every peer has registered
\* or been registered with; and with as many client processes as configured,
\* the ids connected are those start signals are sent to, 1..num_clients, each
\* the id of a client: what NetworkReady of Server.tla assumes.  (Not that all
\* that peers have sent by then is going to be read: see StrandedOnlyByLoss there.)
ReadyAsServersBegin ==
  \A s \in Servers : network[s] = "ready" =>
    /\ peer_connections[s] = Peers(s)
    /\ \A d \in Dialled : d[1] \in Servers /\ s \in {d[1], d[2]} => dialler[d] = "registered"
    /\ Cardinality(ClientsOf(s)) = NumClients[s] =>
         /\ client_connections[s] = 1..NumClients[s]
         /\ {client_id[c] : c \in ClientsOf(s)} = 1..NumClients[s]

\* Nothing a client sends is lost with the buffer of the handshake, since it
\* sends nothing before the start.  (What a server sends can be: see
\* MayBeReadAlong in Server.tla.)
ClientsLoseNothing == \A c \in Clients : <<c, Home[c]>> \notin spoiled

\* As many clients come to a server as it waits for, and it waits for somebody.
\* (One with nobody to wait for would never look: network.rs:111 comes after a
\* connection.)
EveryoneComes ==
  \A s \in Servers :
    Cardinality(ClientsOf(s)) >= NumClients[s] /\ (Peers(s) # {} \/ NumClients[s] > 0)

\* What one of the connecting tasks waits for is there.
ConnTaskReady ==
  \/ \E s \in Servers :
       \/ network[s] = "off"
       \/ network[s] = "starting" /\ (listener[s] = "none" \/ connection_source[s] # <<>>)
  \/ \E d \in Dialled :
       \/ dialler[d] = "idle" /\ Alive(d[1]) /\ listener[d[2]] = "listening"
       \/ dialler[d] = "connected" /\ Alive(d[1])
       \/ acceptor[d] = "backlog" /\ listener[d[2]] = "listening"
       \/ acceptor[d] = "accepted" /\ dialler[d] = "registered"
       \/ acceptor[d] = "identified"

\* Servers never wait for each other in a circle, nor for a connection that has
\* been counted already or will not be tried again: unless a process stops, some
\* task can go on until every new() has returned (network.rs:83-122, 198-239).
NewNeverStuck ==
  EveryoneComes /\ Crashes = {} /\ (\E s \in Servers : network[s] # "ready") => ConnTaskReady

\* How far the two ends of a connection and a server have come.
DialStage(d) ==
  CASE dialler[d] = "idle" -> 0 [] dialler[d] = "connected" -> 1 [] OTHER -> 2
AcceptStage(d) ==
  CASE acceptor[d] = "none" -> 0 [] acceptor[d] = "backlog" -> 1 [] acceptor[d] = "accepted" -> 2
    [] acceptor[d] = "identified" -> 3 [] OTHER -> 4
StartStage(s) ==
  CASE network[s] = "off" -> 0
    [] network[s] = "starting" /\ listener[s] = "none" -> 1
    [] network[s] = "starting" /\ listener[s] = "listening" -> 2
    [] OTHER -> 3
EndMoves == \E d \in Dialled : DialStage(d)' > DialStage(d) \/ AcceptStage(d)' > AcceptStage(d)

\* Connecting never goes round in circles (every retry of network.rs:198-239 is
\* one that changes nothing): nothing falls back, whatever fails; every step of a
\* connecting task brings an end or a server forward or takes a connection; and
\* there is one to take only for an end that came forward.
ConnectingMovesOn ==
  [][/\ \A d \in Dialled : DialStage(d)' >= DialStage(d) /\ AcceptStage(d)' >= AcceptStage(d)
     /\ \A s \in Servers :
          /\ StartStage(s)' >= StartStage(s)
          /\ Len(connection_source'[s]) > Len(connection_source[s]) =>
               EndMoves /\ Len(connection_source'[s]) = Len(connection_source[s]) + 1
     /\ (\E d \in Dialled : ConnectionSteps(d)) \/ (\E s \in Servers : StartingSteps(s)) =>
          \/ EndMoves
          \/ \E s \in Servers : \/ StartStage(s)' > StartStage(s)
                               \/ Len(connection_source'[s]) < Len(connection_source[s])]_connVars

\* Unless a process stops, every server's new() returns.
EveryServerReady == \A s \in Servers : <>(network[s] = "ready" \/ Crashes # {})
=============================================================================
