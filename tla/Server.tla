------------------------------- MODULE Server -------------------------------
(***************************************************************************)
(* A cluster of OmniPaxosServer processes (src/src/server/server.rs) with  *)
(* the part of src/src/server/network.rs they call while running: sending  *)
(* to peers and clients, and the moment Network::new returns.  How it gets *)
(* there is Connections.tla.  Every other action is one arm of a select!   *)
(* loop with all the calls it makes, or one step of the environment: the   *)
(* clients, the links, the replication library.                            *)
(***************************************************************************)
EXTENDS Database, OmniPaxos, Streams, FiniteSets

CONSTANTS
  InitialLeader,  \* config.cluster.initial_leader
  MaxFailures     \* bound: links, clients and servers that fail

ASSUME InitialLeaderAssumption == InitialLeader \in Servers
ASSUME MaxFailuresAssumption == MaxFailures \in Nat

VARIABLES
  phase,                \* "starting": in Network::new; the loop a server is in, "establish"
                        \*   or "run"; or "crashed"
  current_decided_idx,  \* entries a server has applied
  database,             \* a server's key-value map
  peer_connections,     \* peers a server still holds a connection to
  client_connections,   \* client ids a server still holds a connection to
  cluster_messages,     \* sent to a server by its peers, not handled yet
  peer_link,            \* a server's connection to a peer, the direction it sends in
  failures              \* failures so far

serverVars == <<phase, current_decided_idx, database, peer_connections,
                client_connections>>
channelVars == <<cluster_messages, requests, appended, responses, delivered>>
linkVars == <<client_link, peer_link, failures>>
vars == <<libVars, serverVars, channelVars, linkVars>>

Peers(s) == Servers \ {s}
ClientsOf(s) == {c \in Client : ServerOf(c) = s}

\* As those of client_link; and two that a handshake may leave behind, the
\* sender none the wiser: "spoiled", the beginning was lost; "cut", it was lost
\* up to the middle of a frame, and nothing sent since is understood.
Intact == {"up", "spoiled", "cut"}
Heard == {"up", "spoiled"}
PeerLinkState == LinkState \cup Intact

TypeOK ==
  /\ LibTypeOK
  /\ StreamsTypeOK
  /\ phase \in [Servers -> {"starting", "establish", "run", "crashed"}]
  /\ current_decided_idx \in [Servers -> Nat]
  /\ database \in [Servers -> Db]
  /\ peer_connections \in [Servers -> SUBSET Servers]
  /\ client_connections \in [Servers -> SUBSET Nat]
  /\ cluster_messages \in [Servers -> SUBSET ClusterMessage]
  /\ peer_link \in [Servers -> [Servers -> PeerLinkState]]
  /\ failures \in Nat

\* A server comes to send on a connection only after Network::new has returned
\* there; what it leaves a server with can be filled in at once.
Init ==
  /\ LibInit
  /\ StreamsInit
  /\ phase = [s \in Servers |-> "starting"]
  /\ current_decided_idx = [s \in Servers |-> 0]
  /\ database = [s \in Servers |-> EmptyDb]
  /\ peer_connections = [s \in Servers |-> Peers(s)]
  /\ client_connections = [s \in Servers |-> ClientIds(s)]
  /\ cluster_messages = [s \in Servers |-> {}]
  /\ peer_link = [s \in Servers |-> [t \in Servers |-> "up"]]
  /\ failures = 0
-----------------------------------------------------------------------------
(***************************************************************************)
(* Sending.  A handler applies a sequence of entries and sends a sequence  *)
(* of messages in one step, so what it changes is threaded through a       *)
(* record: the applied index, the map, the client connections, and the     *)
(* streams towards the clients.                                            *)
(***************************************************************************)
HandlerState(s) == [idx |-> current_decided_idx[s], db |-> database[s],
                    conns |-> client_connections[s], out |-> responses]

Becomes(s, st) ==
  /\ current_decided_idx' = [current_decided_idx EXCEPT ![s] = st.idx]
  /\ database' = [database EXCEPT ![s] = st.db]
  /\ client_connections' = [client_connections EXCEPT ![s] = st.conns]
  /\ responses' = st.out

SendToClient(s, id, msg, st) ==
  IF id \notin st.conns THEN st
  ELSE IF client_link[<<s, id>>] = "closed"
       THEN [st EXCEPT !.conns = st.conns \ {id}]
       ELSE [st EXCEPT !.out = [st.out EXCEPT ![<<s, id>>] = Append(st.out[<<s, id>>], msg)]]

\* Mutant: one failed send empties every slot of the round.
SendToClusterDropsAll(s, T, m, inbox) ==
  /\ peer_connections' =
       [peer_connections EXCEPT ![s] = IF \E t \in T \cap @ : peer_link[s][t] = "closed" THEN @ \ T ELSE @]
  /\ cluster_messages' = inbox

\* Message m goes to the peers in T.  The sender drops a connection whose
\* writer task has ended; a message written to a broken or cut link is lost.
SendToCluster(s, T, m, inbox) ==
  /\ peer_connections' =
       [peer_connections EXCEPT ![s] = {t \in @ : ~ (t \in T /\ peer_link[s][t] = "closed")}]
  /\ cluster_messages' =
       [t \in Servers |->
          IF t \in T /\ t \in peer_connections[s] /\ peer_link[s][t] \in Heard
          THEN inbox[t] \cup {m} ELSE inbox[t]]

\* Whatever the library has to say goes to the peers it is addressed to.
SendOutgoingMsgs(s, T, inbox) == SendToCluster(s, T, OmniPaxosMessage, inbox)

\* The loop over 1..num_clients; the ids differ, so the order does not matter.
SendClientStartSignals(s, time, st) ==
  [st EXCEPT
     !.conns = {id \in st.conns : ~ (id \in ClientIds(s) /\ client_link[<<s, id>>] = "closed")},
     !.out = [c \in Client |->
                IF /\ c \in ClientsOf(s)
                   /\ ClientId(c) \in st.conns
                   /\ client_link[c] # "closed"
                THEN Append(st.out[c], StartSignal(time)) ELSE st.out[c]]]
-----------------------------------------------------------------------------
(* Applying decided entries. *)

ApplyAndRespond(s, st, cmd) ==
  LET applied == [st EXCEPT !.db = Updated(st.db, cmd.kv_cmd)] IN
  IF cmd.coordinator_id = s
  THEN SendToClient(s, cmd.client_id, Answer(st.db, cmd.id, cmd.kv_cmd), applied)
  ELSE applied

\* Mutant: the whole batch is applied before the answers are made.
AnswerAfterBatch(s, start, commands) ==
  LET after[i \in 0..Len(commands)] ==
        IF i = 0 THEN start.db ELSE Updated(after[i - 1], commands[i].kv_cmd)
      done == [start EXCEPT !.db = after[Len(commands)]]
      told[i \in 0..Len(commands)] ==
        IF i = 0 THEN done ELSE ApplyAndRespond(s, told[i - 1], commands[i])
  IN [told[Len(commands)] EXCEPT !.db = done.db]

UpdateDatabaseAndRespond(s, start, commands) ==
  LET after[i \in 0..Len(commands)] ==
        IF i = 0 THEN start ELSE ApplyAndRespond(s, after[i - 1], commands[i])
  IN after[Len(commands)]

\* Mutants: the suffix starts one entry late; or at the beginning of the log;
\* or a single new entry does not count.
SkipOneEntry(s, new_decided_idx, st) ==
  IF st.idx < new_decided_idx
  THEN UpdateDatabaseAndRespond(s, [st EXCEPT !.idx = new_decided_idx],
                                ReadDecidedSuffix(st.idx + 1, new_decided_idx))
  ELSE st
ReplayFromStart(s, new_decided_idx, st) ==
  IF st.idx < new_decided_idx
  THEN UpdateDatabaseAndRespond(s, [st EXCEPT !.idx = new_decided_idx],
                                ReadDecidedSuffix(0, new_decided_idx))
  ELSE st
WaitForTwoEntries(s, new_decided_idx, st) ==
  IF st.idx + 1 < new_decided_idx
  THEN UpdateDatabaseAndRespond(s, [st EXCEPT !.idx = new_decided_idx],
                                ReadDecidedSuffix(st.idx, new_decided_idx))
  ELSE st

HandleDecidedEntries(s, new_decided_idx, st) ==
  IF st.idx < new_decided_idx
  THEN UpdateDatabaseAndRespond(s, [st EXCEPT !.idx = new_decided_idx],
                                ReadDecidedSuffix(st.idx, new_decided_idx))
  ELSE st
-----------------------------------------------------------------------------
(* Network::new. *)

\* Peers that may have sent to s before it read their registration: they dialled
\* (the higher id does) and are done with their own Network::new.
MayBeReadAlong(s) ==
  {t \in Servers : /\ t > s /\ peer_link[t][s] = "up"
                   /\ phase[t] # "starting" /\ cluster_messages[s] # {}}

\* Network::new returns on s.  Of what came from a peer before its registration
\* was taken out of the stream, the part read along with it has gone with the
\* buffer (into_inner): messages in `lost`, of the peers in `spoiled` and `cut`.
NetworkReady(s, spoiled, cut, lost) ==
  /\ phase[s] = "starting"
  /\ spoiled \cup cut \subseteq MayBeReadAlong(s)
  /\ lost \subseteq {m \in cluster_messages[s] :
                     IF m = OmniPaxosMessage THEN spoiled \cup cut # {}
                                             ELSE InitialLeader \in spoiled \cup cut}
  /\ InitialLeader \in cut => cluster_messages[s] \ lost \subseteq {OmniPaxosMessage}
  /\ phase' = [phase EXCEPT ![s] = "establish"]
  /\ cluster_messages' = [cluster_messages EXCEPT ![s] = @ \ lost]
  /\ peer_link' = [t \in Servers |-> [peer_link[t] EXCEPT
                     ![s] = IF t \in cut THEN "cut" ELSE IF t \in spoiled THEN "spoiled" ELSE @]]
  /\ UNCHANGED <<libVars, current_decided_idx, database, peer_connections, client_connections,
                 requests, appended, responses, delivered, client_link, failures>>
-----------------------------------------------------------------------------
(* The arms of establish_initial_leader's loop. *)

\* The takeover timer fires and the leader is not in the accept phase yet.
TakeLeadership(s, T) ==
  /\ phase[s] = "establish" /\ s = InitialLeader
  /\ leadership # "accept"
  /\ TryBecomeLeader
  /\ SendOutgoingMsgs(s, T, cluster_messages)
  /\ UNCHANGED <<log, pending, decided_idx, phase, current_decided_idx, database,
                 client_connections, requests, appended, responses, delivered, linkVars>>

\* Mutants: the loop is not left; the clients get an instant of their own; the
\* peers are not told.
StartAgain(s, time) ==
  /\ phase[s] = "establish" /\ s = InitialLeader /\ leadership = "accept"
  /\ Len(responses[<<s, 1>>]) < 2
  /\ SendToCluster(s, Peers(s), LeaderStartSignal(time), cluster_messages)
  /\ Becomes(s, SendClientStartSignals(s, time, HandlerState(s)))
  /\ UNCHANGED <<phase, libVars, requests, appended, delivered, linkVars>>
StartTwoInstants(s, time) ==
  /\ phase[s] = "establish" /\ s = InitialLeader /\ leadership = "accept"
  /\ SendToCluster(s, Peers(s), LeaderStartSignal(time), cluster_messages)
  /\ \E later \in StartTimes : Becomes(s, SendClientStartSignals(s, later, HandlerState(s)))
  /\ phase' = [phase EXCEPT ![s] = "run"]
  /\ UNCHANGED <<libVars, requests, appended, delivered, linkVars>>
StartWithoutPeers(s, time) ==
  /\ phase[s] = "establish" /\ s = InitialLeader /\ leadership = "accept"
  /\ Becomes(s, SendClientStartSignals(s, time, HandlerState(s)))
  /\ phase' = [phase EXCEPT ![s] = "run"]
  /\ UNCHANGED <<libVars, peer_connections, cluster_messages, requests, appended, delivered, linkVars>>

\* The takeover timer fires and it is: everyone is told when to start.
SendStartSignals(s, time) ==
  /\ phase[s] = "establish" /\ s = InitialLeader
  /\ leadership = "accept"
  /\ SendToCluster(s, Peers(s), LeaderStartSignal(time), cluster_messages)
  /\ Becomes(s, SendClientStartSignals(s, time, HandlerState(s)))
  /\ phase' = [phase EXCEPT ![s] = "run"]
  /\ UNCHANGED <<libVars, requests, appended, delivered, linkVars>>
-----------------------------------------------------------------------------
(* Arms both loops have. *)

\* One batch of peer messages, with at most one start signal in it (its sender
\* sends one).  The library's messages before the signal bring the decided
\* index to d1, all of them together to d2; `rest` says whether more of them
\* are still queued.  Decided entries are applied only when one of the
\* library's messages is handled, whatever poll() has decided meanwhile.
HandleClusterMessages(s, batch, rest, d1, d2, lead, T) ==
  LET signals == batch \ {OmniPaxosMessage}
      before  == HandleDecidedEntries(s, d1, HandlerState(s))
      between == IF signals = {} THEN before
                 ELSE SendClientStartSignals(s, (CHOOSE m \in signals : TRUE).time, before)
  IN
  /\ phase[s] \in {"establish", "run"}
  /\ batch # {} /\ batch \subseteq cluster_messages[s]
  /\ Cardinality(signals) <= 1
  /\ rest \subseteq batch \cap {OmniPaxosMessage}
  /\ IF OmniPaxosMessage \in batch
     THEN /\ LearnDecided(s, d2)
          /\ d1 \in {current_decided_idx[s]} \cup decided_idx[s]..d2
          /\ \/ lead = leadership
             \/ s = InitialLeader /\ leadership = "prepare" /\ lead = "accept"
     ELSE /\ d1 = current_decided_idx[s] /\ d2 = current_decided_idx[s]
          /\ lead = leadership
          /\ UNCHANGED decided_idx
  /\ leadership' = lead
  /\ Becomes(s, HandleDecidedEntries(s, d2, between))
  /\ SendOutgoingMsgs(s, T, [cluster_messages EXCEPT ![s] = (@ \ batch) \cup rest])
  /\ phase' = [phase EXCEPT ![s] = IF signals = {} THEN @ ELSE "run"]
  /\ UNCHANGED <<log, pending, requests, appended, delivered, linkVars>>

\* Mutants: the coordinator's place in the list of nodes for its id; ids off by one.
CoordinatorByIndex(c, i) == [client_id |-> ClientId(c), coordinator_id |-> ServerOf(c) - 1,
                             id |-> i - 1, kv_cmd |-> requests[c][i]]

IdsFromOne(c, i) == [client_id |-> ClientId(c), coordinator_id |-> ServerOf(c),
                     id |-> i, kv_cmd |-> requests[c][i]]

\* The command a server builds from the i-th request of a client.
CommandOf(c, i) == [client_id |-> ClientId(c), coordinator_id |-> ServerOf(c),
                    id |-> i - 1, kv_cmd |-> requests[c][i]]

\* Mutant: of every client's share of a batch only the last request is appended.
AppendLastOnly(s, upto, T) ==
  /\ phase[s] \in {"establish", "run"}
  /\ upto # appended
  /\ \A c \in Client : IF ServerOf(c) = s THEN upto[c] \in appended[c]..Len(requests[c])
                                          ELSE upto[c] = appended[c]
  /\ AppendAll({CommandOf(c, upto[c]) : c \in {e \in ClientsOf(s) : upto[e] > appended[e]}})
  /\ appended' = upto
  /\ SendOutgoingMsgs(s, T, cluster_messages)
  /\ UNCHANGED <<log, decided_idx, leadership, phase, current_decided_idx, database,
                 client_connections, requests, responses, delivered, linkVars>>

\* One batch of requests: all those of every client of s up to upto[c].
HandleClientMessages(s, upto, T) ==
  /\ phase[s] \in {"establish", "run"}
  /\ upto # appended
  /\ \A c \in Client : IF ServerOf(c) = s THEN upto[c] \in appended[c]..Len(requests[c])
                                          ELSE upto[c] = appended[c]
  /\ AppendAll(UNION {{CommandOf(c, i) : i \in (appended[c] + 1)..upto[c]} : c \in ClientsOf(s)})
  /\ appended' = upto
  /\ SendOutgoingMsgs(s, T, cluster_messages)
  /\ UNCHANGED <<log, decided_idx, leadership, phase, current_decided_idx, database,
                 client_connections, requests, responses, delivered, linkVars>>
-----------------------------------------------------------------------------
(* Arms only run's loop has. *)

\* Mutant: nothing is sent after a tick.
SilentTick(s, T) ==
  /\ phase[s] = "run"
  /\ UNCHANGED vars

\* election_interval: heartbeats and elections.
Tick(s, T) ==
  /\ phase[s] = "run"
  /\ SendOutgoingMsgs(s, T, cluster_messages)
  /\ UNCHANGED <<libVars, phase, current_decided_idx, database, client_connections,
                 requests, appended, responses, delivered, linkVars>>

\* poll_timeout: the library may find out that more is decided, but
\* handle_decided_entries is not called here.
Poll(s, d, T) ==
  /\ phase[s] = "run"
  /\ LearnDecided(s, d)
  /\ SendOutgoingMsgs(s, T, cluster_messages)
  /\ UNCHANGED <<log, pending, leadership, phase, current_decided_idx, database,
                 client_connections, requests, appended, responses, delivered, linkVars>>
-----------------------------------------------------------------------------
(* The environment. *)

LibraryDecides ==
  /\ \E cmd \in pending : Decide(cmd)
  /\ UNCHANGED <<serverVars, channelVars, linkVars>>

\* A client sends once it has taken its start signal (client.rs run).
ClientSends(c, cmd) ==
  /\ client_link[c] = "up"
  /\ delivered[c] > 0 /\ Len(requests[c]) < MaxRequests[c]
  /\ requests' = [requests EXCEPT ![c] = Append(@, cmd)]
  /\ UNCHANGED <<libVars, serverVars, cluster_messages, appended, responses, delivered, linkVars>>

ClientReceives(c) ==
  /\ client_link[c] = "up" /\ delivered[c] < Len(responses[c])
  /\ delivered' = [delivered EXCEPT ![c] = @ + 1]
  /\ UNCHANGED <<libVars, serverVars, cluster_messages, requests, appended, responses, linkVars>>

\* A client that has all its answers shuts its connection down (client.rs run).
ClientFinishes(c) ==
  /\ client_link[c] = "up" /\ delivered[c] = Len(requests[c]) + 1
  /\ client_link' = [client_link EXCEPT ![c] = "gone"]
  /\ UNCHANGED <<libVars, serverVars, channelVars, peer_link, failures>>

Fail == failures < MaxFailures /\ failures' = failures + 1

ClientLeaves(c) ==
  /\ Fail
  /\ client_link[c] = "up"
  /\ client_link' = [client_link EXCEPT ![c] = "gone"]
  /\ UNCHANGED <<libVars, serverVars, channelVars, peer_link>>

\* The start signals under way to the servers in L are lost.
LoseStartSignals(L) ==
  cluster_messages' = [x \in Servers |-> IF x \in L THEN cluster_messages[x] \cap {OmniPaxosMessage}
                                         ELSE cluster_messages[x]]

\* The connection of s and t breaks.  A message under way may be lost; losing
\* one of the library's is the same as not handling it.
LinkBreaks(s, t, L) ==
  /\ Fail
  /\ s # t /\ peer_link[s][t] \in Intact
  /\ peer_link' = [peer_link EXCEPT ![s][t] = "gone", ![t][s] = "gone"]
  /\ IF s = InitialLeader THEN L \subseteq {t} ELSE L = {}
  /\ LoseStartSignals(L)
  /\ UNCHANGED <<libVars, serverVars, requests, appended, responses, delivered, client_link>>

\* A server stops for good: nothing it keeps survives, and there is no way to
\* reconnect (the listeners are gone).
Crash(s, L) ==
  /\ Fail
  /\ phase[s] # "crashed"
  /\ phase' = [phase EXCEPT ![s] = "crashed"]
  /\ peer_link' = [x \in Servers |-> [y \in Servers |->
                     IF s \in {x, y} /\ peer_link[x][y] \in Intact THEN "gone" ELSE peer_link[x][y]]]
  /\ IF s = InitialLeader THEN L \subseteq Peers(s) ELSE L = {}
  /\ LoseStartSignals(L)
  /\ UNCHANGED <<libVars, current_decided_idx, database, peer_connections,
                 client_connections, requests, appended, responses, delivered, client_link>>

\* A writer task gets an error from its socket and ends.
WriterEnds ==
  /\ \/ \E c \in Client :
          /\ client_link[c] = "gone"
          /\ client_link' = [client_link EXCEPT ![c] = "closed"]
          /\ UNCHANGED peer_link
     \/ \E s, t \in Servers :
          /\ peer_link[s][t] = "gone"
          /\ peer_link' = [peer_link EXCEPT ![s][t] = "closed"]
          /\ UNCHANGED client_link
  /\ UNCHANGED <<libVars, serverVars, channelVars, failures>>
-----------------------------------------------------------------------------
\* How far a batch may reach into the requests of each client of s.
Batches(s) == {upto \in [Client -> UNION {0..MaxRequests[c] : c \in Client}] :
                 \A c \in Client : upto[c] <= Len(requests[c])}

NetworkReturns(s) ==
  \E spoiled, cut \in SUBSET Peers(s), lost \in SUBSET cluster_messages[s] :
    NetworkReady(s, spoiled, cut, lost)

ServerStep(s) ==
  \E T \in SUBSET Peers(s) :
    \/ TakeLeadership(s, T)
    \/ \E batch \in SUBSET cluster_messages[s], rest \in SUBSET {OmniPaxosMessage},
          d1, d2 \in current_decided_idx[s]..Len(log), lead \in {"none", "prepare", "accept"} :
         HandleClusterMessages(s, batch, rest, d1, d2, lead, T)
    \/ \E upto \in Batches(s) : HandleClientMessages(s, upto, T)
    \/ Tick(s, T)
    \/ \E d \in decided_idx[s]..Len(log) : Poll(s, d, T)

ClientStep(c) == ClientReceives(c) \/ ClientFinishes(c) \/ \E cmd \in KVCommand : ClientSends(c, cmd)

LinkFailure ==
  \/ \E s, t \in Servers, L \in SUBSET Servers : LinkBreaks(s, t, L)
  \/ \E s \in Servers, L \in SUBSET Servers : Crash(s, L)
  \/ WriterEnds

Failure == LinkFailure \/ \E c \in Client : ClientLeaves(c)

Next ==
  \/ \E s \in Servers : ServerStep(s) \/ NetworkReturns(s)
  \/ \E s \in Servers, time \in StartTimes : SendStartSignals(s, time)
  \/ \E c \in Client : ClientStep(c)
  \/ LibraryDecides
  \/ Failure

Spec == Init /\ [][Next]_vars

(***************************************************************************)
(* Fairness.  Unless something fails Network::new returns (Connections:    *)
(* EveryServerReady).  Timers fire and the select! loop serves every arm   *)
(* that stays ready: the takeover timer, the election timer, client        *)
(* requests.  A message on a live connection arrives.  Of the library:     *)
(* while replicas keep exchanging messages, a pending command is decided   *)
(* in the end, the prepared leader is promoted, and whoever handles        *)
(* messages again and again learns how far the log is decided (hence       *)
(* strong fairness).                                                       *)
(***************************************************************************)
CatchUp(s) ==
  LET learns == OmniPaxosMessage \in cluster_messages[s]
      d == IF learns THEN Len(log) ELSE current_decided_idx[s]
      promoted == learns /\ s = InitialLeader /\ leadership = "prepare"
  IN HandleClusterMessages(s, cluster_messages[s], {}, current_decided_idx[s], d,
                           IF promoted THEN "accept" ELSE leadership, Peers(s))

Everything(s) == [c \in Client |-> IF ServerOf(c) = s THEN Len(requests[c]) ELSE appended[c]]

Fairness ==
  /\ \A s \in Servers :
       /\ WF_vars(failures = 0 /\ NetworkReturns(s))
       /\ WF_vars(TakeLeadership(s, Peers(s)))
       /\ WF_vars(\E time \in StartTimes : SendStartSignals(s, time))
       /\ SF_vars(CatchUp(s))
       /\ WF_vars(HandleClientMessages(s, Everything(s), Peers(s)))
       /\ WF_vars(Tick(s, Peers(s)))
  /\ WF_vars(LibraryDecides)
  /\ \A c \in Client : WF_vars(ClientReceives(c))

FairSpec == Spec /\ Fairness
=============================================================================
