-------------------------- MODULE ServerProperties --------------------------
(***************************************************************************)
(* What the cluster of Server.tla owes its clients and its replicas.       *)
(***************************************************************************)
EXTENDS Server, Selection, SequencesExt

\* The answers among the messages of a stream.
AnswersIn(stream) == Picked(stream, {i \in 1..Len(stream) : stream[i].type # "StartSignal"})
Answers(c) == AnswersIn(responses[c])

\* The answers the first n entries of the log call for at client c.
AnswersDue(c, n) ==
  Picked([i \in 1..n |-> AnswerAt(log, i)], {i \in 1..n : IssuedBy(log[i]) = c})

StartSignals(c) == {i \in 1..Len(responses[c]) : responses[c][i].type = "StartSignal"}

\* The map of every replica holds, for every key, what the prefix of the log it
\* counts as applied leaves there: no batch of decided entries is applied twice,
\* skipped or split (handle_decided_entries, update_database_and_respond).
ReplicaMatchesLog ==
  \A s \in Servers : /\ current_decided_idx[s] <= decided_idx[s]
                     /\ \A k \in Key : LeavesValue(log, current_decided_idx[s], k, database[s][k])

\* A client gets, in log order, exactly one answer for each of its commands its
\* server has applied, with the value the log gives at that position, and no
\* other client's answers, although client ids repeat from server to server.
\* Once the server has dropped the connection the rest is missing.
AnswersFollowLog ==
  \A c \in Client :
    LET due == AnswersDue(c, current_decided_idx[ServerOf(c)]) IN
    IF ClientId(c) \in client_connections[ServerOf(c)]
    THEN Answers(c) = due
    ELSE IsPrefix(Answers(c), due)

\* Every request a server has taken from a client is in the log once or waits
\* for it, as the command of that client; nothing else is.
RequestsAccountedFor ==
  /\ pending \cup ToSet(log) =
       UNION {{CommandOf(c, i) : i \in 1..appended[c]} : c \in Client}
  /\ pending \cap ToSet(log) = {}
  /\ IsInjective(log)

\* A client hears the start signal first and once, and not before the initial
\* leader is promoted ("Ensures cluster is connected and initial leader is
\* promoted before returning", server.rs:144).  It hears it unless it is gone, as
\* soon as its server leaves the establish loop.
StartedOnce ==
  \A c \in Client :
    /\ responses[c] # <<>> => StartSignals(c) = {1} /\ leadership = "accept"
    /\ phase[ServerOf(c)] = "run" /\ responses[c] = <<>> => client_link[c] # "up"

\* "it chooses a synchronization point which the followers relay to their
\* clients" (server.rs:145-146): one instant, the same for all clients.
SameStart ==
  \A c, e \in Client : \A i \in StartSignals(c), j \in StartSignals(e) :
    responses[c][i] = responses[e][j]

\* A server that waits for a start signal, or will wait, which is no longer coming:
\* the initial leader sends it once (server.rs:157-162).
Waiting(s) == phase[s] \in {"starting", "establish"}
Stranded(s) ==
  Waiting(s) /\ ~ Waiting(InitialLeader) /\ cluster_messages[s] \subseteq {OmniPaxosMessage}

\* There are two reasons to be stranded, and no third: the connection to the
\* initial leader broke; or it is the initial leader that dialled, and what it
\* sent at first went with the buffer of the handshake (network.rs:165).
StrandedOnlyByLoss ==
  \A s \in Servers : Stranded(s) =>
    \/ peer_link[InitialLeader][s] \in {"gone", "closed"}
    \/ /\ s < InitialLeader /\ phase[s] = "establish"
       /\ peer_link[InitialLeader][s] \in {"spoiled", "cut"}

\* "it chooses a synchronization point which the followers relay to their
\* clients to begin the experiment" (server.rs:145-146): every follower hears of
\* it as long as nothing fails.  Not so: see StrandedOnlyByLoss.
FollowersRelayStart == failures = 0 => \A s \in Servers : ~ Stranded(s)

\* A server stops sending to a peer or a client only after the connection to it
\* was closed, and never takes a connection back.
ConnectionsOnlyLostWhenClosed ==
  [][\A s \in Servers :
       /\ peer_connections'[s] \subseteq peer_connections[s]
       /\ \A t \in peer_connections[s] \ peer_connections'[s] : peer_link[s][t] = "closed"
       /\ \A id \in client_connections[s] \ client_connections'[s] :
            client_link[<<s, id>>] = "closed"]_vars
-----------------------------------------------------------------------------
(* Liveness, when nothing fails; that of the clients is in OmniPaxosKV. *)

\* Again and again every replica has applied whatever is decided, although
\* entries the library decides in poll() are applied only when the next peer
\* message comes in.
EveryReplicaCatchesUp ==
  \A s \in Servers : []<>(current_decided_idx[s] = Len(log))
-----------------------------------------------------------------------------
(***************************************************************************)
(* The cluster implements the one-map service: an operation takes effect   *)
(* when its command enters the log.                                        *)
(***************************************************************************)
Service == INSTANCE KVService WITH
  store    <- [k \in Key |-> ValueAfter(log, Len(log), k)],
  called   <- UNION {{[client |-> c, id |-> i - 1, cmd |-> requests[c][i]]
                       : i \in 1..Len(requests[c])} : c \in Client},
  outcomes <- {[client |-> IssuedBy(log[n]), answer |-> AnswerAt(log, n)] : n \in 1..Len(log)},
  returned <- UNION {{[client |-> c, answer |-> Answers(c)[i]]
                       : i \in 1..Len(Answers(c))} : c \in Client}

\* Requests are linearizable, reads included: whatever server answers them,
\* they read and write one map, in an order that respects real time.
Linearizable == Service!KVSpec
=============================================================================
