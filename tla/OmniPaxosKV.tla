---------------------------- MODULE OmniPaxosKV -----------------------------
(***************************************************************************)
(* The whole system: the servers of Server.tla and, in place of the        *)
(* clients that module imagines, the real ones of Client.tla, joined by    *)
(* the streams of requests and responses.                                  *)
(***************************************************************************)
EXTENDS ServerProperties, Client

\* The n-th request of a client is about key and value n - 1.
ASSUME RequestsAssumption == \A c \in Client : 0..(MaxRequests[c] - 1) \subseteq Key \cap Value

systemVars == <<vars, clientVars>>

SystemInit == Init /\ ClientInit

ServerSide ==
  /\ \/ \E s \in Servers : ServerStep(s) \/ NetworkReturns(s)
     \/ \E s \in Servers, time \in StartTimes : SendStartSignals(s, time)
     \/ LibraryDecides
     \/ LinkFailure
  /\ UNCHANGED clientVars

ClientSide ==
  /\ \E c \in Client : ClientRuns(c)
  /\ UNCHANGED <<libVars, serverVars, cluster_messages, appended, responses, peer_link, failures>>

ClientCrashes(c) ==
  /\ ClientLeaves(c)
  /\ client_state' = [client_state EXCEPT ![c] = "crashed"]
  /\ UNCHANGED <<server_connection, request_data, response_count, final_request_count,
                 intervals_left>>

ClientLosesServer(c) ==
  /\ phase[ServerOf(c)] = "crashed"
  /\ ServerConnectionCloses(c)
  /\ UNCHANGED <<libVars, serverVars, cluster_messages, appended, responses, peer_link, failures>>

SystemNext ==
  \/ ServerSide
  \/ ClientSide
  \/ \E c \in Client : ClientCrashes(c) \/ ClientLosesServer(c)

SystemSpec == SystemInit /\ [][SystemNext]_systemVars

\* The servers' fairness, and the client's loop: it takes what has arrived, and
\* its interval timer fires.
ClientFairness(c) ==
  /\ WF_systemVars(TakeStartSignal(c) /\ ClientSide)
  /\ WF_systemVars(HandleServerMessage(c) /\ ClientSide)
  /\ WF_systemVars(NextInterval(c) /\ ClientSide)
FairSystemSpec == SystemSpec /\ Fairness /\ \A c \in Client : ClientFairness(c)
-----------------------------------------------------------------------------
\* A client ends its run only when every request it made has been answered:
\* counting answers (run_finished) is as good as matching them.
FinishedMeansAnswered ==
  \A c \in Client :
    client_state[c] \in {"finished", "closed"} =>
      \A i \in 1..Len(request_data[c]) : request_data[c][i]

\* What a client ends its run with stays: each of its requests is an entry of
\* the log, and among what it was told is the answer the log calls for there.
FinishedMeansDecided ==
  \A c \in Client :
    client_state[c] \in {"finished", "closed"} =>
      \A i \in 1..Len(request_data[c]) : \E n \in 1..Len(log) :
        /\ log[n] = CommandOf(c, i)
        /\ \E j \in 2..delivered[c] : responses[c][j] = AnswerAt(log, n)

\* Neither the wait for the start signal nor the indexing of request_data by
\* the id of an answer ever panics, whatever fails.
ClientNeverPanics == \A c \in Client : client_state[c] # "panicked"

\* The real clients do nothing the servers' specification does not foresee.
ClientsAreForeseen == Spec

\* When nothing fails every client hears the start signal, gets its answers and
\* ends its run, although nobody but the election timer keeps messages going.
EveryClientFinishes == \A c \in Client : <>(client_state[c] = "finished")
=============================================================================
