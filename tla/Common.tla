------------------------------- MODULE Common -------------------------------
(***************************************************************************)
(* The vocabulary shared by servers and clients: src/src/common.rs.        *)
(*                                                                         *)
(* A client process is named by the pair <<server, id>>: the server it is  *)
(* connected to and the number that server gave it.  Client ids are        *)
(* handed out per server, so the number alone does not name a client.      *)
(***************************************************************************)
EXTENDS Naturals

CONSTANTS
  Servers,      \* node ids of the cluster; their order decides who dials whom
  NumClients,   \* num_clients of every server's local configuration
  Key,          \* keys of the store
  Value,        \* values of the store
  NoValue,      \* the `None` of Option<String>
  StartTimes    \* instants a leader may schedule as the start

ASSUME ServersAssumption == Servers \subseteq Nat
ASSUME NoValueAssumption == NoValue \notin Value
ASSUME NumClientsAssumption == NumClients \in [Servers -> Nat]

ClientIds(s) == 1..NumClients[s]
Client == UNION {{s} \X ClientIds(s) : s \in Servers}
ServerOf(c) == c[1]
ClientId(c) == c[2]

Put(k, v) == [op |-> "put", key |-> k, value |-> v]
Get(k)    == [op |-> "get", key |-> k]

KVCommand == [op : {"put"}, key : Key, value : Value]
             \cup [op : {"delete", "get"}, key : Key]

\* common.rs::kv::Command, the entry type of the replicated log.
Command == [client_id : Nat, coordinator_id : Servers, id : Nat,
            kv_cmd : KVCommand]
IssuedBy(cmd) == <<cmd.coordinator_id, cmd.client_id>>

\* common.rs::messages::ServerMessage.
Write(id)         == [type |-> "Write", id |-> id]
Read(id, v)       == [type |-> "Read", id |-> id, value |-> v]
StartSignal(time) == [type |-> "StartSignal", time |-> time]
Response == [type : {"Write"}, id : Nat]
            \cup [type : {"Read"}, id : Nat, value : Value \cup {NoValue}]
ServerMessage == Response \cup [type : {"StartSignal"}, time : StartTimes]

\* common.rs::messages::ClusterMessage.  What the replication library puts in
\* its messages is its own business: one token stands for all of them.
OmniPaxosMessage == [type |-> "OmniPaxosMessage"]
LeaderStartSignal(time) == [type |-> "LeaderStartSignal", time |-> time]
ClusterMessage ==
  {OmniPaxosMessage} \cup [type : {"LeaderStartSignal"}, time : StartTimes]
=============================================================================
