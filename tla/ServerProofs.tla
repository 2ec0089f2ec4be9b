---------------------------- MODULE ServerProofs ----------------------------
(***************************************************************************)
(* Proofs about the cluster, for any number of servers, clients, keys,     *)
(* requests and failures: its types, that every replica's map is what the  *)
(* log says, that the log says what clients have asked for, how clients    *)
(* are told to start, and how servers let go of connections.               *)
(***************************************************************************)
EXTENDS ServerProperties, SelectionProofs

(* The database and the meaning of the log. *)

LEMMA UpdatedTyped ==
  ASSUME NEW db \in Db, NEW cmd \in KVCommand
  PROVE  Updated(db, cmd) \in Db
BY DEF Updated, Db, KVCommand

LEMMA AnswerTyped ==
  ASSUME NEW db \in Db, NEW cmd \in KVCommand, NEW id \in Nat
  PROVE  Answer(db, id, cmd) \in ServerMessage
BY DEF Answer, Read, Write, Db, KVCommand, ServerMessage, Response

\* Handling the next entry takes a map that means n entries to one that means
\* n + 1.
LEMMA UpdatedLeaves ==
  ASSUME NEW l \in Seq(Command), NEW n \in Nat, n < Len(l), NEW db \in Db,
         NEW k \in Key, LeavesValue(l, n, k, db[k])
  PROVE  LeavesValue(l, n + 1, k, Updated(db, l[n + 1].kv_cmd)[k])
<1> DEFINE cmd == l[n + 1].kv_cmd
<1>1. l[n + 1] \in Command
  OBVIOUS
<1>2. cmd \in KVCommand
  BY <1>1 DEF Command
<1>3. CASE Writes(l[n + 1], k)
  <2>1. Updated(db, cmd)[k] = Leaves(l[n + 1])
    BY <1>2, <1>3 DEF Writes, Leaves, Updated, Db, KVCommand
  <2>2. n + 1 \in 1..(n + 1) /\ ((n + 1) + 1)..(n + 1) = {}
    OBVIOUS
  <2> QED BY <1>3, <2>1, <2>2 DEF LeavesValue
<1>4. CASE ~ Writes(l[n + 1], k)
  <2>1. Updated(db, cmd)[k] = db[k]
    BY <1>2, <1>4 DEF Writes, Updated, Db, KVCommand
  <2> QED BY <1>4, <2>1 DEF LeavesValue
<1> QED BY <1>3, <1>4

\* The meaning of a prefix does not depend on what follows it.
LEMMA LeavesPrefix ==
  ASSUME NEW l, NEW m, NEW n \in Nat, NEW k, NEW v,
         \A i \in 1..n : m[i] = l[i], LeavesValue(l, n, k, v)
  PROVE  LeavesValue(m, n, k, v)
<1>1. CASE v = NoValue /\ \A i \in 1..n : ~ Writes(l[i], k)
  BY <1>1 DEF LeavesValue
<1>2. CASE \E i \in 1..n : /\ Writes(l[i], k)
                           /\ v = Leaves(l[i])
                           /\ \A j \in (i + 1)..n : ~ Writes(l[j], k)
  <2>1. PICK i \in 1..n : /\ Writes(l[i], k)
                          /\ v = Leaves(l[i])
                          /\ \A j \in (i + 1)..n : ~ Writes(l[j], k)
    BY <1>2
  <2>2. Writes(m[i], k) /\ v = Leaves(m[i])
    BY <2>1
  <2>3. \A j \in (i + 1)..n : ~ Writes(m[j], k)
    BY <2>1
  <2> QED BY <2>2, <2>3 DEF LeavesValue
<1> QED BY <1>1, <1>2 DEF LeavesValue
-----------------------------------------------------------------------------
(***************************************************************************)
(* What a handler threads through its loop.  Applied(st, n): st is well    *)
(* formed, counts n entries as applied, and its map is the meaning of the  *)
(* first m.  The two numbers differ only while entries are being applied.  *)
(***************************************************************************)
HandlerStates == [idx : Nat, db : Db, conns : SUBSET Nat, out : [Client -> Seq(ServerMessage)]]

Applied(st, n, m) ==
  /\ st \in HandlerStates
  /\ st.idx = n
  /\ \A k \in Key : LeavesValue(log, m, k, st.db[k])

LEMMA SendToClientTyped ==
  ASSUME NEW s, NEW id, NEW msg \in ServerMessage, NEW st \in HandlerStates
  PROVE  /\ SendToClient(s, id, msg, st) \in HandlerStates
         /\ SendToClient(s, id, msg, st).idx = st.idx
         /\ SendToClient(s, id, msg, st).db = st.db
<1>1. CASE id \notin st.conns
  BY <1>1 DEF SendToClient
<1>2. CASE id \in st.conns /\ client_link[<<s, id>>] = "closed"
  BY <1>2 DEF SendToClient, HandlerStates
<1>3. CASE id \in st.conns /\ client_link[<<s, id>>] # "closed"
  <2> DEFINE sent == [st.out EXCEPT ![<<s, id>>] = Append(st.out[<<s, id>>], msg)]
  <2>1. sent \in [Client -> Seq(ServerMessage)]
    BY AppendProperties DEF HandlerStates
  <2> HIDE DEF sent
  <2>2. SendToClient(s, id, msg, st) = [st EXCEPT !.out = sent]
    BY <1>3 DEF SendToClient, sent
  <2> QED BY <2>1, <2>2 DEF HandlerStates
<1> QED BY <1>1, <1>2, <1>3

LEMMA StartSignalsTyped ==
  ASSUME NEW s \in Servers, NEW time \in StartTimes, NEW st \in HandlerStates
  PROVE  /\ SendClientStartSignals(s, time, st) \in HandlerStates
         /\ SendClientStartSignals(s, time, st).idx = st.idx
         /\ SendClientStartSignals(s, time, st).db = st.db
<1> DEFINE kept == {id \in st.conns : ~ (id \in ClientIds(s) /\ client_link[<<s, id>>] = "closed")}
           out == [c \in Client |->
                     IF /\ c \in ClientsOf(s)
                        /\ ClientId(c) \in st.conns
                        /\ client_link[c] # "closed"
                     THEN Append(st.out[c], StartSignal(time)) ELSE st.out[c]]
<1>1. StartSignal(time) \in ServerMessage
  BY DEF StartSignal, ServerMessage
<1>2. \A c \in Client : Append(st.out[c], StartSignal(time)) \in Seq(ServerMessage)
  BY <1>1, AppendProperties DEF HandlerStates
<1>3. out \in [Client -> Seq(ServerMessage)]
  BY <1>2 DEF HandlerStates
<1>4. kept \in SUBSET Nat
  BY DEF HandlerStates
<1> HIDE DEF out, kept
<1>5. SendClientStartSignals(s, time, st) = [st EXCEPT !.conns = kept, !.out = out]
  BY DEF SendClientStartSignals, out, kept
<1> QED BY <1>3, <1>4, <1>5 DEF HandlerStates

\* One pass of the loop in update_database_and_respond.
LEMMA ApplyOne ==
  ASSUME NEW s, NEW st, NEW n \in Nat, NEW m \in Nat,
         log \in Seq(Command), m < Len(log), Applied(st, n, m)
  PROVE  Applied(ApplyAndRespond(s, st, log[m + 1]), n, m + 1)
<1> DEFINE cmd == log[m + 1]
           next == [st EXCEPT !.db = Updated(st.db, cmd.kv_cmd)]
<1>1. cmd \in Command
  OBVIOUS
<1>2. cmd.kv_cmd \in KVCommand /\ cmd.id \in Nat
  BY <1>1 DEF Command
<1>3. st \in HandlerStates /\ st.db \in Db
  BY DEF Applied, HandlerStates
<1>4. Updated(st.db, cmd.kv_cmd) \in Db
  BY <1>2, <1>3, UpdatedTyped
<1>5. /\ next \in HandlerStates /\ next.idx = n
      /\ next.db = Updated(st.db, cmd.kv_cmd)
  BY <1>3, <1>4 DEF Applied, HandlerStates
<1>6. \A k \in Key : LeavesValue(log, m + 1, k, Updated(st.db, cmd.kv_cmd)[k])
  BY <1>3, UpdatedLeaves DEF Applied
<1>7. Answer(st.db, cmd.id, cmd.kv_cmd) \in ServerMessage
  BY <1>2, <1>3, AnswerTyped
<1> DEFINE told == SendToClient(s, cmd.client_id, Answer(st.db, cmd.id, cmd.kv_cmd), next)
<1>8. told \in HandlerStates /\ told.idx = n /\ told.db = next.db
  <2> HIDE DEF next, cmd
  <2> QED BY <1>5, <1>7, SendToClientTyped
<1>9. ApplyAndRespond(s, st, cmd) \in {told, next}
  BY DEF ApplyAndRespond
<1> HIDE DEF told, next, cmd
<1> QED BY <1>5, <1>6, <1>8, <1>9 DEF Applied, cmd

\* The recursive function that stands for the whole loop exists: it is a
\* sequence of handler states, each a pass of the loop away from the last.
Passes(s, start, commands, after) ==
  /\ UpdateDatabaseAndRespond(s, start, commands) = after[Len(commands)]
  /\ after[0] = start
  /\ \A m \in Nat : m + 1 <= Len(commands) =>
       after[m + 1] = ApplyAndRespond(s, after[m], commands[m + 1])

LEMMA LoopUnfolds ==
  ASSUME NEW s, NEW start, NEW commands, Len(commands) \in Nat
  PROVE  \E after : Passes(s, start, commands, after)
<1> DEFINE Step(f, i) == IF i = 0 THEN start ELSE ApplyAndRespond(s, f[i - 1], commands[i])
           Exists == {m \in Nat : \E h : h = [i \in 0..m |-> Step(h, i)]}
<1>1. 0 \in Exists
  <2> DEFINE f == [i \in 0..0 |-> start]
  <2>1. f = [i \in 0..0 |-> Step(f, i)]
    OBVIOUS
  <2> QED BY <2>1
<1>2. ASSUME NEW m \in Exists PROVE m + 1 \in Exists
  <2>1. PICK f : f = [i \in 0..m |-> Step(f, i)]
    OBVIOUS
  <2> DEFINE g == [i \in 0..(m + 1) |-> IF i <= m THEN f[i] ELSE ApplyAndRespond(s, f[m], commands[m + 1])]
  <2>2. ASSUME NEW i \in 0..(m + 1) PROVE g[i] = Step(g, i)
    <3>1. CASE i = 0
      BY <2>1, <3>1
    <3>2. CASE i # 0 /\ i <= m
      <4>1. g[i] = f[i] /\ g[i - 1] = f[i - 1]
        BY <3>2
      <4>2. f[i] = Step(f, i)
        BY <2>1, <3>2
      <4> QED BY <3>2, <4>1, <4>2
    <3>3. CASE i = m + 1
      BY <3>3
    <3> QED BY <3>1, <3>2, <3>3
  <2>3. g = [i \in 0..(m + 1) |-> Step(g, i)]
    BY <2>2
  <2> HIDE DEF g
  <2>4. \E h : h = [i \in 0..(m + 1) |-> Step(h, i)]
    BY <2>3
  <2>5. m + 1 \in Nat
    OBVIOUS
  <2> QED BY <2>4, <2>5
<1>3. Exists = Nat
  BY <1>1, <1>2, SetInduction
<1> DEFINE after == CHOOSE f : f = [i \in 0..Len(commands) |-> Step(f, i)]
<1>4. after = [i \in 0..Len(commands) |-> Step(after, i)]
  <2>1. \E f : f = [i \in 0..Len(commands) |-> Step(f, i)]
    BY <1>3
  <2> QED BY <2>1
<1>5. UpdateDatabaseAndRespond(s, start, commands) = after[Len(commands)]
  BY DEF UpdateDatabaseAndRespond
<1> HIDE DEF after
<1>6. after[0] = start
  BY <1>4
<1>7. \A m \in Nat : m + 1 <= Len(commands) =>
        after[m + 1] = ApplyAndRespond(s, after[m], commands[m + 1])
  BY <1>4
<1>8. Passes(s, start, commands, after)
  BY <1>5, <1>6, <1>7 DEF Passes
<1> QED BY <1>8

\* Every pass adds one entry to what the map means.
LEMMA ApplyAll ==
  ASSUME NEW s, NEW start, NEW n \in Nat, NEW from \in Nat, NEW commands,
         log \in Seq(Command), Applied(start, n, from),
         Len(commands) \in Nat, from + Len(commands) <= Len(log),
         \A i \in 1..Len(commands) : commands[i] = log[from + i]
  PROVE  Applied(UpdateDatabaseAndRespond(s, start, commands), n, from + Len(commands))
<1>1. PICK after : Passes(s, start, commands, after)
  BY LoopUnfolds
<1> DEFINE Good == {m \in Nat : m <= Len(commands) => Applied(after[m], n, from + m)}
<1>2. 0 \in Good
  BY <1>1 DEF Passes
<1>3. ASSUME NEW m \in Good PROVE m + 1 \in Good
  <2> SUFFICES ASSUME m + 1 <= Len(commands) PROVE Applied(after[m + 1], n, from + (m + 1))
    OBVIOUS
  <2>1. Applied(after[m], n, from + m)
    OBVIOUS
  <2>2. after[m + 1] = ApplyAndRespond(s, after[m], commands[m + 1])
    BY <1>1 DEF Passes
  <2>3. commands[m + 1] = log[(from + m) + 1] /\ from + m < Len(log) /\ from + m \in Nat
    OBVIOUS
  <2>4. Applied(ApplyAndRespond(s, after[m], log[(from + m) + 1]), n, (from + m) + 1)
    BY <2>1, <2>3, ApplyOne
  <2>5. (from + m) + 1 = from + (m + 1)
    OBVIOUS
  <2> QED BY <2>2, <2>3, <2>4, <2>5
<1>4. Good = Nat
  BY <1>2, <1>3, SetInduction
<1>5. Applied(after[Len(commands)], n, from + Len(commands))
  BY <1>4
<1> HIDE DEF Good
<1> QED BY <1>1, <1>5 DEF Passes

\* handle_decided_entries: never applies an entry twice, skips none.
LEMMA HandleDecidedApplies ==
  ASSUME NEW s, NEW st, NEW n \in Nat, NEW d \in Nat,
         log \in Seq(Command), d <= Len(log), Applied(st, n, n)
  PROVE  \E i \in {n, d} : i >= n /\ Applied(HandleDecidedEntries(s, d, st), i, i)
<1>1. CASE ~ (st.idx < d)
  BY <1>1 DEF HandleDecidedEntries
<1>2. CASE st.idx < d
  <2> DEFINE start == [st EXCEPT !.idx = d]
             commands == SubSeq(log, n + 1, d)
  <2>1. st.idx = n /\ n < d
    BY <1>2 DEF Applied
  <2>2. Applied(start, d, n)
    BY DEF Applied, HandlerStates
  <2>3. \A i \in (n + 1)..d : log[i] \in Command
    OBVIOUS
  <2>4. Len(commands) = d - n /\ \A i \in 1..(d - n) : commands[i] = log[n + i]
    <3>1. /\ Len(commands) = IF n + 1 <= d THEN d - (n + 1) + 1 ELSE 0
          /\ \A i \in 1..(d - (n + 1) + 1) : commands[i] = log[(n + 1) + i - 1]
      BY <2>3, SubSeqProperties
    <3> QED BY <2>1, <3>1
  <2> HIDE DEF start, commands
  <2>5. Applied(UpdateDatabaseAndRespond(s, start, commands), d, n + Len(commands))
    BY <2>1, <2>2, <2>4, ApplyAll
  <2>6. HandleDecidedEntries(s, d, st) = UpdateDatabaseAndRespond(s, start, commands)
    BY <1>2, <2>1 DEF HandleDecidedEntries, ReadDecidedSuffix, start, commands
  <2>7. n + Len(commands) = d
    BY <2>1, <2>4
  <2> QED BY <2>1, <2>5, <2>6, <2>7
<1> QED BY <1>1, <1>2
-----------------------------------------------------------------------------
(***************************************************************************)
(* The inductive invariant.  That a replica's map is the meaning of what   *)
(* it counts as applied is inductive only together with: it counts no more *)
(* than it knows decided, and that is no more than there is.               *)
(***************************************************************************)
IInv ==
  /\ TypeOK
  /\ \A s \in Servers : decided_idx[s] <= Len(log)
  /\ ReplicaMatchesLog

LEMMA InitIInv == Init => IInv
<1> SUFFICES ASSUME Init PROVE IInv
  OBVIOUS
<1>1. LibTypeOK /\ StreamsTypeOK
  BY DEF Init, LibInit, LibTypeOK, StreamsInit, StreamsTypeOK, LinkState
<1>2. EmptyDb \in Db
  BY DEF EmptyDb, Db
<1>3. \A s \in Servers : ClientIds(s) \in SUBSET Nat
  BY NumClientsAssumption DEF ClientIds
<1>4. TypeOK
  BY <1>1, <1>2, <1>3 DEF Init, TypeOK, Peers, LinkState, PeerLinkState, Intact
<1>5. \A s \in Servers : decided_idx[s] = 0 /\ current_decided_idx[s] = 0 /\ Len(log) = 0
  BY DEF Init, LibInit
<1>6. \A s \in Servers, k \in Key : database[s][k] = NoValue
  BY DEF Init, EmptyDb
<1>7. ReplicaMatchesLog
  <2> SUFFICES ASSUME NEW s \in Servers
               PROVE  /\ current_decided_idx[s] <= decided_idx[s]
                      /\ \A k \in Key : LeavesValue(log, current_decided_idx[s], k, database[s][k])
    BY DEF ReplicaMatchesLog
  <2>1. \A k \in Key : LeavesValue(log, 0, k, NoValue)
    BY DEF LeavesValue
  <2>2. current_decided_idx[s] <= decided_idx[s]
    BY <1>5
  <2> QED BY <1>5, <1>6, <2>1, <2>2
<1> QED BY <1>4, <1>5, <1>7 DEF IInv

LEMMA HandlerStateApplied ==
  ASSUME IInv, NEW s \in Servers
  PROVE  Applied(HandlerState(s), current_decided_idx[s], current_decided_idx[s])
BY DEF IInv, TypeOK, StreamsTypeOK, ReplicaMatchesLog, Applied, HandlerState, HandlerStates

\* Sending to peers leaves their slots and queues what they are.
LEMMA SendToClusterTyped ==
  ASSUME NEW s \in Servers, NEW T \in SUBSET Servers, NEW m \in ClusterMessage,
         NEW inbox \in [Servers -> SUBSET ClusterMessage],
         peer_connections \in [Servers -> SUBSET Servers], SendToCluster(s, T, m, inbox)
  PROVE  /\ peer_connections' \in [Servers -> SUBSET Servers]
         /\ cluster_messages' \in [Servers -> SUBSET ClusterMessage]
BY DEF SendToCluster

LEMMA SendOutgoingTyped ==
  ASSUME NEW s \in Servers, NEW T \in SUBSET Servers,
         NEW inbox \in [Servers -> SUBSET ClusterMessage],
         peer_connections \in [Servers -> SUBSET Servers], SendOutgoingMsgs(s, T, inbox)
  PROVE  /\ peer_connections' \in [Servers -> SUBSET Servers]
         /\ cluster_messages' \in [Servers -> SUBSET ClusterMessage]
<1>1. OmniPaxosMessage \in ClusterMessage
  BY DEF ClusterMessage
<1> QED BY <1>1, SendToClusterTyped DEF SendOutgoingMsgs

\* A handler that ends in a well formed record leaves the invariant's part of
\* the state as it should be.
LEMMA BecomesApplied ==
  ASSUME IInv, NEW s \in Servers, NEW st, NEW n \in Nat,
         Applied(st, n, n), Becomes(s, st), log' = log
  PROVE  /\ current_decided_idx' \in [Servers -> Nat]
         /\ database' \in [Servers -> Db]
         /\ client_connections' \in [Servers -> SUBSET Nat]
         /\ responses' \in [Client -> Seq(ServerMessage)]
         /\ current_decided_idx'[s] = n
         /\ \A t \in Servers \ {s} : current_decided_idx'[t] = current_decided_idx[t]
         /\ \A t \in Servers : \A k \in Key :
              LeavesValue(log', current_decided_idx'[t], k, database'[t][k])
<1>1. st.idx = n /\ st.db \in Db /\ st.conns \in SUBSET Nat /\ st.out \in [Client -> Seq(ServerMessage)]
  BY DEF Applied, HandlerStates
<1>2. /\ current_decided_idx' = [current_decided_idx EXCEPT ![s] = n]
      /\ database' = [database EXCEPT ![s] = st.db]
      /\ client_connections' = [client_connections EXCEPT ![s] = st.conns]
      /\ responses' = st.out
  BY <1>1 DEF Becomes
<1>3. /\ current_decided_idx \in [Servers -> Nat] /\ database \in [Servers -> Db]
      /\ client_connections \in [Servers -> SUBSET Nat]
  BY DEF IInv, TypeOK
<1>4. \A k \in Key : LeavesValue(log, n, k, st.db[k])
  BY DEF Applied
<1>5. \A t \in Servers : \A k \in Key : LeavesValue(log, current_decided_idx[t], k, database[t][k])
  BY DEF IInv, ReplicaMatchesLog
<1>6. ASSUME NEW t \in Servers, NEW k \in Key
      PROVE  LeavesValue(log, current_decided_idx'[t], k, database'[t][k])
  <2>1. CASE t = s
    BY <1>2, <1>3, <1>4, <2>1
  <2>2. CASE t # s
    <3>1. current_decided_idx'[t] = current_decided_idx[t] /\ database'[t] = database[t]
      BY <1>2, <1>3, <2>2
    <3> QED BY <1>5, <3>1
  <2> QED BY <2>1, <2>2
<1> QED BY <1>1, <1>2, <1>3, <1>6
-----------------------------------------------------------------------------
(* One lemma per action that changes what the invariant speaks of. *)

LEMMA StepSendStartSignals ==
  ASSUME IInv, NEW s \in Servers, NEW time \in StartTimes, SendStartSignals(s, time)
  PROVE  IInv'
<1> DEFINE st == SendClientStartSignals(s, time, HandlerState(s))
           n == current_decided_idx[s]
<1>1. Applied(HandlerState(s), n, n) /\ n \in Nat
  BY HandlerStateApplied DEF IInv, TypeOK
<1>2. Applied(st, n, n)
  BY <1>1, StartSignalsTyped DEF Applied
<1>3. Becomes(s, st) /\ UNCHANGED <<libVars, requests, appended, delivered, linkVars>>
  BY DEF SendStartSignals
<1>4. log' = log /\ decided_idx' = decided_idx /\ LibTypeOK'
  BY <1>3 DEF libVars, LibTypeOK, IInv, TypeOK
<1> HIDE DEF st
<1>5. /\ current_decided_idx' \in [Servers -> Nat]
      /\ database' \in [Servers -> Db]
      /\ client_connections' \in [Servers -> SUBSET Nat]
      /\ responses' \in [Client -> Seq(ServerMessage)]
      /\ current_decided_idx'[s] = n
      /\ \A t \in Servers \ {s} : current_decided_idx'[t] = current_decided_idx[t]
      /\ \A t \in Servers : \A k \in Key :
           LeavesValue(log', current_decided_idx'[t], k, database'[t][k])
  BY <1>1, <1>2, <1>3, <1>4, BecomesApplied
<1>6. LeaderStartSignal(time) \in ClusterMessage /\ Peers(s) \in SUBSET Servers
  BY DEF ClusterMessage, LeaderStartSignal, Peers
<1>7. /\ peer_connections' \in [Servers -> SUBSET Servers]
      /\ cluster_messages' \in [Servers -> SUBSET ClusterMessage]
  BY <1>6, SendToClusterTyped DEF SendStartSignals, IInv, TypeOK
<1>8. phase' \in [Servers -> {"starting", "establish", "run", "crashed"}]
  BY DEF SendStartSignals, IInv, TypeOK
<1>9. StreamsTypeOK' /\ peer_link' \in [Servers -> [Servers -> PeerLinkState]] /\ failures' \in Nat
  BY <1>3, <1>5 DEF linkVars, StreamsTypeOK, IInv, TypeOK
<1>10. TypeOK'
  BY <1>4, <1>5, <1>7, <1>8, <1>9 DEF TypeOK
<1>11. \A t \in Servers : current_decided_idx'[t] <= decided_idx'[t]
  BY <1>4, <1>5 DEF IInv, ReplicaMatchesLog
<1> QED BY <1>4, <1>5, <1>10, <1>11 DEF IInv, ReplicaMatchesLog

LEMMA StepHandleClusterMessages ==
  ASSUME IInv, NEW s \in Servers, NEW batch, NEW rest, NEW d1, NEW d2,
         NEW lead \in {"none", "prepare", "accept"}, NEW T \in SUBSET Peers(s),
         HandleClusterMessages(s, batch, rest, d1, d2, lead, T)
  PROVE  IInv'
<1> DEFINE signals == batch \ {OmniPaxosMessage}
           n == current_decided_idx[s]
           before == HandleDecidedEntries(s, d1, HandlerState(s))
           time == (CHOOSE m \in signals : TRUE).time
           between == IF signals = {} THEN before ELSE SendClientStartSignals(s, time, before)
           final == HandleDecidedEntries(s, d2, between)
           inbox == [cluster_messages EXCEPT ![s] = (@ \ batch) \cup rest]
<1>1. /\ batch \subseteq cluster_messages[s] /\ rest \subseteq batch \cap {OmniPaxosMessage}
      /\ leadership' = lead /\ Becomes(s, final) /\ SendOutgoingMsgs(s, T, inbox)
      /\ phase' = [phase EXCEPT ![s] = IF signals = {} THEN @ ELSE "run"]
      /\ UNCHANGED <<log, pending, requests, appended, delivered, linkVars>>
  BY DEF HandleClusterMessages
<1>2. /\ log \in Seq(Command) /\ decided_idx \in [Servers -> Nat] /\ n \in Nat
      /\ n <= decided_idx[s] /\ decided_idx[s] <= Len(log) /\ Len(log) \in Nat
  BY DEF IInv, TypeOK, LibTypeOK, ReplicaMatchesLog
<1>3. /\ d1 \in Nat /\ d2 \in Nat /\ d1 <= Len(log) /\ d2 <= Len(log)
      /\ n <= d2 /\ n <= d1
      /\ decided_idx' \in [Servers -> Nat] /\ d1 <= decided_idx'[s] /\ d2 <= decided_idx'[s]
      /\ \A t \in Servers : decided_idx[t] <= decided_idx'[t] /\ decided_idx'[t] <= Len(log)
  <2>1. CASE OmniPaxosMessage \in batch
    <3>1. LearnDecided(s, d2) /\ d1 \in {n} \cup decided_idx[s]..d2
      BY <2>1 DEF HandleClusterMessages
    <3>2. d2 \in decided_idx[s]..Len(log) /\ decided_idx' = [decided_idx EXCEPT ![s] = d2]
      BY <3>1 DEF LearnDecided
    <3> QED BY <1>2, <3>1, <3>2 DEF IInv
  <2>2. CASE OmniPaxosMessage \notin batch
    <3>1. d1 = n /\ d2 = n /\ decided_idx' = decided_idx
      BY <2>2 DEF HandleClusterMessages
    <3> QED BY <1>2, <3>1 DEF IInv
  <2> QED BY <2>1, <2>2
<1>4. Applied(HandlerState(s), n, n)
  BY HandlerStateApplied
<1>5. \E i \in {n, d1} : Applied(before, i, i)
  BY <1>2, <1>3, <1>4, HandleDecidedApplies
<1>6. \E i \in {n, d1} : Applied(between, i, i)
  <2>1. CASE signals = {}
    BY <1>5, <2>1
  <2>2. CASE signals # {}
    <3>1. \A m \in signals : m.time \in StartTimes
      BY <1>1 DEF IInv, TypeOK, ClusterMessage
    <3>2. time \in StartTimes
      BY <2>2, <3>1
    <3>3. PICK i \in {n, d1} : Applied(before, i, i)
      BY <1>5
    <3> HIDE DEF before, time
    <3>4. Applied(SendClientStartSignals(s, time, before), i, i)
      BY <3>2, <3>3, StartSignalsTyped DEF Applied
    <3> QED BY <2>2, <3>4
  <2> QED BY <2>1, <2>2
<1> HIDE DEF between
<1>7. \E i \in {n, d1, d2} : Applied(final, i, i)
  BY <1>2, <1>3, <1>6, HandleDecidedApplies
<1> HIDE DEF final
<1>8. PICK i \in {n, d1, d2} : Applied(final, i, i)
  BY <1>7
<1>9. /\ current_decided_idx' \in [Servers -> Nat]
      /\ database' \in [Servers -> Db]
      /\ client_connections' \in [Servers -> SUBSET Nat]
      /\ responses' \in [Client -> Seq(ServerMessage)]
      /\ current_decided_idx'[s] = i
      /\ \A t \in Servers \ {s} : current_decided_idx'[t] = current_decided_idx[t]
      /\ \A t \in Servers : \A k \in Key :
           LeavesValue(log', current_decided_idx'[t], k, database'[t][k])
  BY <1>1, <1>2, <1>3, <1>8, BecomesApplied
<1>10. inbox \in [Servers -> SUBSET ClusterMessage]
  BY <1>1 DEF IInv, TypeOK, ClusterMessage
<1>11. /\ peer_connections' \in [Servers -> SUBSET Servers]
       /\ cluster_messages' \in [Servers -> SUBSET ClusterMessage]
  <2> HIDE DEF inbox
  <2>1. T \in SUBSET Servers
    BY DEF Peers
  <2> QED BY <1>1, <1>10, <2>1, SendOutgoingTyped DEF IInv, TypeOK
<1>12. phase' \in [Servers -> {"starting", "establish", "run", "crashed"}]
  BY <1>1 DEF IInv, TypeOK
<1>13. StreamsTypeOK' /\ peer_link' \in [Servers -> [Servers -> PeerLinkState]] /\ failures' \in Nat
  BY <1>1, <1>9 DEF linkVars, StreamsTypeOK, IInv, TypeOK
<1>14. LibTypeOK'
  BY <1>1, <1>3 DEF LibTypeOK, IInv, TypeOK
<1>15. TypeOK'
  BY <1>9, <1>11, <1>12, <1>13, <1>14 DEF TypeOK
<1>16. \A t \in Servers : current_decided_idx'[t] <= decided_idx'[t]
  <2> SUFFICES ASSUME NEW t \in Servers PROVE current_decided_idx'[t] <= decided_idx'[t]
    OBVIOUS
  <2>1. CASE t = s
    BY <1>2, <1>3, <1>9, <2>1
  <2>2. CASE t # s
    <3>1. current_decided_idx'[t] = current_decided_idx[t] /\ current_decided_idx[t] <= decided_idx[t]
      BY <1>9, <2>2 DEF IInv, ReplicaMatchesLog
    <3> QED BY <1>2, <1>3, <3>1 DEF IInv, TypeOK
  <2> QED BY <2>1, <2>2
<1> QED BY <1>1, <1>3, <1>9, <1>15, <1>16 DEF IInv, ReplicaMatchesLog

LEMMA StepLibraryDecides ==
  ASSUME IInv, LibraryDecides
  PROVE  IInv'
<1>1. PICK cmd \in pending : Decide(cmd)
  BY DEF LibraryDecides
<1>2. cmd \in Command /\ log \in Seq(Command)
  BY <1>1 DEF IInv, TypeOK, LibTypeOK
<1>3. /\ log' = Append(log, cmd) /\ pending' = pending \ {cmd}
      /\ UNCHANGED <<decided_idx, leadership, serverVars, channelVars, linkVars>>
  BY <1>1 DEF Decide, LibraryDecides
<1>4. /\ log' \in Seq(Command) /\ Len(log') = Len(log) + 1 /\ Len(log) \in Nat
      /\ \A i \in 1..Len(log) : log'[i] = log[i]
  BY <1>2, <1>3, AppendProperties
<1>5. TypeOK'
  BY <1>3, <1>4 DEF IInv, TypeOK, LibTypeOK, StreamsTypeOK, serverVars, channelVars, linkVars
<1>6. \A s \in Servers : decided_idx'[s] <= Len(log')
  BY <1>3, <1>4 DEF IInv, TypeOK, LibTypeOK
<1>7. ASSUME NEW s \in Servers, NEW k \in Key
      PROVE  LeavesValue(log', current_decided_idx'[s], k, database'[s][k])
  <2> DEFINE n == current_decided_idx[s]
  <2>1. n \in Nat /\ n <= Len(log) /\ LeavesValue(log, n, k, database[s][k])
    BY <1>4 DEF IInv, TypeOK, LibTypeOK, ReplicaMatchesLog
  <2>2. \A i \in 1..n : log'[i] = log[i]
    BY <1>4, <2>1
  <2>3. LeavesValue(log', n, k, database[s][k])
    BY <2>1, <2>2, LeavesPrefix
  <2> QED BY <1>3, <2>3 DEF serverVars
<1>8. \A s \in Servers : current_decided_idx'[s] <= decided_idx'[s]
  BY <1>3 DEF serverVars, IInv, ReplicaMatchesLog
<1> QED BY <1>5, <1>6, <1>7, <1>8 DEF IInv, ReplicaMatchesLog

\* poll() moves what is known decided, within the log, and nothing else the
\* invariant relates.
LEMMA StepPoll ==
  ASSUME IInv, NEW s \in Servers, NEW d, NEW T \in SUBSET Peers(s), Poll(s, d, T)
  PROVE  IInv'
<1>1. /\ d \in decided_idx[s]..Len(log) /\ decided_idx' = [decided_idx EXCEPT ![s] = d]
      /\ SendOutgoingMsgs(s, T, cluster_messages)
      /\ UNCHANGED <<log, pending, leadership, phase, current_decided_idx, database,
                     client_connections, requests, appended, responses, delivered, linkVars>>
  BY DEF Poll, LearnDecided
<1>2. decided_idx \in [Servers -> Nat] /\ Len(log) \in Nat /\ \A t \in Servers : decided_idx[t] <= Len(log)
  BY DEF IInv, TypeOK, LibTypeOK
<1>3. /\ decided_idx' \in [Servers -> Nat]
      /\ \A t \in Servers : decided_idx[t] <= decided_idx'[t] /\ decided_idx'[t] <= Len(log)
  BY <1>1, <1>2
<1>4. T \in SUBSET Servers
  BY DEF Peers
<1>5. /\ peer_connections' \in [Servers -> SUBSET Servers]
      /\ cluster_messages' \in [Servers -> SUBSET ClusterMessage]
  BY <1>1, <1>4, SendOutgoingTyped DEF IInv, TypeOK
<1>6. TypeOK'
  BY <1>1, <1>3, <1>5 DEF IInv, TypeOK, LibTypeOK, StreamsTypeOK, linkVars
<1>7. \A t \in Servers : current_decided_idx[t] <= decided_idx'[t]
  BY <1>2, <1>3 DEF IInv, TypeOK, ReplicaMatchesLog
<1> QED BY <1>1, <1>3, <1>6, <1>7 DEF IInv, ReplicaMatchesLog

\* The actions after which the log and every replica are what they were.
LEMMA StepOthers ==
  ASSUME IInv, TypeOK', UNCHANGED <<log, decided_idx, current_decided_idx, database>>
  PROVE  IInv'
BY DEF IInv, ReplicaMatchesLog

LEMMA StepTakeLeadership ==
  ASSUME IInv, NEW s \in Servers, NEW T \in SUBSET Peers(s), TakeLeadership(s, T)
  PROVE  IInv'
<1>1. T \in SUBSET Servers
  BY DEF Peers
<1>2. /\ peer_connections' \in [Servers -> SUBSET Servers]
      /\ cluster_messages' \in [Servers -> SUBSET ClusterMessage]
  BY <1>1, SendOutgoingTyped DEF TakeLeadership, IInv, TypeOK
<1>3. leadership' \in {"none", "prepare", "accept"}
  BY DEF TakeLeadership, TryBecomeLeader, IInv, TypeOK, LibTypeOK
<1>4. TypeOK'
  BY <1>2, <1>3 DEF TakeLeadership, IInv, TypeOK, LibTypeOK, StreamsTypeOK, linkVars
<1> QED BY <1>4, StepOthers DEF TakeLeadership

\* A request is numbered by its place in its stream, so a server always builds
\* a well formed command.
LEMMA CommandOfTyped ==
  ASSUME IInv, NEW c \in Client, NEW n \in Nat, NEW m \in Nat, m <= Len(requests[c]),
         NEW i \in (n + 1)..m
  PROVE  CommandOf(c, i) \in Command
<1>1. requests[c] \in Seq(KVCommand) /\ i \in 1..Len(requests[c]) /\ i - 1 \in Nat
  BY DEF IInv, TypeOK, StreamsTypeOK
<1>2. requests[c][i] \in KVCommand
  BY <1>1
<1>3. c[1] \in Servers /\ c[2] \in Nat
  BY NumClientsAssumption DEF Client, ClientIds
<1> QED BY <1>1, <1>2, <1>3 DEF CommandOf, Command, ServerOf, ClientId

LEMMA StepHandleClientMessages ==
  ASSUME IInv, NEW s \in Servers, NEW T \in SUBSET Peers(s), NEW upto \in Batches(s),
         HandleClientMessages(s, upto, T)
  PROVE  IInv'
<1>1. T \in SUBSET Servers
  BY DEF Peers
<1>2. /\ peer_connections' \in [Servers -> SUBSET Servers]
      /\ cluster_messages' \in [Servers -> SUBSET ClusterMessage]
  BY <1>1, SendOutgoingTyped DEF HandleClientMessages, IInv, TypeOK
<1>3. \A c \in Client : upto[c] \in Nat /\ upto[c] <= Len(requests[c])
  BY MaxRequestsAssumption DEF Batches
<1>4. upto \in [Client -> Nat]
  BY <1>3 DEF Batches
<1>5. \A c \in Client : \A i \in (appended[c] + 1)..upto[c] : CommandOf(c, i) \in Command
  BY <1>3, CommandOfTyped DEF IInv, TypeOK, StreamsTypeOK
<1>6. \A c \in ClientsOf(s) : {CommandOf(c, i) : i \in (appended[c] + 1)..upto[c]} \in SUBSET Command
  BY <1>5 DEF ClientsOf
<1>7. UNION {{CommandOf(c, i) : i \in (appended[c] + 1)..upto[c]} : c \in ClientsOf(s)} \in SUBSET Command
  BY <1>6
<1>8. pending' \in SUBSET Command
  BY <1>7 DEF HandleClientMessages, AppendAll, IInv, TypeOK, LibTypeOK
<1>9. TypeOK'
  BY <1>2, <1>4, <1>8 DEF HandleClientMessages, IInv, TypeOK, LibTypeOK, StreamsTypeOK, linkVars
<1> QED BY <1>9, StepOthers DEF HandleClientMessages

LEMMA StepTick ==
  ASSUME IInv, NEW s \in Servers, NEW T \in SUBSET Peers(s), Tick(s, T)
  PROVE  IInv'
<1>1. T \in SUBSET Servers
  BY DEF Peers
<1>2. /\ peer_connections' \in [Servers -> SUBSET Servers]
      /\ cluster_messages' \in [Servers -> SUBSET ClusterMessage]
  BY <1>1, SendOutgoingTyped DEF Tick, IInv, TypeOK
<1>3. TypeOK'
  BY <1>2 DEF Tick, IInv, TypeOK, LibTypeOK, StreamsTypeOK, linkVars, libVars
<1> QED BY <1>3, StepOthers DEF Tick, libVars

LEMMA StepClient ==
  ASSUME IInv, NEW c \in Client, ClientStep(c)
  PROVE  IInv'
<1>1. CASE ClientReceives(c)
  <2>1. TypeOK'
    BY <1>1 DEF ClientReceives, IInv, TypeOK, LibTypeOK, StreamsTypeOK, linkVars, libVars, serverVars
  <2> QED BY <1>1, <2>1, StepOthers DEF ClientReceives, libVars, serverVars
<1>2. CASE ClientFinishes(c)
  <2>1. TypeOK'
    BY <1>2 DEF ClientFinishes, IInv, TypeOK, LibTypeOK, StreamsTypeOK, channelVars, libVars,
               serverVars, LinkState
  <2> QED BY <1>2, <2>1, StepOthers DEF ClientFinishes, libVars, serverVars
<1>3. ASSUME NEW cmd \in KVCommand, ClientSends(c, cmd) PROVE IInv'
  <2>1. Append(requests[c], cmd) \in Seq(KVCommand)
    BY AppendProperties DEF IInv, TypeOK, StreamsTypeOK
  <2>2. requests' \in [Client -> Seq(KVCommand)]
    BY <1>3, <2>1 DEF ClientSends, IInv, TypeOK, StreamsTypeOK
  <2>3. TypeOK'
    BY <1>3, <2>2 DEF ClientSends, IInv, TypeOK, LibTypeOK, StreamsTypeOK, linkVars, libVars,
                      serverVars
  <2> QED BY <1>3, <2>3, StepOthers DEF ClientSends, libVars, serverVars
<1> QED BY <1>1, <1>2, <1>3 DEF ClientStep

\* Network::new returns: a link may turn out lossy, messages may be gone.
LEMMA StepNetworkReady ==
  ASSUME IInv, NEW s \in Servers, NetworkReturns(s)
  PROVE  IInv'
<1>1. PICK spoiled, cut, lost : NetworkReady(s, spoiled, cut, lost)
  BY DEF NetworkReturns
<1>2. peer_link' \in [Servers -> [Servers -> PeerLinkState]]
  <2>1. ASSUME NEW t \in Servers
        PROVE  [peer_link[t] EXCEPT ![s] = IF t \in cut THEN "cut"
                                           ELSE IF t \in spoiled THEN "spoiled" ELSE @]
                 \in [Servers -> PeerLinkState]
    BY DEF IInv, TypeOK, PeerLinkState, Intact
  <2>2. peer_link' = [t \in Servers |-> [peer_link[t] EXCEPT
                       ![s] = IF t \in cut THEN "cut" ELSE IF t \in spoiled THEN "spoiled" ELSE @]]
    BY <1>1 DEF NetworkReady
  <2> QED BY <2>1, <2>2, Zenon
<1>3. /\ phase' \in [Servers -> {"starting", "establish", "run", "crashed"}]
      /\ cluster_messages' \in [Servers -> SUBSET ClusterMessage]
      /\ UNCHANGED <<libVars, current_decided_idx, database, peer_connections, client_connections,
                     requests, appended, responses, delivered, client_link, failures>>
  BY <1>1 DEF NetworkReady, IInv, TypeOK
<1>4. TypeOK'
  BY <1>2, <1>3 DEF IInv, TypeOK, LibTypeOK, StreamsTypeOK, libVars
<1> QED BY <1>3, <1>4, StepOthers DEF libVars

LEMMA StepFailure ==
  ASSUME IInv, Failure
  PROVE  IInv'
<1>1. ASSUME NEW c \in Client, ClientLeaves(c) PROVE IInv'
  <2>1. TypeOK'
    BY <1>1 DEF ClientLeaves, Fail, IInv, TypeOK, LibTypeOK, StreamsTypeOK, libVars, serverVars,
               channelVars, LinkState
  <2> QED BY <1>1, <2>1, StepOthers DEF ClientLeaves, libVars, serverVars
<1>2. \A L : LoseStartSignals(L) => cluster_messages' \in [Servers -> SUBSET ClusterMessage]
  BY DEF LoseStartSignals, IInv, TypeOK
<1>3. ASSUME NEW s \in Servers, NEW t \in Servers, NEW L, LinkBreaks(s, t, L) PROVE IInv'
  <2>1. peer_link' \in [Servers -> [Servers -> PeerLinkState]]
    BY <1>3 DEF LinkBreaks, IInv, TypeOK, LinkState, PeerLinkState
  <2>2. cluster_messages' \in [Servers -> SUBSET ClusterMessage]
    BY <1>2, <1>3 DEF LinkBreaks
  <2>3. failures' \in Nat
    BY <1>3 DEF LinkBreaks, Fail, IInv, TypeOK
  <2>4. UNCHANGED <<libVars, serverVars, requests, appended, responses, delivered, client_link>>
    BY <1>3 DEF LinkBreaks
  <2>5. TypeOK'
    BY <2>1, <2>2, <2>3, <2>4 DEF IInv, TypeOK, LibTypeOK, StreamsTypeOK, libVars, serverVars
  <2> QED BY <1>3, <2>5, StepOthers DEF LinkBreaks, libVars, serverVars
<1>4. ASSUME NEW s \in Servers, NEW L, Crash(s, L) PROVE IInv'
  <2>1. peer_link' \in [Servers -> [Servers -> PeerLinkState]]
    <3>1. ASSUME NEW x \in Servers, NEW y \in Servers
          PROVE  (IF s \in {x, y} /\ peer_link[x][y] \in Intact THEN "gone" ELSE peer_link[x][y])
                   \in PeerLinkState
      BY DEF IInv, TypeOK, LinkState, PeerLinkState
    <3>2. peer_link' = [x \in Servers |-> [y \in Servers |->
             IF s \in {x, y} /\ peer_link[x][y] \in Intact THEN "gone" ELSE peer_link[x][y]]]
      BY <1>4 DEF Crash
    <3> QED BY <3>1, <3>2, Zenon
  <2>2. cluster_messages' \in [Servers -> SUBSET ClusterMessage]
    BY <1>2, <1>4 DEF Crash
  <2>3. phase' \in [Servers -> {"starting", "establish", "run", "crashed"}]
    BY <1>4 DEF Crash, IInv, TypeOK
  <2>4. failures' \in Nat
    BY <1>4 DEF Crash, Fail, IInv, TypeOK
  <2>5. TypeOK'
    BY <1>4, <2>1, <2>2, <2>3, <2>4 DEF Crash, IInv, TypeOK, LibTypeOK, StreamsTypeOK, libVars
  <2> QED BY <1>4, <2>5, StepOthers DEF Crash, libVars
<1>5. ASSUME WriterEnds PROVE IInv'
  <2>1. "closed" \in LinkState /\ "closed" \in PeerLinkState
    BY DEF LinkState, PeerLinkState
  <2>2. client_link' \in [Client -> LinkState]
    BY <1>5, <2>1 DEF WriterEnds, IInv, TypeOK, StreamsTypeOK
  <2>3. peer_link' \in [Servers -> [Servers -> PeerLinkState]]
    <3>1. CASE UNCHANGED peer_link
      BY <3>1 DEF IInv, TypeOK
    <3>2. ASSUME NEW s \in Servers, NEW t \in Servers,
                 peer_link' = [peer_link EXCEPT ![s][t] = "closed"]
          PROVE  peer_link' \in [Servers -> [Servers -> PeerLinkState]]
      BY <2>1, <3>2 DEF IInv, TypeOK
    <3> QED BY <1>5, <3>1, <3>2 DEF WriterEnds
  <2>4. UNCHANGED <<libVars, serverVars, channelVars, failures>>
    BY <1>5 DEF WriterEnds
  <2>5. TypeOK'
    BY <2>2, <2>3, <2>4 DEF IInv, TypeOK, LibTypeOK, StreamsTypeOK, libVars, serverVars, channelVars
  <2> QED BY <2>4, <2>5, StepOthers DEF libVars, serverVars
<1> QED BY <1>1, <1>3, <1>4, <1>5 DEF Failure, LinkFailure

LEMMA StepStutter ==
  ASSUME IInv, UNCHANGED vars
  PROVE  IInv'
<1>1. TypeOK'
  BY DEF vars, libVars, serverVars, channelVars, linkVars, IInv, TypeOK, LibTypeOK, StreamsTypeOK
<1> QED BY <1>1, StepOthers DEF vars, libVars, serverVars
-----------------------------------------------------------------------------
LEMMA NextIInv == IInv /\ [Next]_vars => IInv'
<1> SUFFICES ASSUME IInv, [Next]_vars PROVE IInv'
  OBVIOUS
<1>1. ASSUME NEW s \in Servers, ServerStep(s) PROVE IInv'
  BY <1>1, StepTakeLeadership, StepHandleClusterMessages, StepHandleClientMessages, StepTick,
     StepPoll DEF ServerStep
<1>2. ASSUME NEW s \in Servers, NEW time \in StartTimes, SendStartSignals(s, time) PROVE IInv'
  BY <1>2, StepSendStartSignals
<1>3. ASSUME NEW c \in Client, ClientStep(c) PROVE IInv'
  BY <1>3, StepClient
<1> QED BY <1>1, <1>2, <1>3, StepNetworkReady, StepLibraryDecides, StepFailure, StepStutter DEF Next

LEMMA Invariance == Spec => []IInv
BY InitIInv, NextIInv, PTL DEF Spec

\* Every variable keeps its type, whatever fails, whatever the batches.
THEOREM TypeCorrect == Spec => []TypeOK
<1>1. IInv => TypeOK
  BY DEF IInv
<1> QED BY <1>1, Invariance, PTL

\* Every replica's map is at all times what the first current_decided_idx
\* entries of the log mean: whatever the batches in which entries were decided
\* and handled, none was applied twice, skipped, or applied out of order.
THEOREM ReplicasMatchLog == Spec => []ReplicaMatchesLog
<1>1. IInv => ReplicaMatchesLog
  BY DEF IInv
<1> QED BY <1>1, Invariance, PTL
-----------------------------------------------------------------------------
(***************************************************************************)
(* What becomes of the requests of clients: every one a server has taken   *)
(* is in the log once, or waits for it.                                    *)
(***************************************************************************)

\* The commands built so far, one for each request taken from a client.
Taken(x) == \E c \in Client : \E i \in 1..appended[c] : x = CommandOf(c, i)

\* RequestsAccountedFor is not inductive alone: a command must not change once
\* it is built, so no server may be ahead of what the client has sent.
Accounted ==
  /\ RequestsAccountedFor
  /\ \A c \in Client : appended[c] <= Len(requests[c])

\* Two requests never make the same command, although client ids repeat from
\* server to server and command ids from client to client.
LEMMA CommandsDiffer ==
  ASSUME NEW c \in Client, NEW e \in Client, NEW i \in Nat, NEW j \in Nat,
         CommandOf(c, i) = CommandOf(e, j)
  PROVE  c = e /\ i = j
<1>1. c = <<c[1], c[2]>> /\ e = <<e[1], e[2]>>
  BY DEF Client
<1>2. /\ CommandOf(c, i).client_id = c[2] /\ CommandOf(e, j).client_id = e[2]
      /\ CommandOf(c, i).coordinator_id = c[1] /\ CommandOf(e, j).coordinator_id = e[1]
      /\ CommandOf(c, i).id = i - 1 /\ CommandOf(e, j).id = j - 1
  BY DEF CommandOf, ClientId, ServerOf
<1>3. c = e
  BY <1>1, <1>2
<1> QED BY <1>2, <1>3
-----------------------------------------------------------------------------
LEMMA InitAccounted == Init => Accounted
<1> SUFFICES ASSUME Init PROVE Accounted
  OBVIOUS
<1>1. /\ log = <<>> /\ pending = {}
      /\ \A c \in Client : appended[c] = 0 /\ requests[c] = <<>>
  BY DEF Init, LibInit, StreamsInit
<1>2. \A c \in Client : {CommandOf(c, i) : i \in 1..appended[c]} = {}
  BY <1>1
<1>3. ToSet(log) = {}
  BY <1>1 DEF ToSet
<1>4. IsInjective(log)
  BY <1>1 DEF IsInjective
<1> QED BY <1>1, <1>2, <1>3, <1>4 DEF Accounted, RequestsAccountedFor

LEMMA AccountedElsewhere ==
  ASSUME Accounted, UNCHANGED <<log, pending, requests, appended>>
  PROVE  Accounted'
BY DEF Accounted, RequestsAccountedFor, CommandOf, ToSet, IsInjective

\* A request that arrives leaves the commands made of earlier ones alone.
LEMMA AccountedClientSends ==
  ASSUME IInv, Accounted, NEW c \in Client, NEW cmd \in KVCommand, ClientSends(c, cmd)
  PROVE  Accounted'
<1>1. /\ requests' = [requests EXCEPT ![c] = Append(requests[c], cmd)]
      /\ UNCHANGED <<log, pending, appended>>
  BY DEF ClientSends, libVars
<1>2. requests \in [Client -> Seq(KVCommand)] /\ appended \in [Client -> Nat]
  BY DEF IInv, TypeOK, StreamsTypeOK
<1>3. \A e \in Client : /\ Len(requests[e]) <= Len(requests'[e])
                        /\ \A i \in 1..Len(requests[e]) : requests'[e][i] = requests[e][i]
  <2> SUFFICES ASSUME NEW e \in Client
               PROVE  /\ Len(requests[e]) <= Len(requests'[e])
                      /\ \A i \in 1..Len(requests[e]) : requests'[e][i] = requests[e][i]
    OBVIOUS
  <2>1. CASE e = c
    BY <1>1, <1>2, <2>1, AppendProperties
  <2>2. CASE e # c
    BY <1>1, <1>2, <2>2
  <2> QED BY <2>1, <2>2
<1>4. \A e \in Client : appended[e] <= Len(requests[e]) /\ Len(requests[e]) \in Nat
  BY <1>2 DEF Accounted
<1>5. ASSUME NEW e \in Client, NEW i \in 1..appended[e]
      PROVE  CommandOf(e, i)' = CommandOf(e, i)
  <2>1. i \in 1..Len(requests[e])
    BY <1>2, <1>4
  <2>2. requests'[e][i] = requests[e][i]
    BY <1>3, <2>1
  <2> QED BY <2>2 DEF CommandOf
<1>6. UNION {{CommandOf(e, i)' : i \in 1..appended'[e]} : e \in Client}
        = UNION {{CommandOf(e, i) : i \in 1..appended[e]} : e \in Client}
  BY <1>1, <1>5
<1>7. RequestsAccountedFor'
  <2>1. ToSet(log)' = ToSet(log) /\ IsInjective(log)' = IsInjective(log)
    BY <1>1 DEF ToSet, IsInjective
  <2> QED BY <1>1, <1>6, <2>1 DEF Accounted, RequestsAccountedFor
<1>8. \A e \in Client : appended'[e] <= Len(requests'[e])
  BY <1>1, <1>2, <1>3, <1>4
<1> QED BY <1>7, <1>8 DEF Accounted

\* A command that is decided moves from those waiting to the end of the log.
LEMMA AccountedLibraryDecides ==
  ASSUME IInv, Accounted, LibraryDecides
  PROVE  Accounted'
<1>1. PICK cmd \in pending : Decide(cmd)
  BY DEF LibraryDecides
<1>2. /\ log' = Append(log, cmd) /\ pending' = pending \ {cmd}
      /\ UNCHANGED <<requests, appended>>
  BY <1>1 DEF Decide, LibraryDecides, channelVars
<1>3. log \in Seq(Command) /\ cmd \in Command
  BY <1>1 DEF IInv, TypeOK, LibTypeOK
<1>4. /\ DOMAIN log = 1..Len(log) /\ DOMAIN log' = 1..(Len(log) + 1) /\ Len(log) \in Nat
      /\ log'[Len(log) + 1] = cmd
      /\ \A i \in 1..Len(log) : log'[i] = log[i]
  BY <1>2, <1>3, AppendProperties
<1>5. \A x : x \in ToSet(log') <=> x \in ToSet(log) \/ x = cmd
  BY <1>4 DEF ToSet
<1>6. cmd \notin ToSet(log)
  BY DEF Accounted, RequestsAccountedFor
<1>7. pending' \cup ToSet(log') = pending \cup ToSet(log) /\ pending' \cap ToSet(log') = {}
  BY <1>2, <1>5 DEF Accounted, RequestsAccountedFor
<1>8. IsInjective(log')
  <2> SUFFICES ASSUME NEW i \in 1..(Len(log) + 1), NEW j \in 1..(Len(log) + 1), log'[i] = log'[j]
               PROVE  i = j
    BY <1>4 DEF IsInjective
  <2>1. CASE i \in 1..Len(log) /\ j \in 1..Len(log)
    BY <1>4, <2>1 DEF Accounted, RequestsAccountedFor, IsInjective
  <2>2. \A n \in 1..Len(log) : log'[n] # cmd
    BY <1>4, <1>6 DEF ToSet
  <2>3. CASE i = Len(log) + 1 \/ j = Len(log) + 1
    BY <1>4, <2>2, <2>3
  <2> QED BY <1>4, <2>1, <2>3
<1>9. RequestsAccountedFor'
  BY <1>2, <1>7, <1>8 DEF Accounted, RequestsAccountedFor, CommandOf
<1> QED BY <1>2, <1>9 DEF Accounted

\* The requests of a batch are new: none of them is in the log yet.
LEMMA AccountedHandleClientMessages ==
  ASSUME IInv, Accounted, NEW s \in Servers, NEW T, NEW upto \in Batches(s),
         HandleClientMessages(s, upto, T)
  PROVE  Accounted'
<1> DEFINE New(x) == \E c \in ClientsOf(s) : \E i \in (appended[c] + 1)..upto[c] : x = CommandOf(c, i)
           Built == UNION {{CommandOf(c, i) : i \in 1..upto[c]} : c \in Client}
<1>1. /\ pending' = pending \cup
           UNION {{CommandOf(c, i) : i \in (appended[c] + 1)..upto[c]} : c \in ClientsOf(s)}
      /\ appended' = upto /\ UNCHANGED <<log, requests>>
  BY DEF HandleClientMessages, AppendAll
<1>2. appended \in [Client -> Nat] /\ requests \in [Client -> Seq(KVCommand)]
  BY DEF IInv, TypeOK, StreamsTypeOK
<1>3. \A c \in Client : upto[c] \in Nat /\ upto[c] <= Len(requests[c])
  BY MaxRequestsAssumption DEF Batches
<1>4. \A c \in Client : IF ServerOf(c) = s THEN appended[c] <= upto[c] ELSE upto[c] = appended[c]
  BY DEF HandleClientMessages
<1>5. \A x : x \in pending' <=> x \in pending \/ New(x)
  BY <1>1
<1>6. \A x : x \in pending \cup ToSet(log) <=> Taken(x)
  BY DEF Accounted, RequestsAccountedFor, Taken
<1>7. ASSUME NEW x, New(x), x \in ToSet(log) PROVE FALSE
  <2>1. PICK c \in ClientsOf(s) : \E i \in (appended[c] + 1)..upto[c] : x = CommandOf(c, i)
    BY <1>7
  <2>2. PICK i \in (appended[c] + 1)..upto[c] : x = CommandOf(c, i)
    BY <2>1
  <2>3. PICK e \in Client : \E j \in 1..appended[e] : x = CommandOf(e, j)
    BY <1>6, <1>7 DEF Taken
  <2>4. PICK j \in 1..appended[e] : x = CommandOf(e, j)
    BY <2>3
  <2>5. c \in Client /\ appended[c] \in Nat /\ appended[e] \in Nat /\ upto[c] \in Nat
    BY <1>2, <1>3 DEF ClientsOf
  <2>6. i \in Nat /\ j \in Nat
    BY <2>5
  <2>7. c = e /\ i = j
    <3>1. CommandOf(c, i) = CommandOf(e, j) /\ e \in Client
      BY <2>2, <2>3, <2>4
    <3> QED BY <2>5, <2>6, <3>1, CommandsDiffer
  <2> QED BY <2>5, <2>7
<1>8. ASSUME NEW x PROVE x \in Built <=> Taken(x) \/ New(x)
  <2>1. ASSUME NEW c \in Client, NEW i \in 1..upto[c], x = CommandOf(c, i)
        PROVE  Taken(x) \/ New(x)
    <3>1. i \in Nat /\ appended[c] \in Nat /\ upto[c] \in Nat
      BY <1>2, <1>3
    <3>2. CASE i <= appended[c]
      BY <2>1, <3>1, <3>2 DEF Taken
    <3>3. CASE i > appended[c]
      <4>1. ServerOf(c) = s
        BY <1>4, <3>1, <3>3
      <4>2. c \in ClientsOf(s) /\ i \in (appended[c] + 1)..upto[c]
        BY <3>1, <3>3, <4>1 DEF ClientsOf
      <4> QED BY <2>1, <4>2
    <3> QED BY <3>1, <3>2, <3>3
  <2>2. ASSUME Taken(x) PROVE x \in Built
    <3>1. PICK c \in Client : \E i \in 1..appended[c] : x = CommandOf(c, i)
      BY <2>2 DEF Taken
    <3>2. 1..appended[c] \subseteq 1..upto[c]
      BY <1>2, <1>3, <1>4
    <3> QED BY <3>1, <3>2
  <2>3. ASSUME New(x) PROVE x \in Built
    <3>1. PICK c \in ClientsOf(s) : \E i \in (appended[c] + 1)..upto[c] : x = CommandOf(c, i)
      BY <2>3
    <3>2. c \in Client /\ (appended[c] + 1)..upto[c] \subseteq 1..upto[c]
      BY <1>2, <1>3 DEF ClientsOf
    <3> QED BY <3>1, <3>2
  <2> QED BY <2>1, <2>2, <2>3
<1>9. pending' \cup ToSet(log') = Built
  <2> HIDE DEF New, Built
  <2> QED BY <1>1, <1>5, <1>6, <1>8
<1>10. pending' \cap ToSet(log') = {}
  <2> HIDE DEF New
  <2> QED BY <1>1, <1>5, <1>7 DEF Accounted, RequestsAccountedFor
<1>11. RequestsAccountedFor'
  BY <1>1, <1>9, <1>10 DEF Accounted, RequestsAccountedFor, CommandOf
<1> QED BY <1>1, <1>3, <1>11 DEF Accounted
-----------------------------------------------------------------------------
LEMMA NextAccounted == IInv /\ Accounted /\ [Next]_vars => Accounted'
<1> SUFFICES ASSUME IInv, Accounted, [Next]_vars PROVE Accounted'
  OBVIOUS
<1>1. ASSUME NEW s \in Servers, ServerStep(s) PROVE Accounted'
  <2>1. ASSUME NEW T, TakeLeadership(s, T) PROVE Accounted'
    BY <2>1, AccountedElsewhere DEF TakeLeadership
  <2>2. ASSUME NEW batch, NEW rest, NEW d1, NEW d2, NEW lead, NEW T,
               HandleClusterMessages(s, batch, rest, d1, d2, lead, T)
        PROVE  Accounted'
    BY <2>2, AccountedElsewhere DEF HandleClusterMessages
  <2>3. ASSUME NEW T, NEW upto \in Batches(s), HandleClientMessages(s, upto, T)
        PROVE  Accounted'
    BY <2>3, AccountedHandleClientMessages
  <2>4. ASSUME NEW T, Tick(s, T) PROVE Accounted'
    BY <2>4, AccountedElsewhere DEF Tick, libVars
  <2>5. ASSUME NEW d, NEW T, Poll(s, d, T) PROVE Accounted'
    BY <2>5, AccountedElsewhere DEF Poll
  <2> QED BY <1>1, <2>1, <2>2, <2>3, <2>4, <2>5 DEF ServerStep
<1>2. ASSUME NEW s \in Servers, NEW time \in StartTimes, SendStartSignals(s, time)
      PROVE  Accounted'
  BY <1>2, AccountedElsewhere DEF SendStartSignals, libVars
<1>3. ASSUME NEW c \in Client, ClientStep(c) PROVE Accounted'
  <2>1. CASE ClientReceives(c)
    BY <2>1, AccountedElsewhere DEF ClientReceives, libVars
  <2>2. CASE ClientFinishes(c)
    BY <2>2, AccountedElsewhere DEF ClientFinishes, libVars, channelVars
  <2> QED BY <1>3, <2>1, <2>2, AccountedClientSends DEF ClientStep
<1>4. ASSUME Failure PROVE Accounted'
  <2>1. ASSUME NEW c, ClientLeaves(c) PROVE Accounted'
    BY <2>1, AccountedElsewhere DEF ClientLeaves, libVars, channelVars
  <2>2. ASSUME NEW s, NEW t, NEW L, LinkBreaks(s, t, L) PROVE Accounted'
    BY <2>2, AccountedElsewhere DEF LinkBreaks, libVars
  <2>3. ASSUME NEW s, NEW L, Crash(s, L) PROVE Accounted'
    BY <2>3, AccountedElsewhere DEF Crash, libVars
  <2>4. CASE WriterEnds
    BY <2>4, AccountedElsewhere DEF WriterEnds, libVars, channelVars
  <2> QED BY <1>4, <2>1, <2>2, <2>3, <2>4 DEF Failure, LinkFailure
<1>5. CASE UNCHANGED vars
  BY <1>5, AccountedElsewhere DEF vars, libVars, channelVars
<1>6. ASSUME NEW s \in Servers, NetworkReturns(s) PROVE Accounted'
  BY <1>6, AccountedElsewhere DEF NetworkReturns, NetworkReady, libVars
<1> QED BY <1>1, <1>2, <1>3, <1>4, <1>5, <1>6, AccountedLibraryDecides DEF Next

\* Every request a server has taken from a client is in the log once or waits
\* for it, as the command of that client, and nothing else is: whatever the
\* batches (handle_client_messages, append_to_log) and whoever fails.
THEOREM EveryRequestAccountedFor == Spec => []RequestsAccountedFor
<1>1. Accounted => RequestsAccountedFor
  BY DEF Accounted
<1> QED BY <1>1, InitAccounted, NextAccounted, Invariance, PTL DEF Spec
-----------------------------------------------------------------------------
LEMMA ClientParts ==
  ASSUME NEW c \in Client
  PROVE  /\ c = <<ServerOf(c), ClientId(c)>> /\ ServerOf(c) \in Servers
         /\ ClientId(c) \in ClientIds(ServerOf(c)) /\ c \in ClientsOf(ServerOf(c))
BY DEF Client, ServerOf, ClientId, ClientsOf
-----------------------------------------------------------------------------
(***************************************************************************)
(* What applying entries does to the streams and the slots.  A stream only *)
(* grows, by answers, and only if the log holds a command of its client; a *)
(* slot is emptied only because the connection was closed.                 *)
(***************************************************************************)
NeverIssued(c) == \A n \in 1..Len(log) : IssuedBy(log[n]) # c

AnswersAdded(c, old, new) ==
  /\ Len(old) <= Len(new) /\ \A i \in 1..Len(old) : new[i] = old[i]
  /\ \A i \in (Len(old) + 1)..Len(new) : new[i].type # "StartSignal"
  /\ NeverIssued(c) => new = old

DroppedWhenClosed(s, old, new) == \A id \in old \ new : client_link[<<s, id>>] = "closed"

Follows(s, a, b) ==
  /\ b \in HandlerStates
  /\ \A c \in Client : AnswersAdded(c, a.out[c], b.out[c])
  /\ DroppedWhenClosed(s, a.conns, b.conns)

LEMMA FollowsSame ==
  ASSUME NEW s, NEW a \in HandlerStates, NEW b \in HandlerStates, b.out = a.out, b.conns = a.conns
  PROVE  Follows(s, a, b)
<1>1. \A c \in Client : a.out[c] \in Seq(ServerMessage)
  BY DEF HandlerStates
<1>2. \A c \in Client : AnswersAdded(c, a.out[c], a.out[c])
  BY <1>1 DEF AnswersAdded
<1> QED BY <1>2 DEF Follows, DroppedWhenClosed

LEMMA AnswersAddedTrans ==
  ASSUME NEW c, NEW p, NEW q, NEW r, Len(p) \in Nat, Len(q) \in Nat, Len(r) \in Nat,
         AnswersAdded(c, p, q), AnswersAdded(c, q, r)
  PROVE  AnswersAdded(c, p, r)
<1>1. Len(p) <= Len(q) /\ Len(q) <= Len(r)
  BY DEF AnswersAdded
<1>2. \A i \in 1..Len(p) : r[i] = p[i]
  BY <1>1 DEF AnswersAdded
<1>3. ASSUME NEW i \in (Len(p) + 1)..Len(r) PROVE r[i].type # "StartSignal"
  <2>1. CASE i <= Len(q)
    <3>1. i \in 1..Len(q) /\ i \in (Len(p) + 1)..Len(q)
      BY <2>1
    <3>2. r[i] = q[i] /\ q[i].type # "StartSignal"
      BY <3>1 DEF AnswersAdded
    <3> QED BY <3>2
  <2>2. CASE ~ (i <= Len(q))
    <3>1. i \in (Len(q) + 1)..Len(r)
      BY <2>2
    <3> QED BY <3>1 DEF AnswersAdded
  <2> QED BY <2>1, <2>2
<1>4. NeverIssued(c) => r = p
  BY DEF AnswersAdded
<1>5. Len(p) <= Len(r)
  BY <1>1
<1> QED BY <1>2, <1>3, <1>4, <1>5 DEF AnswersAdded

LEMMA FollowsTrans ==
  ASSUME NEW s, NEW a \in HandlerStates, NEW b, NEW d, Follows(s, a, b), Follows(s, b, d)
  PROVE  Follows(s, a, d)
<1>1. ASSUME NEW c \in Client PROVE AnswersAdded(c, a.out[c], d.out[c])
  <2>1. AnswersAdded(c, a.out[c], b.out[c]) /\ AnswersAdded(c, b.out[c], d.out[c])
    BY DEF Follows
  <2>2. Len(a.out[c]) \in Nat /\ Len(b.out[c]) \in Nat /\ Len(d.out[c]) \in Nat
    BY DEF Follows, HandlerStates
  <2> QED BY <2>1, <2>2, AnswersAddedTrans
<1>2. DroppedWhenClosed(s, a.conns, d.conns)
  BY DEF Follows, DroppedWhenClosed
<1> QED BY <1>1, <1>2 DEF Follows

LEMMA SendFollows ==
  ASSUME NEW s \in Servers, NEW a \in HandlerStates, NEW id, NEW msg \in Response,
         \E n \in 1..Len(log) : IssuedBy(log[n]) = <<s, id>>
  PROVE  Follows(s, a, SendToClient(s, id, msg, a))
<1> DEFINE b == SendToClient(s, id, msg, a)
<1>1. msg \in ServerMessage /\ msg.type # "StartSignal"
  BY DEF ServerMessage, Response
<1>2. b \in HandlerStates
  BY <1>1, SendToClientTyped
<1>3. CASE id \notin a.conns
  <2>1. b = a
    BY <1>3 DEF SendToClient
  <2> QED BY <2>1, FollowsSame
<1>4. CASE id \in a.conns /\ client_link[<<s, id>>] = "closed"
  <2>1. b = [a EXCEPT !.conns = a.conns \ {id}]
    BY <1>4 DEF SendToClient
  <2>2. b.out = a.out /\ b.conns = a.conns \ {id}
    BY <2>1 DEF HandlerStates
  <2>3. \A c \in Client : a.out[c] \in Seq(ServerMessage)
    BY DEF HandlerStates
  <2>4. \A c \in Client : AnswersAdded(c, a.out[c], b.out[c])
    BY <2>2, <2>3 DEF AnswersAdded
  <2> HIDE DEF b
  <2>5. Follows(s, a, b)
    BY <1>2, <1>4, <2>2, <2>4 DEF Follows, DroppedWhenClosed
  <2> QED BY <2>5 DEF b
<1>5. CASE id \in a.conns /\ client_link[<<s, id>>] # "closed"
  <2> DEFINE sent == [a.out EXCEPT ![<<s, id>>] = Append(a.out[<<s, id>>], msg)]
  <2>1. a.out \in [Client -> Seq(ServerMessage)]
    BY DEF HandlerStates
  <2>2. ASSUME NEW c \in Client PROVE AnswersAdded(c, a.out[c], sent[c])
    <3>1. a.out[c] \in Seq(ServerMessage)
      BY <2>1
    <3>2. CASE c = <<s, id>>
      <4>1. sent[c] = Append(a.out[c], msg)
        BY <2>1, <3>2
      <4> HIDE DEF sent
      <4>2. /\ Len(sent[c]) = Len(a.out[c]) + 1 /\ Len(a.out[c]) \in Nat
            /\ sent[c][Len(a.out[c]) + 1] = msg
            /\ \A i \in 1..Len(a.out[c]) : sent[c][i] = a.out[c][i]
        BY <1>1, <3>1, <4>1, AppendProperties
      <4>3. ~ NeverIssued(c)
        BY <3>2 DEF NeverIssued
      <4> QED BY <1>1, <4>2, <4>3 DEF AnswersAdded
    <3>3. CASE c # <<s, id>>
      <4>1. sent[c] = a.out[c]
        BY <2>1, <3>3
      <4> HIDE DEF sent
      <4> QED BY <3>1, <4>1 DEF AnswersAdded
    <3> QED BY <3>2, <3>3
  <2> HIDE DEF sent
  <2>3. b = [a EXCEPT !.out = sent]
    BY <1>5 DEF SendToClient, sent
  <2>4. b.out = sent /\ b.conns = a.conns
    BY <2>3 DEF HandlerStates
  <2> HIDE DEF b
  <2>5. Follows(s, a, b)
    BY <1>2, <2>2, <2>4 DEF Follows, DroppedWhenClosed
  <2> QED BY <2>5 DEF b
<1> QED BY <1>3, <1>4, <1>5

LEMMA ApplyFollows ==
  ASSUME NEW s \in Servers, NEW a \in HandlerStates, NEW n \in 1..Len(log), log \in Seq(Command)
  PROVE  Follows(s, a, ApplyAndRespond(s, a, log[n]))
<1> DEFINE cmd == log[n]
           next == [a EXCEPT !.db = Updated(a.db, cmd.kv_cmd)]
           msg == Answer(a.db, cmd.id, cmd.kv_cmd)
<1>1. cmd \in Command
  OBVIOUS
<1>2. cmd.kv_cmd \in KVCommand /\ cmd.id \in Nat
  BY <1>1 DEF Command
<1>3. a.db \in Db
  BY DEF HandlerStates
<1>4. Updated(a.db, cmd.kv_cmd) \in Db
  BY <1>2, <1>3, UpdatedTyped
<1>5. next \in HandlerStates /\ next.out = a.out /\ next.conns = a.conns
  BY <1>4 DEF HandlerStates
<1>6. msg \in Response
  BY <1>2, <1>3 DEF Answer, Read, Write, Db, KVCommand, Response
<1>7. Follows(s, a, next)
  <2> HIDE DEF next
  <2> QED BY <1>5, FollowsSame
<1>8. CASE cmd.coordinator_id = s
  <2>1. IssuedBy(cmd) = <<s, cmd.client_id>>
    BY <1>8 DEF IssuedBy
  <2>2. \E m \in 1..Len(log) : IssuedBy(log[m]) = <<s, cmd.client_id>>
    BY <2>1
  <2> DEFINE told == SendToClient(s, cmd.client_id, msg, next)
  <2>3. ApplyAndRespond(s, a, cmd) = told
    BY <1>8 DEF ApplyAndRespond
  <2> HIDE DEF next, msg, cmd
  <2>4. Follows(s, next, told)
    BY <1>5, <1>6, <2>2, SendFollows
  <2> HIDE DEF told
  <2>5. Follows(s, a, told)
    BY <1>7, <2>4, FollowsTrans
  <2> QED BY <2>3, <2>5 DEF cmd
<1>9. CASE cmd.coordinator_id # s
  <2>1. ApplyAndRespond(s, a, cmd) = next
    BY <1>9 DEF ApplyAndRespond
  <2> HIDE DEF next
  <2> QED BY <1>7, <2>1
<1> QED BY <1>8, <1>9

LEMMA LoopFollows ==
  ASSUME NEW s \in Servers, NEW start \in HandlerStates, NEW commands, log \in Seq(Command),
         Len(commands) \in Nat, \A i \in 1..Len(commands) : \E n \in 1..Len(log) : commands[i] = log[n]
  PROVE  Follows(s, start, UpdateDatabaseAndRespond(s, start, commands))
<1>1. PICK after : Passes(s, start, commands, after)
  BY LoopUnfolds
<1> DEFINE Good == {m \in Nat : m <= Len(commands) => Follows(s, start, after[m])}
<1>2. 0 \in Good
  BY <1>1, FollowsSame DEF Passes
<1>3. ASSUME NEW m \in Good PROVE m + 1 \in Good
  <2> SUFFICES ASSUME m + 1 <= Len(commands) PROVE Follows(s, start, after[m + 1])
    OBVIOUS
  <2>1. Follows(s, start, after[m])
    OBVIOUS
  <2>2. PICK n \in 1..Len(log) : commands[m + 1] = log[n]
    OBVIOUS
  <2>3. after[m + 1] = ApplyAndRespond(s, after[m], log[n])
    BY <1>1, <2>2 DEF Passes
  <2>4. after[m] \in HandlerStates
    BY <2>1 DEF Follows
  <2>5. Follows(s, after[m], ApplyAndRespond(s, after[m], log[n]))
    BY <2>4, ApplyFollows
  <2> QED BY <2>1, <2>3, <2>5, FollowsTrans
<1>4. Good = Nat
  BY <1>2, <1>3, SetInduction
<1>5. Follows(s, start, after[Len(commands)])
  BY <1>4
<1> HIDE DEF Good
<1> QED BY <1>1, <1>5 DEF Passes

LEMMA HandleDecidedFollows ==
  ASSUME NEW s \in Servers, NEW st \in HandlerStates, NEW d \in Nat,
         log \in Seq(Command), d <= Len(log)
  PROVE  Follows(s, st, HandleDecidedEntries(s, d, st))
<1> DEFINE n == st.idx
<1>1. CASE ~ (st.idx < d)
  BY <1>1, FollowsSame DEF HandleDecidedEntries
<1>2. CASE st.idx < d
  <2> DEFINE start == [st EXCEPT !.idx = d]
             commands == SubSeq(log, n + 1, d)
  <2>1. n \in Nat
    BY DEF HandlerStates
  <2> HIDE DEF n
  <2>2. start \in HandlerStates /\ start.out = st.out /\ start.conns = st.conns
    BY DEF HandlerStates
  <2>3. \A i \in (n + 1)..d : log[i] \in Command
    BY <2>1
  <2>4. /\ Len(commands) = d - n
        /\ \A i \in 1..(d - n) : commands[i] = log[n + i]
    <3>1. /\ Len(commands) = IF n + 1 <= d THEN d - (n + 1) + 1 ELSE 0
          /\ \A i \in 1..(d - (n + 1) + 1) : commands[i] = log[(n + 1) + i - 1]
      BY <2>1, <2>3, SubSeqProperties
    <3>2. n < d
      BY <1>2 DEF n
    <3> QED BY <2>1, <3>1, <3>2
  <2>5. HandleDecidedEntries(s, d, st) = UpdateDatabaseAndRespond(s, start, commands)
    BY <1>2 DEF HandleDecidedEntries, ReadDecidedSuffix, n
  <2> HIDE DEF start, commands
  <2>6. n < d
    BY <1>2 DEF n
  <2>7. ASSUME NEW i \in 1..Len(commands) PROVE \E j \in 1..Len(log) : commands[i] = log[j]
    <3>1. commands[i] = log[n + i] /\ i \in 1..(d - n)
      BY <2>4
    <3>2. n + i \in 1..Len(log)
      BY <2>1, <2>6, <3>1
    <3> QED BY <3>1, <3>2
  <2>8. Len(commands) \in Nat
    BY <2>1, <2>4, <2>6
  <2>9. Follows(s, start, UpdateDatabaseAndRespond(s, start, commands))
    BY <2>2, <2>7, <2>8, LoopFollows
  <2>10. Follows(s, st, start)
    BY <2>2, FollowsSame
  <2> HIDE DEF HandlerStates
  <2> QED BY <2>5, <2>9, <2>10, FollowsTrans
<1> QED BY <1>1, <1>2
-----------------------------------------------------------------------------
(***************************************************************************)
(* The inductive invariant.  A start signal reaches a server only in its   *)
(* establish loop, before any client of it has heard anything; a client    *)
(* sends only after it has heard something.  So answers never come first,  *)
(* and no signal comes second.                                             *)
(***************************************************************************)
Signals(s) == cluster_messages[s] \ {OmniPaxosMessage}
Quiet(s) == \A c \in ClientsOf(s) : responses[c] = <<>>

HeardBeforeSending ==
  \A c \in Client : /\ delivered[c] <= Len(responses[c])
                    /\ requests[c] # <<>> => delivered[c] # 0

SlotsKept ==
  /\ \A c \in Client : ClientId(c) \notin client_connections[ServerOf(c)] => client_link[c] = "closed"
  /\ \A t \in Peers(InitialLeader) :
       t \notin peer_connections[InitialLeader] => peer_link[InitialLeader][t] # "up"

\* Only a handshake of the lower id with the higher one loses anything, and once
\* it is over.
SpoiledLinks ==
  \A s, t \in Servers : peer_link[t][s] \in {"spoiled", "cut"} => s < t /\ phase[s] # "starting"

StrandedUnheard == \A s \in Servers : Stranded(s) => peer_link[InitialLeader][s] # "up"

Unstarted ==
  /\ \A s \in Servers : Waiting(s) => Quiet(s)
  /\ \A s \in Servers : Signals(s) # {} => phase[s] # "run"
  /\ Waiting(InitialLeader) =>
       \A s \in Servers : Signals(s) = {} /\ Quiet(s) /\ phase[s] # "run"

OneInstant ==
  \E time : /\ \A s \in Servers : Signals(s) \subseteq {LeaderStartSignal(time)}
            /\ \A c \in Client : responses[c] # <<>> => responses[c][1] = StartSignal(time)

OneSignal ==
  \A c \in Client : \A i \in 2..Len(responses[c]) : responses[c][i].type # "StartSignal"

Promoted ==
  /\ \A s \in Servers : Signals(s) # {} => leadership = "accept"
  /\ \A c \in Client : responses[c] # <<>> => leadership = "accept"

ToldUnlessGone ==
  \A c \in Client : phase[ServerOf(c)] = "run" /\ responses[c] = <<>> => client_link[c] # "up"

StartInv ==
  /\ HeardBeforeSending /\ SlotsKept /\ Unstarted /\ OneInstant /\ OneSignal
  /\ Promoted /\ ToldUnlessGone /\ StrandedUnheard /\ SpoiledLinks

LEMMA InitStart == Init => StartInv
<1> SUFFICES ASSUME Init PROVE StartInv
  OBVIOUS
<1>1. /\ \A c \in Client : responses[c] = <<>> /\ delivered[c] = 0 /\ requests[c] = <<>>
      /\ \A s \in Servers : Signals(s) = {} /\ phase[s] = "starting"
      /\ \A s, t \in Servers : peer_link[t][s] = "up"
  BY DEF Init, StreamsInit, Signals
<1>2. \A c \in Client : Len(responses[c]) = 0
  BY <1>1
<1>3. HeardBeforeSending
  BY <1>1, <1>2 DEF HeardBeforeSending
<1>4. SlotsKept
  BY ClientParts, InitialLeaderAssumption DEF SlotsKept, Init
<1>5. \A s \in Servers : Quiet(s)
  BY <1>1 DEF Quiet, ClientsOf
<1>6. Unstarted /\ OneInstant /\ Promoted /\ ToldUnlessGone
  BY <1>1, <1>5, ClientParts DEF Unstarted, OneInstant, Promoted, ToldUnlessGone, Waiting
<1>7. OneSignal
  BY <1>2 DEF OneSignal
<1>8. StrandedUnheard /\ SpoiledLinks
  BY <1>1, InitialLeaderAssumption DEF StrandedUnheard, Stranded, Waiting, SpoiledLinks
<1> QED BY <1>3, <1>4, <1>6, <1>7, <1>8 DEF StartInv

\* A client that has heard nothing has sent nothing, so there is nothing to
\* answer it.
LEMMA UnheardNeverIssued ==
  ASSUME IInv, Accounted, HeardBeforeSending, NEW c \in Client, responses[c] = <<>>
  PROVE  NeverIssued(c)
<1>1. /\ appended \in [Client -> Nat] /\ delivered[c] \in Nat /\ requests[c] \in Seq(KVCommand)
      /\ log \in Seq(Command)
  BY DEF IInv, TypeOK, LibTypeOK, StreamsTypeOK
<1>2. delivered[c] = 0
  BY <1>1 DEF HeardBeforeSending
<1>3. appended[c] = 0
  BY <1>1, <1>2 DEF HeardBeforeSending, Accounted
<1>4. SUFFICES ASSUME NEW n \in 1..Len(log), IssuedBy(log[n]) = c PROVE FALSE
  BY DEF NeverIssued
<1>5. log[n] \in ToSet(log)
  BY <1>1 DEF ToSet
<1>6. PICK e \in Client : \E i \in 1..appended[e] : log[n] = CommandOf(e, i)
  BY <1>5 DEF Accounted, RequestsAccountedFor
<1>7. IssuedBy(log[n]) = <<ServerOf(e), ClientId(e)>>
  BY <1>6 DEF IssuedBy, CommandOf
<1>8. e = c
  BY <1>4, <1>7, ClientParts
<1> QED BY <1>3, <1>6, <1>8

\* An action that sends no start signal and no answer.
Wordless ==
  /\ UNCHANGED <<responses, client_connections>>
  /\ HeardBeforeSending' /\ StrandedUnheard' /\ SpoiledLinks'
  /\ \A s \in Servers :
       /\ Waiting(s)' => Waiting(s)
       /\ phase'[s] = "run" => phase[s] = "run"
       /\ Signals(s)' \subseteq Signals(s)
  /\ leadership = "accept" => leadership' = "accept"
  /\ \A c \in Client : /\ client_link[c] = "closed" => client_link'[c] = "closed"
                       /\ client_link'[c] = "up" => client_link[c] = "up"
  /\ \A t \in Peers(InitialLeader) :
       /\ peer_link'[InitialLeader][t] = "up" => peer_link[InitialLeader][t] = "up"
       /\ t \in peer_connections[InitialLeader] \ peer_connections'[InitialLeader]
            => peer_link'[InitialLeader][t] # "up"

LEMMA StartElsewhere ==
  ASSUME StartInv, Wordless
  PROVE  StartInv'
<1>1. SlotsKept'
  BY DEF Wordless, StartInv, SlotsKept, Peers
<1>2. Unstarted'
  BY InitialLeaderAssumption DEF Wordless, StartInv, Unstarted, Quiet
<1>3. OneInstant'
  BY DEF Wordless, StartInv, OneInstant
<1>4. OneSignal'
  BY DEF Wordless, StartInv, OneSignal
<1>5. Promoted'
  BY DEF Wordless, StartInv, Promoted
<1>6. ToldUnlessGone'
  BY ClientParts DEF Wordless, StartInv, ToldUnlessGone
<1> QED BY <1>1, <1>2, <1>3, <1>4, <1>5, <1>6 DEF StartInv, Wordless
-----------------------------------------------------------------------------
(* One lemma per action. *)

LEMMA OutgoingSent ==
  ASSUME NEW s \in Servers, NEW T, NEW inbox, SendOutgoingMsgs(s, T, inbox),
         peer_connections \in [Servers -> SUBSET Servers]
  PROVE  /\ \A u \in Servers : Signals(u)' = inbox[u] \ {OmniPaxosMessage}
         /\ \A u \in Servers : /\ peer_connections'[u] \subseteq peer_connections[u]
                               /\ \A t \in peer_connections[u] \ peer_connections'[u] :
                                    peer_link[u][t] = "closed"
BY DEF SendOutgoingMsgs, SendToCluster, Signals

LEMMA StartOutgoing ==
  ASSUME IInv, StartInv, NEW s \in Servers, NEW T, SendOutgoingMsgs(s, T, cluster_messages),
         UNCHANGED <<phase, responses, delivered, requests, client_connections, client_link, peer_link>>,
         leadership = "accept" => leadership' = "accept"
  PROVE  StartInv'
<1>1. /\ \A u \in Servers : Signals(u)' = Signals(u)
      /\ \A t \in peer_connections[InitialLeader] \ peer_connections'[InitialLeader] :
           peer_link[InitialLeader][t] = "closed"
  BY OutgoingSent, InitialLeaderAssumption DEF IInv, TypeOK, Signals
<1>2. HeardBeforeSending'
  BY DEF StartInv, HeardBeforeSending
<1>3. StrandedUnheard' /\ SpoiledLinks'
  BY <1>1 DEF StartInv, StrandedUnheard, Stranded, Waiting, SpoiledLinks, Signals
<1>4. Wordless
  BY <1>1, <1>2, <1>3 DEF Wordless, Waiting
<1> QED BY <1>4, StartElsewhere

LEMMA StartClient ==
  ASSUME IInv, StartInv, NEW c \in Client, ClientStep(c)
  PROVE  StartInv'
<1>1. /\ UNCHANGED <<leadership, phase, client_connections, peer_connections, cluster_messages,
                     responses, peer_link>>
      /\ \A e \in Client : /\ client_link[e] = "closed" => client_link'[e] = "closed"
                           /\ client_link'[e] = "up" => client_link[e] = "up"
  BY DEF ClientStep, ClientReceives, ClientFinishes, ClientSends, libVars, serverVars, channelVars,
         linkVars, IInv, TypeOK, StreamsTypeOK
<1>2. HeardBeforeSending'
  <2>1. /\ delivered \in [Client -> Nat] /\ requests \in [Client -> Seq(KVCommand)]
        /\ \A e \in Client : Len(responses[e]) \in Nat
    BY DEF IInv, TypeOK, StreamsTypeOK
  <2>2. CASE ClientReceives(c)
    BY <1>1, <2>1, <2>2 DEF ClientReceives, StartInv, HeardBeforeSending
  <2>3. CASE ClientFinishes(c)
    BY <2>3 DEF ClientFinishes, channelVars, StartInv, HeardBeforeSending
  <2>4. ASSUME NEW cmd, ClientSends(c, cmd) PROVE HeardBeforeSending'
    BY <1>1, <2>1, <2>4 DEF ClientSends, StartInv, HeardBeforeSending
  <2> QED BY <2>2, <2>3, <2>4 DEF ClientStep
<1>3. StrandedUnheard' /\ SpoiledLinks' /\ \A s \in Servers : Signals(s)' = Signals(s)
  BY <1>1 DEF StartInv, StrandedUnheard, Stranded, Waiting, SpoiledLinks, Signals
<1>4. \A s \in Servers : Waiting(s)' = Waiting(s) /\ phase'[s] = phase[s]
  BY <1>1 DEF Waiting
<1>5. \A t \in Peers(InitialLeader) :
        /\ peer_link'[InitialLeader][t] = "up" => peer_link[InitialLeader][t] = "up"
        /\ t \in peer_connections[InitialLeader] \ peer_connections'[InitialLeader]
             => peer_link'[InitialLeader][t] # "up"
  BY <1>1
<1>6. (leadership = "accept" => leadership' = "accept") /\ UNCHANGED <<responses, client_connections>>
  BY <1>1
<1>7. Wordless
  BY <1>1, <1>2, <1>3, <1>4, <1>5, <1>6 DEF Wordless
<1> QED BY <1>7, StartElsewhere

\* A failure takes connections down and start signals away, never up or back;
\* a signal is lost only with the connection it was to come over.
LEMMA StartFailure ==
  ASSUME IInv, StartInv, Failure
  PROVE  StartInv'
<1>1. /\ client_link \in [Client -> LinkState] /\ phase \in [Servers -> {"starting", "establish", "run", "crashed"}]
      /\ peer_link \in [Servers -> [Servers -> PeerLinkState]] /\ InitialLeader \in Servers
  BY InitialLeaderAssumption DEF IInv, TypeOK, StreamsTypeOK
<1>2. ASSUME NEW c \in Client, ClientLeaves(c) PROVE StartInv'
  <2>1. UNCHANGED <<leadership, phase, client_connections, peer_connections, cluster_messages,
                    requests, responses, delivered, peer_link>>
    BY <1>2 DEF ClientLeaves, libVars, serverVars, channelVars
  <2>2. \A e \in Client : /\ client_link[e] = "closed" => client_link'[e] = "closed"
                          /\ client_link'[e] = "up" => client_link[e] = "up"
    BY <1>1, <1>2 DEF ClientLeaves
  <2>3. /\ HeardBeforeSending' /\ StrandedUnheard' /\ SpoiledLinks'
        /\ \A s \in Servers : Signals(s)' = Signals(s)
    BY <2>1 DEF StartInv, HeardBeforeSending, StrandedUnheard, Stranded, Waiting, SpoiledLinks, Signals
  <2>4. Wordless
    BY <2>1, <2>2, <2>3 DEF Wordless, Waiting
  <2> QED BY <2>4, StartElsewhere
<1>3. ASSUME NEW L, LoseStartSignals(L) PROVE \A s \in Servers : /\ Signals(s)' \subseteq Signals(s)
                                                                 /\ s \notin L => Signals(s)' = Signals(s)
  BY <1>3 DEF LoseStartSignals, Signals
<1>4. ASSUME NEW s \in Servers, NEW t \in Servers, NEW L, LinkBreaks(s, t, L) PROVE StartInv'
  <2>1. UNCHANGED <<leadership, phase, client_connections, peer_connections,
                    requests, responses, delivered, client_link>>
    BY <1>4 DEF LinkBreaks, libVars, serverVars
  <2>2. /\ \A x, y \in Servers : peer_link'[x][y] \in {peer_link[x][y], "gone"}
        /\ peer_link'[s][t] # "up"
    BY <1>1, <1>4 DEF LinkBreaks
  <2>3. HeardBeforeSending'
    BY <2>1 DEF StartInv, HeardBeforeSending
  <2>4. \A x \in Servers : /\ Signals(x)' \subseteq Signals(x)
                           /\ x \notin L => Signals(x)' = Signals(x)
    BY <1>3, <1>4 DEF LinkBreaks
  <2>5. (s = InitialLeader /\ L \subseteq {t}) \/ L = {}
    BY <1>4 DEF LinkBreaks
  <2>6. StrandedUnheard' /\ SpoiledLinks'
    BY <1>1, <2>1, <2>2, <2>4, <2>5
       DEF StartInv, StrandedUnheard, Stranded, Waiting, SpoiledLinks, Signals
  <2>7. \A x \in Peers(InitialLeader) : x \in Servers
    BY DEF Peers
  <2>8. Wordless
    BY <1>1, <2>1, <2>2, <2>3, <2>4, <2>6, <2>7 DEF Wordless, Waiting
  <2> QED BY <2>8, StartElsewhere
<1>5. ASSUME NEW s \in Servers, NEW L, Crash(s, L) PROVE StartInv'
  <2>1. UNCHANGED <<leadership, client_connections, peer_connections,
                    requests, responses, delivered, client_link>>
    BY <1>5 DEF Crash, libVars
  <2>2. /\ \A x, y \in Servers : peer_link'[x][y] \in {peer_link[x][y], "gone"}
        /\ \A y \in Servers : peer_link'[s][y] # "up"
    BY <1>1, <1>5 DEF Crash, Intact
  <2>3. /\ phase'[s] = "crashed"
        /\ \A x \in Servers \ {s} : phase'[x] = phase[x]
    BY <1>1, <1>5 DEF Crash
  <2>4. HeardBeforeSending'
    BY <2>1 DEF StartInv, HeardBeforeSending
  <2>5. \A x \in Servers : /\ Signals(x)' \subseteq Signals(x)
                           /\ x \notin L => Signals(x)' = Signals(x)
    BY <1>3, <1>5 DEF Crash
  <2>6. s = InitialLeader \/ L = {}
    BY <1>5 DEF Crash
  <2>7. StrandedUnheard' /\ SpoiledLinks'
    BY <1>1, <2>2, <2>3, <2>5, <2>6 DEF StartInv, StrandedUnheard, Stranded, Waiting, SpoiledLinks, Signals
  <2>8. \A x \in Peers(InitialLeader) : x \in Servers
    BY DEF Peers
  <2>9. Wordless
    BY <1>1, <2>1, <2>2, <2>3, <2>4, <2>5, <2>7, <2>8 DEF Wordless, Waiting
  <2> QED BY <2>9, StartElsewhere
<1>6. ASSUME WriterEnds PROVE StartInv'
  <2>1. UNCHANGED <<leadership, phase, client_connections, peer_connections, cluster_messages,
                    requests, responses, delivered>>
    BY <1>6 DEF WriterEnds, libVars, serverVars, channelVars
  <2>2. /\ \A e \in Client : /\ client_link[e] = "closed" => client_link'[e] = "closed"
                             /\ client_link'[e] = "up" => client_link[e] = "up"
        /\ \A x, y \in Servers : peer_link'[x][y] \in {peer_link[x][y], "closed"}
    BY <1>1, <1>6 DEF WriterEnds
  <2>3. HeardBeforeSending' /\ \A s \in Servers : Signals(s)' = Signals(s)
    BY <2>1 DEF StartInv, HeardBeforeSending, Signals
  <2>4. StrandedUnheard' /\ SpoiledLinks'
    BY <1>1, <2>1, <2>2 DEF StartInv, StrandedUnheard, Stranded, Waiting, SpoiledLinks
  <2>5. \A s \in Servers : Waiting(s)' = Waiting(s) /\ phase'[s] = phase[s]
    BY <2>1 DEF Waiting
  <2>6. \A t \in Peers(InitialLeader) :
          /\ peer_link'[InitialLeader][t] = "up" => peer_link[InitialLeader][t] = "up"
          /\ t \in peer_connections[InitialLeader] \ peer_connections'[InitialLeader]
               => peer_link'[InitialLeader][t] # "up"
    BY <1>1, <2>1, <2>2 DEF Peers
  <2>7. (leadership = "accept" => leadership' = "accept") /\ UNCHANGED <<responses, client_connections>>
    BY <2>1
  <2> HIDE DEF LinkState
  <2>8. Wordless
    BY <2>2, <2>3, <2>4, <2>5, <2>6, <2>7 DEF Wordless
  <2> QED BY <2>8, StartElsewhere
<1> QED BY <1>2, <1>4, <1>5, <1>6 DEF Failure, LinkFailure
-----------------------------------------------------------------------------
(* The two actions that send start signals. *)

\* What the clients of s hear of it: the signal, if their slot and connection
\* are there.
LEMMA SignalsSent ==
  ASSUME NEW s \in Servers, NEW time \in StartTimes, NEW a \in HandlerStates
  PROVE  LET b == SendClientStartSignals(s, time, a) IN
         /\ b \in HandlerStates
         /\ DroppedWhenClosed(s, a.conns, b.conns)
         /\ \A c \in Client : ServerOf(c) # s => b.out[c] = a.out[c]
         /\ \A c \in ClientsOf(s) :
              IF ClientId(c) \in a.conns /\ client_link[c] # "closed"
              THEN b.out[c] = Append(a.out[c], StartSignal(time))
              ELSE b.out[c] = a.out[c]
<1> DEFINE kept == {id \in a.conns : ~ (id \in ClientIds(s) /\ client_link[<<s, id>>] = "closed")}
           out == [c \in Client |->
                     IF /\ c \in ClientsOf(s)
                        /\ ClientId(c) \in a.conns
                        /\ client_link[c] # "closed"
                     THEN Append(a.out[c], StartSignal(time)) ELSE a.out[c]]
           b == SendClientStartSignals(s, time, a)
<1>1. b \in HandlerStates
  BY StartSignalsTyped
<1>2. b.conns = kept /\ b.out = out
  BY DEF SendClientStartSignals, HandlerStates
<1> HIDE DEF b
<1>3. DroppedWhenClosed(s, a.conns, b.conns)
  BY <1>2 DEF DroppedWhenClosed
<1>4. \A c \in Client : ServerOf(c) # s => b.out[c] = a.out[c]
  BY <1>2 DEF ClientsOf
<1>5. \A c \in ClientsOf(s) :
        IF ClientId(c) \in a.conns /\ client_link[c] # "closed"
        THEN b.out[c] = Append(a.out[c], StartSignal(time))
        ELSE b.out[c] = a.out[c]
  BY <1>2 DEF ClientsOf
<1> QED BY <1>1, <1>3, <1>4, <1>5 DEF b

LEMMA OneMessage ==
  ASSUME NEW m \in ServerMessage
  PROVE  /\ Append(<<>>, m) \in Seq(ServerMessage) /\ Append(<<>>, m) # <<>>
         /\ Len(Append(<<>>, m)) = 1 /\ Append(<<>>, m)[1] = m
BY AppendProperties

LEMMA StartSendStartSignals ==
  ASSUME IInv, StartInv, NEW s \in Servers, NEW time \in StartTimes, SendStartSignals(s, time)
  PROVE  StartInv'
<1> DEFINE a == HandlerState(s)
           b == SendClientStartSignals(s, time, a)
<1>1. /\ s = InitialLeader /\ phase[s] = "establish" /\ leadership = "accept"
      /\ SendToCluster(s, Peers(s), LeaderStartSignal(time), cluster_messages)
      /\ Becomes(s, b) /\ phase' = [phase EXCEPT ![s] = "run"]
      /\ UNCHANGED <<libVars, requests, appended, delivered, linkVars>>
  BY DEF SendStartSignals
<1>2. /\ responses \in [Client -> Seq(ServerMessage)] /\ phase \in [Servers -> {"starting", "establish", "run", "crashed"}]
      /\ client_connections \in [Servers -> SUBSET Nat] /\ cluster_messages \in [Servers -> SUBSET ClusterMessage]
      /\ peer_connections \in [Servers -> SUBSET Servers] /\ delivered \in [Client -> Nat]
  BY DEF IInv, TypeOK, StreamsTypeOK
<1>3. a \in HandlerStates /\ a.out = responses /\ a.conns = client_connections[s]
  BY HandlerStateApplied DEF Applied, HandlerState
<1>4. /\ b \in HandlerStates
      /\ DroppedWhenClosed(s, a.conns, b.conns)
      /\ \A c \in Client : ServerOf(c) # s => b.out[c] = a.out[c]
      /\ \A c \in ClientsOf(s) :
           IF ClientId(c) \in a.conns /\ client_link[c] # "closed"
           THEN b.out[c] = Append(a.out[c], StartSignal(time))
           ELSE b.out[c] = a.out[c]
  BY <1>3, SignalsSent
<1>5. responses' = b.out /\ client_connections' = [client_connections EXCEPT ![s] = b.conns]
  BY <1>1 DEF Becomes
<1> HIDE DEF a, b
<1>6. /\ \A u \in Servers : Signals(u) = {} /\ phase[u] # "run"
      /\ \A c \in Client : responses[c] = <<>>
  BY <1>1, ClientParts DEF StartInv, Unstarted, Waiting, Quiet
<1>7. StartSignal(time) \in ServerMessage
  BY DEF StartSignal, ServerMessage
<1>8. ASSUME NEW c \in Client
      PROVE  \/ responses'[c] = <<>> /\ (ServerOf(c) = s => client_link[c] = "closed")
             \/ /\ ServerOf(c) = s /\ responses'[c] # <<>>
                /\ Len(responses'[c]) = 1 /\ responses'[c][1] = StartSignal(time)
  <2>1. CASE ServerOf(c) # s
    BY <1>3, <1>4, <1>5, <1>6, <2>1
  <2>2. CASE ServerOf(c) = s
    <3>1. c \in ClientsOf(s) /\ a.out[c] = <<>>
      BY <1>3, <1>6, <2>2 DEF ClientsOf
    <3>2. ClientId(c) \notin a.conns => client_link[c] = "closed"
      BY <1>3, <2>2 DEF StartInv, SlotsKept
    <3> QED BY <1>4, <1>5, <1>7, <2>2, <3>1, <3>2, OneMessage
  <2> QED BY <2>1, <2>2
<1>9. \A u \in Servers : IF u \in Peers(s) /\ u \in peer_connections[s] /\ peer_link[s][u] \in Heard
                         THEN Signals(u)' = {LeaderStartSignal(time)} ELSE Signals(u)' = {}
  BY <1>1, <1>2, <1>6 DEF SendToCluster, Signals, LeaderStartSignal, OmniPaxosMessage
<1>10. /\ peer_connections'[s] \subseteq peer_connections[s]
       /\ \A t \in peer_connections[s] \ peer_connections'[s] : peer_link[s][t] = "closed"
  BY <1>1, <1>2 DEF SendToCluster
<1>11. /\ phase'[s] = "run" /\ \A u \in Servers \ {s} : phase'[u] = phase[u]
       /\ UNCHANGED <<requests, delivered, client_link, peer_link, leadership>>
  BY <1>1, <1>2 DEF libVars, linkVars
<1>12. HeardBeforeSending'
  <2>1. \A c \in Client : delivered[c] = 0 /\ (requests[c] # <<>> => delivered[c] # 0)
    BY <1>2, <1>6 DEF StartInv, HeardBeforeSending
  <2>2. \A c \in Client : 0 <= Len(responses'[c])
    BY <1>8
  <2> QED BY <1>11, <2>1, <2>2 DEF HeardBeforeSending
<1>13. SlotsKept'
  <2>1. ASSUME NEW c \in Client, ClientId(c) \notin client_connections'[ServerOf(c)]
        PROVE  client_link'[c] = "closed"
    <3>1. CASE ClientId(c) \notin client_connections[ServerOf(c)]
      BY <1>11, <3>1 DEF StartInv, SlotsKept
    <3>2. CASE ClientId(c) \in client_connections[ServerOf(c)]
      <4>1. ServerOf(c) = s /\ ClientId(c) \in a.conns \ b.conns
        BY <1>2, <1>3, <1>5, <2>1, <3>2, ClientParts
      <4> QED BY <1>4, <1>11, <4>1, ClientParts DEF DroppedWhenClosed
    <3> QED BY <3>1, <3>2
  <2> QED BY <1>1, <1>10, <1>11, <2>1 DEF StartInv, SlotsKept
<1>14. Unstarted'
  <2>1. ASSUME NEW u \in Servers, Waiting(u)' PROVE Quiet(u)'
    <3>1. u # s
      BY <1>11, <2>1 DEF Waiting
    <3> QED BY <1>8, <3>1 DEF Quiet, ClientsOf
  <2>2. \A u \in Servers : Signals(u)' # {} => phase'[u] # "run"
    BY <1>6, <1>9, <1>11 DEF Peers
  <2> QED BY <1>1, <1>11, <2>1, <2>2 DEF Unstarted, Waiting
<1>15. OneInstant'
  BY <1>8, <1>9 DEF OneInstant
<1>16. OneSignal'
  <2>1. \A c \in Client : Len(responses'[c]) \in {0, 1}
    BY <1>8
  <2> QED BY <2>1 DEF OneSignal
<1>17. Promoted'
  BY <1>1, <1>11 DEF Promoted
<1>18. ToldUnlessGone'
  BY <1>6, <1>8, <1>11, ClientParts DEF ToldUnlessGone
<1>19. StrandedUnheard'
  <2> SUFFICES ASSUME NEW u \in Servers, Waiting(u)', Signals(u)' = {}
               PROVE  peer_link'[s][u] # "up"
    BY <1>1 DEF StrandedUnheard, Stranded, Signals
  <2>1. u \in Peers(s)
    BY <1>11 DEF Peers, Waiting
  <2>2. u \notin peer_connections[s] => peer_link[s][u] # "up"
    BY <1>1, <2>1 DEF StartInv, SlotsKept
  <2> QED BY <1>9, <1>11, <2>1, <2>2 DEF Heard
<1>20. SpoiledLinks'
  BY <1>11 DEF StartInv, SpoiledLinks
<1> QED BY <1>12, <1>13, <1>14, <1>15, <1>16, <1>17, <1>18, <1>19, <1>20 DEF StartInv

\* What a batch of peer messages does to the streams: a client is answered, or,
\* when the batch brings the start signal and the client has heard nothing yet,
\* it hears that.
LEMMA BatchAnswers ==
  ASSUME IInv, Accounted, StartInv, NEW s \in Servers, NEW batch, NEW rest, NEW d1, NEW d2,
         NEW lead, NEW T, HandleClusterMessages(s, batch, rest, d1, d2, lead, T),
         NEW time, \A u \in Servers : Signals(u) \subseteq {LeaderStartSignal(time)}
  PROVE  /\ DroppedWhenClosed(s, client_connections[s], client_connections'[s])
         /\ \A u \in Servers \ {s} : client_connections'[u] = client_connections[u]
         /\ \A c \in Client :
              IF batch \subseteq {OmniPaxosMessage} \/ ServerOf(c) # s
              THEN AnswersAdded(c, responses[c], responses'[c])
              ELSE /\ phase[s] = "establish" /\ s # InitialLeader
                   /\ \/ responses'[c] = <<>> /\ client_link[c] = "closed"
                      \/ /\ responses'[c] # <<>> /\ Len(responses'[c]) = 1
                         /\ responses'[c][1] = StartSignal(time)
<1> DEFINE signals == batch \ {OmniPaxosMessage}
           a == HandlerState(s)
           before == HandleDecidedEntries(s, d1, a)
           chosen == (CHOOSE m \in signals : TRUE).time
           told == SendClientStartSignals(s, chosen, before)
           between == IF signals = {} THEN before ELSE told
           final == HandleDecidedEntries(s, d2, between)
<1>1. /\ batch \subseteq cluster_messages[s] /\ phase[s] \in {"establish", "run"} /\ Becomes(s, final)
  BY DEF HandleClusterMessages
<1>2. /\ log \in Seq(Command) /\ Len(log) \in Nat /\ decided_idx \in [Servers -> Nat]
      /\ current_decided_idx[s] \in Nat /\ current_decided_idx[s] <= Len(log)
      /\ client_connections \in [Servers -> SUBSET Nat]
      /\ cluster_messages \in [Servers -> SUBSET ClusterMessage]
  BY DEF IInv, TypeOK, LibTypeOK, ReplicaMatchesLog
<1>3. d1 \in Nat /\ d2 \in Nat /\ d1 <= Len(log) /\ d2 <= Len(log)
  <2>1. CASE OmniPaxosMessage \in batch
    <3>1. d2 \in decided_idx[s]..Len(log) /\ d1 \in {current_decided_idx[s]} \cup decided_idx[s]..d2
      BY <2>1 DEF HandleClusterMessages, LearnDecided
    <3> QED BY <1>2, <3>1
  <2>2. CASE OmniPaxosMessage \notin batch
    BY <1>2, <2>2 DEF HandleClusterMessages
  <2> QED BY <2>1, <2>2
<1>4. a \in HandlerStates /\ a.out = responses /\ a.conns = client_connections[s]
  BY HandlerStateApplied DEF Applied, HandlerState
<1> HIDE DEF a
<1>5. Follows(s, a, before)
  BY <1>2, <1>3, <1>4, HandleDecidedFollows
<1> HIDE DEF before
<1>6. responses' = final.out /\ client_connections' = [client_connections EXCEPT ![s] = final.conns]
  BY <1>1 DEF Becomes
<1>7. \A u \in Servers \ {s} : client_connections'[u] = client_connections[u]
  BY <1>2, <1>6
<1>8. CASE signals = {}
  <2>1. between = before
    BY <1>8
  <2> HIDE DEF between
  <2>2. Follows(s, before, final)
    BY <1>2, <1>3, <1>5, <2>1, HandleDecidedFollows DEF Follows
  <2> HIDE DEF final
  <2>3. Follows(s, a, final)
    BY <1>4, <1>5, <2>2, FollowsTrans
  <2>4. batch \subseteq {OmniPaxosMessage}
    BY <1>8
  <2> QED BY <1>2, <1>4, <1>6, <1>7, <2>3, <2>4 DEF Follows
<1>9. CASE signals # {}
  <2>1. signals \subseteq Signals(s)
    BY <1>1 DEF Signals
  <2>2. signals = {LeaderStartSignal(time)}
    BY <1>9, <2>1
  <2>3. LeaderStartSignal(time) \in ClusterMessage /\ LeaderStartSignal(time) # OmniPaxosMessage
    BY <1>1, <1>2, <2>2
  <2>4. time \in StartTimes
    BY <2>3 DEF ClusterMessage, LeaderStartSignal
  <2>5. chosen = time
    <3>1. (CHOOSE m \in signals : TRUE) = LeaderStartSignal(time)
      BY <2>2
    <3>2. LeaderStartSignal(time).time = time
      BY DEF LeaderStartSignal
    <3> HIDE DEF signals
    <3> QED BY <3>1, <3>2
  <2>6. between = told /\ told = SendClientStartSignals(s, time, before)
    BY <1>9, <2>5
  <2> HIDE DEF signals, chosen, told, between
  <2>7. before \in HandlerStates
    BY <1>5 DEF Follows
  <2>8. /\ told \in HandlerStates
        /\ DroppedWhenClosed(s, before.conns, told.conns)
        /\ \A c \in Client : ServerOf(c) # s => told.out[c] = before.out[c]
        /\ \A c \in ClientsOf(s) :
             IF ClientId(c) \in before.conns /\ client_link[c] # "closed"
             THEN told.out[c] = Append(before.out[c], StartSignal(time))
             ELSE told.out[c] = before.out[c]
    BY <2>4, <2>6, <2>7, SignalsSent
  <2>9. Follows(s, told, final)
    BY <1>2, <1>3, <2>6, <2>8, HandleDecidedFollows
  <2> HIDE DEF final
  <2>10. DroppedWhenClosed(s, a.conns, final.conns)
    BY <1>5, <2>8, <2>9 DEF Follows, DroppedWhenClosed
  <2>11. ASSUME NEW c \in Client, ServerOf(c) # s
         PROVE  AnswersAdded(c, responses[c], responses'[c])
    <3>1. AnswersAdded(c, a.out[c], before.out[c]) /\ AnswersAdded(c, before.out[c], final.out[c])
      BY <1>5, <2>8, <2>9, <2>11 DEF Follows
    <3>2. Len(a.out[c]) \in Nat /\ Len(before.out[c]) \in Nat /\ Len(final.out[c]) \in Nat
      BY <1>4, <2>7, <2>9 DEF Follows, HandlerStates
    <3> QED BY <1>4, <1>6, <3>1, <3>2, AnswersAddedTrans
  <2>12. phase[s] = "establish" /\ s # InitialLeader /\ Quiet(s)
    BY <1>1, <1>9, <2>1, InitialLeaderAssumption DEF StartInv, Unstarted, Waiting
  <2>13. ASSUME NEW c \in Client, ServerOf(c) = s
         PROVE  \/ responses'[c] = <<>> /\ client_link[c] = "closed"
                \/ /\ responses'[c] # <<>> /\ Len(responses'[c]) = 1
                   /\ responses'[c][1] = StartSignal(time)
    <3>1. c \in ClientsOf(s) /\ responses[c] = <<>>
      BY <2>12, <2>13 DEF Quiet, ClientsOf
    <3>2. NeverIssued(c)
      BY <3>1, UnheardNeverIssued DEF StartInv
    <3>3. before.out[c] = <<>> /\ final.out[c] = told.out[c]
      BY <1>4, <1>5, <2>9, <3>1, <3>2 DEF Follows, AnswersAdded
    <3>4. ClientId(c) \notin before.conns => client_link[c] = "closed"
      <4>1. c = <<s, ClientId(c)>>
        BY <2>13, ClientParts
      <4>2. ClientId(c) \notin a.conns => client_link[c] = "closed"
        BY <1>4, <2>13 DEF StartInv, SlotsKept
      <4> QED BY <1>5, <4>1, <4>2 DEF Follows, DroppedWhenClosed
    <3>5. StartSignal(time) \in ServerMessage
      BY <2>4 DEF StartSignal, ServerMessage
    <3> QED BY <1>6, <2>8, <3>1, <3>3, <3>4, <3>5, OneMessage
  <2>14. ~ (batch \subseteq {OmniPaxosMessage})
    BY <1>9 DEF signals
  <2> QED BY <1>2, <1>4, <1>6, <1>7, <2>10, <2>11, <2>12, <2>13, <2>14
<1> QED BY <1>8, <1>9

LEMMA StartHandleClusterMessages ==
  ASSUME IInv, IInv', Accounted, StartInv, NEW s \in Servers, NEW batch, NEW rest, NEW d1, NEW d2,
         NEW lead, NEW T, HandleClusterMessages(s, batch, rest, d1, d2, lead, T)
  PROVE  StartInv'
<1> DEFINE plain == batch \subseteq {OmniPaxosMessage}
           inbox == [cluster_messages EXCEPT ![s] = (@ \ batch) \cup rest]
<1>1. PICK time : /\ \A u \in Servers : Signals(u) \subseteq {LeaderStartSignal(time)}
                  /\ \A c \in Client : responses[c] # <<>> => responses[c][1] = StartSignal(time)
  BY DEF StartInv, OneInstant
<1>2. /\ DroppedWhenClosed(s, client_connections[s], client_connections'[s])
      /\ \A u \in Servers \ {s} : client_connections'[u] = client_connections[u]
      /\ \A c \in Client :
           IF plain \/ ServerOf(c) # s
           THEN AnswersAdded(c, responses[c], responses'[c])
           ELSE /\ phase[s] = "establish" /\ s # InitialLeader
                /\ \/ responses'[c] = <<>> /\ client_link[c] = "closed"
                   \/ /\ responses'[c] # <<>> /\ Len(responses'[c]) = 1
                      /\ responses'[c][1] = StartSignal(time)
  BY <1>1, BatchAnswers
<1>3. /\ phase[s] \in {"establish", "run"} /\ batch \subseteq cluster_messages[s]
      /\ rest \subseteq batch \cap {OmniPaxosMessage} /\ SendOutgoingMsgs(s, T, inbox)
      /\ phase' = [phase EXCEPT ![s] = IF batch \ {OmniPaxosMessage} = {} THEN @ ELSE "run"]
      /\ leadership' = lead /\ (lead = leadership \/ leadership = "prepare")
      /\ UNCHANGED <<log, pending, requests, appended, delivered, client_link, peer_link>>
  BY DEF HandleClusterMessages, linkVars
<1>4. /\ responses \in [Client -> Seq(ServerMessage)] /\ phase \in [Servers -> {"starting", "establish", "run", "crashed"}]
      /\ cluster_messages \in [Servers -> SUBSET ClusterMessage]
      /\ peer_connections \in [Servers -> SUBSET Servers] /\ delivered \in [Client -> Nat]
      /\ requests \in [Client -> Seq(KVCommand)]
  BY DEF IInv, TypeOK, StreamsTypeOK
<1>5. /\ \A u \in Servers : Signals(u)' = inbox[u] \ {OmniPaxosMessage}
      /\ \A u \in Servers : /\ peer_connections'[u] \subseteq peer_connections[u]
                            /\ \A t \in peer_connections[u] \ peer_connections'[u] :
                                 peer_link[u][t] = "closed"
  BY <1>3, <1>4, OutgoingSent
<1>6. /\ \A u \in Servers \ {s} : Signals(u)' = Signals(u) /\ phase'[u] = phase[u]
      /\ Signals(s)' = Signals(s) \ batch
      /\ phase'[s] = IF plain THEN phase[s] ELSE "run"
  BY <1>3, <1>4, <1>5 DEF Signals
<1>7. /\ plain => Signals(s)' = Signals(s)
      /\ ~ plain => Signals(s)' = {} /\ Signals(s) # {}
  BY <1>1, <1>3, <1>6 DEF Signals
<1>8. ~ plain => phase[s] = "establish" /\ s # InitialLeader
  BY <1>3, <1>7, InitialLeaderAssumption DEF StartInv, Unstarted, Waiting
<1>9. leadership = "accept" => leadership' = "accept"
  BY <1>3
<1> HIDE DEF plain, inbox
<1>10. ASSUME NEW c \in Client, AnswersAdded(c, responses[c], responses'[c])
       PROVE  /\ responses[c] = <<>> => responses'[c] = <<>>
              /\ responses[c] # <<>> => responses'[c] # <<>> /\ responses'[c][1] = responses[c][1]
              /\ Len(responses[c]) <= Len(responses'[c])
              /\ \A i \in 2..Len(responses'[c]) : responses'[c][i].type # "StartSignal"
  <2>1. responses[c] \in Seq(ServerMessage) /\ Len(responses[c]) \in Nat
    BY <1>4
  <2>2. responses[c] = <<>> => responses'[c] = <<>>
    BY <1>10, UnheardNeverIssued DEF AnswersAdded, StartInv
  <2>3. CASE responses[c] = <<>>
    BY <2>1, <2>2, <2>3
  <2>4. CASE responses[c] # <<>>
    <3>1. Len(responses[c]) >= 1
      BY <2>1, <2>4
    <3>2. responses'[c][1] = responses[c][1] /\ Len(responses'[c]) >= Len(responses[c])
      BY <1>10, <2>1, <3>1 DEF AnswersAdded
    <3>3. responses'[c] # <<>>
      BY <2>1, <3>1, <3>2
    <3>4. ASSUME NEW i \in 2..Len(responses'[c]) PROVE responses'[c][i].type # "StartSignal"
      <4>1. CASE i \in 2..Len(responses[c])
        <5>1. responses'[c][i] = responses[c][i]
          BY <1>10, <2>1, <4>1 DEF AnswersAdded
        <5> QED BY <4>1, <5>1 DEF StartInv, OneSignal
      <4>2. CASE i \in (Len(responses[c]) + 1)..Len(responses'[c])
        BY <1>10, <4>2 DEF AnswersAdded
      <4> QED BY <2>1, <4>1, <4>2
    <3> QED BY <2>4, <3>2, <3>3, <3>4
  <2> QED BY <2>3, <2>4
<1>11. ASSUME NEW c \in Client, ~ plain, ServerOf(c) = s
       PROVE  responses[c] = <<>> /\ delivered[c] = 0 /\ requests[c] = <<>>
  <2>1. responses[c] = <<>>
    BY <1>8, <1>11, ClientParts DEF StartInv, Unstarted, Waiting, Quiet
  <2> QED BY <1>4, <2>1 DEF StartInv, HeardBeforeSending
<1>12. HeardBeforeSending'
  <2> SUFFICES ASSUME NEW c \in Client
               PROVE  delivered[c] <= Len(responses'[c]) /\ (requests[c] # <<>> => delivered[c] # 0)
    BY <1>3 DEF HeardBeforeSending
  <2>1. CASE plain \/ ServerOf(c) # s
    <3>1. Len(responses[c]) <= Len(responses'[c]) /\ delivered[c] <= Len(responses[c])
      BY <1>2, <1>10, <2>1 DEF StartInv, HeardBeforeSending
    <3>2. Len(responses[c]) \in Nat /\ Len(responses'[c]) \in Nat /\ delivered[c] \in Nat
      <4>1. responses' \in [Client -> Seq(ServerMessage)]
        BY DEF IInv, TypeOK, StreamsTypeOK
      <4> QED BY <1>4, <4>1
    <3> QED BY <3>1, <3>2 DEF StartInv, HeardBeforeSending
  <2>2. CASE ~ (plain \/ ServerOf(c) # s)
    <3>1. Len(responses'[c]) \in {0, 1}
      BY <1>2, <2>2
    <3> QED BY <1>11, <2>2, <3>1
  <2> QED BY <2>1, <2>2
<1>13. SlotsKept'
  <2>1. ASSUME NEW c \in Client, ClientId(c) \notin client_connections'[ServerOf(c)]
        PROVE  client_link'[c] = "closed"
    <3>1. CASE ClientId(c) \notin client_connections[ServerOf(c)]
      BY <1>3, <3>1 DEF StartInv, SlotsKept
    <3>2. CASE ClientId(c) \in client_connections[ServerOf(c)]
      <4>1. ServerOf(c) = s
        BY <1>2, <2>1, <3>2, ClientParts
      <4> QED BY <1>2, <1>3, <2>1, <3>2, <4>1, ClientParts DEF DroppedWhenClosed
    <3> QED BY <3>1, <3>2
  <2> QED BY <1>3, <1>5, <2>1, InitialLeaderAssumption DEF StartInv, SlotsKept
<1>14. Unstarted'
  <2>1. ASSUME NEW u \in Servers, Quiet(u), u # s \/ plain PROVE Quiet(u)'
    <3> SUFFICES ASSUME NEW c \in ClientsOf(u) PROVE responses'[c] = <<>>
      BY DEF Quiet
    <3>1. c \in Client /\ ServerOf(c) = u /\ responses[c] = <<>>
      BY <2>1 DEF Quiet, ClientsOf
    <3> QED BY <1>2, <1>10, <2>1, <3>1
  <2>2. \A u \in Servers : Waiting(u)' => Quiet(u)'
    BY <1>6, <2>1 DEF StartInv, Unstarted, Waiting
  <2>3. \A u \in Servers : Signals(u)' # {} => phase'[u] # "run"
    BY <1>6, <1>7 DEF StartInv, Unstarted
  <2>4. Waiting(InitialLeader)' => Waiting(InitialLeader) /\ plain
    BY <1>6, <1>7, InitialLeaderAssumption DEF StartInv, Unstarted, Waiting
  <2>5. ASSUME Waiting(InitialLeader)', NEW u \in Servers
        PROVE  Signals(u)' = {} /\ Quiet(u)' /\ phase'[u] # "run"
    BY <1>6, <1>7, <2>1, <2>4, <2>5 DEF StartInv, Unstarted
  <2> QED BY <2>2, <2>3, <2>5 DEF Unstarted
<1>15. OneInstant'
  <2>1. \A u \in Servers : Signals(u)' \subseteq {LeaderStartSignal(time)}
    BY <1>1, <1>6
  <2>2. \A c \in Client : responses'[c] # <<>> => responses'[c][1] = StartSignal(time)
    BY <1>1, <1>2, <1>10
  <2> QED BY <2>1, <2>2 DEF OneInstant
<1>16. OneSignal'
  <2> SUFFICES ASSUME NEW c \in Client, NEW i \in 2..Len(responses'[c])
               PROVE  responses'[c][i].type # "StartSignal"
    BY DEF OneSignal
  <2>1. CASE plain \/ ServerOf(c) # s
    BY <1>2, <1>10, <2>1
  <2>2. CASE ~ (plain \/ ServerOf(c) # s)
    <3>1. Len(responses'[c]) \in {0, 1}
      BY <1>2, <2>2
    <3> QED BY <3>1
  <2> QED BY <2>1, <2>2
<1>17. Promoted'
  <2>1. \A u \in Servers : Signals(u)' # {} => leadership' = "accept"
    BY <1>6, <1>9 DEF StartInv, Promoted
  <2>2. ASSUME NEW c \in Client, responses'[c] # <<>> PROVE leadership' = "accept"
    BY <1>2, <1>7, <1>9, <1>10, <2>2 DEF StartInv, Promoted
  <2> QED BY <2>1, <2>2 DEF Promoted
<1>18. ToldUnlessGone'
  <2> SUFFICES ASSUME NEW c \in Client, phase'[ServerOf(c)] = "run", responses'[c] = <<>>
               PROVE  client_link[c] # "up"
    BY <1>3 DEF ToldUnlessGone
  <2>1. CASE plain \/ ServerOf(c) # s
    <3>1. responses[c] = <<>> /\ phase[ServerOf(c)] = "run"
      BY <1>2, <1>6, <1>10, <2>1, ClientParts
    <3> QED BY <3>1 DEF StartInv, ToldUnlessGone
  <2>2. CASE ~ (plain \/ ServerOf(c) # s)
    BY <1>2, <2>2
  <2> QED BY <2>1, <2>2
<1>19. StrandedUnheard'
  <2> SUFFICES ASSUME NEW u \in Servers, Waiting(u)', ~ Waiting(InitialLeader)', Signals(u)' = {}
               PROVE  peer_link[InitialLeader][u] # "up"
    BY <1>3 DEF StrandedUnheard, Stranded, Signals
  <2>1. Waiting(u) /\ Signals(u) = {}
    BY <1>6, <1>7 DEF Waiting
  <2>2. ~ Waiting(InitialLeader)
    BY <1>6, <1>8, InitialLeaderAssumption DEF Waiting
  <2> QED BY <2>1, <2>2 DEF StartInv, StrandedUnheard, Stranded, Signals
<1>20. SpoiledLinks'
  BY <1>3, <1>6 DEF StartInv, SpoiledLinks
<1> QED BY <1>12, <1>13, <1>14, <1>15, <1>16, <1>17, <1>18, <1>19, <1>20 DEF StartInv
-----------------------------------------------------------------------------
\* The start signal is lost with the buffer of a handshake only when its sender
\* dialled, and the link is marked.
LEMMA StartNetworkReady ==
  ASSUME IInv, StartInv, NEW s \in Servers, NetworkReturns(s)
  PROVE  StartInv'
<1>1. PICK spoiled, cut, lost : NetworkReady(s, spoiled, cut, lost)
  BY DEF NetworkReturns
<1>2. UNCHANGED <<leadership, client_connections, peer_connections, requests, responses, delivered,
                  client_link>>
  BY <1>1 DEF NetworkReady, libVars
<1>3. /\ phase[s] = "starting" /\ phase'[s] = "establish"
      /\ \A u \in Servers \ {s} : phase'[u] = phase[u]
  BY <1>1 DEF NetworkReady, IInv, TypeOK
<1>4. \A u \in Servers : Waiting(u)' = Waiting(u) /\ (phase'[u] = "run" => phase[u] = "run")
  BY <1>3 DEF Waiting
<1>5. /\ \A u \in Servers : Signals(u)' \subseteq Signals(u) /\ (u # s => Signals(u)' = Signals(u))
      /\ InitialLeader \notin spoiled \cup cut => Signals(s)' = Signals(s)
  BY <1>1 DEF NetworkReady, Signals, IInv, TypeOK
<1>6. \A t, u \in Servers :
        \/ peer_link'[t][u] = peer_link[t][u] /\ (u = s => t \notin spoiled \cup cut)
        \/ u = s /\ s < t /\ peer_link'[t][s] \in {"spoiled", "cut"}
  BY <1>1 DEF NetworkReady, MayBeReadAlong, IInv, TypeOK
<1>7. HeardBeforeSending'
  BY <1>2 DEF StartInv, HeardBeforeSending
<1>8. StrandedUnheard'
  BY <1>4, <1>5, <1>6, InitialLeaderAssumption DEF StartInv, StrandedUnheard, Stranded, Signals
<1>9. SpoiledLinks'
  BY <1>3, <1>6 DEF StartInv, SpoiledLinks
<1>10. \A t \in Peers(InitialLeader) :
         peer_link'[InitialLeader][t] = "up" => peer_link[InitialLeader][t] = "up"
  BY <1>6, InitialLeaderAssumption DEF Peers
<1>11. Wordless
  BY <1>2, <1>4, <1>5, <1>7, <1>8, <1>9, <1>10 DEF Wordless
<1> QED BY <1>11, StartElsewhere

LEMMA NextStart == IInv /\ IInv' /\ Accounted /\ StartInv /\ [Next]_vars => StartInv'
<1> SUFFICES ASSUME IInv, IInv', Accounted, StartInv, [Next]_vars PROVE StartInv'
  OBVIOUS
<1>1. ASSUME NEW s \in Servers, ServerStep(s) PROVE StartInv'
  <2>1. ASSUME NEW T, TakeLeadership(s, T) PROVE StartInv'
    <3>1. leadership # "accept"
      BY <2>1 DEF TakeLeadership
    <3> QED BY <2>1, <3>1, StartOutgoing DEF TakeLeadership, linkVars
  <2>2. ASSUME NEW batch, NEW rest, NEW d1, NEW d2, NEW lead, NEW T,
               HandleClusterMessages(s, batch, rest, d1, d2, lead, T)
        PROVE  StartInv'
    BY <2>2, StartHandleClusterMessages
  <2>3. ASSUME NEW T, NEW upto, HandleClientMessages(s, upto, T) PROVE StartInv'
    BY <2>3, StartOutgoing DEF HandleClientMessages, linkVars
  <2>4. ASSUME NEW T, Tick(s, T) PROVE StartInv'
    BY <2>4, StartOutgoing DEF Tick, linkVars, libVars
  <2>5. ASSUME NEW d, NEW T, Poll(s, d, T) PROVE StartInv'
    BY <2>5, StartOutgoing DEF Poll, linkVars
  <2> QED BY <1>1, <2>1, <2>2, <2>3, <2>4, <2>5 DEF ServerStep
<1>2. ASSUME UNCHANGED <<serverVars, channelVars, linkVars, leadership>> PROVE StartInv'
  <2>1. UNCHANGED <<phase, client_connections, peer_connections, cluster_messages, requests,
                    responses, delivered, client_link, peer_link, leadership>>
    BY <1>2 DEF serverVars, channelVars, linkVars
  <2>2. /\ HeardBeforeSending' /\ StrandedUnheard' /\ SpoiledLinks'
        /\ \A s \in Servers : Signals(s)' = Signals(s)
    BY <2>1 DEF StartInv, HeardBeforeSending, StrandedUnheard, Stranded, Waiting, SpoiledLinks, Signals
  <2>3. Wordless
    BY <2>1, <2>2 DEF Wordless, Waiting
  <2> QED BY <2>3, StartElsewhere
<1>3. CASE LibraryDecides
  BY <1>2, <1>3 DEF LibraryDecides, Decide
<1>4. CASE UNCHANGED vars
  BY <1>2, <1>4 DEF vars, libVars
<1> QED BY <1>1, <1>3, <1>4, StartNetworkReady, StartSendStartSignals, StartClient, StartFailure
        DEF Next

LEMMA StartInvariance == Spec => []StartInv
BY InitIInv, NextIInv, InitAccounted, NextAccounted, InitStart, NextStart, PTL DEF Spec

\* A client hears the start signal first and once, not before the initial leader
\* is promoted, and unless it is gone as soon as its server leaves the establish
\* loop: whatever the order of signals, answers and failures (server.rs).
THEOREM ClientsAreStartedOnce == Spec => []StartedOnce
<1>1. IInv /\ StartInv => StartedOnce
  <2> SUFFICES ASSUME IInv, StartInv, NEW c \in Client
               PROVE  /\ responses[c] # <<>> => StartSignals(c) = {1} /\ leadership = "accept"
                      /\ phase[ServerOf(c)] = "run" /\ responses[c] = <<>> => client_link[c] # "up"
    BY DEF StartedOnce
  <2>1. responses[c] \in Seq(ServerMessage)
    BY DEF IInv, TypeOK, StreamsTypeOK
  <2>2. ASSUME responses[c] # <<>> PROVE StartSignals(c) = {1}
    <3>1. Len(responses[c]) >= 1 /\ Len(responses[c]) \in Nat
      BY <2>1, <2>2
    <3>2. responses[c][1].type = "StartSignal"
      BY <2>2 DEF StartInv, OneInstant, StartSignal
    <3>3. \A i \in 2..Len(responses[c]) : responses[c][i].type # "StartSignal"
      BY DEF StartInv, OneSignal
    <3> QED BY <3>1, <3>2, <3>3 DEF StartSignals
  <2> QED BY <2>2 DEF StartInv, Promoted, ToldUnlessGone
<1> QED BY <1>1, Invariance, StartInvariance, PTL

\* All clients are told the same instant, over whichever server they hear it.
THEOREM ClientsStartTogether == Spec => []SameStart
<1>1. IInv /\ StartInv => SameStart
  <2> SUFFICES ASSUME IInv, StartInv PROVE SameStart
    OBVIOUS
  <2>1. PICK time : \A c \in Client : responses[c] # <<>> => responses[c][1] = StartSignal(time)
    BY DEF StartInv, OneInstant
  <2>2. ASSUME NEW c \in Client, NEW i \in StartSignals(c) PROVE responses[c][i] = StartSignal(time)
    <3>1. responses[c] \in Seq(ServerMessage) /\ i \in 1..Len(responses[c])
      BY DEF IInv, TypeOK, StreamsTypeOK, StartSignals
    <3>2. i \notin 2..Len(responses[c])
      BY DEF StartInv, OneSignal, StartSignals
    <3>3. i = 1 /\ responses[c] # <<>>
      BY <3>1, <3>2
    <3> QED BY <2>1, <3>3
  <2> QED BY <2>2 DEF SameStart
<1> QED BY <1>1, Invariance, StartInvariance, PTL

\* A server waits for a start signal that is no longer coming for one of two
\* reasons only: its connection to the initial leader broke, or the initial leader
\* dialled it and the handshake swallowed what it sent at first (network.rs:165).
THEOREM NobodyLeftWaiting == Spec => []StrandedOnlyByLoss
<1>1. IInv /\ StartInv => StrandedOnlyByLoss
  <2> SUFFICES ASSUME IInv, StartInv, NEW s \in Servers, Stranded(s)
               PROVE  \/ peer_link[InitialLeader][s] \in {"gone", "closed"}
                      \/ /\ s < InitialLeader /\ phase[s] = "establish"
                         /\ peer_link[InitialLeader][s] \in {"spoiled", "cut"}
    BY DEF StrandedOnlyByLoss
  <2>1. peer_link[InitialLeader][s] \in {"gone", "closed", "spoiled", "cut"}
    BY InitialLeaderAssumption
       DEF StartInv, StrandedUnheard, IInv, TypeOK, PeerLinkState, LinkState, Intact
  <2>2. CASE peer_link[InitialLeader][s] \in {"spoiled", "cut"}
    BY <2>2, InitialLeaderAssumption DEF StartInv, SpoiledLinks, Stranded, Waiting
  <2> QED BY <2>1, <2>2
<1> QED BY <1>1, Invariance, StartInvariance, PTL
-----------------------------------------------------------------------------
(* No slot is given up while its connection lives. *)

PeerSlots(s) ==
  /\ peer_connections'[s] \subseteq peer_connections[s]
  /\ \A t \in peer_connections[s] \ peer_connections'[s] : peer_link[s][t] = "closed"

ClientSlots(s) == DroppedWhenClosed(s, client_connections[s], client_connections'[s])

LEMMA PeerSlotsSending ==
  ASSUME IInv, NEW s \in Servers, NEW T, NEW inbox, SendOutgoingMsgs(s, T, inbox), NEW u \in Servers
  PROVE  PeerSlots(u)
BY OutgoingSent DEF IInv, TypeOK, PeerSlots

LEMMA SlotsUnchanged ==
  ASSUME UNCHANGED <<peer_connections, client_connections>>, NEW u \in Servers
  PROVE  PeerSlots(u) /\ ClientSlots(u)
BY DEF PeerSlots, ClientSlots, DroppedWhenClosed

LEMMA StepSlots ==
  ASSUME IInv, Accounted, StartInv, Next, NEW u \in Servers
  PROVE  PeerSlots(u) /\ ClientSlots(u)
<1>1. ASSUME client_connections' = client_connections PROVE ClientSlots(u)
  BY <1>1 DEF ClientSlots, DroppedWhenClosed
<1>2. ASSUME NEW s \in Servers, ServerStep(s) PROVE PeerSlots(u) /\ ClientSlots(u)
  <2>1. ASSUME NEW T, TakeLeadership(s, T) PROVE PeerSlots(u) /\ ClientSlots(u)
    BY <1>1, <2>1, PeerSlotsSending DEF TakeLeadership
  <2>2. ASSUME NEW batch, NEW rest, NEW d1, NEW d2, NEW lead, NEW T,
               HandleClusterMessages(s, batch, rest, d1, d2, lead, T)
        PROVE  PeerSlots(u) /\ ClientSlots(u)
    <3>1. PICK time : \A v \in Servers : Signals(v) \subseteq {LeaderStartSignal(time)}
      BY DEF StartInv, OneInstant
    <3>2. /\ DroppedWhenClosed(s, client_connections[s], client_connections'[s])
          /\ \A v \in Servers \ {s} : client_connections'[v] = client_connections[v]
      BY <2>2, <3>1, BatchAnswers
    <3>3. ClientSlots(u)
      BY <3>2 DEF ClientSlots, DroppedWhenClosed
    <3> QED BY <2>2, <3>3, PeerSlotsSending DEF HandleClusterMessages
  <2>3. ASSUME NEW T, NEW upto, HandleClientMessages(s, upto, T) PROVE PeerSlots(u) /\ ClientSlots(u)
    BY <1>1, <2>3, PeerSlotsSending DEF HandleClientMessages
  <2>4. ASSUME NEW T, Tick(s, T) PROVE PeerSlots(u) /\ ClientSlots(u)
    BY <1>1, <2>4, PeerSlotsSending DEF Tick
  <2>5. ASSUME NEW d, NEW T, Poll(s, d, T) PROVE PeerSlots(u) /\ ClientSlots(u)
    BY <1>1, <2>5, PeerSlotsSending DEF Poll
  <2> QED BY <1>2, <2>1, <2>2, <2>3, <2>4, <2>5 DEF ServerStep
<1>3. ASSUME NEW s \in Servers, NEW time \in StartTimes, SendStartSignals(s, time)
      PROVE  PeerSlots(u) /\ ClientSlots(u)
  <2> DEFINE a == HandlerState(s)
             b == SendClientStartSignals(s, time, a)
  <2>1. a \in HandlerStates /\ a.conns = client_connections[s]
    BY HandlerStateApplied DEF Applied, HandlerState
  <2> HIDE DEF a
  <2>2. DroppedWhenClosed(s, a.conns, b.conns)
    BY <2>1, SignalsSent
  <2>3. /\ client_connections' = [client_connections EXCEPT ![s] = b.conns]
        /\ SendToCluster(s, Peers(s), LeaderStartSignal(time), cluster_messages)
    BY <1>3 DEF SendStartSignals, Becomes, a
  <2> HIDE DEF b
  <2>4. ClientSlots(u)
    BY <2>1, <2>2, <2>3 DEF ClientSlots, DroppedWhenClosed, IInv, TypeOK
  <2>5. PeerSlots(u)
    BY <2>3 DEF SendToCluster, PeerSlots, IInv, TypeOK
  <2> QED BY <2>4, <2>5
<1>4. ASSUME NEW c \in Client, ClientStep(c) PROVE PeerSlots(u) /\ ClientSlots(u)
  BY <1>4, SlotsUnchanged DEF ClientStep, ClientReceives, ClientFinishes, ClientSends, serverVars
<1>5. CASE LibraryDecides
  BY <1>5, SlotsUnchanged DEF LibraryDecides, serverVars
<1>6. CASE Failure
  BY <1>6, SlotsUnchanged DEF Failure, LinkFailure, LinkBreaks, Crash, WriterEnds, ClientLeaves, serverVars
<1>7. ASSUME NEW s \in Servers, NetworkReturns(s) PROVE PeerSlots(u) /\ ClientSlots(u)
  BY <1>7, SlotsUnchanged DEF NetworkReturns, NetworkReady
<1> QED BY <1>2, <1>3, <1>4, <1>5, <1>6, <1>7 DEF Next

\* A server stops sending to a peer or a client only once the connection to it
\* was closed, and never takes a connection back (network.rs, send_to_cluster
\* and send_to_client).
THEOREM SlotsOnlyLostWhenClosed == Spec => ConnectionsOnlyLostWhenClosed
<1> DEFINE Kept ==
      \A s \in Servers :
        /\ peer_connections'[s] \subseteq peer_connections[s]
        /\ \A t \in peer_connections[s] \ peer_connections'[s] : peer_link[s][t] = "closed"
        /\ \A id \in client_connections[s] \ client_connections'[s] :
             client_link[<<s, id>>] = "closed"
<1>1. IInv /\ Accounted /\ StartInv /\ [Next]_vars => [Kept]_vars
  BY StepSlots DEF PeerSlots, ClientSlots, DroppedWhenClosed
<1>2. Spec => []Accounted
  BY InitIInv, NextIInv, InitAccounted, NextAccounted, PTL DEF Spec
<1> HIDE DEF Kept
<1>3. Spec => [][Kept]_vars
  BY <1>1, <1>2, Invariance, StartInvariance, PTL DEF Spec
<1> QED BY <1>3 DEF ConnectionsOnlyLostWhenClosed, Kept
=============================================================================
