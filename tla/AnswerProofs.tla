---------------------------- MODULE AnswerProofs ----------------------------
(***************************************************************************)
(* What clients are told, for any number of servers, clients and failures: *)
(* the answers the log calls for, in its order; that the cluster is, to    *)
(* its clients, one map; and, servers and real clients together, that      *)
(* clients are those the servers' specification foresees, end only when    *)
(* everything is answered, and never panic.                                *)
(***************************************************************************)
EXTENDS OmniPaxosKV, ServerProofs, FiniteSetTheorems

(* The value a log leaves at a key exists and is one. *)

LEMMA LeavesUnique ==
  ASSUME NEW l, NEW n \in Nat, NEW k, NEW v, NEW w, LeavesValue(l, n, k, v), LeavesValue(l, n, k, w)
  PROVE  v = w
<1>1. CASE \A i \in 1..n : ~ Writes(l[i], k)
  BY <1>1 DEF LeavesValue
<1>2. CASE \E i \in 1..n : Writes(l[i], k)
  <2>1. PICK i \in 1..n : Writes(l[i], k) /\ v = Leaves(l[i]) /\ \A j \in (i + 1)..n : ~ Writes(l[j], k)
    BY <1>2 DEF LeavesValue
  <2>2. PICK j \in 1..n : Writes(l[j], k) /\ w = Leaves(l[j]) /\ \A m \in (j + 1)..n : ~ Writes(l[m], k)
    BY <1>2 DEF LeavesValue
  <2>3. i = j
    BY <2>1, <2>2
  <2> QED BY <2>1, <2>2, <2>3
<1> QED BY <1>1, <1>2

LEMMA ValueIs ==
  ASSUME NEW l, NEW n \in Nat, NEW k, NEW v \in Value \cup {NoValue}, LeavesValue(l, n, k, v)
  PROVE  ValueAfter(l, n, k) = v
<1>1. \A w : LeavesValue(l, n, k, w) => w = v
  BY LeavesUnique
<1> HIDE DEF LeavesValue
<1> QED BY <1>1 DEF ValueAfter

MapAfter(l, n) == [k \in Key |-> ValueAfter(l, n, k)]
Means(l, n) == MapAfter(l, n) \in Db /\ \A k \in Key : LeavesValue(l, n, k, MapAfter(l, n)[k])

LEMMA MeansIs ==
  ASSUME NEW l, NEW n \in Nat, NEW db \in Db, \A k \in Key : LeavesValue(l, n, k, db[k])
  PROVE  Means(l, n) /\ MapAfter(l, n) = db
<1>1. \A k \in Key : db[k] \in Value \cup {NoValue}
  BY DEF Db
<1>2. \A k \in Key : ValueAfter(l, n, k) = db[k]
  BY <1>1, ValueIs
<1>3. MapAfter(l, n) = db
  BY <1>2 DEF MapAfter, Db
<1> QED BY <1>3 DEF Means

\* The meaning of a log is that of one entry less, updated.
LEMMA MeansNext ==
  ASSUME NEW l \in Seq(Command), NEW n \in Nat, n < Len(l), Means(l, n)
  PROVE  Means(l, n + 1) /\ MapAfter(l, n + 1) = Updated(MapAfter(l, n), l[n + 1].kv_cmd)
<1> DEFINE db == MapAfter(l, n)
<1>1. db \in Db /\ \A k \in Key : LeavesValue(l, n, k, db[k])
  BY DEF Means
<1> HIDE DEF db
<1>2. l[n + 1] \in Command
  OBVIOUS
<1>3. l[n + 1].kv_cmd \in KVCommand
  BY <1>2 DEF Command
<1>4. Updated(db, l[n + 1].kv_cmd) \in Db
  BY <1>1, <1>3, UpdatedTyped
<1>5. \A k \in Key : LeavesValue(l, n + 1, k, Updated(db, l[n + 1].kv_cmd)[k])
  BY <1>1, UpdatedLeaves
<1>6. n + 1 \in Nat
  OBVIOUS
<1> QED BY <1>4, <1>5, <1>6, MeansIs DEF db

LEMMA LogMeans ==
  ASSUME NEW l \in Seq(Command)
  PROVE  \A n \in 0..Len(l) : Means(l, n)
<1> DEFINE Good == {n \in Nat : n <= Len(l) => Means(l, n)}
<1>1. 0 \in Good
  <2>1. EmptyDb \in Db /\ \A k \in Key : EmptyDb[k] = NoValue
    BY DEF EmptyDb, Db
  <2>2. \A k \in Key : LeavesValue(l, 0, k, EmptyDb[k])
    BY <2>1 DEF LeavesValue
  <2> QED BY <2>1, <2>2, MeansIs
<1>2. ASSUME NEW n \in Good PROVE n + 1 \in Good
  BY MeansNext
<1>3. Good = Nat
  BY <1>1, <1>2, SetInduction
<1> QED BY <1>3

\* What follows a prefix of the log does not change what the prefix calls for.
LEMMA MeansPrefix ==
  ASSUME NEW l \in Seq(Command), NEW m, NEW n \in 0..Len(l), \A i \in 1..n : m[i] = l[i]
  PROVE  MapAfter(m, n) = MapAfter(l, n)
<1>1. Means(l, n)
  BY LogMeans
<1>2. \A k \in Key : LeavesValue(m, n, k, MapAfter(l, n)[k])
  BY <1>1, LeavesPrefix DEF Means
<1> QED BY <1>1, <1>2, MeansIs DEF Means

LEMMA AnswerIsDue ==
  ASSUME NEW l \in Seq(Command), NEW n \in Nat, n < Len(l)
  PROVE  Answer(MapAfter(l, n), l[n + 1].id, l[n + 1].kv_cmd) = AnswerAt(l, n + 1)
<1> DEFINE cmd == l[n + 1].kv_cmd
<1>1. l[n + 1] \in Command
  OBVIOUS
<1>2. cmd.key \in Key
  BY <1>1 DEF Command, KVCommand
<1>3. MapAfter(l, n)[cmd.key] = ValueAfter(l, n, cmd.key)
  BY <1>2 DEF MapAfter
<1>4. (n + 1) - 1 = n
  OBVIOUS
<1> QED BY <1>3, <1>4 DEF Answer, AnswerAt

LEMMA AnswerAtPrefix ==
  ASSUME NEW l \in Seq(Command), NEW m \in Seq(Command), NEW n \in 1..Len(l), Len(l) <= Len(m),
         \A i \in 1..Len(l) : m[i] = l[i]
  PROVE  AnswerAt(m, n) = AnswerAt(l, n)
<1>1. n - 1 \in Nat /\ n - 1 < Len(l) /\ n - 1 < Len(m) /\ (n - 1) + 1 = n /\ n - 1 \in 0..Len(l)
      /\ m[n] = l[n] /\ \A i \in 1..(n - 1) : m[i] = l[i]
  OBVIOUS
<1>2. MapAfter(m, n - 1) = MapAfter(l, n - 1)
  BY <1>1, MeansPrefix
<1>3. /\ Answer(MapAfter(l, n - 1), l[n].id, l[n].kv_cmd) = AnswerAt(l, n)
      /\ Answer(MapAfter(m, n - 1), m[n].id, m[n].kv_cmd) = AnswerAt(m, n)
  <2> HIDE DEF Answer, AnswerAt
  <2> QED BY <1>1, AnswerIsDue
<1> QED BY <1>1, <1>2, <1>3
-----------------------------------------------------------------------------
(* The answers due to a client, and the answers in its stream. *)

Dues(n) == {AnswerAt(log, i) : i \in 1..n}

LEMMA DueTyped ==
  ASSUME NEW c, NEW n \in Nat
  PROVE  AnswersDue(c, n) \in Seq(Dues(n))
<1> DEFINE all == [i \in 1..n |-> AnswerAt(log, i)]
           I == {i \in 1..n : IssuedBy(log[i]) = c}
<1>1. all \in Seq(Dues(n))
  BY DEF Dues
<1>2. AnswersDue(c, n) = Picked(all, I)
  BY DEF AnswersDue
<1> HIDE DEF all, I
<1> QED BY <1>1, <1>2, PickedRange

LEMMA DueNone ==
  ASSUME NEW c
  PROVE  AnswersDue(c, 0) = <<>>
<1>1. Len([i \in 1..0 |-> AnswerAt(log, i)]) = 0
  OBVIOUS
<1> QED BY <1>1, PickedEmpty DEF AnswersDue

LEMMA DueOneMore ==
  ASSUME NEW c, NEW n \in Nat
  PROVE  AnswersDue(c, n + 1) = IF IssuedBy(log[n + 1]) = c
                                THEN Append(AnswersDue(c, n), AnswerAt(log, n + 1))
                                ELSE AnswersDue(c, n)
<1> DEFINE s == [i \in 1..n |-> AnswerAt(log, i)]
           t == [i \in 1..(n + 1) |-> AnswerAt(log, i)]
           I == {i \in 1..n : IssuedBy(log[i]) = c}
           J == {i \in 1..(n + 1) : IssuedBy(log[i]) = c}
<1>1. /\ Len(s) = n /\ Len(t) = n + 1 /\ t[n + 1] = AnswerAt(log, n + 1)
      /\ \A i \in 1..n : t[i] = s[i] /\ (i \in J <=> i \in I)
      /\ n + 1 \in J <=> IssuedBy(log[n + 1]) = c
  OBVIOUS
<1>2. AnswersDue(c, n) = Picked(s, I) /\ AnswersDue(c, n + 1) = Picked(t, J)
  BY DEF AnswersDue
<1> HIDE DEF s, t, I, J
<1>3. Picked(t, J) = IF n + 1 \in J THEN Append(Picked(s, I), t[n + 1]) ELSE Picked(s, I)
  BY <1>1, PickedOneMore
<1> QED BY <1>1, <1>2, <1>3

LEMMA AnswersAppend ==
  ASSUME NEW stream \in Seq(ServerMessage), NEW msg \in ServerMessage
  PROVE  AnswersIn(Append(stream, msg)) =
           IF msg.type # "StartSignal" THEN Append(AnswersIn(stream), msg) ELSE AnswersIn(stream)
<1> DEFINE more == Append(stream, msg)
           n == Len(stream)
           I == {i \in 1..n : stream[i].type # "StartSignal"}
           J == {i \in 1..Len(more) : more[i].type # "StartSignal"}
<1>1. /\ Len(more) = n + 1 /\ n \in Nat /\ more[n + 1] = msg
      /\ \A i \in 1..n : more[i] = stream[i]
  BY AppendProperties
<1> HIDE DEF more, n
<1>2. /\ \A i \in 1..n : i \in J <=> i \in I
      /\ n + 1 \in J <=> msg.type # "StartSignal"
  BY <1>1
<1>3. AnswersIn(stream) = Picked(stream, I) /\ AnswersIn(more) = Picked(more, J)
  BY DEF AnswersIn, n
<1> HIDE DEF I, J
<1>4. Len(stream) = n
  BY DEF n
<1>5. Picked(more, J) = IF n + 1 \in J THEN Append(Picked(stream, I), more[n + 1]) ELSE Picked(stream, I)
  BY <1>1, <1>2, <1>4, PickedOneMore
<1> QED BY <1>1, <1>2, <1>3, <1>5 DEF more

LEMMA AnswersTyped ==
  ASSUME NEW stream \in Seq(ServerMessage)
  PROVE  AnswersIn(stream) \in Seq(ServerMessage)
BY PickedRange DEF AnswersIn
-----------------------------------------------------------------------------
(* Prefixes. *)

LEMMA PrefixSelf ==
  ASSUME NEW S, NEW p \in Seq(S)
  PROVE  IsPrefix(p, p)
BY DEF IsPrefix

LEMMA PrefixAppend ==
  ASSUME NEW S, NEW R, NEW p \in Seq(S), NEW q \in Seq(R), NEW x, IsPrefix(p, q)
  PROVE  IsPrefix(p, Append(q, x))
<1> DEFINE n == Len(p)
           more == Append(q, x)
<1>1. /\ n \in Nat /\ n <= Len(q) /\ SubSeq(p, 1, n) = SubSeq(q, 1, n)
  BY DEF IsPrefix
<1>2. x \in R \cup {x} /\ q \in Seq(R \cup {x})
  OBVIOUS
<1>3. Len(more) = Len(q) + 1 /\ \A i \in 1..Len(q) : more[i] = q[i]
  BY <1>2, AppendProperties
<1> HIDE DEF n, more
<1>4. SubSeq(more, 1, n) = SubSeq(q, 1, n)
  BY <1>1, <1>3
<1> QED BY <1>1, <1>3, <1>4 DEF IsPrefix, n, more
-----------------------------------------------------------------------------
(***************************************************************************)
(* What a handler threads through its loop, once m entries are applied:    *)
(* the streams of its own clients hold the answers due up to there, or, if *)
(* the slot was emptied, a prefix of them; those of others are left alone. *)
(***************************************************************************)
Told(c, stream, kept, m) ==
  IF kept THEN AnswersIn(stream) = AnswersDue(c, m) ELSE IsPrefix(AnswersIn(stream), AnswersDue(c, m))

Answering(s, st, m) ==
  /\ \A c \in ClientsOf(s) : Told(c, st.out[c], ClientId(c) \in st.conns, m)
  /\ \A c \in Client \ ClientsOf(s) : st.out[c] = responses[c]

\* An entry of another client changes nothing for c.
LEMMA ToldElsewhere ==
  ASSUME NEW c, NEW stream, NEW kept, NEW m \in Nat, Told(c, stream, kept, m), IssuedBy(log[m + 1]) # c
  PROVE  Told(c, stream, kept, m + 1)
<1>1. AnswersDue(c, m + 1) = AnswersDue(c, m)
  BY DueOneMore
<1> QED BY <1>1 DEF Told

LEMMA ToldNotSent ==
  ASSUME NEW c, NEW stream \in Seq(ServerMessage), NEW kept, NEW m \in Nat, Told(c, stream, kept, m)
  PROVE  Told(c, stream, FALSE, m) /\ Told(c, stream, FALSE, m + 1)
<1>1. AnswersIn(stream) \in Seq(ServerMessage) /\ AnswersDue(c, m) \in Seq(Dues(m))
  BY AnswersTyped, DueTyped
<1>2. IsPrefix(AnswersIn(stream), AnswersDue(c, m))
  <2> HIDE DEF IsPrefix
  <2>1. CASE kept
    BY <1>1, <2>1, PrefixSelf DEF Told
  <2>2. CASE ~ kept
    BY <2>2 DEF Told
  <2> QED BY <2>1, <2>2
<1>3. IsPrefix(AnswersIn(stream), Append(AnswersDue(c, m), AnswerAt(log, m + 1)))
  BY <1>1, <1>2, PrefixAppend
<1>4. IsPrefix(AnswersIn(stream), AnswersDue(c, m + 1))
  BY <1>2, <1>3, DueOneMore
<1> QED BY <1>2, <1>4 DEF Told

LEMMA ToldSent ==
  ASSUME NEW c, NEW stream \in Seq(ServerMessage), NEW m \in Nat, Told(c, stream, TRUE, m),
         IssuedBy(log[m + 1]) = c, NEW msg \in ServerMessage, msg.type # "StartSignal",
         msg = AnswerAt(log, m + 1)
  PROVE  Told(c, Append(stream, msg), TRUE, m + 1)
<1>1. AnswersIn(Append(stream, msg)) = Append(AnswersIn(stream), msg)
  BY AnswersAppend
<1>2. AnswersDue(c, m + 1) = Append(AnswersDue(c, m), AnswerAt(log, m + 1))
  BY DueOneMore
<1> QED BY <1>1, <1>2 DEF Told

\* One pass of the loop tells the entry's client, and nobody else.
LEMMA AnswerOne ==
  ASSUME NEW s \in Servers, NEW st, NEW n \in Nat, NEW m \in Nat, log \in Seq(Command), m < Len(log),
         Applied(st, n, m), Answering(s, st, m)
  PROVE  Answering(s, ApplyAndRespond(s, st, log[m + 1]), m + 1)
<1> DEFINE cmd == log[m + 1]
           next == [st EXCEPT !.db = Updated(st.db, cmd.kv_cmd)]
           msg == Answer(st.db, cmd.id, cmd.kv_cmd)
           after == ApplyAndRespond(s, st, cmd)
           e == <<s, cmd.client_id>>
<1>1. cmd \in Command
  OBVIOUS
<1>2. cmd.kv_cmd \in KVCommand /\ cmd.id \in Nat
  BY <1>1 DEF Command
<1>3. /\ st \in HandlerStates /\ st.db \in Db
      /\ st.out \in [Client -> Seq(ServerMessage)] /\ st.conns \in SUBSET Nat
  BY DEF Applied, HandlerStates
<1>4. msg \in ServerMessage /\ msg.type # "StartSignal"
  BY <1>2, <1>3 DEF Answer, Read, Write, Db, KVCommand, ServerMessage, Response
<1>5. msg = AnswerAt(log, m + 1)
  <2>1. MapAfter(log, m) = st.db
    BY <1>3, MeansIs DEF Applied
  <2> QED BY <2>1, AnswerIsDue
<1>6. next.out = st.out /\ next.conns = st.conns /\ next \in HandlerStates
  <2>1. Updated(st.db, cmd.kv_cmd) \in Db
    BY <1>2, <1>3, UpdatedTyped
  <2> QED BY <1>3, <2>1 DEF HandlerStates
<1>7. \A c \in Client : Len(st.out[c]) \in Nat
  BY <1>3
<1>8. CASE cmd.coordinator_id # s
  <2>1. after = next
    BY <1>8 DEF ApplyAndRespond
  <2>2. \A c \in ClientsOf(s) : IssuedBy(log[m + 1]) # c
    BY <1>8 DEF IssuedBy, ClientsOf, ServerOf
  <2> HIDE DEF next, after, cmd
  <2>3. \A c \in ClientsOf(s) : Told(c, after.out[c], ClientId(c) \in after.conns, m + 1)
    BY <1>6, <2>1, <2>2, ToldElsewhere DEF Answering
  <2>4. Answering(s, after, m + 1)
    BY <1>6, <2>1, <2>3 DEF Answering
  <2> QED BY <2>4 DEF after, cmd
<1>9. CASE cmd.coordinator_id = s
  <2>1. after = SendToClient(s, cmd.client_id, msg, next) /\ IssuedBy(log[m + 1]) = e
    BY <1>9 DEF ApplyAndRespond, IssuedBy
  <2>2. ASSUME NEW c \in Client, c # e
        PROVE  /\ after.out[c] = st.out[c]
               /\ c \in ClientsOf(s) => (ClientId(c) \in after.conns <=> ClientId(c) \in st.conns)
    <3>1. c \in ClientsOf(s) => ClientId(c) # cmd.client_id
      BY <2>2, ClientParts DEF ClientsOf
    <3> HIDE DEF cmd, msg, next
    <3> QED BY <1>3, <1>6, <2>1, <2>2, <3>1 DEF SendToClient, HandlerStates
  <2>3. ASSUME e \in ClientsOf(s) PROVE Told(e, after.out[e], ClientId(e) \in after.conns, m + 1)
    <3>1. /\ e \in Client /\ ClientId(e) = cmd.client_id /\ st.out[e] \in Seq(ServerMessage)
          /\ Told(e, st.out[e], ClientId(e) \in st.conns, m)
      BY <1>3, <2>3 DEF ClientsOf, ClientId, Answering
    <3>2. CASE cmd.client_id \notin st.conns
      <4>1. after = next
        BY <1>6, <2>1, <3>2 DEF SendToClient
      <4>2. after.out[e] = st.out[e] /\ ClientId(e) \notin after.conns
        BY <1>6, <3>1, <3>2, <4>1
      <4> HIDE DEF after, next, cmd, e
      <4>3. Told(e, st.out[e], FALSE, m + 1)
        BY <3>1, ToldNotSent
      <4> QED BY <4>2, <4>3 DEF Told
    <3>3. CASE cmd.client_id \in st.conns /\ client_link[e] = "closed"
      <4>1. after = [next EXCEPT !.conns = st.conns \ {cmd.client_id}]
        BY <1>6, <2>1, <3>3 DEF SendToClient
      <4>2. after.out[e] = st.out[e] /\ ClientId(e) \notin after.conns
        BY <1>6, <3>1, <4>1 DEF HandlerStates
      <4> HIDE DEF after, next, cmd, e
      <4>3. Told(e, st.out[e], FALSE, m + 1)
        BY <3>1, ToldNotSent
      <4> QED BY <4>2, <4>3 DEF Told
    <3>4. CASE cmd.client_id \in st.conns /\ client_link[e] # "closed"
      <4>1. after = [next EXCEPT !.out = [st.out EXCEPT ![e] = Append(st.out[e], msg)]]
        BY <1>6, <2>1, <3>4 DEF SendToClient
      <4>2. after.out[e] = Append(st.out[e], msg) /\ ClientId(e) \in after.conns
        <5> HIDE DEF msg, e, cmd
        <5> QED BY <1>3, <1>6, <3>1, <3>4, <4>1 DEF HandlerStates
      <4>3. Told(e, st.out[e], TRUE, m)
        BY <3>1, <3>4
      <4>4. IssuedBy(log[m + 1]) = e
        BY <2>1
      <4> HIDE DEF after, next, cmd, e, msg
      <4>5. Told(e, Append(st.out[e], msg), TRUE, m + 1)
        BY <1>4, <1>5, <3>1, <4>3, <4>4, ToldSent
      <4>6. (ClientId(e) \in after.conns) = TRUE
        BY <4>2
      <4> QED BY <4>2, <4>5, <4>6
    <3> QED BY <3>2, <3>3, <3>4
  <2>4. ASSUME NEW c \in ClientsOf(s) PROVE Told(c, after.out[c], ClientId(c) \in after.conns, m + 1)
    <3>1. CASE c = e
      <4> HIDE DEF after, e
      <4> QED BY <2>3, <3>1
    <3>2. CASE c # e
      <4>1. c \in Client /\ IssuedBy(log[m + 1]) # c
        BY <2>1, <3>2 DEF ClientsOf
      <4> HIDE DEF after, e, cmd
      <4>2. after.out[c] = st.out[c] /\ (ClientId(c) \in after.conns <=> ClientId(c) \in st.conns)
        BY <2>2, <3>2, <4>1
      <4>3. Told(c, st.out[c], ClientId(c) \in st.conns, m + 1)
        BY <4>1, ToldElsewhere DEF Answering
      <4>4. CASE ClientId(c) \in st.conns
        BY <4>2, <4>3, <4>4 DEF Told
      <4>5. CASE ClientId(c) \notin st.conns
        BY <4>2, <4>3, <4>5 DEF Told
      <4> QED BY <4>4, <4>5
    <3> QED BY <3>1, <3>2
  <2>5. ASSUME NEW c \in Client \ ClientsOf(s) PROVE after.out[c] = responses[c]
    <3>1. c # e
      BY ClientParts DEF ClientsOf, ServerOf
    <3> HIDE DEF after, e
    <3> QED BY <2>2, <3>1 DEF Answering
  <2> HIDE DEF after, cmd
  <2>6. Answering(s, after, m + 1)
    BY <2>4, <2>5 DEF Answering
  <2> QED BY <2>6 DEF after, cmd
<1> QED BY <1>8, <1>9

LEMMA AnswerAll ==
  ASSUME NEW s \in Servers, NEW start, NEW n \in Nat, NEW from \in Nat, NEW commands,
         log \in Seq(Command), Applied(start, n, from), Answering(s, start, from),
         Len(commands) \in Nat, from + Len(commands) <= Len(log),
         \A i \in 1..Len(commands) : commands[i] = log[from + i]
  PROVE  Answering(s, UpdateDatabaseAndRespond(s, start, commands), from + Len(commands))
<1>1. PICK after : Passes(s, start, commands, after)
  BY LoopUnfolds
<1> DEFINE Good == {m \in Nat : m <= Len(commands) => /\ Applied(after[m], n, from + m)
                                                      /\ Answering(s, after[m], from + m)}
<1>2. 0 \in Good
  <2>1. after[0] = start /\ from + 0 = from
    BY <1>1 DEF Passes
  <2> QED BY <2>1
<1>3. ASSUME NEW m \in Good PROVE m + 1 \in Good
  <2> SUFFICES ASSUME m + 1 <= Len(commands)
               PROVE  /\ Applied(after[m + 1], n, from + (m + 1))
                      /\ Answering(s, after[m + 1], from + (m + 1))
    OBVIOUS
  <2>1. Applied(after[m], n, from + m) /\ Answering(s, after[m], from + m)
    OBVIOUS
  <2>2. after[m + 1] = ApplyAndRespond(s, after[m], commands[m + 1])
    BY <1>1 DEF Passes
  <2>3. commands[m + 1] = log[(from + m) + 1] /\ from + m < Len(log) /\ from + m \in Nat
    OBVIOUS
  <2>4. /\ Applied(ApplyAndRespond(s, after[m], log[(from + m) + 1]), n, (from + m) + 1)
        /\ Answering(s, ApplyAndRespond(s, after[m], log[(from + m) + 1]), (from + m) + 1)
    BY <2>1, <2>3, ApplyOne, AnswerOne
  <2>5. (from + m) + 1 = from + (m + 1)
    OBVIOUS
  <2> QED BY <2>2, <2>3, <2>4, <2>5
<1>4. Good = Nat
  BY <1>2, <1>3, SetInduction
<1>5. Answering(s, after[Len(commands)], from + Len(commands))
  BY <1>4
<1> HIDE DEF Good
<1> QED BY <1>1, <1>5 DEF Passes

LEMMA HandleDecidedAnswers ==
  ASSUME NEW s \in Servers, NEW st, NEW n \in Nat, NEW d \in Nat,
         log \in Seq(Command), d <= Len(log), Applied(st, n, n), Answering(s, st, n)
  PROVE  \E i \in {n, d} : /\ i >= n
                           /\ Applied(HandleDecidedEntries(s, d, st), i, i)
                           /\ Answering(s, HandleDecidedEntries(s, d, st), i)
<1> DEFINE after == HandleDecidedEntries(s, d, st)
<1>1. st.idx = n
  BY DEF Applied
<1>2. CASE ~ (n < d)
  <2>1. after = st
    BY <1>1, <1>2 DEF HandleDecidedEntries
  <2> QED BY <2>1
<1>3. CASE n < d
  <2> DEFINE start == [st EXCEPT !.idx = d]
             commands == SubSeq(log, n + 1, d)
  <2>1. /\ Applied(start, d, n) /\ start.out = st.out /\ start.conns = st.conns
    BY DEF Applied, HandlerStates
  <2>2. after = UpdateDatabaseAndRespond(s, start, commands)
    BY <1>1, <1>3 DEF HandleDecidedEntries, ReadDecidedSuffix
  <2>3. \A i \in (n + 1)..d : log[i] \in Command
    OBVIOUS
  <2>4. Len(commands) = d - n /\ \A i \in 1..(d - n) : commands[i] = log[n + i]
    <3>1. /\ Len(commands) = IF n + 1 <= d THEN d - (n + 1) + 1 ELSE 0
          /\ \A i \in 1..(d - (n + 1) + 1) : commands[i] = log[(n + 1) + i - 1]
      BY <2>3, SubSeqProperties
    <3> QED BY <1>3, <3>1
  <2> HIDE DEF start, commands, after
  <2>5. Answering(s, start, n)
    BY <2>1 DEF Answering
  <2>6. /\ Len(commands) \in Nat /\ n + Len(commands) = d
        /\ \A i \in 1..Len(commands) : commands[i] = log[n + i]
    BY <1>3, <2>4
  <2>7. Applied(after, d, d) /\ Answering(s, after, d)
    BY <2>1, <2>2, <2>5, <2>6, ApplyAll, AnswerAll
  <2> QED BY <1>3, <2>7 DEF after
<1> QED BY <1>2, <1>3

\* A start signal is no answer.
LEMMA StartSignalsAnswers ==
  ASSUME NEW s \in Servers, NEW time \in StartTimes, NEW st, NEW n \in Nat,
         Applied(st, n, n), Answering(s, st, n)
  PROVE  /\ Applied(SendClientStartSignals(s, time, st), n, n)
         /\ Answering(s, SendClientStartSignals(s, time, st), n)
<1> DEFINE after == SendClientStartSignals(s, time, st)
<1>1. st \in HandlerStates /\ st.out \in [Client -> Seq(ServerMessage)]
  BY DEF Applied, HandlerStates
<1>2. Applied(after, n, n)
  BY <1>1, StartSignalsTyped DEF Applied
<1>3. /\ after.conns = {id \in st.conns : ~ (id \in ClientIds(s) /\ client_link[<<s, id>>] = "closed")}
      /\ after.out = [c \in Client |-> IF c \in ClientsOf(s) /\ ClientId(c) \in st.conns /\ client_link[c] # "closed"
                                       THEN Append(st.out[c], StartSignal(time)) ELSE st.out[c]]
  BY <1>1 DEF SendClientStartSignals, HandlerStates
<1> HIDE DEF after
<1>4. StartSignal(time) \in ServerMessage /\ StartSignal(time).type = "StartSignal"
  BY DEF StartSignal, ServerMessage
<1>5. ASSUME NEW c \in ClientsOf(s) PROVE Told(c, after.out[c], ClientId(c) \in after.conns, n)
  <2>1. /\ c \in Client /\ c = <<s, ClientId(c)>> /\ ClientId(c) \in ClientIds(s)
        /\ st.out[c] \in Seq(ServerMessage) /\ Told(c, st.out[c], ClientId(c) \in st.conns, n)
    BY <1>1, ClientParts DEF ClientsOf, Answering
  <2>2. CASE ClientId(c) \notin st.conns
    <3>1. after.out[c] = st.out[c] /\ ClientId(c) \notin after.conns
      BY <1>3, <2>1, <2>2
    <3> QED BY <2>1, <2>2, <3>1 DEF Told
  <2>3. CASE ClientId(c) \in st.conns /\ client_link[c] = "closed"
    <3>1. after.out[c] = st.out[c] /\ ClientId(c) \notin after.conns
      BY <1>3, <2>1, <2>3
    <3>2. Told(c, st.out[c], FALSE, n)
      BY <2>1, ToldNotSent
    <3> QED BY <3>1, <3>2 DEF Told
  <2>4. CASE ClientId(c) \in st.conns /\ client_link[c] # "closed"
    <3>1. after.out[c] = Append(st.out[c], StartSignal(time)) /\ ClientId(c) \in after.conns
      BY <1>3, <2>1, <2>4
    <3>2. AnswersIn(after.out[c]) = AnswersIn(st.out[c])
      BY <1>4, <2>1, <3>1, AnswersAppend
    <3> QED BY <2>1, <2>4, <3>1, <3>2 DEF Told
  <2> QED BY <2>2, <2>3, <2>4
<1>6. \A c \in Client \ ClientsOf(s) : after.out[c] = responses[c]
  BY <1>3 DEF Answering
<1>7. Answering(s, after, n)
  BY <1>5, <1>6 DEF Answering
<1> QED BY <1>2, <1>7 DEF after
-----------------------------------------------------------------------------
(***************************************************************************)
(* AnswersFollowLog is inductive as it stands, given the types, the maps   *)
(* and the decided indexes of IInv.                                        *)
(***************************************************************************)
LEMMA AnsweringNow ==
  ASSUME IInv, AnswersFollowLog, NEW s \in Servers
  PROVE  Answering(s, HandlerState(s), current_decided_idx[s])
BY DEF AnswersFollowLog, Answering, Told, HandlerState, ClientsOf, Answers

\* A handler that ends in answers as due leaves answers as due.
LEMMA BecomesAnswered ==
  ASSUME IInv, AnswersFollowLog, NEW s \in Servers, NEW st, NEW n \in Nat,
         Applied(st, n, n), Answering(s, st, n), Becomes(s, st), log' = log
  PROVE  AnswersFollowLog'
<1>1. /\ current_decided_idx' = [current_decided_idx EXCEPT ![s] = n]
      /\ client_connections' = [client_connections EXCEPT ![s] = st.conns]
      /\ responses' = st.out
  BY DEF Becomes, Applied
<1>2. current_decided_idx \in [Servers -> Nat] /\ client_connections \in [Servers -> SUBSET Nat]
  BY DEF IInv, TypeOK
<1>3. \A c, m : AnswersDue(c, m)' = AnswersDue(c, m)
  BY DEF AnswersDue, AnswerAt, Picked
<1>4. ASSUME NEW c \in Client
      PROVE  Told(c, responses'[c], ClientId(c) \in client_connections'[ServerOf(c)],
                  current_decided_idx'[ServerOf(c)])
  <2>1. ServerOf(c) \in Servers
    BY ClientParts
  <2>2. CASE ServerOf(c) = s
    <3>1. c \in ClientsOf(s) /\ current_decided_idx'[s] = n /\ client_connections'[s] = st.conns
      BY <1>1, <1>2, <2>2 DEF ClientsOf
    <3> QED BY <1>1, <2>2, <3>1 DEF Answering
  <2>3. CASE ServerOf(c) # s
    <3>1. /\ responses'[c] = responses[c]
          /\ current_decided_idx'[ServerOf(c)] = current_decided_idx[ServerOf(c)]
          /\ client_connections'[ServerOf(c)] = client_connections[ServerOf(c)]
      BY <1>1, <1>2, <2>1, <2>3 DEF Answering, ClientsOf
    <3>2. Told(c, responses[c], ClientId(c) \in client_connections[ServerOf(c)],
               current_decided_idx[ServerOf(c)])
      BY DEF AnswersFollowLog, Told, Answers
    <3> QED BY <3>1, <3>2
  <2> QED BY <2>2, <2>3
<1> QED BY <1>3, <1>4 DEF AnswersFollowLog, Told, Answers
-----------------------------------------------------------------------------
LEMMA InitAnswers == Init => AnswersFollowLog
<1> SUFFICES ASSUME Init, NEW c \in Client
             PROVE  /\ ClientId(c) \in client_connections[ServerOf(c)]
                    /\ Answers(c) = AnswersDue(c, current_decided_idx[ServerOf(c)])
  BY DEF AnswersFollowLog
<1>1. ServerOf(c) \in Servers /\ ClientId(c) \in ClientIds(ServerOf(c))
  BY ClientParts
<1>2. /\ current_decided_idx[ServerOf(c)] = 0 /\ responses[c] = <<>>
      /\ client_connections[ServerOf(c)] = ClientIds(ServerOf(c))
  BY <1>1 DEF Init, StreamsInit
<1>3. AnswersIn(<<>>) = <<>>
  BY PickedEmpty DEF AnswersIn
<1> QED BY <1>1, <1>2, <1>3, DueNone DEF Answers

LEMMA AnswersElsewhere ==
  ASSUME AnswersFollowLog, UNCHANGED <<log, current_decided_idx, client_connections, responses>>
  PROVE  AnswersFollowLog'
<1>1. \A c, n : AnswersDue(c, n)' = AnswersDue(c, n)
  BY DEF AnswersDue, AnswerAt, Picked
<1> QED BY <1>1 DEF AnswersFollowLog, Answers

\* What is due up to where the log reaches is due still when it reaches further.
LEMMA DueKept ==
  ASSUME log \in Seq(Command), log' \in Seq(Command), Len(log) <= Len(log'),
         \A i \in 1..Len(log) : log'[i] = log[i], NEW c, NEW n \in 0..Len(log)
  PROVE  AnswersDue(c, n)' = AnswersDue(c, n)
<1> DEFINE s == [i \in 1..n |-> AnswerAt(log, i)]
           t == [i \in 1..n |-> AnswerAt(log', i)]
           I == {i \in 1..n : IssuedBy(log[i]) = c}
           J == {i \in 1..n : IssuedBy(log'[i]) = c}
<1>1. \A i \in 1..n : AnswerAt(log', i) = AnswerAt(log, i) /\ log'[i] = log[i]
  BY AnswerAtPrefix
<1>2. /\ n \in Nat /\ Len(s) = n /\ Len(t) = n
      /\ \A i \in 1..n : t[i] = s[i] /\ (i \in J <=> i \in I)
  BY <1>1
<1>3. AnswersDue(c, n) = Picked(s, I) /\ AnswersDue(c, n)' = Picked(t, J)
  BY DEF AnswersDue, AnswerAt, Picked
<1> HIDE DEF s, t, I, J
<1>4. Picked(t, J) = Picked(s, I)
  BY <1>2, PickedSame
<1> QED BY <1>3, <1>4

LEMMA LogExtends ==
  ASSUME IInv, LibraryDecides
  PROVE  \E cmd \in pending : 
           /\ cmd \in Command /\ log \in Seq(Command) /\ log' \in Seq(Command)
           /\ Len(log) \in Nat /\ Len(log') = Len(log) + 1
           /\ \A i \in 1..Len(log) : log'[i] = log[i]
           /\ log'[Len(log) + 1] = cmd
           /\ UNCHANGED <<serverVars, channelVars, linkVars>>
<1>1. PICK cmd \in pending : Decide(cmd)
  BY DEF LibraryDecides
<1>2. cmd \in Command /\ log \in Seq(Command) /\ log' = Append(log, cmd)
  BY <1>1 DEF IInv, TypeOK, LibTypeOK, Decide
<1>3. /\ log' \in Seq(Command) /\ Len(log') = Len(log) + 1 /\ Len(log) \in Nat
      /\ log'[Len(log) + 1] = cmd /\ \A i \in 1..Len(log) : log'[i] = log[i]
  BY <1>2, AppendProperties
<1> QED BY <1>2, <1>3 DEF LibraryDecides

LEMMA AnswersLibraryDecides ==
  ASSUME IInv, AnswersFollowLog, LibraryDecides
  PROVE  AnswersFollowLog'
<1>1. /\ log \in Seq(Command) /\ log' \in Seq(Command) /\ Len(log) <= Len(log')
      /\ \A i \in 1..Len(log) : log'[i] = log[i]
      /\ UNCHANGED <<current_decided_idx, client_connections, responses>>
  BY LogExtends DEF serverVars, channelVars
<1>2. \A s \in Servers : current_decided_idx[s] \in 0..Len(log)
  <2>1. Len(log) \in Nat
    BY <1>1
  <2>2. decided_idx \in [Servers -> Nat] /\ current_decided_idx \in [Servers -> Nat]
    BY DEF IInv, TypeOK, LibTypeOK
  <2> SUFFICES ASSUME NEW s \in Servers PROVE current_decided_idx[s] \in 0..Len(log)
    OBVIOUS
  <2>3. decided_idx[s] \in Nat /\ current_decided_idx[s] \in Nat
    BY <2>2
  <2>4. current_decided_idx[s] <= decided_idx[s] /\ decided_idx[s] <= Len(log)
    BY DEF IInv, ReplicaMatchesLog
  <2> QED BY <2>1, <2>3, <2>4
<1>3. \A c \in Client : AnswersDue(c, current_decided_idx[ServerOf(c)])'
                          = AnswersDue(c, current_decided_idx[ServerOf(c)])
  <2> SUFFICES ASSUME NEW c \in Client
               PROVE  AnswersDue(c, current_decided_idx[ServerOf(c)])'
                        = AnswersDue(c, current_decided_idx[ServerOf(c)])
    OBVIOUS
  <2> DEFINE n == current_decided_idx[ServerOf(c)]
  <2>1. n \in 0..Len(log)
    BY <1>2, ClientParts
  <2>2. \A m \in 0..Len(log) : AnswersDue(c, m)' = AnswersDue(c, m)
    BY <1>1, DueKept
  <2>3. current_decided_idx'[ServerOf(c)] = n
    BY <1>1
  <2>4. AnswersDue(c, current_decided_idx[ServerOf(c)])' = AnswersDue(c, n)
    BY <2>1, <2>2, <2>3 DEF AnswersDue
  <2> QED BY <2>4
<1> QED BY <1>1, <1>3 DEF AnswersFollowLog, Answers

LEMMA AnswersSendStartSignals ==
  ASSUME IInv, AnswersFollowLog, NEW s \in Servers, NEW time \in StartTimes, SendStartSignals(s, time)
  PROVE  AnswersFollowLog'
<1> DEFINE n == current_decided_idx[s]
           st == SendClientStartSignals(s, time, HandlerState(s))
<1>1. Applied(HandlerState(s), n, n) /\ Answering(s, HandlerState(s), n) /\ n \in Nat
  BY HandlerStateApplied, AnsweringNow DEF IInv, TypeOK
<1>2. Applied(st, n, n) /\ Answering(s, st, n)
  BY <1>1, StartSignalsAnswers
<1>3. Becomes(s, st) /\ log' = log
  BY DEF SendStartSignals, libVars
<1> HIDE DEF n, st
<1> QED BY <1>1, <1>2, <1>3, BecomesAnswered

LEMMA AnswersHandleClusterMessages ==
  ASSUME IInv, AnswersFollowLog, NEW s \in Servers, NEW batch, NEW rest, NEW d1, NEW d2, NEW lead, NEW T,
         HandleClusterMessages(s, batch, rest, d1, d2, lead, T)
  PROVE  AnswersFollowLog'
<1> DEFINE signals == batch \ {OmniPaxosMessage}
           n == current_decided_idx[s]
           before == HandleDecidedEntries(s, d1, HandlerState(s))
           time == (CHOOSE m \in signals : TRUE).time
           between == IF signals = {} THEN before ELSE SendClientStartSignals(s, time, before)
           final == HandleDecidedEntries(s, d2, between)
           Well(st, i) == i \in Nat /\ Applied(st, i, i) /\ Answering(s, st, i)
<1>1. batch \subseteq cluster_messages[s] /\ Becomes(s, final) /\ log' = log
  BY DEF HandleClusterMessages
<1>2. /\ log \in Seq(Command) /\ Len(log) \in Nat /\ decided_idx[s] \in Nat
      /\ n \in Nat /\ n <= Len(log)
  BY DEF IInv, TypeOK, LibTypeOK, ReplicaMatchesLog
<1>3. d1 \in Nat /\ d2 \in Nat /\ d1 <= Len(log) /\ d2 <= Len(log)
  <2>1. CASE OmniPaxosMessage \in batch
    <3>1. d2 \in decided_idx[s]..Len(log) /\ d1 \in {n} \cup decided_idx[s]..d2
      BY <2>1 DEF HandleClusterMessages, LearnDecided
    <3> QED BY <1>2, <3>1
  <2>2. CASE OmniPaxosMessage \notin batch
    BY <1>2, <2>2 DEF HandleClusterMessages
  <2> QED BY <2>1, <2>2
<1>4. Well(HandlerState(s), n)
  BY <1>2, HandlerStateApplied, AnsweringNow
<1>5. \E i \in Nat : Well(before, i)
  BY <1>2, <1>3, <1>4, HandleDecidedAnswers
<1> HIDE DEF before
<1>6. \E i \in Nat : Well(between, i)
  <2>1. CASE signals = {}
    BY <1>5, <2>1
  <2>2. CASE signals # {}
    <3>1. \A m \in signals : m.time \in StartTimes
      BY <1>1 DEF IInv, TypeOK, ClusterMessage
    <3>2. time \in StartTimes
      BY <2>2, <3>1
    <3>3. PICK i \in Nat : Well(before, i)
      BY <1>5
    <3> HIDE DEF time
    <3>4. Well(SendClientStartSignals(s, time, before), i)
      BY <3>2, <3>3, StartSignalsAnswers
    <3> QED BY <2>2, <3>4
  <2> QED BY <2>1, <2>2
<1> HIDE DEF between
<1>7. \E i \in Nat : Well(final, i)
  BY <1>2, <1>3, <1>6, HandleDecidedAnswers
<1> HIDE DEF final
<1> QED BY <1>1, <1>7, BecomesAnswered

LEMMA NextAnswers == IInv /\ AnswersFollowLog /\ [Next]_vars => AnswersFollowLog'
<1> SUFFICES ASSUME IInv, AnswersFollowLog, [Next]_vars PROVE AnswersFollowLog'
  OBVIOUS
<1>1. ASSUME NEW s \in Servers, ServerStep(s) PROVE AnswersFollowLog'
  <2>1. ASSUME NEW T, TakeLeadership(s, T) PROVE AnswersFollowLog'
    BY <2>1, AnswersElsewhere DEF TakeLeadership
  <2>2. ASSUME NEW T, NEW upto \in Batches(s), HandleClientMessages(s, upto, T)
        PROVE  AnswersFollowLog'
    BY <2>2, AnswersElsewhere DEF HandleClientMessages
  <2>3. ASSUME NEW T, Tick(s, T) PROVE AnswersFollowLog'
    BY <2>3, AnswersElsewhere DEF Tick, libVars
  <2>4. ASSUME NEW d, NEW T, Poll(s, d, T) PROVE AnswersFollowLog'
    BY <2>4, AnswersElsewhere DEF Poll
  <2> QED BY <1>1, <2>1, <2>2, <2>3, <2>4, AnswersHandleClusterMessages DEF ServerStep
<1>2. ASSUME NEW s \in Servers, NEW time \in StartTimes, SendStartSignals(s, time)
      PROVE  AnswersFollowLog'
  BY <1>2, AnswersSendStartSignals
<1>3. ASSUME NEW c \in Client, ClientStep(c) PROVE AnswersFollowLog'
  BY <1>3, AnswersElsewhere DEF ClientStep, ClientReceives, ClientFinishes, ClientSends, libVars,
     serverVars, channelVars
<1>4. ASSUME Failure PROVE AnswersFollowLog'
  <2>1. ASSUME NEW c, ClientLeaves(c) PROVE AnswersFollowLog'
    BY <2>1, AnswersElsewhere DEF ClientLeaves, libVars, serverVars, channelVars
  <2>2. ASSUME NEW s, NEW t, NEW L, LinkBreaks(s, t, L) PROVE AnswersFollowLog'
    BY <2>2, AnswersElsewhere DEF LinkBreaks, libVars, serverVars
  <2>3. ASSUME NEW s, NEW L, Crash(s, L) PROVE AnswersFollowLog'
    BY <2>3, AnswersElsewhere DEF Crash, libVars
  <2>4. CASE WriterEnds
    BY <2>4, AnswersElsewhere DEF WriterEnds, libVars, serverVars, channelVars
  <2> QED BY <1>4, <2>1, <2>2, <2>3, <2>4 DEF Failure, LinkFailure
<1>5. CASE UNCHANGED vars
  BY <1>5, AnswersElsewhere DEF vars, libVars, serverVars, channelVars
<1>6. ASSUME NEW s \in Servers, NetworkReturns(s) PROVE AnswersFollowLog'
  BY <1>6, AnswersElsewhere DEF NetworkReturns, NetworkReady, libVars
<1> QED BY <1>1, <1>2, <1>3, <1>4, <1>5, <1>6, AnswersLibraryDecides DEF Next

\* A client is told exactly the answers of its own commands its server has
\* applied, in the order and with the values of the log, up to where the server
\* dropped the connection: whatever the batches and whoever fails
\* (handle_decided_entries, update_database_and_respond, send_to_client).
THEOREM AnswersAlwaysFollowLog == Spec => []AnswersFollowLog
BY InitAnswers, NextAnswers, Invariance, PTL DEF Spec
-----------------------------------------------------------------------------
(***************************************************************************)
(* The cluster is one map.  What of its state the abstract service sees:   *)
(***************************************************************************)
Called == UNION {{[client |-> c, id |-> i - 1, cmd |-> requests[c][i]]
                    : i \in 1..Len(requests[c])} : c \in Client}
Outcomes == {[client |-> IssuedBy(log[n]), answer |-> AnswerAt(log, n)] : n \in 1..Len(log)}
Returned == UNION {{[client |-> c, answer |-> Answers(c)[i]] : i \in 1..Len(Answers(c))} : c \in Client}

\* An answer in a client's stream is the outcome of an entry of the log.
ReturnedTookEffect == Returned \subseteq Outcomes

LEMMA AnswersTookEffect == IInv /\ AnswersFollowLog => ReturnedTookEffect
<1> SUFFICES ASSUME IInv, AnswersFollowLog,
                    NEW c \in Client, NEW i \in 1..Len(Answers(c))
             PROVE  [client |-> c, answer |-> Answers(c)[i]] \in Outcomes
  BY DEF ReturnedTookEffect, Returned
<1> DEFINE n == current_decided_idx[ServerOf(c)]
           due == AnswersDue(c, n)
           all == [j \in 1..n |-> AnswerAt(log, j)]
           I == {j \in 1..n : IssuedBy(log[j]) = c}
<1>1. n \in Nat /\ n <= Len(log) /\ Len(log) \in Nat
  <2>1. log \in Seq(Command) /\ decided_idx \in [Servers -> Nat] /\ current_decided_idx \in [Servers -> Nat]
        /\ ServerOf(c) \in Servers
    BY ClientParts DEF IInv, TypeOK, LibTypeOK
  <2>2. decided_idx[ServerOf(c)] \in Nat /\ n \in Nat
    BY <2>1
  <2>3. n <= decided_idx[ServerOf(c)] /\ decided_idx[ServerOf(c)] <= Len(log)
    BY <2>1 DEF IInv, ReplicaMatchesLog
  <2>4. Len(log) \in Nat
    BY <2>1
  <2> QED BY <2>2, <2>3, <2>4
<1>2. responses[c] \in Seq(ServerMessage)
  BY DEF IInv, TypeOK, StreamsTypeOK
<1>3. Answers(c) \in Seq(ServerMessage)
  BY <1>2, AnswersTyped DEF Answers
<1> HIDE DEF n
<1>4. due \in Seq(Dues(n))
  BY <1>1, DueTyped
<1>5. IsPrefix(Answers(c), due)
  <2> HIDE DEF IsPrefix, due
  <2>1. IsPrefix(Answers(c), Answers(c))
    BY <1>3, PrefixSelf
  <2> QED BY <2>1 DEF AnswersFollowLog, due, n
<1>6. i \in 1..Len(due) /\ Answers(c)[i] = due[i]
  <2> HIDE DEF due
  <2> DEFINE a == Answers(c)
             m == Len(a)
  <2>1. m \in Nat /\ i \in 1..m
    BY <1>3
  <2>2. m <= Len(due) /\ SubSeq(a, 1, m) = SubSeq(due, 1, m)
    BY <1>5 DEF IsPrefix
  <2>3. SubSeq(a, 1, m)[i] = a[i]
    BY <1>3, <2>1
  <2>4. SubSeq(due, 1, m)[i] = due[i]
    BY <1>4, <2>1, <2>2
  <2>5. i \in 1..Len(due)
    BY <1>4, <2>1, <2>2
  <2> QED BY <2>2, <2>3, <2>4, <2>5
<1>7. Held(due, all, I, Len(all))
  <2>1. all \in Seq(Dues(n))
    BY <1>1 DEF Dues
  <2>2. due = Picked(all, I)
    BY DEF AnswersDue
  <2> HIDE DEF all, I, due
  <2> QED BY <2>1, <2>2, PickedRange
<1>8. \E j \in 1..Len(all) : j \in I /\ Answers(c)[i] = all[j]
  <2> HIDE DEF all, I, due
  <2>1. \E j \in 1..Len(due) : Answers(c)[i] = due[j]
    BY <1>6
  <2> QED BY <1>7, <2>1, Zenon DEF Held
<1>9. PICK j \in 1..n : IssuedBy(log[j]) = c /\ Answers(c)[i] = AnswerAt(log, j)
  BY <1>1, <1>8
<1>10. j \in 1..Len(log)
  BY <1>1
<1> QED BY <1>9, <1>10 DEF Outcomes

\* What was returned stays returned, as long as streams only grow.
StreamsGrow ==
  \A c \in Client : /\ Len(responses[c]) <= Len(responses'[c])
                    /\ \A i \in 1..Len(responses[c]) : responses'[c][i] = responses[c][i]

LEMMA ReturnedGrows ==
  ASSUME IInv, responses' \in [Client -> Seq(ServerMessage)], StreamsGrow
  PROVE  Returned \subseteq Returned'
<1> SUFFICES ASSUME NEW c \in Client, NEW i \in 1..Len(Answers(c))
             PROVE  \E j \in 1..Len(Answers(c)') : Answers(c)[i] = Answers(c)'[j]
  BY DEF Returned
<1> DEFINE old == responses[c]
           new == responses'[c]
           I == {j \in 1..Len(old) : old[j].type # "StartSignal"}
           J == {j \in 1..Len(new) : new[j].type # "StartSignal"}
<1>1. old \in Seq(ServerMessage) /\ new \in Seq(ServerMessage)
  BY DEF IInv, TypeOK, StreamsTypeOK
<1>2. Len(old) \in Nat /\ Len(new) \in Nat /\ Len(old) <= Len(new) /\ \A j \in 1..Len(old) : new[j] = old[j]
  BY <1>1 DEF StreamsGrow
<1>3. Answers(c) = Picked(old, I) /\ Answers(c)' = Picked(new, J)
  BY DEF Answers, AnswersIn, Picked
<1>4. \A j \in 1..Len(old) : j \in I => j \in J
  BY <1>2
<1> HIDE DEF I, J, old, new
<1>5. Held(Answers(c), old, I, Len(old)) /\ Held(Answers(c)', new, J, Len(new))
  BY <1>1, <1>3, PickedRange
<1>6. PICK j \in 1..Len(old) : j \in I /\ Answers(c)[i] = old[j]
  BY <1>5, Zenon DEF Held
<1>7. j \in 1..Len(new) /\ j \in J /\ Answers(c)[i] = new[j]
  BY <1>2, <1>4, <1>6
<1> QED BY <1>5, <1>7, Zenon DEF Held
-----------------------------------------------------------------------------
(* The steps of the service, in terms of the cluster. *)

Stays == UNCHANGED <<MapAfter(log, Len(log)), Called, Outcomes, Returned>>

LEMMA ServiceStutters == Stays => UNCHANGED Service!kvVars
BY DEF Stays, MapAfter, Called, Outcomes, Returned, Service!kvVars

LEMMA ServiceCall ==
  ASSUME NEW c \in Client, NEW cmd \in KVCommand,
         Called' = Called \cup {[client |-> c, id |-> Cardinality({o \in Called : o.client = c}), cmd |-> cmd]},
         UNCHANGED <<MapAfter(log, Len(log)), Outcomes, Returned>>
  PROVE  Service!KVNext
<1>1. c \in Service!Client /\ cmd \in Service!KVCommand
  BY DEF Service!Client, Service!ClientIds, Service!KVCommand, Client, ClientIds, KVCommand
<1>2. \A S : Service!Cardinality(S) = Cardinality(S)
  BY DEF Service!Cardinality, Cardinality
<1>3. Service!Call(c, cmd)
  BY <1>2 DEF Service!Call, Service!Operation, MapAfter, Called, Outcomes, Returned
<1> QED BY <1>1, <1>3 DEF Service!KVNext

LEMMA ServiceTakeEffect ==
  ASSUME NEW op \in Called,
         \A o \in Outcomes : o.client = op.client => o.answer.id # op.id,
         MapAfter(log, Len(log))' = Updated(MapAfter(log, Len(log)), op.cmd),
         Outcomes' = Outcomes \cup {[client |-> op.client,
                                     answer |-> Answer(MapAfter(log, Len(log)), op.id, op.cmd)]},
         UNCHANGED <<Called, Returned>>
  PROVE  Service!KVNext
<1>1. \A db, id, cmd : Service!Updated(db, cmd) = Updated(db, cmd) /\ Service!Answer(db, id, cmd) = Answer(db, id, cmd)
  BY DEF Service!Updated, Updated, Service!Answer, Answer, Service!Read, Read, Service!Write, Write
<1>2. Service!TakeEffect(op)
  BY <1>1 DEF Service!TakeEffect, Service!Outcome, MapAfter, Called, Outcomes, Returned
<1> QED BY <1>2 DEF Service!KVNext, Called

LEMMA ServiceReturns ==
  ASSUME Returned \subseteq Returned', Returned' \subseteq Outcomes,
         UNCHANGED <<MapAfter(log, Len(log)), Called, Outcomes>>
  PROVE  [Service!KVNext]_(Service!kvVars)
<1>1. CASE Returned' = Returned
  <2>1. Stays
    BY <1>1 DEF Stays
  <2> QED BY <2>1, ServiceStutters
<1>2. CASE Returned' # Returned
  <2>1. PICK answers : answers = Returned' \ Returned
    OBVIOUS
  <2>2. answers # {} /\ Returned' = Returned \cup answers /\ answers \in SUBSET (Outcomes \ Returned)
    BY <1>2, <2>1
  <2>3. Service!Return(answers)
    BY <2>2 DEF Service!Return, MapAfter, Called, Outcomes, Returned
  <2>4. Service!KVNext
    BY <2>2, <2>3 DEF Service!KVNext, Outcomes, Returned
  <2> QED BY <2>4
<1> QED BY <1>1, <1>2
-----------------------------------------------------------------------------
LEMMA InitService == Init => Service!KVInit
<1> SUFFICES ASSUME Init PROVE Service!KVInit
  OBVIOUS
<1>1. log = <<>> /\ Len(log) = 0 /\ \A c \in Client : requests[c] = <<>> /\ responses[c] = <<>>
  BY DEF Init, LibInit, StreamsInit
<1>2. MapAfter(log, Len(log)) = EmptyDb
  <2>1. EmptyDb \in Db /\ \A k \in Key : EmptyDb[k] = NoValue
    BY DEF EmptyDb, Db
  <2>2. \A k \in Key : LeavesValue(log, 0, k, EmptyDb[k])
    BY <2>1 DEF LeavesValue
  <2> QED BY <1>1, <2>1, <2>2, MeansIs
<1>3. Called = {}
  BY <1>1 DEF Called
<1>4. Outcomes = {}
  BY <1>1 DEF Outcomes
<1>5. Returned = {}
  <2>1. AnswersIn(<<>>) = <<>>
    BY PickedEmpty DEF AnswersIn
  <2>2. \A c \in Client : Answers(c) = <<>> /\ Len(<<>>) = 0
    BY <1>1, <2>1 DEF Answers
  <2> QED BY <2>2 DEF Returned
<1> QED BY <1>2, <1>3, <1>4, <1>5
        DEF Service!KVInit, Service!EmptyDb, EmptyDb, MapAfter, Called, Outcomes, Returned

LEMMA CalledIs ==
  ASSUME NEW o
  PROVE  o \in Called <=> \E e \in Client : \E i \in 1..Len(requests[e]) :
                            o = [client |-> e, id |-> i - 1, cmd |-> requests[e][i]]
BY DEF Called

LEMMA ServiceClientSends ==
  ASSUME IInv, NEW c \in Client, NEW cmd \in KVCommand, ClientSends(c, cmd)
  PROVE  Service!KVNext
<1> DEFINE own == {o \in Called : o.client = c}
           n == Len(requests[c])
           op == [client |-> c, id |-> n, cmd |-> cmd]
           f == [i \in 1..n |-> [client |-> c, id |-> i - 1, cmd |-> requests[c][i]]]
<1>1. /\ requests' = [requests EXCEPT ![c] = Append(requests[c], cmd)]
      /\ UNCHANGED <<log, responses>>
  BY DEF ClientSends, libVars
<1>2. requests \in [Client -> Seq(KVCommand)] /\ requests[c] \in Seq(KVCommand) /\ n \in Nat
  BY DEF IInv, TypeOK, StreamsTypeOK
<1>3. Cardinality(own) = n
  <2>1. ASSUME NEW o PROVE o \in own <=> \E i \in 1..n : o = f[i]
    <3>1. ASSUME o \in own PROVE \E i \in 1..n : o = f[i]
      <4>1. PICK e \in Client : \E i \in 1..Len(requests[e]) :
                                  o = [client |-> e, id |-> i - 1, cmd |-> requests[e][i]]
        BY <3>1, CalledIs
      <4>2. e = c
        BY <3>1, <4>1
      <4> QED BY <4>1, <4>2
    <3>2. ASSUME NEW i \in 1..n PROVE f[i] \in own
      <4>1. f[i] \in Called
        BY CalledIs
      <4> QED BY <4>1
    <3> HIDE DEF own, f
    <3> QED BY <3>1, <3>2
  <2>2. f \in [1..n -> own] /\ \A o \in own : \E i \in 1..n : f[i] = o
    <3> HIDE DEF own
    <3> QED BY <2>1
  <2>3. \A i, j \in 1..n : f[i] = f[j] => i = j
    <3> SUFFICES ASSUME NEW i \in 1..n, NEW j \in 1..n, f[i] = f[j] PROVE i = j
      OBVIOUS
    <3>1. f[i].id = i - 1 /\ f[j].id = j - 1
      OBVIOUS
    <3> QED BY <3>1
  <2> HIDE DEF f, own, n
  <2>4. f \in Bijection(1..n, own)
    BY <2>2, <2>3 DEF Bijection, Injection, Surjection, IsInjective
  <2>5. ExistsBijection(1..n, own)
    BY <2>4 DEF ExistsBijection
  <2> QED BY <1>2, <2>5, FS_CountingElements
<1>4. Called' = Called \cup {op}
  <2>1. requests'[c] = Append(requests[c], cmd) /\ \A e \in Client : e # c => requests'[e] = requests[e]
    BY <1>1, <1>2
  <2>2. /\ Len(requests'[c]) = n + 1 /\ requests'[c][n + 1] = cmd
        /\ \A i \in 1..n : requests'[c][i] = requests[c][i]
    BY <1>2, <2>1, AppendProperties
  <2>3. ASSUME NEW o PROVE o \in Called' <=> o \in Called \/ o = op
    <3>1. o \in Called <=> \E e \in Client : \E i \in 1..Len(requests[e]) :
                             o = [client |-> e, id |-> i - 1, cmd |-> requests[e][i]]
      BY CalledIs
    <3>2. o \in Called' <=> \E e \in Client : \E i \in 1..Len(requests'[e]) :
                              o = [client |-> e, id |-> i - 1, cmd |-> requests'[e][i]]
      BY DEF Called
    <3>3. (\E i \in 1..Len(requests'[c]) : o = [client |-> c, id |-> i - 1, cmd |-> requests'[c][i]])
            <=> \/ \E i \in 1..n : o = [client |-> c, id |-> i - 1, cmd |-> requests[c][i]]
                \/ o = op
      <4>1. 1..Len(requests'[c]) = 1..n \cup {n + 1} /\ (n + 1) - 1 = n
        BY <1>2, <2>2
      <4> HIDE DEF n
      <4> QED BY <2>2, <4>1
    <3> QED BY <2>1, <3>1, <3>2, <3>3
  <2> HIDE DEF op
  <2> QED BY <2>3
<1>5. UNCHANGED <<MapAfter(log, Len(log)), Outcomes, Returned>>
  BY <1>1 DEF MapAfter, ValueAfter, Outcomes, AnswerAt, Returned, Answers
<1> QED BY <1>3, <1>4, <1>5, ServiceCall

\* A command takes effect when it enters the log: the request it was made of
\* was called, and had no outcome yet.
LEMMA ServiceLibraryDecides ==
  ASSUME IInv, Accounted, LibraryDecides
  PROVE  Service!KVNext
<1> DEFINE n == Len(log)
           map == MapAfter(log, n)
<1>1. PICK cmd \in pending :
        /\ cmd \in Command /\ log \in Seq(Command) /\ log' \in Seq(Command)
        /\ n \in Nat /\ Len(log') = n + 1
        /\ \A i \in 1..n : log'[i] = log[i]
        /\ log'[n + 1] = cmd
        /\ UNCHANGED <<serverVars, channelVars, linkVars>>
  BY LogExtends
<1>2. UNCHANGED <<requests, responses>>
  BY <1>1 DEF channelVars
<1>3. PICK c \in Client : \E i \in 1..appended[c] : cmd = CommandOf(c, i)
  BY <1>1 DEF Accounted, RequestsAccountedFor
<1>4. PICK i \in 1..appended[c] : cmd = CommandOf(c, i)
  BY <1>3
<1>5. /\ appended[c] \in Nat /\ appended[c] <= Len(requests[c]) /\ Len(requests[c]) \in Nat
  BY DEF IInv, TypeOK, StreamsTypeOK, Accounted
<1>6. i \in Nat /\ i \in 1..Len(requests[c])
  BY <1>5
<1> DEFINE op == [client |-> c, id |-> i - 1, cmd |-> requests[c][i]]
<1>7. op \in Called
  BY <1>6, CalledIs
<1>8. /\ cmd.id = op.id /\ cmd.kv_cmd = op.cmd /\ IssuedBy(cmd) = op.client
      /\ op.client = c /\ op.id = i - 1
  BY <1>4, ClientParts DEF CommandOf, IssuedBy
<1> HIDE DEF op
<1>9. ASSUME NEW o \in Outcomes, o.client = op.client PROVE o.answer.id # op.id
  <2>1. PICK m \in 1..n : o = [client |-> IssuedBy(log[m]), answer |-> AnswerAt(log, m)]
    BY DEF Outcomes
  <2>2. o.client = IssuedBy(log[m]) /\ o.answer.id = log[m].id
    BY <2>1 DEF AnswerAt, Read, Write
  <2>3. log[m] \in ToSet(log)
    BY <1>1 DEF ToSet
  <2>4. PICK e \in Client : \E j \in 1..appended[e] : log[m] = CommandOf(e, j)
    BY <2>3 DEF Accounted, RequestsAccountedFor
  <2>5. PICK j \in 1..appended[e] : log[m] = CommandOf(e, j)
    BY <2>4
  <2>6. IssuedBy(log[m]) = e /\ log[m].id = j - 1 /\ appended[e] \in Nat
    BY <2>5, ClientParts DEF CommandOf, IssuedBy, IInv, TypeOK, StreamsTypeOK
  <2>7. CASE o.answer.id = op.id
    <3>1. e = c
      BY <1>8, <1>9, <2>2, <2>6
    <3>2. j \in Nat /\ j - 1 = i - 1
      BY <1>8, <2>2, <2>6, <2>7
    <3>3. log[m] = cmd
      BY <1>4, <1>6, <2>5, <3>1, <3>2
    <3> QED BY <1>1, <2>3, <3>3 DEF Accounted, RequestsAccountedFor
  <2> QED BY <2>7
<1>10. Means(log, n) /\ MapAfter(log', n) = map
  BY <1>1, LogMeans, MeansPrefix
<1>11. Means(log', n) /\ n < Len(log')
  BY <1>1, LogMeans
<1>12. MapAfter(log, Len(log))' = Updated(map, op.cmd)
  <2>1. MapAfter(log', n + 1) = Updated(MapAfter(log', n), log'[n + 1].kv_cmd)
    BY <1>1, <1>11, MeansNext
  <2>2. MapAfter(log, Len(log))' = MapAfter(log', n + 1)
    BY <1>1 DEF MapAfter, ValueAfter
  <2> QED BY <1>1, <1>8, <1>10, <2>1, <2>2
<1>13. AnswerAt(log', n + 1) = Answer(map, op.id, op.cmd)
  <2>1. Answer(MapAfter(log', n), log'[n + 1].id, log'[n + 1].kv_cmd) = AnswerAt(log', n + 1)
    BY <1>1, <1>11, AnswerIsDue
  <2> QED BY <1>1, <1>8, <1>10, <2>1
<1>14. Outcomes' = Outcomes \cup {[client |-> op.client, answer |-> Answer(map, op.id, op.cmd)]}
  <2>1. Outcomes' = {[client |-> IssuedBy(log'[m]), answer |-> AnswerAt(log', m)] : m \in 1..Len(log')}
    BY DEF Outcomes, AnswerAt
  <2>2. 1..Len(log') = 1..n \cup {n + 1}
    BY <1>1
  <2>3. n <= Len(log')
    BY <1>1
  <2>4. \A m \in 1..n : AnswerAt(log', m) = AnswerAt(log, m) /\ log'[m] = log[m]
    BY <1>1, <2>3, AnswerAtPrefix
  <2>5. Outcomes = {[client |-> IssuedBy(log[m]), answer |-> AnswerAt(log, m)] : m \in 1..n}
    BY DEF Outcomes
  <2>6. IssuedBy(log'[n + 1]) = op.client
    BY <1>1, <1>8
  <2> HIDE DEF map, n
  <2> QED BY <1>13, <2>1, <2>2, <2>4, <2>5, <2>6
<1>15. UNCHANGED <<Called, Returned>>
  BY <1>2 DEF Called, Returned, Answers
<1> QED BY <1>7, <1>9, <1>12, <1>14, <1>15, ServiceTakeEffect

LEMMA ServiceElsewhere ==
  ASSUME UNCHANGED <<log, requests, responses>>
  PROVE  UNCHANGED Service!kvVars
<1>1. Stays
  BY DEF Stays, MapAfter, ValueAfter, Called, Outcomes, AnswerAt, Returned, Answers
<1> QED BY <1>1, ServiceStutters

\* A handler that sends returns what has taken effect.
LEMMA ServiceSends ==
  ASSUME IInv, responses' \in [Client -> Seq(ServerMessage)], StreamsGrow, ReturnedTookEffect',
         UNCHANGED <<log, requests>>
  PROVE  [Service!KVNext]_(Service!kvVars)
<1>1. UNCHANGED <<MapAfter(log, Len(log)), Called, Outcomes>>
  BY DEF MapAfter, ValueAfter, Called, Outcomes, AnswerAt
<1>2. Returned' \subseteq Outcomes
  BY <1>1 DEF ReturnedTookEffect
<1> QED BY <1>1, <1>2, ReturnedGrows, ServiceReturns

LEMMA GrowSendStartSignals ==
  ASSUME IInv, IInv', StartInv, NEW s \in Servers, NEW time, SendStartSignals(s, time)
  PROVE  StreamsGrow
<1>1. \A c \in Client : responses[c] = <<>>
  BY ClientParts DEF SendStartSignals, StartInv, Unstarted, Waiting, Quiet
<1>2. \A c \in Client : Len(responses'[c]) \in Nat
  BY DEF IInv, TypeOK, StreamsTypeOK
<1> QED BY <1>1, <1>2 DEF StreamsGrow

LEMMA GrowHandleClusterMessages ==
  ASSUME IInv, IInv', Accounted, StartInv, NEW s \in Servers, NEW batch, NEW rest, NEW d1, NEW d2,
         NEW lead, NEW T, HandleClusterMessages(s, batch, rest, d1, d2, lead, T)
  PROVE  StreamsGrow
<1>1. PICK time : \A u \in Servers : Signals(u) \subseteq {LeaderStartSignal(time)}
  BY DEF StartInv, OneInstant
<1>2. \A c \in Client :
        \/ AnswersAdded(c, responses[c], responses'[c])
        \/ phase[s] = "establish" /\ ServerOf(c) = s
  BY <1>1, BatchAnswers
<1>3. \A c \in Client : Len(responses'[c]) \in Nat
  BY DEF IInv, TypeOK, StreamsTypeOK
<1>4. ASSUME NEW c \in Client
      PROVE  /\ Len(responses[c]) <= Len(responses'[c])
             /\ \A i \in 1..Len(responses[c]) : responses'[c][i] = responses[c][i]
  <2>1. CASE AnswersAdded(c, responses[c], responses'[c])
    BY <2>1 DEF AnswersAdded
  <2>2. CASE phase[s] = "establish" /\ ServerOf(c) = s
    <3>1. responses[c] = <<>>
      BY <2>2 DEF StartInv, Unstarted, Waiting, Quiet, ClientsOf
    <3> QED BY <1>3, <3>1
  <2> QED BY <1>2, <2>1, <2>2
<1> QED BY <1>4 DEF StreamsGrow

LEMMA NextService ==
  ASSUME IInv, IInv', Accounted, StartInv, ReturnedTookEffect', [Next]_vars
  PROVE  [Service!KVNext]_(Service!kvVars)
<1>1. responses' \in [Client -> Seq(ServerMessage)]
  BY DEF IInv, TypeOK, StreamsTypeOK
<1>2. ASSUME NEW s \in Servers, ServerStep(s) PROVE [Service!KVNext]_(Service!kvVars)
  <2>1. ASSUME NEW T, TakeLeadership(s, T) PROVE UNCHANGED Service!kvVars
    BY <2>1, ServiceElsewhere DEF TakeLeadership
  <2>2. ASSUME NEW batch, NEW rest, NEW d1, NEW d2, NEW lead, NEW T,
               HandleClusterMessages(s, batch, rest, d1, d2, lead, T)
        PROVE  [Service!KVNext]_(Service!kvVars)
    <3>1. StreamsGrow
      BY <2>2, GrowHandleClusterMessages
    <3>2. UNCHANGED <<log, requests>>
      BY <2>2 DEF HandleClusterMessages
    <3> QED BY <1>1, <3>1, <3>2, ServiceSends
  <2>3. ASSUME NEW T, NEW upto, HandleClientMessages(s, upto, T) PROVE UNCHANGED Service!kvVars
    BY <2>3, ServiceElsewhere DEF HandleClientMessages
  <2>4. ASSUME NEW T, Tick(s, T) PROVE UNCHANGED Service!kvVars
    BY <2>4, ServiceElsewhere DEF Tick, libVars
  <2>5. ASSUME NEW d, NEW T, Poll(s, d, T) PROVE UNCHANGED Service!kvVars
    BY <2>5, ServiceElsewhere DEF Poll
  <2> QED BY <1>2, <2>1, <2>2, <2>3, <2>4, <2>5 DEF ServerStep
<1>3. ASSUME NEW s \in Servers, NEW time \in StartTimes, SendStartSignals(s, time)
      PROVE  [Service!KVNext]_(Service!kvVars)
  <2>1. StreamsGrow
    BY <1>3, GrowSendStartSignals
  <2>2. UNCHANGED <<log, requests>>
    BY <1>3 DEF SendStartSignals, libVars
  <2> QED BY <1>1, <2>1, <2>2, ServiceSends
<1>4. ASSUME NEW c \in Client, ClientStep(c) PROVE [Service!KVNext]_(Service!kvVars)
  <2>1. CASE ClientReceives(c)
    BY <2>1, ServiceElsewhere DEF ClientReceives, libVars
  <2>2. CASE ClientFinishes(c)
    BY <2>2, ServiceElsewhere DEF ClientFinishes, libVars, channelVars
  <2> QED BY <1>4, <2>1, <2>2, ServiceClientSends DEF ClientStep
<1>5. ASSUME Failure PROVE UNCHANGED Service!kvVars
  <2>1. ASSUME NEW c, ClientLeaves(c) PROVE UNCHANGED Service!kvVars
    BY <2>1, ServiceElsewhere DEF ClientLeaves, libVars, channelVars
  <2>2. ASSUME NEW s, NEW t, NEW L, LinkBreaks(s, t, L) PROVE UNCHANGED Service!kvVars
    BY <2>2, ServiceElsewhere DEF LinkBreaks, libVars
  <2>3. ASSUME NEW s, NEW L, Crash(s, L) PROVE UNCHANGED Service!kvVars
    BY <2>3, ServiceElsewhere DEF Crash, libVars
  <2>4. CASE WriterEnds
    BY <2>4, ServiceElsewhere DEF WriterEnds, libVars, channelVars
  <2> QED BY <1>5, <2>1, <2>2, <2>3, <2>4 DEF Failure, LinkFailure
<1>6. CASE UNCHANGED vars
  BY <1>6, ServiceElsewhere DEF vars, libVars, channelVars
<1>7. ASSUME NEW s \in Servers, NetworkReturns(s) PROVE UNCHANGED Service!kvVars
  BY <1>7, ServiceElsewhere DEF NetworkReturns, NetworkReady, libVars
<1> QED BY <1>2, <1>3, <1>4, <1>5, <1>6, <1>7, ServiceLibraryDecides DEF Next

\* Requests are linearizable, reads included, for any number of servers,
\* clients and failures, crashes among them: whichever server a client talks to
\* (server.rs, database.rs), all see one map, on which every operation takes
\* effect at once when the library decides it, between its call and its return.
THEOREM ClusterIsOneMap == Spec => Linearizable
<1>1. Init => Service!KVInit
  BY InitService
<1>2. IInv /\ IInv' /\ Accounted /\ StartInv /\ ReturnedTookEffect' /\ [Next]_vars
        => [Service!KVNext]_(Service!kvVars)
  BY NextService
<1>3. Spec => []Accounted
  BY InitAccounted, NextAccounted, Invariance, PTL DEF Spec
<1> QED BY <1>1, <1>2, <1>3, Invariance, StartInvariance, AnswersAlwaysFollowLog, AnswersTookEffect, PTL
        DEF Spec, Linearizable, Service!KVSpec
-----------------------------------------------------------------------------
(***************************************************************************)
(* What a client is told after the start: answers to requests of its own,  *)
(* each at most once.                                                      *)
(***************************************************************************)
ServersInv == IInv /\ Accounted /\ StartInv /\ AnswersFollowLog

Telling(c) == 2..Len(responses[c])

\* Every answer in a stream has an entry of the log of its own.
LEMMA AnswersHaveEntries ==
  ASSUME ServersInv, NEW c \in Client
  PROVE  \E e : /\ \A j \in Telling(c) : /\ e[j] \in 1..Len(log)
                                         /\ IssuedBy(log[e[j]]) = c
                                         /\ responses[c][j] = AnswerAt(log, e[j])
                /\ \A j, k \in Telling(c) : e[j] = e[k] => j = k
<1> DEFINE n == current_decided_idx[ServerOf(c)]
           stream == responses[c]
           due == AnswersDue(c, n)
           told == Answers(c)
           all == [j \in 1..n |-> AnswerAt(log, j)]
           I == {j \in 1..n : IssuedBy(log[j]) = c}
           J == {j \in 1..Len(stream) : stream[j].type # "StartSignal"}
<1>1. n \in Nat /\ n <= Len(log) /\ Len(log) \in Nat
  <2>1. log \in Seq(Command) /\ decided_idx \in [Servers -> Nat] /\ current_decided_idx \in [Servers -> Nat]
        /\ ServerOf(c) \in Servers
    BY ClientParts DEF ServersInv, IInv, TypeOK, LibTypeOK
  <2>2. decided_idx[ServerOf(c)] \in Nat /\ n \in Nat
    BY <2>1
  <2>3. n <= decided_idx[ServerOf(c)] /\ decided_idx[ServerOf(c)] <= Len(log)
    BY <2>1 DEF ServersInv, IInv, ReplicaMatchesLog
  <2>4. Len(log) \in Nat
    BY <2>1
  <2> QED BY <2>2, <2>3, <2>4
<1>2. stream \in Seq(ServerMessage)
  BY DEF ServersInv, IInv, TypeOK, StreamsTypeOK
<1>3. told = Picked(stream, J) /\ due = Picked(all, I)
  BY DEF Answers, AnswersIn, AnswersDue
<1>4. Len(all) = n /\ all \in Seq(Dues(n))
  BY <1>1 DEF Dues
<1>5. \A j \in Telling(c) : j \in 1..Len(stream) /\ j \in J
  BY <1>2 DEF ServersInv, StartInv, OneSignal, Telling
<1>6. told \in Seq(ServerMessage) /\ due \in Seq(Dues(n))
  BY <1>1, <1>2, AnswersTyped, DueTyped DEF Answers
<1>7. IsPrefix(told, due)
  <2> HIDE DEF IsPrefix, due, told, n
  <2>1. IsPrefix(told, told)
    BY <1>6, PrefixSelf
  <2> QED BY <2>1 DEF ServersInv, AnswersFollowLog, due, n, told
<1> HIDE DEF n, due, told, all, I, J
<1>8. Len(told) <= Len(due) /\ \A k \in 1..Len(told) : k \in 1..Len(due) /\ told[k] = due[k]
  <2> DEFINE m == Len(told)
  <2>1. m \in Nat /\ m <= Len(due) /\ SubSeq(told, 1, m) = SubSeq(due, 1, m) /\ Len(due) \in Nat
    BY <1>6, <1>7 DEF IsPrefix
  <2> HIDE DEF m
  <2>2. \A k \in 1..m : SubSeq(told, 1, m)[k] = told[k] /\ SubSeq(due, 1, m)[k] = due[k]
    BY <1>6, <2>1 DEF m
  <2> QED BY <2>1, <2>2 DEF m
<1>9. PICK g : Places(told, stream, J, Len(stream), g)
  BY <1>2, <1>3, PickedPlaces
<1>10. PICK h : Places(due, all, I, n, h)
  BY <1>3, <1>4, PickedPlaces
<1> DEFINE place == [j \in Telling(c) |-> CHOOSE k \in 1..Len(told) : g[k] = j]
           e == [j \in Telling(c) |-> h[place[j]]]
<1>11. ASSUME NEW j \in Telling(c) PROVE place[j] \in 1..Len(told) /\ g[place[j]] = j
  <2>1. \E k \in 1..Len(told) : g[k] = j
    BY <1>5, <1>9 DEF Places
  <2> QED BY <2>1
<1>12. \A j \in Telling(c) : e[j] = h[place[j]]
  OBVIOUS
<1> HIDE DEF place, e
<1>13. ASSUME NEW j \in Telling(c)
       PROVE  e[j] \in 1..Len(log) /\ IssuedBy(log[e[j]]) = c /\ stream[j] = AnswerAt(log, e[j])
  <2> DEFINE k == place[j]
  <2>1. k \in 1..Len(told) /\ k \in 1..Len(due) /\ told[k] = due[k] /\ g[k] = j /\ e[j] = h[k]
    BY <1>8, <1>11, <1>12
  <2> HIDE DEF k
  <2>2. told[k] = stream[j]
    BY <1>9, <2>1 DEF Places
  <2>3. h[k] \in 1..n /\ h[k] \in I /\ due[k] = all[h[k]]
    BY <1>10, <2>1 DEF Places
  <2>4. all[h[k]] = AnswerAt(log, h[k]) /\ IssuedBy(log[h[k]]) = c
    BY <2>3 DEF all, I
  <2>5. h[k] \in 1..Len(log)
    BY <1>1, <2>3
  <2>6. stream[j] = AnswerAt(log, h[k])
    BY <2>1, <2>2, <2>3, <2>4
  <2> HIDE DEF stream
  <2> QED BY <2>1, <2>4, <2>5, <2>6
<1>14. ASSUME NEW j \in Telling(c), NEW k \in Telling(c), e[j] = e[k] PROVE j = k
  <2>1. place[j] \in 1..Len(due) /\ place[k] \in 1..Len(due)
    BY <1>8, <1>11
  <2>2. h[place[j]] = h[place[k]]
    BY <1>12, <1>14
  <2>3. place[j] = place[k]
    BY <1>10, <2>1, <2>2 DEF Places
  <2> QED BY <1>11, <2>3
<1> QED BY <1>13, <1>14

LEMMA AnswersAreOwn ==
  ASSUME ServersInv, NEW c \in Client
  PROVE  /\ \A j \in Telling(c) : responses[c][j].id \in 0..(appended[c] - 1)
         /\ \A j, k \in Telling(c) : responses[c][j].id = responses[c][k].id => j = k
         /\ \A j \in Telling(c) : \E i \in 1..appended[c] : \E n \in 1..Len(log) :
              log[n] = CommandOf(c, i) /\ responses[c][j] = AnswerAt(log, n)
                                       /\ responses[c][j].id = i - 1
<1>1. PICK e : /\ \A j \in Telling(c) : /\ e[j] \in 1..Len(log)
                                        /\ IssuedBy(log[e[j]]) = c
                                        /\ responses[c][j] = AnswerAt(log, e[j])
               /\ \A j, k \in Telling(c) : e[j] = e[k] => j = k
  BY AnswersHaveEntries
<1>2. appended[c] \in Nat /\ log \in Seq(Command)
  BY DEF ServersInv, IInv, TypeOK, LibTypeOK, StreamsTypeOK
<1>3. ASSUME NEW m \in 1..Len(log), IssuedBy(log[m]) = c
      PROVE  \E i \in 1..appended[c] : log[m] = CommandOf(c, i)
  <2>1. log[m] \in ToSet(log)
    BY DEF ToSet
  <2>2. PICK d \in Client : \E i \in 1..appended[d] : log[m] = CommandOf(d, i)
    BY <2>1 DEF ServersInv, Accounted, RequestsAccountedFor
  <2>3. IssuedBy(log[m]) = <<ServerOf(d), ClientId(d)>>
    BY <2>2 DEF IssuedBy, CommandOf
  <2> QED BY <1>3, <2>2, <2>3, ClientParts
<1>4. \A m \in Nat : AnswerAt(log, m).id = log[m].id
  BY DEF AnswerAt, Read, Write
<1>5. ASSUME NEW j \in Telling(c)
      PROVE  \E i \in 1..appended[c] : log[e[j]] = CommandOf(c, i) /\ responses[c][j].id = i - 1
  <2>1. PICK i \in 1..appended[c] : log[e[j]] = CommandOf(c, i)
    BY <1>1, <1>3
  <2>2. responses[c][j].id = log[e[j]].id
    BY <1>1, <1>4
  <2>3. CommandOf(c, i).id = i - 1
    BY DEF CommandOf
  <2> QED BY <2>1, <2>2, <2>3
<1>6. \A j \in Telling(c) : responses[c][j].id \in 0..(appended[c] - 1)
  BY <1>2, <1>5
<1>7. ASSUME NEW j \in Telling(c), NEW k \in Telling(c), responses[c][j].id = responses[c][k].id
      PROVE  j = k
  <2>1. PICK i \in 1..appended[c] : log[e[j]] = CommandOf(c, i) /\ responses[c][j].id = i - 1
    BY <1>5
  <2>2. PICK l \in 1..appended[c] : log[e[k]] = CommandOf(c, l) /\ responses[c][k].id = l - 1
    BY <1>5
  <2>3. i = l
    <3>1. i - 1 = l - 1
      BY <1>7, <2>1, <2>2
    <3> QED BY <1>2, <3>1
  <2>4. log[e[j]] = log[e[k]] /\ e[j] \in DOMAIN log /\ e[k] \in DOMAIN log
    BY <1>1, <1>2, <2>1, <2>2, <2>3
  <2>5. e[j] = e[k]
    BY <2>4 DEF ServersInv, Accounted, RequestsAccountedFor, IsInjective
  <2> QED BY <1>1, <2>5
<1>8. ASSUME NEW j \in Telling(c)
      PROVE  \E i \in 1..appended[c] : \E n \in 1..Len(log) :
               log[n] = CommandOf(c, i) /\ responses[c][j] = AnswerAt(log, n)
                                        /\ responses[c][j].id = i - 1
  BY <1>1, <1>5
<1> QED BY <1>6, <1>7, <1>8
-----------------------------------------------------------------------------
(***************************************************************************)
(* The inductive invariant of a client: as long as it runs, its connection *)
(* is up, it has counted what it was told since the start, and whatever it *)
(* was told is marked.                                                     *)
(***************************************************************************)
ClientVarsTyped ==
  /\ client_state \in [Client -> {"waiting", "running", "finished", "closed", "crashed"}]
  /\ server_connection \in [Client -> {"up", "closed", "none"}]
  /\ request_data \in [Client -> Seq(BOOLEAN)]
  /\ response_count \in [Client -> Nat]
  /\ final_request_count \in [Client -> Int]
  /\ intervals_left \in [Client -> Nat]

Connected(c) == client_state[c] \in {"waiting", "running", "finished"} => client_link[c] = "up"

NotBegun(c) ==
  client_state[c] = "waiting" =>
    /\ delivered[c] = 0 /\ response_count[c] = 0
    /\ requests[c] = <<>> /\ request_data[c] = <<>>
    /\ final_request_count[c] = -1

Begun(c) ==
  client_state[c] \in {"running", "finished", "closed"} =>
    /\ delivered[c] = response_count[c] + 1
    /\ Len(requests[c]) <= Len(request_data[c])
    /\ final_request_count[c] # -1 => final_request_count[c] = Len(request_data[c])
    /\ \A j \in 2..delivered[c] : request_data[c][responses[c][j].id + 1]

Ended(c) ==
  client_state[c] \in {"finished", "closed"} => response_count[c] >= Len(request_data[c])

ClientInv(c) == Connected(c) /\ NotBegun(c) /\ Begun(c) /\ Ended(c)

SystemInv == ClientVarsTyped /\ \A c \in Client : ClientInv(c)

LEMMA InitSystemInv == Init /\ ClientInit => SystemInv
<1> SUFFICES ASSUME Init, ClientInit PROVE SystemInv
  OBVIOUS
<1>1. <<>> \in Seq(BOOLEAN) /\ Intervals \in Nat
  BY IntervalsAssumption
<1>2. ASSUME NEW c \in Client PROVE ClientInv(c)
  BY <1>1 DEF Init, StreamsInit, ClientInit, ClientInv, Connected, NotBegun, Begun, Ended
<1>3. /\ client_state \in [Client -> {"waiting", "running", "finished", "closed", "crashed"}]
      /\ server_connection \in [Client -> {"up", "closed", "none"}]
  BY DEF ClientInit
<1>4. /\ request_data \in [Client -> Seq(BOOLEAN)]
      /\ response_count \in [Client -> Nat]
      /\ intervals_left \in [Client -> Nat]
  BY <1>1 DEF ClientInit
<1>5. final_request_count \in [Client -> Int]
  BY DEF ClientInit
<1> QED BY <1>2, <1>3, <1>4, <1>5 DEF SystemInv, ClientVarsTyped

\* What the servers know of the streams.
LEMMA StreamsAgree ==
  ASSUME ServersInv, NEW c \in Client
  PROVE  /\ requests[c] \in Seq(KVCommand) /\ responses[c] \in Seq(ServerMessage)
         /\ Len(requests[c]) \in Nat /\ Len(responses[c]) \in Nat
         /\ delivered[c] \in Nat /\ delivered[c] <= Len(responses[c])
         /\ appended[c] \in Nat /\ appended[c] <= Len(requests[c])
         /\ requests[c] # <<>> => delivered[c] # 0
         /\ responses[c] # <<>> => responses[c][1].type = "StartSignal"
         /\ \A j \in Telling(c) : /\ responses[c][j].type # "StartSignal"
                                  /\ responses[c][j].id \in Nat
                                  /\ responses[c][j].id < Len(requests[c])
<1>1. /\ requests[c] \in Seq(KVCommand) /\ responses[c] \in Seq(ServerMessage)
      /\ delivered[c] \in Nat /\ appended[c] \in Nat
  BY DEF ServersInv, IInv, TypeOK, StreamsTypeOK
<1>2. delivered[c] <= Len(responses[c]) /\ (requests[c] # <<>> => delivered[c] # 0)
  BY DEF ServersInv, StartInv, HeardBeforeSending
<1>3. appended[c] <= Len(requests[c])
  BY DEF ServersInv, Accounted
<1>4. responses[c] # <<>> => responses[c][1].type = "StartSignal"
  BY DEF ServersInv, StartInv, OneInstant, StartSignal
<1>5. \A j \in Telling(c) : responses[c][j].type # "StartSignal"
  BY DEF ServersInv, StartInv, OneSignal, Telling
<1>6. Len(requests[c]) \in Nat /\ Len(responses[c]) \in Nat
  BY <1>1
<1>7. \A j \in Telling(c) : responses[c][j].id \in Nat /\ responses[c][j].id < Len(requests[c])
  <2>1. \A j \in Telling(c) : responses[c][j].id \in 0..(appended[c] - 1)
    BY AnswersAreOwn
  <2> QED BY <1>1, <1>3, <1>6, <2>1
<1> QED BY <1>1, <1>2, <1>3, <1>4, <1>5, <1>6, <1>7

\* Counting is as good as matching: the answers a client has counted map, one to
\* one, into its requests, so if they are as many, every request has its answer.
LEMMA CountingMatches ==
  ASSUME ServersInv, SystemInv, NEW c \in Client, client_state[c] \in {"finished", "closed"}
  PROVE  /\ delivered[c] = Len(requests[c]) + 1
         /\ \A i \in 1..Len(request_data[c]) :
              /\ request_data[c][i]
              /\ \E j \in 2..delivered[c] : j \in Telling(c) /\ responses[c][j].id = i - 1
<1> DEFINE n == Len(requests[c])
           m == response_count[c]
           f == [k \in 1..m |-> responses[c][k + 1].id + 1]
<1>1. /\ m \in Nat /\ n \in Nat /\ Len(request_data[c]) \in Nat
      /\ delivered[c] = m + 1 /\ delivered[c] <= Len(responses[c]) /\ Len(responses[c]) \in Nat
      /\ n <= Len(request_data[c]) /\ Len(request_data[c]) <= m
      /\ \A j \in 2..(m + 1) : request_data[c][responses[c][j].id + 1]
  BY StreamsAgree DEF SystemInv, ClientVarsTyped, ClientInv, Begun, Ended
<1> HIDE DEF n, m
<1>2. \A k \in 1..m : k + 1 \in Telling(c) /\ k + 1 \in 2..(m + 1)
  BY <1>1 DEF Telling
<1>3. \A k \in 1..m : responses[c][k + 1].id \in Nat /\ responses[c][k + 1].id < n
  BY <1>2, StreamsAgree DEF n
<1>4. f \in [1..m -> 1..n]
  <2>1. ASSUME NEW k \in 1..m PROVE responses[c][k + 1].id + 1 \in 1..n
    <3> DEFINE id == responses[c][k + 1].id
    <3>1. id \in Nat /\ id < n
      BY <1>3
    <3> HIDE DEF id
    <3>2. id + 1 \in 1..n
      BY <1>1, <3>1
    <3> QED BY <3>2 DEF id
  <2> QED BY <2>1
<1>5. ASSUME NEW k \in 1..m, NEW l \in 1..m, f[k] = f[l] PROVE k = l
  <2>1. responses[c][k + 1].id + 1 = responses[c][l + 1].id + 1
    BY <1>5
  <2>2. responses[c][k + 1].id = responses[c][l + 1].id
    BY <1>3, <2>1
  <2>3. k + 1 = l + 1
    BY <1>2, <2>2, AnswersAreOwn
  <2> QED BY <1>1, <2>3
<1>6. \A k \in 1..m : f[k] = responses[c][k + 1].id + 1
  OBVIOUS
<1> HIDE DEF f
<1>7. f \in Injection(1..m, 1..n)
  BY <1>4, <1>5 DEF Injection, IsInjective
<1>8. IsFiniteSet(1..n) /\ Cardinality(1..n) = n /\ Cardinality(1..m) = m
  <2>1. 1 \in Int /\ n \in Int /\ m \in Int
    BY <1>1
  <2>2. /\ IsFiniteSet(1..n) /\ Cardinality(1..n) = IF 1 > n THEN 0 ELSE n - 1 + 1
        /\ Cardinality(1..m) = IF 1 > m THEN 0 ELSE m - 1 + 1
    BY <2>1, FS_Interval
  <2> QED BY <1>1, <2>2
<1>9. m <= n /\ (m = n => f \in Surjection(1..m, 1..n))
  BY <1>7, <1>8, FS_Injection
<1>10. m = n /\ Len(request_data[c]) = n
  BY <1>1, <1>9
<1>11. ASSUME NEW i \in 1..n
       PROVE  /\ request_data[c][i]
              /\ \E j \in 2..delivered[c] : j \in Telling(c) /\ responses[c][j].id = i - 1
  <2>1. PICK k \in 1..m : f[k] = i
    BY <1>9, <1>10 DEF Surjection
  <2>2. k + 1 \in 2..(m + 1) /\ k + 1 \in Telling(c) /\ responses[c][k + 1].id + 1 = i
    BY <1>2, <1>6, <2>1
  <2>3. responses[c][k + 1].id = i - 1
    <3>1. responses[c][k + 1].id \in Nat
      BY <1>3
    <3> QED BY <2>2, <3>1
  <2> QED BY <1>1, <2>2, <2>3
<1> QED BY <1>1, <1>10, <1>11 DEF n, m
-----------------------------------------------------------------------------
(***************************************************************************)
(* The steps of a client, each one the servers' specification foresees.    *)
(***************************************************************************)
LEMMA ClientStepForeseen ==
  ASSUME ServersInv, SystemInv, NEW c \in Client, ClientRuns(c),
         UNCHANGED <<libVars, serverVars, cluster_messages, appended, responses, peer_link, failures>>
  PROVE  [Next]_vars
<1>1. Connected(c) /\ NotBegun(c) /\ Begun(c)
  BY DEF SystemInv, ClientInv
<1>2. ASSUME TakeStartSignal(c) \/ HandleServerMessage(c) PROVE ClientReceives(c)
  BY <1>1, <1>2 DEF TakeStartSignal, HandleServerMessage, Take, Connected, ClientReceives, linkVars
<1>3. ASSUME NEW cmd \in NextCommands(c), SendRequest(c, cmd)
      PROVE  (\E kv \in KVCommand : ClientSends(c, kv)) \/ UNCHANGED vars
  <2>1. CASE server_connection[c] = "up"
    <3>1. /\ Len(request_data[c]) \in Nat /\ response_count[c] \in Nat
      BY DEF SystemInv, ClientVarsTyped
    <3>2. client_state[c] = "running" /\ Len(request_data[c]) < MaxRequests[c]
      BY <1>3 DEF SendRequest
    <3>3. client_link[c] = "up" /\ delivered[c] > 0 /\ Len(requests[c]) < MaxRequests[c]
      <4>1. /\ delivered[c] = response_count[c] + 1
            /\ Len(requests[c]) <= Len(request_data[c])
            /\ client_link[c] = "up"
        BY <1>1, <3>2 DEF Connected, Begun
      <4>2. Len(requests[c]) \in Nat /\ MaxRequests[c] \in Nat
        BY StreamsAgree, MaxRequestsAssumption
      <4> QED BY <3>1, <3>2, <4>1, <4>2
    <3>4. cmd \in KVCommand
      <4>1. MaxRequests[c] \in Nat /\ 0..(MaxRequests[c] - 1) \subseteq Key \cap Value
        BY MaxRequestsAssumption, RequestsAssumption
      <4>2. Len(request_data[c]) \in Key /\ Len(request_data[c]) \in Value
        BY <3>1, <3>2, <4>1
      <4> QED BY <4>2 DEF NextCommands, KVCommand, Put, Get
    <3>5. ClientSends(c, cmd)
      BY <1>3, <2>1, <3>3 DEF SendRequest, ClientSends, linkVars
    <3> QED BY <3>4, <3>5
  <2>2. CASE server_connection[c] # "up"
    BY <1>3, <2>2 DEF SendRequest, vars, channelVars, linkVars
  <2> QED BY <2>1, <2>2
<1>4. ASSUME NextInterval(c) PROVE UNCHANGED vars
  BY <1>4 DEF NextInterval, vars, channelVars, linkVars
<1>5. ASSUME Shutdown(c) PROVE ClientFinishes(c)
  <2>1. client_state[c] = "finished" /\ client_link[c] = "up"
    BY <1>1, <1>5 DEF Shutdown, Connected
  <2>2. delivered[c] = Len(requests[c]) + 1
    BY <2>1, CountingMatches
  <2> QED BY <1>5, <2>1, <2>2 DEF Shutdown, ClientFinishes, channelVars
<1> QED BY <1>2, <1>3, <1>4, <1>5 DEF ClientRuns, Next, ClientStep

LEMMA StepForeseen == ServersInv /\ SystemInv /\ [SystemNext]_systemVars => [Next]_vars
<1> SUFFICES ASSUME ServersInv, SystemInv, [SystemNext]_systemVars PROVE [Next]_vars
  OBVIOUS
<1>1. CASE ServerSide
  BY <1>1 DEF ServerSide, Next, Failure
<1>2. CASE ClientSide
  BY <1>2, ClientStepForeseen DEF ClientSide
<1>3. ASSUME NEW c \in Client, ClientCrashes(c) PROVE [Next]_vars
  BY <1>3 DEF ClientCrashes, Next, Failure
<1>4. ASSUME NEW c \in Client, ClientLosesServer(c) PROVE [Next]_vars
  BY <1>4 DEF ClientLosesServer, ServerConnectionCloses, vars, channelVars, linkVars
<1>5. CASE UNCHANGED systemVars
  BY <1>5 DEF systemVars
<1> QED BY <1>1, <1>2, <1>3, <1>4, <1>5 DEF SystemNext
-----------------------------------------------------------------------------
(* The steps of a client keep its invariant, and leave the others alone. *)

Untouched(e) ==
  /\ client_state'[e] = client_state[e]
  /\ request_data'[e] = request_data[e]
  /\ response_count'[e] = response_count[e]
  /\ final_request_count'[e] = final_request_count[e]
  /\ requests'[e] = requests[e]
  /\ delivered'[e] = delivered[e]
  /\ client_link[e] = "up" => client_link'[e] = "up"

LEMMA ClientKept ==
  ASSUME ServersInv, NEW e \in Client, ClientInv(e), Untouched(e), StreamsGrow
  PROVE  ClientInv(e)'
<1>1. Connected(e)' /\ NotBegun(e)' /\ Ended(e)'
  BY DEF ClientInv, Untouched, Connected, NotBegun, Ended
<1>2. delivered[e] \in Nat /\ delivered[e] <= Len(responses[e]) /\ Len(responses[e]) \in Nat
  BY StreamsAgree
<1>3. \A j \in 2..delivered[e] : responses'[e][j] = responses[e][j]
  BY <1>2 DEF StreamsGrow
<1>4. Begun(e)'
  BY <1>3 DEF ClientInv, Untouched, Begun
<1> QED BY <1>1, <1>4 DEF ClientInv

LEMMA InvTakeStartSignal ==
  ASSUME ServersInv, SystemInv, NEW c \in Client, TakeStartSignal(c), responses' = responses
  PROVE  SystemInv'
<1>1. /\ client_state[c] = "waiting"
      /\ delivered[c] < Len(responses[c])
      /\ delivered' = [delivered EXCEPT ![c] = delivered[c] + 1]
      /\ client_state' = [client_state EXCEPT ![c] =
           IF NextMessage(c).type # "StartSignal" THEN "panicked"
           ELSE IF Intervals = 0 THEN "finished" ELSE "running"]
      /\ intervals_left' = [intervals_left EXCEPT ![c] =
           IF intervals_left[c] = 0 THEN 0 ELSE intervals_left[c] - 1]
      /\ UNCHANGED <<requests, client_link, server_connection, request_data, response_count,
                     final_request_count>>
  BY DEF TakeStartSignal, Take
<1>2. /\ delivered[c] = 0 /\ response_count[c] = 0
      /\ requests[c] = <<>> /\ request_data[c] = <<>> /\ final_request_count[c] = -1
      /\ client_link[c] = "up"
  BY <1>1 DEF SystemInv, ClientInv, NotBegun, Connected
<1>3. NextMessage(c).type = "StartSignal"
  <2>1. Len(responses[c]) \in Nat /\ responses[c] # <<>>
    BY <1>1, <1>2, StreamsAgree
  <2>2. responses[c][1].type = "StartSignal"
    BY <2>1, StreamsAgree
  <2> QED BY <1>2, <2>2 DEF NextMessage
<1>4. client_state' = [client_state EXCEPT ![c] = IF Intervals = 0 THEN "finished" ELSE "running"]
  BY <1>1, <1>3
<1>5. ClientVarsTyped'
  <2>1. intervals_left[c] \in Nat
    BY DEF SystemInv, ClientVarsTyped
  <2> QED BY <1>1, <1>4, <2>1 DEF SystemInv, ClientVarsTyped
<1>6. client_state'[c] \in {"finished", "running"} /\ delivered'[c] = 1
  <2>1. delivered \in [Client -> Nat]
    BY DEF ServersInv, IInv, TypeOK, StreamsTypeOK
  <2> QED BY <1>1, <1>2, <1>4, <2>1 DEF SystemInv, ClientVarsTyped
<1>7. ClientInv(c)'
  <2>1. Connected(c)' /\ NotBegun(c)'
    BY <1>1, <1>2, <1>6 DEF Connected, NotBegun
  <2>2. Begun(c)' /\ Ended(c)'
    BY <1>1, <1>2, <1>6 DEF Begun, Ended
  <2> QED BY <2>1, <2>2 DEF ClientInv
<1>8. ASSUME NEW e \in Client, e # c PROVE Untouched(e)
  BY <1>1, <1>4, <1>8 DEF Untouched, SystemInv, ClientVarsTyped, ServersInv, IInv, TypeOK, StreamsTypeOK
<1>9. StreamsGrow
  BY StreamsAgree DEF StreamsGrow
<1> QED BY <1>5, <1>7, <1>8, <1>9, ClientKept DEF SystemInv

LEMMA InvHandleServerMessage ==
  ASSUME ServersInv, SystemInv, NEW c \in Client, HandleServerMessage(c), responses' = responses
  PROVE  SystemInv'
<1> DEFINE j == delivered[c] + 1
           id == responses[c][j].id
           n == Len(request_data[c])
           count == response_count[c] + 1
<1>1. /\ client_state[c] = "running" /\ client_link[c] = "up"
      /\ delivered[c] = response_count[c] + 1 /\ response_count[c] \in Nat
      /\ Len(requests[c]) <= n /\ n \in Nat /\ request_data[c] \in Seq(BOOLEAN)
      /\ final_request_count[c] # -1 => final_request_count[c] = n
      /\ \A i \in 2..delivered[c] : request_data[c][responses[c][i].id + 1]
  BY DEF HandleServerMessage, SystemInv, ClientVarsTyped, ClientInv, Connected, Begun
<1>2. delivered[c] < Len(responses[c]) /\ delivered' = [delivered EXCEPT ![c] = j]
  BY DEF HandleServerMessage, Take
<1>3. j \in Telling(c) /\ Len(responses[c]) \in Nat /\ Len(requests[c]) \in Nat
  BY <1>1, <1>2, StreamsAgree DEF Telling
<1>4. responses[c][j].type # "StartSignal" /\ id \in Nat /\ id < Len(requests[c])
  BY <1>3, StreamsAgree
<1> HIDE DEF id, n
<1>5. id \in Nat /\ id < n /\ ~ (id >= n) /\ id + 1 \in 1..n
  BY <1>1, <1>3, <1>4
<1>6. /\ request_data' = [request_data EXCEPT ![c][id + 1] = TRUE]
      /\ response_count' = [response_count EXCEPT ![c] = count]
      /\ client_state' = [client_state EXCEPT ![c] =
           IF RunFinished(c, count, final_request_count[c]) THEN "finished" ELSE "running"]
      /\ UNCHANGED <<requests, client_link, server_connection, final_request_count, intervals_left>>
  BY <1>1, <1>4, <1>5 DEF HandleServerMessage, NextMessage, id, n
<1>7. request_data' = [request_data EXCEPT ![c] = [request_data[c] EXCEPT ![id + 1] = TRUE]]
  BY <1>6
<1> DEFINE marked == [request_data[c] EXCEPT ![id + 1] = TRUE]
<1>8. /\ marked \in Seq(BOOLEAN) /\ Len(marked) = n /\ marked[id + 1]
      /\ \A i \in 1..n : request_data[c][i] => marked[i]
  BY <1>1, <1>5 DEF n
<1> HIDE DEF marked
<1>9. ClientVarsTyped'
  BY <1>1, <1>6, <1>7, <1>8 DEF SystemInv, ClientVarsTyped, marked
<1>10. /\ request_data'[c] = marked /\ response_count'[c] = count /\ delivered'[c] = j
       /\ client_state'[c] = IF RunFinished(c, count, final_request_count[c]) THEN "finished" ELSE "running"
  BY <1>2, <1>6, <1>7 DEF SystemInv, ClientVarsTyped, ServersInv, IInv, TypeOK, StreamsTypeOK, marked
<1>11. Connected(c)' /\ NotBegun(c)'
  BY <1>1, <1>6, <1>10 DEF Connected, NotBegun
<1>12. Ended(c)'
  BY <1>1, <1>6, <1>8, <1>10 DEF Ended, RunFinished
<1>13. Begun(c)'
  <2>1. ASSUME NEW i \in 2..j PROVE marked[responses[c][i].id + 1]
    <3>1. CASE i = j
      BY <1>8, <3>1 DEF id
    <3>2. CASE i # j
      <4>1. i \in 2..delivered[c] /\ i \in Telling(c)
        BY <1>1, <1>2, <1>3, <3>2 DEF Telling
      <4>2. request_data[c][responses[c][i].id + 1]
        BY <1>1, <4>1
      <4> DEFINE k == responses[c][i].id
      <4>3. k \in Nat /\ k < Len(requests[c])
        BY <4>1, StreamsAgree
      <4> HIDE DEF k
      <4>4. k + 1 \in 1..n
        BY <1>1, <1>3, <4>3
      <4> QED BY <1>8, <4>2, <4>4 DEF k
    <3> QED BY <3>1, <3>2
  <2> QED BY <1>1, <1>6, <1>8, <1>10, <2>1 DEF Begun
<1>14. ASSUME NEW e \in Client, e # c PROVE Untouched(e)
  BY <1>2, <1>6, <1>7, <1>14 DEF Untouched, SystemInv, ClientVarsTyped, ServersInv, IInv, TypeOK, StreamsTypeOK
<1>15. StreamsGrow
  BY StreamsAgree DEF StreamsGrow
<1> QED BY <1>9, <1>11, <1>12, <1>13, <1>14, <1>15, ClientKept DEF SystemInv, ClientInv

LEMMA InvSendRequest ==
  ASSUME ServersInv, SystemInv, NEW c \in Client, NEW cmd, SendRequest(c, cmd), responses' = responses
  PROVE  SystemInv'
<1> DEFINE n == Len(request_data[c])
           more == Append(request_data[c], FALSE)
<1>1. /\ client_state[c] = "running" /\ client_link[c] = "up" /\ final_request_count[c] = -1
      /\ delivered[c] = response_count[c] + 1 /\ response_count[c] \in Nat
      /\ Len(requests[c]) <= n /\ n \in Nat /\ request_data[c] \in Seq(BOOLEAN)
      /\ \A i \in 2..delivered[c] : request_data[c][responses[c][i].id + 1]
  BY DEF SendRequest, SystemInv, ClientVarsTyped, ClientInv, Connected, Begun
<1>2. /\ requests' = IF server_connection[c] = "up"
                     THEN [requests EXCEPT ![c] = Append(requests[c], cmd)] ELSE requests
      /\ server_connection' = [server_connection EXCEPT ![c] =
           IF server_connection[c] = "closed" THEN "none" ELSE server_connection[c]]
      /\ request_data' = [request_data EXCEPT ![c] = more]
      /\ UNCHANGED <<delivered, client_link, client_state, response_count,
                     final_request_count, intervals_left>>
  BY DEF SendRequest
<1>3. /\ more \in Seq(BOOLEAN) /\ Len(more) = n + 1
      /\ \A i \in 1..n : more[i] = request_data[c][i]
  <2> DEFINE q == request_data[c]
             S == BOOLEAN
             mark == FALSE
  <2>1. q \in Seq(S) /\ mark \in S
    BY <1>1
  <2> HIDE DEF q, S, mark
  <2>2. /\ Append(q, mark) \in Seq(S) /\ Len(Append(q, mark)) = Len(q) + 1
        /\ \A i \in 1..Len(q) : Append(q, mark)[i] = q[i]
    BY <2>1, AppendProperties
  <2> QED BY <2>2 DEF q, S, mark
<1> HIDE DEF n, more
<1>4. ClientVarsTyped'
  BY <1>2, <1>3 DEF SystemInv, ClientVarsTyped
<1>5. request_data'[c] = more
  BY <1>2 DEF SystemInv, ClientVarsTyped
<1>6. requests[c] \in Seq(KVCommand) /\ Len(requests[c]) \in Nat
  BY StreamsAgree
<1>7. Len(requests'[c]) \in {Len(requests[c]), Len(requests[c]) + 1}
  <2>1. requests \in [Client -> Seq(KVCommand)]
    BY DEF ServersInv, IInv, TypeOK, StreamsTypeOK
  <2>2. Len(Append(requests[c], cmd)) = Len(requests[c]) + 1
    <3> DEFINE q == requests[c]
    <3>1. q \in Seq(KVCommand \cup {cmd})
      BY <1>6
    <3> HIDE DEF q
    <3>2. Len(Append(q, cmd)) = Len(q) + 1
      BY <3>1
    <3> QED BY <3>2 DEF q
  <2> QED BY <1>2, <2>1, <2>2
<1>8. Connected(c)' /\ NotBegun(c)' /\ Ended(c)'
  BY <1>1, <1>2 DEF Connected, NotBegun, Ended
<1>9. ASSUME NEW i \in 2..delivered[c] PROVE more[responses[c][i].id + 1]
  <2> DEFINE k == responses[c][i].id
  <2>1. delivered[c] \in Nat /\ i \in Telling(c)
    BY StreamsAgree DEF Telling
  <2>2. k \in Nat /\ k < Len(requests[c]) /\ request_data[c][k + 1]
    BY <1>1, <2>1, StreamsAgree
  <2> HIDE DEF k
  <2>3. k + 1 \in 1..n
    BY <1>1, <1>6, <2>2
  <2>4. more[k + 1]
    BY <1>3, <2>2, <2>3
  <2> QED BY <2>4 DEF k
<1>10. Begun(c)'
  <2>1. Len(requests'[c]) <= Len(more)
    BY <1>1, <1>3, <1>6, <1>7
  <2> QED BY <1>1, <1>2, <1>5, <1>9, <2>1 DEF Begun
<1>11. ASSUME NEW e \in Client, e # c PROVE Untouched(e)
  BY <1>2, <1>11 DEF Untouched, SystemInv, ClientVarsTyped, ServersInv, IInv, TypeOK, StreamsTypeOK
<1>12. StreamsGrow
  BY StreamsAgree DEF StreamsGrow
<1> QED BY <1>4, <1>8, <1>10, <1>11, <1>12, ClientKept DEF SystemInv, ClientInv

LEMMA InvNextInterval ==
  ASSUME ServersInv, SystemInv, NEW c \in Client, NextInterval(c), responses' = responses
  PROVE  SystemInv'
<1> DEFINE n == Len(request_data[c])
<1>1. /\ client_state[c] = "running" /\ client_link[c] = "up"
      /\ n \in Nat /\ response_count[c] \in Nat /\ intervals_left[c] \in Nat
  BY DEF NextInterval, SystemInv, ClientVarsTyped, ClientInv, Connected
<1>2. UNCHANGED <<requests, delivered, client_link, server_connection, request_data, response_count>>
  BY DEF NextInterval
<1>3. StreamsGrow
  BY StreamsAgree DEF StreamsGrow
<1>4. CASE intervals_left[c] > 0
  <2>1. /\ intervals_left' = [intervals_left EXCEPT ![c] = intervals_left[c] - 1]
        /\ UNCHANGED <<final_request_count, client_state>>
    BY <1>4 DEF NextInterval
  <2>2. ClientVarsTyped'
    BY <1>1, <1>2, <1>4, <2>1 DEF SystemInv, ClientVarsTyped
  <2>3. ASSUME NEW e \in Client PROVE Untouched(e)
    BY <1>2, <2>1 DEF Untouched
  <2> QED BY <1>3, <2>2, <2>3, ClientKept DEF SystemInv
<1>5. CASE ~ (intervals_left[c] > 0)
  <2>1. /\ final_request_count' = [final_request_count EXCEPT ![c] = n]
        /\ client_state' = [client_state EXCEPT ![c] =
             IF RunFinished(c, response_count[c], n) THEN "finished" ELSE "running"]
        /\ UNCHANGED intervals_left
    BY <1>1, <1>5 DEF NextInterval
  <2> HIDE DEF n
  <2>2. ClientVarsTyped'
    BY <1>1, <1>2, <2>1 DEF SystemInv, ClientVarsTyped
  <2>3. /\ final_request_count'[c] = n
        /\ client_state'[c] = IF RunFinished(c, response_count[c], n) THEN "finished" ELSE "running"
    BY <2>1 DEF SystemInv, ClientVarsTyped
  <2>4. Connected(c)' /\ NotBegun(c)'
    BY <1>1, <1>2, <2>3 DEF Connected, NotBegun
  <2>5. Begun(c)'
    BY <1>1, <1>2, <2>3 DEF SystemInv, ClientInv, Begun, n
  <2>6. Ended(c)'
    BY <1>2, <2>3 DEF Ended, RunFinished, n
  <2>7. ASSUME NEW e \in Client, e # c PROVE Untouched(e)
    BY <1>2, <2>1, <2>7 DEF Untouched, SystemInv, ClientVarsTyped
  <2> QED BY <1>3, <2>2, <2>4, <2>5, <2>6, <2>7, ClientKept DEF SystemInv, ClientInv
<1> QED BY <1>4, <1>5

\* A client whose run is over, or that crashed: its connection may go.
Stops(c) ==
  \/ client_state[c] = "finished" /\ client_state' = [client_state EXCEPT ![c] = "closed"]
  \/ client_state' = [client_state EXCEPT ![c] = "crashed"]

LEMMA InvStops ==
  ASSUME ServersInv, SystemInv, NEW c \in Client, Stops(c), responses' = responses,
         client_link \in [Client -> LinkState], \E l : client_link' = [client_link EXCEPT ![c] = l],
         \/ server_connection' = [server_connection EXCEPT ![c] = "none"]
         \/ server_connection' = server_connection,
         UNCHANGED <<requests, delivered, request_data, response_count, final_request_count,
                     intervals_left>>
  PROVE  SystemInv'
<1>1. ClientVarsTyped'
  BY DEF Stops, SystemInv, ClientVarsTyped
<1>2. \/ client_state'[c] = "crashed"
      \/ client_state[c] = "finished" /\ client_state'[c] = "closed"
  BY DEF Stops, SystemInv, ClientVarsTyped
<1>3. ClientInv(c)'
  BY <1>2 DEF SystemInv, ClientInv, Connected, NotBegun, Begun, Ended
<1>4. ASSUME NEW e \in Client, e # c PROVE Untouched(e)
  BY <1>4 DEF Untouched, Stops, SystemInv, ClientVarsTyped
<1>5. StreamsGrow
  BY StreamsAgree DEF StreamsGrow
<1> QED BY <1>1, <1>3, <1>4, <1>5, ClientKept DEF SystemInv

LEMMA InvShutdown ==
  ASSUME ServersInv, SystemInv, NEW c \in Client, Shutdown(c), responses' = responses
  PROVE  SystemInv'
<1>1. client_link \in [Client -> LinkState]
  BY DEF ServersInv, IInv, TypeOK, StreamsTypeOK
<1> QED BY <1>1, InvStops DEF Shutdown, Stops

LEMMA InvClientCrashes ==
  ASSUME ServersInv, SystemInv, NEW c \in Client, ClientCrashes(c)
  PROVE  SystemInv'
<1>1. client_link \in [Client -> LinkState]
  BY DEF ServersInv, IInv, TypeOK, StreamsTypeOK
<1> QED BY <1>1, InvStops DEF ClientCrashes, ClientLeaves, Stops, channelVars

LEMMA InvClientLosesServer ==
  ASSUME ServersInv, SystemInv, NEW c \in Client, ClientLosesServer(c)
  PROVE  SystemInv'
<1>1. /\ server_connection' = [server_connection EXCEPT ![c] = "closed"]
      /\ UNCHANGED <<requests, delivered, client_link, client_state, request_data,
                     response_count, final_request_count, intervals_left, responses>>
  BY DEF ClientLosesServer, ServerConnectionCloses
<1>2. ClientVarsTyped'
  BY <1>1 DEF SystemInv, ClientVarsTyped
<1>3. \A e \in Client : Untouched(e)
  BY <1>1 DEF Untouched
<1>4. StreamsGrow
  BY <1>1, StreamsAgree DEF StreamsGrow
<1> QED BY <1>2, <1>3, <1>4, ClientKept DEF SystemInv
-----------------------------------------------------------------------------
(* The servers only add to the streams, and close no client's connection *)
(* that its client has not left.                                          *)

Reaches == \A e \in Client : client_link[e] = "up" => client_link'[e] = "up"

LEMMA ServersOnlyAdd ==
  ASSUME ServersInv, IInv', ServerSide
  PROVE  StreamsGrow /\ Reaches /\ UNCHANGED <<requests, delivered>>
<1>1. responses' = responses => StreamsGrow
  BY StreamsAgree DEF StreamsGrow
<1>2. UNCHANGED client_link => Reaches
  BY DEF Reaches
<1>3. ASSUME NEW s \in Servers, ServerStep(s)
      PROVE  StreamsGrow /\ UNCHANGED <<client_link, requests, delivered>>
  <2>1. ASSUME NEW T, TakeLeadership(s, T)
        PROVE  UNCHANGED <<responses, client_link, requests, delivered>>
    BY <2>1 DEF TakeLeadership, linkVars
  <2>2. ASSUME NEW batch, NEW rest, NEW d1, NEW d2, NEW lead, NEW T,
               HandleClusterMessages(s, batch, rest, d1, d2, lead, T)
        PROVE  StreamsGrow /\ UNCHANGED <<client_link, requests, delivered>>
    <3>1. StreamsGrow
      BY <2>2, GrowHandleClusterMessages DEF ServersInv
    <3> QED BY <2>2, <3>1 DEF HandleClusterMessages, linkVars
  <2>3. ASSUME NEW T, NEW upto, HandleClientMessages(s, upto, T)
        PROVE  UNCHANGED <<responses, client_link, requests, delivered>>
    BY <2>3 DEF HandleClientMessages, linkVars
  <2>4. ASSUME NEW T, Tick(s, T) PROVE UNCHANGED <<responses, client_link, requests, delivered>>
    BY <2>4 DEF Tick, linkVars
  <2>5. ASSUME NEW d, NEW T, Poll(s, d, T)
        PROVE  UNCHANGED <<responses, client_link, requests, delivered>>
    BY <2>5 DEF Poll, linkVars
  <2> QED BY <1>1, <1>3, <2>1, <2>2, <2>3, <2>4, <2>5 DEF ServerStep
<1>4. ASSUME NEW s \in Servers, NEW time \in StartTimes, SendStartSignals(s, time)
      PROVE  StreamsGrow /\ UNCHANGED <<client_link, requests, delivered>>
  <2>1. StreamsGrow
    BY <1>4, GrowSendStartSignals DEF ServersInv
  <2> QED BY <1>4, <2>1 DEF SendStartSignals, linkVars
<1>5. ASSUME LibraryDecides PROVE UNCHANGED <<responses, client_link, requests, delivered>>
  BY <1>5 DEF LibraryDecides, channelVars, linkVars
<1>6. ASSUME LinkFailure PROVE Reaches /\ UNCHANGED <<responses, requests, delivered>>
  <2>1. ASSUME NEW s, NEW t, NEW L, LinkBreaks(s, t, L)
        PROVE  UNCHANGED <<responses, client_link, requests, delivered>>
    BY <2>1 DEF LinkBreaks
  <2>2. ASSUME NEW s, NEW L, Crash(s, L)
        PROVE  UNCHANGED <<responses, client_link, requests, delivered>>
    BY <2>2 DEF Crash
  <2>3. CASE WriterEnds
    <3>1. UNCHANGED <<responses, requests, delivered>>
      BY <2>3 DEF WriterEnds, channelVars
    <3>2. client_link \in [Client -> LinkState]
      BY DEF ServersInv, IInv, TypeOK, StreamsTypeOK
    <3>3. Reaches
      BY <2>3, <3>2 DEF WriterEnds, Reaches
    <3> QED BY <3>1, <3>3
  <2> QED BY <1>2, <1>6, <2>1, <2>2, <2>3 DEF LinkFailure
<1>7. ASSUME NEW s \in Servers, NetworkReturns(s)
      PROVE  UNCHANGED <<responses, client_link, requests, delivered>>
  BY <1>7 DEF NetworkReturns, NetworkReady
<1> QED BY <1>1, <1>2, <1>3, <1>4, <1>5, <1>6, <1>7 DEF ServerSide

LEMMA InvServerSide ==
  ASSUME ServersInv, IInv', SystemInv, ServerSide
  PROVE  SystemInv'
<1>1. StreamsGrow /\ Reaches /\ UNCHANGED <<requests, delivered>>
  BY ServersOnlyAdd
<1>2. UNCHANGED clientVars
  BY DEF ServerSide
<1>3. ClientVarsTyped'
  BY <1>2 DEF SystemInv, ClientVarsTyped, clientVars
<1>4. \A e \in Client : Untouched(e)
  BY <1>1, <1>2 DEF Untouched, Reaches, clientVars
<1> QED BY <1>1, <1>3, <1>4, ClientKept DEF SystemInv

LEMMA NextSystemInv == ServersInv /\ IInv' /\ SystemInv /\ [SystemNext]_systemVars => SystemInv'
<1> SUFFICES ASSUME ServersInv, IInv', SystemInv, [SystemNext]_systemVars PROVE SystemInv'
  OBVIOUS
<1>1. CASE ServerSide
  BY <1>1, InvServerSide
<1>2. CASE ClientSide
  <2>1. responses' = responses
    BY <1>2 DEF ClientSide
  <2>2. PICK c \in Client : ClientRuns(c)
    BY <1>2 DEF ClientSide
  <2> QED BY <2>1, <2>2, InvTakeStartSignal, InvHandleServerMessage, InvSendRequest, InvNextInterval,
             InvShutdown DEF ClientRuns
<1>3. CASE UNCHANGED systemVars
  <2>1. UNCHANGED <<responses, requests, delivered, client_link>> /\ UNCHANGED clientVars
    BY <1>3 DEF systemVars, vars, channelVars, linkVars
  <2>2. StreamsGrow
    BY <2>1, StreamsAgree DEF StreamsGrow
  <2>3. \A e \in Client : Untouched(e)
    BY <2>1 DEF Untouched, clientVars
  <2>4. ClientVarsTyped'
    BY <2>1 DEF SystemInv, ClientVarsTyped, clientVars
  <2> QED BY <2>2, <2>3, <2>4, ClientKept DEF SystemInv
<1> QED BY <1>1, <1>2, <1>3, InvClientCrashes, InvClientLosesServer DEF SystemNext

SystemIInv == ServersInv /\ SystemInv

LEMMA InitSystemIInv == SystemInit => SystemIInv
BY InitSystemInv, InitIInv, InitAccounted, InitStart, InitAnswers DEF SystemInit, SystemIInv, ServersInv

LEMMA NextSystemIInv == SystemIInv /\ [SystemNext]_systemVars => SystemIInv' /\ [Next]_vars
<1> SUFFICES ASSUME SystemIInv, [SystemNext]_systemVars PROVE SystemIInv' /\ [Next]_vars
  OBVIOUS
<1>1. [Next]_vars
  BY StepForeseen DEF SystemIInv
<1>2. IInv /\ IInv' /\ Accounted /\ StartInv /\ AnswersFollowLog
  BY <1>1, NextIInv DEF SystemIInv, ServersInv
<1>3. Accounted' /\ StartInv' /\ AnswersFollowLog'
  BY <1>1, <1>2, NextAccounted, NextStart, NextAnswers
<1>4. ServersInv'
  BY <1>2, <1>3 DEF ServersInv
<1> QED BY <1>1, <1>2, <1>4, NextSystemInv DEF SystemIInv

LEMMA SystemInvariance == SystemSpec => []SystemIInv
BY InitSystemIInv, NextSystemIInv, PTL DEF SystemSpec

\* Everything proved of the servers with the clients their specification
\* imagines holds with the real ones: a client of client.rs takes nothing it was
\* not sent, sends nothing before the start signal, and shuts its connection down
\* only with every answer in hand.
THEOREM ClientsForeseen == SystemSpec => ClientsAreForeseen
<1>1. SystemInit => Init
  BY DEF SystemInit
<1> QED BY <1>1, SystemInvariance, NextSystemIInv, PTL DEF SystemSpec, ClientsAreForeseen, Spec

\* run_finished only counts, and that is enough: a client that has ended its run
\* has the answer of every request it made, whatever has failed meanwhile.
THEOREM FinishedAnswered == SystemSpec => []FinishedMeansAnswered
<1>1. SystemIInv => FinishedMeansAnswered
  BY CountingMatches DEF SystemIInv, FinishedMeansAnswered
<1> QED BY <1>1, SystemInvariance, PTL

\* The requests of a client that has ended its run are entries of the log, and
\* it holds the answers the log calls for, whatever fails then or later.
THEOREM FinishedDecided == SystemSpec => []FinishedMeansDecided
<1>1. SystemIInv => FinishedMeansDecided
  <2> SUFFICES ASSUME SystemIInv, NEW c \in Client, client_state[c] \in {"finished", "closed"},
                      NEW i \in 1..Len(request_data[c])
               PROVE  \E n \in 1..Len(log) :
                        /\ log[n] = CommandOf(c, i)
                        /\ \E j \in 2..delivered[c] : responses[c][j] = AnswerAt(log, n)
    BY DEF FinishedMeansDecided
  <2>1. PICK j \in 2..delivered[c] : j \in Telling(c) /\ responses[c][j].id = i - 1
    BY CountingMatches DEF SystemIInv
  <2>2. PICK k \in 1..appended[c], n \in 1..Len(log) :
          log[n] = CommandOf(c, k) /\ responses[c][j] = AnswerAt(log, n) /\ responses[c][j].id = k - 1
    BY <2>1, AnswersAreOwn DEF SystemIInv
  <2>3. appended[c] \in Nat /\ request_data[c] \in Seq(BOOLEAN)
    BY StreamsAgree DEF SystemIInv, SystemInv, ClientVarsTyped
  <2>4. k = i
    <3>1. k - 1 = i - 1
      BY <2>1, <2>2
    <3> QED BY <2>3, <3>1
  <2> QED BY <2>2, <2>4
<1> QED BY <1>1, SystemInvariance, PTL

\* To the real clients, too, the servers of server.rs are one map.
THEOREM SystemIsOneMap == SystemSpec => Linearizable
BY ClientsForeseen, ClusterIsOneMap, PTL DEF ClientsAreForeseen

\* No client panics, neither waiting for the start signal nor looking a request
\* up by the id of an answer (client.rs run, data_collection.rs new_response).
THEOREM NeverPanics == SystemSpec => []ClientNeverPanics
<1>1. SystemIInv => ClientNeverPanics
  BY DEF SystemIInv, SystemInv, ClientVarsTyped, ClientNeverPanics
<1> QED BY <1>1, SystemInvariance, PTL
=============================================================================
