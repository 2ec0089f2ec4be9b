--------------------------- MODULE SnapshotProofs ---------------------------
(***************************************************************************)
(* Proofs about snapshots of the log, for any keys, values and log: what   *)
(* create makes of a log, and what merging keeps.                          *)
(***************************************************************************)
EXTENDS KVSnapshot, SelectionProofs

Entry == [kv_cmd : KVCommand]

NothingNoted == [snapshotted |-> EmptyDb, deleted_keys |-> {}]

(***************************************************************************)
(* The loop of create, pass by pass.                                       *)
(***************************************************************************)
Notes(entries, after) ==
  /\ after[0] = NothingNoted
  /\ \A m \in Nat : m + 1 <= Len(entries) => after[m + 1] = Noted(after[m], entries[m + 1])
  /\ Create(entries) =
       [after[Len(entries)] EXCEPT !.deleted_keys = @ \ PutBack(after[Len(entries)])]

LEMMA CreateUnfolds ==
  ASSUME NEW entries, Len(entries) \in Nat
  PROVE  \E after : Notes(entries, after)
<1> DEFINE Step(f, i) == IF i = 0 THEN NothingNoted ELSE Noted(f[i - 1], entries[i])
           Exists == {m \in Nat : \E h : h = [i \in 0..m |-> Step(h, i)]}
<1>1. 0 \in Exists
  <2> DEFINE f == [i \in 0..0 |-> NothingNoted]
  <2>1. f = [i \in 0..0 |-> Step(f, i)]
    OBVIOUS
  <2> QED BY <2>1
<1>2. ASSUME NEW m \in Exists PROVE m + 1 \in Exists
  <2>1. PICK f : f = [i \in 0..m |-> Step(f, i)]
    OBVIOUS
  <2> DEFINE g == [i \in 0..(m + 1) |-> IF i <= m THEN f[i] ELSE Noted(f[m], entries[m + 1])]
  <2>2. ASSUME NEW i \in 0..(m + 1) PROVE g[i] = Step(g, i)
    <3>1. CASE i = 0
      BY <2>1, <3>1
    <3>2. CASE i # 0 /\ i <= m
      <4>1. g[i] = f[i] /\ g[i - 1] = f[i - 1]
        BY <3>2
      <4>2. f[i] = Step(f, i)
        BY <2>1, <3>2
      <4> QED BY <3>2, <4>1, <4>2
    <3>3. CASE i = m + 1
      BY <3>3
    <3> QED BY <3>1, <3>2, <3>3
  <2>3. g = [i \in 0..(m + 1) |-> Step(g, i)]
    BY <2>2
  <2> HIDE DEF g
  <2>4. \E h : h = [i \in 0..(m + 1) |-> Step(h, i)]
    BY <2>3
  <2>5. m + 1 \in Nat
    OBVIOUS
  <2> QED BY <2>4, <2>5
<1>3. Exists = Nat
  BY <1>1, <1>2, SetInduction
<1> DEFINE after == CHOOSE f : f = [i \in 0..Len(entries) |-> Step(f, i)]
<1>4. after = [i \in 0..Len(entries) |-> Step(after, i)]
  <2>1. \E f : f = [i \in 0..Len(entries) |-> Step(f, i)]
    BY <1>3
  <2> QED BY <2>1
<1>5. Create(entries) =
        [after[Len(entries)] EXCEPT !.deleted_keys = @ \ PutBack(after[Len(entries)])]
  BY DEF Create, NothingNoted
<1> HIDE DEF after
<1>6. after[0] = NothingNoted
  BY <1>4
<1>7. \A m \in Nat : m + 1 <= Len(entries) => after[m + 1] = Noted(after[m], entries[m + 1])
  BY <1>4
<1>8. Notes(entries, after)
  BY <1>5, <1>6, <1>7 DEF Notes
<1> QED BY <1>8

(***************************************************************************)
(* What holds of the snapshot after m passes: its map means the m entries, *)
(* a key called deleted is written by one of them, and a key written but   *)
(* not called deleted is put first.                                        *)
(***************************************************************************)
WrittenIn(entries, m, k) == \E i \in 1..m : Writes(entries[i], k)

PutFirstIn(entries, m, k) ==
  \E i \in 1..m : /\ entries[i].kv_cmd.op = "put" /\ entries[i].kv_cmd.key = k
                  /\ \A j \in 1..(i - 1) : ~ Writes(entries[j], k)

NotedMeans(s, entries, m) ==
  /\ s.snapshotted \in Db /\ s.deleted_keys \subseteq Key
  /\ s = [snapshotted |-> s.snapshotted, deleted_keys |-> s.deleted_keys]
  /\ \A k \in Key :
       /\ LeavesValue(entries, m, k, s.snapshotted[k])
       /\ k \in s.deleted_keys => WrittenIn(entries, m, k)
       /\ WrittenIn(entries, m, k) /\ k \notin s.deleted_keys => PutFirstIn(entries, m, k)

\* One entry more: what it leaves.
LEMMA EntryLeaves ==
  ASSUME NEW l \in Seq(Entry), NEW n \in Nat, n < Len(l), NEW db \in Db,
         NEW k \in Key, LeavesValue(l, n, k, db[k])
  PROVE  /\ Updated(db, l[n + 1].kv_cmd) \in Db
         /\ LeavesValue(l, n + 1, k, Updated(db, l[n + 1].kv_cmd)[k])
<1> DEFINE cmd == l[n + 1].kv_cmd
<1>1. cmd \in KVCommand
  <2>1. l[n + 1] \in Entry
    OBVIOUS
  <2> QED BY <2>1 DEF Entry
<1>2. Updated(db, cmd) \in Db
  BY <1>1 DEF Updated, Db, KVCommand
<1>3. CASE Writes(l[n + 1], k)
  <2>1. Updated(db, cmd)[k] = Leaves(l[n + 1])
    BY <1>1, <1>3 DEF Writes, Leaves, Updated, Db, KVCommand
  <2>2. n + 1 \in 1..(n + 1) /\ ((n + 1) + 1)..(n + 1) = {}
    OBVIOUS
  <2> QED BY <1>2, <1>3, <2>1, <2>2 DEF LeavesValue
<1>4. CASE ~ Writes(l[n + 1], k)
  <2>1. Updated(db, cmd)[k] = db[k]
    BY <1>1, <1>4 DEF Writes, Updated, Db, KVCommand
  <2>2. \A i \in 1..(n + 1) : i \in 1..n \/ i = n + 1
    OBVIOUS
  <2>3. LeavesValue(l, n + 1, k, db[k])
    BY <1>4, <2>2 DEF LeavesValue
  <2> QED BY <1>2, <2>1, <2>3
<1> QED BY <1>3, <1>4

LEMMA NotedKeepsMeaning ==
  ASSUME NEW l \in Seq(Entry), NEW n \in Nat, n < Len(l), NEW s, NotedMeans(s, l, n)
  PROVE  NotedMeans(Noted(s, l[n + 1]), l, n + 1)
<1> DEFINE cmd == l[n + 1].kv_cmd
           t == Noted(s, l[n + 1])
<1>1. cmd \in KVCommand
  <2>1. l[n + 1] \in Entry
    OBVIOUS
  <2> QED BY <2>1 DEF Entry
<1>2. /\ s.snapshotted \in Db /\ s.deleted_keys \subseteq Key
      /\ \A k \in Key :
           /\ LeavesValue(l, n, k, s.snapshotted[k])
           /\ k \in s.deleted_keys => WrittenIn(l, n, k)
           /\ WrittenIn(l, n, k) /\ k \notin s.deleted_keys => PutFirstIn(l, n, k)
  BY DEF NotedMeans
<1>3. /\ t.snapshotted = Updated(s.snapshotted, cmd)
      /\ t.deleted_keys = s.deleted_keys \cup
           (IF cmd.op = "delete" /\ s.snapshotted[cmd.key] = NoValue THEN {cmd.key} ELSE {})
      /\ t = [snapshotted |-> t.snapshotted, deleted_keys |-> t.deleted_keys]
  BY DEF Noted
<1> HIDE DEF t
<1>4. t.snapshotted \in Db
  BY <1>1, <1>2, <1>3 DEF Updated, Db, KVCommand
<1>5. t.deleted_keys \subseteq Key
  BY <1>1, <1>2, <1>3 DEF KVCommand
<1>6. ASSUME NEW k \in Key
      PROVE  /\ LeavesValue(l, n + 1, k, t.snapshotted[k])
             /\ k \in t.deleted_keys => WrittenIn(l, n + 1, k)
             /\ WrittenIn(l, n + 1, k) /\ k \notin t.deleted_keys => PutFirstIn(l, n + 1, k)
  <2>1. LeavesValue(l, n + 1, k, t.snapshotted[k])
    BY <1>2, <1>3, EntryLeaves
  <2>2. \A i \in 1..n : i \in 1..(n + 1)
    OBVIOUS
  <2>3. n + 1 \in 1..(n + 1) /\ (n + 1) - 1 = n
    OBVIOUS
  <2>4. \A i \in 1..(n + 1) : i \in 1..n \/ i = n + 1
    OBVIOUS
  <2>5. ASSUME k \in t.deleted_keys PROVE WrittenIn(l, n + 1, k)
    <3>1. CASE k \in s.deleted_keys
      BY <1>2, <2>2, <3>1 DEF WrittenIn
    <3>2. CASE k \notin s.deleted_keys
      <4>1. cmd.op = "delete" /\ cmd.key = k
        BY <1>3, <2>5, <3>2
      <4> QED BY <2>3, <4>1 DEF WrittenIn, Writes
    <3> QED BY <3>1, <3>2
  <2>6. ASSUME WrittenIn(l, n + 1, k), k \notin t.deleted_keys PROVE PutFirstIn(l, n + 1, k)
    <3>1. k \notin s.deleted_keys
      BY <1>3, <2>6
    <3>2. CASE WrittenIn(l, n, k)
      <4>1. PutFirstIn(l, n, k)
        BY <1>2, <3>1, <3>2
      <4> QED BY <2>2, <4>1 DEF PutFirstIn
    <3>3. CASE ~ WrittenIn(l, n, k)
      <4>1. Writes(l[n + 1], k)
        BY <2>4, <2>6, <3>3 DEF WrittenIn
      <4>2. s.snapshotted[k] = NoValue
        BY <1>2, <3>3 DEF LeavesValue, WrittenIn
      <4>3. cmd.op = "put" /\ cmd.key = k
        BY <1>3, <2>6, <4>1, <4>2 DEF Writes
      <4>4. \A j \in 1..((n + 1) - 1) : ~ Writes(l[j], k)
        BY <2>3, <3>3 DEF WrittenIn
      <4> QED BY <2>3, <4>3, <4>4 DEF PutFirstIn
    <3> QED BY <3>2, <3>3
  <2> QED BY <2>1, <2>5, <2>6
<1> QED BY <1>3, <1>4, <1>5, <1>6 DEF NotedMeans, t

\* What create makes of any sequence of entries.
LEMMA CreateMeans ==
  ASSUME NEW l \in Seq(Entry)
  PROVE  LET made == Create(l) IN
         \A k \in Key :
           /\ LeavesValue(l, Len(l), k, made.snapshotted[k])
           /\ k \in made.deleted_keys => WrittenIn(l, Len(l), k) /\ made.snapshotted[k] = NoValue
           /\ WrittenIn(l, Len(l), k) /\ k \notin made.deleted_keys /\ made.snapshotted[k] = NoValue
                => PutFirstIn(l, Len(l), k)
<1>1. Len(l) \in Nat
  OBVIOUS
<1>2. PICK after : Notes(l, after)
  BY <1>1, CreateUnfolds
<1> DEFINE Good == {m \in Nat : m <= Len(l) => NotedMeans(after[m], l, m)}
<1>3. 0 \in Good
  <2>1. NotedMeans(NothingNoted, l, 0)
    BY DEF NotedMeans, NothingNoted, EmptyDb, Db, LeavesValue, WrittenIn
  <2> QED BY <1>2, <2>1 DEF Notes
<1>4. ASSUME NEW m \in Good PROVE m + 1 \in Good
  <2> SUFFICES ASSUME m + 1 <= Len(l) PROVE NotedMeans(after[m + 1], l, m + 1)
    OBVIOUS
  <2>1. NotedMeans(after[m], l, m) /\ m < Len(l) /\ m \in Nat
    BY <1>1
  <2>2. NotedMeans(Noted(after[m], l[m + 1]), l, m + 1)
    BY <2>1, NotedKeepsMeaning
  <2> QED BY <1>2, <2>1, <2>2 DEF Notes
<1>5. Good = Nat
  BY <1>3, <1>4, SetInduction
<1> DEFINE s == after[Len(l)]
           made == Create(l)
<1>6. NotedMeans(s, l, Len(l))
  BY <1>1, <1>5
<1> HIDE DEF Good
<1>7. made = [s EXCEPT !.deleted_keys = @ \ PutBack(s)]
  BY <1>2 DEF Notes
<1> HIDE DEF s, made
<1>8. s = [snapshotted |-> s.snapshotted, deleted_keys |-> s.deleted_keys]
  BY <1>6 DEF NotedMeans
<1>9. made.snapshotted = s.snapshotted /\ made.deleted_keys = s.deleted_keys \ PutBack(s)
  BY <1>7, <1>8
<1>10. ASSUME NEW k \in Key
       PROVE  /\ LeavesValue(l, Len(l), k, made.snapshotted[k])
              /\ k \in made.deleted_keys => WrittenIn(l, Len(l), k) /\ made.snapshotted[k] = NoValue
              /\ WrittenIn(l, Len(l), k) /\ k \notin made.deleted_keys /\ made.snapshotted[k] = NoValue
                   => PutFirstIn(l, Len(l), k)
  BY <1>6, <1>9 DEF NotedMeans, PutBack
<1> QED BY <1>10 DEF made
-----------------------------------------------------------------------------
(***************************************************************************)
(* A log, and the entries since a snapshot of it.                          *)
(***************************************************************************)
SnapshotTypeOK == log \in Seq(Entry) /\ upto \in Nat /\ upto <= Len(log)

\* SnapshotTypeOK is inductive.
THEOREM SnapshotTypes == SnapshotSpec => []SnapshotTypeOK
<1>1. SnapshotInit => SnapshotTypeOK
  BY DEF SnapshotInit, SnapshotTypeOK
<1>2. SnapshotTypeOK /\ [SnapshotNext]_snapshotVars => SnapshotTypeOK'
  <2> SUFFICES ASSUME SnapshotTypeOK, [SnapshotNext]_snapshotVars PROVE SnapshotTypeOK'
    OBVIOUS
  <2>1. CASE Decided
    <3>1. PICK cmd \in KVCommand : log' = Append(log, [kv_cmd |-> cmd])
      BY <2>1 DEF Decided
    <3>2. [kv_cmd |-> cmd] \in Entry
      BY DEF Entry
    <3> QED BY <2>1, <3>1, <3>2 DEF Decided, SnapshotTypeOK
  <2>2. CASE TakeSnapshot
    BY <2>2 DEF TakeSnapshot, SnapshotTypeOK
  <2>3. CASE UNCHANGED snapshotVars
    BY <2>3 DEF snapshotVars, SnapshotTypeOK
  <2> QED BY <2>1, <2>2, <2>3 DEF SnapshotNext
<1> QED BY <1>1, <1>2, PTL DEF SnapshotSpec

\* A snapshot of the whole log, however long, holds for every key what the
\* database would, and a key it calls deleted is gone from it (common.rs:77-100).
THEOREM SnapshotsMeanLog == SnapshotSpec => []CreateIsMeaning
<1>1. SnapshotTypeOK => CreateIsMeaning
  BY CreateMeans DEF SnapshotTypeOK, CreateIsMeaning
<1> QED BY <1>1, SnapshotTypes, PTL

LEMMA SinceProperties ==
  ASSUME SnapshotTypeOK
  PROVE  /\ Since(upto) \in Seq(Entry) /\ Len(Since(upto)) = Len(log) - upto
         /\ \A i \in 1..(Len(log) - upto) : Since(upto)[i] = log[upto + i]
<1>1. Len(log) \in Nat /\ upto \in Nat /\ upto <= Len(log) /\ \A i \in 1..Len(log) : log[i] \in Entry
  BY DEF SnapshotTypeOK
<1>2. \A i \in (upto + 1)..Len(log) : log[i] \in Entry
  BY <1>1
<1>3. upto + 1 \in Int /\ Len(log) \in Int
  BY <1>1
<1>4. /\ Since(upto) \in Seq(Entry)
      /\ Len(Since(upto)) = IF upto + 1 <= Len(log) THEN Len(log) - (upto + 1) + 1 ELSE 0
      /\ \A i \in 1..(Len(log) - (upto + 1) + 1) : Since(upto)[i] = log[(upto + 1) + i - 1]
  BY <1>2, <1>3, SubSeqProperties DEF Since
<1> QED BY <1>1, <1>4

\* What the entries leave at a key that they write, the log leaves there.
LEMMA LeavesSince ==
  ASSUME SnapshotTypeOK, NEW k, NEW v, LeavesValue(Since(upto), Len(Since(upto)), k, v),
         WrittenIn(Since(upto), Len(Since(upto)), k)
  PROVE  LeavesValue(log, Len(log), k, v)
<1> DEFINE n == Len(log) - upto
<1>1. /\ n \in Nat /\ Len(log) \in Nat /\ upto \in Nat /\ Len(log) = upto + n
      /\ Len(Since(upto)) = n /\ \A i \in 1..n : Since(upto)[i] = log[upto + i]
  BY SinceProperties DEF SnapshotTypeOK
<1> HIDE DEF n
<1>2. PICK i \in 1..n : /\ Writes(Since(upto)[i], k) /\ v = Leaves(Since(upto)[i])
                        /\ \A j \in (i + 1)..n : ~ Writes(Since(upto)[j], k)
  BY <1>1 DEF LeavesValue, WrittenIn
<1>3. Writes(log[upto + i], k) /\ v = Leaves(log[upto + i]) /\ upto + i \in 1..Len(log)
  BY <1>1, <1>2
<1>4. ASSUME NEW j \in ((upto + i) + 1)..Len(log) PROVE ~ Writes(log[j], k)
  <2>1. j - upto \in (i + 1)..n /\ j - upto \in 1..n /\ upto + (j - upto) = j
    BY <1>1
  <2> QED BY <1>1, <1>2, <2>1
<1> QED BY <1>3, <1>4 DEF LeavesValue

\* A key that the entries do not write keeps its value.
LEMMA LeavesBefore ==
  ASSUME SnapshotTypeOK, NEW k, NEW v, LeavesValue(log, upto, k, v),
         ~ WrittenIn(Since(upto), Len(Since(upto)), k)
  PROVE  LeavesValue(log, Len(log), k, v)
<1> DEFINE n == Len(log) - upto
<1>1. /\ n \in Nat /\ Len(log) \in Nat /\ upto \in Nat /\ Len(log) = upto + n
      /\ Len(Since(upto)) = n /\ \A i \in 1..n : Since(upto)[i] = log[upto + i]
  BY SinceProperties DEF SnapshotTypeOK
<1> HIDE DEF n
<1>2. ASSUME NEW j \in (upto + 1)..Len(log) PROVE ~ Writes(log[j], k)
  <2>1. j - upto \in 1..n /\ upto + (j - upto) = j
    BY <1>1
  <2> QED BY <1>1, <2>1 DEF WrittenIn
<1>3. \A j \in 1..Len(log) : j \in 1..upto \/ j \in (upto + 1)..Len(log)
  BY <1>1
<1>4. CASE v = NoValue /\ \A i \in 1..upto : ~ Writes(log[i], k)
  BY <1>2, <1>3, <1>4 DEF LeavesValue
<1>5. CASE \E i \in 1..upto : /\ Writes(log[i], k) /\ v = Leaves(log[i])
                              /\ \A j \in (i + 1)..upto : ~ Writes(log[j], k)
  <2>1. PICK i \in 1..upto : /\ Writes(log[i], k) /\ v = Leaves(log[i])
                             /\ \A j \in (i + 1)..upto : ~ Writes(log[j], k)
    BY <1>5
  <2>2. i \in 1..Len(log) /\ \A j \in (i + 1)..Len(log) : j \in (i + 1)..upto \/ j \in (upto + 1)..Len(log)
    BY <1>1
  <2>3. \A j \in (i + 1)..Len(log) : ~ Writes(log[j], k)
    BY <1>2, <2>1, <2>2
  <2> QED BY <2>1, <2>2, <2>3 DEF LeavesValue
<1> QED BY <1>4, <1>5 DEF LeavesValue

\* Merging the snapshot of the entries since, key by key.
LEMMA MergedMeans ==
  ASSUME SnapshotTypeOK, NEW k \in Key,
         \/ LeavesValue(log, upto, k, snapshot.snapshotted[k])
         \/ WrittenIn(Since(upto), Len(Since(upto)), k),
         ~ DeletionForgotten(Since(upto), k)
  PROVE  LeavesValue(log, Len(log), k, Merge(snapshot, Create(Since(upto))).snapshotted[k])
<1> DEFINE since == Since(upto)
           delta == Create(since)
           new == Merge(snapshot, delta).snapshotted[k]
<1>1. since \in Seq(Entry) /\ DOMAIN since = 1..Len(since)
  BY SinceProperties
<1>2. /\ LeavesValue(since, Len(since), k, delta.snapshotted[k])
      /\ k \in delta.deleted_keys => WrittenIn(since, Len(since), k) /\ delta.snapshotted[k] = NoValue
      /\ WrittenIn(since, Len(since), k) /\ k \notin delta.deleted_keys /\ delta.snapshotted[k] = NoValue
           => PutFirstIn(since, Len(since), k)
  BY <1>1, CreateMeans
<1>3. new = IF k \in delta.deleted_keys THEN NoValue
            ELSE IF delta.snapshotted[k] # NoValue THEN delta.snapshotted[k]
            ELSE snapshot.snapshotted[k]
  BY DEF Merge
<1> HIDE DEF delta, new
<1>4. CASE WrittenIn(since, Len(since), k)
  <2>1. CASE k \notin delta.deleted_keys /\ delta.snapshotted[k] = NoValue
    <3>1. PutFirstIn(since, Len(since), k) /\ LeavesValue(since, Len(since), k, NoValue)
      BY <1>2, <1>4, <2>1
    <3>2. DeletionForgotten(since, k)
      BY <1>1, <3>1 DEF PutFirstIn, DeletionForgotten
    <3> QED BY <3>2
  <2>2. CASE k \in delta.deleted_keys \/ delta.snapshotted[k] # NoValue
    <3>1. new = delta.snapshotted[k]
      BY <1>2, <1>3, <2>2
    <3>2. LeavesValue(since, Len(since), k, new)
      BY <1>2, <3>1
    <3>3. LeavesValue(log, Len(log), k, new)
      BY <1>4, <3>2, LeavesSince
    <3> QED BY <3>3 DEF new, delta
  <2> QED BY <2>1, <2>2
<1>5. CASE ~ WrittenIn(since, Len(since), k)
  <2>1. delta.snapshotted[k] = NoValue /\ k \notin delta.deleted_keys
    BY <1>2, <1>5 DEF LeavesValue, WrittenIn
  <2>2. LeavesValue(log, upto, k, new)
    BY <1>3, <1>5, <2>1
  <2>3. LeavesValue(log, Len(log), k, new)
    BY <1>5, <2>2, LeavesBefore
  <2> QED BY <2>3 DEF new, delta
<1> QED BY <1>4, <1>5

\* Merging gives a key what the log leaves there, if the snapshot was right or
\* the new entries write it, unless they put it first and delete it in the end
\* (common.rs:94, 102): for logs and batches of any length.
THEOREM MergesKeepMeaning == SnapshotSpec => MergeKeepsMeaning
<1> DEFINE Kept ==
             upto' # upto =>
               \A k \in Key :
                 /\ \/ LeavesValue(log, upto, k, snapshot.snapshotted[k])
                    \/ \E i \in DOMAIN Since(upto) : Writes(Since(upto)[i], k)
                 /\ ~ DeletionForgotten(Since(upto), k)
                 => LeavesValue(log, upto', k, snapshot'.snapshotted[k])
<1>1. SnapshotTypeOK /\ [SnapshotNext]_snapshotVars => [Kept]_snapshotVars
  <2> SUFFICES ASSUME SnapshotTypeOK, [SnapshotNext]_snapshotVars, upto' # upto PROVE Kept
    OBVIOUS
  <2>1. TakeSnapshot
    BY DEF SnapshotNext, Decided, snapshotVars
  <2>2. snapshot' = Merge(snapshot, Create(Since(upto))) /\ upto' = Len(log)
    BY <2>1 DEF TakeSnapshot
  <2>3. DOMAIN Since(upto) = 1..Len(Since(upto))
    BY SinceProperties
  <2>4. ASSUME NEW k \in Key,
               \/ LeavesValue(log, upto, k, snapshot.snapshotted[k])
               \/ \E i \in DOMAIN Since(upto) : Writes(Since(upto)[i], k),
               ~ DeletionForgotten(Since(upto), k)
        PROVE  LeavesValue(log, upto', k, snapshot'.snapshotted[k])
    <3>1. \/ LeavesValue(log, upto, k, snapshot.snapshotted[k])
          \/ WrittenIn(Since(upto), Len(Since(upto)), k)
      BY <2>3, <2>4 DEF WrittenIn
    <3> QED BY <2>2, <2>4, <3>1, MergedMeans
  <2> QED BY <2>4
<1>2. [][SnapshotNext]_snapshotVars /\ []SnapshotTypeOK => [][Kept]_snapshotVars
  BY <1>1, PTL
<1> QED BY <1>2, SnapshotTypes DEF SnapshotSpec, MergeKeepsMeaning
=============================================================================
