----------------------------- MODULE KVSnapshot -----------------------------
(***************************************************************************)
(* Snapshots of the log (common.rs, KVSnapshot): create condenses entries, *)
(* merge brings a snapshot up to date with that of the entries since.      *)
(* deleted_keys is a set, no one depends on its order.                     *)
(***************************************************************************)
EXTENDS Database

CONSTANT MaxLog   \* bound: entries in the log

VARIABLES
  log,        \* the replicated log
  snapshot,   \* a KVSnapshot, merged again and again
  upto        \* how many entries it stands for

snapshotVars == <<log, snapshot, upto>>

\* The loop of create: one entry noted.
Noted(s, entry) ==
  LET cmd == entry.kv_cmd IN
  [snapshotted |-> Updated(s.snapshotted, cmd),
   deleted_keys |-> s.deleted_keys \cup
     (IF cmd.op = "delete" /\ s.snapshotted[cmd.key] = NoValue THEN {cmd.key} ELSE {})]

\* Mutant: everything deleted stays deleted.
NothingPutBack(s) == {}

\* Keys that were deleted and then put back.
PutBack(s) == {k \in s.deleted_keys : s.snapshotted[k] # NoValue}

Create(entries) ==
  LET after[i \in 0..Len(entries)] ==
        IF i = 0 THEN [snapshotted |-> EmptyDb, deleted_keys |-> {}]
        ELSE Noted(after[i - 1], entries[i])
      noted == after[Len(entries)]
  IN [noted EXCEPT !.deleted_keys = @ \ PutBack(noted)]

\* Mutant: the delta's deletions are forgotten.
MergeValues(self, delta) ==
  [snapshotted |-> [k \in Key |-> IF delta.snapshotted[k] # NoValue
                                  THEN delta.snapshotted[k] ELSE self.snapshotted[k]],
   deleted_keys |-> {}]

Merge(self, delta) ==
  [snapshotted |-> [k \in Key |-> IF k \in delta.deleted_keys THEN NoValue
                                  ELSE IF delta.snapshotted[k] # NoValue
                                  THEN delta.snapshotted[k] ELSE self.snapshotted[k]],
   deleted_keys |-> {}]
-----------------------------------------------------------------------------
\* How a replica would use them: its log grows, and from time to time the
\* entries since the last snapshot are merged into it.
SnapshotInit == log = <<>> /\ snapshot = Create(<<>>) /\ upto = 0

Decided ==
  /\ Len(log) < MaxLog
  /\ \E cmd \in KVCommand : log' = Append(log, [kv_cmd |-> cmd])
  /\ UNCHANGED <<snapshot, upto>>

Since(n) == SubSeq(log, n + 1, Len(log))

TakeSnapshot ==
  /\ upto < Len(log)
  /\ snapshot' = Merge(snapshot, Create(Since(upto)))
  /\ upto' = Len(log)
  /\ UNCHANGED log

SnapshotNext == Decided \/ TakeSnapshot
SnapshotSpec == SnapshotInit /\ [][SnapshotNext]_snapshotVars
-----------------------------------------------------------------------------
\* A snapshot created of the whole log holds what the database would (its put
\* and delete arms against database.rs), a key it calls deleted is gone.
CreateIsMeaning ==
  LET whole == Create(log) IN
  \A k \in Key :
    /\ LeavesValue(log, Len(log), k, whole.snapshotted[k])
    /\ k \in whole.deleted_keys => whole.snapshotted[k] = NoValue

\* Merging the snapshot of further entries gives every key what the log leaves
\* there, neither older values nor deletions that were "put back" (common.rs:94),
\* if the snapshot held the right value or the entries write the key; except
\* for a key that they put first and delete in the end: see MergeIsMeaning.
DeletionForgotten(entries, k) ==
  /\ LeavesValue(entries, Len(entries), k, NoValue)
  /\ \E i \in DOMAIN entries :
       /\ entries[i].kv_cmd.op = "put" /\ entries[i].kv_cmd.key = k
       /\ \A j \in 1..(i - 1) : ~ Writes(entries[j], k)

MergeKeepsMeaning ==
  [][upto' # upto =>
       \A k \in Key :
         /\ \/ LeavesValue(log, upto, k, snapshot.snapshotted[k])
            \/ \E i \in DOMAIN Since(upto) : Writes(Since(upto)[i], k)
         /\ ~ DeletionForgotten(Since(upto), k)
         => LeavesValue(log, upto', k, snapshot'.snapshotted[k])]_snapshotVars

\* A merged snapshot holds what the log does.  Not so: a key that the delta both
\* puts and deletes is in neither of its parts, and keeps its old value.
MergeIsMeaning ==
  \A k \in Key : LeavesValue(log, upto, k, snapshot.snapshotted[k])
=============================================================================
