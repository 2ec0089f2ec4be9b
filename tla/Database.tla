------------------------------ MODULE Database ------------------------------
(***************************************************************************)
(* src/src/server/database.rs: the state machine every replica runs, and   *)
(* what a log of commands means, written without running the machine.      *)
(***************************************************************************)
EXTENDS Common, Sequences

Db == [Key -> Value \cup {NoValue}]
EmptyDb == [k \in Key |-> NoValue]

\* The two halves of handle_command: what it does to the map, and what it
\* returns to the caller.
Updated(db, cmd) ==
  CASE cmd.op = "put"    -> [db EXCEPT ![cmd.key] = cmd.value]
    [] cmd.op = "delete" -> [db EXCEPT ![cmd.key] = NoValue]
    [] OTHER             -> db

Answer(db, id, cmd) ==
  IF cmd.op = "get" THEN Read(id, db[cmd.key]) ELSE Write(id)
-----------------------------------------------------------------------------
(***************************************************************************)
(* The meaning of a log.  LeavesValue(log, n, k, v): after the first n     *)
(* entries of log, key k holds v, because the last of those entries that   *)
(* writes k leaves v there, or because none writes k and v is NoValue.     *)
(* It shares nothing with Updated, so that it can judge it.                *)
(***************************************************************************)
Writes(entry, k) == entry.kv_cmd.op \in {"put", "delete"} /\ entry.kv_cmd.key = k
Leaves(entry) == IF entry.kv_cmd.op = "put" THEN entry.kv_cmd.value ELSE NoValue

LeavesValue(log, n, k, v) ==
  \/ v = NoValue /\ \A i \in 1..n : ~ Writes(log[i], k)
  \/ \E i \in 1..n :
       /\ Writes(log[i], k)
       /\ v = Leaves(log[i])
       /\ \A j \in (i + 1)..n : ~ Writes(log[j], k)

ValueAfter(log, n, k) ==
  CHOOSE v \in Value \cup {NoValue} : LeavesValue(log, n, k, v)

\* What the entry at position n of the log must be answered.
AnswerAt(log, n) ==
  IF log[n].kv_cmd.op = "get"
  THEN Read(log[n].id, ValueAfter(log, n - 1, log[n].kv_cmd.key))
  ELSE Write(log[n].id)
=============================================================================
