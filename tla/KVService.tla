----------------------------- MODULE KVService ------------------------------
(***************************************************************************)
(* What the cluster promises its clients, with no replication in sight: a  *)
(* single map on which every operation takes effect once, in one instant   *)
(* between its call and its return, and returns what that instant saw.     *)
(***************************************************************************)
EXTENDS Database, FiniteSets

VARIABLES
  store,      \* the map
  called,     \* operations asked for
  outcomes,   \* the answers of the operations that have taken effect
  returned    \* those given to their clients
kvVars == <<store, called, outcomes, returned>>

Operation(c, id, cmd) == [client |-> c, id |-> id, cmd |-> cmd]
Outcome(c, answer) == [client |-> c, answer |-> answer]

KVInit ==
  /\ store = EmptyDb
  /\ called = {}
  /\ outcomes = {}
  /\ returned = {}

\* A client numbers its operations from 0.
Call(c, cmd) ==
  /\ called' = called \cup {Operation(c, Cardinality({o \in called : o.client = c}), cmd)}
  /\ UNCHANGED <<store, outcomes, returned>>

TakeEffect(op) ==
  /\ \A o \in outcomes : o.client = op.client => o.answer.id # op.id
  /\ store' = Updated(store, op.cmd)
  /\ outcomes' = outcomes \cup {Outcome(op.client, Answer(store, op.id, op.cmd))}
  /\ UNCHANGED <<called, returned>>

Return(answers) ==
  /\ answers # {}
  /\ returned' = returned \cup answers
  /\ UNCHANGED <<store, called, outcomes>>

KVNext ==
  \/ \E c \in Client, cmd \in KVCommand : Call(c, cmd)
  \/ \E op \in called : TakeEffect(op)
  \/ \E answers \in SUBSET (outcomes \ returned) : Return(answers)

KVSpec == KVInit /\ [][KVNext]_kvVars
=============================================================================
