----------------------------- MODULE OmniPaxos ------------------------------
(***************************************************************************)
(* The replication library the server is built on (the `omnipaxos` crate,  *)
(* external), as the server uses it: one log that only grows, of which     *)
(* every replica knows a decided prefix; a command handed over may enter   *)
(* the log once; nothing enters it before the initial leader has been      *)
(* promoted to the accept phase.  How replicas agree is the crate's own    *)
(* affair and is left out.                                                 *)
(***************************************************************************)
EXTENDS Common, Sequences

VARIABLES
  log,           \* the sequence of decided commands
  pending,       \* commands appended at some replica and not yet decided
  decided_idx,   \* get_decided_idx() of every replica
  leadership     \* how far the initial leader has got: "none", "prepare", "accept"

libVars == <<log, pending, decided_idx, leadership>>

LibTypeOK ==
  /\ log \in Seq(Command)
  /\ pending \subseteq Command
  /\ decided_idx \in [Servers -> Nat]
  /\ leadership \in {"none", "prepare", "accept"}

LibInit ==
  /\ log = <<>>
  /\ pending = {}
  /\ decided_idx = [s \in Servers |-> 0]
  /\ leadership = "none"

\* append_with_id for every command of a batch.
AppendAll(cmds) == pending' = pending \cup cmds

TryBecomeLeader ==
  leadership' = IF leadership = "none" THEN "prepare" ELSE leadership

\* Replica s learns from what it handles that the log is decided up to d.
LearnDecided(s, d) ==
  /\ d \in decided_idx[s]..Len(log)
  /\ decided_idx' = [decided_idx EXCEPT ![s] = d]

\* read_decided_suffix(from): the entries after the first `from`.
ReadDecidedSuffix(from, d) == SubSeq(log, from + 1, d)

\* The leader gets a command accepted by a quorum.
Decide(cmd) ==
  /\ leadership = "accept"
  /\ cmd \in pending
  /\ log' = Append(log, cmd)
  /\ pending' = pending \ {cmd}
  /\ UNCHANGED <<decided_idx, leadership>>
=============================================================================
