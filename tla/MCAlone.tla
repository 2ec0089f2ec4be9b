------------------------------ MODULE MCAlone -------------------------------
(***************************************************************************)
(* Instances for TLC of the modules that stand alone, side by side: the    *)
(* clock, its tools, the timers of a client and the snapshots share no     *)
(* variable, and a behaviour moves one of them, the others stay where they *)
(* begin.                                                                  *)
(***************************************************************************)
EXTENDS Clock, ClockTools, Workload, KVSnapshot

VARIABLE part   \* the one that moves

aloneVars == <<part, clockVars, toolVars, workloadVars, snapshotVars>>

\* Drifting backwards, not at all, and forwards, fast enough to reach the bound
\* between two resynchronisations.
ThreeRates == {-2, 0, 2}

\* Rates from none to more than one a tick, durations from none.
Interval == [duration_sec : 0..2, requests_per_sec : 0..6]
TwoIntervals == {<<i>> : i \in Interval} \cup {<<i, j>> : i, j \in Interval}
NoWorkload == <<[duration_sec |-> 0, requests_per_sec |-> 0]>>

\* The commands of snapshots come from nobody in particular.
NoClients == [s \in Servers |-> 0]

AloneInit ==
  /\ part \in {"clock", "tools", "workload", "snapshots"}
  /\ ClockInit /\ (part # "clock" => drift_rate = 0)
  /\ ToolsInit /\ (part # "tools" => start = 0)
  /\ WorkloadInit /\ (part # "workload" => workload = NoWorkload)
  /\ SnapshotInit

AloneNext ==
  \/ part = "clock" /\ ClockNext /\ UNCHANGED <<part, toolVars, workloadVars, snapshotVars>>
  \/ part = "tools" /\ ToolsNext /\ UNCHANGED <<part, clockVars, workloadVars, snapshotVars>>
  \/ part = "workload" /\ WorkloadNext /\ UNCHANGED <<part, clockVars, toolVars, snapshotVars>>
  \/ part = "snapshots" /\ SnapshotNext /\ UNCHANGED <<part, clockVars, toolVars, workloadVars>>

AloneSpec == AloneInit /\ [][AloneNext]_aloneVars
=============================================================================
