---------------------------- MODULE ClockPromise ----------------------------
(***************************************************************************)
(* What the simulated clock promises (CLOCK_README.md): each reading is    *)
(* made at some true time, one after the other, lies within the configured *)
(* uncertainty of it, and is not below the one before.  How: see Clock.    *)
(***************************************************************************)
EXTENDS Integers

CONSTANT Uncertainty   \* sync_uncertainty_us, a natural number

VARIABLES
  now,              \* true time
  last_true_time,   \* the true time of the last reading
  last_sim_time     \* the last reading

\* The readings the clock may give at a true time, after its last one.
Readings(true_time, last) ==
  {sim \in (true_time - Uncertainty)..(true_time + Uncertainty) : last <= sim}

PromiseInit == now = 0 /\ last_true_time = 0 /\ last_sim_time = 0

Advance ==
  /\ now' \in Int /\ now <= now'
  /\ UNCHANGED <<last_true_time, last_sim_time>>

Read ==
  /\ \E true_time \in last_true_time..now :
       /\ last_true_time' = true_time
       /\ last_sim_time' \in Readings(true_time, last_sim_time)
  /\ UNCHANGED now

PromiseSpec ==
  PromiseInit /\ [][Advance \/ Read]_<<now, last_true_time, last_sim_time>>
=============================================================================
