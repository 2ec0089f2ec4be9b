------------------------------- MODULE Clock --------------------------------
(***************************************************************************)
(* The simulated clock a server hands to the replication library           *)
(* (src/src/clock.rs): true time, distorted by a drift, resynchronised     *)
(* periodically, clamped around true time, never running backwards.        *)
(*                                                                         *)
(* A call samples true time first and takes the lock afterwards, so a call *)
(* is two steps, and calls by several callers interleave between them.     *)
(* Times are in ticks from the base epoch; saturation at the ends of i64   *)
(* is left out.                                                            *)
(***************************************************************************)
EXTENDS Integers

CONSTANTS
  Callers,             \* threads sharing the clock
  DriftRates,          \* drift_rate_us_per_sec, chosen when the clock is made
  TicksPerSecond,      \* 1_000_000 in the code
  Uncertainty,         \* sync_uncertainty_us
  SyncPeriod,          \* sync_period_us
  MaxTime              \* bound: how long true time runs

ASSUME CallersAssumption == Callers # {}
ASSUME DriftAssumption == DriftRates \subseteq Int /\ TicksPerSecond \in Nat \ {0}
\* The assertions of Clock::new.
ASSUME ConfigAssumption == Uncertainty \in Nat /\ SyncPeriod \in Nat \ {0}
ASSUME MaxTimeAssumption == MaxTime \in Nat

NoUncertainty == -1

VARIABLES
  drift_rate,           \* the configured rate
  now,                  \* true time
  base_sim_offset,      \* the fields of ClockState; last_sim_us and last_sim_time
  last_sync_true_time,  \*   are always assigned the same value, here last_sim_time
  next_resync,
  last_true_time,
  last_sim_time,
  sample,               \* what a caller inside a call has sampled, else its last sample
  inside,               \* callers that have sampled and wait for the lock
  reading,              \* the time a caller was last given
  uncertainty           \* the uncertainty it was given for it, or NoUncertainty

stateVars == <<base_sim_offset, last_sync_true_time, next_resync, last_true_time, last_sim_time>>
callerVars == <<sample, inside, reading, uncertainty>>
clockVars == <<drift_rate, now, stateVars, callerVars>>

ClockTypeOK ==
  /\ drift_rate \in Int
  /\ now \in Nat
  /\ base_sim_offset \in Int
  /\ last_sync_true_time \in Int
  /\ next_resync \in Int
  /\ last_true_time \in Int
  /\ last_sim_time \in Int
  /\ sample \in [Callers -> Int]
  /\ inside \subseteq Callers
  /\ reading \in [Callers -> Int]
  /\ uncertainty \in [Callers -> Nat \cup {NoUncertainty}]

ClockInit ==
  /\ drift_rate \in DriftRates
  /\ now = 0
  /\ base_sim_offset = 0
  /\ last_sync_true_time = 0
  /\ next_resync = SyncPeriod
  /\ last_true_time = 0
  /\ last_sim_time = 0
  /\ sample = [c \in Callers |-> 0]
  /\ inside = {}
  /\ reading = [c \in Callers |-> 0]
  /\ uncertainty = [c \in Callers |-> NoUncertainty]
-----------------------------------------------------------------------------
Abs(x) == IF x < 0 THEN -x ELSE x
Larger(x, y) == IF x < y THEN y ELSE x

\* Division as Rust does it, towards zero.
Quotient(x, y) == IF x < 0 THEN -((-x) \div y) ELSE x \div y

\* compute_sim_time
SimTime(true_time, offset, last_sync) ==
  true_time + offset + Quotient((true_time - last_sync) * drift_rate, TicksPerSecond)

\* Mutant: a deadline met exactly is missed.
ResyncsPassed(true_time) ==
  IF true_time <= next_resync THEN 0 ELSE (true_time - next_resync - 1) \div SyncPeriod + 1

\* The while loop over resync_at: the number of deadlines true_time has passed.
\* Each sets the offset to zero as of the deadline and moves it by a period.
MissedResyncs(true_time) ==
  IF true_time < next_resync THEN 0 ELSE (true_time - next_resync) \div SyncPeriod + 1

\* Mutant: only the range.
ClampedToRange(sim_time, true_time) ==
  IF sim_time < true_time - Uncertainty THEN true_time - Uncertainty
  ELSE IF sim_time > true_time + Uncertainty THEN true_time + Uncertainty
  ELSE sim_time

\* clamp_sim_time on allowed_range; the upper limit is looked at only when the
\* lower one, which the last reading may raise, is met.
Clamped(sim_time, true_time) ==
  LET lower == Larger(last_sim_time, true_time - Uncertainty) IN
  IF sim_time < lower THEN lower
  ELSE IF sim_time > true_time + Uncertainty THEN true_time + Uncertainty
  ELSE sim_time

\* Mutant: nothing.
NotAdjusted(offset, clamped, sim_time) == offset

\* What a clamped reading does to the offset.
Adjusted(offset, clamped, sim_time) == offset + (clamped - sim_time)
-----------------------------------------------------------------------------
TimePasses ==
  /\ now < MaxTime
  /\ now' = now + 1
  /\ UNCHANGED <<drift_rate, stateVars, callerVars>>

\* A call begins: compute_true_time(Instant::now()).
SampleTrueTime(c) ==
  /\ c \notin inside
  /\ sample' = [sample EXCEPT ![c] = now]
  /\ inside' = inside \cup {c}
  /\ UNCHANGED <<drift_rate, now, stateVars, reading, uncertainty>>

\* The part of get_time and get_time_with_uncertainty under the lock.
ReadClock(c) ==
  LET true_time == sample[c]
      missed    == MissedResyncs(true_time)
      offset    == IF missed = 0 THEN base_sim_offset ELSE 0
      last_sync == IF missed = 0 THEN last_sync_true_time
                   ELSE next_resync + (missed - 1) * SyncPeriod
      sim_time  == SimTime(true_time, offset, last_sync)
      clamped   == Clamped(sim_time, true_time)
  IN
  /\ c \in inside
  /\ inside' = inside \ {c}
  /\ next_resync' = next_resync + missed * SyncPeriod
  /\ last_sync_true_time' = last_sync
  /\ base_sim_offset' = Adjusted(offset, clamped, sim_time)
  /\ last_true_time' = true_time
  /\ last_sim_time' = clamped
  /\ reading' = [reading EXCEPT ![c] = clamped]
  /\ UNCHANGED <<drift_rate, now, sample>>

\* Mutants: anything up to the configured bound; from the error with its sign.
AnyUncertainty(sim_time, true_time) == 0..Uncertainty
SignedUncertainties(sim_time, true_time) == (sim_time - true_time)..Uncertainty

\* The random draw of an uncertainty, from the error of a reading upwards.
Uncertainties(sim_time, true_time) ==
  LET error == Abs(sim_time - true_time) IN error..Larger(Uncertainty, error)

GetTime(c) ==
  /\ ReadClock(c)
  /\ uncertainty' = [uncertainty EXCEPT ![c] = NoUncertainty]

GetTimeWithUncertainty(c) ==
  /\ ReadClock(c)
  /\ \E u \in Uncertainties(last_sim_time', last_true_time') :
       uncertainty' = [uncertainty EXCEPT ![c] = u]

\* get_uncertainty, called on its own, speaks of the last reading anyone made.
GetUncertainty(c) ==
  /\ c \notin inside
  /\ \E u \in Uncertainties(last_sim_time, last_true_time) :
       uncertainty' = [uncertainty EXCEPT ![c] = u]
  /\ UNCHANGED <<drift_rate, now, stateVars, sample, inside, reading>>

ClockNext ==
  \/ TimePasses
  \/ \E c \in Callers :
       \/ SampleTrueTime(c)
       \/ GetTime(c)
       \/ GetTimeWithUncertainty(c)
       \/ GetUncertainty(c)

ClockSpec == ClockInit /\ [][ClockNext]_clockVars
-----------------------------------------------------------------------------
\* "`sim_time` stays within `true_time +- sync_uncertainty_us`"
\* (CLOCK_README.md:13): the reading a caller holds is that close to the true
\* time its call sampled.
SimWithinUncertainty ==
  \A c \in Callers \ inside :
    /\ sample[c] - Uncertainty <= reading[c]
    /\ reading[c] <= sample[c] + Uncertainty

\* The uncertainty a caller gets for its reading covers the reading's error,
\* and never exceeds the configured bound, whichever way it asked for it.
UncertaintyCoversError ==
  \A c \in Callers \ inside :
    uncertainty[c] # NoUncertainty =>
      /\ Abs(reading[c] - sample[c]) <= uncertainty[c]
      /\ uncertainty[c] <= Uncertainty

\* "Adjust offset to keep future reads consistent" (clock.rs:198): with no time
\* passed, a second read would give what the last one gave, clamped or not.
ReadIsRepeatable ==
  SimTime(last_true_time, base_sim_offset, last_sync_true_time) = last_sim_time

\* "Resync happens every sync_period_us" (CLOCK_README.md:15): a reading rests
\* on the latest deadline before it, however many passed since the one before.
ResyncUpToDate ==
  /\ last_sync_true_time <= last_true_time /\ last_true_time < next_resync
  /\ next_resync = last_sync_true_time + SyncPeriod

\* No reading is below an earlier one, across resynchronisations too.
NeverBackwards == [][last_sim_time' >= last_sim_time]_clockVars

\* However many threads share the clock: a reading is within the bound of true
\* time at some instant of the call that gets it, and below the last one by no
\* more than the call has waited for the lock.
ReadsWithinCall ==
  [][\A c \in inside \ inside' :
       /\ \E t \in sample[c]..now : /\ t - Uncertainty <= reading'[c]
                                   /\ reading'[c] <= t + Uncertainty
       /\ last_sim_time' >= last_sim_time - (now - sample[c])]_clockVars

Promise == INSTANCE ClockPromise

\* "Clamped on every get_time()" (CLOCK_README.md:12-14): close to true time and
\* never backwards at once, as one abstract clock whose readings are made at
\* true times in order.
KeepsPromise == Promise!PromiseSpec
=============================================================================
