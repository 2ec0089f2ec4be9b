----------------------------- MODULE TimeProofs -----------------------------
(***************************************************************************)
(* Proofs about time: the clock, for every drift, bound, period and run;   *)
(* the figure made of its readings, for any number of clocks and rounds;   *)
(* and when a client sends its requests, for every workload.               *)
(***************************************************************************)
EXTENDS Clock, ClockTools, Workload, SelectionProofs

LEMMA ProductIsNat ==
  ASSUME NEW x \in Nat, NEW y \in Nat
  PROVE  x * y \in Nat
OBVIOUS

LEMMA Monotone ==
  ASSUME NEW x \in Nat, NEW y \in Nat, NEW z \in Nat, x <= y
  PROVE  z * x <= z * y /\ x * z <= y * z
OBVIOUS
-----------------------------------------------------------------------------
(***************************************************************************)
(* The clock.                                                              *)
(***************************************************************************)
\* Rust's division of integers gives an integer.
LEMMA QuotientIsInt ==
  ASSUME NEW x \in Int, NEW y \in Nat \ {0}
  PROVE  Quotient(x, y) \in Int
BY DEF Quotient

\* So the undistorted and the distorted clock are of one kind.
LEMMA SimTimeIsInt ==
  ASSUME drift_rate \in Int, NEW t \in Int, NEW offset \in Int, NEW sync \in Int
  PROVE  SimTime(t, offset, sync) \in Int
<1>1. (t - sync) * drift_rate \in Int
  OBVIOUS
<1>2. Quotient((t - sync) * drift_rate, TicksPerSecond) \in Int
  BY <1>1, QuotientIsInt, DriftAssumption
<1> QED BY <1>2 DEF SimTime

\* The number of missed resynchronisations is an integer.
LEMMA MissedIsInt ==
  ASSUME next_resync \in Int, NEW t \in Int
  PROVE  MissedResyncs(t) \in Int
<1>1. CASE t < next_resync
  BY <1>1 DEF MissedResyncs
<1>2. CASE ~ (t < next_resync)
  <2>1. (t - next_resync) \div SyncPeriod \in Int
    BY ConfigAssumption
  <2> QED BY <1>2, <2>1 DEF MissedResyncs
<1> QED BY <1>1, <1>2

\* A reading is inside the range around its sample when the last reading is
\* not above the range, and is never below the last reading then.
LEMMA ClampedInRange ==
  ASSUME last_sim_time \in Int, NEW sim \in Int, NEW t \in Int,
         last_sim_time <= t + Uncertainty
  PROVE  /\ Clamped(sim, t) \in Int
         /\ t - Uncertainty <= Clamped(sim, t)
         /\ Clamped(sim, t) <= t + Uncertainty
         /\ last_sim_time <= Clamped(sim, t)
BY ConfigAssumption DEF Clamped, Larger

LEMMA ClampedIsInt ==
  ASSUME last_sim_time \in Int, NEW sim \in Int, NEW t \in Int
  PROVE  Clamped(sim, t) \in Int
BY ConfigAssumption DEF Clamped, Larger
-----------------------------------------------------------------------------
(* Types. *)

LEMMA ReadClockTyped ==
  ASSUME ClockTypeOK, NEW c \in Callers, ReadClock(c)
  PROVE  /\ drift_rate' \in Int /\ now' \in Nat
         /\ base_sim_offset' \in Int /\ last_sync_true_time' \in Int
         /\ next_resync' \in Int /\ last_true_time' \in Int /\ last_sim_time' \in Int
         /\ sample' \in [Callers -> Int] /\ inside' \subseteq Callers
         /\ reading' \in [Callers -> Int]
<1> DEFINE t == sample[c]
           missed == MissedResyncs(t)
           offset == IF missed = 0 THEN base_sim_offset ELSE 0
           sync == IF missed = 0 THEN last_sync_true_time
                   ELSE next_resync + (missed - 1) * SyncPeriod
           sim == SimTime(t, offset, sync)
<1>1. t \in Int /\ missed \in Int
  BY MissedIsInt DEF ClockTypeOK
<1>2. missed * SyncPeriod \in Int /\ (missed - 1) * SyncPeriod \in Int
  BY <1>1, ConfigAssumption
<1>3. offset \in Int /\ sync \in Int
  BY <1>1, <1>2 DEF ClockTypeOK
<1> HIDE DEF missed, offset, sync, t
<1>4. sim \in Int
  BY <1>1, <1>3, SimTimeIsInt DEF ClockTypeOK
<1> HIDE DEF sim
<1>5. Clamped(sim, t) \in Int
  BY <1>1, <1>4, ClampedIsInt DEF ClockTypeOK
<1>6. /\ inside' = inside \ {c} /\ next_resync' = next_resync + missed * SyncPeriod
      /\ last_sync_true_time' = sync /\ base_sim_offset' = Adjusted(offset, Clamped(sim, t), sim)
      /\ last_true_time' = t /\ last_sim_time' = Clamped(sim, t)
      /\ reading' = [reading EXCEPT ![c] = Clamped(sim, t)]
      /\ UNCHANGED <<drift_rate, now, sample>>
  BY DEF ReadClock, sim, t, missed, offset, sync
<1>7. base_sim_offset' \in Int
  BY <1>3, <1>4, <1>5, <1>6 DEF Adjusted
<1>8. next_resync' \in Int
  BY <1>2, <1>6 DEF ClockTypeOK
<1> QED BY <1>1, <1>3, <1>5, <1>6, <1>7, <1>8 DEF ClockTypeOK

LEMMA UncertaintyTyped ==
  ASSUME NEW sim \in Int, NEW t \in Int, NEW u \in Uncertainties(sim, t)
  PROVE  u \in Nat
BY ConfigAssumption DEF Uncertainties, Abs, Larger

LEMMA ClockTypeInit == ClockInit => ClockTypeOK
BY DriftAssumption, ConfigAssumption DEF ClockInit, ClockTypeOK, NoUncertainty

LEMMA ClockTypeStep == ClockTypeOK /\ [ClockNext]_clockVars => ClockTypeOK'
<1> SUFFICES ASSUME ClockTypeOK, [ClockNext]_clockVars PROVE ClockTypeOK'
  OBVIOUS
<1>1. CASE TimePasses
  BY <1>1 DEF ClockTypeOK, TimePasses, stateVars, callerVars
<1>2. ASSUME NEW c \in Callers, SampleTrueTime(c) PROVE ClockTypeOK'
  BY <1>2 DEF ClockTypeOK, SampleTrueTime, stateVars
<1>3. ASSUME NEW c \in Callers, GetTime(c) PROVE ClockTypeOK'
  <2>1. uncertainty' \in [Callers -> Nat \cup {NoUncertainty}]
    BY <1>3 DEF ClockTypeOK, GetTime, NoUncertainty
  <2> QED BY <1>3, <2>1, ReadClockTyped DEF GetTime, ClockTypeOK
<1>4. ASSUME NEW c \in Callers, GetTimeWithUncertainty(c) PROVE ClockTypeOK'
  <2>1. ReadClock(c)
    BY <1>4 DEF GetTimeWithUncertainty
  <2>2. last_sim_time' \in Int /\ last_true_time' \in Int
    BY <2>1, ReadClockTyped
  <2>3. PICK u \in Uncertainties(last_sim_time', last_true_time') :
          uncertainty' = [uncertainty EXCEPT ![c] = u]
    BY <1>4 DEF GetTimeWithUncertainty
  <2>4. u \in Nat
    BY <2>2, <2>3, UncertaintyTyped
  <2>5. uncertainty' \in [Callers -> Nat \cup {NoUncertainty}]
    BY <2>3, <2>4 DEF ClockTypeOK
  <2> QED BY <2>1, <2>5, ReadClockTyped DEF ClockTypeOK
<1>5. ASSUME NEW c \in Callers, GetUncertainty(c) PROVE ClockTypeOK'
  <2>1. PICK u \in Uncertainties(last_sim_time, last_true_time) :
          uncertainty' = [uncertainty EXCEPT ![c] = u]
    BY <1>5 DEF GetUncertainty
  <2>2. u \in Nat
    BY <2>1, UncertaintyTyped DEF ClockTypeOK
  <2> QED BY <1>5, <2>1, <2>2 DEF ClockTypeOK, GetUncertainty, stateVars
<1>6. CASE UNCHANGED clockVars
  BY <1>6 DEF ClockTypeOK, clockVars, stateVars, callerVars
<1> QED BY <1>1, <1>2, <1>3, <1>4, <1>5, <1>6 DEF ClockNext

\* The clock's fields stay integers, true time a natural number.
THEOREM ClockTyped == ClockSpec => []ClockTypeOK
BY ClockTypeInit, ClockTypeStep, PTL DEF ClockSpec
-----------------------------------------------------------------------------
(***************************************************************************)
(* Repeatable reads.  This one needs no assumption about the callers.      *)
(***************************************************************************)

LEMMA RepeatableStep ==
  ASSUME ClockTypeOK, ReadIsRepeatable, [ClockNext]_clockVars
  PROVE  ReadIsRepeatable'
<1>1. ASSUME NEW c \in Callers, ReadClock(c) PROVE ReadIsRepeatable'
  <2> DEFINE t == sample[c]
             missed == MissedResyncs(t)
             offset == IF missed = 0 THEN base_sim_offset ELSE 0
             sync == IF missed = 0 THEN last_sync_true_time
                     ELSE next_resync + (missed - 1) * SyncPeriod
             drift == Quotient((t - sync) * drift_rate, TicksPerSecond)
             sim == SimTime(t, offset, sync)
             clamped == Clamped(sim, t)
  <2>1. t \in Int /\ missed \in Int
    BY MissedIsInt DEF ClockTypeOK
  <2>2. (missed - 1) * SyncPeriod \in Int
    BY <2>1, ConfigAssumption
  <2>3. offset \in Int /\ sync \in Int
    BY <2>1, <2>2 DEF ClockTypeOK
  <2> HIDE DEF missed, offset, sync, t
  <2>4. drift_rate \in Int /\ (t - sync) * drift_rate \in Int
    BY <2>1, <2>3 DEF ClockTypeOK
  <2>5. drift \in Int
    BY <2>4, QuotientIsInt, DriftAssumption
  <2>6. sim = t + offset + drift
    BY DEF SimTime
  <2> HIDE DEF sim, drift
  <2>7. clamped \in Int
    BY <2>1, <2>3, <2>5, <2>6, ClampedIsInt DEF ClockTypeOK
  <2> HIDE DEF clamped
  <2>8. /\ last_sync_true_time' = sync /\ last_true_time' = t
        /\ base_sim_offset' = Adjusted(offset, clamped, sim)
        /\ last_sim_time' = clamped /\ drift_rate' = drift_rate
    BY <1>1 DEF ReadClock, clamped, sim, t, missed, offset, sync
  <2>9. Quotient((last_true_time' - last_sync_true_time') * drift_rate', TicksPerSecond) = drift
    BY <2>8 DEF drift
  <2>10. ReadIsRepeatable' <=> last_true_time' + base_sim_offset' + drift = last_sim_time'
    BY <2>9 DEF ReadIsRepeatable, SimTime
  <2>11. t + (offset + (clamped - sim)) + drift = clamped
    BY <2>1, <2>3, <2>5, <2>6, <2>7
  <2> QED BY <2>8, <2>10, <2>11 DEF Adjusted
<1>2. CASE UNCHANGED <<drift_rate, stateVars>>
  BY <1>2 DEF ReadIsRepeatable, SimTime, stateVars
<1> QED BY <1>1, <1>2 DEF ClockNext, TimePasses, SampleTrueTime, GetTime,
           GetTimeWithUncertainty, GetUncertainty, clockVars

LEMMA RepeatableInit == ClockInit => ReadIsRepeatable
<1> SUFFICES ASSUME ClockInit PROVE ReadIsRepeatable
  OBVIOUS
<1>1. (0 - 0) * drift_rate = 0
  BY DriftAssumption DEF ClockInit
<1>2. Quotient(0, TicksPerSecond) = 0
  BY DriftAssumption DEF Quotient
<1> QED BY <1>1, <1>2 DEF ClockInit, ReadIsRepeatable, SimTime

\* A second read at the same instant would return what the last one returned,
\* however many threads share the clock (clamp_sim_time adjusts the offset).
THEOREM ReadsAreRepeatable == ClockSpec => []ReadIsRepeatable
<1>1. ClockTypeOK /\ ReadIsRepeatable /\ [ClockNext]_clockVars => ReadIsRepeatable'
  BY RepeatableStep
<1> QED BY <1>1, RepeatableInit, ClockTyped, PTL DEF ClockSpec
-----------------------------------------------------------------------------
(***************************************************************************)
(* Any number of callers.  A sample is never later than true time, so no   *)
(* reading is further ahead of true time than the bound.                   *)
(***************************************************************************)
SharedInv ==
  /\ ClockTypeOK
  /\ last_sim_time <= now + Uncertainty
  /\ \A c \in Callers : sample[c] <= now

\* The part of a call under the lock, whatever the others have done meanwhile.
LEMMA ReadAnyTime ==
  ASSUME SharedInv, NEW c \in Callers, ReadClock(c)
  PROVE  /\ sample' = sample /\ now' = now /\ inside' = inside \ {c}
         /\ reading'[c] = last_sim_time' /\ last_sim_time' \in Int
         /\ sample[c] - Uncertainty <= last_sim_time'
         /\ last_sim_time' <= now + Uncertainty
         /\ last_sim_time' >= last_sim_time - (now - sample[c])
<1> DEFINE t == sample[c]
           missed == MissedResyncs(t)
           offset == IF missed = 0 THEN base_sim_offset ELSE 0
           sync == IF missed = 0 THEN last_sync_true_time
                   ELSE next_resync + (missed - 1) * SyncPeriod
           sim == SimTime(t, offset, sync)
<1>1. t \in Int /\ missed \in Int
  BY MissedIsInt DEF ClockTypeOK, SharedInv
<1>2. (missed - 1) * SyncPeriod \in Int
  BY <1>1, ConfigAssumption
<1>3. offset \in Int /\ sync \in Int
  BY <1>1, <1>2 DEF ClockTypeOK, SharedInv
<1>4. t <= now /\ now \in Nat /\ last_sim_time \in Int /\ last_sim_time <= now + Uncertainty
  BY DEF SharedInv, ClockTypeOK
<1> HIDE DEF missed, offset, sync
<1>5. sim \in Int
  BY <1>1, <1>3, SimTimeIsInt DEF ClockTypeOK, SharedInv
<1> HIDE DEF sim
<1>6. /\ sample' = sample /\ now' = now /\ inside' = inside \ {c}
      /\ last_sim_time' = Clamped(sim, t)
      /\ reading' = [reading EXCEPT ![c] = Clamped(sim, t)]
  BY DEF ReadClock, sim, t, missed, offset, sync
<1>7. reading'[c] = Clamped(sim, t)
  BY <1>6 DEF SharedInv, ClockTypeOK
<1> HIDE DEF t
<1>8. /\ Clamped(sim, t) \in Int
      /\ t - Uncertainty <= Clamped(sim, t)
      /\ Clamped(sim, t) <= now + Uncertainty
      /\ Clamped(sim, t) >= last_sim_time - (now - t)
  BY <1>1, <1>4, <1>5, ConfigAssumption DEF Clamped, Larger
<1> QED BY <1>6, <1>7, <1>8 DEF t

LEMMA SharedStep ==
  ASSUME SharedInv, [ClockNext]_clockVars
  PROVE  /\ SharedInv'
         /\ \A c \in inside \ inside' :
              /\ \E t \in sample[c]..now : /\ t - Uncertainty <= reading'[c]
                                          /\ reading'[c] <= t + Uncertainty
              /\ last_sim_time' >= last_sim_time - (now - sample[c])
<1>1. ClockTypeOK'
  BY ClockTypeStep DEF SharedInv
<1>2. CASE TimePasses
  BY <1>1, <1>2, ConfigAssumption DEF SharedInv, ClockTypeOK, TimePasses, stateVars, callerVars
<1>3. ASSUME NEW c \in Callers, SampleTrueTime(c)
      PROVE  SharedInv' /\ inside \subseteq inside'
  BY <1>1, <1>3 DEF SharedInv, ClockTypeOK, SampleTrueTime, stateVars
<1>4. ASSUME NEW c \in Callers, ReadClock(c)
      PROVE  /\ SharedInv'
             /\ inside \ inside' \subseteq {c}
             /\ \E t \in sample[c]..now : /\ t - Uncertainty <= reading'[c]
                                         /\ reading'[c] <= t + Uncertainty
             /\ last_sim_time' >= last_sim_time - (now - sample[c])
  <2>1. SharedInv' /\ inside \ inside' \subseteq {c}
    BY <1>1, <1>4, ReadAnyTime DEF SharedInv
  <2> DEFINE r == last_sim_time'
             s == sample[c]
  <2>2. /\ reading'[c] = r /\ r \in Int /\ s - Uncertainty <= r /\ r <= now + Uncertainty
        /\ r >= last_sim_time - (now - s)
    BY <1>4, ReadAnyTime
  <2>3. s \in Int /\ now \in Int /\ s <= now
    BY DEF SharedInv, ClockTypeOK
  <2> HIDE DEF r, s
  <2>4. \E t \in s..now : t - Uncertainty <= r /\ r <= t + Uncertainty
    <3>1. CASE r <= s + Uncertainty
      <4>1. s \in s..now
        BY <2>3
      <4> QED BY <2>2, <3>1, <4>1
    <3>2. CASE ~ (r <= s + Uncertainty)
      <4>1. r - Uncertainty \in s..now
        BY <2>2, <2>3, <3>2, ConfigAssumption
      <4>2. (r - Uncertainty) - Uncertainty <= r /\ r <= (r - Uncertainty) + Uncertainty
        BY <2>2, ConfigAssumption
      <4> QED BY <4>1, <4>2
    <3> QED BY <3>1, <3>2
  <2> QED BY <2>1, <2>2, <2>4 DEF r, s
<1>5. ASSUME NEW c \in Callers, GetUncertainty(c) PROVE SharedInv' /\ inside' = inside
  BY <1>1, <1>5 DEF SharedInv, GetUncertainty, stateVars
<1>6. CASE UNCHANGED clockVars
  BY <1>1, <1>6 DEF SharedInv, clockVars, stateVars, callerVars
<1>7. inside' = inside => \A c \in inside \ inside' : FALSE
  OBVIOUS
<1>8. CASE \E c \in Callers : GetTime(c) \/ GetTimeWithUncertainty(c)
  <2>1. PICK c \in Callers : ReadClock(c)
    BY <1>8 DEF GetTime, GetTimeWithUncertainty
  <2> QED BY <1>4, <2>1
<1>9. TimePasses \/ UNCHANGED clockVars => inside' = inside
  BY DEF TimePasses, callerVars, clockVars
<1> QED BY <1>2, <1>3, <1>5, <1>6, <1>7, <1>8, <1>9 DEF ClockNext

\* What is left of the clock's promise when threads share it: each reading is
\* within the bound of true time at an instant of its own call, and no reading
\* goes further back than its call has waited for the lock.
THEOREM SharedReads == ClockSpec => ReadsWithinCall
<1>1. ClockInit => SharedInv
  BY ClockTypeInit, ConfigAssumption DEF ClockInit, SharedInv
<1>2. SharedInv /\ [ClockNext]_clockVars => SharedInv'
  BY SharedStep
<1>3. SharedInv /\ [ClockNext]_clockVars =>
        [\A c \in inside \ inside' :
           /\ \E t \in sample[c]..now : /\ t - Uncertainty <= reading'[c]
                                       /\ reading'[c] <= t + Uncertainty
           /\ last_sim_time' >= last_sim_time - (now - sample[c])]_clockVars
  BY SharedStep
<1> QED BY <1>1, <1>2, <1>3, PTL DEF ClockSpec, ReadsWithinCall
-----------------------------------------------------------------------------
(***************************************************************************)
(* A clock with one caller, as the server uses it.  Its samples increase,  *)
(* so the last reading is never above the range around a new sample.       *)
(***************************************************************************)
AloneInv ==
  /\ ClockTypeOK
  /\ last_true_time <= now
  /\ last_true_time - Uncertainty <= last_sim_time
  /\ last_sim_time <= last_true_time + Uncertainty
  /\ \A c \in inside : last_true_time <= sample[c] /\ sample[c] <= now
  /\ \A c \in Callers \ inside : reading[c] = last_sim_time /\ sample[c] = last_true_time
  /\ UncertaintyCoversError

LEMMA AloneInit == ClockInit => AloneInv
BY ClockTypeInit, ConfigAssumption
DEF ClockInit, AloneInv, UncertaintyCoversError, NoUncertainty

\* The part of a call under the lock, when its sample is no older than the
\* last reading's.
LEMMA ReadInRange ==
  ASSUME AloneInv, NEW c \in Callers, ReadClock(c)
  PROVE  /\ last_true_time' = sample[c] /\ sample' = sample /\ now' = now
         /\ inside' = inside \ {c}
         /\ last_sim_time' \in Int
         /\ last_true_time' - Uncertainty <= last_sim_time'
         /\ last_sim_time' <= last_true_time' + Uncertainty
         /\ last_sim_time <= last_sim_time'
         /\ reading' = [reading EXCEPT ![c] = last_sim_time']
<1> DEFINE t == sample[c]
           missed == MissedResyncs(t)
           offset == IF missed = 0 THEN base_sim_offset ELSE 0
           sync == IF missed = 0 THEN last_sync_true_time
                   ELSE next_resync + (missed - 1) * SyncPeriod
           sim == SimTime(t, offset, sync)
<1>1. t \in Int /\ missed \in Int
  BY MissedIsInt DEF ClockTypeOK, AloneInv
<1>2. (missed - 1) * SyncPeriod \in Int
  BY <1>1, ConfigAssumption
<1>3. offset \in Int /\ sync \in Int
  BY <1>1, <1>2 DEF ClockTypeOK, AloneInv
<1> HIDE DEF missed, offset, sync
<1>4. sim \in Int
  BY <1>1, <1>3, SimTimeIsInt DEF ClockTypeOK, AloneInv
<1> HIDE DEF sim
<1>5. /\ last_true_time' = t /\ sample' = sample /\ now' = now /\ inside' = inside \ {c}
      /\ last_sim_time' = Clamped(sim, t)
      /\ reading' = [reading EXCEPT ![c] = Clamped(sim, t)]
      /\ c \in inside
  BY DEF ReadClock, sim, t, missed, offset, sync
<1>6. last_sim_time \in Int /\ last_sim_time <= t + Uncertainty
  BY <1>1, <1>5, ConfigAssumption DEF AloneInv, ClockTypeOK
<1>7. /\ Clamped(sim, t) \in Int
      /\ t - Uncertainty <= Clamped(sim, t)
      /\ Clamped(sim, t) <= t + Uncertainty
      /\ last_sim_time <= Clamped(sim, t)
  BY <1>1, <1>4, <1>6, ClampedInRange
<1> QED BY <1>5, <1>7

LEMMA UncertaintyCovers ==
  ASSUME NEW sim \in Int, NEW t \in Int, NEW u \in Uncertainties(sim, t),
         t - Uncertainty <= sim, sim <= t + Uncertainty
  PROVE  Abs(sim - t) <= u /\ u <= Uncertainty
BY ConfigAssumption DEF Uncertainties, Abs, Larger

LEMMA AloneStep ==
  ASSUME \A c, d \in Callers : c = d,
         AloneInv, [ClockNext]_clockVars
  PROVE  AloneInv' /\ last_sim_time' >= last_sim_time
<1>1. ClockTypeOK'
  BY ClockTypeStep DEF AloneInv
<1>2. CASE TimePasses
  BY <1>1, <1>2 DEF AloneInv, ClockTypeOK, TimePasses, stateVars, callerVars, UncertaintyCoversError
<1>3. ASSUME NEW c \in Callers, SampleTrueTime(c)
      PROVE  AloneInv' /\ last_sim_time' >= last_sim_time
  BY <1>1, <1>3 DEF AloneInv, ClockTypeOK, SampleTrueTime, stateVars, UncertaintyCoversError
<1>4. ASSUME NEW c \in Callers, ReadClock(c), UncertaintyCoversError'
      PROVE  AloneInv' /\ last_sim_time' >= last_sim_time
  <2>1. /\ last_true_time' = sample[c] /\ sample' = sample /\ now' = now
        /\ inside' = inside \ {c} /\ c \in inside /\ last_sim_time' \in Int
        /\ last_true_time' - Uncertainty <= last_sim_time'
        /\ last_sim_time' <= last_true_time' + Uncertainty
        /\ last_sim_time <= last_sim_time'
        /\ reading' = [reading EXCEPT ![c] = last_sim_time']
    BY <1>4, ReadInRange DEF ReadClock
  <2>2. inside' = {}
    BY <2>1 DEF AloneInv, ClockTypeOK
  <2>3. last_true_time' <= now'
    BY <2>1 DEF AloneInv
  <2>4. reading'[c] = last_sim_time' /\ sample'[c] = last_true_time'
    BY <2>1 DEF AloneInv, ClockTypeOK
  <2>5. \A d \in Callers \ inside' : reading'[d] = last_sim_time' /\ sample'[d] = last_true_time'
    BY <2>4
  <2>6. last_sim_time' >= last_sim_time
    BY <2>1 DEF AloneInv, ClockTypeOK
  <2> QED BY <1>1, <1>4, <2>1, <2>2, <2>3, <2>5, <2>6 DEF AloneInv
<1>5. ASSUME NEW c \in Callers, GetTime(c)
      PROVE  AloneInv' /\ last_sim_time' >= last_sim_time
  <2>1. UncertaintyCoversError'
    BY <1>5 DEF UncertaintyCoversError, GetTime, AloneInv, ClockTypeOK
  <2> QED BY <1>4, <1>5, <2>1 DEF GetTime
<1>6. ASSUME NEW c \in Callers, GetTimeWithUncertainty(c)
      PROVE  AloneInv' /\ last_sim_time' >= last_sim_time
  <2>1. ReadClock(c)
    BY <1>6 DEF GetTimeWithUncertainty
  <2>2. PICK u \in Uncertainties(last_sim_time', last_true_time') :
          uncertainty' = [uncertainty EXCEPT ![c] = u]
    BY <1>6 DEF GetTimeWithUncertainty
  <2>3. Abs(last_sim_time' - last_true_time') <= u /\ u <= Uncertainty
    BY <1>1, <2>1, <2>2, ReadInRange, UncertaintyCovers DEF ClockTypeOK
  <2>4. /\ reading'[c] = last_sim_time' /\ sample'[c] = last_true_time'
        /\ uncertainty'[c] = u
    BY <2>1, <2>2, ReadInRange DEF AloneInv, ClockTypeOK
  <2>5. UncertaintyCoversError'
    BY <2>3, <2>4 DEF UncertaintyCoversError
  <2> QED BY <1>4, <2>1, <2>5
<1>7. ASSUME NEW c \in Callers, GetUncertainty(c)
      PROVE  AloneInv' /\ last_sim_time' >= last_sim_time
  <2>1. PICK u \in Uncertainties(last_sim_time, last_true_time) :
          uncertainty' = [uncertainty EXCEPT ![c] = u]
    BY <1>7 DEF GetUncertainty
  <2>2. Abs(last_sim_time - last_true_time) <= u /\ u <= Uncertainty
    BY <2>1, UncertaintyCovers DEF AloneInv, ClockTypeOK
  <2>3. /\ reading[c] = last_sim_time /\ sample[c] = last_true_time
        /\ reading' = reading /\ sample' = sample /\ inside' = inside /\ uncertainty'[c] = u
    BY <1>7, <2>1 DEF GetUncertainty, AloneInv, ClockTypeOK
  <2>4. UncertaintyCoversError'
    BY <2>2, <2>3 DEF UncertaintyCoversError
  <2>5. last_sim_time' >= last_sim_time
    BY <1>7 DEF GetUncertainty, stateVars, AloneInv, ClockTypeOK
  <2> QED BY <1>1, <1>7, <2>4, <2>5 DEF GetUncertainty, stateVars, AloneInv
<1>8. CASE UNCHANGED clockVars
  BY <1>1, <1>8 DEF AloneInv, ClockTypeOK, clockVars, stateVars, callerVars, UncertaintyCoversError
<1> QED BY <1>2, <1>3, <1>5, <1>6, <1>7, <1>8 DEF ClockNext

\* With one caller every reading is within the configured uncertainty of the
\* true time it was made at (allowed_range, clamp_sim_time).
THEOREM AloneWithinUncertainty ==
  ASSUME \A c, d \in Callers : c = d
  PROVE  ClockSpec => []SimWithinUncertainty
<1>1. AloneInv /\ [ClockNext]_clockVars => AloneInv'
  BY AloneStep
<1>2. AloneInv => SimWithinUncertainty
  BY DEF AloneInv, SimWithinUncertainty
<1> QED BY <1>1, <1>2, AloneInit, PTL DEF ClockSpec

\* With one caller the uncertainty it is given covers the error of its reading
\* and stays within the configured bound (get_uncertainty and
\* get_time_with_uncertainty alike).
THEOREM AloneCovered ==
  ASSUME \A c, d \in Callers : c = d
  PROVE  ClockSpec => []UncertaintyCoversError
<1>1. AloneInv /\ [ClockNext]_clockVars => AloneInv'
  BY AloneStep
<1>2. AloneInv => UncertaintyCoversError
  BY DEF AloneInv
<1> QED BY <1>1, <1>2, AloneInit, PTL DEF ClockSpec

\* With one caller the clock never runs backwards, not even when it
\* resynchronises (the lower limit in clamp_sim_time).
THEOREM AloneNeverBackwards ==
  ASSUME \A c, d \in Callers : c = d
  PROVE  ClockSpec => NeverBackwards
<1>1. AloneInv /\ [ClockNext]_clockVars => AloneInv'
  BY AloneStep
<1>2. AloneInv /\ [ClockNext]_clockVars => [last_sim_time' >= last_sim_time]_clockVars
  BY AloneStep
<1> QED BY <1>1, <1>2, AloneInit, PTL DEF ClockSpec, NeverBackwards
-----------------------------------------------------------------------------
(* Resynchronisations of a clock with one caller. *)

LEMMA DivisionBounds ==
  ASSUME NEW x \in Int, NEW y \in Nat \ {0}
  PROVE  /\ (x \div y) \in Int
         /\ (x \div y) * y <= x /\ x < (x \div y) * y + y
OBVIOUS

\* However many deadlines a reading at t finds missed, the last of them is the
\* latest that is not after t (the while loop over resync_at).
LEMMA MissedIsLatest ==
  ASSUME next_resync \in Int, NEW t \in Int, MissedResyncs(t) # 0
  PROVE  /\ next_resync + (MissedResyncs(t) - 1) * SyncPeriod <= t
         /\ t < next_resync + MissedResyncs(t) * SyncPeriod
         /\ next_resync + MissedResyncs(t) * SyncPeriod
              = next_resync + (MissedResyncs(t) - 1) * SyncPeriod + SyncPeriod
<1> DEFINE q == (t - next_resync) \div SyncPeriod
<1>1. MissedResyncs(t) = q + 1
  BY DEF MissedResyncs
<1>2. /\ q \in Int /\ q * SyncPeriod <= t - next_resync
      /\ t - next_resync < q * SyncPeriod + SyncPeriod
  BY DivisionBounds, ConfigAssumption
<1> HIDE DEF q
<1>3. (q + 1) * SyncPeriod = q * SyncPeriod + SyncPeriod /\ (q + 1) - 1 = q
  BY <1>2, ConfigAssumption
<1>4. q * SyncPeriod \in Int
  BY <1>2, ConfigAssumption
<1> QED BY <1>1, <1>2, <1>3, <1>4, ConfigAssumption

LEMMA NoneMissed ==
  ASSUME next_resync \in Int, NEW t \in Int, MissedResyncs(t) = 0
  PROVE  t < next_resync
<1> SUFFICES ASSUME next_resync <= t PROVE FALSE
  OBVIOUS
<1> DEFINE q == (t - next_resync) \div SyncPeriod
<1>1. MissedResyncs(t) = q + 1
  BY DEF MissedResyncs
<1>2. q \in Int /\ t - next_resync < q * SyncPeriod + SyncPeriod
  BY DivisionBounds, ConfigAssumption
<1> HIDE DEF q
<1>3. q = -1
  BY <1>1, <1>2
<1>4. (-1) * SyncPeriod + SyncPeriod = 0
  BY ConfigAssumption
<1> QED BY <1>2, <1>3, <1>4

LEMMA ResyncStep ==
  ASSUME AloneInv, ResyncUpToDate, [ClockNext]_clockVars
  PROVE  ResyncUpToDate'
<1>1. ASSUME NEW c \in Callers, ReadClock(c) PROVE ResyncUpToDate'
  <2> DEFINE t == sample[c]
             missed == MissedResyncs(t)
  <2>1. /\ t \in Int /\ next_resync \in Int
        /\ last_sync_true_time \in Int /\ last_true_time \in Int
    BY DEF AloneInv, ClockTypeOK
  <2>2. last_true_time <= t
    BY <1>1 DEF ReadClock, AloneInv
  <2>3. /\ last_true_time' = t
        /\ next_resync' = next_resync + missed * SyncPeriod
        /\ last_sync_true_time' = IF missed = 0 THEN last_sync_true_time
                                  ELSE next_resync + (missed - 1) * SyncPeriod
    BY <1>1 DEF ReadClock
  <2>4. CASE missed = 0
    <3>1. t < next_resync
      BY <2>1, <2>4, NoneMissed
    <3>2. next_resync' = next_resync
      BY <2>1, <2>3, <2>4, ConfigAssumption
    <3> QED BY <2>1, <2>2, <2>3, <2>4, <3>1, <3>2 DEF ResyncUpToDate
  <2>5. CASE missed # 0
    BY <2>1, <2>3, <2>5, MissedIsLatest DEF ResyncUpToDate
  <2> QED BY <2>4, <2>5
<1>2. CASE UNCHANGED stateVars
  BY <1>2 DEF ResyncUpToDate, stateVars
<1> QED BY <1>1, <1>2 DEF ClockNext, TimePasses, SampleTrueTime, GetTime,
           GetTimeWithUncertainty, GetUncertainty, clockVars

\* With one caller a reading rests on the latest deadline before it, and the
\* next deadline lies ahead, however many passed since the reading before.
THEOREM AloneResyncs ==
  ASSUME \A c, d \in Callers : c = d
  PROVE  ClockSpec => []ResyncUpToDate
<1>1. AloneInv /\ [ClockNext]_clockVars => AloneInv'
  BY AloneStep
<1>2. ClockInit => ResyncUpToDate
  BY ConfigAssumption DEF ClockInit, ResyncUpToDate
<1>3. AloneInv /\ ResyncUpToDate /\ [ClockNext]_clockVars => ResyncUpToDate'
  BY ResyncStep
<1> QED BY <1>1, <1>2, <1>3, AloneInit, PTL DEF ClockSpec
-----------------------------------------------------------------------------
(***************************************************************************)
(* The clock of one caller implements ClockPromise: true time is advanced, *)
(* the part of a call under the lock is the reading, the rest stutters.    *)
(***************************************************************************)
LEMMA PromiseStep ==
  ASSUME \A c, d \in Callers : c = d,
         AloneInv, [ClockNext]_clockVars
  PROVE  [Promise!Advance \/ Promise!Read]_<<now, last_true_time, last_sim_time>>
<1>1. CASE TimePasses
  BY <1>1 DEF AloneInv, ClockTypeOK, TimePasses, stateVars, Promise!Advance
<1>2. ASSUME NEW c \in Callers, ReadClock(c) PROVE Promise!Read
  <2>1. /\ last_true_time' = sample[c] /\ now' = now
        /\ last_sim_time' \in Int
        /\ last_true_time' - Uncertainty <= last_sim_time'
        /\ last_sim_time' <= last_true_time' + Uncertainty
        /\ last_sim_time <= last_sim_time'
    BY <1>2, ReadInRange
  <2>2. /\ sample[c] \in Int /\ last_true_time \in Int /\ now \in Int
        /\ last_true_time <= sample[c] /\ sample[c] <= now
    BY <1>2 DEF ReadClock, AloneInv, ClockTypeOK
  <2>3. sample[c] \in last_true_time..now
    BY <2>2
  <2>4. last_sim_time' \in Promise!Readings(sample[c], last_sim_time)
    BY <2>1, <2>2, ConfigAssumption DEF Promise!Readings
  <2> QED BY <2>1, <2>3, <2>4 DEF Promise!Read
<1>3. CASE UNCHANGED <<now, last_true_time, last_sim_time>>
  BY <1>3
<1> QED BY <1>1, <1>2, <1>3 DEF ClockNext, SampleTrueTime, GetTime,
           GetTimeWithUncertainty, GetUncertainty, clockVars, stateVars

\* With one caller the clock (clock.rs) is the abstract clock of ClockPromise,
\* whatever its drift and however long it runs.
THEOREM AloneKeepsPromise ==
  ASSUME \A c, d \in Callers : c = d
  PROVE  ClockSpec => KeepsPromise
<1>1. ClockInit => Promise!PromiseInit
  BY DEF ClockInit, Promise!PromiseInit
<1>2. AloneInv /\ [ClockNext]_clockVars => AloneInv'
  BY AloneStep
<1>3. AloneInv /\ [ClockNext]_clockVars
        => [Promise!Advance \/ Promise!Read]_<<now, last_true_time, last_sim_time>>
  BY PromiseStep
<1> QED BY <1>1, <1>2, <1>3, AloneInit, PTL
        DEF ClockSpec, KeepsPromise, Promise!PromiseSpec
-----------------------------------------------------------------------------
(***************************************************************************)
(* The clock tools.  Rows are written clock by clock, round by round: row  *)
(* q * Clocks + n is the one of node n in the round after q others.        *)
(***************************************************************************)
Row == [node_id : Node, real : Int, sim : Int, error : Int, uncertainty : Int]

ToolsTypeOK ==
  /\ elapsed \in Nat /\ start \in Nat /\ round_time \in Int
  /\ true_times \in [Node -> Int] /\ sim_times \in [Node -> Int]
  /\ next_clock \in Node \cup {NoRound}
  /\ rows \in Seq(Row)

InRound == IF next_clock = NoRound THEN 0 ELSE next_clock - 1

RowsInTurn ==
  /\ \E rounds \in Nat : Len(rows) = rounds * Clocks + InRound
  /\ \A q \in Nat, n \in Node : q * Clocks + n <= Len(rows) => rows[q * Clocks + n].node_id = n

RowsTellTruth ==
  \A i \in 1..Len(rows) : /\ AbsOf(rows[i].error) <= rows[i].uncertainty
                          /\ rows[i].uncertainty <= MaxUncertainty

ToolsInv ==
  /\ ToolsTypeOK /\ RowsInTurn /\ RowsTellTruth /\ FigureTellsTruth
  /\ figure # NoFigure => next_clock = NoRound

\* Of two rows of one place, round and node are the same.
Place(q, n) == q * Clocks + n

LEMMA SamePlace ==
  ASSUME NEW q \in Nat, NEW r \in Nat, NEW n \in Node, NEW m \in Node,
         Place(q, n) = Place(r, m)
  PROVE  q = r /\ n = m
<1>0. q * Clocks + n = r * Clocks + m
  BY DEF Place
<1>1. Clocks \in Nat /\ n \in 1..Clocks /\ m \in 1..Clocks /\ q * Clocks \in Nat /\ r * Clocks \in Nat
  BY ToolsAssumption, ProductIsNat DEF Node
<1>2. CASE q = r
  BY <1>0, <1>1, <1>2
<1>3. CASE q < r
  <2>1. (q + 1) * Clocks <= r * Clocks
    BY <1>1, <1>3, Monotone
  <2>2. (q + 1) * Clocks = q * Clocks + Clocks
    BY <1>1
  <2> QED BY <1>0, <1>1, <2>1, <2>2
<1>4. CASE r < q
  <2>1. (r + 1) * Clocks <= q * Clocks
    BY <1>1, <1>4, Monotone
  <2>2. (r + 1) * Clocks = r * Clocks + Clocks
    BY <1>1
  <2> QED BY <1>0, <1>1, <2>1, <2>2
<1> QED BY <1>2, <1>3, <1>4

\* The places of the loop over the rows that hold those of node n, counting k
\* rounds.
Goes(p, n, k) ==
  /\ p \in Seq(Row) /\ Len(p) = k
  /\ \A i \in 1..k : p[i] = rows[(i - 1) * Clocks + n]

OwnRows(n) == {i \in DOMAIN rows : IsOf(rows[i], n)}

\* One round of rows gives every node one more.
LEMMA RoundGoes ==
  ASSUME ToolsTypeOK, RowsInTurn, NEW n \in Node, NEW f, Picks(rows, OwnRows(n), f),
         NEW q \in Nat, (q + 1) * Clocks <= Len(rows), Goes(f[q * Clocks], n, q)
  PROVE  Goes(f[(q + 1) * Clocks], n, q + 1)
<1> DEFINE base == q * Clocks
<1>1. /\ Clocks \in Nat /\ 1 <= Clocks /\ base \in Nat /\ (q + 1) * Clocks = base + Clocks
      /\ n \in 1..Clocks /\ Len(rows) \in Nat
  BY ToolsAssumption, ProductIsNat DEF Node, ToolsTypeOK
<1>2. \A i \in 1..Len(rows) : rows[i] \in Row
  BY DEF ToolsTypeOK
<1>3. \A t \in 1..Clocks : base + t \in 1..Len(rows) /\ rows[base + t].node_id = t
  <2> SUFFICES ASSUME NEW t \in 1..Clocks
               PROVE  base + t \in 1..Len(rows) /\ rows[base + t].node_id = t
    OBVIOUS
  <2>1. q * Clocks + t <= Len(rows) => rows[q * Clocks + t].node_id = t
    BY DEF RowsInTurn, Node
  <2> HIDE DEF base
  <2>2. base + t \in 1..Len(rows) /\ base + t <= Len(rows)
    BY <1>1
  <2> QED BY <2>1, <2>2 DEF base
<1>4. DOMAIN rows = 1..Len(rows)
  BY DEF ToolsTypeOK
<1>5. \A t \in 1..Clocks : base + t \in OwnRows(n) <=> t = n
  BY <1>3, <1>4 DEF OwnRows, IsOf
<1>6. \A t \in Nat : t + 1 <= Clocks =>
        f[base + (t + 1)] = PickOne(f[base + t], rows, OwnRows(n), base + (t + 1))
  <2> SUFFICES ASSUME NEW t \in Nat, t + 1 <= Clocks
               PROVE  f[base + (t + 1)] = PickOne(f[base + t], rows, OwnRows(n), base + (t + 1))
    OBVIOUS
  <2>1. base + t \in Nat /\ (base + t) + 1 <= Len(rows) /\ (base + t) + 1 = base + (t + 1)
    BY <1>1
  <2> QED BY <2>1 DEF Picks
<1>7. Goes(f[base], n, q)
  OBVIOUS
<1>8. (q + 1) * Clocks = base + Clocks
  BY <1>1
<1>9. rows[base + n] = rows[((q + 1) - 1) * Clocks + n]
  <2>1. (q + 1) - 1 = q
    OBVIOUS
  <2> QED BY <2>1
<1> HIDE DEF base
<1> DEFINE Good == {t \in Nat : t <= Clocks => Goes(f[base + t], n, IF t >= n THEN q + 1 ELSE q)}
<1>10. 0 \in Good
  BY <1>1, <1>7
<1>11. ASSUME NEW t \in Good PROVE t + 1 \in Good
  <2> SUFFICES ASSUME t + 1 <= Clocks
               PROVE  Goes(f[base + (t + 1)], n, IF t + 1 >= n THEN q + 1 ELSE q)
    OBVIOUS
  <2>1. Goes(f[base + t], n, IF t >= n THEN q + 1 ELSE q)
    BY <1>1
  <2>2. f[base + (t + 1)] = PickOne(f[base + t], rows, OwnRows(n), base + (t + 1))
    BY <1>6
  <2>3. t + 1 \in 1..Clocks /\ t \in Nat
    BY <1>1
  <2>4. CASE t + 1 # n
    <3>1. f[base + (t + 1)] = f[base + t]
      BY <1>5, <2>2, <2>3, <2>4 DEF PickOne
    <3>2. t + 1 >= n <=> t >= n
      BY <1>1, <2>3, <2>4
    <3> QED BY <2>1, <3>1, <3>2
  <2>5. CASE t + 1 = n
    <3> DEFINE p == f[base + t]
               r == f[base + (t + 1)]
    <3>1. r = Append(p, rows[base + n])
      BY <1>5, <2>2, <2>3, <2>5 DEF PickOne
    <3>2. rows[base + n] \in Row
      BY <1>1, <1>2, <1>3
    <3>3. Goes(p, n, q)
      BY <2>1, <2>3, <2>5
    <3> HIDE DEF p, r
    <3>4. /\ r \in Seq(Row) /\ Len(r) = q + 1 /\ r[q + 1] = rows[base + n]
          /\ \A i \in 1..q : r[i] = p[i]
      BY <3>1, <3>2, <3>3, AppendProperties DEF Goes
    <3>5. ASSUME NEW i \in 1..(q + 1) PROVE r[i] = rows[(i - 1) * Clocks + n]
      <4>1. CASE i = q + 1
        BY <1>9, <3>4, <4>1
      <4>2. CASE i \in 1..q
        BY <3>3, <3>4, <4>2 DEF Goes
      <4> QED BY <4>1, <4>2
    <3>6. Goes(r, n, q + 1)
      BY <3>4, <3>5 DEF Goes
    <3>7. t + 1 >= n
      BY <1>1, <2>3, <2>5
    <3> QED BY <3>6, <3>7 DEF r
  <2> QED BY <2>4, <2>5
<1>12. Good = Nat
  BY <1>10, <1>11, SetInduction
<1>13. Goes(f[base + Clocks], n, IF Clocks >= n THEN q + 1 ELSE q)
  BY <1>1, <1>12
<1>14. Clocks >= n
  BY <1>1
<1> QED BY <1>8, <1>13, <1>14

\* After whole rounds, the rows picked for a node are its rows, one per round.
LEMMA OwnRowsPicked ==
  ASSUME ToolsTypeOK, RowsInTurn, NEW rounds \in Nat, Len(rows) = rounds * Clocks, NEW n \in Node
  PROVE  Goes(Picked(rows, OwnRows(n)), n, rounds)
<1>1. Clocks \in Nat /\ Len(rows) \in Nat
  BY ToolsAssumption DEF ToolsTypeOK
<1>2. PICK f : Picks(rows, OwnRows(n), f)
  BY <1>1, PickedUnfolds
<1> DEFINE Good == {q \in Nat : q <= rounds => Goes(f[q * Clocks], n, q)}
<1>3. 0 \in Good
  <2>1. 0 * Clocks = 0
    BY <1>1
  <2>2. f[0] = <<>>
    BY <1>2 DEF Picks
  <2>3. Goes(<<>>, n, 0)
    BY DEF Goes
  <2> QED BY <2>1, <2>2, <2>3
<1>4. ASSUME NEW q \in Good PROVE q + 1 \in Good
  <2> SUFFICES ASSUME q + 1 <= rounds PROVE Goes(f[(q + 1) * Clocks], n, q + 1)
    OBVIOUS
  <2>1. q \in Nat /\ Goes(f[q * Clocks], n, q)
    OBVIOUS
  <2>2. (q + 1) * Clocks <= Len(rows)
    BY <1>1, <2>1, Monotone
  <2> HIDE DEF Good
  <2> QED BY <1>2, <2>1, <2>2, RoundGoes
<1>5. Good = Nat
  BY <1>3, <1>4, SetInduction
<1>6. Goes(f[rounds * Clocks], n, rounds)
  BY <1>5
<1> HIDE DEF Good
<1> QED BY <1>2, <1>6 DEF Picks

LEMMA ToolsInitInv == ToolsInit => ToolsInv
<1> SUFFICES ASSUME ToolsInit PROVE ToolsInv
  OBVIOUS
<1>1. ToolsTypeOK
  BY ToolsAssumption DEF ToolsInit, ToolsTypeOK
<1>2. Len(rows) = 0 /\ InRound = 0 /\ 0 * Clocks = 0
  BY ToolsAssumption DEF ToolsInit, InRound
<1>3. RowsInTurn
  <2>1. Len(rows) = 0 * Clocks + InRound
    BY <1>2
  <2>2. ASSUME NEW q \in Nat, NEW n \in Node PROVE ~ (q * Clocks + n <= Len(rows))
    <3>1. q * Clocks \in Nat /\ n \in Nat /\ n >= 1
      BY ToolsAssumption, ProductIsNat DEF Node
    <3> QED BY <1>2, <3>1
  <2> QED BY <2>1, <2>2 DEF RowsInTurn
<1>4. RowsTellTruth
  BY <1>2 DEF RowsTellTruth
<1>5. figure = NoFigure
  BY DEF ToolsInit
<1> QED BY <1>1, <1>3, <1>4, <1>5 DEF ToolsInv, FigureTellsTruth

\* What a reading leaves in the file.
LEMMA RowWritten ==
  ASSUME ToolsInv, NEW n \in Node, WriteRow(n)
  PROVE  \E row \in Row :
           /\ row.node_id = n /\ AbsOf(row.error) <= row.uncertainty
           /\ row.uncertainty <= MaxUncertainty
           /\ rows' = Append(rows, row)
           /\ true_times' = [true_times EXCEPT ![n] = elapsed]
           /\ sim_times' \in [Node -> Int]
           /\ next_clock' = IF n = Clocks THEN NoRound ELSE n + 1
           /\ UNCHANGED <<elapsed, start, round_time, figure>>
<1>0. PICK sim \in TheClock(n)!Readings(elapsed, sim_times[n]) :
        \E unc \in AbsOf(sim - elapsed)..MaxUncertainty :
          /\ true_times' = [true_times EXCEPT ![n] = elapsed]
          /\ sim_times' = [sim_times EXCEPT ![n] = sim]
          /\ rows' = Append(rows, [node_id |-> n, real |-> round_time, sim |-> sim,
                                   error |-> Error(sim, elapsed), uncertainty |-> unc])
          /\ next_clock' = IF n = Clocks THEN NoRound ELSE n + 1
          /\ UNCHANGED <<elapsed, start, round_time, figure>>
  BY DEF WriteRow
<1>1. PICK unc \in AbsOf(sim - elapsed)..MaxUncertainty :
        /\ true_times' = [true_times EXCEPT ![n] = elapsed]
        /\ sim_times' = [sim_times EXCEPT ![n] = sim]
        /\ rows' = Append(rows, [node_id |-> n, real |-> round_time, sim |-> sim,
                                 error |-> Error(sim, elapsed), uncertainty |-> unc])
        /\ next_clock' = IF n = Clocks THEN NoRound ELSE n + 1
        /\ UNCHANGED <<elapsed, start, round_time, figure>>
  BY <1>0
<1> DEFINE row == [node_id |-> n, real |-> round_time, sim |-> sim,
                   error |-> Error(sim, elapsed), uncertainty |-> unc]
<1>2. elapsed \in Nat /\ round_time \in Int /\ sim_times \in [Node -> Int] /\ MaxUncertainty \in Nat
  BY ToolsAssumption DEF ToolsInv, ToolsTypeOK
<1>3. sim \in Int
  BY <1>2 DEF TheClock!Readings
<1>4. sim - elapsed \in Int /\ AbsOf(sim - elapsed) \in Int
  BY <1>2, <1>3 DEF AbsOf
<1>5. unc \in Int /\ AbsOf(sim - elapsed) <= unc /\ unc <= MaxUncertainty
  BY <1>2, <1>4
<1>6. row \in Row /\ row.node_id = n /\ row.error = sim - elapsed /\ row.uncertainty = unc
  BY <1>2, <1>3, <1>4, <1>5 DEF Row, Error
<1>7. sim_times' \in [Node -> Int]
  BY <1>1, <1>2, <1>3
<1> HIDE DEF row
<1> QED BY <1>1, <1>5, <1>6, <1>7 DEF row

LEMMA WriteRowKeeps == ToolsInv /\ next_clock # NoRound /\ WriteRow(next_clock) => ToolsInv'
<1> SUFFICES ASSUME ToolsInv, next_clock # NoRound, WriteRow(next_clock) PROVE ToolsInv'
  OBVIOUS
<1> DEFINE n == next_clock
<1>1. n \in Node /\ n \in Nat /\ 1 <= n /\ n <= Clocks /\ Clocks \in Nat /\ NoRound = 0
  BY ToolsAssumption DEF ToolsInv, ToolsTypeOK, Node, NoRound
<1>2. PICK row \in Row :
        /\ row.node_id = n /\ AbsOf(row.error) <= row.uncertainty
        /\ row.uncertainty <= MaxUncertainty
        /\ rows' = Append(rows, row)
        /\ true_times' = [true_times EXCEPT ![n] = elapsed]
        /\ sim_times' \in [Node -> Int]
        /\ next_clock' = IF n = Clocks THEN NoRound ELSE n + 1
        /\ UNCHANGED <<elapsed, start, round_time, figure>>
  BY <1>1, RowWritten
<1> DEFINE l == Len(rows)
<1>3. /\ rows' \in Seq(Row) /\ l \in Nat /\ Len(rows') = l + 1 /\ rows'[l + 1] = row
      /\ \A i \in 1..l : rows'[i] = rows[i]
  BY <1>2, AppendProperties DEF ToolsInv, ToolsTypeOK
<1>4. ToolsTypeOK'
  BY <1>1, <1>2, <1>3 DEF ToolsInv, ToolsTypeOK, Node
<1>5. PICK q \in Nat : l = q * Clocks + (n - 1)
  BY <1>1 DEF ToolsInv, RowsInTurn, InRound
<1> HIDE DEF n, l
<1>6. q * Clocks \in Nat /\ (q + 1) * Clocks = q * Clocks + Clocks
  BY <1>1, ProductIsNat
<1>7. RowsInTurn'
  <2>1. \E rounds \in Nat : Len(rows') = rounds * Clocks + InRound'
    <3>1. CASE n = Clocks
      <4>1. InRound' = 0 /\ Len(rows') = (q + 1) * Clocks + 0
        BY <1>1, <1>2, <1>3, <1>5, <1>6, <3>1 DEF InRound
      <4> QED BY <4>1
    <3>2. CASE n # Clocks
      <4>1. InRound' = n
        BY <1>1, <1>2, <3>2 DEF InRound
      <4>2. Len(rows') = q * Clocks + n
        BY <1>1, <1>3, <1>5, <1>6
      <4> QED BY <4>1, <4>2
    <3> QED BY <3>1, <3>2
  <2>2. ASSUME NEW r \in Nat, NEW m \in Node, r * Clocks + m <= Len(rows')
        PROVE  rows'[r * Clocks + m].node_id = m
    <3>1. r * Clocks \in Nat /\ m \in Nat /\ 1 <= m
      BY <1>1, ProductIsNat DEF Node
    <3>2. CASE r * Clocks + m <= l
      <4>1. rows[r * Clocks + m].node_id = m
        BY <3>2 DEF ToolsInv, RowsInTurn, l
      <4>2. r * Clocks + m \in 1..l
        BY <1>3, <3>1, <3>2
      <4> QED BY <1>3, <4>1, <4>2
    <3>3. CASE r * Clocks + m = l + 1
      <4>1. Place(r, m) = Place(q, n)
        BY <1>1, <1>5, <1>6, <3>1, <3>3 DEF Place
      <4>2. m = n
        BY <1>1, <4>1, SamePlace
      <4> QED BY <1>2, <1>3, <3>3, <4>2
    <3>4. r * Clocks + m <= l \/ r * Clocks + m = l + 1
      BY <1>3, <2>2, <3>1
    <3> QED BY <3>2, <3>3, <3>4
  <2> QED BY <2>1, <2>2 DEF RowsInTurn
<1>8. RowsTellTruth'
  <2> SUFFICES ASSUME NEW i \in 1..(l + 1)
               PROVE  AbsOf(rows'[i].error) <= rows'[i].uncertainty
                      /\ rows'[i].uncertainty <= MaxUncertainty
    BY <1>3 DEF RowsTellTruth
  <2>1. CASE i \in 1..l
    BY <1>3, <2>1 DEF ToolsInv, RowsTellTruth, l
  <2>2. CASE i = l + 1
    BY <1>2, <1>3, <2>2
  <2> QED BY <1>3, <2>1, <2>2
<1>9. figure = NoFigure /\ figure' = NoFigure
  BY <1>2 DEF ToolsInv, n
<1> QED BY <1>4, <1>7, <1>8, <1>9 DEF ToolsInv, FigureTellsTruth

\* The plot shows each node's rows.
LEMMA CurvesDrawn ==
  ASSUME ToolsInv, NEW rounds \in Nat, Len(rows) = rounds * Clocks, NEW n \in Node
  PROVE  /\ DOMAIN Curves(n) = 1..rounds /\ Len(Curves(n)) = rounds
         /\ \A i \in 1..rounds :
              LET row == rows[(i - 1) * Clocks + n] IN
              Curves(n)[i] = [x |-> row.real, error |-> row.error,
                              band |-> <<row.error - row.uncertainty, row.error + row.uncertainty>>]
<1> DEFINE own == Picked(rows, OwnRows(n))
           s == Series(n)
<1>1. Goes(own, n, rounds)
  BY OwnRowsPicked DEF ToolsInv
<1>2. s = [real |-> [i \in DOMAIN own |-> own[i].real],
           sim |-> [i \in DOMAIN own |-> own[i].sim],
           error |-> [i \in DOMAIN own |-> own[i].error],
           uncertainty |-> [i \in DOMAIN own |-> own[i].uncertainty]]
  BY DEF Series, OwnRows
<1>3. DOMAIN own = 1..rounds
  BY <1>1 DEF Goes
<1>4. Curves(n) = [i \in DOMAIN s.real |-> [x |-> s.real[i], error |-> s.error[i], band |-> Band(s, i)]]
  BY DEF Curves
<1> HIDE DEF own, s
<1>5. DOMAIN s.real = 1..rounds
  BY <1>2, <1>3
<1>6. \A i \in 1..rounds : /\ s.real[i] = own[i].real /\ s.error[i] = own[i].error
                           /\ s.uncertainty[i] = own[i].uncertainty
  BY <1>2, <1>3
<1>7. ASSUME NEW i \in 1..rounds
      PROVE  LET row == rows[(i - 1) * Clocks + n] IN
             Curves(n)[i] = [x |-> row.real, error |-> row.error,
                             band |-> <<row.error - row.uncertainty, row.error + row.uncertainty>>]
  <2> DEFINE row == rows[(i - 1) * Clocks + n]
  <2>1. own[i] = row
    BY <1>1 DEF Goes
  <2> HIDE DEF row
  <2>2. Curves(n)[i] = [x |-> s.real[i], error |-> s.error[i], band |-> Band(s, i)]
    BY <1>4, <1>5
  <2>3. s.real[i] = row.real /\ s.error[i] = row.error /\ s.uncertainty[i] = row.uncertainty
    BY <1>6, <2>1
  <2>4. Band(s, i) = <<row.error - row.uncertainty, row.error + row.uncertainty>>
    BY <2>3 DEF Band
  <2>5. Curves(n)[i] = [x |-> row.real, error |-> row.error,
                        band |-> <<row.error - row.uncertainty, row.error + row.uncertainty>>]
    BY <2>2, <2>3, <2>4
  <2> QED BY <2>5 DEF row
<1>8. Len(Curves(n)) = rounds
  BY <1>4, <1>5
<1> QED BY <1>4, <1>5, <1>7, <1>8

\* A figure stays as true as it was while it and the file do not change.
LEMMA FigureStays ==
  ASSUME FigureTellsTruth, figure' = figure, rows' = rows
  PROVE  FigureTellsTruth'
BY Zenon DEF FigureTellsTruth, NoFigure, Node

LEMMA PlotKeeps == ToolsInv /\ Plot => ToolsInv'
<1> SUFFICES ASSUME ToolsInv, Plot PROVE ToolsInv'
  OBVIOUS
<1>1. /\ next_clock = NoRound /\ rows # <<>>
      /\ figure' = [n \in {rows[i].node_id : i \in DOMAIN rows} |-> Curves(n)]
      /\ UNCHANGED <<elapsed, start, true_times, sim_times, round_time, next_clock, rows>>
  BY DEF Plot
<1>2. ToolsTypeOK' /\ RowsInTurn' /\ RowsTellTruth'
  BY <1>1 DEF ToolsInv, ToolsTypeOK, RowsInTurn, InRound, RowsTellTruth
<1>3. /\ Clocks \in Nat /\ 1 <= Clocks /\ Len(rows) \in Nat /\ Len(rows) >= 1
      /\ DOMAIN rows = 1..Len(rows) /\ \A i \in 1..Len(rows) : rows[i] \in Row
  BY <1>1, ToolsAssumption DEF ToolsInv, ToolsTypeOK
<1>4. PICK rounds \in Nat : Len(rows) = rounds * Clocks
  <2>1. PICK rounds \in Nat : Len(rows) = rounds * Clocks + 0
    BY <1>1 DEF ToolsInv, RowsInTurn, InRound
  <2>2. rounds * Clocks \in Nat
    BY <1>3, ProductIsNat
  <2> QED BY <2>1, <2>2
<1>5. rounds >= 1
  <2>1. rounds # 0
    BY <1>3, <1>4
  <2> QED BY <2>1
<1>6. {rows[i].node_id : i \in DOMAIN rows} = Node
  <2>1. {rows[i].node_id : i \in DOMAIN rows} \subseteq Node
    BY <1>3 DEF Row
  <2>2. ASSUME NEW n \in Node PROVE n \in {rows[i].node_id : i \in DOMAIN rows}
    <3>1. 1 * Clocks <= rounds * Clocks /\ 1 * Clocks = Clocks /\ 0 * Clocks = 0
      BY <1>3, <1>5, Monotone
    <3>2. n \in 1..Len(rows) /\ 0 * Clocks + n = n
      BY <1>3, <1>4, <3>1 DEF Node
    <3>3. 0 * Clocks + n <= Len(rows)
      BY <1>3, <3>2
    <3>4. rows[0 * Clocks + n].node_id = n
      BY <3>3 DEF ToolsInv, RowsInTurn
    <3> QED BY <1>3, <3>2, <3>4
  <2> QED BY <2>1, <2>2
<1>7. FigureTellsTruth'
  <2>1. DOMAIN figure' = Node
    BY <1>1, <1>6
  <2>2. ASSUME NEW n \in Node
        PROVE  /\ Len(figure'[n]) * Clocks = Len(rows)
               /\ \A i \in DOMAIN figure'[n] :
                    LET point == figure'[n][i]
                        row == rows[(i - 1) * Clocks + n]
                    IN /\ point.x = row.real /\ point.error = row.error
                       /\ point.band[1] <= 0 /\ 0 <= point.band[2]
                       /\ point.band[2] - point.band[1] <= 2 * MaxUncertainty
    <3>1. figure'[n] = Curves(n)
      BY <1>1, <1>6
    <3>2. DOMAIN figure'[n] = 1..rounds /\ Len(figure'[n]) = rounds
      BY <1>4, <3>1, CurvesDrawn
    <3>3. ASSUME NEW i \in 1..rounds
          PROVE  LET point == figure'[n][i]
                     row == rows[(i - 1) * Clocks + n]
                 IN /\ point.x = row.real /\ point.error = row.error
                    /\ point.band[1] <= 0 /\ 0 <= point.band[2]
                    /\ point.band[2] - point.band[1] <= 2 * MaxUncertainty
      <4> DEFINE place == (i - 1) * Clocks + n
                 row == rows[place]
                 point == figure'[n][i]
      <4>1. point = [x |-> row.real, error |-> row.error,
                     band |-> <<row.error - row.uncertainty, row.error + row.uncertainty>>]
        BY <1>4, <3>1, CurvesDrawn
      <4>2. place \in 1..Len(rows)
        <5>1. i - 1 \in Nat /\ (i - 1) + 1 <= rounds /\ n \in 1..Clocks
          BY DEF Node
        <5>2. (i - 1) * Clocks \in Nat /\ ((i - 1) + 1) * Clocks = (i - 1) * Clocks + Clocks
          BY <1>3, <5>1, ProductIsNat
        <5>3. ((i - 1) + 1) * Clocks <= rounds * Clocks
          BY <1>3, <5>1, Monotone
        <5> QED BY <1>3, <1>4, <5>1, <5>2, <5>3
      <4> HIDE DEF place
      <4>3. row \in Row /\ AbsOf(row.error) <= row.uncertainty /\ row.uncertainty <= MaxUncertainty
        BY <1>3, <4>2 DEF ToolsInv, RowsTellTruth
      <4> HIDE DEF row, point
      <4>4. row.error \in Int /\ row.uncertainty \in Int /\ MaxUncertainty \in Nat
        BY <4>3, ToolsAssumption DEF Row
      <4>5. /\ row.error - row.uncertainty <= 0 /\ 0 <= row.error + row.uncertainty
            /\ (row.error + row.uncertainty) - (row.error - row.uncertainty) <= 2 * MaxUncertainty
        BY <4>3, <4>4 DEF AbsOf
      <4>6. /\ point.x = row.real /\ point.error = row.error
            /\ point.band[1] = row.error - row.uncertainty
            /\ point.band[2] = row.error + row.uncertainty
        BY <4>1
      <4>7. /\ point.x = row.real /\ point.error = row.error
            /\ point.band[1] <= 0 /\ 0 <= point.band[2]
            /\ point.band[2] - point.band[1] <= 2 * MaxUncertainty
        BY <4>5, <4>6
      <4> QED BY <4>7 DEF point, row, place
    <3> QED BY <1>4, <3>2, <3>3
  <2>3. rows' = rows
    BY <1>1
  <2> QED BY <2>1, <2>2, <2>3, Zenon DEF FigureTellsTruth, Node
<1> QED BY <1>1, <1>2, <1>7 DEF ToolsInv

\* ToolsInv is inductive.
LEMMA ToolsStep == ToolsInv /\ [ToolsNext]_toolVars => ToolsInv'
<1> SUFFICES ASSUME ToolsInv, [ToolsNext]_toolVars PROVE ToolsInv'
  OBVIOUS
<1>1. CASE TimeElapses
  <2>1. FigureTellsTruth'
    BY <1>1, FigureStays DEF TimeElapses, ToolsInv
  <2> QED BY <1>1, <2>1 DEF TimeElapses, ToolsInv, ToolsTypeOK, RowsInTurn, InRound, RowsTellTruth
<1>2. CASE BeginRound
  <2>1. /\ next_clock = NoRound /\ figure = NoFigure /\ next_clock' = 1
        /\ round_time' = elapsed - start
        /\ UNCHANGED <<elapsed, start, true_times, sim_times, rows, figure>>
    BY <1>2 DEF BeginRound
  <2>2. ToolsTypeOK'
    BY <2>1, ToolsAssumption DEF ToolsInv, ToolsTypeOK, Node
  <2>3. InRound = 0 /\ InRound' = 0
    BY <2>1 DEF InRound, NoRound
  <2>4. RowsInTurn' /\ RowsTellTruth'
    BY <2>1, <2>3 DEF ToolsInv, RowsInTurn, RowsTellTruth
  <2> QED BY <2>1, <2>2, <2>4 DEF ToolsInv, FigureTellsTruth
<1>3. CASE Plot
  BY <1>3, PlotKeeps
<1>4. CASE next_clock # NoRound /\ WriteRow(next_clock)
  BY <1>4, WriteRowKeeps
<1>5. CASE UNCHANGED toolVars
  <2>1. FigureTellsTruth'
    BY <1>5, FigureStays DEF toolVars, ToolsInv
  <2> QED BY <1>5, <2>1 DEF toolVars, ToolsInv, ToolsTypeOK, RowsInTurn, InRound, RowsTellTruth
<1> QED BY <1>1, <1>2, <1>3, <1>4, <1>5 DEF ToolsNext

\* For any number of clocks and rounds, the figure has one point per round for
\* each node, of the row that the round wrote for it, and every band contains
\* zero (clock_sim.rs, plot_clocks.py:27-83).
THEOREM FiguresTellTruth == ToolsSpec => []FigureTellsTruth
<1>1. ToolsInv => FigureTellsTruth
  BY DEF ToolsInv
<1> QED BY <1>1, ToolsInitInv, ToolsStep, PTL DEF ToolsSpec
-----------------------------------------------------------------------------
(***************************************************************************)
(* The workload of a client.                                               *)
(***************************************************************************)
IntervalType == [duration_sec : Nat, requests_per_sec : Nat]
CountType == [sent : Nat, started : Nat, ended : Nat]

WorkloadTypeOK ==
  /\ workload \in Seq(IntervalType) /\ workload # <<>>
  /\ instant \in Nat /\ started \in Nat /\ sent \in Nat
  /\ request_timer \in Nat /\ interval_timer \in Nat
  /\ current \in 1..Len(workload) /\ finished \in Nat
  /\ counts \in Seq(CountType)
  /\ panicked \in BOOLEAN

\* The timers are where the interval's beginning, its length and what was sent
\* put them; there is a count for each interval that is over.
TimersInv ==
  /\ ~ panicked => Valid(workload[current])
  /\ request_timer = started + sent * Delay(workload[current])
  /\ finished < Len(workload) =>
       /\ finished = current - 1
       /\ interval_timer = started + Duration(workload[current])
  /\ finished >= Len(workload) =>
       /\ finished = Len(workload) /\ current = Len(workload)
       /\ counts[current].sent = sent /\ counts[current].started = started
  /\ Len(counts) = finished

\* What RequestsAsConfigured says of an interval that is over.
Enough(count, interval) ==
  /\ count.ended < count.started + count.sent * Delay(interval)
  /\ count.sent >= interval.duration_sec * interval.requests_per_sec

WorkloadInv == WorkloadTypeOK /\ TimersInv /\ RequestsAsConfigured
-----------------------------------------------------------------------------
(* Arithmetic of an interval. *)


LEMMA DelayIsNat ==
  ASSUME NEW interval \in IntervalType
  PROVE  Delay(interval) \in Nat /\ Duration(interval) \in Nat
<1>1. interval.duration_sec \in Nat /\ interval.requests_per_sec \in Nat
  BY DEF IntervalType
<1>2. Duration(interval) \in Nat
  BY <1>1, ProductIsNat, SecondAssumption DEF Duration
<1>3. 999999 * Second \in Nat
  BY SecondAssumption
<1>4. CASE interval.requests_per_sec = 0
  BY <1>2, <1>3, <1>4 DEF Delay
<1>5. CASE interval.requests_per_sec # 0
  <2>1. Second \div interval.requests_per_sec \in Nat
    BY <1>1, <1>5, SecondAssumption
  <2> QED BY <1>2, <1>5, <2>1 DEF Delay
<1> QED BY <1>4, <1>5


\* Whatever the division drops makes the delay shorter.
LEMMA DelayTimesRate ==
  ASSUME NEW interval \in IntervalType, interval.requests_per_sec # 0
  PROVE  Delay(interval) * interval.requests_per_sec <= Second
<1> DEFINE r == interval.requests_per_sec
<1>1. r \in Nat \ {0}
  BY DEF IntervalType
<1> HIDE DEF r
<1>2. (Second \div r) * r <= Second
  BY <1>1, SecondAssumption
<1> QED BY <1>2 DEF Delay, r

\* An interval that lasts as long as configured, and at whose end no request is
\* due, has had as many as configured.
LEMMA EnoughSent ==
  ASSUME NEW interval \in IntervalType, NEW n \in Nat,
         Duration(interval) < n * Delay(interval)
  PROVE  n >= interval.duration_sec * interval.requests_per_sec
<1> DEFINE r == interval.requests_per_sec
           d == interval.duration_sec
           delay == Delay(interval)
<1>1. r \in Nat /\ d \in Nat /\ delay \in Nat
  BY DelayIsNat DEF IntervalType
<1>2. CASE r = 0
  BY <1>1, <1>2
<1>3. CASE r # 0
  <2>1. delay * r <= Second
    BY <1>3, DelayTimesRate
  <2>2. d * Second < n * delay
    BY DEF Duration
  <2> HIDE DEF r, d, delay
  <2> SUFFICES ASSUME n < d * r PROVE FALSE
    BY <1>1, ProductIsNat DEF r, d
  <2>3. n * (delay * r) <= n * Second
    BY <1>1, <2>1, ProductIsNat, Monotone, SecondAssumption
  <2>4. (d * Second) * r <= (n * delay) * r
    BY <1>1, <2>2, ProductIsNat, Monotone, SecondAssumption
  <2>5. (n * delay) * r = n * (delay * r) /\ (d * Second) * r = (d * r) * Second
    BY <1>1, SecondAssumption
  <2>6. (d * r) * Second <= n * Second
    BY <1>1, <2>3, <2>4, <2>5, ProductIsNat, SecondAssumption
  <2>7. n + 1 <= d * r /\ d * r \in Nat
    BY <1>1, ProductIsNat
  <2>8. (n + 1) * Second <= (d * r) * Second
    BY <2>7, Monotone, SecondAssumption
  <2>9. (n + 1) * Second = n * Second + Second
    BY SecondAssumption
  <2>10. n * Second \in Nat /\ (d * r) * Second \in Nat
    BY <2>7, ProductIsNat, SecondAssumption
  <2> QED BY <2>6, <2>8, <2>9, <2>10, SecondAssumption
<1> QED BY <1>2, <1>3
-----------------------------------------------------------------------------
(* The inductive invariant. *)

\* The interval it is at, and its numbers.
LEMMA CurrentInterval ==
  ASSUME WorkloadTypeOK, NEW i \in 1..Len(workload)
  PROVE  /\ workload[i] \in IntervalType
         /\ Delay(workload[i]) \in Nat /\ Duration(workload[i]) \in Nat
<1>1. workload[i] \in IntervalType
  BY DEF WorkloadTypeOK
<1> QED BY <1>1, DelayIsNat

LEMMA WorkloadInvInit == WorkloadInit => WorkloadInv
<1> SUFFICES ASSUME WorkloadInit PROVE WorkloadInv
  OBVIOUS
<1>1. /\ workload \in Seq(IntervalType) /\ workload # <<>>
      /\ Len(workload) \in Nat /\ Len(workload) >= 1
  BY WorkloadsAssumption DEF WorkloadInit, IntervalType
<1>2. workload[1] \in IntervalType
  BY <1>1
<1>3. Delay(workload[1]) \in Nat /\ Duration(workload[1]) \in Nat
  BY <1>2, DelayIsNat
<1>4. WorkloadTypeOK
  BY <1>1, <1>3 DEF WorkloadInit, WorkloadTypeOK
<1>5. 0 * Delay(workload[1]) = 0
  BY <1>3
<1>6. TimersInv
  <2>1. ~ panicked => Valid(workload[current])
    BY Zenon DEF WorkloadInit
  <2>2. request_timer = started + sent * Delay(workload[current])
    BY <1>3, <1>5 DEF WorkloadInit
  <2>3. interval_timer = started + Duration(workload[current])
    BY <1>3 DEF WorkloadInit
  <2>4. finished = 0 /\ current = 1 /\ Len(counts) = 0
    BY DEF WorkloadInit
  <2> QED BY <1>1, <2>1, <2>2, <2>3, <2>4 DEF TimersInv
<1>7. RequestsAsConfigured
  BY DEF WorkloadInit, RequestsAsConfigured
<1> QED BY <1>4, <1>6, <1>7 DEF WorkloadInv

LEMMA InstantStep == WorkloadInv /\ InstantPasses => WorkloadInv'
<1> SUFFICES ASSUME WorkloadInv, InstantPasses PROVE WorkloadInv'
  OBVIOUS
<1>1. WorkloadTypeOK'
  BY DEF WorkloadInv, WorkloadTypeOK, InstantPasses
<1>2. TimersInv'
  BY DEF WorkloadInv, TimersInv, InstantPasses, Valid, Delay, Duration
<1>3. started + (sent - 1) * Delay(workload[current]) \in Int
  BY CurrentInterval DEF WorkloadInv, WorkloadTypeOK
<1>4. Delay(workload[current])' = Delay(workload[current])
  BY DEF InstantPasses, Delay
<1>5. (sent > 0 => started + (sent - 1) * Delay(workload[current]) <= instant)'
  BY <1>3, <1>4 DEF WorkloadInv, WorkloadTypeOK, RequestsAsConfigured, InstantPasses
<1>6. (\A i \in DOMAIN counts : Enough(counts[i], workload[i]))'
  BY DEF WorkloadInv, RequestsAsConfigured, InstantPasses, Enough, Delay
<1>7. RequestsAsConfigured'
  BY <1>5, <1>6 DEF RequestsAsConfigured, Enough
<1> QED BY <1>1, <1>2, <1>7 DEF WorkloadInv

LEMMA SendStep == WorkloadInv /\ SendRequest => WorkloadInv'
<1> SUFFICES ASSUME WorkloadInv, SendRequest PROVE WorkloadInv'
  OBVIOUS
<1> DEFINE delay == Delay(workload[current])
<1>1. delay \in Nat /\ started \in Nat /\ sent \in Nat /\ instant \in Nat
  BY CurrentInterval DEF WorkloadInv, WorkloadTypeOK
<1>2. WorkloadTypeOK'
  BY <1>1 DEF WorkloadInv, WorkloadTypeOK, SendRequest
<1>3. delay' = delay /\ sent' = sent + 1 /\ started' = started /\ instant' = instant
  BY DEF SendRequest, Delay
<1>4. request_timer = started + sent * delay /\ request_timer <= instant
  BY DEF WorkloadInv, TimersInv, SendRequest, RequestDue
<1> HIDE DEF delay
<1>5. (sent + 1) * delay = sent * delay + delay /\ (sent + 1) - 1 = sent
  BY <1>1
<1>6. sent * delay \in Nat
  BY <1>1, ProductIsNat
<1>7. request_timer' = started' + sent' * delay'
  BY <1>1, <1>3, <1>4, <1>5, <1>6 DEF SendRequest, delay
<1>8. TimersInv'
  <2>1. finished < Len(workload)
    BY DEF SendRequest, RequestDue
  <2>2. /\ panicked' = panicked /\ workload' = workload /\ current' = current
        /\ finished' = finished /\ interval_timer' = interval_timer /\ counts' = counts
    BY DEF SendRequest
  <2>3. (~ panicked => Valid(workload[current]))'
    BY <2>2 DEF WorkloadInv, TimersInv, Valid, Delay, Duration
  <2>4. (finished = current - 1 /\ interval_timer = started + Duration(workload[current]))'
    BY <1>3, <2>1, <2>2 DEF WorkloadInv, TimersInv, Duration
  <2>5. ~ (finished' >= Len(workload'))
    BY <2>1, <2>2 DEF WorkloadInv, WorkloadTypeOK
  <2>6. Len(counts') = finished'
    BY <2>2 DEF WorkloadInv, TimersInv
  <2> QED BY <1>7, <2>3, <2>4, <2>5, <2>6 DEF TimersInv, delay
<1>9. started' + (sent' - 1) * delay' <= instant'
  BY <1>1, <1>3, <1>4, <1>5, <1>6
<1>10. (\A i \in DOMAIN counts : Enough(counts[i], workload[i]))'
  BY DEF WorkloadInv, RequestsAsConfigured, SendRequest, Enough, Delay
<1>11. RequestsAsConfigured'
  BY <1>9, <1>10 DEF RequestsAsConfigured, Enough, delay
<1> QED BY <1>2, <1>8, <1>11 DEF WorkloadInv

\* When an interval ends what was due is sent, and that is enough.
LEMMA EndIsEnough ==
  ASSUME WorkloadInv, ~ panicked, IntervalOver, finished < Len(workload),
         NEW count \in CountType, count.sent = sent, count.started = started,
         count.ended = instant
  PROVE  Enough(count, workload[current])
<1> DEFINE delay == Delay(workload[current])
           length == Duration(workload[current])
<1>1. /\ delay \in Nat /\ length \in Nat /\ started \in Nat /\ sent \in Nat /\ instant \in Nat
      /\ workload[current] \in IntervalType
  BY CurrentInterval DEF WorkloadInv, WorkloadTypeOK
<1>2. request_timer = started + sent * delay /\ request_timer > instant
  BY DEF WorkloadInv, WorkloadTypeOK, TimersInv, IntervalOver, RequestDue
<1>3. started + length <= instant
  BY DEF WorkloadInv, TimersInv, IntervalOver
<1> HIDE DEF delay, length
<1>4. sent * delay \in Nat
  BY <1>1, ProductIsNat
<1>5. length < sent * delay /\ instant < started + sent * delay
  BY <1>1, <1>2, <1>3, <1>4
<1>6. sent >= workload[current].duration_sec * workload[current].requests_per_sec
  BY <1>1, <1>5, EnoughSent DEF delay, length
<1> QED BY <1>5, <1>6 DEF Enough, delay

LEMMA NextStep == WorkloadInv /\ NextInterval => WorkloadInv'
<1> SUFFICES ASSUME WorkloadInv, NextInterval PROVE WorkloadInv'
  OBVIOUS
<1> DEFINE next == workload[current + 1]
           count == [sent |-> sent, started |-> started, ended |-> instant]
<1>1. /\ workload' = workload /\ current' = current + 1 /\ finished' = finished + 1
      /\ instant' = instant /\ counts' = Append(counts, count)
      /\ panicked' = (~ Valid(next)) /\ started' = instant /\ sent' = 0
      /\ request_timer' = instant /\ interval_timer' = instant + Duration(next)
  BY DEF NextInterval, Begins
<1>2. /\ current + 1 \in 1..Len(workload) /\ finished = current - 1 /\ Len(counts) = finished
      /\ finished < Len(workload) /\ current \in Nat /\ Len(workload) \in Nat
  BY DEF WorkloadInv, WorkloadTypeOK, TimersInv, NextInterval
<1>3. Delay(next) \in Nat /\ Duration(next) \in Nat
  BY <1>2, CurrentInterval DEF WorkloadInv
<1>4. count \in CountType /\ counts \in Seq(CountType) /\ instant \in Nat
  BY DEF WorkloadInv, WorkloadTypeOK, CountType
<1>5. Enough(count, workload[current])
  BY <1>2, <1>4, EndIsEnough DEF NextInterval
<1>6. /\ workload'[current'] = next
      /\ Delay(workload[current])' = Delay(next) /\ Duration(workload[current])' = Duration(next)
  BY <1>1 DEF Delay, Duration
<1> HIDE DEF next, count
<1>7. WorkloadTypeOK'
  BY <1>1, <1>2, <1>3, <1>4 DEF WorkloadInv, WorkloadTypeOK
<1>8. TimersInv'
  <2>1. (~ panicked => Valid(workload[current]))'
    BY <1>1, <1>6, Zenon DEF Valid
  <2>2. 0 * Delay(next) = 0
    BY <1>3
  <2>3. request_timer' = started' + sent' * Delay(workload[current])'
    BY <1>1, <1>4, <1>6, <2>2
  <2>4. Len(counts') = finished'
    BY <1>1, <1>2, <1>4
  <2>5. /\ finished' = current' - 1 /\ finished' < Len(workload')
        /\ interval_timer' = started' + Duration(workload[current])'
    BY <1>1, <1>2, <1>6
  <2> QED BY <1>1, <1>2, <2>1, <2>3, <2>4, <2>5 DEF TimersInv
<1>9. \A i \in DOMAIN counts' : Enough(counts'[i], workload[i])
  <2> SUFFICES ASSUME NEW i \in DOMAIN counts' PROVE Enough(counts'[i], workload[i])
    OBVIOUS
  <2>1. i \in 1..current
    BY <1>1, <1>2, <1>4
  <2>2. CASE i = current
    BY <1>1, <1>2, <1>4, <1>5, <2>2
  <2>3. CASE i # current
    <3>1. i \in DOMAIN counts /\ counts'[i] = counts[i]
      BY <1>1, <1>2, <1>4, <2>1, <2>3
    <3> QED BY <3>1 DEF WorkloadInv, RequestsAsConfigured, Enough
  <2> QED BY <2>2, <2>3
<1>10. RequestsAsConfigured'
  BY <1>1, <1>9 DEF RequestsAsConfigured, Enough, Delay
<1> QED BY <1>7, <1>8, <1>10 DEF WorkloadInv

\* The final count: the first time it is the end of the last interval, and then
\* it stays what it was.
LEMMA FinalStep == WorkloadInv /\ TakeFinalCount => WorkloadInv'
<1> SUFFICES ASSUME WorkloadInv, TakeFinalCount PROVE WorkloadInv'
  OBVIOUS
<1> DEFINE count == [sent |-> sent, started |-> started,
                     ended |-> IF finished < current THEN instant ELSE counts[current].ended]
           earlier == SubSeq(counts, 1, current - 1)
<1>1. /\ workload' = workload /\ current' = current /\ finished' = Len(workload)
      /\ instant' = instant /\ counts' = Append(earlier, count)
      /\ panicked' = panicked /\ started' = started /\ sent' = sent
      /\ request_timer' = request_timer
      /\ interval_timer' = interval_timer + Duration(workload[current])
      /\ current = Len(workload)
  BY DEF TakeFinalCount
<1>2. /\ current \in 1..Len(workload) /\ Len(workload) \in Nat /\ finished \in Nat
      /\ Duration(workload[current]) \in Nat /\ instant \in Nat
      /\ sent \in Nat /\ started \in Nat /\ counts \in Seq(CountType)
  BY CurrentInterval DEF WorkloadInv, WorkloadTypeOK
<1>3. /\ Len(counts) = finished /\ finished \in {current - 1, current}
      /\ finished >= current => counts[current].sent = sent /\ counts[current].started = started
  BY <1>1, <1>2 DEF WorkloadInv, TimersInv
<1>4. count \in CountType
  <2>1. CASE finished < current
    BY <1>2, <2>1 DEF CountType
  <2>2. CASE ~ (finished < current)
    <3>1. counts[current] \in CountType
      BY <1>2, <1>3, <2>2
    <3> QED BY <1>2, <2>2, <3>1 DEF CountType
  <2> QED BY <2>1, <2>2
<1>5. Enough(count, workload[current])
  <2>1. CASE finished < current
    BY <1>1, <1>4, <2>1, EndIsEnough DEF TakeFinalCount
  <2>2. CASE ~ (finished < current)
    <3>1. current \in DOMAIN counts
      BY <1>2, <1>3, <2>2
    <3>2. Enough(counts[current], workload[current])
      BY <3>1 DEF WorkloadInv, RequestsAsConfigured, Enough
    <3>3. /\ count.sent = counts[current].sent /\ count.started = counts[current].started
          /\ count.ended = counts[current].ended
      BY <1>2, <1>3, <2>2
    <3> QED BY <3>2, <3>3 DEF Enough
  <2> QED BY <2>1, <2>2
<1>6. /\ earlier \in Seq(CountType) /\ Len(earlier) = current - 1
      /\ \A i \in 1..(current - 1) : earlier[i] = counts[i] /\ i \in DOMAIN counts
  BY <1>2, <1>3
<1>7. count.sent = sent /\ count.started = started
  OBVIOUS
<1> HIDE DEF count, earlier
<1>8. /\ counts' \in Seq(CountType) /\ Len(counts') = current /\ counts'[current] = count
      /\ \A i \in 1..(current - 1) : counts'[i] = counts[i]
  BY <1>1, <1>2, <1>4, <1>6
<1>9. WorkloadTypeOK'
  BY <1>1, <1>2, <1>8 DEF WorkloadInv, WorkloadTypeOK
<1>10. TimersInv'
  <2>1. (~ panicked => Valid(workload[current]))'
    BY <1>1 DEF WorkloadInv, TimersInv, Valid, Delay, Duration
  <2>2. request_timer' = started' + sent' * Delay(workload[current])'
    BY <1>1 DEF WorkloadInv, TimersInv, Delay
  <2>3. counts'[current'].sent = sent' /\ counts'[current'].started = started'
    BY <1>1, <1>7, <1>8
  <2> QED BY <1>1, <1>2, <1>8, <2>1, <2>2, <2>3 DEF TimersInv
<1>11. \A i \in DOMAIN counts' : Enough(counts'[i], workload[i])
  <2> SUFFICES ASSUME NEW i \in DOMAIN counts' PROVE Enough(counts'[i], workload[i])
    OBVIOUS
  <2>1. i \in 1..current
    BY <1>2, <1>8
  <2>2. CASE i = current
    BY <1>5, <1>8, <2>2
  <2>3. CASE i # current
    <3>1. i \in 1..(current - 1)
      BY <1>2, <2>1, <2>3
    <3> QED BY <1>6, <1>8, <3>1 DEF WorkloadInv, RequestsAsConfigured, Enough
  <2> QED BY <2>2, <2>3
<1>12. RequestsAsConfigured'
  BY <1>1, <1>11 DEF WorkloadInv, RequestsAsConfigured, Enough, Delay
<1> QED BY <1>9, <1>10, <1>12 DEF WorkloadInv

LEMMA WorkloadStutter == WorkloadInv /\ UNCHANGED workloadVars => WorkloadInv'
BY DEF WorkloadInv, WorkloadTypeOK, TimersInv, RequestsAsConfigured, workloadVars,
       Valid, Delay, Duration

\* Requests are sent when they are due, none is given up when its interval ends,
\* and no interval has fewer than configured (client.rs, configs.rs), whatever
\* the rates, however fine time is and however late the loop.
THEOREM SentAsConfigured == WorkloadSpec => []RequestsAsConfigured
<1>1. WorkloadInv /\ [WorkloadNext]_workloadVars => WorkloadInv'
  BY InstantStep, SendStep, NextStep, FinalStep, WorkloadStutter DEF WorkloadNext
<1>2. WorkloadInv => RequestsAsConfigured
  BY DEF WorkloadInv
<1> QED BY <1>1, <1>2, WorkloadInvInit, PTL DEF WorkloadSpec
=============================================================================
