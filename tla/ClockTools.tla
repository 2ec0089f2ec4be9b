----------------------------- MODULE ClockTools -----------------------------
(***************************************************************************)
(* The clock simulation and its plot (src/src/bin/clock_sim.rs,            *)
(* scripts/plot_clocks.py): rounds of readings of several clocks are       *)
(* written to a CSV file, read back, sorted by node and drawn as an error  *)
(* curve with a band of uncertainty.  The clocks are those of              *)
(* ClockPromise; the file is the sequence of its rows.                     *)
(***************************************************************************)
EXTENDS Integers, Sequences, Selection

CONSTANTS
  Clocks,         \* number of drift rates given; node ids are 1..Clocks
  MaxUncertainty, \* uncertainty_us
  SamplePeriod,   \* sample_ms
  SimDuration     \* duration_ms

ASSUME ToolsAssumption ==
  /\ Clocks \in Nat \ {0} /\ MaxUncertainty \in Nat
  /\ SamplePeriod \in Nat /\ SimDuration \in Nat

Node == 1..Clocks
NoRound == 0

VARIABLES
  elapsed,          \* true time since the clocks were made
  start,            \* when the simulation began
  true_times, sim_times,   \* of each clock's last reading, the true and its own
  round_time,       \* the instant a round took as its own
  next_clock,       \* the clock to be read next in this round, or NoRound
  rows,             \* the CSV file
  figure            \* the curves of each node, once drawn

toolVars == <<elapsed, start, true_times, sim_times, round_time, next_clock, rows, figure>>

TheClock(n) == INSTANCE ClockPromise
  WITH Uncertainty <- MaxUncertainty,
       now <- elapsed, last_true_time <- true_times[n], last_sim_time <- sim_times[n]

NoFigure == <<>>

ToolsInit ==
  /\ start \in 0..1 /\ elapsed = start   \* the clocks are made a little before
  /\ true_times = [n \in Node |-> 0]
  /\ sim_times = [n \in Node |-> 0]
  /\ round_time = 0
  /\ next_clock = NoRound
  /\ rows = <<>>
  /\ figure = NoFigure
-----------------------------------------------------------------------------
\* Between readings and between rounds.  Bound: it stops just after the end.
TimeElapses ==
  /\ elapsed < start + SimDuration + 1
  /\ elapsed' = elapsed + 1
  /\ UNCHANGED <<start, true_times, sim_times, round_time, next_clock, rows, figure>>

\* The loop's condition, and the sleep since the last row was written.
BeginRound ==
  /\ next_clock = NoRound /\ figure = NoFigure
  /\ elapsed < start + SimDuration
  /\ rows # <<>> => elapsed >= true_times[Clocks] + SamplePeriod
  /\ round_time' = elapsed - start
  /\ next_clock' = 1
  /\ UNCHANGED <<elapsed, start, true_times, sim_times, rows, figure>>

\* Mutant: the error is taken against the round's instant.
ErrorInRound(sim, true_time) == sim - (start + round_time)

\* error_us, from get_last_true_time.
Error(sim, true_time) == sim - true_time

AbsOf(x) == IF x < 0 THEN -x ELSE x

\* A clock is read, and its line written.
WriteRow(n) ==
  \E sim \in TheClock(n)!Readings(elapsed, sim_times[n]) :
    \E unc \in AbsOf(sim - elapsed)..MaxUncertainty :
      /\ true_times' = [true_times EXCEPT ![n] = elapsed]
      /\ sim_times' = [sim_times EXCEPT ![n] = sim]
      /\ rows' = Append(rows, [node_id |-> n, real |-> round_time, sim |-> sim,
                               error |-> Error(sim, elapsed), uncertainty |-> unc])
      /\ next_clock' = IF n = Clocks THEN NoRound ELSE n + 1
      /\ UNCHANGED <<elapsed, start, round_time, figure>>

IsOf(row, n) == row.node_id = n

\* The loop over the rows of the file: a list per column and node.
Series(n) ==
  LET own == Picked(rows, {i \in DOMAIN rows : IsOf(rows[i], n)}) IN
  [real |-> [i \in DOMAIN own |-> own[i].real],
   sim |-> [i \in DOMAIN own |-> own[i].sim],
   error |-> [i \in DOMAIN own |-> own[i].error],
   uncertainty |-> [i \in DOMAIN own |-> own[i].uncertainty]]

\* unc_neg and unc_pos.
Band(s, i) == <<s.error[i] - s.uncertainty[i], s.error[i] + s.uncertainty[i]>>

\* The error curve of a node, and the band that is filled around it.
Curves(n) ==
  LET s == Series(n) IN
  [i \in DOMAIN s.real |-> [x |-> s.real[i], error |-> s.error[i], band |-> Band(s, i)]]

\* The simulation has written its file and the plot is made of it; without a
\* row there is none.
Plot ==
  /\ next_clock = NoRound /\ figure = NoFigure
  /\ elapsed >= start + SimDuration
  /\ rows # <<>>
  /\ figure' = [n \in {rows[i].node_id : i \in DOMAIN rows} |-> Curves(n)]
  /\ UNCHANGED <<elapsed, start, true_times, sim_times, round_time, next_clock, rows>>

ToolsNext ==
  \/ TimeElapses \/ BeginRound \/ Plot
  \/ next_clock # NoRound /\ WriteRow(next_clock)

ToolsSpec == ToolsInit /\ [][ToolsNext]_toolVars
-----------------------------------------------------------------------------
\* The figure tells the truth: a node has one point per round, the one the round
\* read of it, although the rows of all nodes alternate in the file; and "error +-
\* uncertainty" (plot_clocks.py:75) contains zero, that is, every interval a clock
\* gave contained the true time, though time passes between a round's readings;
\* and none is wider than configured.
FigureTellsTruth ==
  figure # NoFigure =>
    /\ DOMAIN figure = Node
    /\ \A n \in Node :
         /\ Len(figure[n]) * Clocks = Len(rows)
         /\ \A i \in DOMAIN figure[n] :
              LET point == figure[n][i]
                  row == rows[(i - 1) * Clocks + n]
              IN /\ point.x = row.real /\ point.error = row.error
                 /\ point.band[1] <= 0 /\ 0 <= point.band[2]
                 /\ point.band[2] - point.band[1] <= 2 * MaxUncertainty
=============================================================================
