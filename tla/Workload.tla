------------------------------ MODULE Workload ------------------------------
(***************************************************************************)
(* When a client sends its requests (src/src/client/client.rs, configs.rs  *)
(* in the same directory): one timer for requests, one for the intervals   *)
(* they are configured in, asked in this order.  A loop that is late finds *)
(* ticks due and takes them one by one.  Messages from the server, which   *)
(* come before both, do nothing here but make the loop late; what becomes  *)
(* of them is in Client.  An interval and its two timers begin at once.    *)
(***************************************************************************)
EXTENDS Integers, Sequences

CONSTANTS
  Second,      \* 1_000_000 in the code
  Workloads,   \* values of config.requests, not empty
  MaxInstant   \* bound: how long time runs

ASSUME SecondAssumption == Second \in Nat \ {0}
ASSUME WorkloadsAssumption ==
  \A w \in Workloads :
    w # <<>> /\ w \in Seq([duration_sec : Nat, requests_per_sec : Nat])

VARIABLES
  instant,         \* Instant::now()
  workload,        \* config.requests
  current,         \* the interval it is at
  started,         \* when that began
  sent,            \* requests sent since
  request_timer,   \* the next deadline of request_interval
  interval_timer,  \* and of next_interval
  finished,        \* how many intervals are over; the last one stays current
  counts,          \* of the intervals that are over, what was sent and when they ended
  panicked

workloadVars == <<instant, workload, current, started, sent, request_timer, interval_timer,
                  finished, counts, panicked>>

\* get_request_delay, in whole microseconds; its assertion is in Valid.
Delay(interval) ==
  IF interval.requests_per_sec = 0 THEN 999999 * Second
  ELSE Second \div interval.requests_per_sec

Duration(interval) == interval.duration_sec * Second

\* A timer may be made of it: no period is zero.
Valid(interval) == Delay(interval) > 0 /\ Duration(interval) > 0

\* The timers of an interval, made at a time: requests begin at once, the tick
\* next_interval begins with is taken when it is made.
Begins(interval, time) ==
  /\ panicked' = ~ Valid(interval)
  /\ started' = time
  /\ sent' = 0
  /\ request_timer' = time
  /\ interval_timer' = time + Duration(interval)

WorkloadInit ==
  /\ workload \in Workloads
  /\ instant = 0 /\ current = 1 /\ finished = 0 /\ counts = <<>>
  /\ panicked = ~ Valid(workload[1])
  /\ started = 0 /\ sent = 0 /\ request_timer = 0
  /\ interval_timer = Duration(workload[1])
-----------------------------------------------------------------------------
InstantPasses ==
  /\ instant < MaxInstant
  /\ instant' = instant + 1
  /\ UNCHANGED <<workload, current, started, sent, request_timer, interval_timer,
                 finished, counts, panicked>>

\* The arm of the request timer, off once the final count is taken.
RequestDue ==
  /\ finished < Len(workload)
  /\ request_timer <= instant

SendRequest ==
  /\ ~ panicked
  /\ RequestDue
  /\ sent' = sent + 1
  /\ request_timer' = request_timer + Delay(workload[current])
  /\ UNCHANGED <<instant, workload, current, started, interval_timer, finished, counts, panicked>>

\* Mutant: the arms are asked in any order.
IntervalDue == interval_timer <= instant

\* The arm of the interval timer, asked only if that of the requests is not due.
IntervalOver == interval_timer <= instant /\ ~ RequestDue

NextInterval ==
  /\ ~ panicked
  /\ IntervalOver
  /\ current < Len(workload)
  /\ current' = current + 1
  /\ finished' = finished + 1
  /\ counts' = Append(counts, [sent |-> sent, started |-> started, ended |-> instant])
  /\ Begins(workload[current + 1], instant)
  /\ UNCHANGED <<instant, workload>>

\* No interval is left: the final count is taken, and again at every further tick.
TakeFinalCount ==
  /\ ~ panicked
  /\ IntervalOver
  /\ current = Len(workload)
  /\ finished' = Len(workload)
  /\ counts' = Append(SubSeq(counts, 1, current - 1),
                      [sent |-> sent, started |-> started,
                       ended |-> IF finished < current THEN instant ELSE counts[current].ended])
  /\ interval_timer' = interval_timer + Duration(workload[current])
  /\ UNCHANGED <<instant, workload, current, started, sent, request_timer, panicked>>

WorkloadNext == InstantPasses \/ SendRequest \/ NextInterval \/ TakeFinalCount

WorkloadSpec == WorkloadInit /\ [][WorkloadNext]_workloadVars
-----------------------------------------------------------------------------
\* No request is sent before its time; none that was due is given up when its
\* interval ends or the final count is taken, however late the loop is; and no
\* interval has fewer requests than configured: the microseconds a division drops
\* make the rate too high and never too low.
RequestsAsConfigured ==
  /\ sent > 0 => started + (sent - 1) * Delay(workload[current]) <= instant
  /\ \A i \in DOMAIN counts :
       /\ counts[i].ended < counts[i].started + counts[i].sent * Delay(workload[i])
       /\ counts[i].sent >= workload[i].duration_sec * workload[i].requests_per_sec
=============================================================================
