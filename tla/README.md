# Verification of omnipaxos-kv

TLA+ models of the key-value store in `src/` (Rust: `src/src`), their TLC
configurations, and TLAPS proofs. The repository builds two programs on top of
the external `omnipaxos` crate: a **server**, one per node of a cluster, and a
benchmark **client**, connected to one server. Around them are a simulated
clock, tools that print it, and Python scripts that run experiments.

## 1. Inventory

| Component | Source | State | Operations | Talks to |
|---|---|---|---|---|
| Server event loop | `server/server.rs` | the map, `current_decided_idx`, the network, the library instance | two `select!` loops: `establish_initial_leader` (takeover timer, peer batch, client batch), then `run` (election timer, poll timer, peer batch, client batch) | library (calls), network (channels) |
| Key-value database | `server/database.rs` | a `HashMap` | `handle_command` | called by the event loop |
| Server network, running | `server/network.rs` | a slot per peer, a map of clients | `send_to_cluster`, `send_to_client`; a reader and a writer task per connection | event loop (mpsc channels), TCP |
| Connecting | `server/network.rs`, `client/network.rs` | listener, handshakes, id counter | `Network::new` waits until every peer and `num_clients` clients are connected | TCP |
| Benchmark client | `client/client.rs`, `client/data_collection.rs` | final count, next id, a record per request, a counter of answers | wait for the start, then answers / request timer / interval timer | its server |
| Client network | `client/network.rs` | one connection slot, a bounded queue before it | `send`, `shutdown`, reader and writer tasks | TCP |
| Messages | `common.rs` (`messages`, `kv`, `utils`) | - | encoding and framing | all |
| Log snapshots | `common.rs` (`KVSnapshot`) | a map and deleted keys | `create`, `merge` | nobody: `Command` names no snapshot type |
| Simulated clock | `clock.rs` | offset, last reading, last and next resync, behind a mutex | `get_time`, `get_uncertainty`, `get_time_with_uncertainty` | called by the library |
| Replication library | `omnipaxos` crate (external) | the replicated log, ballots | `append_with_id`, `handle_incoming`, `poll`, `tick`, `try_become_leader`, `get_decided_idx`, `read_decided_suffix` | server |
| Clock tools | `bin/clock_sim.rs`, `scripts/plot_clocks.py` | rows of a CSV file, series per node | sample all clocks in rounds; read, sort by node, draw | clock, files |
| Benchmark runs | `benchmarks/omnipaxos_cluster.py`, `gcp_ssh_client.py`, `startup_scripts/` | `_processes`, retries, ticks; ssh sessions, scripts and containers on the instances | `run`: start, await, retry, stop; signal handler | ssh, docker |
| Benchmark instances | `benchmarks/gcp_cluster.py` | `instances`; instances and DNS records in the cloud | constructor: list, delete, create, name; `shutdown` | cloud API |

What is hard here, and what makes each part correct:

* **Server.** Nothing blocks the loop, but the order of arms is arbitrary and a
  batch holds any number of messages, requests or decided entries. Entries the
  library decides in `poll()` are applied only when the next peer message comes
  in. A failed send gives up a connection in the middle of a handler, and there
  is no way to get it back. Correct means: every replica applies the decided
  log without gaps or repetitions, a client gets exactly the answers to its own
  commands, reads included, in an order that respects real time, and every
  request is answered in the end.
* **Connecting.** Diallers, listener, handshake tasks and the loop that counts
  connections run concurrently, in processes that start in any order. Correct
  means: ids are unique, a listener stays while a peer needs it, and what
  `Network::new` leaves is what the event loop relies on: every peer slot
  filled, clients with the ids the start signals are sent to. What a handshake has
  read beyond a registration is thrown away: clients must have sent nothing by then,
  and servers may have.
* **Starting.** One server decides when to start; the others relay its decision.
  Correct means: after promotion, once, the same instant for everybody; whoever
  is left waiting has lost its connection to the leader, or what came over it first.
* **Client.** It matches answers to requests by index and ends by counting.
  Correct means: the count is as good as a matching, the index is never out of
  range, and a client ends if nothing fails.
* **Queues.** Between two event loops lie a queue, a batch, a socket, a chunk
  and another queue, most of them bounded. Correct means: they keep order and
  lose nothing but what follows a message no frame can hold, hold fast clients
  back, and never leave two loops waiting for each other.
* **Workload.** Requests and intervals have timers of their own in one loop that
  answers may delay. Correct means: what is due is sent, before the interval
  ends, and no less than configured, whatever a division drops.
* **Clock.** Drift, resynchronisation and clamping have to leave a reading
  monotone, within the bound, and repeatable, and several deadlines may have
  passed since the last call. The sample is taken outside the lock. What its
  tools draw is correct if every band contains the truth, though each round
  takes time.
* **Benchmark runs.** Sessions fail, instances are not up yet, scripts and
  containers outlive the sessions that began them, and a signal may come at any
  step. Correct means: servers and clients of one attempt belong together, a run
  comes to an end, and nothing is left running but what nobody could know of.
* **Benchmark instances.** A script may die at any point, and what it requested
  goes on; the next one lists instances whatever their status. Correct means: it
  gets the cluster it wants and servers their names, and deletes nothing it could
  use.
* **Snapshots.** Which deletions a delta has to carry depends on all of its
  entries and on a snapshot it does not know.

The hazards, line by line, are in `PROJECT.json`.

## 2. Modules

| Module | What it models |
|---|---|
| `Common` | messages, commands, names (`common.rs`) |
| `Database` | `handle_command` as `Updated` and `Answer`; `LeavesValue`, the meaning of a log, written without running it |
| `OmniPaxos` | the library as the server sees it (external) |
| `Streams` | the client connections: an append-only sequence per direction and how much of it is consumed |
| `Server` | the cluster: one action per arm of the two loops, and the environment |
| `ServerProperties` | what the cluster promises, and its refinement of `KVService` |
| `KVService` | abstract specification: one map, each operation atomic between call and return |
| `Connections` | how a cluster connects: `Network::new` on both sides |
| `Client` | the benchmark client |
| `OmniPaxosKV` | servers and real clients composed |
| `Transport` | the queues, batches and tasks between the event loops of connected processes |
| `FifoChannels` | abstract specification: what `Transport` promises the event loops |
| `Workload` | when a client sends requests: its two timers |
| `Clock` | the simulated clock |
| `ClockPromise` | abstract specification: readings within a bound, never backwards |
| `ClockTools` | simulation and plot, over clocks of `ClockPromise` |
| `KVSnapshot` | `create`, `merge` and chains of merges |
| `SshHarness` | a benchmark run: `OmnipaxosCluster.run`, `GcpClusterSSHClient`, what runs on the instances |
| `Provisioning` | the instances of a benchmark and their names: `GcpCluster` |
| `Selection` | `Picked`: elements of a sequence by their places, which several modules sort messages and rows with |
| `ServerProofs`, `AnswerProofs`, `ConnectionsProofs`, `TransportProofs`, `TimeProofs`, `SnapshotProofs`, `BenchmarkProofs` | theorems about the modules above |
| `SelectionProofs` | what those share: induction over data without operators as parameters, and lemmas about `Picked` |
| `MCServer`, `MCConnections`, `MCOmniPaxosKV`, `MCTransport`, `MCClock`, `MCKVSnapshot` | instances for TLC |
| `MCAlone` | instances of `Clock`, `ClockTools`, `Workload` and `KVSnapshot`, side by side |
| `MCBenchmarks` | instances of `SshHarness` and `Provisioning`, side by side |

**State.** `phase[s]` is where server `s` is: `"starting"`, in `Network::new`, then
in one of the two loops. `current_decided_idx`,
`database`, `peer_connections` and `client_connections` are the fields of the
same names; `peer_connections[s]` holds the peers whose slot is `Some`.
`cluster_messages[s]` is what peers have sent to `s` and `s` has not handled:
sender queue, socket, reader and receiver queue in one. It is a set: the
library's messages are one token (what they say is the crate's own affair), and
a start signal is sent to a server once. Messages to `s` come from several peers
through several connections, so no order among them is kept beyond what
`HandleClusterMessages` considers: how much the library's messages before and
after a start signal of a batch reveal. `requests`, `appended`, `responses` and
`delivered` do the same for clients, in order, as TCP and the channels keep it.
A connection is `"up"`, `"gone"` (the other side left; the writer task has not
noticed, so a send succeeds and the message is lost) or `"closed"` (the writer
task has ended: the next send fails and the connection is dropped). One between
servers may also be `"spoiled"` or `"cut"`, see below.

**The start of a server.** A server sends nothing before its `Network::new` has
returned, but it is sent to: a peer with a higher id dials, and sends as soon as
its own `Network::new` is done. `handle_incoming_connection` reads its registration
through a framed stream and then drops that stream's buffer
(`into_inner().into_inner()`, `network.rs:165`), with whatever was read along.
`NetworkReady` is the return of `Network::new` and takes these losses: any part of
what such peers (`MayBeReadAlong`) have sent may go. If the part ends between two
frames the connection is `"spoiled"`, its beginning lost; if it ends inside one,
the reader makes no sense of anything that follows, `"cut"`. In both cases the
sender notices nothing. In the code each registration is read at a moment of its
own, before `new()` returns; taking them all at the return is no less general,
because nothing a server has been sent can be handled or answered before then, and
an earlier moment only means that less has arrived. That a leader needs a majority to
be promoted is the library's affair and not modelled: with three servers a loss does
not keep it from one. The runs with two servers have the initial leader
1, which is dialled: server 2 says nothing before it has heard from it, so that
nothing can be lost in the handshake. `Connections` has how `Network::new` gets to
its return.

**The library.** One sequence `log` of decided commands, a set `pending` of
commands handed over, `decided_idx[s]` for what replica `s` knows to be decided,
and how far the initial leader has got. Decided entries are never undone, a
command enters the log at most once, and nothing is decided before the initial
leader is in the accept phase: these are the crate's promises, taken as given.
A command handed over may be lost (it stays pending). Whether the library sends
something at the end of a handler, and to whom, is nondeterministic (`T`).

**Actions of `Server`.** `TakeLeadership` and `SendStartSignals` are the two
outcomes of the takeover timer; `HandleClusterMessages` and
`HandleClientMessages` one batch each, in either loop; `Tick` and `Poll` the
timers of `run`. Every one ends with the `send_outgoing_msgs` its arm makes.
Inside a batch, `HandleDecidedEntries` folds `ApplyAndRespond` over the decided
suffix, entry by entry, with the sends in between. Because `handle_decided_entries`
always catches up with the library, a batch that takes the index to `d1` before
a start signal and to `d2` in the end stands for every way of splitting its
messages. The rest is environment: `LibraryDecides`, the clients as this module
imagines them, `LinkBreaks`, `Crash`, `ClientLeaves`, `WriterEnds`.

**Clients.** `Server` has clients that send anything once they have their start
signal. `OmniPaxosKV` replaces them by those of `Client`, and `ClientsAreForeseen`
checks that these do nothing the former could not.

**Connecting.** `Connections` is the phase before `Server`. A connection is the
pair of its dialler and the server dialled: a client dials its server, a server
every server with a lower id. `dialler` and `acceptor` are the states of its two
ends; `Connect`, `Register` belong to the dialling task, `Bind`, `Accept` to the
listener, `Identify`, `DropUnidentified`, `Announce` to the handshake task, and
`TakeConnection` is one turn of the loop in `initialize_connections`, which on
the last connection also aborts the listener and so resets what waits in its
backlog. `ReadyAsServersBegin` says that what `new()` leaves are the slots and the
client ids that `Server` has from its `Init` on; it says nothing of messages.
`sent` and `spoiled` follow what a dialler has sent beyond its registration:
`into_inner` throws away what the handshake has read of it. `ClientsLoseNothing`
says that this never concerns a client; that it does concern servers is what
`NetworkReady` models. The channel of new
connections holds 30, more than any instance announces, so its bound is left out.

**Transport.** A channel is one direction of a connection. `turn` holds the
channels an event loop has still to send on before it selects again: a client's
`send` waits on a full queue (`HasRoom`), and its loop with it; a server's never
does. Messages are numbered, per channel, in the order they are sent; `wire`
merges the encoder's buffer and the socket, `outgoing`, `buffer`, `chunk` and
`inbox` are the variables of the code. Clients of one server share its
`client_messages`, peers its `cluster_messages`. `WriterSkips` is the `break` on
a message that cannot be framed. `FifoChannels` is what `Server` and `Streams`
take for granted when they keep one sequence, or one set, per connection;
connections that fail are theirs. The bounded queues are all of `BatchSize`, as
in the code.

**Workload.** `request_timer` and `interval_timer` are the deadlines of tokio
intervals, whose first tick is immediate and which make up for late ticks one by
one. `RequestDue` before `IntervalOver` is the `biased` order of the arms. An
interval that gives a timer no period panics, as the assertion in
`get_request_delay` and `interval()` do. `Client` has the same steps without time.

**Snapshots.** A log grows and is condensed at any points; the merged snapshot is
judged by `LeavesValue`, which shares nothing with it. The steps around the
two functions are how the library would use them.

**Clock tools.** `ClockTools` reads clocks of `ClockPromise`, through `TheClock(n)`,
not of `Clock`; `KeepsPromise` says that the latter implements the former, and is
proved. The file is the sequence of its rows; `Series`, `Band` and `Curves` are
the columns per node and what is drawn of them.

**Benchmark runs.** Each process has an instance of its own; its n-th session is
attempt n. The session starts a script on the instance (`SessionBegins`), which
outlives it, since `ssh` runs without `-t`: whatever ends a session, terminating
included, the script goes on. Its steps are those of `run_server.sh` and
`run_client.sh`: it waits until the instance is started up (`scripts`), kills the
container that runs (`ScriptCleans`), pulls an image or sleeps (`pulling`), and runs
its own container (`ScriptRuns`), or, if another has taken the name meanwhile, ends,
and its EXIT trap kills that other one. So scripts of several attempts meet, in any
order, and a kill command may come before the `docker run` it was meant for. `InTime`
is where the ten seconds of a retry suffice for a script on an instance that is up;
on `Slow` instances they do not. `in_hand` is the process between the call that
starts or removes it and the bookkeeping, where a signal finds it unaccounted for;
`unawaited` are kill commands of calls of `stop_processes` that a signal has
interrupted: the handler waits for its own only, and exits. Signals may come again,
to the handler too, and one typed at the terminal ends the ssh processes as well.
Sessions fail with 255 or end with another code, which `poll()` takes for a finished
process: that of a script's failed command or of `gcloud` itself. `strays` is history: processes whose
container the harness could not know of, being that of a script without a session, or
one left by a session or a kill command that did not get through. Assumed: a script's
EXIT trap runs at once; terminating `gcloud` ends its session; instances do not stop
by themselves.

**Benchmark instances.** `step` is where a script is between its start and its
end, which `Interrupted` may bring about anywhere, leaving requested operations
to complete on their own. `aggregated_list` gives every instance whatever its status
(`Listings`): those that run, and any of those being created or deleted, as the cloud
may have them on its list or not. `adopted` is history: those that a script took as
they were, and that did not run. A name is taken until the deletion is
complete, and an insert is refused as long as it is; a deletion is refused if there is
nothing any more. Addresses are used again. `orphans` is history: servers whose script
died before it named them. An instance's zone is part of its type.

**Clock.** A call is two steps, `SampleTrueTime` and `GetTime` (or
`GetTimeWithUncertainty`), since the lock is taken in between. The loop over
missed resynchronisations is its closed form `MissedResyncs`; every resync sets
the offset to zero as the code does (`new_error = 0`). The random uncertainty is
any value of the range it is drawn from.

## 3. Runs

| Run | Instance | Shows |
|---|---|---|
| `replication` | 2 servers, a client each, 1 request each | types, `ReplicaMatchesLog`, `Linearizable` (refinement) |
| `establish` | 3 servers, the initial leader 2 of {1, 2, 3}, clients at it and at one follower, no requests, 2 possible instants, 1 failure | the start protocol (`StartedOnce`, `SameStart`), the two reasons to wait in vain (`StrandedOnlyByLoss`), and the giving up of connections |
| `unheard` | the same, no failure | **violated**: a follower never hears of the start |
| `system_failures` | 2 servers, a real client of the follower, 2 requests, 2 intervals, 1 failure | `AnswersFollowLog`, `RequestsAccountedFor` through any one failure; the client never ends before its requests are answered and decided, never panics |
| `system_liveness` | the same, 1 interval, no failures | replicas catch up and clients end, for which they must be started and answered; real clients are foreseen |
| `connections_peers` | 3 servers, a client, 1 process stops | `PeersFindListener`; unless a process stops every `Network::new` returns |
| `connections_clients` | 2 servers, 3 clients of one of them, 1 process stops | `IdsAreUnique`, `ReadyAsServersBegin`, `ClientsLoseNothing`; nobody waits in vain (`NewNeverStuck`), and no task goes round in circles (`ConnectingMovesOn`) |
| `transport` | 2 servers, 2 clients of one; 6 messages each way between servers, or 7 from one client, through queues of 1; or a message too large in batches of 2 | nothing is stuck, clients are held back, losses are local; `ChannelsAreFifo` (refinement) |
| `alone` | clock: 1 caller, 3 drift rates, 16 ticks, 3 periods; tools: 2 clocks, 3 rounds at most, bound 1; timers: all workloads of 2 intervals with rates 0 to 6 at 5 ticks a second, 0 to 2 seconds; snapshots: logs of 4 commands, 2 keys, 2 values | the clock as the server uses it, and its refinement of `ClockPromise`; the figure tells the truth; requests are sent when due and in sufficient number; `create` is right, `merge` too, but for the deletions it forgets |
| `clock_concurrent` | 2 callers | **violated**: a reading out of range |
| `snapshot_stale` | the snapshots of `alone` | **violated**: a deletion gets lost |
| `benchmark_scripts` | a server and 2 clients: two runs and a failure, slow scripts and a failure, a signal, a client not reachable at first, a server not reachable with a timeout; a server and a client, 4 configurations, 3 addresses, 2 failures | attempts agree, nothing is left behind but strays, success is genuine, runs return; ready means as configured, what fits is kept, names follow servers, scripts succeed again |

`alone` and `benchmark_scripts` check modules side by side that share no
variable: `part` says which of them a behaviour moves, the others stay in an
initial state, so the states add up and do not multiply, and the properties of a
module are those of its own behaviours. `load` in `Transport` and `scenario` in
`SshHarness` are the configurations of a run in the same way, chosen in the
initial state.

*Bounds.* Two servers are enough for what one replica does to another's clients:
they have equal client ids (both have client 1), one coordinates and one
follows, and the client of the follower sees its entries decided elsewhere.
Three servers are needed only for the start, where one link may break while
another delivers, and where the initial leader can be promoted without a server that it
has dialled: with 2 of {1, 2, 3} it dials one peer and is dialled by the other. Two requests of one client make a batch, an order and an
off-by-one visible. One failure is any of: a client, a link, a server, the
initial leader, at every point; the code never repairs anything, so failures do
not interact except by adding up. With one key and one value a put, a delete and
a get still disagree in every order. `MaxRequests`, `MaxFailures`, `MaxTime`, `MaxInstant`, `MaxSent`,
`MaxLog`, `MaxRuns`, `MaxLosses` and `MaxSignals` are the bounds on counters, each in the
guard of the actions that count. `Slow` bounds the instances whose scripts take longer
than a retry waits. Start times are symmetric in `establish`, which has no liveness
property and no action that tells one from another; servers are numbers, as their order
decides who dials, and have no symmetry. While connecting, three servers give one that only dials, one
that only listens and one that does both; three clients give every order of
three handshakes. `CHECK_DEADLOCK FALSE` is set where a failure is possible: a
crashed cluster, or one whose clients have all gone, may stop; and for the
connection phase, the transport, the modules that stand alone and the
benchmark scripts, which end when their bounds are reached or the program exits. Queues of one or two
messages have every state of longer ones that matters, empty, filling and full;
six messages fill all of those between two loops. Five ticks a second divide
evenly by one and five only, so every other rate rounds. Four commands are two
deltas of two, or a delta of three after one: a put and a delete on either side
of a snapshot. An instance that stays unreachable uses up the three retries.
Three addresses are one more than names, so that an address may come back to
another instance.

*Fairness.* Unless something fails `Network::new` returns (`NetworkReturns`), which
`EveryServerReady` shows of `Connections`. Timers fire (`TakeLeadership`, `SendStartSignals`, `Tick`, the
client's interval timer), tokio's `select!` polls its arms in random order, so an
arm that stays ready is taken (`HandleClientMessages`), and a live TCP connection
delivers (`ClientReceives`). Of the library: a pending command is decided in the
end (`LibraryDecides`), and a replica that keeps handling messages keeps up with
the log, and the prepared leader is promoted (`CatchUp`). `CatchUp` needs strong
fairness because other arms may consume the message token first. `Poll` has no
fairness: nothing relies on it. The liveness properties hold only because `Tick`
keeps sending; with a silent tick (a mutant) requests stay unanswered.

While connecting, every task that can take a step does (`ConnectionSteps`,
`StartingSteps`): the retry timers of the diallers fire every second, and every
server process is started at some time.

In `Transport` no fairness is needed: `NothingStuck` says that some task can go
on as long as anything is under way, and every step of a task moves a message
forward. In `SshHarness` instances come up, sessions get
through to those that are up, scripts go on (`ScriptsContinue`), a kill command arrives or
fails, and a client finishes while the servers' containers are those of their
latest attempts; the timeouts of the harness are steps like others. In
`Provisioning` a script does not stall and is run again, and operations of the
cloud complete.

*Mutants.* Each property of each passing run comes with a plausible bug of the
code that violates it, an operator next to the definition it replaces.

*Findings.*

1. `CLOCK_README.md:12-13` says every `get_time()` stays within
   `true_time ± sync_uncertainty_us`. With two callers it does not (run
   `clock_concurrent`): the first samples true time, the second samples later,
   reads and raises the last reading, and the first is clamped up to it. The
   server calls the clock from one task, where the property holds and is proved.
   What any number of callers may rely on is `ReadsWithinCall`: a reading is in
   range of the true time at some instant of its call, and falls below the last
   by no more than the call has waited for the lock. That is proved, too.
2. `await_processes_concurrent` is documented to retry all processes if any
   instance fails to connect; it polls only the ids it is given, and `run` gives
   it the clients. A server whose session fails is not retried, and the run waits
   for ever if there is no timeout: the exception `RunReturns` has to make.
3. `KVSnapshot::create` forgets a key that its entries first put and then
   delete; merged into a snapshot that has the key, the old value stays (run
   `snapshot_stale`). Nothing calls it today.
4. `establish_initial_leader` is documented to choose an instant "which the followers
   relay to their clients" (`server.rs:144-146`). With three servers or more, and an
   initial leader that dials, a follower may never hear of it although nothing fails
   (run `unheard`): slow to read the leader's registration, it reads the one start
   signal along with it and drops both with the buffer. `StrandedOnlyByLoss` says
   that this and a broken connection are the only reasons, and is proved.
5. `GcpCluster` means to "get already running instances" (`gcp_cluster.py:75`), and
   takes those being created or deleted as well: a cluster said to be ready may
   lack them, the exception for `adopted` in `ReadyAsConfigured`.
6. `run_server.sh` and `run_client.sh` kill their container when they exit, but a
   session without `-t` does not end them, as their comment admits: a script
   terminated early starts its container afterwards, and nobody stops it. Those
   are the `strays` of `RunsLeaveNothing`.
7. `OmnipaxosCluster` is documented to assign DNS names to the servers when it is
   constructed. A server found running is assumed to have its own; if the script
   that created it died first, it has none, or that of an earlier instance: the
   exception `ReadyAsConfigured` has to make. A TODO in the code says so.

## 4. Proofs

`ServerProofs`, for every set of servers, number of clients, bound and failure:

* `TypeCorrect`: `Spec => []TypeOK`.
* `ReplicasMatchLog`: `Spec => []ReplicaMatchesLog`. The inductive invariant
  `IInv` adds to the types that no replica knows more decided entries than the
  log has; without it the suffix read could reach past the log. `ApplyAll` shows
  that folding `ApplyAndRespond` over any suffix turns a map that matches the
  first `m` entries into one that matches the first `n`; its induction over the
  length of a batch is done in `SetInduction`, over a set of numbers instead of
  an operator, from the well-foundedness of the naturals. `LeavesPrefix` says
  that appending to the log does not change what its prefixes leave. One lemma
  per action follows.
* `EveryRequestAccountedFor`: `Spec => []RequestsAccountedFor`. The invariant
  `Accounted` adds that a server has never taken more from a client than the
  client has sent and hands over the commands of those messages and no others;
  two messages of one client, or of clients of different servers, are never the
  same command (`CommandsDiffer`).

`ServerProofs`, about the start protocol, for every cluster and any failures:

* `ClientsAreStartedOnce`, `ClientsStartTogether`, `NobodyLeftWaiting` and
  `SlotsOnlyLostWhenClosed`: `StartedOnce`, `SameStart`, `StrandedOnlyByLoss`,
  `ConnectionsOnlyLostWhenClosed`. One invariant, `StartInv`, on top of `IInv`:
  a signal is under way only to servers that are starting or in the first loop, whose
  clients have heard nothing (`Unstarted`), and only after promotion (`Promoted`); a client sends
  nothing before it has heard something (`HeardBeforeSending`), so no answer comes
  before its signal; all signals, under way or heard, carry one instant
  (`OneInstant`) and none comes second (`OneSignal`); a client that has heard nothing
  though its server has left the first loop is not connected (`ToldUnlessGone`), and
  a slot given up had a broken connection (`SlotsKept`). A stranded server is one whose
  connection from the initial leader is no longer whole (`StrandedUnheard`), and only
  a handshake with a server of a higher id, once over, can have spoiled one
  (`SpoiledLinks`).

`AnswerProofs`, about what clients see, for every cluster and any failures:

* `AnswersAlwaysFollowLog`: `Spec => []AnswersFollowLog`. Given `IInv` it is
  inductive; the work is in the loop over decided entries. `Answering` says
  what has been answered when the loop has reached an entry; `AnswerOne` and
  `AnswerAll` carry it through the loop, sends that fail and connections given up
  on the way included. `Dues` are the answers a prefix of the log owes a client,
  and an entry adds one or none (`DueOneMore`).
* `ClusterIsOneMap`: `Spec => Linearizable`, that is, the cluster implements
  `KVService`. A decision of the library maps to `TakeEffect`: what it decides has
  been called, and has no outcome yet, by `Accounted`. A request maps to `Call`, and
  the steps that deliver answers to `Return`, or to stutters; what they deliver
  has taken effect (`ReturnedTookEffect`) by `AnswersFollowLog`.

`AnswerProofs`, about the servers with the clients of `Client` in the place of those
`Server` imagines, for every cluster, any workload and any failures:

* `ClientsForeseen`, `FinishedAnswered`, `NeverPanics`: `ClientsAreForeseen`,
  `FinishedMeansAnswered`, `ClientNeverPanics`. The invariants
  above (`ServersInv`) are proved together with `SystemInv`, which says of a client
  that its connection is up until it ends, that it has counted what it was told
  since the start, and that whatever it was told is marked. Each needs the other:
  a client's step is one `Server` foresees only by `SystemInv`, and keeps it only
  because of what servers tell. That is `AnswersAreOwn`: each answer in a stream
  has an entry of the log of its own (`PickedPlaces`, `AnswersHaveEntries`), so
  their ids differ and are those of requests made. `CountingMatches` is then the
  pigeonhole: as many answers as requests, one to one, leave none unanswered.
  With `ClientsForeseen`, all theorems about `Spec` hold for the whole system.
* `FinishedDecided`: `FinishedMeansDecided`. A client that counted its run to the
  end has each answer, hence by `AnswersAreOwn` an entry of the log for each, and
  the answer of that entry is among what it was told.
* `SystemIsOneMap`: the system implements `KVService`, from `ClientsForeseen` and
  `ClusterIsOneMap`.

`TimeProofs`, about the clock, for every drift rate, bound and period:

* any number of callers: `ClockTyped`, `ReadsAreRepeatable`, and `SharedReads`, which
  is `ReadsWithinCall`. By `SharedInv` the last reading is ahead of true
  time by no more than the bound, and samples are not in the future; a reading clamped up to the
  last one is then near a true time between the call's sample and now;
* one caller (assumed in the theorem): `AloneWithinUncertainty`, `AloneCovered`,
  `AloneNeverBackwards`. The invariant ties the last reading to the last sample
  and the samples to true time: a single caller's samples never go back, so the
  last reading is never above the new range, and the lower clamp cannot leave it.
* one caller: `AloneKeepsPromise`, `Clock` implements `ClockPromise`. Initial
  states map to initial states, the passing of time to `Advance`, the part of a
  call under the lock to `Read` by the same invariant, everything else stutters.
* one caller: `AloneResyncs`, that is `ResyncUpToDate`. `MissedIsLatest` shows that
  the closed form of the loop over deadlines ends at the latest one that is not
  after the sample.

`ConnectionsProofs`, for every cluster and any processes that stop:

* `ConnTyped` and `UniqueIds`; the latter needs that no id given is above the
  counter of its server.
* `ListenersStay`: `ConnSpec => []PeersFindListener`. The invariant `PeersInv`
  says that a listener is aborted only when its server is ready or has crashed,
  that a ready server has a filled slot for every peer, and that every peer in a
  slot, in the channel of new connections, or about to be announced has `Met`
  the server: the connection between them is registered. `MetForGood` says that
  it stays so, and one lemma per kind of step does the rest.
* `NewLeavesWhatServersNeed` and `ClientsKeepAll`: `ReadyAsServersBegin` and
  `ClientsLoseNothing`. By `CountInv` the ids a server has given are those up to
  its counter, each to one client, a server that is ready has stored as many as
  configured, and a client sends nothing before its start signal. With no more
  clients than that, choosing a client for each id is an injection between sets
  of one size, and so reaches all of them.
* `NobodyWaitsInVain`: `ConnSpec => []NewNeverStuck`. If no process has stopped and
  some `new()` has not returned, a task of the connection phase can go on. `WaitInv` says that
  the two ends of a connection match (`EndsMatch`), that a listener is as far as
  its `new()` (`ListenersMatch`), that every connection registered is in a slot, in the
  channel or about to be announced (`NoneForgotten`), and that a `new()` which has
  everyone has returned (`StillWaiting`). Where no task can go on,
  everyone has registered and been counted, so each server has everyone
  (`StuckHasAll`), which `StillWaiting` excludes. The check for "everyone" comes
  after a connection is taken (`network.rs:111`): a server with nobody to wait for
  would wait for ever, hence the hypothesis `EveryoneComes`, that a server has
  someone to wait for and as many clients as configured come.
* `ConnectingEnds`: `ConnSpec => ConnectingMovesOn`. The stages of ends and servers
  never go down, and a step of a task raises one or takes a connection from the
  channel, which holds no more than came forward. With `NobodyWaitsInVain`: unless a
  process stops, every `new()` has returned after a bounded number of steps of tasks
  that were able to take them. That tasks do take them is the fairness of
  `EveryServerReady`.

`TimeProofs`, about the clock's tools, for any number of clocks and any length of the
simulation:

* `FiguresTellTruth`: `ToolsSpec => []FigureTellsTruth`. By `ToolsInv` the rows of the
  file take turns, the row at place `i` being of the node that `i` comes to in its
  round (`RowsInTurn`), and the interval of each row contains the true time it was
  read at (`RowsTellTruth`), whatever its round took as the time. Picking the rows
  of one node then gives one per round, at known places: an induction over the
  rounds, with the place as an operator of its own because the provers do no
  multiplication.

`TimeProofs`, about the workload, for every workload and however fine time is:

* `SentAsConfigured`: `WorkloadSpec => []RequestsAsConfigured`. The invariant puts
  both timers where the interval's beginning, what was sent and its length say;
  an interval that ends with no request due has then lasted less than the delays
  of what it sent (`EndIsEnough`), and these are short enough, whatever the
  division drops, to make that as many as configured (`EnoughSent`).

`TransportProofs`, for every set of servers and clients, any size of the queues, batches
and sockets, and any messages too large:

* The inductive invariant `TransportInv` reads a channel backwards, from what the
  loop has handled to what was sent last, as one sequence of numbers (`Pipe`). It
  rises; it has no gap unless a message of the channel is too large; what it lacks
  was dropped less than a batch behind one (`MayLack`); and its end, which has not
  reached the socket, has no gap in any case (`Latest`), without which a dropped
  batch could not be told to be the neighbours of the message too large. Most steps
  only move numbers along the sequence, which regrouping shows (`FirstMoved`,
  `HeadMoved`); `Send` adds the next one, `WriterSkips` takes some out. `QueuesInv`
  has the types, the bounds, and that a queue shared by channels holds
  only messages of those that lead to it.
* `ClientsHeldBack`, from the bounds and the length of `Pipe`, which for channels of
  clients is the number sent; `LossesAreLocal`.
* `TransportIsFifo`: `TransportSpec => ChannelsAreFifo`, that is, the transport
  implements `FifoChannels`. A send maps to `Sends`, a batch that a loop takes to
  `Handles`, since it is the part of `Pipe` after what was handled (`BatchFollows`);
  all else stutters.
* `SomeTaskIsReady`: `NothingStuck` without its `ENABLED`. If no task were ready, a
  queue that is not empty would wait for the next one, up to a loop that waits in a
  send; that loop is not a server's, whose queues have no bound, and a client's
  waits in the end for its server's.
* `StepsMoveForward`: a step of a writer, a reader or a loop, other than a send,
  lowers the `Distance` of some channel, a natural number that weighs each message by
  the queues before it, and raises none. This is the variant that a proof of
  progress under fairness would use: with `SomeTaskIsReady`, what has been sent is
  handled or dropped after so many steps. Fairness itself stays with the runs.

`SnapshotProofs`, for logs and batches of any length:

* `SnapshotsMeanLog`: `SnapshotSpec => []CreateIsMeaning`. `CreateUnfolds` says what one
  more entry does to the loop of `create`; by induction over the log it holds what
  `LeavesValue` says, and a key it has noted as deleted and not put back is gone.
* `MergesKeepMeaning`: `SnapshotSpec => MergeKeepsMeaning`, from the same lemma applied
  to the entries since the last snapshot, and from what those leave when the log is
  read on from there.

`BenchmarkProofs`, about runs, for every set of processes, any number of runs and failures:

* `AttemptsAlwaysAgree`, `NothingLeft`, `SuccessesAreGenuine`. One invariant:
  `BooksInv` says what `_processes` holds at each point of `run`, and that kill commands
  outlive only a call that a signal has interrupted; `ScriptsInv` that no script is of
  an attempt to come; `SessionsInv` that whatever is neither registered nor in hand has
  no session, and no container (`Clean`) but a stray or one about to be killed, and that
  a session that has ended, or whose script has just killed what ran, has none either.
  `Attempts` counts the sessions of what a loop has started already.

`BenchmarkProofs`, about instances, for every set of names and configurations, any failures:

* `ReadyClusters` and `InstancesKept`. `SetupInv` says at each step of the
  constructor which instances are right, those adopted included, `NamesInv` that a server that runs has its
  name unless it is an orphan or the script is about to name it.

Assumptions are those of the modules: node and client sets as configured, the
assertions of `Clock::new`, the initial leader a node of the cluster; clients are
no servers and finitely many; and the numbers of a client's requests are among
the keys and values (`RequestsAssumption`), as `send_request` makes them both.

Induction over data is done without operators as parameters, which the provers
cannot instantiate: the claim becomes a set of numbers, or of sequences, that is
shown to be all of them (`SetInduction` and `AppendInduction` in `SelectionProofs`).

Proved, and a property of no passing run: the types of `Connections` and
`Clock`, `SimWithinUncertainty` and `NeverBackwards` for one caller,
`ReadsWithinCall`, `FinishedMeansAnswered`.

Only model-checked: the liveness properties `EveryServerReady`,
`EveryClientFinishes`, `EveryReplicaCatchesUp`, `RunReturns` and `ScriptsSucceed`
(fairness is out of the prover's reach; what `EveryServerReady` rests on as far as it is
safety is proved by `NobodyWaitsInVain` and `ConnectingEnds`), and that a ready task can take its step (the `ENABLED` in `NothingStuck`), which
the guards of the actions, spelt out in `TaskReady`, show to a reader.

## 5. Not modelled

* Inside the library: ballots, quorums, messages, its fast path and its use of
  the clock. It is external; the models rest on its promises. The entry id it is
  given, which two servers' clients can share, is therefore left out as well.
* More clients than `num_clients` can register, and then those connected need
  not have the ids start signals go to; the properties promise dense ids only for
  as many clients as configured.
* Statistics and their CSV and JSON output: snapshots of counters the library
  keeps, written at timers and read by nobody here.
* Configuration files, and the builder and validation in `benchmarks/`: they
  assign values and compare them; what they must satisfy is in the assumptions of
  the modules.
* `clock_bench`, which times calls; the look of plots; files without the error
  column, which `clock_sim` always writes; the data analysis in
  `benchmarks/graph_*.py`; build and container scripts.
* Instances stopped by hand or by the cloud, and addresses that change while an
  instance runs.
* The bytes of a handshake: how much of a frame is lost is reduced to whether the
  loss ends between two frames. What the library makes of its own messages lost
  there is left to its retries.
* Restarts: a server keeps nothing on disk (`MemoryStorage`) and nobody would
  connect to it again, so a crash is final.
* Real time, except in `Clock` and `Workload`: elsewhere timers fire in any
  order, intervals have no length, the start instant is a value to agree on.

## 6. Plan

Done: the modules of section 2 and the proofs of section 4.

Every invariant and action property the runs check is stated by a theorem, the
`ENABLED` of `NothingStuck` excepted. Whoever extends the project would begin with
what the liveness of requests and of the benchmark scripts rests on as far as it is
safety, the way `StepsMoveForward` shows it for the transport and
`ConnectingEnds` for the connection phase.
