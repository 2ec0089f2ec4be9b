----------------------------- MODULE SshHarness -----------------------------
(***************************************************************************)
(* The benchmark harness: OmnipaxosCluster.run() over the processes that   *)
(* GcpClusterSSHClient keeps (benchmarks/gcp_ssh_client.py), with the ssh  *)
(* sessions and the containers on the instances they are for.              *)
(*                                                                         *)
(* A process runs on an instance of its own.  Its n-th session is attempt  *)
(* n; the session starts the script of the instance                        *)
(* (startup_scripts/run_*.sh), which may outlive it, since ssh runs        *)
(* without -t, and then meet the scripts of later attempts.                *)
(***************************************************************************)
EXTENDS Integers, FiniteSets

CONSTANTS
  Servers, Clients,
  Scenarios         \* what a script finds and is given: see scenario

NoTimeout == -1
Process == Servers \cup Clients

ASSUME ProcessAssumption == Servers \cap Clients = {}
ASSUME ScenariosAssumption ==
  \A s \in Scenarios :
    /\ s.fresh \subseteq Process /\ s.slow \subseteq Process
    /\ s.timeout \in Nat \cup {NoTimeout}
    /\ s.max_runs \in Nat /\ s.max_losses \in Nat /\ s.max_signals \in Nat

VARIABLES
  scenario,    \* one of Scenarios, which stays
  pc,          \* where run() is
  todo,        \* the processes a loop of it has yet to start or stop
  in_hand,     \* the one started and not yet registered, or popped and not yet killed
  registered,  \* the keys of _processes
  retries, ticks,
  runs,        \* runs begun so far
  signals,     \* that the harness has got
  forgotten,   \* in hand when a signal interrupted the harness
  unawaited,   \* whose kill command was then on its way
  session,     \* the ssh process of a process: running, or what poll() says of it
  attempt,     \* sessions a process has had
  killing,     \* processes whose kill command is on its way
  reachable,   \* instances that accept ssh
  started,     \* instances whose startup script is complete
  scripts,     \* attempts whose script has begun: it waits for that,
  pulling,     \* has killed what ran before, and pulls an image or sleeps,
  container,   \* the attempt whose container runs, or 0
  losses,
  strays       \* processes whose container is nobody's: see Starts, SessionErrs, KillFails

Fresh == scenario.fresh            \* processes whose instance is not yet reachable
Timeout == scenario.timeout        \* of await_processes_concurrent, or NoTimeout
MaxRuns == scenario.max_runs       \* bound: calls of run()
MaxLosses == scenario.max_losses   \* bound: what goes wrong on reachable instances
Slow == scenario.slow              \* bound: where scripts take more than the ten seconds of Retry
MaxSignals == scenario.max_signals \* bound: signals sent to the harness

signalVars == <<signals, forgotten, unawaited>>
harnessVars == <<scenario, pc, todo, in_hand, registered, retries, ticks, runs, signalVars>>
remoteVars == <<reachable, started, scripts, pulling, container, losses, strays>>
sshVars == <<harnessVars, session, attempt, killing, remoteVars>>

HarnessInit ==
  /\ scenario \in Scenarios
  /\ pc = "idle"
  /\ todo = {} /\ in_hand = {} /\ registered = {} /\ forgotten = {}
  /\ signals = 0 /\ unawaited = {}
  /\ retries = 0 /\ ticks = 0 /\ runs = 0
  /\ session = [p \in Process |-> "none"]
  /\ attempt = [p \in Process |-> 0]
  /\ killing = {}
  /\ reachable = Process \ Fresh /\ started = Process \ Fresh
  /\ scripts = [p \in Process |-> {}] /\ pulling = [p \in Process |-> {}]
  /\ container = [p \in Process |-> 0]
  /\ losses = 0 /\ strays = {}
-----------------------------------------------------------------------------
\* poll() of a process that has been sent a signal.
Terminated(ps) ==
  [p \in Process |-> IF p \in ps /\ session[p] = "running" THEN "terminated" ELSE session[p]]

\* Loops go over servers first, as run() lists them.
IsNext(p) == p \in todo /\ (p \in Clients => todo \cap Servers = {})

BeginRun ==
  /\ pc = "idle" /\ runs < MaxRuns
  /\ pc' = "starting"
  /\ todo' = Process
  /\ runs' = runs + 1
  /\ UNCHANGED <<scenario, in_hand, registered, retries, ticks, signalVars, session, attempt,
                 killing, remoteVars>>

\* Retry gives scripts ten seconds, which may be too few.
InTime(p) == pc = "restarting" /\ p \in started \ Slow => scripts[p] \cup pulling[p] = {}

\* start_process, up to the new ssh process ...
Launch(p) ==
  /\ pc \in {"starting", "restarting"}
  /\ IsNext(p) /\ InTime(p) /\ in_hand = {}
  /\ session' = [session EXCEPT ![p] = "running"]
  /\ attempt' = [attempt EXCEPT ![p] = @ + 1]
  /\ in_hand' = {p}
  /\ UNCHANGED <<scenario, pc, todo, registered, retries, ticks, runs, signalVars, killing,
                 remoteVars>>

\* ... and its entry in _processes, a signal handler's chance later.
Register(p) ==
  /\ pc \in {"starting", "restarting"}
  /\ in_hand = {p}
  /\ in_hand' = {}
  /\ registered' = registered \cup {p}
  /\ todo' = todo \ {p}
  /\ IF todo' # {} THEN UNCHANGED <<pc, retries, ticks>>
     ELSE /\ pc' = "polling"
          /\ retries' = IF pc = "starting" THEN 0 ELSE retries
          /\ ticks' = IF pc = "starting" THEN 0 ELSE ticks
  /\ UNCHANGED <<scenario, runs, signalVars, session, attempt, killing, remoteVars>>

\* Mutants, here and for ToStop: only what has failed; only the servers.
RefusedClients == {c \in Clients : session[c] = "refused"}
RegisteredServers == registered \cap Servers

\* all_processes: what is restarted when a connection fails.
AllProcesses == registered

\* Mutants: the servers are waited for, too.
EverybodyFinished == \A p \in Process : session[p] \notin {"running", "refused"}

\* One round of the loop in await_processes_concurrent finds no failed and no
\* running process among the clients, the only ones it looks at.
ClientsFinished == \A c \in Clients : session[c] \notin {"running", "refused"}

SessionRefused == \E c \in Clients : session[c] = "refused"

RetriesLeft == retries < 3

\* A round that retries: terminate everything, sleep, and restart it.
Retry ==
  /\ pc = "polling" /\ SessionRefused /\ RetriesLeft
  /\ retries' = retries + 1
  /\ session' = Terminated(registered)
  /\ todo' = AllProcesses
  /\ pc' = "restarting"
  /\ UNCHANGED <<scenario, in_hand, registered, ticks, runs, signalVars, attempt, killing,
                 remoteVars>>

\* What run() stops when the await returns False.
ToStop == registered

GivesUp == pc' = "stopping" /\ todo' = ToStop

\* A round that finds a failure after the third retry.
Abort ==
  /\ pc = "polling" /\ SessionRefused /\ ~RetriesLeft
  /\ GivesUp
  /\ UNCHANGED <<scenario, in_hand, registered, retries, ticks, runs, signalVars, session,
                 attempt, killing, remoteVars>>

\* A round that finds clients running: sleep, and perhaps time out.
Wait ==
  /\ pc = "polling" /\ ~SessionRefused /\ ~ClientsFinished
  /\ Timeout # NoTimeout
  /\ ticks' = ticks + 1
  /\ IF ticks' > Timeout THEN GivesUp ELSE UNCHANGED <<pc, todo>>
  /\ UNCHANGED <<scenario, in_hand, registered, retries, runs, signalVars, session, attempt,
                 killing, remoteVars>>

\* The await returns True, and clear_processes forgets the clients.
Succeed ==
  /\ pc = "polling" /\ ClientsFinished
  /\ pc' = "stopping"
  /\ registered' = registered \ Clients
  /\ todo' = registered \cap Servers
  /\ UNCHANGED <<scenario, in_hand, retries, ticks, runs, signalVars, session, attempt, killing,
                 remoteVars>>

\* stop_process, up to the removal of its entry ...
Drop(p) ==
  /\ pc \in {"stopping", "exiting"}
  /\ p \in todo /\ in_hand = {}
  /\ session' = Terminated({p} \ forgotten)
  /\ registered' = registered \ {p}
  /\ in_hand' = {p}
  /\ UNCHANGED <<scenario, pc, todo, retries, ticks, runs, signalVars, attempt, killing,
                 remoteVars>>

\* ... and the ssh process that kills the container.
Kill(p) ==
  /\ pc \in {"stopping", "exiting"}
  /\ in_hand = {p}
  /\ in_hand' = {}
  /\ todo' = todo \ {p}
  /\ killing' = killing \cup {p}
  /\ UNCHANGED <<scenario, pc, registered, retries, ticks, runs, signalVars, session, attempt,
                 remoteVars>>

\* stop_processes has waited for those it has started itself; run() returns, or
\* the handler of the signal exits.
Return ==
  /\ pc \in {"stopping", "exiting"}
  /\ todo = {} /\ killing \subseteq unawaited
  /\ pc' = IF pc = "stopping" THEN "idle" ELSE "exited"
  /\ UNCHANGED <<scenario, todo, in_hand, registered, retries, ticks, runs, signalVars, session,
                 attempt, killing, remoteVars>>

\* _cleanup_handler, between any two steps of the main program or of an earlier
\* call of itself.  A signal from the terminal reaches the ssh processes, too.
Interrupt ==
  /\ pc # "exited" /\ pc' = "exiting"
  /\ signals < MaxSignals /\ signals' = signals + 1
  /\ todo' = registered
  /\ forgotten' = forgotten \cup in_hand
  /\ in_hand' = {}
  /\ unawaited' = unawaited \cup killing
  /\ \/ UNCHANGED <<session, killing>>
     \/ session' = Terminated(Process) /\ killing' = {}
  /\ UNCHANGED <<scenario, registered, retries, ticks, runs, attempt, remoteVars>>

HarnessSteps ==
  \/ Retry \/ Wait \/ Abort \/ Succeed \/ Return
  \/ \E p \in Process : Launch(p) \/ Register(p) \/ Drop(p) \/ Kill(p)
-----------------------------------------------------------------------------
BecomesReachable(p) ==
  /\ p \notin reachable
  /\ reachable' = reachable \cup {p}
  /\ UNCHANGED <<harnessVars, session, attempt, killing, started, scripts, pulling, container,
                 losses, strays>>

StartupCompletes(p) ==
  /\ p \in reachable \ started
  /\ started' = started \cup {p}
  /\ UNCHANGED <<harnessVars, session, attempt, killing, reachable, scripts, pulling, container,
                 losses, strays>>

\* What may go wrong at any time.
Fails == losses < MaxLosses /\ losses' = losses + 1

\* ssh exits with 255: there is no instance to talk to, or the session is lost
\* before or after the script has begun.
SessionFails(p) ==
  /\ session[p] = "running"
  /\ p \in reachable => Fails
  /\ p \notin reachable => UNCHANGED losses
  /\ session' = [session EXCEPT ![p] = "refused"]
  /\ UNCHANGED <<harnessVars, attempt, killing, reachable, started, scripts, pulling, container,
                 strays>>

\* The session of the current attempt has got as far as its script.
HasBegun(p) == attempt[p] \in scripts[p] \cup pulling[p] \cup {container[p]}

SessionBegins(p) ==
  /\ session[p] = "running" /\ p \in reachable /\ ~ HasBegun(p)
  /\ scripts' = [scripts EXCEPT ![p] = @ \cup {attempt[p]}]
  /\ UNCHANGED <<harnessVars, session, attempt, killing, reachable, started, pulling, container,
                 losses, strays>>

\* gcloud gives up for a reason of its own; an older container stays.
SessionErrs(p) ==
  /\ session[p] = "running" /\ ~ HasBegun(p)
  /\ Fails
  /\ session' = [session EXCEPT ![p] = "ended"]
  /\ strays' = strays \cup {p}
  /\ UNCHANGED <<harnessVars, attempt, killing, reachable, started, scripts, pulling, container>>

\* A script ends, and with it the session that started it.
SessionsEnd(p, as) ==
  session' = IF attempt[p] \in as /\ session[p] = "running"
             THEN [session EXCEPT ![p] = "ended"] ELSE session

\* docker kill, and the end of the script that runs the container.
Stops(p) ==
  /\ container' = [container EXCEPT ![p] = 0]
  /\ SessionsEnd(p, {container[p]})

\* The script sees that startup is complete and kills what runs.
ScriptCleans(p, a) ==
  /\ p \in started /\ a \in scripts[p]
  /\ scripts' = [scripts EXCEPT ![p] = @ \ {a}]
  /\ pulling' = [pulling EXCEPT ![p] = @ \cup {a}]
  /\ Stops(p)
  /\ UNCHANGED <<harnessVars, attempt, killing, reachable, started, losses, strays>>

\* A command of it fails (set -e).
ScriptFails(p, a) ==
  /\ a \in pulling[p]
  /\ Fails
  /\ pulling' = [pulling EXCEPT ![p] = @ \ {a}]
  /\ SessionsEnd(p, {a})
  /\ UNCHANGED <<harnessVars, attempt, killing, reachable, started, scripts, container, strays>>

\* docker run: the container of an attempt, its session's unless that is over.
Starts(p, a) ==
  /\ container' = [container EXCEPT ![p] = a]
  /\ strays' = IF a = attempt[p] /\ session[p] = "running" THEN strays \ {p} ELSE strays \cup {p}

\* Or, its name being taken, the end of the script, whose EXIT trap kills the
\* other's.
ScriptRuns(p, a) ==
  /\ a \in pulling[p]
  /\ pulling' = [pulling EXCEPT ![p] = @ \ {a}]
  /\ \/ container[p] = 0 /\ Starts(p, a) /\ UNCHANGED session
     \/ /\ container[p] # 0
        /\ container' = [container EXCEPT ![p] = 0]
        /\ SessionsEnd(p, {a, container[p]})
        /\ UNCHANGED strays
  /\ UNCHANGED <<harnessVars, attempt, killing, reachable, started, scripts, losses>>

\* A client finishes; a server does not end by itself, except by crashing.
ContainerEnds(p) ==
  /\ container[p] # 0
  /\ p \in Servers => Fails
  /\ p \in Clients => UNCHANGED losses
  /\ Stops(p)
  /\ UNCHANGED <<harnessVars, attempt, killing, reachable, started, scripts, pulling, strays>>

KillArrives(p) ==
  /\ p \in killing /\ p \in reachable
  /\ killing' = killing \ {p}
  /\ Stops(p)
  /\ UNCHANGED <<harnessVars, attempt, reachable, started, scripts, pulling, losses, strays>>

\* Nobody looks at the outcome of the command.
KillFails(p) ==
  /\ p \in killing
  /\ p \in reachable => Fails
  /\ p \notin reachable => UNCHANGED losses
  /\ killing' = killing \ {p}
  /\ strays' = strays \cup {p}
  /\ UNCHANGED <<harnessVars, session, attempt, reachable, started, scripts, pulling, container>>

ScriptsContinue(p) == \E a \in scripts[p] \cup pulling[p] : ScriptCleans(p, a) \/ ScriptRuns(p, a)

HarnessNext ==
  \/ BeginRun \/ HarnessSteps \/ Interrupt
  \/ \E p \in Process :
       \/ BecomesReachable(p) \/ StartupCompletes(p)
       \/ SessionFails(p) \/ SessionBegins(p) \/ SessionErrs(p)
       \/ ScriptsContinue(p) \/ ContainerEnds(p) \/ KillArrives(p) \/ KillFails(p)
       \/ \E a \in pulling[p] : ScriptFails(p, a)

HarnessSpec == HarnessInit /\ [][HarnessNext]_sshVars

\* The harness runs, instances come up, sessions get through to those that are
\* up, scripts go on, and a client whose servers all run as long as it does
\* finishes.
HarnessFairness ==
  /\ WF_sshVars(HarnessSteps)
  /\ \A p \in Process :
       /\ WF_sshVars(BecomesReachable(p)) /\ WF_sshVars(StartupCompletes(p))
       /\ WF_sshVars(SessionFails(p) /\ p \notin reachable) /\ WF_sshVars(SessionBegins(p))
       /\ WF_sshVars(ScriptsContinue(p)) /\ WF_sshVars(KillArrives(p) \/ KillFails(p))
  /\ \A c \in Clients :
       WF_sshVars(ContainerEnds(c) /\ \A s \in Servers : container[s] = attempt[s])

-----------------------------------------------------------------------------
\* A cluster is started as a whole (gcp_ssh_client.py:98-104): while clients are
\* awaited, no process is of an earlier attempt than another, whose
\* connections it would not know.
AttemptsAgree ==
  pc = "polling" => \A p, q \in Process : attempt[p] = attempt[q]

\* run() "waits for client processes to finish and then kills the remote
\* processes" (omnipaxos_cluster.py:25-26): afterwards, or after a signal,
\* nothing of it runs, and the next run finds no leftovers.  Except for what a
\* signal found in hand or did not wait for, and for containers that are nobody's:
\* started by a script that has outlived its session, or left alone by a session
\* or a kill command that did not get through.
RunsLeaveNothing ==
  pc \in {"idle", "exited"} =>
    /\ registered = {}
    /\ \A p \in Process \ forgotten :
         session[p] # "running" /\ (container[p] = 0 \/ p \in unawaited \cup strays)

\* "Cluster finished successfully" (gcp_ssh_client.py:115) is said of sessions
\* that have come to their end, not of ones the harness has ended itself.
SuccessIsGenuine == [][Succeed => \A c \in Clients : session[c] = "ended"]_sshVars

\* A run comes to an end, retries do not go on for ever; unless a server ends or
\* its session fails, which is not noticed, and there is no timeout either.
RunReturns ==
  pc = "starting" ~>
    \/ pc \in {"idle", "exited"}
    \/ Timeout = NoTimeout /\ \E s \in Servers : session[s] \in {"refused", "ended"}
=============================================================================
