-------------------------- MODULE BenchmarkProofs ---------------------------
(***************************************************************************)
(* Proofs about benchmark runs, for every set of servers and clients and   *)
(* any number of runs, failed instances and lost sessions; and about their *)
(* instances, for every set of names and configurations and any number of  *)
(* scripts that die.                                                       *)
(***************************************************************************)
EXTENDS SshHarness, Provisioning, TLAPS

(***************************************************************************)
(* Runs.                                                                   *)
(***************************************************************************)
HarnessTypeOK ==
  /\ scenario \in Scenarios
  /\ pc \in {"idle", "starting", "polling", "restarting", "stopping", "exiting", "exited"}
  /\ todo \subseteq Process /\ in_hand \subseteq Process /\ registered \subseteq Process
  /\ session \in [Process -> {"none", "running", "refused", "ended", "terminated"}]
  /\ attempt \in [Process -> Nat]
  /\ scripts \in [Process -> SUBSET Nat]
  /\ pulling \in [Process -> SUBSET Nat]
  /\ container \in [Process -> Nat]

\* Where run() is, and what it has in _processes and in its loops then.
BooksInv ==
  /\ pc \in {"idle", "exited"} => registered = {} /\ in_hand = {}
  /\ pc = "starting" => registered = Process \ todo /\ in_hand \subseteq todo
  /\ pc = "restarting" => registered = Process /\ in_hand \subseteq todo
  /\ pc = "polling" => registered = Process /\ in_hand = {}
  /\ pc \in {"stopping", "exiting"} =>
       registered \subseteq todo \ in_hand /\ in_hand \subseteq todo
  /\ pc \notin {"stopping", "exiting", "exited"} => killing = {}
  /\ pc = "exited" => killing \subseteq unawaited
  /\ pc \notin {"exiting", "exited"} => forgotten = {} /\ unawaited = {}

\* No script is of an attempt to come.
ScriptsInv ==
  \A p \in Process :
    /\ \A a \in scripts[p] \cup pulling[p] : a <= attempt[p]
    /\ container[p] <= attempt[p]

\* What has been started in this attempt.
Begun(p) == pc = "polling" \/ (pc \in {"starting", "restarting"} /\ p \notin todo \ in_hand)

\* No container runs but one that is nobody's.
Clean(p) == container[p] = 0 \/ p \in strays

SessionsInv ==
  /\ \A p \in Process : Begun(p) => session[p] \in {"running", "refused", "ended"}
  /\ \A p \in Process : session[p] = "ended" \/ attempt[p] \in pulling[p] => Clean(p)
  /\ pc \in {"stopping", "exiting"} => \A p \in in_hand \ forgotten : session[p] # "running"
  /\ \A p \in Process \ (forgotten \cup registered \cup in_hand) :
       session[p] # "running" /\ (Clean(p) \/ p \in killing \cup unawaited)

Attempts(a) ==
  /\ pc \in {"starting", "restarting"} =>
       \A p \in Process : attempt[p] = IF p \in todo \ in_hand THEN a ELSE a + 1
  /\ pc \in {"idle", "polling", "stopping"} => \A p \in Process : attempt[p] = a
AttemptsInv == \E a \in Nat : Attempts(a)

SafeInv == HarnessTypeOK /\ BooksInv /\ ScriptsInv /\ SessionsInv
HarnessInv == SafeInv /\ AttemptsInv
-----------------------------------------------------------------------------
LEMMA RunsInit == HarnessInit => HarnessInv
<1> SUFFICES ASSUME HarnessInit PROVE HarnessInv
  OBVIOUS
<1>1. HarnessTypeOK
  BY DEF HarnessInit, HarnessTypeOK
<1>2. BooksInv /\ ScriptsInv
  BY DEF HarnessInit, BooksInv, ScriptsInv
<1>3. SessionsInv
  BY DEF HarnessInit, SessionsInv, Clean, Begun
<1>4. Attempts(0)
  BY DEF HarnessInit, Attempts
<1> QED BY <1>1, <1>2, <1>3, <1>4 DEF HarnessInv, SafeInv, AttemptsInv
-----------------------------------------------------------------------------
(* The steps of the harness. *)

LEMMA BeginStep == SafeInv /\ BeginRun => SafeInv'
<1> SUFFICES ASSUME SafeInv, BeginRun PROVE SafeInv'
  OBVIOUS
<1> USE DEF SafeInv
<1>1. HarnessTypeOK'
  BY DEF HarnessTypeOK, BeginRun, remoteVars, signalVars
<1>2. BooksInv'
  BY DEF HarnessTypeOK, BooksInv, BeginRun, remoteVars, signalVars
<1>3. ScriptsInv'
  BY DEF HarnessTypeOK, ScriptsInv, BeginRun, remoteVars, signalVars
<1>4. SessionsInv'
  BY DEF HarnessTypeOK, BooksInv, ScriptsInv, SessionsInv, Clean, Begun, BeginRun, remoteVars, signalVars
<1> QED BY <1>1, <1>2, <1>3, <1>4

LEMMA LaunchStep ==
  ASSUME SafeInv, NEW p \in Process, Launch(p)
  PROVE  SafeInv'
<1> USE DEF SafeInv
<1>1. HarnessTypeOK'
  BY DEF HarnessTypeOK, Launch, IsNext, remoteVars, signalVars
<1>2. BooksInv'
  BY DEF HarnessTypeOK, BooksInv, Launch, IsNext, remoteVars, signalVars
<1>3. ScriptsInv'
  BY DEF HarnessTypeOK, ScriptsInv, Launch, IsNext, remoteVars, signalVars
<1>4. SessionsInv'
  BY DEF HarnessTypeOK, BooksInv, ScriptsInv, SessionsInv, Clean, Begun, Launch, IsNext, remoteVars, signalVars
<1> QED BY <1>1, <1>2, <1>3, <1>4

LEMMA RegisterStep ==
  ASSUME SafeInv, NEW p \in Process, Register(p)
  PROVE  SafeInv'
<1> USE DEF SafeInv
<1>1. HarnessTypeOK'
  BY DEF HarnessTypeOK, Register, remoteVars, signalVars
<1>2. BooksInv'
  BY DEF HarnessTypeOK, BooksInv, Register, remoteVars, signalVars
<1>3. ScriptsInv'
  BY DEF HarnessTypeOK, ScriptsInv, Register, remoteVars, signalVars
<1>4. SessionsInv'
  BY DEF HarnessTypeOK, BooksInv, ScriptsInv, SessionsInv, Clean, Begun, Register, remoteVars, signalVars
<1> QED BY <1>1, <1>2, <1>3, <1>4

LEMMA RetryStep == SafeInv /\ Retry => SafeInv'
<1> SUFFICES ASSUME SafeInv, Retry PROVE SafeInv'
  OBVIOUS
<1> USE DEF SafeInv
<1>1. HarnessTypeOK'
  BY DEF HarnessTypeOK, Retry, Terminated, AllProcesses, remoteVars, signalVars
<1>2. BooksInv'
  BY DEF HarnessTypeOK, BooksInv, Retry, Terminated, AllProcesses, remoteVars, signalVars
<1>3. ScriptsInv'
  BY DEF HarnessTypeOK, ScriptsInv, Retry, Terminated, AllProcesses, remoteVars, signalVars
<1>4. SessionsInv'
  BY DEF HarnessTypeOK, BooksInv, ScriptsInv, SessionsInv, Clean, Begun, Retry, Terminated, AllProcesses, remoteVars, signalVars
<1> QED BY <1>1, <1>2, <1>3, <1>4

LEMMA GiveUpStep == SafeInv /\ (Abort \/ Wait) => SafeInv'
<1> SUFFICES ASSUME SafeInv, Abort \/ Wait PROVE SafeInv'
  OBVIOUS
<1> USE DEF SafeInv
<1>1. HarnessTypeOK'
  BY DEF HarnessTypeOK, Abort, Wait, GivesUp, ToStop, remoteVars, signalVars
<1>2. BooksInv'
  BY DEF HarnessTypeOK, BooksInv, Abort, Wait, GivesUp, ToStop, remoteVars, signalVars
<1>3. ScriptsInv'
  BY DEF HarnessTypeOK, ScriptsInv, Abort, Wait, GivesUp, ToStop, remoteVars, signalVars
<1>4. SessionsInv'
  BY DEF HarnessTypeOK, BooksInv, ScriptsInv, SessionsInv, Clean, Begun, Abort, Wait, GivesUp, ToStop, remoteVars, signalVars
<1> QED BY <1>1, <1>2, <1>3, <1>4

\* Clients that are forgotten after their success have no container but one that
\* is nobody's.
LEMMA SucceedStep == SafeInv /\ Succeed => SafeInv'
<1> SUFFICES ASSUME SafeInv, Succeed PROVE SafeInv'
  OBVIOUS
<1> USE DEF SafeInv
<1>1. HarnessTypeOK'
  BY DEF HarnessTypeOK, Succeed, remoteVars, signalVars
<1>2. BooksInv'
  BY DEF HarnessTypeOK, BooksInv, Succeed, Process, remoteVars, signalVars
<1>3. ScriptsInv'
  BY DEF ScriptsInv, Succeed, remoteVars, signalVars
<1>4. \A c \in Clients : session[c] = "ended"
  BY DEF SessionsInv, Begun, Succeed, ClientsFinished, Process
<1>5. SessionsInv'
  BY <1>4 DEF HarnessTypeOK, BooksInv, SessionsInv, Clean, Begun, Succeed, Process, remoteVars,
              signalVars
<1> QED BY <1>1, <1>2, <1>3, <1>5

LEMMA DropStep ==
  ASSUME SafeInv, NEW p \in Process, Drop(p)
  PROVE  SafeInv'
<1> USE DEF SafeInv
<1>1. HarnessTypeOK'
  BY DEF HarnessTypeOK, Drop, Terminated, remoteVars, signalVars
<1>2. BooksInv'
  BY DEF HarnessTypeOK, BooksInv, Drop, Terminated, remoteVars, signalVars
<1>3. ScriptsInv'
  BY DEF HarnessTypeOK, ScriptsInv, Drop, Terminated, remoteVars, signalVars
<1>4. SessionsInv'
  BY DEF HarnessTypeOK, BooksInv, ScriptsInv, SessionsInv, Clean, Begun, Drop, Terminated, remoteVars, signalVars
<1> QED BY <1>1, <1>2, <1>3, <1>4

LEMMA KillStep ==
  ASSUME SafeInv, NEW p \in Process, Kill(p)
  PROVE  SafeInv'
<1> USE DEF SafeInv
<1>1. HarnessTypeOK'
  BY DEF HarnessTypeOK, Kill, remoteVars, signalVars
<1>2. BooksInv'
  BY DEF HarnessTypeOK, BooksInv, Kill, remoteVars, signalVars
<1>3. ScriptsInv'
  BY DEF HarnessTypeOK, ScriptsInv, Kill, remoteVars, signalVars
<1>4. SessionsInv'
  BY DEF HarnessTypeOK, BooksInv, ScriptsInv, SessionsInv, Clean, Begun, Kill, remoteVars, signalVars
<1> QED BY <1>1, <1>2, <1>3, <1>4

LEMMA ReturnStep == SafeInv /\ Return => SafeInv'
<1> SUFFICES ASSUME SafeInv, Return PROVE SafeInv'
  OBVIOUS
<1> USE DEF SafeInv
<1>1. HarnessTypeOK'
  BY DEF HarnessTypeOK, Return, remoteVars, signalVars
<1>2. BooksInv'
  BY DEF HarnessTypeOK, BooksInv, Return, remoteVars, signalVars
<1>3. ScriptsInv'
  BY DEF HarnessTypeOK, ScriptsInv, Return, remoteVars, signalVars
<1>4. SessionsInv'
  BY DEF HarnessTypeOK, BooksInv, ScriptsInv, SessionsInv, Clean, Begun, Return, remoteVars, signalVars
<1> QED BY <1>1, <1>2, <1>3, <1>4

LEMMA InterruptStep == SafeInv /\ Interrupt => SafeInv'
<1> SUFFICES ASSUME SafeInv, Interrupt PROVE SafeInv'
  OBVIOUS
<1> USE DEF SafeInv
<1>1. HarnessTypeOK'
  BY DEF HarnessTypeOK, Interrupt, Terminated, remoteVars
<1>2. BooksInv'
  BY DEF HarnessTypeOK, BooksInv, Interrupt, Terminated, remoteVars
<1>3. ScriptsInv'
  BY DEF HarnessTypeOK, ScriptsInv, Interrupt, Terminated, remoteVars
<1>4. SessionsInv'
  BY DEF HarnessTypeOK, BooksInv, ScriptsInv, SessionsInv, Clean, Begun, Interrupt, Terminated, remoteVars
<1> QED BY <1>1, <1>2, <1>3, <1>4

-----------------------------------------------------------------------------
(* The steps of instances, sessions, scripts and containers. *)

LEMMA InstanceStep ==
  ASSUME SafeInv, NEW p \in Process, BecomesReachable(p) \/ StartupCompletes(p)
  PROVE  SafeInv'
<1> USE DEF SafeInv
<1>1. HarnessTypeOK'
  BY DEF HarnessTypeOK, BecomesReachable, StartupCompletes, harnessVars, signalVars
<1>2. BooksInv'
  BY DEF HarnessTypeOK, BooksInv, BecomesReachable, StartupCompletes, harnessVars, signalVars
<1>3. ScriptsInv'
  BY DEF HarnessTypeOK, ScriptsInv, BecomesReachable, StartupCompletes, harnessVars, signalVars
<1>4. SessionsInv'
  BY DEF HarnessTypeOK, BooksInv, ScriptsInv, SessionsInv, Clean, Begun, BecomesReachable, StartupCompletes, harnessVars, signalVars
<1> QED BY <1>1, <1>2, <1>3, <1>4

LEMMA SessionFailsStep ==
  ASSUME SafeInv, NEW p \in Process, SessionFails(p)
  PROVE  SafeInv'
<1> USE DEF SafeInv
<1>1. HarnessTypeOK'
  BY DEF HarnessTypeOK, SessionFails, harnessVars, signalVars
<1>2. BooksInv'
  BY DEF HarnessTypeOK, BooksInv, SessionFails, harnessVars, signalVars
<1>3. ScriptsInv'
  BY DEF HarnessTypeOK, ScriptsInv, SessionFails, harnessVars, signalVars
<1>4. SessionsInv'
  BY DEF HarnessTypeOK, BooksInv, ScriptsInv, SessionsInv, Clean, Begun, SessionFails, harnessVars, signalVars
<1> QED BY <1>1, <1>2, <1>3, <1>4

LEMMA SessionBeginsStep ==
  ASSUME SafeInv, NEW p \in Process, SessionBegins(p)
  PROVE  SafeInv'
<1> USE DEF SafeInv
<1>1. HarnessTypeOK'
  BY DEF HarnessTypeOK, SessionBegins, harnessVars, signalVars
<1>2. BooksInv'
  BY DEF HarnessTypeOK, BooksInv, SessionBegins, harnessVars, signalVars
<1>3. ScriptsInv'
  BY DEF HarnessTypeOK, ScriptsInv, SessionBegins, harnessVars, signalVars
<1>4. SessionsInv'
  BY DEF HarnessTypeOK, BooksInv, ScriptsInv, SessionsInv, Clean, Begun, SessionBegins, harnessVars, signalVars
<1> QED BY <1>1, <1>2, <1>3, <1>4

\* What a session leaves alone is nobody's.
LEMMA SessionErrsStep ==
  ASSUME SafeInv, NEW p \in Process, SessionErrs(p)
  PROVE  SafeInv'
<1> USE DEF SafeInv
<1>1. HarnessTypeOK'
  BY DEF HarnessTypeOK, SessionErrs, HasBegun, harnessVars, signalVars
<1>2. BooksInv'
  BY DEF HarnessTypeOK, BooksInv, SessionErrs, HasBegun, harnessVars, signalVars
<1>3. ScriptsInv'
  BY DEF HarnessTypeOK, ScriptsInv, SessionErrs, HasBegun, harnessVars, signalVars
<1>4. SessionsInv'
  BY DEF HarnessTypeOK, BooksInv, ScriptsInv, SessionsInv, Clean, Begun, SessionErrs, HasBegun, harnessVars, signalVars
<1> QED BY <1>1, <1>2, <1>3, <1>4

LEMMA ScriptCleansStep ==
  ASSUME SafeInv, NEW p \in Process, NEW a \in Nat, ScriptCleans(p, a)
  PROVE  SafeInv'
<1> USE DEF SafeInv
<1>1. HarnessTypeOK'
  BY DEF HarnessTypeOK, ScriptCleans, Stops, SessionsEnd, harnessVars, signalVars
<1>2. BooksInv'
  BY DEF HarnessTypeOK, BooksInv, ScriptCleans, Stops, SessionsEnd, harnessVars, signalVars
<1>3. ScriptsInv'
  BY DEF HarnessTypeOK, ScriptsInv, ScriptCleans, Stops, SessionsEnd, harnessVars, signalVars
<1>4. SessionsInv'
  BY DEF HarnessTypeOK, BooksInv, ScriptsInv, SessionsInv, Clean, Begun, ScriptCleans, Stops, SessionsEnd, harnessVars, signalVars
<1> QED BY <1>1, <1>2, <1>3, <1>4

LEMMA ScriptFailsStep ==
  ASSUME SafeInv, NEW p \in Process, NEW a \in Nat, ScriptFails(p, a)
  PROVE  SafeInv'
<1> USE DEF SafeInv
<1>1. HarnessTypeOK'
  BY DEF HarnessTypeOK, ScriptFails, SessionsEnd, harnessVars, signalVars
<1>2. BooksInv'
  BY DEF HarnessTypeOK, BooksInv, ScriptFails, SessionsEnd, harnessVars, signalVars
<1>3. ScriptsInv'
  BY DEF HarnessTypeOK, ScriptsInv, ScriptFails, SessionsEnd, harnessVars, signalVars
<1>4. SessionsInv'
  BY DEF HarnessTypeOK, BooksInv, ScriptsInv, SessionsInv, Clean, Begun, ScriptFails, SessionsEnd, harnessVars, signalVars
<1> QED BY <1>1, <1>2, <1>3, <1>4

\* Only a running session has its script's container, and is still known then.
LEMMA ScriptRunsStep ==
  ASSUME SafeInv, NEW p \in Process, NEW a \in Nat, ScriptRuns(p, a)
  PROVE  SafeInv'
<1> USE DEF SafeInv
<1>1. UNCHANGED <<harnessVars, attempt, killing, scripts>>
  BY DEF ScriptRuns
<1>2. a \in pulling[p] /\ pulling' = [pulling EXCEPT ![p] = @ \ {a}]
  BY DEF ScriptRuns
<1>3. CASE container[p] = 0 /\ Starts(p, a) /\ UNCHANGED session
  <2>1. HarnessTypeOK'
    BY <1>1, <1>2, <1>3 DEF HarnessTypeOK, Starts, harnessVars
  <2>2. BooksInv'
    BY <1>1 DEF BooksInv, harnessVars, signalVars
  <2>3. ScriptsInv'
    BY <1>1, <1>2, <1>3 DEF HarnessTypeOK, ScriptsInv, Starts
  <2>4. SessionsInv'
    BY <1>1, <1>2, <1>3
       DEF HarnessTypeOK, SessionsInv, Clean, Begun, Starts, harnessVars, signalVars
  <2> QED BY <2>1, <2>2, <2>3, <2>4
<1>4. CASE /\ container' = [container EXCEPT ![p] = 0]
           /\ SessionsEnd(p, {a, container[p]})
           /\ UNCHANGED strays
  <2>1. HarnessTypeOK'
    BY <1>1, <1>2, <1>4 DEF HarnessTypeOK, SessionsEnd, harnessVars
  <2>2. BooksInv'
    BY <1>1 DEF BooksInv, harnessVars, signalVars
  <2>3. ScriptsInv'
    BY <1>1, <1>2, <1>4 DEF HarnessTypeOK, ScriptsInv
  <2>4. SessionsInv'
    BY <1>1, <1>2, <1>4
       DEF HarnessTypeOK, SessionsInv, Clean, Begun, SessionsEnd, harnessVars, signalVars
  <2> QED BY <2>1, <2>2, <2>3, <2>4
<1> QED BY <1>3, <1>4 DEF ScriptRuns

LEMMA ContainerEndsStep ==
  ASSUME SafeInv, NEW p \in Process, ContainerEnds(p)
  PROVE  SafeInv'
<1> USE DEF SafeInv
<1>1. HarnessTypeOK'
  BY DEF HarnessTypeOK, ContainerEnds, Stops, SessionsEnd, harnessVars, signalVars
<1>2. BooksInv'
  BY DEF HarnessTypeOK, BooksInv, ContainerEnds, Stops, SessionsEnd, harnessVars, signalVars
<1>3. ScriptsInv'
  BY DEF HarnessTypeOK, ScriptsInv, ContainerEnds, Stops, SessionsEnd, harnessVars, signalVars
<1>4. SessionsInv'
  BY DEF HarnessTypeOK, BooksInv, ScriptsInv, SessionsInv, Clean, Begun, ContainerEnds, Stops, SessionsEnd, harnessVars, signalVars
<1> QED BY <1>1, <1>2, <1>3, <1>4

LEMMA KillArrivesStep ==
  ASSUME SafeInv, NEW p \in Process, KillArrives(p) \/ KillFails(p)
  PROVE  SafeInv'
<1> USE DEF SafeInv
<1>1. HarnessTypeOK'
  BY DEF HarnessTypeOK, KillArrives, KillFails, Stops, SessionsEnd, harnessVars, signalVars
<1>2. BooksInv'
  BY DEF HarnessTypeOK, BooksInv, KillArrives, KillFails, Stops, SessionsEnd, harnessVars, signalVars
<1>3. ScriptsInv'
  BY DEF HarnessTypeOK, ScriptsInv, KillArrives, KillFails, Stops, SessionsEnd, harnessVars, signalVars
<1>4. SessionsInv'
  BY DEF HarnessTypeOK, BooksInv, ScriptsInv, SessionsInv, Clean, Begun, KillArrives, KillFails, Stops, SessionsEnd, harnessVars, signalVars
<1> QED BY <1>1, <1>2, <1>3, <1>4

LEMMA ScriptsStep ==
  ASSUME SafeInv, NEW p \in Process,
         ScriptsContinue(p) \/ \E a \in pulling[p] : ScriptFails(p, a)
  PROVE  SafeInv'
<1>1. scripts[p] \subseteq Nat /\ pulling[p] \subseteq Nat
  BY DEF SafeInv, HarnessTypeOK
<1> QED BY <1>1, ScriptCleansStep, ScriptRunsStep, ScriptFailsStep DEF ScriptsContinue

LEMMA SafeStep == SafeInv /\ [HarnessNext]_sshVars => SafeInv'
<1> SUFFICES ASSUME SafeInv, [HarnessNext]_sshVars PROVE SafeInv'
  OBVIOUS
<1>1. CASE UNCHANGED sshVars
  BY <1>1 DEF SafeInv, HarnessTypeOK, BooksInv, ScriptsInv, SessionsInv, Clean, Begun,
              sshVars, harnessVars, signalVars, remoteVars
<1> QED BY <1>1, BeginStep, LaunchStep, RegisterStep, RetryStep, GiveUpStep, SucceedStep,
           DropStep, KillStep, ReturnStep, InterruptStep, InstanceStep, SessionFailsStep,
           SessionBeginsStep, SessionErrsStep, ScriptsStep, ContainerEndsStep, KillArrivesStep
        DEF HarnessNext, HarnessSteps
-----------------------------------------------------------------------------
(* Attempts: a restart is a restart of everything. *)

LEMMA AttemptsStep ==
  ASSUME HarnessTypeOK, BooksInv, NEW a \in Nat, Attempts(a), [HarnessNext]_sshVars
  PROVE  AttemptsInv'
<1>1. CASE UNCHANGED <<pc, todo, in_hand, attempt>>
  BY <1>1 DEF AttemptsInv, Attempts
<1>2. CASE BeginRun \/ Retry
  <2>1. Attempts(a)'
    BY <1>2 DEF BooksInv, Attempts, BeginRun, Retry, AllProcesses
  <2> QED BY <2>1 DEF AttemptsInv
<1>3. ASSUME NEW p \in Process, Launch(p) PROVE AttemptsInv'
  <2>1. Attempts(a)'
    BY <1>3 DEF HarnessTypeOK, Attempts, Launch, IsNext
  <2> QED BY <2>1 DEF AttemptsInv
<1>4. ASSUME NEW p \in Process, Register(p) PROVE AttemptsInv'
  <2>1. CASE todo' # {}
    <3>1. Attempts(a)'
      BY <1>4, <2>1 DEF HarnessTypeOK, BooksInv, Attempts, Register
    <3> QED BY <3>1 DEF AttemptsInv
  <2>2. CASE todo' = {}
    <3>1. Attempts(a + 1)'
      BY <1>4, <2>2 DEF HarnessTypeOK, BooksInv, Attempts, Register
    <3> QED BY <3>1 DEF AttemptsInv
  <2> QED BY <2>1, <2>2
<1>5. CASE Abort \/ Wait \/ Succeed \/ Return \/ Interrupt
  <2>1. Attempts(a)'
    BY <1>5 DEF Attempts, Abort, Wait, Succeed, Return, Interrupt, GivesUp
  <2> QED BY <2>1 DEF AttemptsInv
<1>6. ASSUME NEW p \in Process, Drop(p) \/ Kill(p) PROVE AttemptsInv'
  <2>1. Attempts(a)'
    BY <1>6 DEF Attempts, Drop, Kill
  <2> QED BY <2>1 DEF AttemptsInv
<1> QED BY <1>1, <1>2, <1>3, <1>4, <1>5, <1>6
        DEF HarnessNext, HarnessSteps, sshVars, harnessVars, BecomesReachable, StartupCompletes,
            SessionFails, SessionBegins, SessionErrs, ScriptsContinue, ScriptCleans, ScriptRuns,
            ScriptFails, ContainerEnds, KillArrives, KillFails

LEMMA RunsStep == HarnessInv /\ [HarnessNext]_sshVars => HarnessInv'
BY SafeStep, AttemptsStep DEF HarnessInv, SafeInv, AttemptsInv
-----------------------------------------------------------------------------
\* While clients are awaited all processes are of one attempt
\* (restart_processes in await_processes_concurrent, gcp_ssh_client.py).
THEOREM AttemptsAlwaysAgree == HarnessSpec => []AttemptsAgree
<1>1. HarnessInv => AttemptsAgree
  BY DEF HarnessInv, AttemptsInv, Attempts, AttemptsAgree
<1> QED BY <1>1, RunsInit, RunsStep, PTL DEF HarnessSpec

\* Between runs and after a signal nothing runs on the instances but what the
\* signal found in hand or did not wait for (_cleanup_handler, gcp_ssh_client.py),
\* and containers that are nobody's (run_server.sh, run_client.sh).
THEOREM NothingLeft == HarnessSpec => []RunsLeaveNothing
<1>1. HarnessInv => RunsLeaveNothing
  <2> SUFFICES ASSUME HarnessInv, pc \in {"idle", "exited"}, NEW p \in Process \ forgotten
               PROVE  /\ registered = {} /\ session[p] # "running"
                      /\ container[p] = 0 \/ p \in unawaited \cup strays
    BY DEF RunsLeaveNothing, HarnessInv, SafeInv, BooksInv
  <2>1. registered = {} /\ in_hand = {} /\ killing \subseteq unawaited
    BY DEF HarnessInv, SafeInv, BooksInv
  <2> QED BY <2>1 DEF HarnessInv, SafeInv, SessionsInv, Clean
<1> QED BY <1>1, RunsInit, RunsStep, PTL DEF HarnessSpec

\* A run that is called a success has sessions of clients that have come to
\* their end (the else branch of await_processes_concurrent).
THEOREM SuccessesAreGenuine == HarnessSpec => SuccessIsGenuine
<1>1. HarnessInv /\ [HarnessNext]_sshVars
        => [Succeed => \A c \in Clients : session[c] = "ended"]_sshVars
  BY DEF HarnessInv, SafeInv, SessionsInv, Begun, Succeed, ClientsFinished, Process
<1> QED BY <1>1, RunsInit, RunsStep, PTL DEF HarnessSpec, SuccessIsGenuine
-----------------------------------------------------------------------------
(***************************************************************************)
(* Instances.                                                              *)
(***************************************************************************)
MachineType == {"none"} \cup UNION {{configs[n] : n \in DOMAIN configs} : configs \in Configs}

ProvisioningTypeOK ==
  /\ status \in [Name -> {"absent", "creating", "running", "deleting"}]
  /\ type \in [Name -> MachineType]
  /\ address \in [Name -> Address \cup {NoAddress}]
  /\ records \in [Server -> Address \cup {NoAddress}]
  /\ step \in {"idle", "delete", "create", "records", "ready", "shutdown"}
  /\ config \in Configs

\* What is right already, what has still to be deleted and created, and what is
\* known of that which has been asked for.
SetupInv ==
  /\ step = "delete" =>
       /\ \A n \in to_delete : n \in DOMAIN config /\ type[n] # config[n]
       /\ to_delete \cup awaited \subseteq to_create
  /\ step \in {"delete", "create"} =>
       /\ to_create \subseteq DOMAIN config
       /\ \A n \in DOMAIN config \ to_create :
            type[n] = config[n] /\ (n \in Running \/ n \in adopted)
  /\ step = "create" =>
       awaited \subseteq to_create /\ \A n \in awaited : type[n] = config[n]
  /\ step \in {"records", "ready"} =>
       \A n \in DOMAIN config :
         type[n] = config[n] /\ (n \in instances \cap Running \/ n \in adopted)
  /\ step = "records" =>
       to_create \subseteq DOMAIN config \cap Server /\ to_create \subseteq Running
  /\ step = "ready" => to_create = {}

\* Servers a script is about to name.
Unnamed ==
  CASE step = "create"  -> awaited
    [] step = "records" -> to_create
    [] OTHER            -> {}

NamesInv ==
  \A n \in Server \ (orphans \cup Unnamed) :
    /\ status[n] # "creating"
    /\ status[n] = "running" => records[n] = address[n]

ProvisioningInv == ProvisioningTypeOK /\ SetupInv /\ NamesInv
-----------------------------------------------------------------------------
LEMMA InstancesInit == ProvisioningInit => ProvisioningInv
BY NamesAssumption DEF ProvisioningInit, ProvisioningInv, ProvisioningTypeOK, SetupInv, NamesInv,
   MachineType

\* A script compares; it keeps what runs as configured.
LEMMA StartStep == ProvisioningInv /\ Start => ProvisioningInv'
<1> SUFFICES ASSUME ProvisioningInv, Start PROVE ProvisioningInv'
  OBVIOUS
<1> USE DEF ProvisioningInv
<1>1. ProvisioningTypeOK'
  BY DEF ProvisioningTypeOK, Start, cloudVars
<1>2. PICK configs \in Configs, listed \in Listings :
        LET fits == {n \in DOMAIN configs \cap listed : Matches(n, configs)} IN
        /\ config' = configs
        /\ to_delete' = (DOMAIN configs \cap listed) \ fits
        /\ to_create' = DOMAIN configs \ fits
        /\ adopted' = fits \ Running
  BY DEF Start
<1>3. /\ step' = "delete" /\ awaited' = {} /\ status' = status /\ type' = type
      /\ address' = address /\ records' = records /\ orphans' = orphans
  BY DEF Start, cloudVars
<1>4. SetupInv'
  BY <1>2, <1>3 DEF SetupInv, Running, Matches
<1>5. Unnamed = {} /\ Unnamed' = {}
  BY <1>3 DEF Start, Unnamed
<1>6. NamesInv'
  BY <1>3, <1>5 DEF NamesInv
<1> QED BY <1>1, <1>4, <1>6

LEMMA RequestDeleteStep ==
  ASSUME ProvisioningInv, NEW n \in Name, RequestDelete(n)
  PROVE  ProvisioningInv'
<1> USE DEF ProvisioningInv
<1>1. ProvisioningTypeOK'
  BY DEF ProvisioningTypeOK, RequestDelete
<1>2. SetupInv'
  BY DEF ProvisioningTypeOK, SetupInv, RequestDelete, Running, historyVars
<1>3. Unnamed = {} /\ Unnamed' = {}
  BY DEF RequestDelete, Unnamed
<1>4. NamesInv'
  BY <1>3, NamesAssumption DEF ProvisioningTypeOK, NamesInv, RequestDelete, historyVars
<1> QED BY <1>1, <1>2, <1>4

LEMMA DeletesDoneStep == ProvisioningInv /\ DeletesDone => ProvisioningInv'
<1> SUFFICES ASSUME ProvisioningInv, DeletesDone PROVE ProvisioningInv'
  OBVIOUS
<1> USE DEF ProvisioningInv
<1>1. ProvisioningTypeOK'
  BY DEF ProvisioningTypeOK, DeletesDone, cloudVars
<1>2. SetupInv'
  BY DEF SetupInv, DeletesDone, Running, cloudVars, historyVars
<1>3. Unnamed = {} /\ Unnamed' = {}
  BY DEF DeletesDone, Unnamed
<1>4. NamesInv'
  BY <1>3 DEF NamesInv, DeletesDone, cloudVars, historyVars
<1> QED BY <1>1, <1>2, <1>4

LEMMA RequestCreateStep ==
  ASSUME ProvisioningInv, NEW n \in Name, RequestCreate(n)
  PROVE  ProvisioningInv'
<1> USE DEF ProvisioningInv
<1>1. n \in DOMAIN config /\ config \in Configs
  BY DEF ProvisioningTypeOK, SetupInv, RequestCreate
<1>2. config[n] \in MachineType
  BY <1>1 DEF MachineType
<1>3. ProvisioningTypeOK'
  BY <1>2 DEF ProvisioningTypeOK, RequestCreate
<1>4. SetupInv'
  BY <1>1, ConfigsAssumption DEF ProvisioningTypeOK, SetupInv, RequestCreate, Running, historyVars
<1>5. Unnamed = awaited /\ Unnamed' = awaited \cup {n}
  BY DEF RequestCreate, Unnamed
<1>6. NamesInv'
  BY <1>5, NamesAssumption DEF ProvisioningTypeOK, NamesInv, RequestCreate, historyVars
<1> QED BY <1>3, <1>4, <1>6

\* Whatever was asked for runs now, as it was asked for.
LEMMA CreatesDoneStep == ProvisioningInv /\ CreatesDone => ProvisioningInv'
<1> SUFFICES ASSUME ProvisioningInv, CreatesDone PROVE ProvisioningInv'
  OBVIOUS
<1> USE DEF ProvisioningInv
<1>1. ProvisioningTypeOK'
  BY DEF ProvisioningTypeOK, CreatesDone, cloudVars
<1>2. SetupInv'
  BY DEF SetupInv, CreatesDone, Running, Listings, cloudVars, historyVars
<1>3. Unnamed = awaited /\ Unnamed' = awaited \cap Server
  BY DEF CreatesDone, Unnamed
<1>4. NamesInv'
  BY <1>3 DEF NamesInv, CreatesDone, cloudVars, historyVars
<1> QED BY <1>1, <1>2, <1>4

LEMMA AddRecordStep ==
  ASSUME ProvisioningInv, NEW n \in Name, AddRecord(n)
  PROVE  ProvisioningInv'
<1> USE DEF ProvisioningInv
<1>1. n \in Server /\ n \in Name /\ status[n] = "running"
  BY DEF SetupInv, AddRecord, Running
<1>2. ProvisioningTypeOK'
  BY <1>1 DEF ProvisioningTypeOK, AddRecord, RecordOf, cloudVars
<1>3. SetupInv'
  BY DEF SetupInv, AddRecord, Running, cloudVars
<1>4. Unnamed = to_create /\ Unnamed' = to_create \ {n}
  BY DEF AddRecord, Unnamed
<1>5. NamesInv'
  BY <1>1, <1>4 DEF ProvisioningTypeOK, NamesInv, AddRecord, RecordOf, cloudVars
<1> QED BY <1>2, <1>3, <1>5

LEMMA EndStep == ProvisioningInv /\ (Ready \/ Shutdown \/ LeaveRunning) => ProvisioningInv'
<1> SUFFICES ASSUME ProvisioningInv, Ready \/ Shutdown \/ LeaveRunning PROVE ProvisioningInv'
  OBVIOUS
<1> USE DEF ProvisioningInv
<1>1. ProvisioningTypeOK'
  BY DEF ProvisioningTypeOK, Ready, Shutdown, LeaveRunning, cloudVars, scriptVars, historyVars
<1>2. SetupInv'
  BY DEF SetupInv, Ready, Shutdown, LeaveRunning, Running, cloudVars, scriptVars, historyVars
<1>3. Unnamed = {} /\ Unnamed' = {}
  BY DEF SetupInv, Ready, Shutdown, LeaveRunning, Unnamed
<1>4. NamesInv'
  BY <1>3 DEF NamesInv, Ready, Shutdown, LeaveRunning, cloudVars, historyVars
<1> QED BY <1>1, <1>2, <1>4

\* Whatever a script that dies was about to name is an orphan.
LEMMA DiesStep == ProvisioningInv /\ Dies => ProvisioningInv'
<1> SUFFICES ASSUME ProvisioningInv, Dies PROVE ProvisioningInv'
  OBVIOUS
<1> USE DEF ProvisioningInv
<1>1. ProvisioningTypeOK'
  BY DEF ProvisioningTypeOK, Dies, cloudVars, scriptVars, historyVars
<1>2. SetupInv'
  BY DEF SetupInv, Dies
<1>3. Unnamed' = {}
  BY DEF Dies, Unnamed
<1>4. Server \cap (orphans \cup Unnamed) \subseteq orphans'
  BY DEF Dies, Unnamed
<1>5. NamesInv'
  BY <1>3, <1>4 DEF NamesInv, Dies, cloudVars
<1> QED BY <1>1, <1>2, <1>5

LEMMA CloudStep ==
  ASSUME ProvisioningInv, NEW n \in Name, OperationCompletes(n) \/ CreationFails(n)
  PROVE  ProvisioningInv'
<1> USE DEF ProvisioningInv
<1>1. /\ UNCHANGED <<type, records, step, scriptVars, orphans, adopted>>
      /\ \/ status[n] = "creating" /\ status' = [status EXCEPT ![n] = "running"]
         \/ status[n] = "creating" /\ status' = [status EXCEPT ![n] = "absent"]
         \/ status[n] = "deleting" /\ status' = [status EXCEPT ![n] = "absent"]
      /\ address' = address \/ \E a \in Address \cup {NoAddress} : address' = [address EXCEPT ![n] = a]
  BY DEF OperationCompletes, CreationFails, historyVars
<1>2. ProvisioningTypeOK'
  BY <1>1 DEF ProvisioningTypeOK, scriptVars
<1>3. SetupInv'
  BY <1>1 DEF ProvisioningTypeOK, SetupInv, Running, scriptVars
<1>4. Unnamed' = Unnamed
  BY <1>1 DEF Unnamed, scriptVars
<1>5. NamesInv'
  BY <1>1, <1>4, NamesAssumption DEF ProvisioningTypeOK, NamesInv
<1> QED BY <1>2, <1>3, <1>5

LEMMA InstancesStep == ProvisioningInv /\ [ProvisioningNext]_provisioningVars => ProvisioningInv'
<1> SUFFICES ASSUME ProvisioningInv, [ProvisioningNext]_provisioningVars PROVE ProvisioningInv'
  OBVIOUS
<1>1. CASE UNCHANGED provisioningVars
  BY <1>1 DEF ProvisioningInv, ProvisioningTypeOK, SetupInv, NamesInv, Unnamed, Running,
              provisioningVars, cloudVars, scriptVars, historyVars
<1>2. CASE Raise \/ Interrupted
  BY <1>2, DiesStep DEF Raise, Interrupted
<1> QED BY <1>1, <1>2, StartStep, RequestDeleteStep, DeletesDoneStep, RequestCreateStep,
           CreatesDoneStep, AddRecordStep, EndStep, CloudStep
        DEF ProvisioningNext, ScriptSteps
-----------------------------------------------------------------------------
\* When GcpCluster's constructor returns its instances run as configured and are
\* named, whatever earlier scripts left, except for servers whose script died and
\* for those taken for running that were not (_get_running_instances).
THEOREM ReadyClusters == ProvisioningSpec => []ReadyAsConfigured
<1>1. ProvisioningInv => ReadyAsConfigured
  <2> SUFFICES ASSUME ProvisioningInv, step = "ready", NEW n \in DOMAIN config
               PROVE  /\ type[n] = config[n]
                      /\ n \notin adopted => n \in instances \cap Running
                      /\ n \in Server \ (orphans \cup adopted) => records[n] = address[n]
    BY DEF ReadyAsConfigured
  <2>1. type[n] = config[n] /\ (n \in instances \cap Running \/ n \in adopted)
    BY DEF ProvisioningInv, SetupInv
  <2>2. Unnamed = {}
    BY DEF Unnamed
  <2>3. n \in Server \ (orphans \cup adopted) => records[n] = address[n]
    BY <2>1, <2>2 DEF ProvisioningInv, NamesInv, Running
  <2> QED BY <2>1, <2>3
<1> QED BY <1>1, InstancesInit, InstancesStep, PTL DEF ProvisioningSpec

\* Setting up a cluster takes no instance away that is as configured, nor any
\* that the configuration does not name.
THEOREM InstancesKept == ProvisioningSpec => KeepsWhatFits
<1> DEFINE Kept == \A n \in Running :
                     step \in {"idle", "delete", "create", "records"} =>
                       \/ status'[n] = "running"
                       \/ n \in DOMAIN config /\ type[n] # config[n]
<1>1. ProvisioningInv /\ [ProvisioningNext]_provisioningVars => [Kept]_provisioningVars
  <2> SUFFICES ASSUME ProvisioningInv, ProvisioningNext, NEW n \in Running,
                      step \in {"idle", "delete", "create", "records"},
                      ~ (n \in DOMAIN config /\ type[n] # config[n])
               PROVE  status'[n] = "running"
    OBVIOUS
  <2>1. n \in Name /\ status[n] = "running" /\ DOMAIN status = Name
    BY DEF Running, ProvisioningInv, ProvisioningTypeOK
  <2>2. CASE status' = status
    BY <2>1, <2>2
  <2>3. ASSUME NEW m \in Name, RequestDelete(m) PROVE status'[n] = "running"
    <3>1. m # n
      BY <2>3 DEF RequestDelete, ProvisioningInv, SetupInv
    <3> QED BY <2>1, <2>3, <3>1 DEF RequestDelete
  <2>4. ASSUME NEW m \in Name, RequestCreate(m) \/ OperationCompletes(m) \/ CreationFails(m)
        PROVE  status'[n] = "running"
    BY <2>1, <2>4 DEF RequestCreate, OperationCompletes, CreationFails
  <2> QED BY <2>2, <2>3, <2>4
          DEF ProvisioningNext, ScriptSteps, Start, DeletesDone, CreatesDone, AddRecord, Ready,
              Raise, Dies, Shutdown, LeaveRunning, Interrupted, cloudVars
<1> QED BY <1>1, InstancesInit, InstancesStep, PTL DEF ProvisioningSpec, KeepsWhatFits
=============================================================================
