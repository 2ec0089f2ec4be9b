---------------------------- MODULE MCBenchmarks ----------------------------
(***************************************************************************)
(* Instances of the benchmark scripts for TLC, side by side: the           *)
(* provisioning of instances and the processes run on them share no        *)
(* variable, and a behaviour moves one of them.                            *)
(***************************************************************************)
EXTENDS SshHarness, Provisioning, TLC

CONSTANTS s1, c1, c2, srv1, cli

VARIABLE part   \* the one that moves

benchmarkVars == <<part, sshVars, provisioningVars>>

Scenario(fresh, slow, timeout, runs_, losses_, signals_) ==
  [fresh |-> fresh, slow |-> slow, timeout |-> timeout, max_runs |-> runs_,
   max_losses |-> losses_, max_signals |-> signals_]

\* A second run after the first, with a failure; one with scripts that outlive
\* their sessions; a signal; a client's instance that is not up, perhaps until the
\* run is given up; a server's, with a timeout.
AllScenarios ==
  {Scenario({}, {}, NoTimeout, 2, 1, 0),
   Scenario({}, Process, NoTimeout, 1, 1, 0),
   Scenario({}, {}, NoTimeout, 1, 0, 1),
   Scenario({c1}, {}, NoTimeout, 1, 0, 0),
   Scenario({s1}, {}, 1, 1, 0, 0)}

\* A client whose machine type changes, and a configuration without a server.
SmallConfigs ==
  {(srv1 :> "small" @@ cli :> "small"), (srv1 :> "small" @@ cli :> "large"),
   (srv1 :> "large"), (cli :> "small")}

BenchmarkInit ==
  /\ part \in {"harness", "provisioning"}
  /\ HarnessInit /\ (part # "harness" => MaxRuns = 2)
  /\ ProvisioningInit /\ (part # "provisioning" => config = (srv1 :> "large"))

BenchmarkNext ==
  \/ part = "harness" /\ HarnessNext /\ UNCHANGED <<part, provisioningVars>>
  \/ part = "provisioning" /\ ProvisioningNext /\ UNCHANGED <<part, sshVars>>

BenchmarkSpec ==
  /\ BenchmarkInit /\ [][BenchmarkNext]_benchmarkVars
  /\ \/ part = "harness" /\ HarnessFairness
     \/ part = "provisioning" /\ ProvisioningFairness

\* The scripts that provision instances succeed in the end: EveryoneReadyAgain,
\* in the behaviours that are about them.
ScriptsSucceed == part = "provisioning" => EveryoneReadyAgain
=============================================================================
