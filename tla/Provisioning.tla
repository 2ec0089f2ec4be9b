---------------------------- MODULE Provisioning ----------------------------
(***************************************************************************)
(* The instances of a benchmark (benchmarks/gcp_cluster.py): a script      *)
(* creates those its configuration misses, replaces those that changed,    *)
(* names the new servers in DNS, and deletes them all in the end or leaves *)
(* them for the next script.  Scripts run one after the other, each may    *)
(* end anywhere; what it has asked of the cloud goes on without it.        *)
(***************************************************************************)
EXTENDS Naturals

CONSTANTS
  Name,          \* of instances
  Server,        \* those with a dns_name
  Address,       \* that the cloud may give an instance
  Configs,       \* the configurations scripts are run with: names to types
  NoAddress,
  MaxFailures    \* bound: scripts that die and instances that fail to start

ASSUME NamesAssumption == Server \subseteq Name
ASSUME ConfigsAssumption == \A configs \in Configs : DOMAIN configs \subseteq Name

VARIABLES
  status, type, address,   \* the cloud: what is at a name
  records,                 \* the DNS zone: a server's name to an address
  step,                    \* where the script is, "idle" if none runs
  config,                  \* its configuration
  instances,               \* the instances it knows
  to_delete, to_create,    \* what it has still to see to
  awaited,                 \* operations it has requested and waits for
  failures,
  orphans,                 \* servers a script created and died before naming
  adopted                  \* that the script took as they were, but which did not run

cloudVars == <<status, type, address>>
historyVars == <<orphans, adopted>>
scriptVars == <<config, instances, to_delete, to_create, awaited>>
provisioningVars == <<cloudVars, records, step, scriptVars, failures, historyVars>>

ProvisioningInit ==
  /\ status = [n \in Name |-> "absent"]
  /\ type = [n \in Name |-> "none"]
  /\ address = [n \in Name |-> NoAddress]
  /\ records = [n \in Server |-> NoAddress]
  /\ step = "idle"
  /\ config \in Configs
  /\ instances = {} /\ to_delete = {} /\ to_create = {} /\ awaited = {}
  /\ failures = 0
  /\ orphans = {} /\ adopted = {}

Running == {n \in Name : status[n] = "running"}

\* _get_running_instances: the list does not tell what runs from what is being
\* created or deleted, if that is on it.
Listings ==
  {Running \cup others : others \in SUBSET {n \in Name : status[n] \in {"creating", "deleting"}}}

\* Mutants: only the name is compared; the type is compared as the cloud gives
\* it, with the path before it.
NameMatches(n, configs) == TRUE
PathMatches(n, configs) == FALSE

\* matches_instance
Matches(n, configs) == type[n] = configs[n]
-----------------------------------------------------------------------------
\* A script starts: it compares what there is with what it needs.
Start ==
  /\ step = "idle" /\ step' = "delete"
  /\ \E configs \in Configs, listed \in Listings :
       LET fits == {n \in DOMAIN configs \cap listed : Matches(n, configs)} IN
       /\ config' = configs
       /\ to_delete' = (DOMAIN configs \cap listed) \ fits
       /\ to_create' = DOMAIN configs \ fits
       /\ instances' = listed
       /\ adopted' = fits \ Running
  /\ awaited' = {}
  /\ UNCHANGED <<cloudVars, records, failures, orphans>>

\* shutdown_instances: all deletions are requested, then all are awaited.
RequestDelete(n) ==
  /\ step \in {"delete", "shutdown"}
  /\ n \in to_delete /\ status[n] # "absent"
  /\ status' = [status EXCEPT ![n] = "deleting"]
  /\ to_delete' = to_delete \ {n}
  /\ awaited' = awaited \cup {n}
  /\ UNCHANGED <<type, address, records, step, config, instances, to_create, failures, historyVars>>

\* Every awaited deletion is done.
Deleted == \A n \in awaited : status[n] = "absent"

DeletesDone ==
  /\ step \in {"delete", "shutdown"}
  /\ to_delete = {} /\ Deleted
  /\ instances' = instances \ awaited
  /\ awaited' = {}
  /\ step' = IF step = "delete" THEN "create" ELSE "idle"
  /\ UNCHANGED <<cloudVars, records, config, to_delete, to_create, failures, historyVars>>

\* _create_instances: likewise, and then a new look at what there is.
RequestCreate(n) ==
  /\ step = "create"
  /\ n \in to_create \ awaited
  /\ status[n] = "absent"
  /\ status' = [status EXCEPT ![n] = "creating"]
  /\ type' = [type EXCEPT ![n] = config[n]]
  /\ awaited' = awaited \cup {n}
  /\ UNCHANGED <<address, records, step, config, instances, to_delete, to_create, failures, historyVars>>

CreatesDone ==
  /\ step = "create" /\ step' = "records"
  /\ awaited = to_create /\ awaited \subseteq Running
  /\ instances' \in Listings
  /\ to_create' = to_create \cap Server
  /\ awaited' = {}
  /\ UNCHANGED <<cloudVars, records, config, to_delete, failures, historyVars>>

\* _add_instance_record_set: a record with another address is replaced.
RecordOf(n) == address[n]

AddRecord(n) ==
  /\ step = "records"
  /\ n \in to_create
  /\ records' = [records EXCEPT ![n] = RecordOf(n)]
  /\ to_create' = to_create \ {n}
  /\ orphans' = orphans \ {n}
  /\ UNCHANGED <<cloudVars, step, config, instances, to_delete, awaited, failures, adopted>>

\* The cluster is there, and benchmarks run on it.
Ready ==
  /\ step = "records" /\ to_create = {}
  /\ step' = "ready"
  /\ UNCHANGED <<cloudVars, records, scriptVars, failures, historyVars>>

\* The end of a script: OmnipaxosCluster.shutdown, or not.
Shutdown ==
  /\ step = "ready" /\ step' = "shutdown"
  /\ to_delete' = DOMAIN config \cap instances
  /\ UNCHANGED <<cloudVars, records, config, instances, to_create, awaited, failures, historyVars>>

LeaveRunning ==
  /\ step = "ready" /\ step' = "idle"
  /\ UNCHANGED <<cloudVars, records, scriptVars, failures, historyVars>>

\* What the script has requested or not yet named, when it ends early.
Dies ==
  /\ step # "idle" /\ step' = "idle"
  /\ orphans' = CASE step = "create"  -> orphans \cup (awaited \cap Server)
                  [] step = "records" -> orphans \cup to_create
                  [] OTHER            -> orphans
  /\ UNCHANGED <<cloudVars, records, scriptVars, adopted>>

\* Mutant: an operation's error code is not looked at.
NoneFailed == FALSE

\* wait_for_extended_operation: an operation has failed.
Failed == \E n \in awaited : status[n] = "absent"

\* That, or an insert is refused, the name being taken; or a deletion, there
\* being nothing any more.
Raise ==
  /\ \/ /\ step = "create"
        /\ Failed \/ \E n \in to_create \ awaited : status[n] # "absent"
     \/ /\ step \in {"delete", "shutdown"}
        /\ \E n \in to_delete : status[n] = "absent"
  /\ Dies
  /\ UNCHANGED failures

\* Killed, refused by an API, or an operation takes more than 300 s.
Interrupted ==
  /\ failures < MaxFailures /\ failures' = failures + 1
  /\ Dies

\* The cloud.
OperationCompletes(n) ==
  /\ \/ /\ status[n] = "creating"
        /\ status' = [status EXCEPT ![n] = "running"]
        /\ \E a \in Address \ {address[m] : m \in Name} : address' = [address EXCEPT ![n] = a]
     \/ /\ status[n] = "deleting"
        /\ status' = [status EXCEPT ![n] = "absent"]
        /\ address' = [address EXCEPT ![n] = NoAddress]
  /\ UNCHANGED <<type, records, step, scriptVars, failures, historyVars>>

CreationFails(n) ==
  /\ failures < MaxFailures /\ failures' = failures + 1
  /\ status[n] = "creating"
  /\ status' = [status EXCEPT ![n] = "absent"]
  /\ UNCHANGED <<type, address, records, step, scriptVars, historyVars>>

ScriptSteps ==
  \/ Start \/ DeletesDone \/ CreatesDone \/ Ready \/ Raise
  \/ Shutdown \/ LeaveRunning
  \/ \E n \in Name : RequestDelete(n) \/ RequestCreate(n) \/ AddRecord(n)

ProvisioningNext ==
  \/ ScriptSteps \/ Interrupted
  \/ \E n \in Name : OperationCompletes(n) \/ CreationFails(n)

\* Scripts are run again and again, do not stall, and the cloud gets done.
ProvisioningFairness ==
  /\ WF_provisioningVars(ScriptSteps)
  /\ \A n \in Name : WF_provisioningVars(OperationCompletes(n))

ProvisioningSpec == ProvisioningInit /\ [][ProvisioningNext]_provisioningVars
-----------------------------------------------------------------------------
\* When the constructor returns, every instance of the configuration is of the
\* type configured, it runs and is known to the script, whatever earlier scripts
\* left behind, unless the script took one for running that was then being created
\* or deleted (gcp_cluster.py:306-319 does not look at the status).  And the name
\* of a server resolves to it ("assign DNS names to the servers",
\* omnipaxos_cluster.py:22-23), unless the script that created it died between
\* asking for it and naming it: such a server never gets its name, or keeps that
\* of an earlier one (the TODO in gcp_cluster.py:79).
ReadyAsConfigured ==
  step = "ready" =>
    \A n \in DOMAIN config :
      /\ type[n] = config[n]
      /\ n \notin adopted => n \in instances \cap Running
      /\ n \in Server \ (orphans \cup adopted) => records[n] = address[n]

\* "Create only new/changed instances" (gcp_cluster.py:98): while a script sets
\* up its cluster, no running instance of the configuration is taken away that
\* is as configured, nor any that the configuration does not name.
KeepsWhatFits ==
  [][\A n \in Running :
       step \in {"idle", "delete", "create", "records"} =>
         \/ status'[n] = "running"
         \/ n \in DOMAIN config /\ type[n] # config[n]]_provisioningVars

\* Whatever is left of scripts that died, running them again succeeds: a name
\* still taken refuses an insert and one that is gone a deletion, but not for ever.
EveryoneReadyAgain == []<>(step = "ready")
=============================================================================
