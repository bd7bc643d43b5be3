------------------------------ MODULE Settings ------------------------------
(* How main.run turns flags, environment and defaults into a configuration *)
(* (internal/config/config.go, main.go, NewClient's checks), as operators. *)
(* Texts are named by what the code tells apart: a URL, an authentication  *)
(* mode or a CA file is not given, good or bad.  Durations and numbers are *)
(* integers, and 0 stands for a rejected one.                              *)
EXTENDS Integers, Sequences

CONSTANTS
  Numbers,         \* the settings read by ChooseInt and ChooseDuration
  Defaults,        \* config.Default: the default of each of them
  ModuleNames,     \* moduleNames
  MalformedNames   \* label names the regular expression refuses

ASSUME DefaultsAssumption == Defaults \in [Numbers -> Nat \ {0}]

Given == {"none", "good", "bad"}
Rejected == 0

(* An element of a label list, and a number in the environment. *)
LabelPairs == [key : STRING, value : STRING, assigns : BOOLEAN]
NumberVariables == [given : BOOLEAN, parses : BOOLEAN, value : Int]

(* A flag and a variable of the environment: the flag counts if given. *)
First(s) == IF s.flag # "none" THEN s.flag ELSE s.env

(* A flag of 0 is one that is not given.  A variable that does not parse   *)
(* is an error even under a flag.                                          *)
Choose(flag, env, default) ==
  LET value == IF flag # 0 THEN flag ELSE IF env.given THEN env.value ELSE default
  IN  IF (env.given /\ ~env.parses) \/ value <= 0 THEN Rejected ELSE value

(* A comma-separated list of key=value pairs; assigns tells whether a pair *)
(* has an equals sign.  A later pair replaces an earlier one.              *)
ParseLabels(pairs) ==
  LET Kept == { i \in DOMAIN pairs : pairs[i].assigns /\ pairs[i].key # "" }
      LastOf(k) == CHOOSE i \in Kept :
                     pairs[i].key = k /\ \A j \in Kept : pairs[j].key = k => j <= i
  IN  [ k \in { pairs[i].key : i \in Kept } |-> pairs[LastOf(k)].value ]

(* mutant: labels of the environment replace those of the flag *)
MergeEnvLast(env, flag) ==
  [ k \in DOMAIN env \cup DOMAIN flag |->
      IF k \in DOMAIN env THEN env[k] ELSE flag[k] ]

(* Labels of the flag replace those of the environment, key by key. *)
MergeLabels(env, flag) ==
  [ k \in DOMAIN env \cup DOMAIN flag |->
      IF k \in DOMAIN flag THEN flag[k] ELSE env[k] ]

ReservedNames ==
  { "alert", "alert_id", "app", "backup_level", "category", "client", "collector",
    "commcell", "copies", "criterion", "commcell_id", "deleted", "dial", "edition",
    "entity", "eval_expiry_date", "guid", "health_status", "job_id", "job_type",
    "kind", "event_code", "event_type", "library", "library_id", "license",
    "license_id", "media_agent", "media_agent_id", "mount_path", "mount_path_id",
    "operation", "os", "plans", "license_mode", "policy", "policy_id", "pool",
    "pool_id", "proxy_client", "read", "release", "severity", "status",
    "status_name", "subclient", "type", "version", "report", "summary", "unit",
    "vm", "vsa_client" }

InternalNames == { "__name__", "__address__" }  \* names that begin with __

ValidLabels(labels) ==
  \A k \in DOMAIN labels : k \notin MalformedNames \cup InternalNames \cup ReservedNames

(* The labels of the exporter's own metrics, beside the custom ones: those *)
(* of the data metrics and those of the status metrics.                    *)
DataLabels ==
  { "alert", "alert_id", "app", "backup_level", "category", "client", "client_group",
    "commcell", "commcell_id", "copies", "creator", "criterion", "deleted", "dial",
    "edition", "entity", "eval_expiry_date", "event_code", "event_type", "guid",
    "health_status", "job_id", "job_type", "kind", "library", "library_id",
    "license", "license_id", "license_mode", "media_agent", "media_agent_id",
    "mount_path", "mount_path_id", "operation", "os", "plans", "policy",
    "policy_id", "pool", "pool_id", "proxy_client", "read", "release", "report",
    "severity", "status", "status_name", "subclient", "summary", "type", "unit",
    "version", "vm", "vsa_client" }

StatusLabels == { "collector", "subcollector" }

(* A metric whose label names repeat has an invalid description.           *)
Registers(labels) == DOMAIN labels \cap (DataLabels \cup StatusLabels) = {}

(* What run makes of an invocation: its flags and its environment.         *)
Configuration(inv) ==
  [ labels  |-> MergeLabels(ParseLabels(inv.labels.env), ParseLabels(inv.labels.flag)),
    numbers |-> [ n \in Numbers |->
                    Choose(inv.numbers[n].flag, inv.numbers[n].env, Defaults[n]) ],
    modules |-> ModuleNames \ (inv.disabled.env \cup inv.disabled.flag) ]

(* The errors that end run with exit code 1 before anything is started.    *)
Refused(inv) ==
  \/ First(inv.url) # "good"
  \/ ~inv.token /\ ~inv.credentials
  \/ ~ValidLabels(Configuration(inv).labels)
  \/ \E n \in Numbers : Configuration(inv).numbers[n] = Rejected
  \/ First(inv.mode) = "bad"
  \/ First(inv.ca) = "bad"

=============================================================================
