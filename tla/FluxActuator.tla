---------------------------- MODULE FluxActuator ----------------------------
(***************************************************************************)
(* The Extension controller of shoot-flux (pkg/controller/extension): one  *)
(* worker reconciles one Extension.  It snapshots the Extension, installs  *)
(* Flux in the shoot, copies secrets, deploys a source and a Kustomization *)
(* and waits for each, and finally marks the Extension with the condition  *)
(* FluxBootstrapped.  Once marked, a reconciliation only keeps secrets and *)
(* the shoot-info ConfigMap up to date.                                    *)
(*                                                                         *)
(* Around the worker run the gardenlet and the user (who edit or remove    *)
(* the Extension and the shoot's objects), the health check controller     *)
(* (which writes the same status), the Flux controllers (which report      *)
(* readiness), API errors and crashes.                                     *)
(***************************************************************************)
EXTENDS Integers

CONSTANTS
  Namespaces,   \* namespaces of the shoot
  Specs,        \* desired states an installation, source or Kustomization has
  Secrets,      \* names of credentials secrets in the shoot
  Configs,      \* decoded and defaulted providerConfigs (see ConfigType)
  Rejected,     \* configs that decoding or validation refuses field by field
  Works,        \* the specs that Flux (or the kubelet) can bring to life
  SecretRef,    \* spec.secretRef.name of a source spec, or None
  NeedsInfo,    \* the Kustomizations that substitute from ConfigMap shoot-info
  None,         \* an absent section, object or secret reference
  Foreign,      \* Deployed of an object that the user changed or deleted
  Absent,       \* the Extension does not exist
  NoAttempt,    \* the worker holds no Extension
  MaxEdits,     \* bound: changes made by gardenlet and user
  MaxFaults     \* bound: API errors and crashes of the controller

Kinds == {"flux", "source", "kust"}
Slots == Kinds \X Namespaces

(* Conditions of the Extension status: the marker, and one that an earlier *)
(* version left behind and the health check controller removes.            *)
Bootstrapped == "FluxBootstrapped"
Legacy == "ShootSystemComponentsHealthy"
Conditions == {Bootstrapped, Legacy}

ConfigType == [spec : [Kinds -> Specs \union {None}], ns : [Kinds -> Namespaces]]

ASSUME ConfigsAssumption ==
  /\ Configs \subseteq ConfigType
  /\ \A c \in Configs : c.spec["flux"] # None
  /\ None \notin Specs /\ Foreign \notin Specs \union {None}
  /\ Rejected \subseteq Configs
  /\ SecretRef \in [Specs -> Secrets \union {None}]
ASSUME BoundsAssumption == MaxEdits \in Nat /\ MaxFaults \in Nat

ExtensionType ==
  [rv : Nat, conds : SUBSET Conditions, config : Configs,
   op : {"reconcile", "delete", "migrate", "restore"}]
AttemptType == [rv : Nat, conds : SUBSET Conditions, config : Configs]

(* An object in the shoot: its spec, its Ready condition, and whether that *)
(* was reported for the current generation.                                *)
ObjectType == [spec : Specs, ready : {"Unknown", "True", "False"}, fresh : BOOLEAN]

ASSUME SentinelsAssumption ==
  /\ Absent \notin ExtensionType
  /\ NoAttempt \notin AttemptType
  /\ None \notin ObjectType

VARIABLES
  ext,          \* the Extension in the seed, or Absent
  revision,     \* the last resourceVersion the seed API server handed out
  hibernated,   \* the Cluster resource says that the shoot hibernates
  namespaces,   \* namespaces that exist in the shoot
  obj,          \* the Flux installation, sources and Kustomizations
  secrets,      \* managed secrets <<namespace, name>> in the shoot
  info,         \* namespaces that hold ConfigMap shoot-info
  pc,           \* the worker's next step
  att,          \* the Extension as the worker read it, or NoAttempt
  disturbed,    \* history: the user changed the shoot during this bootstrap
  touched,      \* history: slots whose spec the user set, not the extension
  everMarked,   \* history: this shoot has been bootstrapped once
  edits, faults \* used budgets

seedVars  == <<ext, revision, hibernated>>
shootVars == <<namespaces, obj, secrets, info, touched>>
attempt   == <<att, disturbed>>
budgets   == <<edits, faults>>
vars == <<seedVars, shootVars, pc, attempt, everMarked, budgets>>

applyPc == [flux |-> "applyFlux", source |-> "applySource", kust |-> "applyKust"]
waitPc  == [flux |-> "waitFlux", source |-> "waitSource", kust |-> "waitKust"]
(* Mutant: the source is deployed before the secrets.                      *)
afterPc_SourceFirst == [flux |-> "applySource", source |-> "secrets", kust |-> "mark"]
afterPc == [flux |-> "secrets", source |-> "info", kust |-> "mark"]
PCs == {"idle", "cluster", "secrets", "info", "mark",
        "applyFlux", "applySource", "applyKust",
        "waitFlux", "waitSource", "waitKust"}

-----------------------------------------------------------------------------
(* What the controller computes from what it read.                         *)

Valid(c) ==
  /\ c \notin Rejected
  /\ (c.spec["source"] = None) <=> (c.spec["kust"] = None)

IsFluxBootstrapped(e) == Bootstrapped \in e.conds

(* The attempt found the Extension unmarked and is at work in the shoot.   *)
InBootstrap == pc \notin {"idle", "cluster"} /\ ~IsFluxBootstrapped(att)

(* Mutant: an unset spec.secretRef is not skipped.                          *)
WantedSecrets_NilRef(c) ==
  IF c.spec["source"] = None THEN {} ELSE {SecretRef[c.spec["source"]]}

(* The secret names a config asks for: the source's credentials.           *)
WantedSecrets(c) ==
  IF c.spec["source"] = None THEN {}
  ELSE {SecretRef[c.spec["source"]]} \ {None}

(* controllerutil.CreateOrUpdate with a mutate function that sets the spec: *)
(* an update leaves the old status in place, an equal spec is not written.  *)
CreateOrUpdate(o, s) ==
  IF o = None
  THEN [spec |-> s, ready |-> "Unknown", fresh |-> FALSE]
  ELSE IF o.spec = s THEN o
  ELSE [o EXCEPT !.spec = s, !.fresh = FALSE]

(* health.CheckDeployment wants the current generation; CheckFluxObject    *)
(* takes the Ready condition as it finds it.                               *)
Healthy(k, o) ==
  /\ o # None
  /\ o.ready = "True"
  /\ k = "flux" => o.fresh

(* What the extension deployed in a slot, if nobody has changed it since.  *)
Deployed(x) ==
  IF x \in touched THEN Foreign
  ELSE IF obj[x] = None THEN None ELSE obj[x].spec

Slot(c, k) == <<k, c.ns[k]>>

-----------------------------------------------------------------------------
NewExtension(c, rv, conds, op) ==
  [rv |-> rv, conds |-> conds, config |-> c, op |-> op]

Init ==
  /\ \E c \in Configs, conds \in SUBSET {Legacy} :
        ext = NewExtension(c, 1, conds, "reconcile")
  /\ revision = 1
  /\ hibernated \in BOOLEAN
  /\ namespaces = {}
  /\ obj = [x \in Slots |-> None]
  /\ secrets = {}
  /\ info = {}
  /\ touched = {}
  /\ pc = "idle"
  /\ att = NoAttempt
  /\ disturbed = FALSE
  /\ everMarked = FALSE
  /\ edits = 0
  /\ faults = 0

(* An attempt ends; the Extension it held is forgotten.                    *)
EndAttempt == pc' = "idle" /\ att' = NoAttempt /\ disturbed' = FALSE

(* Events, the 60 minutes resync and retries start an attempt any time.    *)
Begin ==
  /\ pc = "idle"
  /\ ext # Absent
  /\ ext.op = "reconcile"
  /\ pc' = "cluster"
  /\ att' = [rv |-> ext.rv, conds |-> ext.conds, config |-> ext.config]
  /\ UNCHANGED <<seedVars, shootVars, disturbed, everMarked, budgets>>

(* Steps of the worker that change nothing but how far it has come: it goes *)
(* on, or returns with or without an error.                                *)
GoesOn(from, to) ==
  /\ pc = from /\ pc' = to
  /\ UNCHANGED <<seedVars, shootVars, attempt, everMarked, budgets>>

Returns(from) ==
  /\ pc = from
  /\ EndAttempt
  /\ UNCHANGED <<seedVars, shootVars, everMarked, budgets>>

SkipHibernated == Returns("cluster") /\ hibernated

RejectConfig == Returns("cluster") /\ ~hibernated /\ ~Valid(att.config)

StartUpkeep ==
  /\ GoesOn("cluster", "secrets")
  /\ ~hibernated /\ Valid(att.config)
  /\ IsFluxBootstrapped(att)

(* Mutant: the marker is not looked at.                                    *)
StartBootstrap_IgnoresMarker ==
  GoesOn("cluster", "applyFlux") /\ ~hibernated /\ Valid(att.config)

StartBootstrap ==
  /\ GoesOn("cluster", "applyFlux")
  /\ ~hibernated /\ Valid(att.config)
  /\ ~IsFluxBootstrapped(att)

(* InstallFlux, BootstrapSource, BootstrapKustomization up to the wait.    *)
Apply(k) ==
  LET c == att.config IN
  /\ pc = applyPc[k]
  /\ c.spec[k] # None
  /\ namespaces' = namespaces \union {c.ns[k]}
  /\ obj' = [obj EXCEPT ![Slot(c, k)] = CreateOrUpdate(@, c.spec[k])]
  /\ touched' = IF obj' = obj THEN touched ELSE touched \ {Slot(c, k)}
  /\ pc' = waitPc[k]
  /\ UNCHANGED <<seedVars, secrets, info, attempt, everMarked, budgets>>

(* The namespace is created but applying the object fails.                 *)
ApplyFails(k) ==
  /\ pc = applyPc[k]
  /\ att.config.spec[k] # None
  /\ faults < MaxFaults
  /\ faults' = faults + 1
  /\ namespaces' = namespaces \union {att.config.ns[k]}
  /\ EndAttempt
  /\ UNCHANGED <<seedVars, obj, secrets, info, touched, everMarked, edits>>

(* Mutant: a section is skipped although the config has it.                *)
SkipSection_Always(k) == GoesOn(applyPc[k], afterPc[k])

(* A config without source and Kustomization installs Flux only.           *)
SkipSection(k) == GoesOn(applyPc[k], afterPc[k]) /\ att.config.spec[k] = None

(* WaitForObject returns nil, or an error: the timeout, or Ready=False.    *)
WaitDone(k) ==
  GoesOn(waitPc[k], afterPc[k]) /\ Healthy(k, obj[Slot(att.config, k)])

WaitFails(k) ==
  Returns(waitPc[k]) /\ ~Healthy(k, obj[Slot(att.config, k)])

(* The secrets of the Flux namespace become those given; no secret can be  *)
(* created in a namespace that does not exist.                             *)
SyncSecrets(names) ==
  LET ns == att.config.ns["flux"] IN
  /\ pc = "secrets"
  /\ WantedSecrets(att.config) # {} => ns \in namespaces
  /\ secrets' = {x \in secrets : x[1] # ns} \union ({ns} \X names)
  /\ pc' = IF IsFluxBootstrapped(att) THEN "info" ELSE "applySource"
  /\ UNCHANGED <<seedVars, namespaces, obj, info, touched, attempt, everMarked, budgets>>

(* Mutants: secrets that are no longer wanted stay; wanted ones are not    *)
(* entered into the set to keep, and are deleted again.                    *)
ReconcileSecrets_NoCleanup ==
  SyncSecrets(WantedSecrets(att.config)
                \union {s \in Secrets : <<att.config.ns["flux"], s>> \in secrets})
ReconcileSecrets_KeepsNothing == SyncSecrets({})

(* ReconcileSecrets: copy the wanted secrets to the Flux namespace, delete *)
(* every other managed secret of that namespace.                           *)
ReconcileSecrets == SyncSecrets(WantedSecrets(att.config))

SecretsNamespaceMissing ==
  /\ Returns("secrets")
  /\ WantedSecrets(att.config) # {}
  /\ att.config.ns["flux"] \notin namespaces

(* An API error ends ReconcileSecrets half way: a copy failed, and nothing *)
(* is deleted, or a deletion failed.                                       *)
ReconcileSecretsFails ==
  LET ns == att.config.ns["flux"]
      copied == {ns} \X WantedSecrets(att.config)
      stale == {x \in secrets : x[1] = ns} \ copied IN
  /\ pc = "secrets"
  /\ ns \in namespaces
  /\ faults < MaxFaults
  /\ faults' = faults + 1
  /\ \E gone \in SUBSET stale : secrets' = (secrets \union copied) \ gone
  /\ EndAttempt
  /\ UNCHANGED <<seedVars, namespaces, obj, info, touched, everMarked, edits>>

ReconcileShootInfo ==
  LET ns == att.config.ns["flux"] IN
  /\ pc = "info"
  /\ ns \in namespaces
  /\ info' = info \union {ns}
  /\ IF IsFluxBootstrapped(att)
     THEN EndAttempt
     ELSE pc' = "applyKust" /\ UNCHANGED attempt
  /\ UNCHANGED <<seedVars, namespaces, obj, secrets, touched, everMarked, budgets>>

InfoNamespaceMissing ==
  Returns("info") /\ att.config.ns["flux"] \notin namespaces

(* A merge patch that replaces the list of conditions by the one computed  *)
(* from the snapshot.                                                      *)
PatchConditions ==
  /\ pc = "mark"
  /\ ext # Absent
  /\ ext' = [ext EXCEPT !.rv = revision + 1,
                        !.conds = att.conds \union {Bootstrapped}]
  /\ revision' = revision + 1
  /\ everMarked' = TRUE
  /\ EndAttempt
  /\ UNCHANGED <<hibernated, shootVars, budgets>>

(* Mutant: the patch carries no resourceVersion.                           *)
SetFluxBootstrapped_NoLock == PatchConditions

(* The patch is accepted if the resourceVersion of the snapshot matches.   *)
SetFluxBootstrapped == PatchConditions /\ ext.rv = att.rv

MarkConflict == Returns("mark") /\ (ext # Absent => ext.rv # att.rv)

(* Any other error return, or the controller dies and restarts.            *)
Abort ==
  /\ pc # "idle"
  /\ faults < MaxFaults
  /\ faults' = faults + 1
  /\ EndAttempt
  /\ UNCHANGED <<seedVars, shootVars, everMarked, edits>>

(* Delete, ForceDelete and Migrate do nothing in the shoot; the generic    *)
(* reconciler then drops the finalizer and the Extension is gone.          *)
RemoveExtension ==
  /\ pc = "idle"
  /\ ext # Absent
  /\ ext.op \in {"delete", "migrate"}
  /\ ext' = Absent
  /\ UNCHANGED <<revision, hibernated, shootVars, pc, attempt, everMarked, budgets>>

(* Restore does nothing either; the operation annotation is removed.       *)
RestoreExtension ==
  /\ pc = "idle"
  /\ ext # Absent
  /\ ext.op = "restore"
  /\ ext' = [ext EXCEPT !.op = "reconcile", !.rv = revision + 1]
  /\ revision' = revision + 1
  /\ UNCHANGED <<hibernated, shootVars, pc, attempt, everMarked, budgets>>

Reconcile ==
  \/ Begin \/ SkipHibernated \/ RejectConfig \/ StartUpkeep \/ StartBootstrap
  \/ \E k \in Kinds : Apply(k) \/ SkipSection(k) \/ WaitDone(k) \/ WaitFails(k)
  \/ ReconcileSecrets \/ SecretsNamespaceMissing
  \/ ReconcileShootInfo \/ InfoNamespaceMissing
  \/ SetFluxBootstrapped \/ MarkConflict

Fail == (\E k \in Kinds : ApplyFails(k)) \/ ReconcileSecretsFails \/ Abort

Operate == RemoveExtension \/ RestoreExtension

-----------------------------------------------------------------------------
(* The other writers of the seed.                                          *)

Edit == edits < MaxEdits /\ edits' = edits + 1

ChangeConfig ==
  /\ ext # Absent
  /\ Edit
  /\ \E c \in Configs \ {ext.config} :
        ext' = [ext EXCEPT !.config = c, !.rv = revision + 1]
  /\ revision' = revision + 1
  /\ UNCHANGED <<hibernated, shootVars, pc, attempt, everMarked, faults>>

RequestRemoval ==
  /\ ext # Absent
  /\ ext.op = "reconcile"
  /\ Edit
  /\ \E op \in {"delete", "migrate"} :
        ext' = [ext EXCEPT !.op = op, !.rv = revision + 1]
  /\ revision' = revision + 1
  /\ UNCHANGED <<hibernated, shootVars, pc, attempt, everMarked, faults>>

(* The extension is enabled again, or restored on another seed.  The       *)
(* status is new; the shoot is the one it was.                             *)
CreateExtension ==
  /\ ext = Absent
  /\ Edit
  /\ \E c \in Configs, op \in {"reconcile", "restore"} :
        ext' = NewExtension(c, revision + 1, {}, op)
  /\ revision' = revision + 1
  /\ UNCHANGED <<hibernated, shootVars, pc, attempt, everMarked, faults>>

Hibernate ==
  /\ Edit
  /\ hibernated' = ~hibernated
  /\ UNCHANGED <<ext, revision, shootVars, pc, attempt, everMarked, faults>>

(* The health check controller removes the condition it once maintained.   *)
HealthCheck ==
  /\ ext # Absent
  /\ Legacy \in ext.conds
  /\ ext' = [ext EXCEPT !.conds = @ \ {Legacy}, !.rv = revision + 1]
  /\ revision' = revision + 1
  /\ UNCHANGED <<hibernated, shootVars, pc, attempt, everMarked, budgets>>

(* The user of the shoot.                                                  *)

Disturb == Edit /\ disturbed' = InBootstrap

UserWrites(x) ==
  /\ x[2] \in namespaces
  /\ Disturb
  /\ \E s \in Specs : obj' = [obj EXCEPT ![x] = CreateOrUpdate(@, s)]
  /\ obj' # obj
  /\ touched' = touched \union {x}
  /\ UNCHANGED <<seedVars, namespaces, secrets, info, pc, att, everMarked, faults>>

UserDeletes(x) ==
  /\ obj[x] # None
  /\ Disturb
  /\ obj' = [obj EXCEPT ![x] = None]
  /\ touched' = touched \union {x}
  /\ UNCHANGED <<seedVars, namespaces, secrets, info, pc, att, everMarked, faults>>

UserDeletesSecret ==
  /\ Disturb
  /\ \E s \in secrets : secrets' = secrets \ {s}
  /\ UNCHANGED <<seedVars, namespaces, obj, info, touched, pc, att, everMarked, faults>>

UserDeletesNamespace(ns) ==
  /\ ns \in namespaces
  /\ Disturb
  /\ namespaces' = namespaces \ {ns}
  /\ obj' = [x \in Slots |-> IF x[2] = ns THEN None ELSE obj[x]]
  /\ touched' = touched \union {x \in Slots : x[2] = ns /\ obj[x] # None}
  /\ secrets' = {s \in secrets : s[1] # ns}
  /\ info' = info \ {ns}
  /\ UNCHANGED <<seedVars, pc, att, everMarked, faults>>

Environment ==
  \/ ChangeConfig \/ RequestRemoval \/ CreateExtension \/ Hibernate \/ HealthCheck
  \/ \E x \in Slots : UserWrites(x) \/ UserDeletes(x)
  \/ UserDeletesSecret
  \/ \E ns \in Namespaces : UserDeletesNamespace(ns)

-----------------------------------------------------------------------------
(* The Flux controllers.  A source reads its credentials, a Kustomization  *)
(* the ConfigMap, in the namespace it lives in itself.                     *)

FluxRunning == \E n \in Namespaces : Healthy("flux", obj[<<"flux", n>>])
SourceReady == \E n \in Namespaces : Healthy("source", obj[<<"source", n>>])

Outcome(x) ==
  LET s == obj[x].spec
      ok == /\ s \in Works
            /\ x[1] = "source" /\ SecretRef[s] # None => <<x[2], SecretRef[s]>> \in secrets
            /\ x[1] = "kust" => SourceReady /\ (s \in NeedsInfo => x[2] \in info)
  IN IF ok THEN "True" ELSE "False"

FluxReconciles(x) ==
  /\ obj[x] # None
  /\ x[1] # "flux" => FluxRunning
  /\ obj[x].ready # Outcome(x) \/ ~obj[x].fresh
  /\ obj' = [obj EXCEPT ![x].ready = Outcome(x), ![x].fresh = TRUE]
  /\ UNCHANGED <<seedVars, namespaces, secrets, info, touched, pc, attempt, everMarked, budgets>>

Next ==
  \/ Reconcile \/ Fail \/ Operate \/ Environment
  \/ \E x \in Slots : FluxReconciles(x)

Spec == Init /\ [][Next]_vars

(* The work queue serves an Extension again and again, a step of the       *)
(* worker ends (every wait has a timeout), and the Flux controllers retry. *)
Fairness ==
  /\ WF_vars(Reconcile)
  /\ WF_vars(Operate)
  /\ \A x \in Slots : WF_vars(FluxReconciles(x))

FairSpec == Spec /\ Fairness


-----------------------------------------------------------------------------
(* Properties.                                                             *)

(* Every variable keeps its type; in particular no secret without a name is  *)
(* copied and no bound is exceeded.                                          *)
TypeOK ==
  /\ ext \in ExtensionType \union {Absent}
  /\ revision \in Nat
  /\ hibernated \in BOOLEAN
  /\ namespaces \subseteq Namespaces
  /\ obj \in [Slots -> ObjectType \union {None}]
  /\ secrets \subseteq Namespaces \X Secrets
  /\ info \subseteq Namespaces
  /\ touched \subseteq Slots
  /\ pc \in PCs
  /\ att \in AttemptType \union {NoAttempt}
  /\ disturbed \in BOOLEAN
  /\ everMarked \in BOOLEAN
  /\ edits \in 0 .. MaxEdits
  /\ faults \in 0 .. MaxFaults

Marked == ext # Absent /\ IsFluxBootstrapped(ext)

(* The step that marks the Extension. *)
Marks == ~Marked /\ Marked'

(* The worker's snapshot is never ahead of the Extension, an Extension with  *)
(* the snapshot's resourceVersion is the snapshot, and the Extension stays   *)
(* while an attempt runs (its finalizer is dropped by the same worker).      *)
SnapshotInv ==
  /\ ext # Absent => ext.rv <= revision
  /\ pc # "idle" =>
       /\ att # NoAttempt
       /\ ext # Absent
       /\ att.rv <= ext.rv
       /\ att.rv = ext.rv => att.conds = ext.conds /\ att.config = ext.config

(* An attempt that reads the Extension as not bootstrapped holds a valid     *)
(* config, and nobody marks the Extension before the attempt does or ends;   *)
(* it waits for sections of its config only.                                 *)
BootstrapInv ==
  /\ pc \notin {"idle", "cluster", "secrets", "info"} => ~IsFluxBootstrapped(att)
  /\ pc # "idle" /\ ~IsFluxBootstrapped(att) => ~Marked
  /\ pc \notin {"idle", "cluster"} => Valid(att.config)
  /\ \A k \in Kinds : pc = waitPc[k] => att.config.spec[k] # None

(* The steps of the worker that come after the apply of each section. *)
doneAt == [flux   |-> PCs \ {"idle", "cluster", "applyFlux"},
           source |-> {"waitSource", "info", "applyKust", "waitKust", "mark"},
           kust   |-> {"waitKust", "mark"}]

(* A section that the attempt has gone past is deployed as the attempt's     *)
(* config says, unless the user has changed it since.                        *)
ProgressInv ==
  \A k \in Kinds :
    InBootstrap /\ pc \in doneAt[k] /\ att.config.spec[k] # None =>
      Deployed(Slot(att.config, k)) \in {att.config.spec[k], Foreign}

(* Configs that can come up: accepted, every spec works, and the namespaces  *)
(* let source and Kustomization see the secret and the ConfigMap.            *)
Deployable(c) ==
  /\ Valid(c)
  /\ \A k \in Kinds : c.spec[k] \in Works \union {None}
  /\ WantedSecrets(c) # {} => c.ns["source"] = c.ns["flux"]
  /\ c.spec["kust"] \in NeedsInfo => c.ns["kust"] = c.ns["flux"]

(* Unless the user interferes, what the attempt has applied, copied and      *)
(* written is there, and a section it has waited for is ready if it can be.  *)
ProvidedInv ==
  LET c == att.config IN
  InBootstrap /\ ~disturbed =>
    /\ \A k \in Kinds : pc \in doneAt[k] /\ c.spec[k] # None =>
         /\ c.ns[k] \in namespaces
         /\ obj[Slot(c, k)] # None /\ obj[Slot(c, k)].spec = c.spec[k]
         /\ Deployable(c) /\ pc # waitPc[k] => Healthy(k, obj[Slot(c, k)])
    /\ pc \in doneAt["source"] \union {"applySource"} =>
         {c.ns["flux"]} \X WantedSecrets(c) \subseteq secrets
    /\ pc \in doneAt["kust"] \union {"applyKust"} => c.ns["flux"] \in info

(* The inductive invariant that the proofs use: how the snapshot, the marker *)
(* and what is deployed relate at each step of an attempt, for the code from *)
(* reading the Extension to the marking patch.                               *)
IndInv == SnapshotInv /\ BootstrapInv /\ ProgressInv /\ ProvidedInv

(* The steps of an attempt are ordered as actuator.go:100 and :111 want it:  *)
(* the secrets before the source, the ConfigMap before the Kustomization.    *)
(* With a config that can come up, no step needs a namespace that is not yet *)
(* there, an object that is waited for has what it takes to get ready, and   *)
(* the Extension is marked with all that was deployed being ready; only the  *)
(* user can break it, by changing the shoot in between.                      *)
NoWaitInVain ==
  LET c == att.config IN
  InBootstrap /\ ~disturbed /\ Deployable(c) =>
    /\ pc \in {"secrets", "info"} => c.ns["flux"] \in namespaces
    /\ \A k \in Kinds : pc = waitPc[k] =>
         /\ Outcome(Slot(c, k)) = "True"
         /\ k # "flux" => FluxRunning
    /\ pc = "mark" =>
         \A k \in Kinds : c.spec[k] # None => Healthy(k, obj[Slot(c, k)])

(* SetFluxBootstrapped promises (actuator.go:214) that future                *)
(* reconciliations skip the Flux resources: no step of anyone writes a       *)
(* deployed spec while the Extension is marked, not even an attempt that     *)
(* began before; users' changes stay.                                        *)
MarkedFreezesFlux ==
  [][Marked => \A x \in Slots : Deployed(x)' \in {Deployed(x), Foreign}]_vars

(* When the Extension is marked, every section of the config that it carries *)
(* at that moment (not just of the config the attempt read) is deployed, or  *)
(* the user has changed it since.  The optimistic lock of the status patch   *)
(* is what makes this so when the config changes during an attempt.          *)
MarkedConfigDeployed ==
  [][Marks => \A k \in Kinds : ext'.config.spec[k] # None =>
       Deployed(Slot(ext'.config, k)) \in {ext'.config.spec[k], Foreign}]_vars

(* A condition that the health check controller removed does not come back   *)
(* with the marking patch, which writes the whole list of conditions, and    *)
(* the marker itself is never lost.                                          *)
ConditionsKept ==
  [][ext # Absent /\ ext' # Absent =>
       /\ Legacy \notin ext.conds => Legacy \notin ext'.conds
       /\ IsFluxBootstrapped(ext) => IsFluxBootstrapped(ext')]_vars

Served == ext # Absent /\ ext.op = "reconcile" /\ ~hibernated

(* An awake shoot with a config that can come up is bootstrapped at last:    *)
(* after conflicts, crashes, failed waits and user changes alike, the steps  *)
(* of an attempt are ordered so that none waits for what only a later one    *)
(* brings (the secrets for the source, the ConfigMap for the Kustomization). *)
EventuallyBootstrapped ==
  <>[](Served /\ Deployable(ext.config)) => <>[]Marked

InSync ==
  /\ ext # Absent
  /\ LET ns == ext.config.ns["flux"] IN
       /\ {x \in secrets : x[1] = ns} = {ns} \X WantedSecrets(ext.config)
       /\ ns \in info

(* While a bootstrapped Extension is served, the managed secrets of the Flux *)
(* namespace converge to those the current config references, and shoot-info *)
(* is there: changes of the config after the bootstrap reach the shoot.      *)
UpkeepConverges ==
  <>[](Marked /\ Served /\ Valid(ext.config) /\ ext.config.ns["flux"] \in namespaces)
    => <>[]InSync

(* actuator.go:331 says that the source is created as specified and waited   *)
(* for until ready.  Stated at the marking step: unless the user changed it, *)
(* the source has been reported ready for the spec that was deployed.        *)
MarkedSourceReconciled ==
  [][Marks /\ ext'.config.spec["source"] # None =>
       LET x == Slot(ext'.config, "source") IN
         x \notin touched => obj[x].fresh /\ obj[x].ready = "True"]_vars

(* types.go:113 says that the secret's data is used to create the source's   *)
(* credentials secret, spec.secretRef.name, which Flux looks up next to the  *)
(* source: while the source is waited for, that secret is there.             *)
CredentialsReachSource ==
  pc = "waitSource" =>
    \A s \in WantedSecrets(att.config) : <<att.config.ns["source"], s>> \in secrets

(* v1alpha1/constants.go:7 says that the marker is an annotation on the Flux *)
(* namespace and makes the Flux resources be skipped after a first           *)
(* bootstrap: once a shoot has been bootstrapped its Flux resources are not  *)
(* written again.                                                            *)
BootstrappedOnce ==
  [][everMarked => \A x \in Slots : Deployed(x)' \in {Deployed(x), Foreign}]_vars

(* The controller implements the abstract hand-over of Bootstrap: it writes  *)
(* Flux resources only while the Extension is unmarked, and marks it only    *)
(* with some accepted config completely deployed.                            *)
absPhase ==
  IF ext = Absent THEN "off"
  ELSE IF IsFluxBootstrapped(ext) THEN "managed" ELSE "bootstrapping"

Abstract ==
  INSTANCE Bootstrap WITH
    Configs <- {c \in Configs : Valid(c)},
    phase <- absPhase,
    deployed <- [x \in Slots |-> Deployed(x)]

AbstractSpec == Abstract!Spec

=============================================================================
