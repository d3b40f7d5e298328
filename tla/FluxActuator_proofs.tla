------------------------ MODULE FluxActuator_proofs -------------------------
(***************************************************************************)
(* Theorems about FluxActuator for every value of its constants: type      *)
(* correctness, the inductive invariant, and from it what the marker means *)
(* for the shoot.                                                          *)
(***************************************************************************)
EXTENDS FluxActuator, TLAPS

(* The snapshot and its history variable only ever occur as this pair.     *)
USE DEF attempt

-----------------------------------------------------------------------------
(* Facts about the data.                                                   *)

(* A config's sections have specs and namespaces; an installation is never *)
(* missing.                                                                *)
LEMMA ConfigFacts ==
  ASSUME NEW c \in Configs, NEW k \in Kinds
  PROVE  /\ c.spec[k] \in Specs \union {None}
         /\ c.ns[k] \in Namespaces
         /\ Slot(c, k) \in Slots
BY ConfigsAssumption DEF ConfigType, Slot, Slots, Kinds

(* Every secret that is copied has a name.                                 *)
LEMMA WantedSecretsType ==
  ASSUME NEW c \in Configs
  PROVE  WantedSecrets(c) \subseteq Secrets
<1>1. c.spec["source"] \in Specs \union {None}
  BY ConfigFacts DEF Kinds
<1> QED
  BY <1>1, ConfigsAssumption DEF WantedSecrets

(* CreateOrUpdate returns an object that has the spec asked for.           *)
LEMMA CreateOrUpdateFacts ==
  ASSUME NEW o \in ObjectType \union {None}, NEW s \in Specs
  PROVE  /\ CreateOrUpdate(o, s) \in ObjectType
         /\ CreateOrUpdate(o, s).spec = s
BY DEF CreateOrUpdate, ObjectType

(* The updates of the Extension keep its type.                             *)
LEMMA ExtensionUpdates ==
  ASSUME NEW e \in ExtensionType, NEW r \in Nat
  PROVE  /\ \A c \in Configs : [e EXCEPT !.config = c, !.rv = r] \in ExtensionType
         /\ \A cs \in SUBSET Conditions :
              [e EXCEPT !.rv = r, !.conds = cs] \in ExtensionType
         /\ \A op \in {"reconcile", "delete", "migrate", "restore"} :
              [e EXCEPT !.op = op, !.rv = r] \in ExtensionType
         /\ [e EXCEPT !.conds = @ \ {Legacy}, !.rv = r] \in ExtensionType
BY DEF ExtensionType

(* Two sections of a config never share a slot.                            *)
LEMMA SlotsDiffer ==
  ASSUME NEW c, NEW d, NEW j \in Kinds, NEW k \in Kinds, j # k
  PROVE  Slot(c, j) # Slot(d, k)
BY DEF Slot

-----------------------------------------------------------------------------
(* Type correctness.                                                       *)

LEMMA TypeInit == Init => TypeOK
<1> SUFFICES ASSUME Init PROVE TypeOK
  OBVIOUS
<1>1. ext \in ExtensionType
  BY DEF Init, NewExtension, ExtensionType, Conditions
<1>2. obj \in [Slots -> ObjectType \union {None}]
  BY DEF Init
<1>3. edits \in 0 .. MaxEdits /\ faults \in 0 .. MaxFaults
  BY BoundsAssumption DEF Init
<1> QED
  BY <1>1, <1>2, <1>3 DEF Init, TypeOK, PCs

(* What the snapshot of a running attempt is made of. *)
LEMMA AttemptFacts ==
  ASSUME TypeOK, att # NoAttempt
  PROVE  /\ att \in AttemptType
         /\ att.config \in Configs
         /\ att.conds \subseteq Conditions
         /\ att.rv \in Nat
BY DEF TypeOK, AttemptType

(* The end of an attempt, and the steps of the worker that change nothing  *)
(* but how far it has come, keep the types.                                *)
LEMMA EndType ==
  EndAttempt => /\ pc' \in PCs
                /\ att' \in AttemptType \union {NoAttempt}
                /\ disturbed' \in BOOLEAN
BY DEF EndAttempt, PCs

LEMMA GoesOnType ==
  ASSUME TypeOK, NEW from, NEW to \in PCs, GoesOn(from, to)
  PROVE  TypeOK'
BY DEF GoesOn, TypeOK, seedVars, shootVars, budgets

LEMMA ReturnsType ==
  ASSUME TypeOK, NEW from, Returns(from)
  PROVE  TypeOK'
BY EndType DEF Returns, TypeOK, seedVars, shootVars, budgets

(* A change by the user keeps to the budget.                               *)
LEMMA DisturbType ==
  ASSUME TypeOK, Disturb
  PROVE  edits' \in 0 .. MaxEdits /\ disturbed' \in BOOLEAN
<1>1. disturbed' \in BOOLEAN
  BY DEF Disturb, InBootstrap
<1>2. edits' \in 0 .. MaxEdits
  BY BoundsAssumption DEF Disturb, Edit, TypeOK
<1> QED
  BY <1>1, <1>2

LEMMA TypeReconcile ==
  ASSUME TypeOK, SnapshotInv, Reconcile
  PROVE  TypeOK'
<1> USE DEF TypeOK, seedVars, shootVars, budgets
<1>1. CASE Begin
  BY <1>1 DEF Begin, ExtensionType, AttemptType, PCs
<1>2. CASE SkipHibernated \/ RejectConfig \/ StartUpkeep \/ StartBootstrap
  BY <1>2, GoesOnType, ReturnsType
  DEF SkipHibernated, RejectConfig, StartUpkeep, StartBootstrap, PCs
<1>3. ASSUME NEW k \in Kinds, Apply(k) PROVE TypeOK'
  <2> DEFINE c == att.config
             x == Slot(c, k)
             o == CreateOrUpdate(obj[x], c.spec[k])
  <2>1. c \in Configs /\ c.spec[k] \in Specs /\ c.ns[k] \in Namespaces /\ x \in Slots
    BY <1>3, AttemptFacts, ConfigFacts DEF SnapshotInv, Apply, applyPc, Kinds
  <2>2. o \in ObjectType
    BY <2>1, CreateOrUpdateFacts
  <2>3. obj' = [obj EXCEPT ![x] = o]
    BY <1>3 DEF Apply
  <2>4. obj' \in [Slots -> ObjectType \union {None}]
    BY <2>1, <2>2, <2>3
  <2>5. pc' \in PCs
    BY <1>3 DEF Apply, waitPc, Kinds, PCs
  <2> QED
    BY <1>3, <2>1, <2>4, <2>5 DEF Apply
<1>4. ASSUME NEW k \in Kinds, SkipSection(k) \/ WaitDone(k) \/ WaitFails(k)
      PROVE TypeOK'
  BY <1>4, GoesOnType, ReturnsType
  DEF SkipSection, WaitDone, WaitFails, afterPc, Kinds, PCs
<1>5. CASE ReconcileSecrets
  <2>1. att.config \in Configs
    BY <1>5, AttemptFacts DEF SyncSecrets, SnapshotInv, ReconcileSecrets
  <2>2. WantedSecrets(att.config) \subseteq Secrets
    BY <2>1, WantedSecretsType
  <2>3. att.config.ns["flux"] \in Namespaces
    BY <2>1, ConfigFacts DEF Kinds
  <2>4. secrets' \subseteq Namespaces \X Secrets
    BY <1>5, <2>2, <2>3 DEF SyncSecrets, ReconcileSecrets
  <2> QED
    BY <1>5, <2>4 DEF SyncSecrets, ReconcileSecrets, PCs
<1>6. CASE ReconcileShootInfo
  <2>1. /\ pc' \in PCs
        /\ att' \in AttemptType \union {NoAttempt}
        /\ disturbed' \in BOOLEAN
    BY <1>6, EndType DEF ReconcileShootInfo, PCs
  <2>2. info' \subseteq Namespaces
    BY <1>6 DEF ReconcileShootInfo
  <2> QED
    BY <1>6, <2>1, <2>2 DEF ReconcileShootInfo
<1>7. CASE SecretsNamespaceMissing \/ InfoNamespaceMissing \/ MarkConflict
  BY <1>7, ReturnsType DEF SecretsNamespaceMissing, InfoNamespaceMissing, MarkConflict
<1>8. CASE SetFluxBootstrapped
  <2>1. att.conds \subseteq Conditions
    BY <1>8, AttemptFacts DEF PatchConditions, SnapshotInv, SetFluxBootstrapped
  <2>2. att.conds \union {Bootstrapped} \in SUBSET Conditions
    BY <2>1 DEF Conditions
  <2>3. ext \in ExtensionType /\ revision + 1 \in Nat
    BY <1>8 DEF PatchConditions, SetFluxBootstrapped
  <2>4. ext' \in ExtensionType
    BY <1>8, <2>2, <2>3 DEF PatchConditions, SetFluxBootstrapped, ExtensionType
  <2> QED
    BY <1>8, <2>3, <2>4, EndType DEF PatchConditions, SetFluxBootstrapped
<1> QED
  BY <1>1, <1>2, <1>3, <1>4, <1>5, <1>6, <1>7, <1>8 DEF Reconcile

LEMMA TypeFail ==
  ASSUME TypeOK, SnapshotInv, Fail
  PROVE  TypeOK'
<1> USE BoundsAssumption, EndType DEF TypeOK, seedVars, shootVars, budgets
<1>1. ASSUME NEW k \in Kinds, ApplyFails(k) PROVE TypeOK'
  <2>1. att.config \in Configs
    BY <1>1, AttemptFacts DEF SnapshotInv, ApplyFails, applyPc, Kinds
  <2>2. att.config.ns[k] \in Namespaces
    BY <2>1, ConfigFacts
  <2> QED
    BY <1>1, <2>2 DEF ApplyFails
<1>2. CASE ReconcileSecretsFails
  <2>1. att.config \in Configs
    BY <1>2, AttemptFacts DEF SnapshotInv, ReconcileSecretsFails
  <2>2. WantedSecrets(att.config) \subseteq Secrets
    BY <2>1, WantedSecretsType
  <2>3. att.config.ns["flux"] \in Namespaces
    BY <2>1, ConfigFacts DEF Kinds
  <2>4. secrets' \subseteq Namespaces \X Secrets
    BY <1>2, <2>2, <2>3 DEF ReconcileSecretsFails
  <2> QED
    BY <1>2, <2>4 DEF ReconcileSecretsFails
<1>3. CASE Abort
  BY <1>3 DEF Abort
<1> QED
  BY <1>1, <1>2, <1>3 DEF Fail

LEMMA TypeEnvironment ==
  ASSUME TypeOK, Environment
  PROVE  TypeOK'
<1> USE BoundsAssumption, DisturbType DEF TypeOK, seedVars, shootVars, budgets, Edit
<1>1. CASE ChangeConfig
  <2>1. ext \in ExtensionType /\ revision + 1 \in Nat
    BY <1>1 DEF ChangeConfig
  <2>2. PICK c \in Configs : ext' = [ext EXCEPT !.config = c, !.rv = revision + 1]
    BY <1>1 DEF ChangeConfig
  <2>3. ext' \in ExtensionType
    BY <2>1, <2>2, ExtensionUpdates
  <2> QED
    BY <1>1, <2>3 DEF ChangeConfig
<1>2. CASE RequestRemoval
  <2>1. ext \in ExtensionType /\ revision + 1 \in Nat
    BY <1>2 DEF RequestRemoval
  <2>2. PICK op \in {"delete", "migrate"} :
               ext' = [ext EXCEPT !.op = op, !.rv = revision + 1]
    BY <1>2 DEF RequestRemoval
  <2>3. ext' \in ExtensionType
    BY <2>1, <2>2, ExtensionUpdates
  <2> QED
    BY <1>2, <2>3 DEF RequestRemoval
<1>3. CASE CreateExtension
  BY <1>3 DEF CreateExtension, NewExtension, ExtensionType
<1>4. CASE Hibernate
  BY <1>4 DEF Hibernate
<1>5. CASE HealthCheck
  <2>1. ext \in ExtensionType /\ revision + 1 \in Nat
    BY <1>5 DEF HealthCheck
  <2>2. ext' \in ExtensionType
    BY <1>5, <2>1, ExtensionUpdates DEF HealthCheck
  <2> QED
    BY <1>5, <2>2 DEF HealthCheck
<1>6. ASSUME NEW x \in Slots, UserWrites(x) PROVE TypeOK'
  <2>1. PICK s \in Specs : obj' = [obj EXCEPT ![x] = CreateOrUpdate(@, s)]
    BY <1>6 DEF UserWrites
  <2>2. CreateOrUpdate(obj[x], s) \in ObjectType
    BY CreateOrUpdateFacts
  <2>3. obj' \in [Slots -> ObjectType \union {None}]
    BY <2>1, <2>2
  <2> QED
    BY <1>6, <2>3 DEF UserWrites
<1>7. ASSUME NEW x \in Slots, UserDeletes(x) PROVE TypeOK'
  BY <1>7 DEF UserDeletes
<1>8. CASE UserDeletesSecret
  BY <1>8 DEF UserDeletesSecret
<1>9. ASSUME NEW ns \in Namespaces, UserDeletesNamespace(ns) PROVE TypeOK'
  BY <1>9 DEF UserDeletesNamespace
<1> QED
  BY <1>1, <1>2, <1>3, <1>4, <1>5, <1>6, <1>7, <1>8, <1>9 DEF Environment

LEMMA TypeFlux ==
  ASSUME TypeOK, NEW x \in Slots, FluxReconciles(x)
  PROVE  TypeOK'
<1>1. obj[x] \in ObjectType
  BY DEF TypeOK, FluxReconciles
<1>2. Outcome(x) \in {"True", "False"}
  BY DEF Outcome
<1> DEFINE o == [obj[x] EXCEPT !.ready = Outcome(x), !.fresh = TRUE]
<1>3. o \in ObjectType
  BY <1>1, <1>2 DEF ObjectType
<1>4. obj' = [obj EXCEPT ![x] = o]
  BY DEF FluxReconciles, TypeOK
<1> QED
  BY <1>3, <1>4 DEF FluxReconciles, TypeOK, seedVars, budgets

LEMMA TypeOperate ==
  ASSUME TypeOK, Operate
  PROVE  TypeOK'
<1> USE DEF TypeOK, shootVars, budgets
<1>1. CASE RemoveExtension
  BY <1>1 DEF RemoveExtension
<1>2. CASE RestoreExtension
  <2>1. ext \in ExtensionType /\ revision + 1 \in Nat
    BY <1>2 DEF RestoreExtension
  <2>2. ext' \in ExtensionType
    BY <1>2, <2>1, ExtensionUpdates DEF RestoreExtension
  <2> QED
    BY <1>2, <2>2 DEF RestoreExtension
<1> QED
  BY <1>1, <1>2 DEF Operate

(* A step keeps the types, if the attempt it is a step of holds a snapshot. *)
LEMMA TypeStep ==
  ASSUME TypeOK, SnapshotInv, [Next]_vars
  PROVE  TypeOK'
<1>1. CASE UNCHANGED vars
  BY <1>1 DEF TypeOK, vars, seedVars, shootVars, budgets
<1> QED
  BY <1>1, TypeReconcile, TypeFail, TypeOperate, TypeEnvironment, TypeFlux DEF Next
-----------------------------------------------------------------------------
(* What the steps do to the Extension, the snapshot and the marker.        *)

(* A step of an attempt after its first leaves the seed alone, except the  *)
(* marking patch; it ends the attempt or keeps its snapshot.               *)
WorkerFrame ==
  /\ ext' = ext /\ revision' = revision
  /\ pc # "idle"
  /\ pc' = "idle" \/ att' = att

LEMMA WorkerSteps ==
  ASSUME Reconcile \/ Fail
  PROVE  Begin \/ SetFluxBootstrapped \/ WorkerFrame
<1> USE DEF seedVars, EndAttempt, WorkerFrame
<1>1. CASE SkipHibernated \/ RejectConfig \/ StartUpkeep \/ StartBootstrap
  BY <1>1 DEF GoesOn, Returns, SkipHibernated, RejectConfig, StartUpkeep, StartBootstrap
<1>2. ASSUME NEW k \in Kinds, Apply(k) \/ SkipSection(k) \/ ApplyFails(k)
      PROVE WorkerFrame
  BY <1>2 DEF GoesOn, Apply, SkipSection, ApplyFails, applyPc, Kinds
<1>3. ASSUME NEW k \in Kinds, WaitDone(k) \/ WaitFails(k) PROVE WorkerFrame
  BY <1>3 DEF GoesOn, Returns, WaitDone, WaitFails, waitPc, Kinds
<1>4. CASE ReconcileSecrets \/ SecretsNamespaceMissing \/ ReconcileSecretsFails
  BY <1>4 DEF Returns, SyncSecrets, ReconcileSecrets, SecretsNamespaceMissing,
     ReconcileSecretsFails
<1>5. CASE ReconcileShootInfo \/ InfoNamespaceMissing
  BY <1>5 DEF Returns, ReconcileShootInfo, InfoNamespaceMissing
<1>6. CASE MarkConflict \/ Abort
  BY <1>6 DEF Returns, MarkConflict, Abort
<1> QED
  BY <1>1, <1>2, <1>3, <1>4, <1>5, <1>6 DEF Reconcile, Fail

(* The environment does not touch the worker. It leaves the Extension      *)
(* alone, gives it a new resourceVersion without adding a condition, or    *)
(* creates it with no condition.                                           *)
LEMMA EnvironmentSteps ==
  ASSUME TypeOK, Environment
  PROVE  /\ pc' = pc /\ att' = att
         /\ \/ ext' = ext /\ revision' = revision
            \/ /\ revision' = revision + 1
               /\ ext' # Absent
               /\ ext'.rv = revision + 1
               /\ ext # Absent => ext'.conds \subseteq ext.conds
               /\ ext = Absent => ext'.conds = {}
<1> USE DEF seedVars
<1>1. CASE ChangeConfig
  <2>1. PICK c \in Configs : ext' = [ext EXCEPT !.config = c, !.rv = revision + 1]
    BY <1>1 DEF ChangeConfig
  <2>2. ext \in ExtensionType /\ revision + 1 \in Nat
    BY <1>1 DEF ChangeConfig, TypeOK
  <2>3. ext' \in ExtensionType
    BY <2>1, <2>2, ExtensionUpdates
  <2> QED
    BY <1>1, <2>1, <2>2, <2>3, SentinelsAssumption DEF ChangeConfig, ExtensionType
<1>2. CASE RequestRemoval
  <2>1. PICK op \in {"delete", "migrate"} :
               ext' = [ext EXCEPT !.op = op, !.rv = revision + 1]
    BY <1>2 DEF RequestRemoval
  <2>2. ext \in ExtensionType /\ revision + 1 \in Nat
    BY <1>2 DEF RequestRemoval, TypeOK
  <2>3. ext' \in ExtensionType
    BY <2>1, <2>2, ExtensionUpdates
  <2> QED
    BY <1>2, <2>1, <2>2, <2>3, SentinelsAssumption DEF RequestRemoval, ExtensionType
<1>3. CASE CreateExtension
  <2>1. ext' \in ExtensionType
    BY <1>3 DEF CreateExtension, NewExtension, ExtensionType, TypeOK
  <2> QED
    BY <1>3, <2>1, SentinelsAssumption DEF CreateExtension, NewExtension
<1>4. CASE Hibernate
  BY <1>4 DEF Hibernate
<1>5. CASE HealthCheck
  <2>1. ext \in ExtensionType /\ revision + 1 \in Nat
    BY <1>5 DEF HealthCheck, TypeOK
  <2>2. ext' \in ExtensionType
    BY <1>5, <2>1, ExtensionUpdates DEF HealthCheck
  <2> QED
    BY <1>5, <2>1, <2>2, SentinelsAssumption DEF HealthCheck, ExtensionType
<1>6. ASSUME NEW x \in Slots, UserWrites(x) \/ UserDeletes(x)
      PROVE ext' = ext /\ revision' = revision /\ pc' = pc /\ att' = att
  BY <1>6 DEF UserWrites, UserDeletes
<1>7. CASE UserDeletesSecret
  BY <1>7 DEF UserDeletesSecret
<1>8. ASSUME NEW ns \in Namespaces, UserDeletesNamespace(ns)
      PROVE ext' = ext /\ revision' = revision /\ pc' = pc /\ att' = att
  BY <1>8 DEF UserDeletesNamespace
<1> QED
  BY <1>1, <1>2, <1>3, <1>4, <1>5, <1>6, <1>7, <1>8 DEF Environment

(* The first step of an attempt takes the snapshot. *)
LEMMA BeginStep ==
  ASSUME TypeOK, Begin
  PROVE  /\ ext' = ext /\ revision' = revision /\ ext # Absent
         /\ pc' = "cluster"
         /\ att' \in AttemptType /\ att' # NoAttempt
         /\ att'.rv = ext.rv /\ att'.conds = ext.conds /\ att'.config = ext.config
<1>1. ext \in ExtensionType
  BY DEF Begin, TypeOK
<1>2. att' \in AttemptType
  BY <1>1 DEF Begin, ExtensionType, AttemptType
<1> QED
  BY <1>2, SentinelsAssumption DEF Begin, seedVars

(* The marking patch meets the Extension that the attempt read. *)
LEMMA MarkStep ==
  ASSUME TypeOK, SnapshotInv, SetFluxBootstrapped
  PROVE  /\ ext # Absent /\ ext' # Absent
         /\ ext'.rv = revision + 1 /\ revision' = revision + 1
         /\ ext'.conds = ext.conds \union {Bootstrapped}
         /\ ext'.config = ext.config /\ att.config = ext.config
         /\ pc' = "idle"
<1>1. ext \in ExtensionType /\ revision + 1 \in Nat
  BY DEF PatchConditions, SetFluxBootstrapped, TypeOK
<1>2. att.conds = ext.conds /\ att.config = ext.config
  BY DEF PatchConditions, SetFluxBootstrapped, SnapshotInv
<1>3. att.conds \union {Bootstrapped} \in SUBSET Conditions
  BY <1>1, <1>2 DEF ExtensionType, Conditions
<1>4. ext' \in ExtensionType
  BY <1>1, <1>3, ExtensionUpdates DEF PatchConditions, SetFluxBootstrapped
<1> QED
  BY <1>1, <1>2, <1>4, SentinelsAssumption
  DEF PatchConditions, SetFluxBootstrapped, EndAttempt, ExtensionType

(* Removal and restore happen between attempts. *)
LEMMA OperateSteps ==
  ASSUME TypeOK, Operate
  PROVE  /\ pc = "idle" /\ pc' = "idle" /\ att' = att
         /\ ext # Absent
         /\ \/ ext' = Absent /\ revision' = revision
            \/ /\ revision' = revision + 1
               /\ ext' # Absent
               /\ ext'.rv = revision + 1
               /\ ext'.conds = ext.conds
<1>1. CASE RemoveExtension
  BY <1>1 DEF RemoveExtension
<1>2. CASE RestoreExtension
  <2>1. ext \in ExtensionType /\ revision + 1 \in Nat
    BY <1>2 DEF RestoreExtension, TypeOK
  <2>2. ext' \in ExtensionType
    BY <1>2, <2>1, ExtensionUpdates DEF RestoreExtension
  <2> QED
    BY <1>2, <2>1, <2>2, SentinelsAssumption DEF RestoreExtension, ExtensionType
<1> QED
  BY <1>1, <1>2 DEF Operate

(* The Flux controllers touch neither the seed nor the worker. *)
LEMMA FluxSteps ==
  ASSUME NEW x \in Slots, FluxReconciles(x)
  PROVE  ext' = ext /\ revision' = revision /\ pc' = pc /\ att' = att
BY DEF FluxReconciles, seedVars

-----------------------------------------------------------------------------
(* The inductive invariant, part by part.                                  *)

LEMMA SnapshotInit == Init => SnapshotInv
<1> SUFFICES ASSUME Init PROVE SnapshotInv
  OBVIOUS
<1>1. ext.rv = 1 /\ revision = 1 /\ pc = "idle"
  BY DEF Init, NewExtension
<1> QED
  BY <1>1 DEF SnapshotInv

LEMMA SnapshotStep ==
  ASSUME TypeOK, SnapshotInv, [Next]_vars
  PROVE  SnapshotInv'
<1>0. /\ revision \in Nat
      /\ ext # Absent => ext.rv \in Nat
      /\ pc # "idle" => att.rv \in Nat
  BY AttemptFacts DEF TypeOK, ExtensionType, SnapshotInv
<1>1. CASE Begin
  BY <1>0, <1>1, BeginStep DEF SnapshotInv
<1>2. CASE SetFluxBootstrapped
  BY <1>0, <1>2, MarkStep DEF SnapshotInv
<1>3. CASE WorkerFrame
  BY <1>3 DEF WorkerFrame, SnapshotInv
<1>4. CASE Operate
  BY <1>0, <1>4, OperateSteps DEF SnapshotInv
<1>5. CASE Environment
  BY <1>0, <1>5, EnvironmentSteps DEF SnapshotInv
<1>6. ASSUME NEW x \in Slots, FluxReconciles(x) PROVE SnapshotInv'
  BY <1>6, FluxSteps DEF SnapshotInv
<1>7. CASE UNCHANGED vars
  BY <1>7 DEF vars, seedVars, SnapshotInv
<1> QED
  BY <1>1, <1>2, <1>3, <1>4, <1>5, <1>6, <1>7, WorkerSteps DEF Next
LEMMA BootstrapInit == Init => BootstrapInv
BY DEF Init, BootstrapInv, waitPc, Kinds

(* Only an unmarked snapshot with a valid config gets to the bootstrap. *)
LEMMA AdmittedSteps ==
  ASSUME BootstrapInv, Reconcile \/ Fail, pc' \notin {"idle", "cluster"}
  PROVE  /\ pc' \notin {"secrets", "info"} => ~IsFluxBootstrapped(att)
         /\ Valid(att.config)
         /\ att' = att
<1> USE DEF BootstrapInv, EndAttempt
<1>1. CASE Begin \/ SkipHibernated \/ RejectConfig
  BY <1>1 DEF Returns, Begin, SkipHibernated, RejectConfig
<1>2. CASE StartUpkeep \/ StartBootstrap
  BY <1>2 DEF GoesOn, StartUpkeep, StartBootstrap
<1>3. ASSUME NEW k \in Kinds, Apply(k) \/ SkipSection(k) \/ WaitDone(k)
      PROVE  ~IsFluxBootstrapped(att) /\ Valid(att.config) /\ att' = att
  BY <1>3 DEF GoesOn, Apply, SkipSection, WaitDone, applyPc, waitPc, Kinds
<1>4. ASSUME NEW k \in Kinds PROVE ~ApplyFails(k) /\ ~WaitFails(k)
  BY DEF Returns, ApplyFails, WaitFails
<1>5. CASE ReconcileSecrets \/ ReconcileShootInfo
  BY <1>5 DEF SyncSecrets, ReconcileSecrets, ReconcileShootInfo
<1>6. CASE SecretsNamespaceMissing \/ InfoNamespaceMissing \/ ReconcileSecretsFails
  BY <1>6 DEF Returns, SecretsNamespaceMissing, InfoNamespaceMissing, ReconcileSecretsFails
<1>7. CASE SetFluxBootstrapped \/ MarkConflict \/ Abort
  BY <1>7 DEF Returns, PatchConditions, SetFluxBootstrapped, MarkConflict, Abort
<1> QED
  BY <1>1, <1>2, <1>3, <1>4, <1>5, <1>6, <1>7 DEF Reconcile, Fail

(* Only applying a section leads to the wait for it. *)
LEMMA WaitSteps ==
  ASSUME Reconcile \/ Fail, NEW k \in Kinds, pc' = waitPc[k]
  PROVE  att' = att /\ att.config.spec[k] # None
<1> USE DEF EndAttempt, Kinds, applyPc, waitPc, afterPc
<1>1. ~Begin /\ ~SkipHibernated /\ ~RejectConfig /\ ~StartUpkeep /\ ~StartBootstrap
  BY DEF GoesOn, Returns, Begin, SkipHibernated, RejectConfig, StartUpkeep, StartBootstrap
<1>2. ASSUME NEW j \in Kinds PROVE ~SkipSection(j) /\ ~WaitDone(j)
  BY DEF GoesOn, SkipSection, WaitDone
<1>3. ASSUME NEW j \in Kinds PROVE ~WaitFails(j) /\ ~ApplyFails(j)
  BY DEF Returns, WaitFails, ApplyFails
<1>4. /\ ~ReconcileSecrets /\ ~SecretsNamespaceMissing /\ ~ReconcileSecretsFails
      /\ ~ReconcileShootInfo /\ ~InfoNamespaceMissing
  BY DEF Returns, SyncSecrets, ReconcileSecrets, SecretsNamespaceMissing,
     ReconcileSecretsFails, ReconcileShootInfo, InfoNamespaceMissing
<1>5. ~SetFluxBootstrapped /\ ~MarkConflict /\ ~Abort
  BY DEF Returns, PatchConditions, SetFluxBootstrapped, MarkConflict, Abort
<1>6. PICK j \in Kinds : Apply(j)
  BY <1>1, <1>2, <1>3, <1>4, <1>5 DEF Reconcile, Fail
<1>7. j = k
  BY <1>6 DEF Apply
<1> QED
  BY <1>6, <1>7 DEF Apply

LEMMA BootstrapStep ==
  ASSUME TypeOK, SnapshotInv, BootstrapInv, [Next]_vars
  PROVE  BootstrapInv'
<1>1. CASE Reconcile \/ Fail
  <2>1. pc' # "idle" /\ ~IsFluxBootstrapped(att') => ~Marked'
    <3>1. CASE Begin
      BY <3>1, BeginStep DEF Marked, IsFluxBootstrapped
    <3>2. CASE SetFluxBootstrapped
      BY <3>2, MarkStep
    <3>3. CASE WorkerFrame
      BY <3>3 DEF WorkerFrame, BootstrapInv, Marked
    <3> QED
      BY <1>1, <3>1, <3>2, <3>3, WorkerSteps
  <2> QED
    BY <1>1, <2>1, AdmittedSteps, WaitSteps DEF BootstrapInv, waitPc, Kinds
<1>2. CASE Operate
  BY <1>2, OperateSteps DEF BootstrapInv, waitPc, Kinds
<1>3. CASE Environment
  <2>1. pc' = pc /\ att' = att
    BY <1>3, EnvironmentSteps
  <2>2. pc # "idle" /\ ~Marked => ~Marked'
    BY <1>3, EnvironmentSteps DEF SnapshotInv, Marked, IsFluxBootstrapped
  <2> QED
    BY <2>1, <2>2 DEF BootstrapInv
<1>4. ASSUME NEW x \in Slots, FluxReconciles(x) PROVE BootstrapInv'
  BY <1>4, FluxSteps DEF BootstrapInv, Marked
<1>5. CASE UNCHANGED vars
  BY <1>5 DEF vars, seedVars, BootstrapInv, Marked
<1> QED
  BY <1>1, <1>2, <1>3, <1>4, <1>5 DEF Next

-----------------------------------------------------------------------------
(* What the steps do to the deployed specs.                                *)

(* Apply deploys its section and leaves the other slots alone. *)
LEMMA ApplyDeploys ==
  ASSUME TypeOK, SnapshotInv, NEW k \in Kinds, Apply(k),
         NEW x, x = Slot(att.config, k)
  PROVE  /\ att.config.spec[k] \in Specs
         /\ x \in Slots
         /\ Deployed(x)' \in {att.config.spec[k], Foreign}
         /\ \A y \in Slots : y # x => Deployed(y)' = Deployed(y)
<1> DEFINE s == att.config.spec[k]
           o == CreateOrUpdate(obj[x], s)
<1>1. s \in Specs /\ x \in Slots
  BY AttemptFacts, ConfigFacts DEF SnapshotInv, Apply, applyPc, Kinds
<1>2. o \in ObjectType /\ o.spec = s
  BY <1>1, CreateOrUpdateFacts DEF TypeOK
<1>3. obj' = [obj EXCEPT ![x] = o] /\ obj \in [Slots -> ObjectType \union {None}]
  BY DEF Apply, TypeOK
<1>4. obj'[x] = o /\ \A y \in Slots : y # x => obj'[y] = obj[y]
  BY <1>1, <1>3
<1>5. touched' = touched \/ touched' = touched \ {x}
  BY DEF Apply
<1>6. Deployed(x)' \in {s, Foreign}
  BY <1>2, <1>4, SentinelsAssumption DEF Deployed
<1>7. \A y \in Slots : y # x => Deployed(y)' = Deployed(y)
  BY <1>4, <1>5 DEF Deployed
<1> QED
  BY <1>1, <1>6, <1>7

(* No other step deploys anything. *)
LEMMA OthersDeployNothing ==
  ASSUME TypeOK, [Next]_vars, \A k \in Kinds : ~Apply(k), NEW x \in Slots
  PROVE  Deployed(x)' \in {Deployed(x), Foreign}
<1> USE DEF Deployed
<1>1. CASE obj' = obj /\ touched' = touched
  BY <1>1
<1>2. CASE Reconcile \/ Fail \/ Operate
  <2>1. obj' = obj /\ touched' = touched
    BY <1>2 DEF GoesOn, Returns, SyncSecrets, PatchConditions,
       Reconcile, Fail, Operate, Begin, SkipHibernated, RejectConfig,
       StartUpkeep, StartBootstrap, SkipSection, WaitDone, WaitFails,
       ReconcileSecrets, SecretsNamespaceMissing, ReconcileShootInfo,
       InfoNamespaceMissing, SetFluxBootstrapped, MarkConflict, ApplyFails,
       ReconcileSecretsFails, Abort, RemoveExtension, RestoreExtension, shootVars
  <2> QED
    BY <1>1, <2>1
<1>3. CASE Environment
  <2>1. ASSUME NEW y \in Slots, UserWrites(y) \/ UserDeletes(y)
        PROVE  Deployed(x)' \in {Deployed(x), Foreign}
    BY <2>1 DEF UserWrites, UserDeletes, TypeOK
  <2>2. ASSUME NEW ns \in Namespaces, UserDeletesNamespace(ns)
        PROVE  Deployed(x)' \in {Deployed(x), Foreign}
    BY <2>2 DEF UserDeletesNamespace
  <2>3. CASE ChangeConfig \/ RequestRemoval \/ CreateExtension \/ Hibernate
             \/ HealthCheck \/ UserDeletesSecret
    <3>1. obj' = obj /\ touched' = touched
      BY <2>3 DEF ChangeConfig, RequestRemoval, CreateExtension, Hibernate,
         HealthCheck, UserDeletesSecret, shootVars
    <3> QED
      BY <1>1, <3>1
  <2> QED
    BY <1>3, <2>1, <2>2, <2>3 DEF Environment
<1>4. ASSUME NEW y \in Slots, FluxReconciles(y)
      PROVE  Deployed(x)' \in {Deployed(x), Foreign}
  <2>1. obj \in [Slots -> ObjectType \union {None}] /\ obj[y] # None
    BY <1>4 DEF FluxReconciles, TypeOK
  <2>2. obj'[y].spec = obj[y].spec /\ obj'[y] \in ObjectType
    <3>1. obj[y] \in ObjectType
      BY <2>1
    <3>2. obj'[y] = [obj[y] EXCEPT !.ready = Outcome(y), !.fresh = TRUE]
      BY <1>4, <2>1 DEF FluxReconciles
    <3>3. Outcome(y) \in {"True", "False"}
      BY DEF Outcome
    <3> QED
      BY <3>1, <3>2, <3>3 DEF ObjectType
  <2>3. x # y => obj'[x] = obj[x]
    BY <1>4, <2>1 DEF FluxReconciles
  <2>4. touched' = touched
    BY <1>4 DEF FluxReconciles
  <2> QED
    BY <2>1, <2>2, <2>3, <2>4, SentinelsAssumption
<1>5. CASE UNCHANGED vars
  BY <1>1, <1>5 DEF vars, shootVars
<1> QED
  BY <1>2, <1>3, <1>4, <1>5 DEF Next

-----------------------------------------------------------------------------
LEMMA ProgressInit == Init => ProgressInv
BY DEF Init, ProgressInv, InBootstrap

(* An attempt gets past a section that its config has by applying it. *)
LEMMA ProgressSteps ==
  ASSUME Reconcile \/ Fail, BootstrapInv, InBootstrap', NEW k \in Kinds, ~Apply(k),
         pc' \in doneAt[k], att'.config.spec[k] # None
  PROVE  att' = att /\ InBootstrap /\ pc \in doneAt[k]
<1> USE DEF InBootstrap, EndAttempt, PCs, Kinds, doneAt
<1>1. CASE Begin \/ SkipHibernated \/ RejectConfig
  BY <1>1 DEF Returns, Begin, SkipHibernated, RejectConfig
<1>2. CASE StartUpkeep \/ StartBootstrap
  BY <1>2 DEF GoesOn, StartUpkeep, StartBootstrap
<1>3. ASSUME NEW j \in Kinds, Apply(j)
      PROVE att' = att /\ InBootstrap /\ pc \in doneAt[k]
  <2>1. j # k /\ att' = att /\ pc = applyPc[j] /\ pc' = waitPc[j]
    BY <1>3 DEF Apply
  <2>2. CASE j = "flux"
    BY <2>1, <2>2 DEF waitPc
  <2>3. CASE j = "source"
    BY <2>1, <2>3 DEF applyPc, waitPc
  <2>4. CASE j = "kust"
    BY <2>1, <2>4 DEF applyPc, waitPc
  <2> QED
    BY <2>2, <2>3, <2>4
<1>4. ASSUME NEW j \in Kinds, SkipSection(j)
      PROVE att' = att /\ InBootstrap /\ pc \in doneAt[k]
  BY <1>4 DEF GoesOn, SkipSection, applyPc, afterPc
<1>5. ASSUME NEW j \in Kinds, WaitDone(j)
      PROVE att' = att /\ InBootstrap /\ pc \in doneAt[k]
  BY <1>5 DEF GoesOn, WaitDone, waitPc, afterPc
<1>6. ASSUME NEW j \in Kinds PROVE ~ApplyFails(j) /\ ~WaitFails(j)
  BY DEF Returns, ApplyFails, WaitFails
<1>7. CASE ReconcileSecrets \/ ReconcileShootInfo
  BY <1>7 DEF SyncSecrets, ReconcileSecrets, ReconcileShootInfo
<1>8. CASE SecretsNamespaceMissing \/ InfoNamespaceMissing \/ ReconcileSecretsFails
  BY <1>8 DEF Returns, SecretsNamespaceMissing, InfoNamespaceMissing, ReconcileSecretsFails
<1>9. CASE SetFluxBootstrapped \/ MarkConflict \/ Abort
  BY <1>9 DEF Returns, PatchConditions, SetFluxBootstrapped, MarkConflict, Abort
<1> QED
  BY <1>1, <1>2, <1>3, <1>4, <1>5, <1>6, <1>7, <1>8, <1>9 DEF Reconcile, Fail

LEMMA ProgressStep ==
  ASSUME TypeOK, SnapshotInv, BootstrapInv, ProgressInv, [Next]_vars
  PROVE  ProgressInv'
<1> SUFFICES ASSUME NEW k \in Kinds, InBootstrap', pc' \in doneAt[k],
                    att'.config.spec[k] # None
             PROVE  Deployed(Slot(att.config, k))' \in {att'.config.spec[k], Foreign}
  BY DEF ProgressInv
<1> DEFINE x == Slot(att.config, k)
<1>1. CASE att' = att /\ InBootstrap /\ pc \in doneAt[k] /\ \A j \in Kinds : ~Apply(j)
  <2>1. x \in Slots
    BY <1>1, AttemptFacts, ConfigFacts DEF SnapshotInv, InBootstrap
  <2>2. Deployed(x) \in {att.config.spec[k], Foreign}
    BY <1>1 DEF ProgressInv
  <2>3. \A y \in Slots : Deployed(y)' \in {Deployed(y), Foreign}
    BY <1>1, OthersDeployNothing
  <2>4. \A y \in Slots : y = x => Deployed(y)' \in {att.config.spec[k], Foreign}
    BY <2>2, <2>3
  <2> QED
    BY <1>1, <2>1, <2>4 DEF Deployed
<1>2. ASSUME NEW j \in Kinds, Apply(j)
      PROVE  Deployed(Slot(att.config, k))' \in {att'.config.spec[k], Foreign}
  <2>1. att' = att
    BY <1>2 DEF Apply
  <2>2. \A y : y = Slot(att.config, j) =>
           /\ Deployed(y)' \in {att.config.spec[j], Foreign}
           /\ \A z \in Slots : z # y => Deployed(z)' = Deployed(z)
    BY <1>2, ApplyDeploys
  <2>3. CASE j = k
    BY <2>1, <2>2, <2>3 DEF Deployed
  <2>4. CASE j # k
    <3>1. InBootstrap /\ pc \in doneAt[k]
      <4>1. ~Apply(k)
        BY <1>2, <2>4 DEF Apply, applyPc, Kinds
      <4> QED
        BY <1>2, <4>1, ProgressSteps DEF Reconcile
    <3>2. x \in Slots /\ x # Slot(att.config, j)
      BY <2>4, <3>1, AttemptFacts, ConfigFacts, SlotsDiffer DEF SnapshotInv, InBootstrap
    <3>3. Deployed(x) \in {att.config.spec[k], Foreign}
      BY <2>1, <3>1 DEF ProgressInv
    <3>4. \A y : y = x => Deployed(y)' \in {att.config.spec[k], Foreign}
      BY <2>2, <3>2, <3>3
    <3> QED
      BY <2>1, <3>4 DEF Deployed
  <2> QED
    BY <2>3, <2>4
<1>3. CASE (Reconcile \/ Fail) /\ \A j \in Kinds : ~Apply(j)
  BY <1>1, <1>3, ProgressSteps
<1>4. CASE Operate
  BY <1>4, OperateSteps DEF InBootstrap
<1>5. CASE Environment \/ \E y \in Slots : FluxReconciles(y)
  <2>1. pc' = pc /\ att' = att
    BY <1>5, EnvironmentSteps, FluxSteps
  <2>2. \A j \in Kinds : ~Apply(j)
    <3>1. pc' = pc
      BY <2>1
    <3> QED
      BY <3>1 DEF Apply, applyPc, waitPc, Kinds
  <2> QED
    BY <1>1, <2>1, <2>2 DEF InBootstrap
<1>6. CASE UNCHANGED vars
  <2>1. pc' = pc /\ att' = att
    BY <1>6 DEF vars
  <2>2. \A j \in Kinds : ~Apply(j)
    BY <2>1 DEF Apply, applyPc, waitPc, Kinds
  <2> QED
    BY <1>1, <2>1, <2>2 DEF InBootstrap
<1> QED
  BY <1>2, <1>3, <1>4, <1>5, <1>6 DEF Next

-----------------------------------------------------------------------------
(* What the bootstrap provides.                                            *)

LEMMA ProvidedInit == Init => ProvidedInv
BY DEF Init, ProvidedInv, InBootstrap

(* The steps that lead on in the bootstrap. *)
LEMMA BootstrapSteps ==
  ASSUME Reconcile \/ Fail, InBootstrap'
  PROVE  /\ \/ StartBootstrap \/ ReconcileSecrets \/ ReconcileShootInfo
            \/ \E k \in Kinds : Apply(k) \/ SkipSection(k) \/ WaitDone(k)
         /\ att' = att /\ disturbed' = disturbed
<1> USE DEF InBootstrap, EndAttempt
<1>1. /\ ~Begin /\ ~SkipHibernated /\ ~RejectConfig
      /\ ~SecretsNamespaceMissing /\ ~InfoNamespaceMissing
      /\ ~SetFluxBootstrapped /\ ~MarkConflict
      /\ ~ReconcileSecretsFails /\ ~Abort
  BY DEF Returns, Begin, SkipHibernated, RejectConfig, SecretsNamespaceMissing,
     InfoNamespaceMissing, PatchConditions, SetFluxBootstrapped, MarkConflict,
     ReconcileSecretsFails, Abort
<1>2. ~StartUpkeep
  BY DEF GoesOn, StartUpkeep
<1>3. ASSUME NEW k \in Kinds PROVE ~WaitFails(k) /\ ~ApplyFails(k)
  BY DEF Returns, WaitFails, ApplyFails
<1>4. \/ StartBootstrap \/ ReconcileSecrets \/ ReconcileShootInfo
      \/ \E k \in Kinds : Apply(k) \/ SkipSection(k) \/ WaitDone(k)
  BY <1>1, <1>2, <1>3 DEF Reconcile, Fail
<1>5. att' = att /\ disturbed' = disturbed
  BY <1>4 DEF GoesOn, SyncSecrets, StartBootstrap, ReconcileSecrets, ReconcileShootInfo,
     Apply, SkipSection, WaitDone
<1> QED
  BY <1>4, <1>5

(* Along these steps an attempt gets past a section by applying it, and on *)
(* from its wait by finding it ready; it gets past the secrets and the     *)
(* ConfigMap by reconciling them.                                          *)
LEMMA BootstrapOrder ==
  ASSUME TypeOK, Reconcile \/ Fail, InBootstrap'
  PROVE  /\ \A k \in Kinds :
              pc' \in doneAt[k] /\ ~Apply(k) /\ att.config.spec[k] # None =>
                /\ pc \in doneAt[k] /\ InBootstrap
                /\ pc = waitPc[k] => WaitDone(k)
         /\ pc' \in doneAt["source"] \union {"applySource"} /\ ~ReconcileSecrets =>
              pc \in doneAt["source"] \union {"applySource"} /\ InBootstrap
         /\ pc' \in doneAt["kust"] \union {"applyKust"} /\ ~ReconcileShootInfo =>
              pc \in doneAt["kust"] \union {"applyKust"} /\ InBootstrap
<1> USE DEF InBootstrap, PCs, Kinds, doneAt, applyPc, waitPc, afterPc
<1>1. CASE StartBootstrap
  BY <1>1 DEF GoesOn, StartBootstrap
<1>2. CASE ReconcileSecrets \/ ReconcileShootInfo
  BY <1>2 DEF SyncSecrets, ReconcileSecrets, ReconcileShootInfo, EndAttempt
<1>3. ASSUME NEW k \in Kinds, Apply(k)
      PROVE pc = applyPc[k] /\ pc' = waitPc[k] /\ InBootstrap
  BY <1>3 DEF Apply
<1>4. ASSUME NEW k \in Kinds, SkipSection(k)
      PROVE /\ pc = applyPc[k] /\ pc' = afterPc[k] /\ InBootstrap
            /\ att.config.spec[k] = None
  BY <1>4 DEF GoesOn, SkipSection
<1>5. ASSUME NEW k \in Kinds, WaitDone(k)
      PROVE pc = waitPc[k] /\ pc' = afterPc[k] /\ InBootstrap
  BY <1>5 DEF GoesOn, WaitDone
<1> QED
  BY <1>1, <1>2, <1>3, <1>4, <1>5, BootstrapSteps

(* A step of the bootstrap leaves alone what other steps have provided. *)
LEMMA BootstrapKeeps ==
  ASSUME TypeOK, SnapshotInv, Reconcile \/ Fail, InBootstrap'
  PROVE  /\ namespaces \subseteq namespaces'
         /\ \A k \in Kinds : ~Apply(k) /\ pc # "idle" =>
              obj'[Slot(att.config, k)] = obj[Slot(att.config, k)]
         /\ ~ReconcileSecrets => secrets' = secrets
         /\ info \subseteq info'
<1>1. CASE StartBootstrap \/ ReconcileSecrets \/ ReconcileShootInfo
  BY <1>1 DEF GoesOn, StartBootstrap, SyncSecrets, ReconcileSecrets, ReconcileShootInfo,
     shootVars
<1>2. ASSUME NEW j \in Kinds, SkipSection(j) \/ WaitDone(j)
      PROVE  UNCHANGED shootVars
  BY <1>2 DEF GoesOn, SkipSection, WaitDone
<1>3. ASSUME NEW j \in Kinds, Apply(j)
      PROVE  /\ namespaces \subseteq namespaces' /\ secrets' = secrets /\ info' = info
             /\ \A k \in Kinds : ~Apply(k) =>
                  obj'[Slot(att.config, k)] = obj[Slot(att.config, k)]
  <2>1. att.config \in Configs
    BY <1>3, AttemptFacts DEF SnapshotInv, Apply, applyPc, Kinds
  <2>2. \A k \in Kinds : k # j => Slot(att.config, k) # Slot(att.config, j)
    BY SlotsDiffer
  <2>3. \A k \in Kinds : Slot(att.config, k) \in Slots
    BY <2>1, ConfigFacts
  <2> QED
    BY <1>3, <2>2, <2>3 DEF Apply, TypeOK
<1> QED
  BY <1>1, <1>2, <1>3, BootstrapSteps DEF shootVars

(* The namespace and the object of a section are there, as applied. *)
Provided(k) ==
  LET c == att.config IN
  /\ c.ns[k] \in namespaces
  /\ obj[Slot(c, k)] # None /\ obj[Slot(c, k)].spec = c.spec[k]

(* The worker provides what the invariant says. *)
LEMMA WorkerProvides ==
  ASSUME TypeOK, SnapshotInv, ProvidedInv, Reconcile \/ Fail
  PROVE  ProvidedInv'
<1> SUFFICES ASSUME InBootstrap', ~disturbed' PROVE ProvidedInv'
  BY DEF ProvidedInv
<1>1. att' = att /\ disturbed' = disturbed
  BY BootstrapSteps
<1>2. pc # "idle"
  BY BootstrapSteps DEF StartBootstrap, GoesOn, ReconcileSecrets, SyncSecrets,
     ReconcileShootInfo, Apply, SkipSection, WaitDone, applyPc, waitPc, Kinds
<1>3. ASSUME NEW k \in Kinds, pc' \in doneAt[k], att.config.spec[k] # None
      PROVE  /\ Provided(k)'
             /\ Deployable(att.config) /\ pc' # waitPc[k] =>
                  Healthy(k, obj'[Slot(att.config, k)])
  <2>1. CASE Apply(k)
    <3>1. att.config \in Configs
      BY <1>2, AttemptFacts DEF SnapshotInv
    <3>2. Slot(att.config, k) \in Slots /\ att.config.spec[k] \in Specs
      BY <1>3, <3>1, ConfigFacts
    <3>3. obj'[Slot(att.config, k)] =
            CreateOrUpdate(obj[Slot(att.config, k)], att.config.spec[k])
      BY <2>1, <3>2 DEF Apply, TypeOK
    <3>4. obj'[Slot(att.config, k)] \in ObjectType
          /\ obj'[Slot(att.config, k)].spec = att.config.spec[k]
      BY <3>2, <3>3, CreateOrUpdateFacts DEF TypeOK
    <3> QED
      BY <1>1, <2>1, <3>4, SentinelsAssumption DEF Apply, Provided
  <2>2. CASE ~Apply(k)
    <3>1. pc \in doneAt[k] /\ InBootstrap
      BY <1>3, <2>2, BootstrapOrder
    <3>2. Provided(k)
      BY <1>1, <1>3, <3>1 DEF ProvidedInv, Provided
    <3>3. Deployable(att.config) => Healthy(k, obj[Slot(att.config, k)])
      <4>1. CASE pc = waitPc[k]
        BY <1>3, <2>2, <4>1, BootstrapOrder DEF WaitDone
      <4>2. CASE pc # waitPc[k]
        BY <1>1, <1>3, <3>1, <4>2 DEF ProvidedInv
      <4> QED
        BY <4>1, <4>2
    <3>4. obj'[Slot(att.config, k)] = obj[Slot(att.config, k)]
          /\ namespaces \subseteq namespaces'
      BY <1>2, <2>2, BootstrapKeeps
    <3> QED
      BY <1>1, <3>2, <3>3, <3>4 DEF Provided
  <2> QED
    BY <2>1, <2>2
<1>4. pc' \in doneAt["source"] \union {"applySource"} =>
        {att.config.ns["flux"]} \X WantedSecrets(att.config) \subseteq secrets'
  <2>1. CASE ReconcileSecrets
    BY <2>1 DEF ReconcileSecrets, SyncSecrets
  <2>2. CASE ~ReconcileSecrets
    BY <1>1, <2>2, BootstrapOrder, BootstrapKeeps DEF ProvidedInv
  <2> QED
    BY <2>1, <2>2
<1>5. pc' \in doneAt["kust"] \union {"applyKust"} => att.config.ns["flux"] \in info'
  <2>1. CASE ReconcileShootInfo
    BY <2>1 DEF ReconcileShootInfo
  <2>2. CASE ~ReconcileShootInfo
    BY <1>1, <2>2, BootstrapOrder, BootstrapKeeps DEF ProvidedInv
  <2> QED
    BY <2>1, <2>2
<1> QED
  BY <1>1, <1>3, <1>4, <1>5 DEF ProvidedInv, Provided

(* What a section that has been applied takes to get ready is there, if the *)
(* config can come up at all and the user has not interfered.               *)
LEMMA CanGetReady ==
  ASSUME TypeOK, SnapshotInv, ProvidedInv, InBootstrap, ~disturbed, Deployable(att.config),
         NEW k \in Kinds, pc \in doneAt[k], att.config.spec[k] # None
  PROVE  Outcome(Slot(att.config, k)) = "True"
<1> DEFINE c == att.config
           s == c.spec[k]
<1>1. c \in Configs
  BY AttemptFacts DEF SnapshotInv, InBootstrap
<1>2. s \in Specs /\ c.ns[k] \in Namespaces
  BY <1>1, ConfigFacts
<1>3. obj[Slot(c, k)].spec = s /\ s \in Works
  BY DEF ProvidedInv, Deployable
<1>4. CASE k = "flux"
  BY <1>3, <1>4 DEF Outcome, Slot
<1>5. CASE k = "source"
  <2>1. WantedSecrets(c) = {SecretRef[s]} \ {None}
    BY <1>5 DEF WantedSecrets
  <2>2. {c.ns["flux"]} \X WantedSecrets(c) \subseteq secrets
    BY <1>5 DEF ProvidedInv
  <2>3. SecretRef[s] # None => <<c.ns[k], SecretRef[s]>> \in secrets
    BY <1>5, <2>1, <2>2 DEF Deployable
  <2> QED
    BY <1>3, <1>5, <2>3 DEF Outcome, Slot
<1>6. CASE k = "kust"
  <2>1. /\ pc \in doneAt["source"] /\ pc # waitPc["source"]
        /\ c.spec["source"] # None /\ c.ns["source"] \in Namespaces
    BY <1>1, <1>6, ConfigFacts DEF doneAt, waitPc, Deployable, Valid, Kinds
  <2>2. SourceReady
    BY <2>1 DEF ProvidedInv, SourceReady, Slot, Kinds
  <2>3. s \in NeedsInfo => c.ns[k] \in info
    BY <1>6 DEF ProvidedInv, Deployable
  <2> QED
    BY <1>3, <1>6, <2>2, <2>3 DEF Outcome, Slot
<1> QED
  BY <1>4, <1>5, <1>6 DEF Kinds

(* The Flux controllers do not undo it. *)
LEMMA FluxProvides ==
  ASSUME TypeOK, SnapshotInv, ProvidedInv, NEW x \in Slots, FluxReconciles(x)
  PROVE  ProvidedInv'
<1> SUFFICES ASSUME InBootstrap', ~disturbed' PROVE ProvidedInv'
  BY DEF ProvidedInv
<1>1. /\ pc' = pc /\ att' = att /\ disturbed' = disturbed
      /\ namespaces' = namespaces /\ secrets' = secrets /\ info' = info
      /\ InBootstrap /\ ~disturbed
  BY DEF FluxReconciles, InBootstrap
<1>2. ASSUME NEW k \in Kinds, pc \in doneAt[k], att.config.spec[k] # None
      PROVE  /\ Provided(k)'
             /\ Deployable(att.config) /\ pc # waitPc[k] =>
                  Healthy(k, obj'[Slot(att.config, k)])
  <2> DEFINE y == Slot(att.config, k)
  <2>1. Provided(k) /\ (Deployable(att.config) /\ pc # waitPc[k] => Healthy(k, obj[y]))
    BY <1>1, <1>2 DEF ProvidedInv, Provided
  <2>2. y \in Slots
    BY <1>1, AttemptFacts, ConfigFacts DEF SnapshotInv, InBootstrap
  <2>3. CASE y # x
    <3>1. obj'[y] = obj[y]
      BY <2>2, <2>3 DEF FluxReconciles, TypeOK
    <3> QED
      BY <1>1, <2>1, <3>1 DEF Provided
  <2>4. CASE y = x
    <3> DEFINE o == [obj[y] EXCEPT !.ready = Outcome(y), !.fresh = TRUE]
    <3>1. obj'[y] = o
      BY <2>2, <2>4 DEF FluxReconciles, TypeOK
    <3>2. obj[y] \in ObjectType
      BY <2>2, <2>4 DEF FluxReconciles, TypeOK
    <3>3. Outcome(y) \in {"True", "False"}
      BY DEF Outcome
    <3>4. o \in ObjectType /\ o.spec = obj[y].spec /\ o.ready = Outcome(y) /\ o.fresh
      BY <3>2, <3>3 DEF ObjectType
    <3>5. Provided(k)'
      BY <1>1, <2>1, <3>1, <3>4, SentinelsAssumption DEF Provided
    <3>6. Deployable(att.config) => Outcome(y) = "True"
      BY <1>1, <1>2, CanGetReady
    <3> HIDE DEF o
    <3>7. Deployable(att.config) => Healthy(k, obj'[y])
      BY <3>1, <3>4, <3>6, SentinelsAssumption DEF Healthy
    <3> QED
      BY <3>5, <3>7
  <2> QED
    BY <2>3, <2>4
<1> QED
  BY <1>1, <1>2 DEF ProvidedInv, Provided

(* Nor does the gardenlet; what the user changes ends the promise. *)
LEMMA EnvironmentProvides ==
  ASSUME TypeOK, ProvidedInv, Environment
  PROVE  ProvidedInv'
<1>1. CASE UNCHANGED <<namespaces, obj, secrets, info, pc, att, disturbed>>
  BY <1>1 DEF ProvidedInv, InBootstrap
<1>2. CASE Disturb /\ UNCHANGED <<pc, att>>
  BY <1>2 DEF ProvidedInv, InBootstrap, Disturb
<1> QED
  BY <1>1, <1>2 DEF Environment, ChangeConfig, RequestRemoval, CreateExtension, Hibernate,
     HealthCheck, UserWrites, UserDeletes, UserDeletesSecret, UserDeletesNamespace, shootVars

LEMMA ProvidedStep ==
  ASSUME TypeOK, SnapshotInv, ProvidedInv, [Next]_vars
  PROVE  ProvidedInv'
<1>1. CASE Operate
  BY <1>1, OperateSteps DEF ProvidedInv, InBootstrap
<1>2. CASE UNCHANGED vars
  BY <1>2 DEF vars, shootVars, ProvidedInv, InBootstrap
<1> QED
  BY <1>1, <1>2, WorkerProvides, EnvironmentProvides, FluxProvides DEF Next

-----------------------------------------------------------------------------
(* Theorems.                                                               *)

(* Every variable keeps its type, and the inductive invariant holds: while *)
(* an attempt bootstraps nobody else marks the Extension, each section it  *)
(* has passed is deployed as its config says or has become the user's, and *)
(* what it has provided stays until the user interferes.                   *)
THEOREM InvariantHolds == Spec => [](TypeOK /\ IndInv)
<1>1. Init => TypeOK /\ IndInv
  BY TypeInit, SnapshotInit, BootstrapInit, ProgressInit, ProvidedInit DEF IndInv
<1>2. TypeOK /\ IndInv /\ [Next]_vars => (TypeOK /\ IndInv)'
  BY TypeStep, SnapshotStep, BootstrapStep, ProgressStep, ProvidedStep DEF IndInv
<1> QED
  BY <1>1, <1>2, PTL DEF Spec

(* Type correctness of the specification. *)
THEOREM TypeCorrect == Spec => []TypeOK
BY InvariantHolds, PTL

(* The steps of a bootstrap are ordered so that none waits for what only a *)
(* later one brings: the secrets come before the source, the ConfigMap and *)
(* the source before the Kustomization, all of them before the marking.    *)
THEOREM NothingIsAwaitedInVain == Spec => []NoWaitInVain
<1>1. ASSUME TypeOK, IndInv PROVE NoWaitInVain
  <2> DEFINE c == att.config
  <2> SUFFICES ASSUME InBootstrap, ~disturbed, Deployable(c)
               PROVE  /\ pc \in {"secrets", "info"} => c.ns["flux"] \in namespaces
                      /\ \A k \in Kinds : pc = waitPc[k] =>
                           /\ Outcome(Slot(c, k)) = "True"
                           /\ k # "flux" => FluxRunning
                      /\ pc = "mark" =>
                           \A k \in Kinds : c.spec[k] # None =>
                             Healthy(k, obj[Slot(c, k)])
    BY DEF NoWaitInVain
  <2>1. c \in Configs
    BY <1>1, AttemptFacts DEF IndInv, SnapshotInv, InBootstrap
  <2>2. c.spec["flux"] # None /\ c.ns["flux"] \in Namespaces
    BY <2>1, ConfigsAssumption, ConfigFacts DEF Kinds
  <2>3. pc \in doneAt["flux"] => c.ns["flux"] \in namespaces
    BY <1>1, <2>2 DEF IndInv, ProvidedInv, Kinds
  <2>4. pc \in doneAt["flux"] \ {waitPc["flux"]} => FluxRunning
    BY <1>1, <2>2 DEF IndInv, ProvidedInv, FluxRunning, Slot, Kinds
  <2>5. ASSUME NEW k \in Kinds, pc = waitPc[k]
        PROVE  pc \in doneAt[k] /\ c.spec[k] # None
               /\ (k # "flux" => pc \in doneAt["flux"] \ {waitPc["flux"]})
    BY <1>1, <2>5 DEF IndInv, BootstrapInv, waitPc, doneAt, Kinds, PCs
  <2>6. pc = "mark" => \A k \in Kinds : pc \in doneAt[k] /\ pc # waitPc[k]
    BY DEF doneAt, waitPc, Kinds, PCs
  <2>7. pc \in {"secrets", "info"} => pc \in doneAt["flux"]
    BY DEF doneAt, PCs
  <2> QED
    BY <1>1, <2>3, <2>4, <2>5, <2>6, <2>7, CanGetReady DEF IndInv, ProvidedInv
<1> QED
  BY <1>1, InvariantHolds, PTL

(* While the Extension is marked no step of anyone writes a Flux resource  *)
(* on the extension's behalf.                                              *)
THEOREM MarkedFreezes == Spec => MarkedFreezesFlux
<1>1. ASSUME TypeOK, IndInv, [Next]_vars, Marked, NEW x \in Slots
      PROVE  Deployed(x)' \in {Deployed(x), Foreign}
  <2>1. ASSUME NEW k \in Kinds PROVE ~Apply(k)
    BY <1>1 DEF Apply, applyPc, Kinds, IndInv, BootstrapInv
  <2> QED
    BY <1>1, <2>1, OthersDeployNothing
<1>2. TypeOK /\ IndInv /\ [Next]_vars =>
        [Marked => \A x \in Slots : Deployed(x)' \in {Deployed(x), Foreign}]_vars
  BY <1>1
<1> QED
  BY <1>2, InvariantHolds, PTL DEF Spec, MarkedFreezesFlux

(* No step but the marking patch marks an Extension. *)
LEMMA OnlyThePatchMarks ==
  ASSUME TypeOK, IndInv, [Next]_vars, Marks
  PROVE  SetFluxBootstrapped
<1> USE DEF Marks, Marked, IsFluxBootstrapped
<1>1. CASE Reconcile \/ Fail
  BY <1>1, WorkerSteps, BeginStep DEF WorkerFrame
<1>2. CASE Operate
  BY <1>2, OperateSteps
<1>3. CASE Environment
  BY <1>3, EnvironmentSteps
<1>4. ASSUME NEW x \in Slots, FluxReconciles(x) PROVE FALSE
  BY <1>4, FluxSteps
<1>5. CASE UNCHANGED vars
  BY <1>5 DEF vars, seedVars
<1> QED
  BY <1>1, <1>2, <1>3, <1>4, <1>5 DEF Next

(* The marking patch finds the config it was computed for deployed, and    *)
(* that is the config of the Extension at that moment, an accepted one.    *)
LEMMA MarkFindsConfigDeployed ==
  ASSUME TypeOK, IndInv, SetFluxBootstrapped
  PROVE  /\ ext'.config = ext.config /\ ext.config \in Configs /\ Valid(ext.config)
         /\ \A k \in Kinds : ext.config.spec[k] # None =>
              Deployed(Slot(ext.config, k)) \in {ext.config.spec[k], Foreign}
<1>1. ext'.config = ext.config /\ att.config = ext.config /\ ext # Absent
  BY MarkStep DEF IndInv
<1>2. pc = "mark" /\ InBootstrap /\ Valid(att.config)
  BY DEF PatchConditions, SetFluxBootstrapped, IndInv, BootstrapInv, InBootstrap
<1>3. \A k \in Kinds : pc \in doneAt[k]
  BY <1>2 DEF doneAt, Kinds, PCs
<1>4. ext.config \in Configs
  BY <1>1 DEF TypeOK, ExtensionType
<1> QED
  BY <1>1, <1>2, <1>3, <1>4 DEF IndInv, ProgressInv

(* When the Extension is marked, the config it carries is deployed.        *)
THEOREM MarkMeansDeployed == Spec => MarkedConfigDeployed
<1>1. ASSUME TypeOK, IndInv, [Next]_vars, Marks, NEW k \in Kinds,
             ext'.config.spec[k] # None
      PROVE  Deployed(Slot(ext'.config, k)) \in {ext'.config.spec[k], Foreign}
  BY <1>1, OnlyThePatchMarks, MarkFindsConfigDeployed
<1>2. TypeOK /\ IndInv /\ [Next]_vars =>
        [Marks => \A k \in Kinds : ext'.config.spec[k] # None =>
           Deployed(Slot(ext'.config, k)) \in {ext'.config.spec[k], Foreign}]_vars
  BY <1>1
<1> QED
  BY <1>2, InvariantHolds, PTL DEF Spec, MarkedConfigDeployed

(* The environment loses no marker and brings back no condition. *)
LEMMA EnvironmentKeepsMarker ==
  ASSUME TypeOK, Environment, ext # Absent
  PROVE  /\ Bootstrapped \in ext.conds => Bootstrapped \in ext'.conds
         /\ Legacy \notin ext.conds => Legacy \notin ext'.conds
<1>1. ext \in ExtensionType
  BY DEF TypeOK
<1>2. ext'.conds \in {ext.conds, ext.conds \ {Legacy}}
  BY <1>1 DEF Environment, ChangeConfig, RequestRemoval, CreateExtension, Hibernate,
     HealthCheck, UserWrites, UserDeletes, UserDeletesSecret, UserDeletesNamespace,
     seedVars, ExtensionType
<1> QED
  BY <1>2 DEF Legacy, Bootstrapped

(* No step loses the marker or brings back a condition. *)
LEMMA MarkerIsKept ==
  ASSUME TypeOK, IndInv, [Next]_vars, ext # Absent, ext' # Absent
  PROVE  /\ Legacy \notin ext.conds => Legacy \notin ext'.conds
         /\ IsFluxBootstrapped(ext) => IsFluxBootstrapped(ext')
<1> USE DEF IsFluxBootstrapped
<1>1. CASE Begin
  BY <1>1, BeginStep
<1>2. CASE SetFluxBootstrapped
  BY <1>2, MarkStep DEF IndInv, Legacy, Bootstrapped
<1>3. CASE WorkerFrame
  BY <1>3 DEF WorkerFrame
<1>4. CASE Operate
  BY <1>4, OperateSteps
<1>5. CASE Environment
  BY <1>5, EnvironmentKeepsMarker
<1>6. ASSUME NEW x \in Slots, FluxReconciles(x) PROVE ext' = ext
  BY <1>6, FluxSteps
<1>7. CASE UNCHANGED vars
  BY <1>7 DEF vars, seedVars
<1> QED
  BY <1>1, <1>2, <1>3, <1>4, <1>5, <1>6, <1>7, WorkerSteps DEF Next

(* The marking patch resurrects no condition, and no step loses the marker. *)
THEOREM ConditionsAreKept == Spec => ConditionsKept
<1>1. TypeOK /\ IndInv /\ [Next]_vars =>
        [ext # Absent /\ ext' # Absent =>
           /\ Legacy \notin ext.conds => Legacy \notin ext'.conds
           /\ IsFluxBootstrapped(ext) => IsFluxBootstrapped(ext')]_vars
  BY MarkerIsKept
<1> QED
  BY <1>1, InvariantHolds, PTL DEF Spec, ConditionsKept

-----------------------------------------------------------------------------
(* The refinement.                                                         *)

(* A step that changes the Extension leaves the Flux resources alone. *)
LEMMA SeedOrShoot ==
  ASSUME [Next]_vars, ext' # ext
  PROVE  obj' = obj /\ touched' = touched
<1> USE DEF seedVars, shootVars
<1>1. CASE Reconcile \/ Fail
  <2>1. Begin \/ SetFluxBootstrapped
    BY <1>1, WorkerSteps DEF WorkerFrame
  <2> QED
    BY <2>1 DEF PatchConditions, Begin, SetFluxBootstrapped
<1>2. CASE Operate
  BY <1>2 DEF Operate, RemoveExtension, RestoreExtension
<1>3. CASE Environment
  BY <1>3 DEF Environment, ChangeConfig, RequestRemoval, CreateExtension, Hibernate,
     HealthCheck, UserWrites, UserDeletes, UserDeletesSecret, UserDeletesNamespace
<1>4. ASSUME NEW x \in Slots, FluxReconciles(x) PROVE FALSE
  BY <1>4, FluxSteps
<1>5. CASE UNCHANGED vars
  BY <1>5 DEF vars
<1> QED
  BY <1>1, <1>2, <1>3, <1>4, <1>5 DEF Next

(* The controller implements the abstract hand-over.                       *)
THEOREM ImplementsBootstrap == Spec => AbstractSpec
<1> DEFINE deployed == [x \in Slots |-> Deployed(x)]
<1>1. Init => Abstract!Init
  <2> SUFFICES ASSUME Init PROVE Abstract!Init
    OBVIOUS
  <2>1. absPhase = "bootstrapping"
    <3>1. PICK c \in Configs, conds \in SUBSET {Legacy} :
                 ext = NewExtension(c, 1, conds, "reconcile")
      BY DEF Init
    <3>2. ext \in ExtensionType /\ Bootstrapped \notin ext.conds
      BY <3>1 DEF NewExtension, ExtensionType, Conditions, Legacy, Bootstrapped
    <3> QED
      BY <3>2, SentinelsAssumption DEF absPhase, IsFluxBootstrapped
  <2>2. \A x \in Slots : Deployed(x) = None
    BY DEF Init, Deployed
  <2> QED
    BY <2>1, <2>2 DEF Abstract!Init
<1>2. TypeOK /\ IndInv /\ [Next]_vars => [Abstract!Next]_(Abstract!vars)
  <2> SUFFICES ASSUME TypeOK, IndInv, [Next]_vars PROVE [Abstract!Next]_(Abstract!vars)
    OBVIOUS
  <2>1. ASSUME NEW k \in Kinds, Apply(k) PROVE Abstract!Next
    <3>1. absPhase = "bootstrapping" /\ absPhase' = absPhase
      BY <2>1 DEF Apply, applyPc, Kinds, IndInv, BootstrapInv, SnapshotInv, Marked,
         absPhase, seedVars
    <3>2. PICK x : x = Slot(att.config, k)
      OBVIOUS
    <3>3. /\ att.config.spec[k] \in Specs
          /\ x \in Slots
          /\ Deployed(x)' \in {att.config.spec[k], Foreign}
          /\ \A y \in Slots : y # x => Deployed(y)' = Deployed(y)
      BY <2>1, <3>2, ApplyDeploys DEF IndInv
    <3>4. CASE Deployed(x)' = att.config.spec[k]
      <4>1. deployed' = [deployed EXCEPT ![x] = att.config.spec[k]]
        BY <3>3, <3>4
      <4> QED
        BY <3>1, <3>3, <4>1 DEF Abstract!Next, Abstract!Deploy
    <3>5. CASE Deployed(x)' = Foreign
      <4>1. deployed' = [y \in Slots |-> IF y \in {x} THEN Foreign ELSE deployed[y]]
        BY <3>3, <3>5
      <4> QED
        BY <3>1, <3>3, <4>1 DEF Abstract!Next, Abstract!TakeOver
    <3> QED
      BY <3>3, <3>4, <3>5
  <2>2. CASE ext' = ext /\ \A k \in Kinds : ~Apply(k)
    <3>1. absPhase' = absPhase
      BY <2>2 DEF absPhase
    <3>2. \A x \in Slots : Deployed(x)' \in {Deployed(x), Foreign}
      BY <2>2, OthersDeployNothing
    <3> DEFINE X == {x \in Slots : Deployed(x)' = Foreign}
    <3>3. deployed' = [x \in Slots |-> IF x \in X THEN Foreign ELSE deployed[x]]
      BY <3>2
    <3> HIDE DEF X
    <3>4. X \in SUBSET Slots
      BY DEF X
    <3> QED
      BY <3>1, <3>3, <3>4 DEF Abstract!Next, Abstract!TakeOver
  <2>3. CASE ext' # ext
    <3>1. obj' = obj /\ touched' = touched
      BY <2>3, SeedOrShoot
    <3>2. deployed' = deployed
      BY <3>1 DEF Deployed
    <3>3. CASE Marks
      <4>1. SetFluxBootstrapped
        BY <3>3, OnlyThePatchMarks
      <4>2. absPhase = "bootstrapping" /\ absPhase' = "managed"
        BY <3>3, <4>1, MarkStep DEF IndInv, Marks, Marked, absPhase, IsFluxBootstrapped
      <4>3. ext.config \in {c \in Configs : Valid(c)}
        BY <4>1, MarkFindsConfigDeployed
      <4>4. \A k \in Kinds : ext.config.spec[k] # None =>
              deployed[<<k, ext.config.ns[k]>>] \in {ext.config.spec[k], Foreign}
        <5>1. \A k \in Kinds : Slot(ext.config, k) \in Slots
          BY <4>3, ConfigFacts
        <5> QED
          BY <4>1, <5>1, MarkFindsConfigDeployed DEF Slot
      <4>5. Abstract!Complete(ext.config)
        BY <4>4 DEF Abstract!Complete
      <4> QED
        BY <3>2, <4>2, <4>3, <4>5 DEF Abstract!Next, Abstract!HandOver
    <3>4. CASE ext = Absent
      BY <3>2, <3>3, <3>4, <2>3 DEF Abstract!Next, Abstract!Enable, absPhase, Marks, Marked
    <3>5. CASE ext' = Absent
      BY <3>2, <3>5, <2>3 DEF Abstract!Next, Abstract!Remove, absPhase
    <3>6. CASE ext # Absent /\ ext' # Absent /\ ~Marks
      <4>1. absPhase' = absPhase
        BY <3>6, MarkerIsKept DEF absPhase, Marks, Marked, IsFluxBootstrapped
      <4> QED
        BY <3>2, <4>1 DEF Abstract!vars
    <3> QED
      BY <3>3, <3>4, <3>5, <3>6
  <2>4. (\A k \in Kinds : ~Apply(k)) \/ \E k \in Kinds : Apply(k)
    OBVIOUS
  <2> QED
    BY <2>1, <2>2, <2>3, <2>4
<1> QED
  BY <1>1, <1>2, InvariantHolds, PTL DEF Spec, AbstractSpec, Abstract!Spec

=============================================================================
