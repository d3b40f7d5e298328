------------------------------ MODULE ShootInfo ------------------------------
(***************************************************************************)
(* ReconcileShootInfoConfigMap (pkg/controller/extension/actuator.go) by   *)
(* the replicas of the extension, call by call: the leader renders the     *)
(* identity of the cluster, from the Cluster object it has read, and that  *)
(* of the garden, from its command line, into a ConfigMap of the shoot.    *)
(* A replica that stops or fails may leave a call behind that takes effect *)
(* when the next leader is at work already; the user may change the        *)
(* ConfigMap at any time.                                                  *)
(*                                                                         *)
(* The namespace of Flux is there (FluxActuator has it come and go), and   *)
(* the values that are never missing, name and technical ID, are left out. *)
(***************************************************************************)
EXTENDS Manager

CONSTANTS
  Identities,  \* identities of the cluster
  UserData,    \* what the user writes into the ConfigMap
  None,
  Unversioned, \* the expectation of an update without a resourceVersion
  MaxEdits,    \* bound: changes by the user
  MaxFaults    \* bound: failed passes

VARIABLES
  identity,    \* Shoot.status.clusterIdentity in the Cluster, or None
  configMap,   \* the ConfigMap, or None
  version,     \* the resourceVersion that was given out last
  term,        \* history: how often a replica has become the leader
  pc,          \* next call of the leader's worker
  given,       \* the identity in the Cluster that the pass has read
  seen,        \* the ConfigMap that CreateOrUpdate has read
  late,        \* calls of passes that have ended, still in flight
  edits, faults

clusterVars == <<identity, configMap, version>>
passVars == <<pc, given, seen>>
vars == <<managerVars, clusterVars, term, passVars, late, edits, faults>>

Rendered == [cluster : Identities, garden : Values \union {Zero}]

(* term: history, the last leadership that has written into it.            *)
ConfigMaps ==
  [data : Rendered \union UserData, version : Nat \ {0}, term : Nat]

(* A write: the ConfigMap it expects, its data, the leadership it is from. *)
Calls == [expect : ConfigMaps \union {None}, data : Rendered, term : Nat]

ASSUME InfoAssumption ==
  /\ None \notin Identities \union ConfigMaps
  /\ Unversioned \notin ConfigMaps \union {None}
  /\ MaxEdits \in Nat /\ MaxFaults \in Nat

Init ==
  /\ ManagerInit
  /\ identity \in Identities \union {None}
  /\ configMap = None /\ version = 0
  /\ term = 0
  /\ pc = "idle" /\ given = None /\ seen = None
  /\ late = {}
  /\ edits = 0 /\ faults = 0

-----------------------------------------------------------------------------
(* The pass returns, fails or ends with its process.                       *)
Return == pc' = "idle" /\ given' = None /\ seen' = None

(* Reconcile reads the Cluster; the steps before the ConfigMap go by.      *)
BeginPass ==
  /\ pc = "idle" /\ leader # Nobody
  /\ pc' = "get"
  /\ given' = identity
  /\ UNCHANGED <<managerVars, clusterVars, term, seen, late, edits, faults>>

(* CreateOrUpdate reads the ConfigMap ...                                  *)
GetInfo ==
  /\ pc = "get"
  /\ pc' = "write"
  /\ seen' = configMap
  /\ UNCHANGED <<managerVars, clusterVars, term, given, late, edits, faults>>

(* ... and renders it. The identity is dereferenced unchecked: the pass of *)
(* a cluster without one panics, and the panic is recovered.               *)
Rendering == [cluster |-> given, garden |-> added[leader]["gardenClusterIdentity"]]

(* Mutant: a missing identity is rendered as well.                         *)
Renders_NilIdentity == TRUE

Renders == given # None

RenderingPanics ==
  /\ pc = "write" /\ ~Renders
  /\ Return
  /\ UNCHANGED <<managerVars, clusterVars, term, late, edits, faults>>

(* Mutant: the update is sent without the resourceVersion.                 *)
Expected_Unlocked == IF seen = None THEN None ELSE Unversioned

(* The write is a creation, or an update of the very object that was read. *)
Expected == seen

(* The API server creates only what is not there, and updates only what is *)
(* as the writer expects it.                                               *)
VersionOf(m) == IF m = None THEN 0 ELSE m.version
Accepts(expect) ==
  IF expect = Unversioned THEN configMap # None
  ELSE VersionOf(expect) = VersionOf(configMap)

Store(data, t) ==
  /\ version' = version + 1
  /\ configMap' = [data |-> data, version |-> version + 1, term |-> t]
  /\ UNCHANGED identity

(* Mutant: a ConfigMap that exists is left as it is.                       *)
Differs_OnlyIfMissing == seen = None

Differs == seen = None \/ seen.data # Rendering

(* One that is as rendered already is not written; a refused write fails   *)
(* the pass, and the next one tries again.                                 *)
WriteInfo ==
  /\ pc = "write" /\ Renders
  /\ IF Differs /\ Accepts(Expected)
     THEN Store(Rendering, term)
     ELSE UNCHANGED clusterVars
  /\ Return
  /\ UNCHANGED <<managerVars, term, late, edits, faults>>

Worker == BeginPass \/ GetInfo \/ RenderingPanics \/ WriteInfo

(* The call the worker may be in the middle of.                            *)
InFlight ==
  IF pc = "write" /\ Renders /\ Differs
  THEN {[expect |-> Expected, data |-> Rendering, term |-> term]} ELSE {}

Abandon ==
  /\ late' \in {late, late \union InFlight}
  /\ Return

PassFails ==
  /\ pc # "idle"
  /\ faults < MaxFaults
  /\ faults' = faults + 1
  /\ Abandon
  /\ UNCHANGED <<managerVars, clusterVars, term, edits>>

LandLate(c) ==
  /\ late' = late \ {c}
  /\ IF Accepts(c.expect)
     THEN Store(c.data, c.term)
     ELSE UNCHANGED clusterVars
  /\ UNCHANGED <<managerVars, term, passVars, edits, faults>>

-----------------------------------------------------------------------------
Starts(p) ==
  /\ Start(p)
  /\ UNCHANGED <<clusterVars, term, passVars, late, edits, faults>>

(* One pass at a time: the workqueue hands an Extension to one worker.     *)
Leads(p) ==
  /\ Lead(p)
  /\ term' = term + 1
  /\ UNCHANGED <<clusterVars, passVars, late, edits, faults>>

Stops(p) ==
  /\ Stop(p)
  /\ IF leader = p THEN Abandon ELSE UNCHANGED <<passVars, late>>
  /\ UNCHANGED <<clusterVars, term, edits, faults>>

(* Gardener sets the identity in the Shoot's first reconciliation.         *)
SetIdentity ==
  /\ identity = None
  /\ identity' \in Identities
  /\ UNCHANGED <<managerVars, configMap, version, term, passVars, late, edits, faults>>

UserEdits ==
  /\ configMap # None
  /\ edits < MaxEdits
  /\ edits' = edits + 1
  /\ \/ \E d \in UserData : Store(d, configMap.term)
     \/ configMap' = None /\ UNCHANGED <<identity, version>>
  /\ UNCHANGED <<managerVars, term, passVars, late, faults>>

Environment ==
  \/ \E p \in Replicas : Stops(p)
  \/ SetIdentity \/ UserEdits
  \/ \E c \in late : LandLate(c)

Next ==
  \/ Worker \/ PassFails \/ Environment
  \/ \E p \in Replicas : Starts(p) \/ Leads(p)

Spec == Init /\ [][Next]_vars

(* Every replica is started again after a stop and completes its start, a  *)
(* leader is elected while there is none (the lease expires), and the      *)
(* Extension is reconciled again and again.                                *)
FairSpec ==
  /\ Spec
  /\ WF_vars(Worker)
  /\ \A p \in Replicas : WF_vars(Starts(p)) /\ WF_vars(Leads(p))

-----------------------------------------------------------------------------
(* Properties.                                                             *)

(* Every variable keeps its type; in particular the rendered data never    *)
(* lacks the identity of the cluster (actuator.go:175 panics first).       *)
TypeOK ==
  /\ ManagerTypeOK
  /\ identity \in Identities \union {None}
  /\ configMap \in ConfigMaps \union {None}
  /\ version \in Nat
  /\ term \in Nat
  /\ pc \in {"idle", "get", "write"}
  /\ pc # "idle" => leader # Nobody
  /\ given \in Identities \union {None}
  /\ seen \in ConfigMaps \union {None}
  /\ late \subseteq Calls
  /\ edits \in 0 .. MaxEdits /\ faults \in 0 .. MaxFaults

(* What a leader has written is never overwritten by a call of an earlier  *)
(* leader that lands after its replica has stopped: the update carries the *)
(* resourceVersion that CreateOrUpdate has read (actuator.go:170).         *)
NewestWriterWins ==
  [][configMap # None /\ configMap' # None =>
       configMap'.term >= configMap.term]_vars

(* Data with which leadership t would serve the Cluster. *)
AsConfigured(data, t) ==
  /\ data.cluster = identity
  /\ leader # Nobody /\ t = term =>
       data.garden = Requested(leader)["gardenClusterIdentity"]

(* Unless the user has changed it, the ConfigMap has the identity of the     *)
(* cluster, and if it is from the present leader, the garden identity of     *)
(* that leader's command line: the value goes through options, package       *)
(* variable and actuator (cmd.go:67, add.go:50), and calls, into data that   *)
(* nobody else's start, stop or late call mixes with that of another leader. *)
WrittenAsConfigured ==
  configMap # None /\ configMap.data \notin UserData =>
    AsConfigured(configMap.data, configMap.term)

(* Once the cluster has an identity the ConfigMap comes to say what the    *)
(* Cluster and the command line of the leader say, whatever the user, the  *)
(* leaders before it and their late calls have made of it.                 *)
InfoConverges ==
  <>[](identity # None) =>
    <>[](/\ leader # Nobody /\ configMap # None
         /\ configMap.data =
              [cluster |-> identity, garden |-> Requested(leader)["gardenClusterIdentity"]])

=============================================================================
