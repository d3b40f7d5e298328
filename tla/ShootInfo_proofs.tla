-------------------------- MODULE ShootInfo_proofs --------------------------
(***************************************************************************)
(* Theorems about ShootInfo, and with it about Manager, for every value of *)
(* the constants: type correctness, the settings that a leader works with  *)
(* and writes, and that no late call of an earlier leader undoes the work  *)
(* of a later one.                                                         *)
(***************************************************************************)
EXTENDS ShootInfo, TLAPS

(* How far the flags of a replica have got at each stage of its start.     *)
StartInv ==
  /\ ManagerTypeOK
  /\ \A p \in Replicas :
       /\ stage[p] # "parse" => options[p] = Requested(p)
       /\ stage[p] \in {"add", "start", "started"} =>
            \A s \in Applied : defaults[p][s] = Requested(p)[s]
       /\ stage[p] \in {"start", "started"} =>
            \A s \in Applied : added[p][s] = Requested(p)[s]
  /\ leader # Nobody => stage[leader] = "started"

(* A version of the ConfigMap that somebody has read: it has been given    *)
(* out, and it is the current one only if the same leadership wrote it.    *)
Known(m) ==
  m # None =>
    /\ m.version <= version
    /\ configMap # None /\ configMap.version = m.version =>
         configMap.term = m.term

VersionInv ==
  /\ Known(configMap) /\ Known(seen)
  /\ configMap # None => configMap.term <= term
  /\ seen # None => seen.term <= term
  /\ \A c \in late :
       /\ Known(c.expect)
       /\ c.term <= term
       /\ c.expect # None => c.expect.term <= c.term

-----------------------------------------------------------------------------
(* The start of a replica.                                                 *)

LEMMA RequestedType ==
  ASSUME ManagerTypeOK, NEW p \in Replicas
  PROVE  Requested(p) \in [Settings -> Values \union {Zero}]
<1>1. commandLine[p] \in [Settings -> Values \union {NotGiven}]
  BY SettingsAssumption DEF ManagerTypeOK
<1> QED
  BY <1>1, SettingsAssumption DEF Requested

LEMMA ManagerStart == ManagerInit => StartInv
<1> SUFFICES ASSUME ManagerInit PROVE StartInv
  OBVIOUS
<1>1. Unset \in [Settings -> Values \union {Zero}]
  BY DEF Unset
<1>2. ManagerTypeOK
  BY <1>1, SettingsAssumption DEF ManagerInit, ManagerTypeOK, Stages
<1> QED
  BY <1>2 DEF ManagerInit, StartInv

(* Starts, elections and stops keep it: each step of a replica's start     *)
(* hands on what the step before it has set.                               *)
LEMMA ManagerStep ==
  ASSUME StartInv, NEW p \in Replicas, Start(p) \/ Lead(p) \/ Stop(p)
  PROVE  StartInv'
<1> USE DEF StartInv
<1>1. CASE NewCommand(p)
  <2>1. Requested(p) \in [Settings -> Values \union {Zero}]
    BY RequestedType
  <2>2. \A q \in Replicas : Requested(q)' = Requested(q)
    BY <1>1 DEF NewCommand, Requested
  <2>3. ManagerTypeOK'
    BY <1>1, <2>1 DEF NewCommand, Advance, ManagerTypeOK, Stages
  <2> QED
    BY <1>1, <2>2, <2>3, SettingsAssumption DEF NewCommand, Advance, ManagerTypeOK
<1>2. CASE Complete(p)
  <2>1. \A q \in Replicas : Requested(q)' = Requested(q)
    BY <1>2 DEF Complete, Requested
  <2>2. ManagerTypeOK'
    BY <1>2 DEF Complete, Advance, ManagerTypeOK, Stages
  <2> QED
    BY <1>2, <2>1, <2>2, SettingsAssumption DEF Complete, Advance, ManagerTypeOK
<1>3. CASE Apply(p, "run", "add")
  <2>1. \A q \in Replicas : Requested(q)' = Requested(q)
    BY <1>3 DEF Apply, Requested
  <2>2. ManagerTypeOK'
    BY <1>3 DEF Apply, Advance, ManagerTypeOK, Stages
  <2>3. \A q \in Replicas : q # p =>
          stage'[q] = stage[q] /\ defaults'[q] = defaults[q]
    BY <1>3 DEF Apply, Advance, ManagerTypeOK
  <2>4. options[p] = Requested(p) /\ stage'[p] = "add"
    BY <1>3 DEF Apply, Advance, ManagerTypeOK
  <2>5. \A s \in Applied : defaults'[p][s] = Requested(p)[s]
    BY <1>3, <2>4 DEF Apply, Applied, ManagerTypeOK
  <2>6. leader # Nobody => leader # p
    BY <1>3 DEF Apply, Advance
  <2> QED
    BY <1>3, <2>1, <2>2, <2>3, <2>4, <2>5, <2>6 DEF Apply, ManagerTypeOK
<1>4. CASE AddToManager(p, "add", "start")
  <2>1. \A q \in Replicas : Requested(q)' = Requested(q)
    BY <1>4 DEF AddToManager, Requested
  <2>2. ManagerTypeOK'
    BY <1>4 DEF AddToManager, Advance, ManagerTypeOK, Stages
  <2> QED
    BY <1>4, <2>1, <2>2 DEF AddToManager, Advance, ManagerTypeOK
<1>5. CASE StartManager(p)
  <2>1. \A q \in Replicas : Requested(q)' = Requested(q)
    BY <1>5 DEF StartManager, Requested
  <2>2. ManagerTypeOK'
    BY <1>5 DEF StartManager, Advance, ManagerTypeOK, Stages
  <2> QED
    BY <1>5, <2>1, <2>2 DEF StartManager, Advance, ManagerTypeOK
<1>6. CASE Lead(p)
  <2>1. \A q \in Replicas : Requested(q)' = Requested(q)
    BY <1>6 DEF Lead, Requested
  <2> QED
    BY <1>6, <2>1 DEF Lead, ManagerTypeOK
<1>7. CASE Stop(p)
  <2>1. Unset \in [Settings -> Values \union {Zero}]
    BY DEF Unset
  <2>2. ManagerTypeOK'
    BY <1>7, <2>1, SettingsAssumption DEF Stop, ManagerTypeOK, Stages
  <2>3. \A q \in Replicas : q # p =>
          /\ commandLine'[q] = commandLine[q] /\ stage'[q] = stage[q]
          /\ options'[q] = options[q] /\ defaults'[q] = defaults[q]
          /\ added'[q] = added[q]
    BY <1>7 DEF Stop, ManagerTypeOK
  <2>4. stage'[p] = "parse"
    BY <1>7 DEF Stop, ManagerTypeOK
  <2>5. \A q \in Replicas : q # p => Requested(q)' = Requested(q)
    BY <2>3 DEF Requested
  <2>6. leader' # Nobody => leader' = leader /\ leader' # p
    BY <1>7 DEF Stop
  <2>7. \A q \in Replicas : q # p =>
          /\ stage'[q] # "parse" => options'[q] = Requested(q)'
          /\ stage'[q] \in {"add", "start", "started"} =>
               \A s \in Applied : defaults'[q][s] = Requested(q)'[s]
          /\ stage'[q] \in {"start", "started"} =>
               \A s \in Applied : added'[q][s] = Requested(q)'[s]
    BY <2>3, <2>5
  <2>8. leader' # Nobody => stage'[leader'] = "started"
    BY <2>2, <2>3, <2>6 DEF ManagerTypeOK
  <2> QED
    BY <2>2, <2>4, <2>7, <2>8
<1> QED
  BY <1>1, <1>2, <1>3, <1>4, <1>5, <1>6, <1>7 DEF Start, Run

LEMMA ManagerUnchanged ==
  ASSUME StartInv, UNCHANGED managerVars
  PROVE  StartInv'
<1>1. ManagerTypeOK'
  BY DEF StartInv, managerVars, ManagerTypeOK
<1>2. \A p \in Replicas : Requested(p)' = Requested(p)
  BY DEF managerVars, Requested
<1> QED
  BY <1>1, <1>2 DEF StartInv, managerVars

-----------------------------------------------------------------------------
(* The ConfigMap.                                                          *)

LEMMA InitInv == Init => StartInv /\ TypeOK /\ VersionInv
<1> SUFFICES ASSUME Init PROVE StartInv /\ TypeOK /\ VersionInv
  OBVIOUS
<1>1. StartInv
  BY ManagerStart DEF Init
<1>2. TypeOK
  BY <1>1, InfoAssumption DEF Init, TypeOK, StartInv
<1>3. VersionInv
  BY DEF Init, VersionInv, Known
<1> QED
  BY <1>1, <1>2, <1>3

(* What the leader renders when its Cluster has an identity.               *)
LEMMA RenderingType ==
  ASSUME TypeOK, pc # "idle", Renders
  PROVE  Rendering \in Rendered
<1>1. added[leader] \in [Settings -> Values \union {Zero}]
  BY DEF TypeOK, ManagerTypeOK
<1>2. added[leader]["gardenClusterIdentity"] \in Values \union {Zero}
  BY <1>1 DEF Settings
<1> QED
  BY <1>2 DEF TypeOK, Renders, Rendering, Rendered

(* A write of leadership t gives the ConfigMap a version nobody knows yet. *)
LEMMA StoreStep ==
  ASSUME TypeOK, VersionInv, NEW d \in Rendered \union UserData, NEW t \in Nat,
         Store(d, t), t <= term
  PROVE  /\ configMap' \in ConfigMaps /\ version' \in Nat
         /\ configMap'.term = t
         /\ Known(configMap)'
         /\ \A m \in ConfigMaps \union {None} :
              Known(m) /\ m # None =>
                m.version <= version' /\ configMap'.version # m.version
<1>1. configMap' = [data |-> d, version |-> version + 1, term |-> t]
  BY DEF Store
<1>2. version' = version + 1 /\ version \in Nat /\ version' \in Nat
  BY DEF Store, TypeOK
<1>3. configMap' \in ConfigMaps
  BY <1>1, <1>2 DEF ConfigMaps
<1>4. \A m \in ConfigMaps : m.version \in Nat
  BY DEF ConfigMaps
<1> QED
  BY <1>1, <1>2, <1>3, <1>4, InfoAssumption DEF Known

(* A call that the API server accepts is based on the current version.     *)
LEMMA AcceptedIsCurrent ==
  ASSUME TypeOK, NEW m \in ConfigMaps \union {None}, Known(m), Accepts(m),
         configMap # None
  PROVE  m # None /\ configMap.term = m.term
<1>1. configMap.version \in Nat \ {0}
  BY DEF TypeOK, ConfigMaps
<1> QED
  BY <1>1, InfoAssumption DEF Accepts, VersionOf, Known

(* What is in flight can be abandoned.                                     *)
LEMMA AbandonStep ==
  ASSUME TypeOK, VersionInv, pc # "idle", Abandon,
         UNCHANGED <<configMap, version, term>>
  PROVE  /\ late' \subseteq Calls
         /\ seen' = None /\ pc' = "idle" /\ given' = None
         /\ VersionInv'
<1>1. \A c \in InFlight :
        c \in Calls /\ c.expect = seen /\ c.term = term
  BY RenderingType DEF InFlight, Expected, Calls, TypeOK
<1>2. late' \subseteq late \union InFlight
  BY DEF Abandon
<1>3. \A c \in late' : /\ Known(c.expect)
                       /\ c.term <= term
                       /\ c.expect # None => c.expect.term <= c.term
  <2>1. term \in Nat
    BY DEF TypeOK
  <2> QED
    BY <1>1, <1>2, <2>1 DEF VersionInv
<1>4. \A m : Known(m)' <=> Known(m)
  BY DEF Known
<1> QED
  BY <1>1, <1>2, <1>3, <1>4 DEF Abandon, Return, TypeOK, VersionInv, Known

(* A ConfigMap that is stored by leadership t: the invariant holds again.  *)
LEMMA StoreKeepsVersions ==
  ASSUME TypeOK, VersionInv, NEW d \in Rendered \union UserData, NEW t \in Nat,
         Store(d, t), t <= term, late' \subseteq late, UNCHANGED term,
         seen' \in {seen, None}
  PROVE  VersionInv'
<1>1. /\ configMap' \in ConfigMaps /\ configMap'.term = t
      /\ Known(configMap)'
      /\ \A m \in ConfigMaps \union {None} :
           Known(m) /\ m # None =>
             m.version <= version' /\ configMap'.version # m.version
  BY StoreStep
<1>2. \A m \in ConfigMaps \union {None} : Known(m) => Known(m)'
  BY <1>1 DEF Known
<1>3. Known(seen)'
  BY <1>2 DEF VersionInv, TypeOK, Known
<1>4. \A c \in late : c.expect \in ConfigMaps \union {None}
  BY DEF TypeOK, Calls
<1>5. \A c \in late : Known(c.expect)'
  <2>1. \A c \in late : Known(c.expect)
    BY DEF VersionInv
  <2> QED
    BY <1>2, <1>4, <2>1 DEF Known
<1> QED
  BY <1>1, <1>3, <1>5 DEF VersionInv

Inv == StartInv /\ TypeOK /\ VersionInv

(* The ConfigMap and what is known about it do not change.                 *)
LEMMA VersionsUnchanged ==
  ASSUME VersionInv, UNCHANGED <<configMap, version, late, term>>, seen' \in {seen, None, configMap}
  PROVE  VersionInv'
<1>1. \A m : Known(m)' <=> Known(m)
  BY DEF Known
<1> QED
  BY <1>1 DEF VersionInv, Known

LEMMA NextInv ==
  ASSUME Inv, [Next]_vars
  PROVE  Inv'
<1> USE DEF Inv
<1>1. CASE BeginPass
  <2>1. StartInv'
    BY <1>1, ManagerUnchanged DEF BeginPass
  <2>2. TypeOK'
    BY <1>1, <2>1 DEF BeginPass, TypeOK, clusterVars, StartInv, managerVars
  <2> QED
    BY <1>1, <2>1, <2>2, VersionsUnchanged DEF BeginPass, clusterVars
<1>2. CASE GetInfo
  <2>1. StartInv'
    BY <1>2, ManagerUnchanged DEF GetInfo
  <2>2. TypeOK'
    BY <1>2, <2>1 DEF GetInfo, TypeOK, clusterVars, StartInv, managerVars
  <2> QED
    BY <1>2, <2>1, <2>2, VersionsUnchanged DEF GetInfo, clusterVars
<1>3. CASE RenderingPanics
  <2>1. StartInv'
    BY <1>3, ManagerUnchanged DEF RenderingPanics
  <2>2. TypeOK'
    BY <1>3, <2>1 DEF RenderingPanics, Return, TypeOK, clusterVars, StartInv
  <2> QED
    BY <1>3, <2>1, <2>2, VersionsUnchanged DEF RenderingPanics, Return, clusterVars
<1>4. CASE WriteInfo
  <2>1. StartInv'
    BY <1>4, ManagerUnchanged DEF WriteInfo
  <2>2. CASE Store(Rendering, term)
    <3>1. Rendering \in Rendered /\ term \in Nat /\ term <= term
      BY <1>4, RenderingType DEF WriteInfo, TypeOK
    <3>2. configMap' \in ConfigMaps /\ version' \in Nat
      BY <2>2, <3>1, StoreStep
    <3>3. TypeOK'
      BY <1>4, <2>1, <2>2, <3>2 DEF WriteInfo, Return, Store, TypeOK, StartInv
    <3>4. VersionInv'
      BY <1>4, <2>2, <3>1, StoreKeepsVersions DEF WriteInfo, Return
    <3> QED
      BY <2>1, <3>3, <3>4
  <2>3. CASE UNCHANGED clusterVars
    <3>1. TypeOK'
      BY <1>4, <2>1, <2>3 DEF WriteInfo, Return, TypeOK, clusterVars, StartInv
    <3> QED
      BY <1>4, <2>1, <2>3, <3>1, VersionsUnchanged DEF WriteInfo, Return, clusterVars
  <2> QED
    BY <1>4, <2>2, <2>3 DEF WriteInfo
<1>5. CASE PassFails
  <2>1. StartInv'
    BY <1>5, ManagerUnchanged DEF PassFails
  <2>2. /\ late' \subseteq Calls
        /\ seen' = None /\ pc' = "idle" /\ given' = None
        /\ VersionInv'
    BY <1>5, AbandonStep DEF PassFails, clusterVars
  <2>3. TypeOK'
    BY <1>5, <2>1, <2>2, InfoAssumption DEF PassFails, TypeOK, clusterVars, StartInv
  <2> QED
    BY <2>1, <2>2, <2>3
<1>6. ASSUME NEW p \in Replicas, Stops(p)
      PROVE  Inv'
  <2>1. StartInv'
    BY <1>6, ManagerStep DEF Stops
  <2>2. CASE leader = p /\ pc # "idle"
    <3>1. /\ late' \subseteq Calls
          /\ seen' = None /\ pc' = "idle" /\ given' = None
          /\ VersionInv'
      BY <1>6, <2>2, AbandonStep DEF Stops, clusterVars
    <3>2. TypeOK'
      BY <1>6, <2>1, <3>1 DEF Stops, TypeOK, clusterVars, StartInv
    <3> QED
      BY <2>1, <3>1, <3>2
  <2>3. CASE leader # p \/ pc = "idle"
    <3>1. late' = late /\ pc' = pc /\ seen' \in {seen, None} /\ given' \in {given, None}
      BY <1>6, <2>3 DEF Stops, Abandon, Return, InFlight, passVars
    <3>2. pc' # "idle" => leader' # Nobody
      BY <1>6, <2>3, <3>1 DEF Stops, Stop, TypeOK
    <3>3. TypeOK'
      BY <1>6, <2>1, <3>1, <3>2 DEF Stops, TypeOK, clusterVars, StartInv
    <3> QED
      BY <1>6, <2>1, <3>1, <3>3, VersionsUnchanged DEF Stops, clusterVars
  <2> QED
    BY <2>2, <2>3
<1>7. CASE SetIdentity
  <2>1. StartInv'
    BY <1>7, ManagerUnchanged DEF SetIdentity
  <2>2. TypeOK'
    BY <1>7, <2>1 DEF SetIdentity, TypeOK, passVars, StartInv, managerVars
  <2> QED
    BY <1>7, <2>1, <2>2, VersionsUnchanged DEF SetIdentity, passVars
<1>8. CASE UserEdits
  <2>1. StartInv'
    BY <1>8, ManagerUnchanged DEF UserEdits
  <2>2. ASSUME NEW d \in UserData, Store(d, configMap.term)
        PROVE  Inv'
    <3>1. configMap.term \in Nat /\ configMap.term <= term
      BY <1>8 DEF UserEdits, TypeOK, ConfigMaps, VersionInv
    <3>2. configMap' \in ConfigMaps /\ version' \in Nat
      BY <2>2, <3>1, StoreStep
    <3>3. TypeOK'
      BY <1>8, <2>1, <2>2, <3>2, InfoAssumption DEF UserEdits, Store, TypeOK, passVars, StartInv, managerVars
    <3>4. VersionInv'
      BY <1>8, <2>2, <3>1, StoreKeepsVersions DEF UserEdits, passVars
    <3> QED
      BY <2>1, <3>3, <3>4
  <2>3. CASE configMap' = None /\ UNCHANGED <<identity, version>>
    <3>1. TypeOK'
      BY <1>8, <2>1, <2>3, InfoAssumption DEF UserEdits, TypeOK, passVars, StartInv, managerVars
    <3>2. VersionInv'
      BY <1>8, <2>3 DEF UserEdits, VersionInv, Known, passVars
    <3> QED
      BY <2>1, <3>1, <3>2
  <2> QED
    BY <1>8, <2>2, <2>3 DEF UserEdits
<1>9. ASSUME NEW c \in late, LandLate(c)
      PROVE  Inv'
  <2>1. StartInv'
    BY <1>9, ManagerUnchanged DEF LandLate
  <2>2. CASE Store(c.data, c.term)
    <3>1. c.data \in Rendered /\ c.term \in Nat /\ c.term <= term
      BY <1>9 DEF TypeOK, Calls, VersionInv
    <3>2. configMap' \in ConfigMaps /\ version' \in Nat
      BY <2>2, <3>1, StoreStep
    <3>3. TypeOK'
      BY <1>9, <2>1, <2>2, <3>2 DEF LandLate, Store, TypeOK, passVars, StartInv, managerVars
    <3>4. VersionInv'
      BY <1>9, <2>2, <3>1, StoreKeepsVersions DEF LandLate, passVars
    <3> QED
      BY <2>1, <3>3, <3>4
  <2>3. CASE UNCHANGED clusterVars
    <3>1. TypeOK'
      BY <1>9, <2>1, <2>3 DEF LandLate, TypeOK, passVars, clusterVars, StartInv, managerVars
    <3>2. VersionInv'
      BY <1>9, <2>3 DEF LandLate, VersionInv, Known, passVars, clusterVars
    <3> QED
      BY <2>1, <3>1, <3>2
  <2> QED
    BY <1>9, <2>2, <2>3 DEF LandLate
<1>10. ASSUME NEW p \in Replicas, Starts(p)
       PROVE  Inv'
  <2>1. StartInv'
    BY <1>10, ManagerStep DEF Starts
  <2>2. leader' = leader
    BY <1>10 DEF Starts, Start, NewCommand, Complete, Run, Apply, AddToManager, StartManager
  <2>3. TypeOK'
    BY <1>10, <2>1, <2>2 DEF Starts, TypeOK, passVars, clusterVars, StartInv
  <2> QED
    BY <1>10, <2>1, <2>3, VersionsUnchanged DEF Starts, passVars, clusterVars
<1>11. ASSUME NEW p \in Replicas, Leads(p)
       PROVE  Inv'
  <2>1. StartInv'
    BY <1>11, ManagerStep DEF Leads
  <2>2. TypeOK'
    BY <1>11, <2>1 DEF Leads, Lead, TypeOK, passVars, clusterVars, StartInv
  <2>3. VersionInv'
    <3>1. term \in Nat /\ term' = term + 1
      BY <1>11 DEF Leads, TypeOK
    <3>2. /\ \A c \in late : c.term \in Nat
          /\ configMap # None => configMap.term \in Nat
          /\ seen # None => seen.term \in Nat
      BY DEF TypeOK, Calls, ConfigMaps
    <3>3. \A m : Known(m)' <=> Known(m)
      BY <1>11 DEF Leads, clusterVars, Known
    <3> QED
      BY <1>11, <3>1, <3>2, <3>3 DEF Leads, VersionInv, passVars, clusterVars
  <2> QED
    BY <2>1, <2>2, <2>3
<1>12. CASE UNCHANGED vars
  <2>1. StartInv'
    BY <1>12, ManagerUnchanged DEF vars
  <2>2. TypeOK'
    BY <1>12, <2>1 DEF vars, TypeOK, passVars, clusterVars, StartInv, managerVars
  <2> QED
    BY <1>12, <2>1, <2>2, VersionsUnchanged DEF vars, passVars, clusterVars
<1> QED
  BY <1>1, <1>2, <1>3, <1>4, <1>5, <1>6, <1>7, <1>8, <1>9, <1>10, <1>11, <1>12
     DEF Next, Worker, Environment

THEOREM InvariantHolds == Spec => []Inv
<1>1. Init => Inv
  BY InitInv DEF Inv
<1>2. Inv /\ [Next]_vars => Inv'
  BY NextInv
<1> QED
  BY <1>1, <1>2, PTL DEF Spec

-----------------------------------------------------------------------------
(* The results.                                                            *)

(* Every variable keeps its type, and no ConfigMap is rendered without the *)
(* identity of the cluster.                                                *)
THEOREM TypeCorrect == Spec => []TypeOK
BY InvariantHolds, PTL DEF Inv

(* A leader works with the settings of its own command line.               *)
THEOREM LeaderConfigured == Spec => []ControllersConfigured
<1>1. Inv => ControllersConfigured
  BY DEF Inv, StartInv, ManagerTypeOK, ControllersConfigured
<1> QED
  BY <1>1, InvariantHolds, PTL

(* A late call of an earlier leader never overwrites what a later one has  *)
(* written.                                                                *)
THEOREM LaterLeadersKeep == Spec => NewestWriterWins
<1>1. ASSUME Inv, [Next]_vars, configMap # None, configMap' # None
      PROVE  configMap'.term >= configMap.term
  <2>1. configMap.term \in Nat /\ configMap.term <= term /\ term \in Nat
    BY <1>1 DEF Inv, TypeOK, ConfigMaps, VersionInv
  <2>2. CASE configMap' = configMap
    BY <2>1, <2>2
  <2>3. CASE WriteInfo /\ Store(Rendering, term)
    BY <2>1, <2>3 DEF Store
  <2>4. ASSUME UserEdits, NEW d \in UserData, Store(d, configMap.term)
        PROVE  configMap'.term >= configMap.term
    BY <2>1, <2>4 DEF Store
  <2>5. ASSUME NEW c \in late, LandLate(c), Accepts(c.expect), Store(c.data, c.term)
        PROVE  configMap'.term >= configMap.term
    <3>1. c.expect \in ConfigMaps \union {None} /\ c.term \in Nat
      BY <1>1 DEF Inv, TypeOK, Calls
    <3>2. c.expect # None /\ configMap.term = c.expect.term
      BY <1>1, <2>5, <3>1, AcceptedIsCurrent DEF Inv, VersionInv
    <3>3. c.expect.term <= c.term
      BY <1>1, <3>2 DEF Inv, VersionInv
    <3> QED
      BY <2>5, <3>2, <3>3, <2>1, <3>1 DEF Store
  <2> QED
    BY <1>1, <2>2, <2>3, <2>4, <2>5
       DEF Next, Worker, Environment, BeginPass, GetInfo, RenderingPanics, WriteInfo,
           PassFails, Stops, SetIdentity, UserEdits, LandLate, Starts, Leads,
           clusterVars, vars
<1> QED
  BY <1>1, InvariantHolds, PTL DEF Spec, NewestWriterWins

-----------------------------------------------------------------------------
(* What is written.                                                        *)

(* The data of every call that is or may come to be in flight.             *)
ContentInv ==
  /\ WrittenAsConfigured
  /\ given # None => given = identity
  /\ \A c \in late : AsConfigured(c.data, c.term)

(* A pass renders what its leader was told.                                *)
LEMMA RenderingConfigured ==
  ASSUME Inv, ContentInv, pc # "idle", Renders
  PROVE  AsConfigured(Rendering, term)
<1>1. "gardenClusterIdentity" \in Applied
  BY DEF Applied, Settings
<1>2. leader \in Replicas /\ stage[leader] = "started"
  BY DEF Inv, StartInv, TypeOK, ManagerTypeOK
<1>3. added[leader]["gardenClusterIdentity"] = Requested(leader)["gardenClusterIdentity"]
  BY <1>1, <1>2 DEF Inv, StartInv
<1> QED
  BY <1>3 DEF ContentInv, Renders, Rendering, AsConfigured

(* While data is in the world its leadership goes on with the same command *)
(* line, ends, or is followed by a later one.                              *)
LEMMA StaysConfigured ==
  ASSUME Inv, [Next]_vars, identity' = identity,
         NEW d, NEW t \in Nat, t <= term, AsConfigured(d, t)
  PROVE  AsConfigured(d, t)'
<1> USE DEF AsConfigured, Requested
<1>1. CASE UNCHANGED <<leader, term, commandLine>>
  BY <1>1
<1>2. ASSUME NEW p \in Replicas, Stops(p) PROVE AsConfigured(d, t)'
  BY <1>2 DEF Stops, Stop, Inv, TypeOK, ManagerTypeOK
<1>3. ASSUME NEW p \in Replicas, Leads(p) PROVE AsConfigured(d, t)'
  <2>1. t # term'
    BY <1>3 DEF Leads, Inv, TypeOK
  <2> QED
    BY <2>1
<1>4. ASSUME NEW p \in Replicas, Starts(p) PROVE UNCHANGED <<leader, term, commandLine>>
  BY <1>4 DEF Starts, Start, NewCommand, Complete, Run, Apply, AddToManager, StartManager
<1> QED
  BY <1>1, <1>2, <1>3, <1>4
     DEF Next, Worker, Environment, BeginPass, GetInfo, RenderingPanics, WriteInfo,
         PassFails, SetIdentity, UserEdits, LandLate, managerVars, vars

(* Where the data of the ConfigMap and of the calls in flight comes from.  *)
LEMMA Written ==
  ASSUME [Next]_vars
  PROVE  /\ \/ configMap' \in {configMap, None} \/ configMap'.data \in UserData
            \/ /\ pc = "write" /\ Renders
               /\ configMap'.data = Rendering /\ configMap'.term = term
            \/ \E c \in late : configMap'.data = c.data /\ configMap'.term = c.term
         /\ late' \subseteq late \union InFlight
         /\ given' \in {given, identity, None}
         /\ \/ identity' = identity
            \/ identity = None /\ UNCHANGED <<configMap, late, given>>
<1> USE DEF clusterVars, passVars
<1>1. CASE BeginPass \/ GetInfo \/ RenderingPanics
  BY <1>1 DEF BeginPass, GetInfo, RenderingPanics, Return
<1>2. CASE WriteInfo
  BY <1>2 DEF WriteInfo, Store, Return
<1>3. CASE PassFails
  BY <1>3 DEF PassFails, Abandon, Return
<1>4. ASSUME NEW p \in Replicas, Starts(p) \/ Leads(p)
      PROVE  UNCHANGED <<identity, configMap, late, given>>
  BY <1>4 DEF Starts, Leads
<1>5. ASSUME NEW p \in Replicas, Stops(p)
      PROVE  /\ UNCHANGED <<identity, configMap>>
             /\ late' \subseteq late \union InFlight /\ given' \in {given, None}
  BY <1>5 DEF Stops, Abandon, Return
<1>6. CASE SetIdentity \/ UserEdits
  BY <1>6 DEF SetIdentity, UserEdits, Store
<1>7. ASSUME NEW c \in late, LandLate(c)
      PROVE  /\ \/ configMap' = configMap
                \/ configMap'.data = c.data /\ configMap'.term = c.term
             /\ late' \subseteq late /\ given' = given /\ identity' = identity
  BY <1>7 DEF LandLate, Store
<1>8. CASE UNCHANGED vars
  BY <1>8 DEF vars
<1> QED
  BY <1>1, <1>2, <1>3, <1>4, <1>5, <1>6, <1>7, <1>8 DEF Next, Worker, Environment

LEMMA ContentStep ==
  ASSUME Inv, ContentInv, [Next]_vars
  PROVE  ContentInv'
<1>1. term \in Nat /\ \A c \in late : c.term \in Nat /\ c.term <= term
  BY DEF Inv, TypeOK, VersionInv, Calls
<1>2. configMap # None => configMap.term \in Nat /\ configMap.term <= term
  BY DEF Inv, TypeOK, VersionInv, ConfigMaps
<1>3. \A c \in InFlight : AsConfigured(c.data, c.term) /\ c.term = term
  BY RenderingConfigured DEF InFlight
<1>4. CASE identity' = identity
  <2>1. WrittenAsConfigured'
    <3>1. ASSUME configMap' # None, configMap'.data \notin UserData
          PROVE  /\ AsConfigured(configMap'.data, configMap'.term)
                 /\ configMap'.term \in Nat /\ configMap'.term <= term
      BY <1>1, <1>2, <3>1, Written, RenderingConfigured
      DEF ContentInv, WrittenAsConfigured
    <3>2. ASSUME NEW d, NEW t \in Nat, t <= term, AsConfigured(d, t),
                 d = configMap'.data, t = configMap'.term
          PROVE  AsConfigured(configMap.data, configMap.term)'
      <4>1. AsConfigured(d, t)'
        BY <1>4, <3>2, StaysConfigured
      <4> QED
        BY <3>2, <4>1 DEF AsConfigured
    <3> QED
      BY <3>1, <3>2 DEF WrittenAsConfigured
  <2>2. \A c \in late' : AsConfigured(c.data, c.term)'
    <3> SUFFICES ASSUME NEW c \in late' PROVE AsConfigured(c.data, c.term)'
      OBVIOUS
    <3>1. AsConfigured(c.data, c.term) /\ c.term \in Nat /\ c.term <= term
      BY <1>1, <1>3, Written DEF ContentInv
    <3> QED
      BY <1>4, <3>1, StaysConfigured
  <2>3. given' # None => given' = identity'
    BY <1>4, Written DEF ContentInv
  <2> QED
    BY <2>1, <2>2, <2>3 DEF ContentInv
<1>5. CASE identity = None /\ UNCHANGED <<configMap, late, given>>
  <2>1. \A d \in Rendered : \A t : ~AsConfigured(d, t)
    BY <1>5, InfoAssumption DEF Rendered, AsConfigured
  <2>2. late = {} /\ given = None
    BY <1>5, <2>1 DEF Inv, TypeOK, Calls, ContentInv
  <2>3. configMap # None => configMap.data \in UserData
    BY <2>1 DEF Inv, TypeOK, ConfigMaps, ContentInv, WrittenAsConfigured
  <2> QED
    BY <1>5, <2>2, <2>3 DEF ContentInv, WrittenAsConfigured
<1> QED
  BY <1>4, <1>5, Written

(* What a leader has written follows the Cluster and its own command line, *)
(* however its start interleaved with those of the other replicas.         *)
THEOREM WritesAsConfigured == Spec => []WrittenAsConfigured
<1>1. Init => ContentInv
  BY DEF Init, ContentInv, WrittenAsConfigured
<1>2. Inv /\ ContentInv /\ [Next]_vars => ContentInv'
  BY ContentStep
<1>3. ContentInv => WrittenAsConfigured
  BY DEF ContentInv
<1> QED
  BY <1>1, <1>2, <1>3, InvariantHolds, PTL DEF Spec

=============================================================================
