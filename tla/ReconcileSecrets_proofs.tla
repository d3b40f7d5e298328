----------------------- MODULE ReconcileSecrets_proofs -----------------------
(***************************************************************************)
(* Theorems about ReconcileSecrets for every value of its constants: type  *)
(* correctness, that no copy is missing or outdated and no other one left  *)
(* when a pass has cleaned up, and that the calls implement the abstract   *)
(* pass of SecretSync.                                                     *)
(***************************************************************************)
EXTENDS ReconcileSecrets, TLAPS

(* The copies made so far: the names in secretsToKeep are those of the     *)
(* references before the next one, their secrets are there, and what the   *)
(* next write is based on is still true, or others have interfered.        *)
CopyInv ==
  /\ pc = "idle" => foreign = {} /\ next = 1 /\ keep = {}
  /\ pc # "idle" =>
       /\ keep = {NameOf(References(att)[i]) : i \in 1 .. next - 1}
       /\ \A n \in keep : shoot[<<att.ns, n>>] # None \/ <<att.ns, n>> \in foreign
  /\ pc = "write" => seen = shoot[Target] \/ Target \in foreign
  /\ pc \in {"list", "delete", "done"} => next = Len(References(att)) + 1

(* The cleanup: what is still to go has been listed.                       *)
ListInv ==
  /\ \A x \in made : shoot[x] # None /\ shoot[x].managed
  /\ pc \in {"delete", "done"} =>
       /\ \A x \in made : x[1] = att.ns => x[2] \in Referenced(att) \union listed
       /\ foreign = {} => Managed(att.ns) \subseteq Referenced(att) \union listed
       /\ \A n \in listed : <<att.ns, n>> \in foreign \/ n \in Managed(att.ns)
  /\ pc = "done" => listed = {}

Inv == TypeOK /\ CopyInv /\ ListInv

-----------------------------------------------------------------------------
(* Facts about the data.                                                   *)

LEMMA ConfigFacts ==
  ASSUME NEW c \in Configs
  PROVE  /\ c.ns \in Namespaces
         /\ References(c) \in Seq(ReferenceType)
         /\ Len(References(c)) \in Nat
         /\ \A i \in 1 .. Len(References(c)) :
              /\ References(c)[i].resource \in Resources
              /\ NameOf(References(c)[i]) \in Names
              /\ NameOf(References(c)[i]) \in Referenced(c)
         /\ Referenced(c) \subseteq Names
<1>1. c \in ConfigType /\ c # None
  BY ConfigsAssumption, SentinelsAssumption
<1>2. c.additional \in Seq(ReferenceType) /\ c.ns \in Namespaces
  BY <1>1 DEF ConfigType
<1>3. c.source # None => c.source \in ReferenceType
  BY <1>1 DEF ConfigType
<1>4. References(c) \in Seq(ReferenceType)
  BY <1>2, <1>3 DEF References
<1>5. Len(References(c)) \in Nat
  BY <1>4
<1>6. \A i \in 1 .. Len(References(c)) : References(c)[i] \in ReferenceType
  BY <1>4
<1>7. \A r \in ReferenceType : NameOf(r) \in Names /\ r.resource \in Resources
  BY ConfigsAssumption DEF ReferenceType, NameOf
<1> QED
  BY <1>2, <1>4, <1>5, <1>6, <1>7 DEF Referenced

LEMMA CopyType ==
  ASSUME NEW s \in SeedSecret
  PROVE  Copy(s) \in ShootSecret
BY DEF SeedSecret, ShootSecret, Copy

(* While a reference is being copied, its slot and what will be put there  *)
(* are known.                                                              *)
LEMMA TargetFacts ==
  ASSUME TypeOK, pc \in {"get", "write"}
  PROVE  /\ att \in Configs
         /\ next \in 1 .. Len(References(att))
         /\ Target = <<att.ns, NameOf(Reference)>>
         /\ Target \in Slots
         /\ NameOf(Reference) \in Names
         /\ NameOf(Reference) \in Referenced(att)
         /\ read \in SeedSecret
         /\ Copy(read) \in ShootSecret
         /\ Copy(read) # None
<1>1. att \in Configs /\ next \in 1 .. Len(References(att))
  <2>1. att \in Configs
    BY DEF TypeOK
  <2>2. Len(References(att)) \in Nat
    BY <2>1, ConfigFacts
  <2> QED
    BY <2>1, <2>2 DEF TypeOK
<1>2. read \in SeedSecret
  BY DEF TypeOK
<1>3. Copy(read) \in ShootSecret
  BY <1>2, CopyType
<1>4. NameOf(Reference) \in Names /\ NameOf(Reference) \in Referenced(att)
  BY <1>1, ConfigFacts DEF Reference
<1>5. att.ns \in Namespaces
  BY <1>1, ConfigFacts
<1> QED
  BY <1>1, <1>2, <1>3, <1>4, <1>5, SentinelsAssumption DEF Target, Slots

(* Once all copies have been made, the names to keep are those referenced. *)
LEMMA KeepIsReferenced ==
  ASSUME TypeOK, CopyInv, pc # "idle", next = Len(References(att)) + 1
  PROVE  keep = Referenced(att)
<1>1. att \in Configs
  BY DEF TypeOK
<1>2. Len(References(att)) \in Nat
  BY <1>1, ConfigFacts
<1>3. next - 1 = Len(References(att))
  BY <1>2
<1> QED
  BY <1>3 DEF CopyInv, Referenced

-----------------------------------------------------------------------------
(* Steps that several actions consist of.                                  *)

LEMMA InitInv == Init => Inv
<1> SUFFICES ASSUME Init PROVE Inv
  OBVIOUS
<1>1. TypeOK
  <2>1. shoot \in [Slots -> ShootSecret \union {None}]
    BY DEF Init
  <2>2. seed \in [Resources -> SeedSecret \union {None}]
    BY ConfigsAssumption DEF Init, SeedSecret
  <2> QED
    BY <2>1, <2>2, BoundsAssumption DEF Init, TypeOK, PCs
<1> QED
  BY <1>1 DEF Init, Inv, CopyInv, ListInv

(* The end of a pass.                                                      *)
LEMMA ReturnStep ==
  ASSUME Inv, Return, late' \subseteq CallType,
         edits' = edits, faults' \in 0 .. MaxFaults
  PROVE  Inv'
<1>1. TypeOK'
  BY DEF Inv, Return, TypeOK, seedVars, PCs
<1> QED
  BY <1>1 DEF Inv, Return, CopyInv, ListInv

(* Somebody else changes a secret.                                         *)
LEMMA PutStep ==
  ASSUME Inv, NEW x \in Slots, NEW s \in ShootSecret \union {None}, Put(x, s),
         late' \subseteq CallType, edits' \in 0 .. MaxEdits
  PROVE  Inv'
<1> USE DEF Inv
<1>1. /\ shoot' \in [Slots -> ShootSecret \union {None}]
      /\ shoot'[x] = s
      /\ \A y \in Slots \ {x} : shoot'[y] = shoot[y]
  BY DEF TypeOK, Put
<1>2. UNCHANGED <<seedVars, pc, att, copyVars, keep, listed, faults>>
  BY DEF Put
<1>3. pc # "idle" => foreign' = foreign \union {x}
  BY DEF Put
<1>4. TypeOK'
  BY <1>1, <1>2 DEF Put, TypeOK, seedVars, copyVars
<1>5. CopyInv'
  <2>1. pc # "idle" => \A n \in keep : <<att.ns, n>> \in Slots
    <3>1. pc # "idle" => att \in Configs
      BY DEF TypeOK
    <3>2. keep \subseteq Names
      BY DEF TypeOK
    <3> QED
      BY <3>1, <3>2, ConfigFacts DEF Slots
  <2>2. pc # "idle" =>
          \A n \in keep : shoot'[<<att.ns, n>>] # None \/ <<att.ns, n>> \in foreign'
    BY <1>1, <1>3, <2>1 DEF CopyInv
  <2>3. Target' = Target
    BY <1>2 DEF copyVars, Target, Reference
  <2>4. pc = "write" => seen = shoot'[Target] \/ Target \in foreign'
    BY <1>1, <1>3, TargetFacts DEF CopyInv
  <2>5. pc = "idle" => foreign' = {}
    BY DEF Put
  <2> QED
    BY <1>2, <2>2, <2>3, <2>4, <2>5 DEF CopyInv, copyVars
<1>6. ListInv'
  <2>1. made' \subseteq made \ {x} /\ made \subseteq Slots
    BY DEF Put, TypeOK
  <2>2. \A y \in made' : shoot'[y] # None /\ shoot'[y].managed
    BY <1>1, <2>1 DEF ListInv
  <2>3. pc # "idle" => foreign' # {}
    BY <1>3
  <2>4. ASSUME pc \in {"delete", "done"}, NEW n \in listed
        PROVE  <<att.ns, n>> \in foreign' \/ n \in Managed(att.ns)'
    <3>1. <<att.ns, n>> \in Slots
      BY <2>4, ConfigFacts DEF TypeOK, Slots
    <3>2. <<att.ns, n>> \in foreign \/ n \in Managed(att.ns)
      BY <2>4 DEF ListInv
    <3> QED
      BY <1>1, <1>2, <1>3, <2>4, <3>1, <3>2 DEF Managed
  <2> QED
    BY <1>2, <2>1, <2>2, <2>3, <2>4 DEF ListInv
<1> QED
  BY <1>4, <1>5, <1>6

(* A step that leaves the shoot and the pass alone.                        *)
LEMMA OtherStep ==
  ASSUME Inv, UNCHANGED <<shootVars, pc, att, copyVars, keep, listed>>,
         config' \in Configs, seed' \in [Resources -> SeedSecret \union {None}],
         renewed' \subseteq Resources,
         late' \subseteq CallType, edits' \in 0 .. MaxEdits, faults' \in 0 .. MaxFaults
  PROVE  Inv'
<1>1. TypeOK'
  BY DEF Inv, TypeOK, shootVars, copyVars
<1>2. CopyInv'
  BY DEF Inv, CopyInv, shootVars, copyVars, Target, Reference
<1>3. ListInv'
  BY DEF Inv, ListInv, shootVars, Managed
<1> QED
  BY <1>1, <1>2, <1>3 DEF Inv

-----------------------------------------------------------------------------
(* The steps of the worker.                                                *)

LEMMA StartStep == ASSUME Inv, Start PROVE Inv'
<1> USE DEF Inv
<1>1. att = None /\ config \in Configs
  BY DEF Start, TypeOK
<1>2. att' \in Configs /\ att' # None /\ pc' = "read"
  BY <1>1, SentinelsAssumption DEF Start
<1>3. Len(References(att')) \in Nat
  BY <1>2, ConfigFacts
<1>4. next = 1 /\ keep = {}
  BY DEF Start, CopyInv
<1>5. TypeOK'
  BY <1>2, <1>3, <1>4
     DEF Start, TypeOK, PCs, seedVars, shootVars, copyVars, budgets
<1>6. CopyInv'
  <2>1. next' = 1 /\ keep' = {}
    BY <1>4 DEF Start, copyVars
  <2>2. 1 .. next' - 1 = {}
    BY <2>1
  <2> QED
    BY <1>2, <2>1, <2>2 DEF CopyInv
<1>7. ListInv'
  BY <1>2 DEF Start, ListInv, shootVars
<1> QED
  BY <1>5, <1>6, <1>7

LEMMA WriteStep ==
  ASSUME Inv, WriteShoot
  PROVE  /\ Inv'
         /\ shoot'[Target] # None \/ Target \in foreign
         /\ \/ shoot' = shoot
            \/ shoot' = [shoot EXCEPT ![Target] = Copy(read)]
<1> USE DEF Inv
<1> DEFINE secret == Copy(read)
           name == NameOf(Reference)
<1>1. pc = "write" /\ Write(secret, keep \union {name})
  BY DEF WriteShoot, Write
<1>2. /\ att \in Configs /\ Target = <<att.ns, name>> /\ Target \in Slots
      /\ name \in Names /\ name \in Referenced(att)
      /\ secret \in ShootSecret /\ secret # None
      /\ next \in 1 .. Len(References(att)) /\ Len(References(att)) \in Nat
  BY <1>1, TargetFacts, ConfigFacts
<1>3. \/ shoot' = shoot
      \/ shoot' = [shoot EXCEPT ![Target] = secret]
  BY <1>1 DEF Write
<1>4. /\ shoot' \in [Slots -> ShootSecret \union {None}]
      /\ \A y \in Slots \ {Target} : shoot'[y] = shoot[y]
  BY <1>2, <1>3 DEF TypeOK
<1>5. shoot'[Target] # None \/ Target \in foreign
  <2>1. CASE secret = seen
    BY <1>1, <1>2, <2>1 DEF Write, CopyInv
  <2>2. CASE secret # seen
    BY <1>1, <1>2, <2>2 DEF Write, TypeOK
  <2> QED
    BY <2>1, <2>2
<1>6. /\ next' = next + 1 /\ pc' = "read" /\ read' = None /\ seen' = None
      /\ keep' = keep \union {name}
      /\ UNCHANGED <<config, seed, renewed, foreign, late, att, listed, edits, faults>>
  BY <1>1 DEF Write, NextReference, seedVars, budgets
<1>7. made' \subseteq made \union {Target}
  BY <1>1 DEF Write
<1>8. TypeOK'
  BY <1>2, <1>4, <1>6, <1>7, <1>1 DEF TypeOK, PCs
<1>9. CopyInv'
  <2>1. keep' = {NameOf(References(att)[i]) : i \in 1 .. next' - 1}
    <3>1. next' - 1 = next /\ next \in Nat /\ next >= 1
      BY <1>2, <1>6
    <3>2. name = NameOf(References(att)[next])
      BY DEF Reference
    <3>3. keep = {NameOf(References(att)[i]) : i \in 1 .. next - 1}
      BY <1>1 DEF CopyInv
    <3>4. 1 .. next = (1 .. next - 1) \union {next}
      BY <3>1
    <3> QED
      BY <1>6, <3>1, <3>2, <3>3, <3>4
  <2>2. \A n \in keep' : shoot'[<<att.ns, n>>] # None \/ <<att.ns, n>> \in foreign
    <3>1. \A n \in keep : <<att.ns, n>> \in Slots
      BY <1>2, ConfigFacts DEF TypeOK, Slots
    <3>2. \A n \in keep : shoot[<<att.ns, n>>] # None \/ <<att.ns, n>> \in foreign
      BY <1>1 DEF CopyInv
    <3> QED
      BY <1>2, <1>4, <1>5, <1>6, <3>1, <3>2
  <2> QED
    BY <1>6, <2>1, <2>2 DEF CopyInv
<1>10. ListInv'
  <2>1. \A x \in made' : shoot'[x] # None /\ shoot'[x].managed
    <3>1. \A x \in made' \ {Target} : x \in made /\ x \in Slots /\ shoot'[x] = shoot[x]
      BY <1>4, <1>7 DEF TypeOK
    <3>2. Target \in made' => shoot'[Target] # None /\ shoot'[Target].managed
      <4>1. CASE shoot'[Target] = secret
        BY <1>1, <1>2, <4>1 DEF Write
      <4>2. CASE shoot'[Target] # secret
        <5>1. shoot' = shoot /\ made' = made
          BY <1>1, <1>2, <1>3, <4>2 DEF Write, TypeOK
        <5> QED
          BY <5>1 DEF ListInv
      <4> QED
        BY <4>1, <4>2
    <3> QED
      BY <3>1, <3>2 DEF ListInv
  <2> QED
    BY <1>6, <2>1 DEF ListInv
<1> QED
  BY <1>3, <1>5, <1>8, <1>9, <1>10

LEMMA CopiesDoneStep == ASSUME Inv, CopiesDone PROVE Inv'
<1> USE DEF Inv
<1>1. att \in Configs /\ Len(References(att)) \in Nat
  <2>1. att \in Configs
    BY DEF CopiesDone, TypeOK
  <2> QED
    BY <2>1, ConfigFacts
<1>2. next = Len(References(att)) + 1
  BY <1>1 DEF CopiesDone, TypeOK
<1>3. TypeOK'
  BY DEF CopiesDone, TypeOK, PCs, seedVars, shootVars, copyVars, budgets
<1>4. CopyInv'
  BY <1>2 DEF CopiesDone, CopyInv, shootVars, copyVars
<1>5. ListInv'
  BY DEF CopiesDone, ListInv, shootVars
<1> QED
  BY <1>3, <1>4, <1>5

LEMMA ListStep == ASSUME Inv, ListManaged PROVE Inv'
<1> USE DEF Inv
<1>1. Managed(att.ns) \subseteq Names
  BY DEF Managed
<1>2. TypeOK'
  BY <1>1 DEF ListManaged, List, TypeOK, PCs, seedVars, shootVars, copyVars, budgets
<1>3. CopyInv'
  BY DEF ListManaged, List, CopyInv, shootVars, copyVars
<1>4. \A x \in made : x[1] = att.ns => x[2] \in Managed(att.ns)
  <2>1. \A x \in made : x = <<x[1], x[2]>> /\ x[2] \in Names
    BY DEF TypeOK, Slots
  <2> QED
    BY <2>1 DEF ListInv, Managed
<1>5. Managed(att.ns)' = Managed(att.ns)
  BY DEF ListManaged, List, shootVars, Managed
<1>6. ListInv'
  BY <1>4, <1>5 DEF ListManaged, List, ListInv, shootVars
<1> QED
  BY <1>2, <1>3, <1>6

(* A visit deletes no referenced secret.                                   *)
LEMMA VisitStep ==
  ASSUME Inv, Visit
  PROVE  /\ Inv'
         /\ \/ shoot' = shoot
            \/ \E n \in Names \ Referenced(att) :
                 shoot' = [shoot EXCEPT ![<<att.ns, n>>] = None]
<1> USE DEF Inv
<1>1. att \in Configs /\ pc = "delete" /\ keep = Referenced(att)
  <2>1. att \in Configs /\ pc = "delete"
    BY DEF Visit, VisitKeeping, TypeOK
  <2> QED
    BY <2>1, KeepIsReferenced DEF CopyInv
<1>2. PICK n \in listed :
        /\ listed' = listed \ {n}
        /\ IF n \in keep
           THEN UNCHANGED <<shoot, made>>
           ELSE /\ shoot' = [shoot EXCEPT ![<<att.ns, n>>] = None]
                /\ made' = made \ {<<att.ns, n>>}
  BY DEF Visit, VisitKeeping
<1>3. UNCHANGED <<seedVars, foreign, late, pc, att, copyVars, keep, budgets>>
  BY DEF Visit, VisitKeeping
<1>4. n \in Names /\ <<att.ns, n>> \in Slots
  BY <1>1, <1>2, ConfigFacts DEF TypeOK, Slots
<1>5. CASE n \in keep
  <2>1. TypeOK'
    BY <1>2, <1>3, <1>5 DEF TypeOK, seedVars, copyVars, budgets
  <2>2. CopyInv'
    BY <1>1, <1>2, <1>3, <1>5 DEF CopyInv, copyVars
  <2>3. ListInv'
    BY <1>1, <1>2, <1>3, <1>5 DEF ListInv, Managed
  <2> QED
    BY <1>2, <1>5, <2>1, <2>2, <2>3
<1>6. CASE n \notin keep
  <2>1. /\ shoot' \in [Slots -> ShootSecret \union {None}]
        /\ shoot'[<<att.ns, n>>] = None
        /\ \A y \in Slots \ {<<att.ns, n>>} : shoot'[y] = shoot[y]
        /\ made' = made \ {<<att.ns, n>>} /\ made \subseteq Slots
    BY <1>2, <1>4, <1>6 DEF TypeOK
  <2>2. TypeOK'
    BY <1>2, <1>3, <2>1 DEF TypeOK, seedVars, copyVars, budgets
  <2>3. CopyInv'
    <3>1. \A m \in keep : <<att.ns, m>> \in Slots \ {<<att.ns, n>>}
      BY <1>1, <1>6, ConfigFacts DEF TypeOK, Slots
    <3> QED
      BY <1>1, <1>3, <2>1, <3>1 DEF CopyInv, copyVars
  <2>4. ListInv'
    <3>1. Managed(att.ns)' = Managed(att.ns) \ {n}
      <4>1. \A m \in Names \ {n} : shoot'[<<att.ns, m>>] = shoot[<<att.ns, m>>]
        BY <1>1, <2>1, ConfigFacts DEF Slots
      <4>2. att' = att
        BY <1>3
      <4> QED
        BY <2>1, <4>1, <4>2 DEF Managed
    <3>2. \A x \in made' : shoot'[x] # None /\ shoot'[x].managed
      BY <2>1 DEF ListInv
    <3>3. \A x \in made' : x[1] = att.ns => x[2] # n
      <4>1. \A x \in made : x = <<x[1], x[2]>>
        BY <2>1 DEF Slots
      <4> QED
        BY <2>1, <4>1
    <3> QED
      BY <1>1, <1>2, <1>3, <2>1, <3>1, <3>2, <3>3 DEF ListInv
  <2> QED
    BY <1>1, <1>2, <1>4, <1>6, <2>2, <2>3, <2>4
<1> QED
  BY <1>5, <1>6

(* Every step keeps the invariant.                                         *)
LEMMA NextInv == ASSUME Inv, [Next]_vars PROVE Inv'
<1> USE DEF Inv
<1>1. late \subseteq CallType /\ edits \in 0 .. MaxEdits /\ faults \in 0 .. MaxFaults
  BY DEF TypeOK
<1>2. CASE Start
  BY <1>2, StartStep
<1>3. CASE ReadSeed
  <2>1. late' = late /\ edits' = edits /\ faults' = faults
    BY <1>3 DEF ReadSeed, budgets
  <2>2. CASE Return
    BY <1>1, <2>1, <2>2, ReturnStep
  <2>3. CASE GotSeed(seed[Reference.resource]) /\ seed[Reference.resource] # None
    <3>1. att \in Configs /\ next \in 1 .. Len(References(att))
      <4>1. att \in Configs /\ next \in Nat \ {0} /\ next <= Len(References(att))
        BY <1>3 DEF ReadSeed, TypeOK
      <4>2. Len(References(att)) \in Nat
        BY <4>1, ConfigFacts
      <4> QED
        BY <4>1, <4>2
    <3>2. seed[Reference.resource] \in SeedSecret
      BY <2>3, <3>1, ConfigFacts DEF TypeOK, Reference
    <3>3. TypeOK'
      BY <1>3, <2>1, <2>3, <3>1, <3>2, SentinelsAssumption
         DEF ReadSeed, GotSeed, TypeOK, PCs, seedVars, shootVars
    <3> QED
      BY <1>3, <2>3, <3>3 DEF ReadSeed, GotSeed, CopyInv, ListInv, shootVars
  <2> QED
    BY <1>3, <2>2, <2>3 DEF ReadSeed
<1>4. CASE GetShoot
  <2>1. Target \in Slots
    BY <1>4, TargetFacts DEF GetShoot
  <2>2. TypeOK'
    BY <1>4, <2>1 DEF GetShoot, TypeOK, PCs, seedVars, shootVars, budgets
  <2>3. CopyInv'
    BY <1>4 DEF GetShoot, CopyInv, shootVars, Target, Reference
  <2>4. ListInv'
    BY <1>4 DEF GetShoot, ListInv, shootVars
  <2> QED
    BY <2>2, <2>3, <2>4
<1>5. CASE WriteShoot
  BY <1>5, WriteStep
<1>6. CASE WriteFails \/ Leave
  BY <1>1, <1>6, ReturnStep DEF WriteFails, Leave, budgets
<1>7. CASE CopiesDone
  BY <1>7, CopiesDoneStep
<1>8. CASE ListManaged
  BY <1>8, ListStep
<1>9. CASE Visit
  BY <1>9, VisitStep
<1>10. CASE Finish
  <2>1. TypeOK'
    BY <1>10 DEF Finish, TypeOK, PCs, seedVars, shootVars, copyVars, budgets
  <2>2. CopyInv'
    BY <1>10 DEF Finish, CopyInv, shootVars, copyVars
  <2>3. ListInv'
    BY <1>10 DEF Finish, ListInv, shootVars, Managed
  <2> QED
    BY <2>1, <2>2, <2>3
<1>11. CASE Abort
  <2>1. InFlight \subseteq CallType
    <3>1. CASE pc = "write"
      <4>1. seen \in ShootSecret \union {None}
        BY DEF TypeOK
      <4> QED
        BY <3>1, <4>1, TargetFacts DEF InFlight, CallType
    <3>2. CASE pc = "delete"
      <4>1. \A n \in listed : <<att.ns, n>> \in Slots
        BY <3>2, ConfigFacts DEF TypeOK, Slots
      <4> QED
        BY <3>2, <4>1 DEF InFlight, CallType
    <3> QED
      BY <3>1, <3>2 DEF InFlight
  <2>2. late' \subseteq late \union InFlight
    BY <1>11 DEF Abort
  <2>3. faults' \in 0 .. MaxFaults
    BY <1>1, <1>11, BoundsAssumption DEF Abort
  <2> QED
    BY <1>1, <1>11, <2>1, <2>2, <2>3, ReturnStep DEF Abort
<1>12. CASE ChangeConfig
  <2>1. edits' \in 0 .. MaxEdits
    BY <1>1, <1>12, BoundsAssumption DEF ChangeConfig, Edit
  <2> QED
    BY <1>1, <1>12, <2>1, OtherStep DEF ChangeConfig, TypeOK
<1>13. ASSUME NEW r \in Resources, RenewSeed(r)
       PROVE  Inv'
  <2>1. edits' \in 0 .. MaxEdits
    BY <1>1, <1>13, BoundsAssumption DEF RenewSeed, Edit
  <2>2. seed' \in [Resources -> SeedSecret \union {None}]
    BY <1>13, ConfigsAssumption DEF RenewSeed, TypeOK, SeedSecret
  <2>3. config' \in Configs /\ renewed' \subseteq Resources
    BY <1>13 DEF RenewSeed, TypeOK
  <2> QED
    BY <1>1, <1>13, <2>1, <2>2, <2>3, OtherStep DEF RenewSeed
<1>14. ASSUME NEW x \in Slots, UserWrites(x) \/ UserDeletes(x)
       PROVE  Inv'
  <2>1. edits' \in 0 .. MaxEdits
    BY <1>1, <1>14, BoundsAssumption DEF UserWrites, UserDeletes, Edit
  <2>2. PICK s \in ShootSecret \union {None} : Put(x, s)
    BY <1>14 DEF UserWrites, UserDeletes
  <2>3. late' = late
    BY <1>14 DEF UserWrites, UserDeletes
  <2> QED
    BY <1>1, <2>1, <2>2, <2>3, PutStep
<1>15. ASSUME NEW c \in late, LandLate(c)
       PROVE  Inv'
  <2>1. c.slot \in Slots /\ c.secret \in ShootSecret \union {None}
    BY <1>1 DEF CallType
  <2>2. late' \subseteq CallType /\ edits' = edits
    BY <1>1, <1>15 DEF LandLate
  <2>3. CASE Put(c.slot, c.secret)
    BY <1>1, <2>1, <2>2, <2>3, PutStep
  <2>4. CASE UNCHANGED <<seedVars, shootVars, pc, att, copyVars, keep, listed, faults>>
    <3>1. /\ config' \in Configs /\ seed' \in [Resources -> SeedSecret \union {None}]
          /\ renewed' \subseteq Resources
      BY <2>4 DEF TypeOK, seedVars
    <3> QED
      BY <1>1, <2>2, <2>4, <3>1, OtherStep
  <2> QED
    BY <1>15, <2>3, <2>4 DEF LandLate
<1>16. CASE UNCHANGED vars
  BY <1>1, <1>16, OtherStep DEF vars, TypeOK, seedVars, budgets
<1> QED
  BY <1>2, <1>3, <1>4, <1>5, <1>6, <1>7, <1>8, <1>9, <1>10, <1>11, <1>12, <1>13,
     <1>14, <1>15, <1>16
     DEF Next, Worker, Environment

-----------------------------------------------------------------------------
(* What the copies contain. The copies made so far are current, and so is  *)
(* what the next one is made from.                                         *)
CurrentInv ==
  /\ pc = "idle" => renewed = {}
  /\ pc # "idle" => Current(next - 1)
  /\ pc \in {"get", "write"} =>
       read = seed[Reference.resource] \/ Reference.resource \in renewed

(* What is current stays so if the pass goes on with what it has, and what *)
(* changes is marked or of no reference.                                   *)
LEMMA CurrentStays ==
  ASSUME Current(next - 1), next' = next, att' = att,
         foreign \subseteq foreign', renewed \subseteq renewed',
         \A i \in 1 .. next - 1 :
           LET r == References(att)[i]
               x == <<att.ns, NameOf(r)>> IN
             /\ shoot'[x] = shoot[x] \/ x \in foreign'
             /\ seed'[r.resource] = seed[r.resource] \/ r.resource \in renewed'
  PROVE  Current(next - 1)'
BY DEF Current

(* The next copy is current when it has been written, and those of other   *)
(* names are left alone; a copy of the same name is now the next one's.    *)
LEMMA WriteCurrent ==
  ASSUME Inv, CurrentInv, WriteShoot
  PROVE  CurrentInv'
<1> DEFINE r(i) == References(att)[i]
           x(i) == <<att.ns, NameOf(r(i))>>
<1>1. /\ pc = "write"
      /\ next' = next + 1 /\ pc' = "read"
      /\ UNCHANGED <<seed, renewed, foreign, att>>
      /\ shoot' = IF Copy(read) = seen THEN shoot
                  ELSE [shoot EXCEPT ![Target] = Copy(read)]
  BY DEF WriteShoot, Write, NextReference, seedVars
<1>2. /\ att \in Configs /\ Target \in Slots /\ Reference = r(next)
      /\ Target = x(next) /\ next \in Nat \ {0} /\ next <= Len(References(att))
      /\ Len(References(att)) \in Nat
  BY <1>1, TargetFacts, ConfigFacts DEF Inv, Reference
<1>3. shoot'[Target] = Copy(read) \/ Target \in foreign
  BY <1>1, <1>2 DEF Inv, TypeOK, CopyInv
<1>4. \A y \in Slots \ {Target} : shoot'[y] = shoot[y]
  BY <1>1, <1>2 DEF Inv, TypeOK
<1>5. next' - 1 = next
  BY <1>1, <1>2
<1>6. ASSUME NEW i \in 1 .. next
      PROVE  \/ \E j \in i + 1 .. next : NameOf(r(j)) = NameOf(r(i))
             \/ x(i) \in foreign
             \/ r(i).resource \in renewed
             \/ shoot'[x(i)] = Copy(seed[r(i).resource])
  <2>1. CASE i = next
    BY <1>1, <1>2, <1>3, <2>1 DEF CurrentInv
  <2>2. CASE i # next /\ NameOf(r(i)) = NameOf(r(next))
    BY <1>2, <2>2
  <2>3. CASE i # next /\ NameOf(r(i)) # NameOf(r(next))
    <3>1. i \in 1 .. next - 1 /\ i \in 1 .. Len(References(att))
      BY <1>2, <2>3
    <3>2. x(i) \in Slots \ {Target}
      BY <1>2, <2>3, <3>1, ConfigFacts DEF Slots
    <3>3. \/ \E j \in i + 1 .. next - 1 : NameOf(r(j)) = NameOf(r(i))
          \/ x(i) \in foreign
          \/ r(i).resource \in renewed
          \/ shoot[x(i)] = Copy(seed[r(i).resource])
      BY <1>1, <3>1 DEF CurrentInv, Current
    <3>4. i + 1 .. next - 1 \subseteq i + 1 .. next
      BY <1>2
    <3> QED
      BY <1>4, <3>2, <3>3, <3>4
  <2> QED
    BY <2>1, <2>2, <2>3
<1>7. Current(next - 1)'
  BY <1>1, <1>5, <1>6 DEF Current
<1> QED
  BY <1>1, <1>5, <1>7 DEF CurrentInv

LEMMA CurrentStep ==
  ASSUME Inv, Inv', CurrentInv, [Next]_vars
  PROVE  CurrentInv'
<1>1. pc # "idle" =>
        /\ att \in Configs /\ next - 1 \in Nat
        /\ \A i \in 1 .. next - 1 : i \in 1 .. Len(References(att))
  <2>1. pc # "idle" => att \in Configs
    BY DEF Inv, TypeOK
  <2>2. pc # "idle" => Len(References(att)) \in Nat
    BY <2>1, ConfigFacts
  <2> QED
    BY <2>1, <2>2 DEF Inv, TypeOK
<1>2. pc # "idle" =>
        \A i \in 1 .. next - 1 :
          /\ References(att)[i].resource \in Resources
          /\ NameOf(References(att)[i]) \in Referenced(att)
          /\ <<att.ns, NameOf(References(att)[i])>> \in Slots
  BY <1>1, ConfigFacts DEF Slots
<1>3. ASSUME Return PROVE CurrentInv'
  BY <1>3 DEF Return, CurrentInv
(* Steps within a pass that change neither the shoot nor the seed.         *)
<1>4. ASSUME pc # "idle", pc' # "idle", UNCHANGED <<seedVars, shootVars, att, next>>,
             pc' \in {"get", "write"} =>
               read' = seed[Reference.resource] \/ Reference.resource \in renewed
      PROVE  CurrentInv'
  <2>1. Current(next - 1)'
    BY <1>4 DEF CurrentInv, Current, seedVars, shootVars
  <2> QED
    BY <1>4, <2>1 DEF CurrentInv, Reference, seedVars
<1>5. CASE Start
  <2>1. next' = 1 /\ pc' = "read"
    BY <1>5 DEF Start, Inv, CopyInv, copyVars
  <2>2. Current(next - 1)'
    BY <2>1 DEF Current
  <2> QED
    BY <2>1, <2>2 DEF CurrentInv
<1>6. CASE ReadSeed
  <2>1. CASE GotSeed(seed[Reference.resource])
    BY <1>4, <1>6, <2>1 DEF ReadSeed, GotSeed
  <2> QED
    BY <1>3, <1>6, <2>1 DEF ReadSeed
<1>7. CASE GetShoot
  BY <1>4, <1>7 DEF GetShoot, CurrentInv
<1>8. CASE WriteShoot
  BY <1>8, WriteCurrent
<1>9. CASE WriteFails \/ Leave \/ Abort
  BY <1>3, <1>9 DEF WriteFails, Leave, Abort
<1>10. CASE CopiesDone \/ ListManaged \/ Finish
  BY <1>4, <1>10 DEF CopiesDone, ListManaged, List, Finish, copyVars
<1>11. CASE Visit
  <2>1. /\ pc = "delete" /\ pc' = pc
        /\ UNCHANGED <<seed, renewed, foreign, att, next>>
    BY <1>11 DEF Visit, VisitKeeping, seedVars, copyVars
  <2>2. \A n \in Referenced(att) : <<att.ns, n>> \in Slots =>
          shoot'[<<att.ns, n>>] = shoot[<<att.ns, n>>]
    <3>1. att \in Configs
      BY <1>1, <2>1
    <3>2. \A n \in Names : <<att.ns, n>> \in Slots
      BY <3>1, ConfigFacts DEF Slots
    <3> QED
      BY <1>11, <3>1, <3>2, VisitStep DEF Inv, TypeOK
  <2>3. Current(next - 1)'
    BY <1>1, <1>2, <2>1, <2>2, CurrentStays DEF CurrentInv
  <2> QED
    BY <2>1, <2>3 DEF CurrentInv
(* Steps of others.                                                        *)
<1>12. ASSUME UNCHANGED <<pc, att, copyVars>>,
              pc = "idle" => renewed' = {},
              pc # "idle" =>
                /\ foreign \subseteq foreign' /\ renewed \subseteq renewed'
                /\ \A y \in Slots : shoot'[y] = shoot[y] \/ y \in foreign'
                /\ \A r \in Resources : seed'[r] = seed[r] \/ r \in renewed'
       PROVE  CurrentInv'
  <2>1. CASE pc = "idle"
    BY <1>12, <2>1 DEF CurrentInv
  <2>2. CASE pc # "idle"
    <3>1. Current(next - 1)'
      <4>1. next' = next
        BY <1>12 DEF copyVars
      <4> QED
        BY <1>1, <1>2, <1>12, <2>2, <4>1, CurrentStays DEF CurrentInv
    <3>2. pc \in {"get", "write"} => Reference.resource \in Resources
      <4>1. pc \in {"get", "write"} => next \in 1 .. Len(References(att))
        BY TargetFacts DEF Inv
      <4> QED
        BY <1>1, <4>1, ConfigFacts DEF Reference
    <3>3. Reference' = Reference /\ read' = read
      BY <1>12 DEF Reference, copyVars
    <3> QED
      BY <1>12, <2>2, <3>1, <3>2, <3>3 DEF CurrentInv
  <2> QED
    BY <2>1, <2>2
<1>13. pc = "idle" => renewed = {}
  BY DEF CurrentInv
<1>14. ASSUME NEW y \in Slots, NEW s, Put(y, s) PROVE CurrentInv'
  <2>1. pc # "idle" => foreign' = foreign \union {y}
    BY <1>14 DEF Put
  <2>2. \A z \in Slots : shoot'[z] = shoot[z] \/ z = y
    BY <1>14 DEF Put, Inv, TypeOK
  <2>3. UNCHANGED <<seed, renewed, pc, att, copyVars>>
    BY <1>14 DEF Put, seedVars
  <2> QED
    BY <1>12, <1>13, <2>1, <2>2, <2>3
<1>15. CASE ChangeConfig \/ UNCHANGED vars
  BY <1>12, <1>13, <1>15 DEF ChangeConfig, vars, seedVars, shootVars
<1>16. ASSUME NEW r \in Resources, RenewSeed(r) PROVE CurrentInv'
  <2>1. \A q \in Resources \ {r} : seed'[q] = seed[q]
    BY <1>16 DEF RenewSeed, Inv, TypeOK
  <2> QED
    BY <1>12, <1>16, <2>1 DEF RenewSeed, shootVars
<1>17. ASSUME NEW y \in Slots, UserWrites(y) \/ UserDeletes(y) PROVE CurrentInv'
  BY <1>14, <1>17 DEF UserWrites, UserDeletes
<1>18. ASSUME NEW c \in late, LandLate(c) PROVE CurrentInv'
  <2>1. c.slot \in Slots
    BY DEF Inv, TypeOK, CallType
  <2>2. CASE UNCHANGED <<seedVars, shootVars, pc, att, copyVars, keep, listed, faults>>
    BY <1>12, <1>13, <2>2 DEF seedVars, shootVars
  <2> QED
    BY <1>14, <1>18, <2>1, <2>2 DEF LandLate
<1> QED
  BY <1>5, <1>6, <1>7, <1>8, <1>9, <1>10, <1>11, <1>15, <1>16, <1>17, <1>18
     DEF Next, Worker, Environment

THEOREM InvariantHolds == Spec => [](Inv /\ CurrentInv)
<1>1. Init => Inv /\ CurrentInv
  BY InitInv DEF Init, CurrentInv
<1>2. Inv /\ CurrentInv /\ [Next]_vars => (Inv /\ CurrentInv)'
  BY NextInv, CurrentStep
<1> QED
  BY <1>1, <1>2, PTL DEF Spec

-----------------------------------------------------------------------------
(* The results.                                                            *)

(* Every variable keeps its type, whatever fails, changes or lands late.   *)
THEOREM TypeCorrect == Spec => []TypeOK
BY InvariantHolds, PTL DEF Inv

(* While a pass cleans up, every secret of its config is there, unless     *)
(* others have changed it since the pass began.                            *)
THEOREM NothingIsMissing == Spec => []CopyBeforeCleanup
<1>1. ASSUME Inv PROVE CopyBeforeCleanup
  <2>1. CASE pc \in {"list", "delete", "done"}
    <3>1. att # None /\ keep = Referenced(att)
      BY <1>1, <2>1, KeepIsReferenced DEF Inv, CopyInv, TypeOK
    <3>2. \A x \in {att.ns} \X Referenced(att) : x = <<att.ns, x[2]>> /\ x[2] \in keep
      BY <3>1
    <3> QED
      BY <1>1, <2>1, <3>1, <3>2
         DEF CopyBeforeCleanup, Abstract!NothingMissing, Inv, CopyInv
  <2>2. CASE pc \notin {"list", "delete", "done"}
    BY <1>1, <2>2 DEF CopyBeforeCleanup, Abstract!NothingMissing, Inv, TypeOK, PCs
  <2> QED
    BY <2>1, <2>2
<1> QED
  BY <1>1, InvariantHolds, PTL

(* The copies that a pass cleans up after, and returns with, equal the     *)
(* secrets in the seed, for any number of references, resources and        *)
(* namespaces; also when several references have one target.               *)
THEOREM CopiesAreCurrent == Spec => []CopiesCurrent
<1>1. ASSUME Inv, CurrentInv PROVE CopiesCurrent
  <2>1. SUFFICES ASSUME pc \in {"list", "delete", "done"}
                 PROVE  Current(Len(References(att)))
    BY DEF CopiesCurrent
  <2>2. Len(References(att)) \in Nat
    BY <1>1, <2>1, ConfigFacts DEF Inv, TypeOK
  <2>3. next - 1 = Len(References(att))
    BY <1>1, <2>1, <2>2 DEF Inv, CopyInv
  <2> QED
    BY <1>1, <2>1, <2>3 DEF CurrentInv
<1> QED
  BY <1>1, InvariantHolds, PTL

(* A step of the cleanup that is the worker's own.                         *)
LEMMA CleanupStep ==
  ASSUME Inv, [Next]_vars, pc = "delete", UNCHANGED <<late, budgets>>
  PROVE  Visit \/ Finish \/ UNCHANGED vars
<1>1. edits \in Nat /\ faults \in Nat
  BY BoundsAssumption DEF Inv, TypeOK
<1>2. edits' = edits /\ faults' = faults /\ late' = late
  BY DEF budgets
<1>3. ~Abort /\ ~Environment
  BY <1>1, <1>2 DEF Abort, Environment, ChangeConfig, RenewSeed, UserWrites,
                    UserDeletes, LandLate, Edit
<1> QED
  BY <1>3 DEF Next, Worker, Start, ReadSeed, GetShoot, WriteShoot, Write,
              WriteFails, CopiesDone, ListManaged, List, Leave

(* The worker deletes no secret that the config of the pass references.    *)
THEOREM ReferencedAreKept == Spec => ReferencedNotDeleted
<1>1. ASSUME Inv, [Next]_vars, pc = "delete", UNCHANGED <<late, budgets>>,
             NEW n \in Referenced(att)
      PROVE  shoot'[<<att.ns, n>>] = shoot[<<att.ns, n>>]
  <2>1. att \in Configs
    BY <1>1 DEF Inv, TypeOK
  <2>2. CASE Visit
    <3>1. \A m \in Names \ Referenced(att) :
            <<att.ns, m>> \in Slots /\ <<att.ns, m>> # <<att.ns, n>>
      BY <2>1, ConfigFacts DEF Slots
    <3>2. <<att.ns, n>> \in Slots
      BY <2>1, ConfigFacts DEF Slots
    <3> QED
      BY <1>1, <2>2, <3>1, <3>2, VisitStep DEF Inv, TypeOK
  <2>3. CASE Finish \/ UNCHANGED vars
    BY <2>3 DEF Finish, vars, shootVars
  <2> QED
    BY <1>1, <2>2, <2>3, CleanupStep
<1>2. Inv /\ [Next]_vars =>
        [pc = "delete" /\ UNCHANGED <<late, budgets>> =>
           \A n \in Referenced(att) : shoot'[<<att.ns, n>>] = shoot[<<att.ns, n>>]]_vars
  BY <1>1
<1> QED
  BY <1>2, InvariantHolds, PTL DEF Spec, ReferencedNotDeleted

(* It deletes nothing of the user's.                                       *)
THEOREM OnlyManagedDeleted == Spec => DeletesManagedOnly
<1>1. ASSUME Inv, [Next]_vars, pc = "delete", UNCHANGED <<late, budgets>>,
             NEW x \in Slots, shoot'[x] # shoot[x]
      PROVE  x[1] = att.ns /\ (shoot[x].managed \/ x \in foreign)
  <2>1. Visit
    BY <1>1, CleanupStep DEF Finish, vars, shootVars
  <2>2. PICK n \in listed : shoot' = shoot \/ shoot' = [shoot EXCEPT ![<<att.ns, n>>] = None]
    BY <2>1 DEF Visit, VisitKeeping
  <2>3. x = <<att.ns, n>>
    BY <1>1, <2>2 DEF Inv, TypeOK
  <2>4. x \in foreign \/ n \in Managed(att.ns)
    BY <1>1, <2>3 DEF Inv, ListInv
  <2> QED
    BY <2>3, <2>4 DEF Managed
<1>2. Inv /\ [Next]_vars =>
        [pc = "delete" /\ UNCHANGED <<late, budgets>> =>
           \A x \in Slots : shoot'[x] # shoot[x] =>
             x[1] = att.ns /\ (shoot[x].managed \/ x \in foreign)]_vars
  BY <1>1
<1> QED
  BY <1>2, InvariantHolds, PTL DEF Spec, DeletesManagedOnly

(* When a pass ends without error, every secret that passes have labelled  *)
(* is referenced, as long as Flux stays in one namespace.                  *)
THEOREM NothingIsLeft ==
  ASSUME \A m, n \in Namespaces : m = n
  PROVE  Spec => []NoLeftovers
<1>1. ASSUME Inv PROVE NoLeftovers
  <2>1. \A x \in made : x[1] \in Namespaces
    BY <1>1 DEF Inv, TypeOK, Slots
  <2>2. pc = "done" => att.ns \in Namespaces
    BY <1>1, ConfigFacts DEF Inv, TypeOK
  <2> QED
    BY <1>1, <2>1, <2>2 DEF Inv, ListInv, NoLeftovers
<1> QED
  BY <1>1, InvariantHolds, PTL

(* With several namespaces none is left in the one of the pass.            *)
THEOREM NothingIsLeftInNamespace ==
  Spec => [](pc = "done" => \A x \in made : x[1] = att.ns => x[2] \in Referenced(att))
<1>1. Inv => (pc = "done" => \A x \in made : x[1] = att.ns => x[2] \in Referenced(att))
  BY DEF Inv, ListInv
<1> QED
  BY <1>1, InvariantHolds, PTL

(* A pass that nobody interferes with has the effect of one step.          *)
THEOREM UndisturbedPass == Spec => []PassIsOneStep
<1>1. ASSUME Inv PROVE PassIsOneStep
  <2>1. pc = "done" => keep = Referenced(att)
    BY <1>1, KeepIsReferenced DEF Inv, CopyInv
  <2> QED
    BY <1>1, <2>1 DEF Inv, CopyInv, ListInv, PassIsOneStep
<1> QED
  BY <1>1, InvariantHolds, PTL

-----------------------------------------------------------------------------
(* Refinement. The parts of the abstract state, under names of their own.  *)

absPhase == CASE pc = "idle" -> "idle"
              [] pc \in {"read", "get", "write"} -> "copying"
              [] pc \in {"list", "delete", "done"} -> "cleaning"
absWanted == IF att = None THEN {} ELSE {att.ns} \X Referenced(att)
absFilled == IF att = None THEN {} ELSE {att.ns} \X keep

LEMMA WantedSlots ==
  ASSUME NEW c \in Configs
  PROVE  {c.ns} \X Referenced(c) \subseteq Slots
BY ConfigFacts DEF Slots

(* The end of a pass is End.                                               *)
LEMMA ReturnRefines ==
  ASSUME Inv, Return, pc # "idle"
  PROVE  Abstract!End
BY DEF Inv, Return, Abstract!End, TypeOK, PCs

(* Somebody else's change is one of Others.                                *)
LEMMA PutRefines ==
  ASSUME Inv, NEW x \in Slots, NEW s \in ShootSecret \union {None}, Put(x, s)
  PROVE  Abstract!Others
<1>1. pc' = pc /\ att' = att /\ keep' = keep
  BY DEF Put
<1>2. Referenced(att)' = Referenced(att)
  BY <1>1
<1>3. shoot' = [shoot EXCEPT ![x] = s] /\
      foreign' = IF pc = "idle" THEN {} ELSE foreign \union {x}
  BY DEF Put
<1>4. absPhase' = absPhase /\ absWanted' = absWanted /\ absFilled' = absFilled
  BY <1>1 DEF absPhase, absWanted, absFilled
<1>5. (absPhase = "idle") <=> (pc = "idle")
  BY DEF absPhase, Inv, TypeOK, PCs
<1> QED
  BY <1>3, <1>4, <1>5 DEF Abstract!Others, absPhase, absWanted, absFilled

(* A step that neither changes the shoot nor what the pass has done.       *)
LEMMA StutterRefines ==
  ASSUME Inv, UNCHANGED <<shoot, foreign, att, keep>>, absPhase' = absPhase
  PROVE  UNCHANGED Abstract!vars
<1>1. Referenced(att)' = Referenced(att)
  OBVIOUS
<1> QED
  BY DEF Abstract!vars, absPhase

LEMMA StepRefines == ASSUME Inv, [Next]_vars PROVE [Abstract!Next]_Abstract!vars
<1> USE DEF Inv
<1>1. CASE Start
  <2>1. att = None /\ config \in Configs /\ foreign = {} /\ keep = {}
    BY <1>1 DEF Start, TypeOK, CopyInv
  <2>2. att' = config /\ config # None /\ keep' = {} /\ foreign' = {} /\ shoot' = shoot
    BY <1>1, <2>1, SentinelsAssumption DEF Start, shootVars
  <2>3. absPhase = "idle" /\ absPhase' = "copying"
    BY <1>1 DEF Start, absPhase
  <2>4. absWanted' \in SUBSET Slots
    BY <2>1, <2>2, WantedSlots DEF absWanted
  <2>5. absFilled' = {}
    BY <2>2 DEF absFilled
  <2>6. Abstract!Begin
    BY <2>2, <2>3, <2>4, <2>5 DEF Abstract!Begin, absPhase, absWanted, absFilled
  <2> QED
    BY <2>6 DEF Abstract!Next
<1>2. ASSUME Return, pc # "idle"
      PROVE  [Abstract!Next]_Abstract!vars
  BY <1>2, ReturnRefines DEF Abstract!Next
<1>3. CASE ReadSeed
  <2>1. CASE GotSeed(seed[Reference.resource])
    BY <1>3, <2>1, StutterRefines DEF ReadSeed, GotSeed, shootVars, absPhase
  <2>2. CASE Return
    BY <1>2, <1>3, <2>2 DEF ReadSeed
  <2> QED
    BY <1>3, <2>1, <2>2 DEF ReadSeed
<1>4. CASE GetShoot
  BY <1>4, StutterRefines DEF GetShoot, shootVars, absPhase
<1>5. CASE WriteShoot
  <2>1. /\ pc = "write" /\ pc' = "read" /\ att' = att /\ foreign' = foreign
        /\ keep' = keep \union {NameOf(Reference)}
    BY <1>5 DEF WriteShoot, Write, NextReference
  <2>2. /\ att \in Configs /\ att # None
        /\ Target = <<att.ns, NameOf(Reference)>> /\ Target \in Slots
        /\ NameOf(Reference) \in Referenced(att)
        /\ Copy(read) \in ShootSecret
    BY <2>1, TargetFacts DEF TypeOK
  <2>3. /\ shoot'[Target] # None \/ Target \in foreign
        /\ shoot' = shoot \/ shoot' = [shoot EXCEPT ![Target] = Copy(read)]
    BY <1>5, WriteStep
  <2>4. Target \in absWanted
    BY <2>2 DEF absWanted
  <2>5. absFilled' = absFilled \union {Target} /\ absWanted' = absWanted
    BY <2>1, <2>2 DEF absFilled, absWanted
  <2>6. absPhase = "copying" /\ absPhase' = "copying"
    BY <2>1 DEF absPhase
  <2>7. \/ \E s \in ShootSecret : shoot' = [shoot EXCEPT ![Target] = s]
        \/ Target \in foreign /\ shoot' = shoot
    <3>1. shoot \in [Slots -> ShootSecret \union {None}]
      BY DEF TypeOK
    <3>2. ASSUME shoot' = shoot, shoot[Target] # None
          PROVE  \E s \in ShootSecret : shoot' = [shoot EXCEPT ![Target] = s]
      <4>1. shoot[Target] \in ShootSecret
        BY <2>2, <3>1, <3>2
      <4>2. shoot' = [shoot EXCEPT ![Target] = shoot[Target]]
        BY <3>1, <3>2
      <4> QED
        BY <4>1, <4>2
    <3> QED
      BY <2>2, <2>3, <3>2
  <2>8. Abstract!Fill
    BY <2>1, <2>4, <2>5, <2>6, <2>7 DEF Abstract!Fill, absPhase, absWanted, absFilled
  <2> QED
    BY <2>8 DEF Abstract!Next
<1>6. CASE WriteFails \/ Leave
  BY <1>2, <1>6 DEF WriteFails, Leave
<1>7. CASE CopiesDone
  <2>1. att \in Configs /\ att # None /\ Len(References(att)) \in Nat
    BY <1>7, ConfigFacts DEF CopiesDone, TypeOK
  <2>2. keep = Referenced(att)
    BY <1>7, <2>1, KeepIsReferenced DEF CopiesDone, TypeOK
  <2>3. UNCHANGED <<shoot, foreign, att, keep>>
    BY <1>7 DEF CopiesDone, shootVars
  <2>4. absPhase = "copying" /\ absPhase' = "cleaning"
    BY <1>7 DEF CopiesDone, absPhase
  <2>5. absFilled = absWanted
    BY <2>2 DEF absFilled, absWanted
  <2>6. absFilled' = absFilled /\ absWanted' = absWanted
    BY <2>3 DEF absFilled, absWanted
  <2>7. Abstract!StartCleaning
    BY <2>3, <2>4, <2>5, <2>6
       DEF Abstract!StartCleaning, absPhase, absWanted, absFilled
  <2> QED
    BY <2>7 DEF Abstract!Next
<1>8. CASE ListManaged \/ Finish
  BY <1>8, StutterRefines DEF ListManaged, List, Finish, shootVars, absPhase
<1>9. CASE Visit
  <2>1. UNCHANGED <<foreign, pc, att, keep>> /\ pc = "delete" /\ att \in Configs /\ att # None
    BY <1>9 DEF Visit, VisitKeeping, TypeOK
  <2>2. CASE shoot' = shoot
    BY <2>1, <2>2, StutterRefines DEF absPhase
  <2>3. ASSUME NEW n \in Names \ Referenced(att),
               shoot' = [shoot EXCEPT ![<<att.ns, n>>] = None]
        PROVE  Abstract!Delete
    <3>1. <<att.ns, n>> \in Slots \ absWanted
      BY <2>1, ConfigFacts DEF absWanted, Slots
    <3>2. absPhase = "cleaning" /\ absPhase' = "cleaning"
      BY <2>1 DEF absPhase
    <3>3. absFilled' = absFilled /\ absWanted' = absWanted
      BY <2>1 DEF absFilled, absWanted
    <3> QED
      BY <2>1, <2>3, <3>1, <3>2, <3>3
         DEF Abstract!Delete, absPhase, absWanted, absFilled
  <2> QED
    BY <1>9, <2>2, <2>3, VisitStep DEF Abstract!Next
<1>10. CASE Abort
  BY <1>2, <1>10 DEF Abort
<1>11. CASE ChangeConfig \/ \E r \in Resources : RenewSeed(r)
  BY <1>11, StutterRefines DEF ChangeConfig, RenewSeed, shootVars, absPhase
<1>12. ASSUME NEW x \in Slots, UserWrites(x) \/ UserDeletes(x)
       PROVE  [Abstract!Next]_Abstract!vars
  <2>1. PICK s \in ShootSecret \union {None} : Put(x, s)
    BY <1>12 DEF UserWrites, UserDeletes
  <2> QED
    BY <2>1, PutRefines DEF Abstract!Next
<1>13. ASSUME NEW c \in late, LandLate(c)
       PROVE  [Abstract!Next]_Abstract!vars
  <2>1. c.slot \in Slots /\ c.secret \in ShootSecret \union {None}
    BY DEF TypeOK, CallType
  <2>2. CASE Put(c.slot, c.secret)
    BY <2>1, <2>2, PutRefines DEF Abstract!Next
  <2>3. CASE UNCHANGED <<seedVars, shootVars, pc, att, copyVars, keep, listed, faults>>
    BY <2>3, StutterRefines DEF shootVars, absPhase
  <2> QED
    BY <1>13, <2>2, <2>3 DEF LandLate
<1>14. CASE UNCHANGED vars
  BY <1>14, StutterRefines DEF vars, shootVars, absPhase
<1> QED
  BY <1>1, <1>3, <1>4, <1>5, <1>6, <1>7, <1>8, <1>9, <1>10, <1>11, <1>12, <1>13, <1>14
     DEF Next, Worker, Environment

(* The calls of ReconcileSecrets implement the abstract pass: it fills     *)
(* wanted slots only, deletes unwanted ones only, and deletes nothing      *)
(* before every wanted one has been filled.                                *)
THEOREM ImplementsPass == Spec => AbstractSpec
<1>1. Init => Abstract!Init
  BY DEF Init, Abstract!Init
<1>2. Inv /\ [Next]_vars => [Abstract!Next]_Abstract!vars
  BY StepRefines
<1> QED
  BY <1>1, <1>2, InvariantHolds, PTL DEF Spec, AbstractSpec, Abstract!Spec

=============================================================================
