-------------------------- MODULE ReconcileSecrets --------------------------
(***************************************************************************)
(* ReconcileSecrets and copySecretToShoot (pkg/controller/extension/       *)
(* secrets.go), API call by API call: every referenced secret is read from *)
(* the seed and created or updated in the Flux namespace of the shoot,     *)
(* then the secrets with the managed-by label are listed and those that    *)
(* were not copied are deleted.  Between any two calls the user may write  *)
(* or delete secrets in the shoot, the gardenlet may renew those in the    *)
(* seed and change the config, and the controller may fail or restart; the *)
(* call it was making may then take effect later, during another pass.     *)
(*                                                                         *)
(* FluxActuator has the same function as one step.                         *)
(***************************************************************************)
EXTENDS Naturals, Sequences

CONSTANTS
  Namespaces,   \* namespaces of the shoot a config may install Flux in
  Names,        \* names of secrets in the shoot
  Resources,    \* entries of Shoot.spec.resources, each a secret in the seed
  RefName,      \* the name of the secret that a resource refers to
  Data, Types,  \* contents and types of secrets
  Configs,      \* what a config says about secrets (see ConfigType)
  None,
  NoPrecondition, \* the precondition of a call that has none
  Relabels,     \* whether seed labels may replace the managed-by label
  MaxEdits,     \* bound: changes by gardenlet and user
  MaxFaults     \* bound: API errors and crashes

ReferenceType == [resource : Resources, target : Names \union {None}]
ConfigType == [ns : Namespaces, additional : Seq(ReferenceType),
               source : ReferenceType \union {None}]

(* A secret in the seed; relabel: it is annotated with copy-labels and its *)
(* labels have another value for the managed-by key.                       *)
SeedSecret == [data : Data, type : Types, relabel : BOOLEAN]
ShootSecret == [data : Data, type : Types, managed : BOOLEAN]
Slots == Namespaces \X Names

(* A call to the shoot: the secret it expects, and what it puts there.     *)
CallType == [slot : Slots, expect : ShootSecret \union {None, NoPrecondition},
             secret : ShootSecret \union {None}]

ASSUME ConfigsAssumption ==
  /\ Configs \subseteq ConfigType
  /\ RefName \in [Resources -> Names]
  /\ Relabels \subseteq BOOLEAN
ASSUME SentinelsAssumption ==
  /\ None \notin Configs \union ReferenceType \union Names
  /\ {None, NoPrecondition} \cap (SeedSecret \union ShootSecret) = {}
  /\ NoPrecondition # None
ASSUME BoundsAssumption == MaxEdits \in Nat /\ MaxFaults \in Nat

VARIABLES
  config,        \* the config of the Extension
  seed,          \* Resources -> the secret that gardenlet keeps in the seed
  shoot,         \* Slots -> the secret in the shoot
  made,          \* history: slots whose secret a pass has labelled last
  foreign,       \* history: slots others have changed since the pass began
  renewed,       \* history: the same of secrets in the seed
  late,          \* calls of passes that have ended, still in flight
  pc,            \* next call of the worker
  att,           \* the config of the running pass, or None
  next,          \* index of the reference being copied
  read,          \* the seed secret it has read
  seen,          \* the shoot secret CreateOrUpdate has read
  keep,          \* secretsToKeep
  listed,        \* names still to be visited of the listed secrets
  edits, faults

seedVars == <<config, seed, renewed>>
shootVars == <<shoot, made, foreign>>
copyVars == <<next, read, seen>>
budgets == <<edits, faults>>
vars == <<seedVars, shootVars, late, pc, att, copyVars, keep, listed, budgets>>

PCs == {"idle", "read", "get", "write", "list", "delete", "done"}

-----------------------------------------------------------------------------
(* The source's secret is appended to the additional ones, if the template *)
(* has a secretRef.                                                        *)
References(c) ==
  IF c.source # None /\ c.source.target # None
  THEN Append(c.additional, c.source) ELSE c.additional

NameOf(r) == IF r.target # None THEN r.target ELSE RefName[r.resource]

Referenced(c) == {NameOf(References(c)[i]) : i \in 1 .. Len(References(c))}

(* What the mutate function makes of the secret read from the seed.        *)
Copy(s) == [data |-> s.data, type |-> s.type, managed |-> ~s.relabel]

Reference == References(att)[next]
Target == <<att.ns, NameOf(Reference)>>

-----------------------------------------------------------------------------
Init ==
  /\ config \in Configs
  /\ seed \in [Resources -> [data : Data, type : Types, relabel : Relabels]]
  /\ shoot = [x \in Slots |-> None]
  /\ made = {} /\ foreign = {} /\ renewed = {} /\ late = {}
  /\ pc = "idle"
  /\ att = None
  /\ next = 1 /\ read = None /\ seen = None
  /\ keep = {} /\ listed = {}
  /\ edits = 0 /\ faults = 0

(* The function returns, and its locals are gone.                          *)
Return ==
  /\ pc' = "idle"
  /\ att' = None
  /\ next' = 1 /\ read' = None /\ seen' = None
  /\ keep' = {} /\ listed' = {}
  /\ foreign' = {} /\ renewed' = {}
  /\ UNCHANGED <<config, seed, shoot, made>>

Start ==
  /\ pc = "idle"
  /\ att' = config
  /\ pc' = "read"
  /\ UNCHANGED <<seedVars, shootVars, late, copyVars, keep, listed, budgets>>

GotSeed(s) ==
  /\ read' = s
  /\ pc' = "get"
  /\ UNCHANGED <<seedVars, shootVars, att, next, seen, keep, listed>>

(* Mutant: a missing secret in the seed is not an error.                   *)
ReadSeed_IgnoreNotFound ==
  /\ pc = "read"
  /\ next <= Len(References(att))
  /\ GotSeed(seed[Reference.resource])
  /\ UNCHANGED <<late, budgets>>

(* copySecretToShoot: the copy in the seed may not be there (yet).         *)
ReadSeed ==
  /\ pc = "read"
  /\ next <= Len(References(att))
  /\ LET s == seed[Reference.resource] IN IF s = None THEN Return ELSE GotSeed(s)
  /\ UNCHANGED <<late, budgets>>

(* CreateOrUpdate reads the secret ...                                     *)
GetShoot ==
  /\ pc = "get"
  /\ seen' = shoot[Target]
  /\ pc' = "write"
  /\ UNCHANGED <<seedVars, shootVars, late, att, next, read, keep, listed, budgets>>

(* The API server refuses a write if the secret is not the one that the    *)
(* writer has read any more, or if the type would change.                  *)
Accepts(expect, x, secret) ==
  \/ expect = NoPrecondition
  \/ expect = shoot[x] /\ (expect # None => expect.type = secret.type)

NextReference ==
  /\ next' = next + 1
  /\ pc' = "read"
  /\ read' = None /\ seen' = None

(* ... and creates it, updates it, or leaves it if it is as wanted.        *)
Write(secret, kept) ==
  /\ pc = "write"
  /\ secret = seen \/ Accepts(seen, Target, secret)
  /\ shoot' = IF secret = seen THEN shoot ELSE [shoot EXCEPT ![Target] = secret]
  /\ made' = IF shoot'[Target] # secret THEN made
             ELSE IF secret.managed THEN made \union {Target} ELSE made \ {Target}
  /\ keep' = kept
  /\ NextReference
  /\ UNCHANGED <<seedVars, foreign, late, att, listed, budgets>>

(* Mutants: the name is not entered into secretsToKeep; a secret that      *)
(* exists is left as it is.                                                *)
WriteShoot_NoInsert == Write(Copy(read), keep)
WriteShoot_CreateOnly ==
  Write(IF seen = None THEN Copy(read) ELSE seen, keep \union {NameOf(Reference)})

WriteShoot == Write(Copy(read), keep \union {NameOf(Reference)})

(* Mutant: a failed copy is logged and the next one tried.                 *)
WriteFails_Continues ==
  /\ pc = "write"
  /\ seen # Copy(read) /\ ~Accepts(seen, Target, Copy(read))
  /\ NextReference
  /\ UNCHANGED <<seedVars, shootVars, late, att, keep, listed, budgets>>

WriteFails ==
  /\ pc = "write"
  /\ seen # Copy(read) /\ ~Accepts(seen, Target, Copy(read))
  /\ Return
  /\ UNCHANGED <<late, budgets>>

(* Mutant: a config without references has nothing to do.                  *)
CopiesDone_NothingToCopy ==
  /\ pc = "read"
  /\ next > Len(References(att))
  /\ pc' = IF next = 1 THEN "done" ELSE "list"
  /\ UNCHANGED <<seedVars, shootVars, late, att, copyVars, keep, listed, budgets>>

CopiesDone ==
  /\ pc = "read"
  /\ next > Len(References(att))
  /\ pc' = "list"
  /\ UNCHANGED <<seedVars, shootVars, late, att, copyVars, keep, listed, budgets>>

Managed(ns) ==
  {n \in Names : shoot[<<ns, n>>] # None /\ shoot[<<ns, n>>].managed}

List(names) ==
  /\ pc = "list"
  /\ listed' = names
  /\ pc' = "delete"
  /\ UNCHANGED <<seedVars, shootVars, late, att, copyVars, keep, budgets>>

(* Mutant: the list is not restricted to the managed-by label.             *)
ListManaged_NoSelector == List({n \in Names : shoot[<<att.ns, n>>] # None})

ListManaged == List(Managed(att.ns))

(* One round of the loop over the listed secrets. The deletion is by name  *)
(* and has no precondition; a secret that is gone already is fine.         *)
VisitKeeping(kept) ==
  /\ pc = "delete"
  /\ \E n \in listed :
       /\ listed' = listed \ {n}
       /\ IF n \in kept
          THEN UNCHANGED <<shoot, made>>
          ELSE /\ shoot' = [shoot EXCEPT ![<<att.ns, n>>] = None]
               /\ made' = made \ {<<att.ns, n>>}
  /\ UNCHANGED <<seedVars, foreign, late, pc, att, copyVars, keep, budgets>>

(* Mutant: the set to keep is not looked at.                               *)
Visit_DeletesAll == VisitKeeping({})

Visit == VisitKeeping(keep)

Finish ==
  /\ pc = "delete"
  /\ listed = {}
  /\ pc' = "done"
  /\ UNCHANGED <<seedVars, shootVars, late, att, copyVars, keep, listed, budgets>>

(* The rest of Reconcile, and the time to the next one.                    *)
Leave ==
  /\ pc = "done"
  /\ Return
  /\ UNCHANGED <<late, budgets>>

Worker ==
  \/ Start \/ ReadSeed \/ GetShoot \/ WriteShoot \/ WriteFails \/ CopiesDone
  \/ ListManaged \/ Visit \/ Finish \/ Leave

(* The call the worker may be in the middle of.                            *)
InFlight ==
  IF pc = "write" /\ seen # Copy(read)
  THEN {[slot |-> Target, expect |-> seen, secret |-> Copy(read)]}
  ELSE IF pc = "delete"
  THEN {[slot |-> <<att.ns, n>>, expect |-> NoPrecondition, secret |-> None] :
          n \in listed \ keep}
  ELSE {}

(* An API error, a cancelled context or a crash ends the pass. The API     *)
(* server may get the call that was being made all the same.               *)
Abort ==
  /\ pc # "idle"
  /\ faults < MaxFaults
  /\ faults' = faults + 1
  /\ late' \in {late} \union {late \union {c} : c \in InFlight}
  /\ Return
  /\ UNCHANGED edits

-----------------------------------------------------------------------------
Edit == edits < MaxEdits /\ edits' = edits + 1

ChangeConfig ==
  /\ Edit
  /\ config' \in Configs \ {config}
  /\ UNCHANGED <<seed, renewed, shootVars, late, pc, att, copyVars, keep, listed,
                 faults>>

(* Gardenlet renews, replaces or removes the copy in the seed.             *)
RenewSeed(r) ==
  /\ Edit
  /\ \E s \in [data : Data, type : Types, relabel : Relabels] \union {None} :
        s # seed[r] /\ seed' = [seed EXCEPT ![r] = s]
  /\ renewed' = IF pc = "idle" THEN {} ELSE renewed \union {r}
  /\ UNCHANGED <<config, shootVars, late, pc, att, copyVars, keep, listed, faults>>

(* Somebody other than the worker's pass changes a secret of the shoot.    *)
Put(x, secret) ==
  /\ shoot' = [shoot EXCEPT ![x] = secret]
  /\ made' = made \ {x}
  /\ foreign' = IF pc = "idle" THEN {} ELSE foreign \union {x}
  /\ UNCHANGED <<seedVars, pc, att, copyVars, keep, listed, faults>>

UserWrites(x) ==
  /\ Edit
  /\ \E s \in ShootSecret : ~s.managed /\ s # shoot[x] /\ Put(x, s)
  /\ UNCHANGED late

UserDeletes(x) ==
  /\ Edit
  /\ shoot[x] # None
  /\ Put(x, None)
  /\ UNCHANGED late

(* The API server processes a call whose pass is over, or refuses it.      *)
LandLate(c) ==
  /\ late' = late \ {c}
  /\ IF Accepts(c.expect, c.slot, c.secret)
     THEN Put(c.slot, c.secret)
     ELSE UNCHANGED <<seedVars, shootVars, pc, att, copyVars, keep, listed, faults>>
  /\ UNCHANGED edits

Environment ==
  \/ ChangeConfig
  \/ \E r \in Resources : RenewSeed(r)
  \/ \E x \in Slots : UserWrites(x) \/ UserDeletes(x)
  \/ \E c \in late : LandLate(c)

Next == Worker \/ Abort \/ Environment

Spec == Init /\ [][Next]_vars

(* An Extension is reconciled again and again and no call blocks forever.  *)
FairSpec == Spec /\ WF_vars(Worker)

-----------------------------------------------------------------------------
(* Properties.                                                             *)

(* Every variable keeps its type: a call is only made with what the calls  *)
(* before it in the pass have read.                                        *)
TypeOK ==
  /\ config \in Configs
  /\ seed \in [Resources -> SeedSecret \union {None}]
  /\ shoot \in [Slots -> ShootSecret \union {None}]
  /\ made \subseteq Slots /\ foreign \subseteq Slots /\ renewed \subseteq Resources
  /\ late \subseteq CallType
  /\ pc \in PCs
  /\ att \in Configs \union {None}
  /\ (att = None) <=> (pc = "idle")
  /\ read \in SeedSecret \union {None}
  /\ (read # None) <=> (pc \in {"get", "write"})
  /\ seen \in ShootSecret \union {None}
  /\ keep \subseteq Names /\ listed \subseteq Names
  /\ next \in Nat \ {0}
  /\ pc # "idle" => next <= Len(References(att)) + 1
  /\ pc \in {"get", "write"} => next <= Len(References(att))
  /\ edits \in 0 .. MaxEdits /\ faults \in 0 .. MaxFaults

(* The pass as SecretSync sees it.                                         *)
Abstract ==
  INSTANCE SecretSync WITH
    Contents <- ShootSecret,
    phase <- CASE pc = "idle" -> "idle"
               [] pc \in {"read", "get", "write"} -> "copying"
               [] pc \in {"list", "delete", "done"} -> "cleaning",
    wanted <- IF att = None THEN {} ELSE {att.ns} \X Referenced(att),
    filled <- IF att = None THEN {} ELSE {att.ns} \X keep

(* ReconcileSecrets implements the abstract pass: whatever fails, changes  *)
(* or lands late in between, it fills referenced slots only, cleans up     *)
(* others only, and only when all copies have been made.                   *)
AbstractSpec == Abstract!Spec

(* Secrets are deleted only after every reference of the pass's config has *)
(* been copied: a credential that is moved to another name is not gone     *)
(* before its copy is there. From the cleanup until ReconcileSecrets       *)
(* returns nil every referenced secret is in the shoot, unless the user,   *)
(* or a call of an earlier pass that lands late, has changed it since the  *)
(* pass began.                                                             *)
CopyBeforeCleanup == Abstract!NothingMissing

(* The secrets of the first k references are in the shoot with the content *)
(* that the seed has, except where others have interfered. Of references   *)
(* to one target the last wins.                                            *)
Current(k) ==
  \A i \in 1 .. k :
    LET r == References(att)[i]
        x == <<att.ns, NameOf(r)>> IN
      \/ \E j \in i + 1 .. k : NameOf(References(att)[j]) = NameOf(r)
      \/ x \in foreign
      \/ r.resource \in renewed
      \/ shoot[x] = Copy(seed[r.resource])

(* The cleanup begins with, and ReconcileSecrets returns nil with, copies  *)
(* that equal the secrets in the seed in data and type, also where a       *)
(* secret was there before: none is left from an earlier config or was     *)
(* overwritten by the copy of another reference that comes first. Only     *)
(* what gardenlet renewed, or others wrote, since the pass began differs.  *)
CopiesCurrent ==
  pc \in {"list", "delete", "done"} => Current(Len(References(att)))

(* No step of the worker deletes a secret that the config of the pass      *)
(* references, whoever made it.                                            *)
ReferencedNotDeleted ==
  [][pc = "delete" /\ UNCHANGED <<late, budgets>> =>
       \A n \in Referenced(att) : shoot'[<<att.ns, n>>] = shoot[<<att.ns, n>>]]_vars

(* The cleanup touches no secret of the user's: a step of the worker only  *)
(* deletes what has the managed-by label and lies in the namespace of the  *)
(* pass. Where the user has replaced a listed secret since the pass began, *)
(* his own one is deleted: the deletion has no precondition.               *)
DeletesManagedOnly ==
  [][pc = "delete" /\ UNCHANGED <<late, budgets>> =>
       \A x \in Slots : shoot'[x] # shoot[x] =>
         x[1] = att.ns /\ (shoot[x].managed \/ x \in foreign)]_vars

(* secrets.go:24 says that all secrets that are no longer referenced are   *)
(* deleted: when ReconcileSecrets returns nil, every secret that passes    *)
(* have labelled is one that the config references, whatever passes failed *)
(* before. (Calls that land late are left to the next pass, see Converges; *)
(* copies whose label the seed's labels have replaced are never listed.)   *)
NoLeftovers ==
  pc = "done" => \A x \in made : x[1] = att.ns /\ x[2] \in Referenced(att)

(* A pass that nobody interferes with is the one step that FluxActuator    *)
(* takes for it: every secret that the config references is there, and no  *)
(* other one in the namespace is managed.                                  *)
PassIsOneStep ==
  pc = "done" /\ foreign = {} =>
    /\ \A n \in Referenced(att) : shoot[<<att.ns, n>>] # None
    /\ Managed(att.ns) \subseteq Referenced(att)

(* A config with one reference per name, whose secrets are in the seed and *)
(* can be written, ...                                                     *)
Copyable ==
  /\ \A i, j \in 1 .. Len(References(config)) :
       NameOf(References(config)[i]) = NameOf(References(config)[j]) => i = j
  /\ \A i \in 1 .. Len(References(config)) :
       LET r == References(config)[i]
           x == <<config.ns, NameOf(r)>> IN
         /\ seed[r.resource] # None
         /\ ~seed[r.resource].relabel
         /\ shoot[x] # None => shoot[x].type = seed[r.resource].type

(* ... is in the shoot as the seed has it, and nothing else is managed.    *)
Synced ==
  /\ \A i \in 1 .. Len(References(config)) :
       LET r == References(config)[i] IN
         seed[r.resource] # None
           /\ shoot[<<config.ns, NameOf(r)>>] = Copy(seed[r.resource])
  /\ Managed(config.ns) \subseteq Referenced(config)

(* A renewed credential, a renamed target or a restored copy reaches the   *)
(* shoot at last, secrets that are not referenced any more go away, and    *)
(* what a late call has overwritten or deleted is repaired.                *)
Converges == <>[]Copyable => <>[]Synced

(* types.go:29 says that the secrets referenced under                      *)
(* additionalSecretResources are only created if they don't exist yet: a   *)
(* step of the worker writes no secret over one that is there.             *)
CreatedOnlyIfMissing ==
  [][pc = "write" /\ UNCHANGED <<late, budgets>> =>
       \A x \in Slots : shoot[x] # None => shoot'[x] = shoot[x]]_vars

=============================================================================
