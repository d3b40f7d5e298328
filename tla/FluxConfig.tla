----------------------------- MODULE FluxConfig -----------------------------
(***************************************************************************)
(* From a providerConfig to the FluxConfig that the actuator works with:   *)
(* decoding, the defaulting functions in the order in which the generated  *)
(* defaulter calls them, and validation against the Shoot's resources      *)
(* (pkg/apis/flux/v1alpha1).                                               *)
(*                                                                         *)
(* Optional fields that are pointers are "nil" when unset; other strings,  *)
(* and pointers to the empty string, are "".  Fields with a default of     *)
(* their own that no other field depends on (version, registry, intervals, *)
(* the Kustomization's name) are left out.                                 *)
(***************************************************************************)
EXTENDS Naturals, Sequences

CONSTANTS
  Inputs,        \* the providerConfigs (see InputType)
  Malformed,     \* a providerConfig that cannot be decoded
  None,          \* an absent providerConfig, section or template
  ResourceKind,  \* Shoot.spec.resources: name -> the kind it refers to
  InvalidNames   \* names Kubernetes does not accept

System == "flux-system"
Supported == {"GitRepository", "OCIRepository"}
Required == {"kustomize-controller", "source-controller"}

(* What a template's apiVersion and kind name: a supported source, another *)
(* object of the Flux API, a list, or nothing that is registered, such as  *)
(* the OCIRepository of API version v1beta2.                               *)
Unregistered == {"v1beta2", "unknown"}
Kinds == Supported \union {"Bucket", "List"} \union Unregistered

(* complete: the fields that have no default (URL, reference or path) are  *)
(* there and well-formed.                                                  *)
TemplateType ==
  [kind : Kinds, complete : BOOLEAN, name : STRING, ns : STRING, secretRef : STRING]
SourceType == [template : TemplateType \union {None}, secretResource : STRING]
RefType == [kind : Kinds \union {""}, name : STRING, ns : STRING]
KustomizationType == [complete : BOOLEAN, ns : STRING, sourceRef : RefType]
AdditionalType == [name : STRING, target : STRING]
InputType ==
  [fluxNs : STRING, components : SUBSET STRING, extra : SUBSET STRING,
   source : SourceType \union {None}, kust : KustomizationType \union {None},
   additional : Seq(AdditionalType)]

ASSUME InputsAssumption ==
  /\ \A i \in Inputs : i \in InputType
  /\ Malformed # None /\ Malformed \notin Inputs
  /\ None \notin InputType /\ None \notin SourceType
  /\ None \notin TemplateType /\ None \notin KustomizationType
  /\ \A n \in DOMAIN ResourceKind : ResourceKind[n] \in {"Secret", "ConfigMap"}

(* True of any two strings; the provers know no member of STRING.          *)
ASSUME DefaultsAssumption == {"nil", System} \subseteq STRING

VARIABLES
  input,   \* the providerConfig
  cfg,     \* the config as far as it is processed, or None
  pc       \* the next step, or the outcome

vars == <<input, cfg, pc>>

Outcomes == {"accepted", "rejected", "undecodable", "panicked"}
PCs == {"decode", "config", "installation", "source", "kustomization", "validate"}
         \union Outcomes

-----------------------------------------------------------------------------
HasName(s) == s \notin {"nil", ""}
Or(s, default) == IF s = "" THEN default ELSE s

(* DecodeSourceTemplate returns an object.                                 *)
Decodable(t) == t # None /\ t.kind \notin Unregistered

EmptyConfig ==
  [fluxNs |-> "nil", components |-> {}, extra |-> {},
   source |-> None, kust |-> None, additional |-> <<>>]

Init ==
  /\ input \in Inputs \union {Malformed, None}
  /\ cfg = None
  /\ pc = "decode"

DecodeProviderConfig ==
  /\ pc = "decode"
  /\ IF input = Malformed
     THEN pc' = "undecodable" /\ UNCHANGED cfg
     ELSE /\ cfg' = IF input = None THEN EmptyConfig ELSE input
          /\ pc' = "config"
  /\ UNCHANGED input

HasTemplate(c) == c.source # None /\ Decodable(c.source.template)

(* A list has no name and namespace: the type assertion on it panics.      *)
Panics(c) ==
  /\ HasTemplate(c)
  /\ c.source.template.kind = "List"
  /\ c.kust # None \/ HasName(c.fluxNs)

(* The Kustomization refers to the source of the same config.              *)
RefToSource(c) ==
  IF c.kust = None \/ ~HasTemplate(c) THEN c
  ELSE LET t == c.source.template IN
       [c EXCEPT !.kust.sourceRef = [kind |-> Or(@.kind, t.kind),
                                     name |-> Or(@.name, t.name),
                                     ns   |-> Or(@.ns, t.ns)]]

(* Mutant: the changed template is not encoded back into the config.       *)
InFluxNamespace_NotEncoded(c) ==
  IF c.kust = None THEN c
  ELSE [c EXCEPT !.kust.ns = Or(@, c.fluxNs),
                 !.kust.sourceRef.ns = Or(@, c.fluxNs)]

(* An explicit namespace for Flux is that of the other objects, too.       *)
InFluxNamespace(c) ==
  LET d == IF HasTemplate(c)
           THEN [c EXCEPT !.source.template.ns = Or(@, c.fluxNs)] ELSE c IN
  IF c.kust = None THEN d
  ELSE [d EXCEPT !.kust.ns = Or(@, c.fluxNs),
                 !.kust.sourceRef.ns = Or(@, c.fluxNs)]

(* Mutant: the reference to the source is left to the static defaults.     *)
SetDefaults_FluxConfig_NoRef ==
  /\ pc = "config"
  /\ ~Panics(cfg)
  /\ cfg' = IF HasName(cfg.fluxNs) THEN InFluxNamespace(cfg) ELSE cfg
  /\ pc' = "installation"
  /\ UNCHANGED input

DefaultedConfig(c) ==
  LET d == RefToSource(c) IN IF HasName(d.fluxNs) THEN InFluxNamespace(d) ELSE d

SetDefaults_FluxConfig ==
  /\ pc = "config"
  /\ ~Panics(cfg)
  /\ cfg' = DefaultedConfig(cfg)
  /\ pc' = "installation"
  /\ UNCHANGED input

DefaultingPanics ==
  /\ pc = "config"
  /\ Panics(cfg)
  /\ pc' = "panicked"
  /\ UNCHANGED <<input, cfg>>

(* Mutant: the namespace has no default.                                   *)
SetDefaults_FluxInstallation_NoNamespace ==
  /\ pc = "installation"
  /\ pc' = "source"
  /\ UNCHANGED <<input, cfg>>

DefaultedInstallation(c) == [c EXCEPT !.fluxNs = IF @ = "nil" THEN System ELSE @]

SetDefaults_FluxInstallation ==
  /\ pc = "installation"
  /\ cfg' = DefaultedInstallation(cfg)
  /\ pc' = "source"
  /\ UNCHANGED input

(* Mutant: an existing secretRef is not looked at.                         *)
DefaultTemplate_Overwrites(t, secretResource) ==
  IF t.kind \notin Supported THEN t
  ELSE [t EXCEPT !.name = Or(@, System), !.ns = Or(@, System),
                 !.secretRef = IF HasName(secretResource) THEN System ELSE @]

(* SetDefaults_Flux_GitRepository and _OCIRepository, and a secretRef for  *)
(* the credentials.                                                        *)
DefaultTemplate(t, secretResource) ==
  IF t.kind \notin Supported THEN t
  ELSE [t EXCEPT !.name = Or(@, System), !.ns = Or(@, System),
                 !.secretRef = IF HasName(secretResource) /\ ~HasName(@)
                               THEN System ELSE @]

DefaultedSource(c) ==
  IF ~HasTemplate(c) THEN c
  ELSE [c EXCEPT !.source.template = DefaultTemplate(@, c.source.secretResource)]

SetDefaults_Source ==
  /\ pc = "source"
  /\ cfg' = DefaultedSource(cfg)
  /\ pc' = "kustomization"
  /\ UNCHANGED input

(* Mutant: the namespace has no default.                                   *)
DefaultKustomization_NoNamespace(k) ==
  [k EXCEPT !.sourceRef = [kind |-> Or(@.kind, "GitRepository"),
                           name |-> Or(@.name, System),
                           ns   |-> Or(@.ns, System)]]

(* SetDefaults_Flux_Kustomization.                                         *)
DefaultKustomization(k) ==
  [k EXCEPT !.ns = Or(@, System),
            !.sourceRef = [kind |-> Or(@.kind, "GitRepository"),
                           name |-> Or(@.name, System),
                           ns   |-> Or(@.ns, System)]]

DefaultedKustomization(c) ==
  IF c.kust = None THEN c ELSE [c EXCEPT !.kust = DefaultKustomization(@)]

SetDefaults_Kustomization ==
  /\ pc = "kustomization"
  /\ cfg' = DefaultedKustomization(cfg)
  /\ pc' = "validate"
  /\ UNCHANGED input

-----------------------------------------------------------------------------
ValidateSecretResource(name) ==
  name \in DOMAIN ResourceKind /\ ResourceKind[name] = "Secret"

(* Mutant: extra components alone are enough.                              *)
ValidateFluxInstallation_AnyOf(c) ==
  /\ HasName(c.fluxNs) => c.fluxNs \notin InvalidNames
  /\ c.components # {} => Required \cap (c.components \union c.extra) # {}

ValidateFluxInstallation(c) ==
  /\ HasName(c.fluxNs) => c.fluxNs \notin InvalidNames
  /\ c.components # {} => Required \subseteq c.components \union c.extra

(* Mutant: a secretRef without secretResourceName passes.                  *)
ValidateSourceSecretReferences_OneWay(secretRef, secretResource) ==
  /\ HasName(secretResource) => HasName(secretRef)
  /\ HasName(secretResource) => ValidateSecretResource(secretResource)

ValidateSourceSecretReferences(secretRef, secretResource) ==
  /\ HasName(secretRef) <=> HasName(secretResource)
  /\ HasName(secretResource) => ValidateSecretResource(secretResource)

ValidateSource(s) ==
  /\ Decodable(s.template)
  /\ s.template.kind \in Supported
  /\ s.template.complete
  /\ ValidateSourceSecretReferences(s.template.secretRef, s.secretResource)

ValidateKustomization(k) == k.complete

ValidateAdditionalSecretResources(additional) ==
  \A i \in 1 .. Len(additional) :
    /\ HasName(additional[i].target) => additional[i].target \notin InvalidNames
    /\ ValidateSecretResource(additional[i].name)

ValidateFluxConfig(c) ==
  /\ ValidateFluxInstallation(c)
  /\ (c.source = None) <=> (c.kust = None)
  /\ c.source # None => ValidateSource(c.source)
  /\ c.kust # None => ValidateKustomization(c.kust)
  /\ ValidateAdditionalSecretResources(c.additional)

Validate ==
  /\ pc = "validate"
  /\ pc' = IF ValidateFluxConfig(cfg) THEN "accepted" ELSE "rejected"
  /\ UNCHANGED <<input, cfg>>

Next ==
  \/ DecodeProviderConfig \/ SetDefaults_FluxConfig \/ DefaultingPanics
  \/ SetDefaults_FluxInstallation \/ SetDefaults_Source
  \/ SetDefaults_Kustomization \/ Validate

Spec == Init /\ [][Next]_vars

-----------------------------------------------------------------------------
(* What the actuator makes of an accepted config.                          *)

(* The components that the generated manifest installs; Flux's own default *)
(* components include the required ones.                                   *)
InstalledComponents(c) ==
  (IF c.components # {} THEN c.components ELSE Required) \union c.extra

(* The copies that ReconcileSecrets makes.                                 *)
SecretResources(c) ==
  LET s == c.source IN
  IF /\ HasTemplate(c)
     /\ s.secretResource # "nil"
     /\ s.template.kind \in Supported
     /\ HasName(s.template.secretRef)
  THEN Append(c.additional, [name |-> s.secretResource, target |-> s.template.secretRef])
  ELSE c.additional

(* Where they go, those with a target name.                                *)
CopiesAt(c) ==
  LET copies == SecretResources(c) IN
  {<<c.fluxNs, copies[i].target>> :
     i \in {j \in 1 .. Len(copies) : copies[j].target # "nil"}}

(* Where ReconcileShootInfoConfigMap writes its ConfigMap.                 *)
ShootInfoAt(c) == <<c.fluxNs, "shoot-info">>

-----------------------------------------------------------------------------
(* Properties.                                                             *)

Accepted == pc = "accepted"

(* Every variable keeps its type, and an accepted config has everything    *)
(* that the actuator uses unchecked: the namespaces it dereferences and    *)
(* the templates it decodes.                                               *)
TypeOK ==
  /\ input \in InputType \union {Malformed, None}
  /\ pc \in PCs
  /\ (cfg = None) <=> (pc \in {"decode", "undecodable"})
  /\ cfg # None => cfg \in InputType
  /\ Accepted =>
       /\ cfg.fluxNs # "nil"
       /\ (cfg.source = None) <=> (cfg.kust = None)
       /\ cfg.source # None =>
            /\ HasTemplate(cfg)
            /\ cfg.source.template.name # "" /\ cfg.source.template.ns # ""
            /\ cfg.kust.ns # ""

(* Whatever part of its sourceRef a Kustomization leaves open is that of   *)
(* the source deployed next to it, for either kind of source and wherever  *)
(* its name and namespace come from. The defaults are computed from the    *)
(* source before the source itself is defaulted (defaults.go:36-76).       *)
ReferencesItsSource ==
  Accepted /\ cfg.source # None =>
    LET t == cfg.source.template
        open == input.kust.sourceRef
        ref == cfg.kust.sourceRef
    IN /\ open.kind = "" => ref.kind = t.kind
       /\ open.name = "" => ref.name = t.name
       /\ open.ns = "" => ref.ns = t.ns

(* Defaulting never replaces what the user has set, although templates are *)
(* decoded and encoded again several times.                                *)
UserValuesKept ==
  cfg # None /\ input # None =>
    /\ input.fluxNs # "nil" => cfg.fluxNs = input.fluxNs
    /\ input.source # None /\ input.source.template # None =>
         LET old == input.source.template
             new == cfg.source.template
         IN /\ old.name # "" => new.name = old.name
            /\ old.ns # "" => new.ns = old.ns
            /\ HasName(old.secretRef) => new.secretRef = old.secretRef
    /\ input.kust # None =>
         /\ input.kust.ns # "" => cfg.kust.ns = input.kust.ns
         /\ \A f \in {"kind", "name", "ns"} :
              input.kust.sourceRef[f] # "" =>
                cfg.kust.sourceRef[f] = input.kust.sourceRef[f]

(* Defaulting finds nothing more to do in an accepted config, in whatever  *)
(* order it would be applied again: no function fills in what an earlier   *)
(* one would have based another default on. (A rejected config of another  *)
(* kind, or with an empty name, may change again.)                         *)
DefaultingIsStable ==
  Accepted =>
    /\ DefaultedConfig(cfg) = cfg
    /\ DefaultedInstallation(cfg) = cfg
    /\ DefaultedSource(cfg) = cfg
    /\ DefaultedKustomization(cfg) = cfg

(* Flux looks up a source's secret and a Kustomization's ConfigMap in the  *)
(* namespace of the object.  Where that is left open the actuator's data   *)
(* is there: the copies of ReconcileSecrets and shoot-info, both of which  *)
(* go to the namespace of Flux wherever the objects are.  The documented   *)
(* default (types.go:108, :125) is taken if the config names no namespace  *)
(* for Flux; where it is set to "" the data has no namespace to be in.     *)
DataWithinReach ==
  Accepted /\ input # None /\ input.source # None =>
    LET t == cfg.source.template
        k == cfg.kust
        openSource == input.source.template.ns = ""
        openKust == input.kust.ns = ""
    IN /\ HasName(cfg.fluxNs) =>
            /\ openSource /\ HasName(t.secretRef) =>
                 <<t.ns, t.secretRef>> \in CopiesAt(cfg)
            /\ openKust => <<k.ns, "shoot-info">> = ShootInfoAt(cfg)
       /\ ~HasName(input.fluxNs) =>
            /\ openSource => t.ns = System
            /\ openKust => k.ns = System

(* Validation and ReconcileSecrets agree on what is copied: each copy is   *)
(* of a Secret among the Shoot's resources, and the one that the source    *)
(* refers to is among the copies.  (It does not say that every target name *)
(* can be created: "" passes validation, fluxconfig.go:221.)               *)
SecretsResolve ==
  Accepted =>
    LET copies == SecretResources(cfg) IN
    /\ \A i \in 1 .. Len(copies) : ValidateSecretResource(copies[i].name)
    /\ cfg.source # None /\ HasName(cfg.source.template.secretRef) =>
         \E i \in 1 .. Len(copies) :
           copies[i] = [name |-> cfg.source.secretResource,
                        target |-> cfg.source.template.secretRef]

(* The components that validation requires are those that are installed,   *)
(* whatever the two lists of the config contain.                           *)
ComponentsComplete == Accepted => Required \subseteq InstalledComponents(cfg)

(* types.go:108 and :125 say of the templates of source and Kustomization: *)
(* an omitted metadata.namespace "is defaulted to "flux-system"".          *)
OmittedNamespacesDefaulted ==
  Accepted /\ input # None /\ input.source # None =>
    /\ input.source.template.ns = "" => cfg.source.template.ns = System
    /\ input.kust.ns = "" => cfg.kust.ns = System

=============================================================================
