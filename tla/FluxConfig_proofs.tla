-------------------------- MODULE FluxConfig_proofs --------------------------
(***************************************************************************)
(* Theorems about FluxConfig for every set of providerConfigs, whatever    *)
(* names, namespaces and secrets they contain.                             *)
(***************************************************************************)
EXTENDS FluxConfig, TLAPS

-----------------------------------------------------------------------------
(* What the defaulting functions do to the parts of a config.              *)

(* The parts that no function touches.                                     *)
SameRest(c, d) ==
  /\ d.components = c.components /\ d.extra = c.extra /\ d.additional = c.additional
  /\ d.source = None <=> c.source = None
  /\ d.kust = None <=> c.kust = None
  /\ c.source # None =>
       /\ d.source.secretResource = c.source.secretResource
       /\ d.source.template = None <=> c.source.template = None
       /\ c.source.template # None =>
            /\ d.source.template.kind = c.source.template.kind
            /\ d.source.template.complete = c.source.template.complete
  /\ c.kust # None => d.kust.complete = c.kust.complete

(* A defaulted string: the old one, or a new one if it was empty.          *)
Filled(old, new) == old # "" => new = old

(* What the user may set is kept.                                          *)
KeepsFields(c, d) ==
  /\ c.fluxNs # "nil" => d.fluxNs = c.fluxNs
  /\ c.source # None /\ c.source.template # None =>
       /\ Filled(c.source.template.name, d.source.template.name)
       /\ Filled(c.source.template.ns, d.source.template.ns)
       /\ HasName(c.source.template.secretRef) =>
            d.source.template.secretRef = c.source.template.secretRef
  /\ c.kust # None =>
       /\ Filled(c.kust.ns, d.kust.ns)
       /\ Filled(c.kust.sourceRef.kind, d.kust.sourceRef.kind)
       /\ Filled(c.kust.sourceRef.name, d.kust.sourceRef.name)
       /\ Filled(c.kust.sourceRef.ns, d.kust.sourceRef.ns)

Extends(c, d) == d \in InputType /\ SameRest(c, d) /\ KeepsFields(c, d)

LEMMA Parts ==
  ASSUME NEW c \in InputType
  PROVE  /\ c # None
         /\ c.fluxNs \in STRING
         /\ c.additional \in Seq(AdditionalType)
         /\ c.source # None => c.source \in SourceType
         /\ c.source # None /\ c.source.template # None => c.source.template \in TemplateType
         /\ c.kust # None => c.kust \in KustomizationType /\ c.kust.sourceRef \in RefType
BY InputsAssumption DEF InputType, SourceType, KustomizationType

LEMMA ExtendsTransitive ==
  ASSUME NEW b \in InputType, NEW c \in InputType, NEW d \in InputType,
         Extends(b, c), Extends(c, d)
  PROVE  Extends(b, d)
<1>1. SameRest(b, d)
  BY DEF Extends, SameRest
<1>2. KeepsFields(b, d)
  <2>1. b.fluxNs # "nil" => d.fluxNs = b.fluxNs
    BY DEF Extends, KeepsFields
  <2>2. ASSUME b.source # None, b.source.template # None
        PROVE  /\ Filled(b.source.template.name, d.source.template.name)
               /\ Filled(b.source.template.ns, d.source.template.ns)
               /\ HasName(b.source.template.secretRef) =>
                    d.source.template.secretRef = b.source.template.secretRef
    <3>1. c.source # None /\ c.source.template # None
      BY <2>2 DEF Extends, SameRest
    <3> QED
      BY <2>2, <3>1 DEF Extends, KeepsFields, Filled
  <2>3. ASSUME b.kust # None
        PROVE  /\ Filled(b.kust.ns, d.kust.ns)
               /\ Filled(b.kust.sourceRef.kind, d.kust.sourceRef.kind)
               /\ Filled(b.kust.sourceRef.name, d.kust.sourceRef.name)
               /\ Filled(b.kust.sourceRef.ns, d.kust.sourceRef.ns)
    <3>1. c.kust # None
      BY <2>3 DEF Extends, SameRest
    <3> QED
      BY <2>3, <3>1 DEF Extends, KeepsFields, Filled
  <2> QED
    BY <2>1, <2>2, <2>3 DEF KeepsFields
<1> QED
  BY <1>1, <1>2 DEF Extends

LEMMA ExtendsReflexive ==
  ASSUME NEW c \in InputType
  PROVE  Extends(c, c)
BY DEF Extends, SameRest, KeepsFields, Filled

(* Replacing the template, or the Kustomization, of a config.              *)
LEMMA WithTemplate ==
  ASSUME NEW c \in InputType, c.source # None, NEW t \in TemplateType
  PROVE  LET d == [c EXCEPT !.source.template = t] IN
         /\ d \in InputType
         /\ d.source = [c.source EXCEPT !.template = t]
         /\ d.source.template = t /\ d.source.secretResource = c.source.secretResource
         /\ d.source # None /\ d.source.template # None
         /\ d.fluxNs = c.fluxNs /\ d.kust = c.kust /\ d.components = c.components
         /\ d.extra = c.extra /\ d.additional = c.additional
<1>1. c.source \in SourceType
  BY Parts
<1>2. [c.source EXCEPT !.template = t] \in SourceType
  BY <1>1 DEF SourceType
<1> QED
  BY <1>1, <1>2, InputsAssumption DEF InputType, SourceType

LEMMA WithKustomization ==
  ASSUME NEW c \in InputType, NEW k \in KustomizationType
  PROVE  LET d == [c EXCEPT !.kust = k] IN
         /\ d \in InputType
         /\ d.kust = k /\ d.kust # None
         /\ d.source = c.source /\ d.fluxNs = c.fluxNs /\ d.components = c.components
         /\ d.extra = c.extra /\ d.additional = c.additional
BY InputsAssumption DEF InputType

(* The reference of the Kustomization is that of the source.               *)
LEMMA RefToSourceFacts ==
  ASSUME NEW c \in InputType
  PROVE  LET d == RefToSource(c) IN
         /\ Extends(c, d)
         /\ d.fluxNs = c.fluxNs /\ d.source = c.source
         /\ c.kust # None => d.kust.ns = c.kust.ns
         /\ c.kust # None /\ HasTemplate(c) =>
              d.kust.sourceRef = [kind |-> Or(c.kust.sourceRef.kind, c.source.template.kind),
                                  name |-> Or(c.kust.sourceRef.name, c.source.template.name),
                                  ns   |-> Or(c.kust.sourceRef.ns, c.source.template.ns)]
<1>1. CASE c.kust = None \/ ~HasTemplate(c)
  BY <1>1, ExtendsReflexive DEF RefToSource
<1>2. CASE c.kust # None /\ HasTemplate(c)
  <2> DEFINE t == c.source.template
             old == c.kust.sourceRef
             ref == [kind |-> Or(old.kind, t.kind), name |-> Or(old.name, t.name),
                     ns |-> Or(old.ns, t.ns)]
             k == [c.kust EXCEPT !.sourceRef = ref]
  <2>1. t \in TemplateType /\ c.kust \in KustomizationType /\ old \in RefType
    BY <1>2, Parts DEF HasTemplate, Decodable
  <2>2. ref \in RefType
    BY <2>1 DEF RefType, TemplateType, Or
  <2>3. k \in KustomizationType /\ k.complete = c.kust.complete /\ k.ns = c.kust.ns
        /\ k.sourceRef = ref
    BY <2>1, <2>2 DEF KustomizationType
  <2>4. RefToSource(c) = [c EXCEPT !.kust = k]
    BY <1>2 DEF RefToSource
  <2>5. /\ Filled(old.kind, ref.kind) /\ Filled(old.name, ref.name)
        /\ Filled(old.ns, ref.ns)
    BY DEF Filled, Or
  <2>6. LET d == RefToSource(c) IN
        /\ d \in InputType /\ d.kust = k /\ d.kust # None
        /\ d.source = c.source /\ d.fluxNs = c.fluxNs /\ d.components = c.components
        /\ d.extra = c.extra /\ d.additional = c.additional
    BY <2>3, <2>4, WithKustomization
  <2>7. Extends(c, RefToSource(c))
    BY <1>2, <2>3, <2>5, <2>6 DEF Extends, SameRest, KeepsFields, Filled
  <2> QED
    BY <1>2, <2>3, <2>6, <2>7
<1> QED
  BY <1>1, <1>2

LEMMA ReplacedTwice ==
  ASSUME NEW c \in InputType, NEW j, NEW k, NEW d, d = [c EXCEPT !.kust = j]
  PROVE  [d EXCEPT !.kust = k] = [c EXCEPT !.kust = k]
BY DEF InputType

(* The namespace of Flux is that of a template ...                         *)
LEMMA TemplateInNamespace ==
  ASSUME NEW c \in InputType, HasTemplate(c)
  PROVE  LET d == [c EXCEPT !.source.template.ns = Or(@, c.fluxNs)] IN
         /\ Extends(c, d)
         /\ d.fluxNs = c.fluxNs /\ d.kust = c.kust
         /\ d.source.template.name = c.source.template.name
         /\ d.source.template.ns = Or(c.source.template.ns, c.fluxNs)
<1> DEFINE t == c.source.template
           u == [t EXCEPT !.ns = Or(t.ns, c.fluxNs)]
           d == [c EXCEPT !.source.template.ns = Or(@, c.fluxNs)]
<1>1. c.source # None /\ t # None /\ t \in TemplateType /\ c.fluxNs \in STRING
  BY Parts DEF HasTemplate, Decodable
<1>2. /\ u \in TemplateType /\ u.kind = t.kind /\ u.complete = t.complete
      /\ u.name = t.name /\ u.secretRef = t.secretRef /\ u.ns = Or(t.ns, c.fluxNs)
  BY <1>1 DEF TemplateType, Or
<1>3. d = [c EXCEPT !.source.template = u]
  OBVIOUS
<1>4. /\ d \in InputType /\ d.source.template = u
      /\ d.source.secretResource = c.source.secretResource
      /\ d.source # None /\ d.source.template # None
      /\ d.fluxNs = c.fluxNs /\ d.kust = c.kust /\ d.components = c.components
      /\ d.extra = c.extra /\ d.additional = c.additional
  BY <1>1, <1>2, <1>3, WithTemplate
<1>5. Extends(c, d)
  BY <1>1, <1>2, <1>4 DEF Extends, SameRest, KeepsFields, Filled, Or
<1> QED
  BY <1>2, <1>4, <1>5

(* ... and that of a Kustomization and its reference.                      *)
LEMMA KustomizationInNamespace ==
  ASSUME NEW c \in InputType, c.kust # None, NEW f \in STRING
  PROVE  LET d == [c EXCEPT !.kust.ns = Or(@, f), !.kust.sourceRef.ns = Or(@, f)] IN
         /\ Extends(c, d)
         /\ d.fluxNs = c.fluxNs /\ d.source = c.source
         /\ d.kust.ns = Or(c.kust.ns, f)
         /\ d.kust.sourceRef.kind = c.kust.sourceRef.kind
         /\ d.kust.sourceRef.name = c.kust.sourceRef.name
         /\ d.kust.sourceRef.ns = Or(c.kust.sourceRef.ns, f)
<1> DEFINE ref == [c.kust.sourceRef EXCEPT !.ns = Or(@, f)]
           k == [c.kust EXCEPT !.ns = Or(@, f), !.sourceRef = ref]
           d == [c EXCEPT !.kust.ns = Or(@, f), !.kust.sourceRef.ns = Or(@, f)]
<1>1. c.kust \in KustomizationType /\ c.kust.sourceRef \in RefType
  BY Parts
<1>2. /\ ref \in RefType /\ ref.kind = c.kust.sourceRef.kind
      /\ ref.name = c.kust.sourceRef.name /\ ref.ns = Or(c.kust.sourceRef.ns, f)
  BY <1>1 DEF RefType, Or
<1>3. /\ k \in KustomizationType /\ k.complete = c.kust.complete
      /\ k.ns = Or(c.kust.ns, f) /\ k.sourceRef = ref
  BY <1>1, <1>2 DEF KustomizationType, Or
<1>4. d = [c EXCEPT !.kust = k]
  <2> DEFINE k1 == [c.kust EXCEPT !.ns = Or(@, f)]
             c1 == [c EXCEPT !.kust = k1]
  <2>1. k1 \in KustomizationType /\ k1.sourceRef = c.kust.sourceRef
    BY <1>1 DEF KustomizationType, Or
  <2>2. c1.kust = k1
    BY DEF InputType
  <2>3. d = [c1 EXCEPT !.kust = [c1.kust EXCEPT !.sourceRef =
                                   [c1.kust.sourceRef EXCEPT !.ns = Or(@, f)]]]
    OBVIOUS
  <2>4. d = [c1 EXCEPT !.kust = [k1 EXCEPT !.sourceRef = ref]]
    BY <2>1, <2>2, <2>3
  <2>5. [k1 EXCEPT !.sourceRef = ref] = k
    BY <1>1 DEF KustomizationType
  <2>6. d = [c1 EXCEPT !.kust = k]
    BY <2>4, <2>5
  <2>7. c1 = [c EXCEPT !.kust = k1]
    OBVIOUS
  <2> HIDE DEF d, k, k1, c1
  <2>8. [c1 EXCEPT !.kust = k] = [c EXCEPT !.kust = k]
    BY <2>7, ReplacedTwice
  <2> QED
    BY <2>6, <2>8
<1> HIDE DEF d, k
<1>5. /\ d \in InputType /\ d.kust = k /\ d.kust # None
      /\ d.source = c.source /\ d.fluxNs = c.fluxNs /\ d.components = c.components
      /\ d.extra = c.extra /\ d.additional = c.additional
  BY <1>3, <1>4, WithKustomization
<1>6. Extends(c, d)
  BY <1>2, <1>3, <1>5 DEF Extends, SameRest, KeepsFields, Filled, Or
<1> QED
  BY <1>2, <1>3, <1>5, <1>6 DEF d

LEMMA InFluxNamespaceFacts ==
  ASSUME NEW c \in InputType
  PROVE  LET d == InFluxNamespace(c) IN
         /\ Extends(c, d)
         /\ d.fluxNs = c.fluxNs
         /\ HasTemplate(c) =>
              /\ d.source.template.name = c.source.template.name
              /\ d.source.template.ns = Or(c.source.template.ns, c.fluxNs)
         /\ c.kust # None =>
              /\ d.kust.ns = Or(c.kust.ns, c.fluxNs)
              /\ d.kust.sourceRef.kind = c.kust.sourceRef.kind
              /\ d.kust.sourceRef.name = c.kust.sourceRef.name
              /\ d.kust.sourceRef.ns = Or(c.kust.sourceRef.ns, c.fluxNs)
<1> DEFINE e == IF HasTemplate(c)
                THEN [c EXCEPT !.source.template.ns = Or(@, c.fluxNs)] ELSE c
<1>1. /\ Extends(c, e) /\ e \in InputType
      /\ e.fluxNs = c.fluxNs /\ e.kust = c.kust
      /\ HasTemplate(c) =>
           /\ e.source.template.name = c.source.template.name
           /\ e.source.template.ns = Or(c.source.template.ns, c.fluxNs)
  BY TemplateInNamespace, ExtendsReflexive DEF Extends
<1>2. InFluxNamespace(c) =
        IF c.kust = None THEN e
        ELSE [e EXCEPT !.kust.ns = Or(@, c.fluxNs), !.kust.sourceRef.ns = Or(@, c.fluxNs)]
  BY DEF InFluxNamespace
<1>3. CASE c.kust = None
  BY <1>1, <1>2, <1>3
<1>4. CASE c.kust # None
  <2> DEFINE d == [e EXCEPT !.kust.ns = Or(@, c.fluxNs),
                            !.kust.sourceRef.ns = Or(@, c.fluxNs)]
  <2>1. c.fluxNs \in STRING
    BY Parts
  <2> HIDE DEF e
  <2>2. /\ Extends(e, d) /\ d \in InputType
        /\ d.fluxNs = e.fluxNs /\ d.source = e.source
        /\ d.kust.ns = Or(e.kust.ns, c.fluxNs)
        /\ d.kust.sourceRef.kind = e.kust.sourceRef.kind
        /\ d.kust.sourceRef.name = e.kust.sourceRef.name
        /\ d.kust.sourceRef.ns = Or(e.kust.sourceRef.ns, c.fluxNs)
    BY <1>1, <1>4, <2>1, KustomizationInNamespace DEF Extends
  <2>3. InFluxNamespace(c) = d
    BY <1>2, <1>4
  <2> HIDE DEF d
  <2>4. Extends(c, d)
    BY <1>1, <2>2, ExtendsTransitive
  <2> QED
    BY <1>1, <2>2, <2>3, <2>4
<1> QED
  BY <1>3, <1>4

-----------------------------------------------------------------------------
(* What each step makes of the config.                                     *)

(* After the config's own defaults: what the reference leaves open is what *)
(* the source says, even if that is open itself, and an explicit namespace *)
(* of Flux is where everything else goes.                                  *)
LEMMA DefaultedConfigFacts ==
  ASSUME NEW c \in InputType
  PROVE  LET d == DefaultedConfig(c) IN
         /\ Extends(c, d) /\ d.fluxNs = c.fluxNs
         /\ c.kust # None /\ HasTemplate(c) =>
              /\ c.kust.sourceRef.kind = "" => d.kust.sourceRef.kind = d.source.template.kind
              /\ c.kust.sourceRef.name = "" => d.kust.sourceRef.name = d.source.template.name
              /\ c.kust.sourceRef.ns = "" => d.kust.sourceRef.ns = d.source.template.ns
         /\ HasTemplate(c) /\ c.source.template.ns = "" =>
              d.source.template.ns = IF HasName(c.fluxNs) THEN c.fluxNs ELSE ""
         /\ c.kust # None /\ c.kust.ns = "" =>
              d.kust.ns = IF HasName(c.fluxNs) THEN c.fluxNs ELSE ""
<1> DEFINE r == RefToSource(c)
           d == DefaultedConfig(c)
<1>a. /\ Extends(c, r) /\ r.fluxNs = c.fluxNs /\ r.source = c.source
      /\ c.kust # None => r.kust.ns = c.kust.ns
      /\ c.kust # None /\ HasTemplate(c) =>
           r.kust.sourceRef = [kind |-> Or(c.kust.sourceRef.kind, c.source.template.kind),
                               name |-> Or(c.kust.sourceRef.name, c.source.template.name),
                               ns   |-> Or(c.kust.sourceRef.ns, c.source.template.ns)]
  BY RefToSourceFacts
<1> HIDE DEF r
<1>1. /\ Extends(c, r) /\ r \in InputType
      /\ r.fluxNs = c.fluxNs /\ r.source = c.source
      /\ c.kust # None => r.kust # None /\ r.kust.ns = c.kust.ns
      /\ c.kust # None /\ HasTemplate(c) =>
           /\ r.kust.sourceRef.kind = Or(c.kust.sourceRef.kind, c.source.template.kind)
           /\ r.kust.sourceRef.name = Or(c.kust.sourceRef.name, c.source.template.name)
           /\ r.kust.sourceRef.ns = Or(c.kust.sourceRef.ns, c.source.template.ns)
  BY <1>a DEF Extends, SameRest
<1>2. HasTemplate(r) <=> HasTemplate(c)
  BY <1>1 DEF HasTemplate
<1>3. CASE ~HasName(c.fluxNs)
  <2>1. d = r
    BY <1>1, <1>3 DEF DefaultedConfig, r
  <2> HIDE DEF d
  <2>2. HasTemplate(c) => c.source # None
    BY DEF HasTemplate
  <2> QED
    BY <1>1, <1>3, <2>1, <2>2 DEF Or, d
<1>4. CASE HasName(c.fluxNs)
  <2>1. d = InFluxNamespace(r)
    BY <1>1, <1>4 DEF DefaultedConfig, r
  <2> HIDE DEF d
  <2>2. /\ Extends(r, d) /\ d \in InputType
        /\ d.fluxNs = r.fluxNs
        /\ HasTemplate(r) =>
             /\ d.source.template.name = r.source.template.name
             /\ d.source.template.ns = Or(r.source.template.ns, r.fluxNs)
        /\ r.kust # None =>
             /\ d.kust.ns = Or(r.kust.ns, r.fluxNs)
             /\ d.kust.sourceRef.kind = r.kust.sourceRef.kind
             /\ d.kust.sourceRef.name = r.kust.sourceRef.name
             /\ d.kust.sourceRef.ns = Or(r.kust.sourceRef.ns, r.fluxNs)
    BY <1>1, <2>1, InFluxNamespaceFacts DEF Extends
  <2>3. Extends(c, d)
    BY <1>1, <2>2, ExtendsTransitive
  <2>4. HasTemplate(c) => d.source.template.kind = c.source.template.kind
    BY <2>3 DEF Extends, SameRest, HasTemplate, Decodable
  <2>5. d.fluxNs = c.fluxNs
    BY <1>1, <2>2
  <2>6. c.kust # None /\ HasTemplate(c) =>
          /\ c.kust.sourceRef.kind = "" => d.kust.sourceRef.kind = d.source.template.kind
          /\ c.kust.sourceRef.name = "" => d.kust.sourceRef.name = d.source.template.name
          /\ c.kust.sourceRef.ns = "" => d.kust.sourceRef.ns = d.source.template.ns
    BY <1>1, <1>2, <2>2, <2>4 DEF Or
  <2>7. HasTemplate(c) /\ c.source.template.ns = "" => d.source.template.ns = c.fluxNs
    BY <1>1, <1>2, <2>2 DEF Or
  <2>8. c.kust # None /\ c.kust.ns = "" => d.kust.ns = c.fluxNs
    BY <1>1, <2>2 DEF Or
  <2> QED
    BY <1>4, <2>3, <2>5, <2>6, <2>7, <2>8 DEF d
<1> QED
  BY <1>3, <1>4

(* The constant defaults are strings, and the default kind is a kind.      *)
LEMMA DefaultsTyped == System \in STRING /\ "GitRepository" \in Kinds
  /\ System # "" /\ System # "nil"
<1>1. System \in STRING
  BY DefaultsAssumption
<1>2. "GitRepository" \in Kinds
  BY DEF Kinds, Supported
<1>3. System # "" /\ System # "nil"
  BY DEF System
<1> QED
  BY <1>1, <1>2, <1>3

(* The namespace of Flux gets its default.                                 *)
LEMMA InstallationFacts ==
  ASSUME NEW c \in InputType
  PROVE  LET d == [c EXCEPT !.fluxNs = IF @ = "nil" THEN System ELSE @] IN
         /\ Extends(c, d)
         /\ d.source = c.source /\ d.kust = c.kust
         /\ d.fluxNs = IF c.fluxNs = "nil" THEN System ELSE c.fluxNs
<1> DEFINE d == [c EXCEPT !.fluxNs = IF @ = "nil" THEN System ELSE @]
<1>1. /\ d.source = c.source /\ d.kust = c.kust
      /\ d.components = c.components /\ d.extra = c.extra /\ d.additional = c.additional
      /\ d.fluxNs = IF c.fluxNs = "nil" THEN System ELSE c.fluxNs
  BY DEF InputType
<1>2. d \in InputType
  BY DefaultsTyped DEF InputType
<1> HIDE DEF d
<1>3. Extends(c, d)
  BY <1>1, <1>2 DEF Extends, SameRest, KeepsFields, Filled
<1> QED
  BY <1>1, <1>3 DEF d

(* A supported template gets its name and namespace.                       *)
LEMMA TemplateFacts ==
  ASSUME NEW t \in TemplateType, NEW res \in STRING
  PROVE  LET u == DefaultTemplate(t, res) IN
         /\ u \in TemplateType /\ u.kind = t.kind /\ u.complete = t.complete
         /\ t.kind \in Supported =>
              u.name = Or(t.name, System) /\ u.ns = Or(t.ns, System)
         /\ t.kind \notin Supported => u = t
         /\ Filled(t.name, u.name) /\ Filled(t.ns, u.ns)
         /\ HasName(t.secretRef) => u.secretRef = t.secretRef
<1>1. CASE t.kind \notin Supported
  BY <1>1 DEF DefaultTemplate, Filled
<1>2. CASE t.kind \in Supported
  <2> DEFINE n == Or(t.name, System)
             s == Or(t.ns, System)
             r == IF HasName(res) /\ ~HasName(t.secretRef) THEN System ELSE t.secretRef
             u == [t EXCEPT !.name = n, !.ns = s, !.secretRef = r]
  <2>1. t.name \in STRING /\ t.ns \in STRING /\ t.secretRef \in STRING /\ System \in STRING
    BY DefaultsTyped DEF TemplateType
  <2>2. n \in STRING /\ s \in STRING /\ r \in STRING
    BY <2>1 DEF Or
  <2>3. DefaultTemplate(t, res) = u
    BY <1>2 DEF DefaultTemplate
  <2>4. /\ u \in TemplateType /\ u.kind = t.kind /\ u.complete = t.complete
        /\ u.name = n /\ u.ns = s /\ u.secretRef = r
    BY <2>2 DEF TemplateType
  <2> HIDE DEF u
  <2> QED
    BY <1>2, <2>3, <2>4 DEF Filled, Or
<1> QED
  BY <1>1, <1>2

LEMMA SourceFacts ==
  ASSUME NEW c \in InputType, HasTemplate(c)
  PROVE  LET d == [c EXCEPT !.source.template =
                     DefaultTemplate(@, c.source.secretResource)]
         IN /\ Extends(c, d)
            /\ d.fluxNs = c.fluxNs /\ d.kust = c.kust
            /\ c.source.template.kind \in Supported =>
                 /\ d.source.template.name = Or(c.source.template.name, System)
                 /\ d.source.template.ns = Or(c.source.template.ns, System)
<1> DEFINE t == c.source.template
           u == DefaultTemplate(t, c.source.secretResource)
           d == [c EXCEPT !.source.template =
                   DefaultTemplate(@, c.source.secretResource)]
<1>1. c.source # None /\ t # None /\ t \in TemplateType /\ c.source \in SourceType
  BY Parts DEF HasTemplate, Decodable
<1>2. c.source.secretResource \in STRING
  BY <1>1 DEF SourceType
<1>3. /\ u \in TemplateType /\ u.kind = t.kind /\ u.complete = t.complete
      /\ t.kind \in Supported => u.name = Or(t.name, System) /\ u.ns = Or(t.ns, System)
      /\ Filled(t.name, u.name) /\ Filled(t.ns, u.ns)
      /\ HasName(t.secretRef) => u.secretRef = t.secretRef
  BY <1>1, <1>2, TemplateFacts
<1>4. d = [c EXCEPT !.source.template = u]
  OBVIOUS
<1> HIDE DEF u, d
<1>5. /\ d \in InputType /\ d.source.template = u
      /\ d.source.secretResource = c.source.secretResource
      /\ d.source # None /\ d.source.template # None
      /\ d.fluxNs = c.fluxNs /\ d.kust = c.kust /\ d.components = c.components
      /\ d.extra = c.extra /\ d.additional = c.additional
  BY <1>1, <1>3, <1>4, WithTemplate
<1>6. Extends(c, d)
  BY <1>1, <1>3, <1>5 DEF Extends, SameRest, KeepsFields, Filled
<1> QED
  BY <1>3, <1>5, <1>6 DEF d

(* A Kustomization gets its namespace and its whole reference.             *)
LEMMA KustomizationFacts ==
  ASSUME NEW c \in InputType, c.kust # None
  PROVE  LET d == [c EXCEPT !.kust = DefaultKustomization(@)]
             ref == c.kust.sourceRef
         IN /\ Extends(c, d)
            /\ d.fluxNs = c.fluxNs /\ d.source = c.source
            /\ d.kust.ns = Or(c.kust.ns, System)
            /\ d.kust.sourceRef.kind = Or(ref.kind, "GitRepository")
            /\ d.kust.sourceRef.name = Or(ref.name, System)
            /\ d.kust.sourceRef.ns = Or(ref.ns, System)
<1> DEFINE old == c.kust.sourceRef
           ref == [kind |-> Or(old.kind, "GitRepository"), name |-> Or(old.name, System),
                   ns |-> Or(old.ns, System)]
           k == [c.kust EXCEPT !.ns = Or(@, System), !.sourceRef = ref]
           d == [c EXCEPT !.kust = DefaultKustomization(@)]
<1>1. c.kust \in KustomizationType /\ old \in RefType
  BY Parts
<1>2. ref \in RefType
  BY <1>1, DefaultsTyped DEF RefType, Or
<1>3. DefaultKustomization(c.kust) = k
  BY <1>1 DEF DefaultKustomization, KustomizationType
<1>4. /\ k \in KustomizationType /\ k.complete = c.kust.complete
      /\ k.ns = Or(c.kust.ns, System) /\ k.sourceRef = ref
  BY <1>1, <1>2, DefaultsTyped DEF KustomizationType, Or
<1>5. d = [c EXCEPT !.kust = k]
  BY <1>3
<1>6. /\ Filled(old.kind, ref.kind) /\ Filled(old.name, ref.name)
      /\ Filled(old.ns, ref.ns)
  BY DEF Filled, Or
<1> HIDE DEF d, k, ref
<1>7. /\ d \in InputType /\ d.kust = k /\ d.kust # None
      /\ d.source = c.source /\ d.fluxNs = c.fluxNs /\ d.components = c.components
      /\ d.extra = c.extra /\ d.additional = c.additional
  BY <1>4, <1>5, WithKustomization
<1>8. Extends(c, d)
  BY <1>6, <1>4, <1>7 DEF Extends, SameRest, KeepsFields, Filled, Or
<1> QED
  BY <1>4, <1>7, <1>8 DEF d, ref

-----------------------------------------------------------------------------
(* The invariant: how far the config is, given how far the pipeline is.    *)

Base == IF input = None THEN EmptyConfig ELSE input

(* Where things go that have no namespace of their own.                    *)
FluxNs(c) == IF HasName(c.fluxNs) THEN c.fluxNs ELSE System

(* A reference agrees with the source, up to the default that both get.    *)
Agree(a, b) == Or(a, System) = Or(b, System)

Deployable(c) == HasTemplate(c) /\ c.source.template.kind \in Supported

RefersTo(b, c) ==
  b.kust # None /\ Deployable(b) =>
    /\ b.kust.sourceRef.kind = "" => c.kust.sourceRef.kind = c.source.template.kind
    /\ b.kust.sourceRef.name = "" => Agree(c.kust.sourceRef.name, c.source.template.name)
    /\ b.kust.sourceRef.ns = "" => Agree(c.kust.sourceRef.ns, c.source.template.ns)

PlacedNextTo(b, c) ==
  /\ Deployable(b) /\ b.source.template.ns = "" =>
       Or(c.source.template.ns, System) = FluxNs(c)
  /\ b.kust # None /\ b.kust.ns = "" => Or(c.kust.ns, System) = FluxNs(c)

NamespaceSet(b, c) == c.fluxNs = IF b.fluxNs = "nil" THEN System ELSE b.fluxNs
SourceNamed(c) ==
  Deployable(c) => c.source.template.name # "" /\ c.source.template.ns # ""
KustomizationNamed(c) ==
  c.kust # None =>
    /\ c.kust.ns # ""
    /\ c.kust.sourceRef.kind # "" /\ c.kust.sourceRef.name # "" /\ c.kust.sourceRef.ns # ""

AfterValidation == {"accepted", "rejected"}
AfterKustomization == {"validate"} \union AfterValidation
AfterSource == {"kustomization"} \union AfterKustomization
AfterInstallation == {"source"} \union AfterSource
AfterConfig == {"installation"} \union AfterInstallation

Inv ==
  /\ input \in InputType \union {Malformed, None}
  /\ pc \in PCs
  /\ (cfg = None) <=> (pc \in {"decode", "undecodable"})
  /\ cfg # None => Base \in InputType /\ Extends(Base, cfg)
  /\ pc = "config" => cfg = Base
  /\ pc = "installation" => cfg.fluxNs = Base.fluxNs
  /\ pc \in AfterConfig => RefersTo(Base, cfg) /\ PlacedNextTo(Base, cfg)
  /\ pc \in AfterInstallation => NamespaceSet(Base, cfg)
  /\ pc \in AfterSource => SourceNamed(cfg)
  /\ pc \in AfterKustomization => KustomizationNamed(cfg)
  /\ pc = "accepted" => ValidateFluxConfig(cfg)

LEMMA EmptyTyped == EmptyConfig \in InputType
<1>1. "nil" \in STRING
  BY DefaultsAssumption
<1>2. <<>> \in Seq(AdditionalType)
  OBVIOUS
<1> QED
  BY <1>1, <1>2 DEF EmptyConfig, InputType

(* A config and what it is made of have the same kind of template.         *)
LEMMA SameTemplate ==
  ASSUME NEW b, NEW c, SameRest(b, c)
  PROVE  /\ HasTemplate(b) <=> HasTemplate(c)
         /\ Deployable(b) <=> Deployable(c)
BY DEF SameRest, HasTemplate, Decodable, Deployable

LEMMA InitInv == Init => Inv
BY InputsAssumption DEF Init, Inv, PCs, Outcomes, AfterConfig, AfterInstallation,
   AfterSource, AfterKustomization, AfterValidation

LEMMA DecodeInv == Inv /\ DecodeProviderConfig => Inv'
<1> SUFFICES ASSUME Inv, DecodeProviderConfig PROVE Inv'
  OBVIOUS
<1>1. input' = input /\ pc = "decode" /\ cfg = None
  BY DEF Inv, DecodeProviderConfig
<1>2. CASE input = Malformed
  BY <1>1, <1>2 DEF Inv, DecodeProviderConfig, PCs, Outcomes, AfterConfig,
     AfterInstallation, AfterSource, AfterKustomization, AfterValidation
<1>3. CASE input # Malformed
  <2>1. cfg' = Base /\ pc' = "config" /\ Base' = Base
    BY <1>1, <1>3 DEF DecodeProviderConfig, Base
  <2>2. Base \in InputType
    BY <1>3, EmptyTyped DEF Base, Inv
  <2>3. Extends(Base, cfg') /\ cfg' # None
    BY <2>1, <2>2, ExtendsReflexive, Parts
  <2> QED
    BY <1>1, <2>1, <2>2, <2>3 DEF Inv, PCs, Outcomes, AfterConfig,
       AfterInstallation, AfterSource, AfterKustomization, AfterValidation
<1> QED
  BY <1>2, <1>3

LEMMA ConfigInv == Inv /\ SetDefaults_FluxConfig => Inv'
<1> SUFFICES ASSUME Inv, SetDefaults_FluxConfig PROVE Inv'
  OBVIOUS
<1>1. /\ input' = input /\ pc = "config" /\ pc' = "installation"
      /\ cfg = Base /\ cfg # None /\ Base \in InputType
      /\ cfg' = DefaultedConfig(Base) /\ Base' = Base
  BY DEF Inv, SetDefaults_FluxConfig, DefaultedConfig, Base
<1> DEFINE d == DefaultedConfig(Base)
           b == Base
<1> HIDE DEF b
<1>2. /\ Extends(b, d) /\ d.fluxNs = b.fluxNs
      /\ b.kust # None /\ HasTemplate(b) =>
           /\ b.kust.sourceRef.kind = "" => d.kust.sourceRef.kind = d.source.template.kind
           /\ b.kust.sourceRef.name = "" => d.kust.sourceRef.name = d.source.template.name
           /\ b.kust.sourceRef.ns = "" => d.kust.sourceRef.ns = d.source.template.ns
      /\ HasTemplate(b) /\ b.source.template.ns = "" =>
           d.source.template.ns = IF HasName(b.fluxNs) THEN b.fluxNs ELSE ""
      /\ b.kust # None /\ b.kust.ns = "" =>
           d.kust.ns = IF HasName(b.fluxNs) THEN b.fluxNs ELSE ""
  BY <1>1, DefaultedConfigFacts DEF b
<1> HIDE DEF d
<1>3. RefersTo(b, d)
  BY <1>2 DEF RefersTo, Deployable, Agree
<1>4. PlacedNextTo(b, d)
  BY <1>2 DEF PlacedNextTo, Deployable, FluxNs, HasName, Or
<1>5. d # None
  BY <1>2, Parts DEF Extends
<1> QED
  BY <1>1, <1>2, <1>3, <1>4, <1>5 DEF b, d, Inv, PCs, Outcomes, AfterConfig,
     AfterInstallation, AfterSource, AfterKustomization, AfterValidation

LEMMA InstallationInv == Inv /\ SetDefaults_FluxInstallation => Inv'
<1> SUFFICES ASSUME Inv, SetDefaults_FluxInstallation PROVE Inv'
  OBVIOUS
<1> DEFINE d == [cfg EXCEPT !.fluxNs = IF @ = "nil" THEN System ELSE @]
<1>1. /\ input' = input /\ pc = "installation" /\ pc' = "source" /\ cfg # None
      /\ Base' = Base /\ Base \in InputType /\ cfg \in InputType /\ Extends(Base, cfg)
      /\ RefersTo(Base, cfg) /\ PlacedNextTo(Base, cfg) /\ cfg.fluxNs = Base.fluxNs
  BY DEF Inv, SetDefaults_FluxInstallation, Base, AfterConfig, AfterInstallation, Extends
<1>2. cfg' = d
  BY DEF SetDefaults_FluxInstallation, DefaultedInstallation
<1>3. /\ Extends(cfg, d) /\ d.source = cfg.source /\ d.kust = cfg.kust
      /\ d.fluxNs = IF cfg.fluxNs = "nil" THEN System ELSE cfg.fluxNs
  BY <1>1, InstallationFacts
<1> HIDE DEF d
<1>4. Extends(Base, d) /\ d # None
  BY <1>1, <1>3, ExtendsTransitive, Parts DEF Extends
<1>5. RefersTo(Base, d) /\ PlacedNextTo(Base, d) /\ NamespaceSet(Base, d)
  BY <1>1, <1>3, DefaultsTyped DEF RefersTo, PlacedNextTo, NamespaceSet, FluxNs, HasName
<1> QED
  BY <1>1, <1>2, <1>4, <1>5 DEF Inv, PCs, Outcomes, AfterConfig,
     AfterInstallation, AfterSource, AfterKustomization, AfterValidation

LEMMA SourceInv == Inv /\ SetDefaults_Source => Inv'
<1> SUFFICES ASSUME Inv, SetDefaults_Source PROVE Inv'
  OBVIOUS
<1> DEFINE d == [cfg EXCEPT !.source.template =
                   DefaultTemplate(@, cfg.source.secretResource)]
<1>1. /\ input' = input /\ pc = "source" /\ pc' = "kustomization" /\ cfg # None
      /\ Base' = Base /\ Base \in InputType /\ cfg \in InputType /\ Extends(Base, cfg)
      /\ RefersTo(Base, cfg) /\ PlacedNextTo(Base, cfg) /\ NamespaceSet(Base, cfg)
  BY DEF Inv, SetDefaults_Source, Base, AfterConfig, AfterInstallation, AfterSource, Extends
<1>2. cfg' = IF HasTemplate(cfg) THEN d ELSE cfg
  BY DEF SetDefaults_Source, DefaultedSource
<1>3. CASE ~HasTemplate(cfg)
  <2>1. cfg' = cfg /\ SourceNamed(cfg)
    BY <1>2, <1>3 DEF SourceNamed, Deployable
  <2> QED
    BY <1>1, <2>1 DEF Inv, PCs, Outcomes, AfterConfig,
       AfterInstallation, AfterSource, AfterKustomization, AfterValidation
<1>4. CASE HasTemplate(cfg)
  <2>1. /\ Extends(cfg, d) /\ d.fluxNs = cfg.fluxNs /\ d.kust = cfg.kust
        /\ cfg.source.template.kind \in Supported =>
             /\ d.source.template.name = Or(cfg.source.template.name, System)
             /\ d.source.template.ns = Or(cfg.source.template.ns, System)
    BY <1>1, <1>4, SourceFacts
  <2> HIDE DEF d
  <2>2. Extends(Base, d) /\ d # None
    BY <1>1, <2>1, ExtendsTransitive, Parts DEF Extends
  <2>3. /\ Deployable(Base) <=> Deployable(cfg)
        /\ Deployable(d) <=> Deployable(cfg)
    BY <1>1, <2>1, SameTemplate DEF Extends
  <2>4. d.source.template.kind = cfg.source.template.kind
    BY <1>4, <2>1 DEF Extends, SameRest, HasTemplate, Decodable
  <2>5. RefersTo(Base, d)
    BY <1>1, <2>1, <2>3, <2>4, DefaultsTyped DEF RefersTo, Agree, Or, Deployable
  <2>6. PlacedNextTo(Base, d)
    BY <1>1, <2>1, <2>3, DefaultsTyped DEF PlacedNextTo, FluxNs, Or, Deployable
  <2>7. SourceNamed(d)
    BY <2>1, <2>3, DefaultsTyped DEF SourceNamed, Or, Deployable
  <2>8. NamespaceSet(Base, d)
    BY <1>1, <2>1 DEF NamespaceSet
  <2>9. cfg' = d
    BY <1>2, <1>4
  <2> QED
    BY <1>1, <2>2, <2>5, <2>6, <2>7, <2>8, <2>9 DEF Inv, PCs, Outcomes, AfterConfig,
       AfterInstallation, AfterSource, AfterKustomization, AfterValidation
<1> QED
  BY <1>3, <1>4

LEMMA KustomizationInv == Inv /\ SetDefaults_Kustomization => Inv'
<1> SUFFICES ASSUME Inv, SetDefaults_Kustomization PROVE Inv'
  OBVIOUS
<1> DEFINE d == [cfg EXCEPT !.kust = DefaultKustomization(@)]
<1>1. /\ input' = input /\ pc = "kustomization" /\ pc' = "validate" /\ cfg # None
      /\ Base' = Base /\ Base \in InputType /\ cfg \in InputType /\ Extends(Base, cfg)
      /\ RefersTo(Base, cfg) /\ PlacedNextTo(Base, cfg) /\ NamespaceSet(Base, cfg)
      /\ SourceNamed(cfg)
  BY DEF Inv, SetDefaults_Kustomization, Base, AfterConfig, AfterInstallation,
     AfterSource, AfterKustomization, Extends
<1>2. cfg' = IF cfg.kust = None THEN cfg ELSE d
  BY DEF SetDefaults_Kustomization, DefaultedKustomization
<1>3. CASE cfg.kust = None
  <2>1. cfg' = cfg /\ KustomizationNamed(cfg)
    BY <1>2, <1>3 DEF KustomizationNamed
  <2> QED
    BY <1>1, <2>1 DEF Inv, PCs, Outcomes, AfterConfig,
       AfterInstallation, AfterSource, AfterKustomization, AfterValidation
<1>4. CASE cfg.kust # None
  <2>1. /\ Extends(cfg, d) /\ d.fluxNs = cfg.fluxNs /\ d.source = cfg.source
        /\ d.kust.ns = Or(cfg.kust.ns, System)
        /\ d.kust.sourceRef.kind = Or(cfg.kust.sourceRef.kind, "GitRepository")
        /\ d.kust.sourceRef.name = Or(cfg.kust.sourceRef.name, System)
        /\ d.kust.sourceRef.ns = Or(cfg.kust.sourceRef.ns, System)
    BY <1>1, <1>4, KustomizationFacts
  <2> HIDE DEF d
  <2>2. Extends(Base, d) /\ d # None
    BY <1>1, <2>1, ExtendsTransitive, Parts DEF Extends
  <2>3. SourceNamed(d) /\ NamespaceSet(Base, d)
    BY <1>1, <2>1 DEF SourceNamed, NamespaceSet, Deployable, HasTemplate
  <2>4. Deployable(Base) => cfg.source.template.kind # ""
    BY <1>1, SameTemplate DEF Extends, Deployable, Supported
  <2>5. RefersTo(Base, d)
    BY <1>1, <2>1, <2>4, DefaultsTyped DEF RefersTo, Agree, Or
  <2>6. PlacedNextTo(Base, d)
    BY <1>1, <2>1, DefaultsTyped DEF PlacedNextTo, FluxNs, Or
  <2>7. KustomizationNamed(d)
    BY <2>1, DefaultsTyped DEF KustomizationNamed, Or
  <2>8. cfg' = d
    BY <1>2, <1>4
  <2> QED
    BY <1>1, <2>2, <2>3, <2>5, <2>6, <2>7, <2>8 DEF Inv, PCs, Outcomes, AfterConfig,
       AfterInstallation, AfterSource, AfterKustomization, AfterValidation
<1> QED
  BY <1>3, <1>4

LEMMA ValidateInv == Inv /\ Validate => Inv'
<1> SUFFICES ASSUME Inv, Validate PROVE Inv'
  OBVIOUS
<1>1. /\ UNCHANGED <<input, cfg>> /\ pc = "validate"
      /\ pc' = IF ValidateFluxConfig(cfg) THEN "accepted" ELSE "rejected"
      /\ Base' = Base
  BY DEF Validate, Base
<1> QED
  BY <1>1 DEF Inv, PCs, Outcomes, AfterConfig,
     AfterInstallation, AfterSource, AfterKustomization, AfterValidation

LEMMA PanicInv == Inv /\ DefaultingPanics => Inv'
<1> SUFFICES ASSUME Inv, DefaultingPanics PROVE Inv'
  OBVIOUS
<1>1. UNCHANGED <<input, cfg>> /\ pc = "config" /\ pc' = "panicked" /\ Base' = Base
  BY DEF DefaultingPanics, Base
<1> QED
  BY <1>1 DEF Inv, PCs, Outcomes, AfterConfig,
     AfterInstallation, AfterSource, AfterKustomization, AfterValidation

(* The pipeline keeps the stage invariant.                                 *)
THEOREM InvariantHolds == Spec => []Inv
<1>1. Init => Inv
  BY InitInv
<1>2. Inv /\ [Next]_vars => Inv'
  <2> SUFFICES ASSUME Inv, [Next]_vars PROVE Inv'
    OBVIOUS
  <2>1. CASE UNCHANGED vars
    BY <2>1 DEF vars, Inv, Base
  <2> QED
    BY <2>1, DecodeInv, ConfigInv, PanicInv, InstallationInv, SourceInv,
       KustomizationInv, ValidateInv DEF Next
<1> QED
  BY <1>1, <1>2, PTL DEF Spec

-----------------------------------------------------------------------------
(* What the invariant says of an accepted config.                          *)

LEMMA AcceptedFacts ==
  ASSUME Inv, Accepted
  PROVE  /\ cfg \in InputType /\ Base \in InputType /\ Extends(Base, cfg)
         /\ RefersTo(Base, cfg) /\ PlacedNextTo(Base, cfg)
         /\ NamespaceSet(Base, cfg) /\ SourceNamed(cfg) /\ KustomizationNamed(cfg)
         /\ ValidateFluxConfig(cfg)
         /\ cfg.source = None <=> cfg.kust = None
         /\ cfg.source # None => Deployable(cfg) /\ Deployable(Base) /\ HasTemplate(cfg)
<1>1. /\ cfg \in InputType /\ Base \in InputType /\ Extends(Base, cfg)
      /\ RefersTo(Base, cfg) /\ PlacedNextTo(Base, cfg)
      /\ NamespaceSet(Base, cfg) /\ SourceNamed(cfg) /\ KustomizationNamed(cfg)
      /\ ValidateFluxConfig(cfg)
  BY DEF Inv, Accepted, Extends, AfterConfig, AfterInstallation, AfterSource,
     AfterKustomization, AfterValidation
<1>2. cfg.source # None => HasTemplate(cfg) /\ Deployable(cfg)
  BY <1>1 DEF ValidateFluxConfig, ValidateSource, HasTemplate, Deployable
<1>3. Deployable(Base) <=> Deployable(cfg)
  BY <1>1, SameTemplate DEF Extends
<1> QED
  BY <1>1, <1>2, <1>3 DEF ValidateFluxConfig

(* Types, and everything that the actuator uses of an accepted config      *)
(* without a check is there (actuator.go:57-151, :202-269).                *)
THEOREM TypeCorrect == Spec => []TypeOK
<1>1. ASSUME Inv PROVE TypeOK
  <2>1. /\ input \in InputType \union {Malformed, None} /\ pc \in PCs
        /\ (cfg = None) <=> (pc \in {"decode", "undecodable"})
        /\ cfg # None => cfg \in InputType
    BY <1>1 DEF Inv, Extends
  <2>2. Accepted =>
          /\ cfg.fluxNs # "nil"
          /\ (cfg.source = None) <=> (cfg.kust = None)
          /\ cfg.source # None =>
               /\ HasTemplate(cfg)
               /\ cfg.source.template.name # "" /\ cfg.source.template.ns # ""
               /\ cfg.kust.ns # ""
    BY <1>1, AcceptedFacts, DefaultsTyped DEF NamespaceSet, SourceNamed, KustomizationNamed
  <2> QED
    BY <2>1, <2>2 DEF TypeOK
<1> QED
  BY <1>1, InvariantHolds, PTL

(* The Kustomization refers to the source of its own config, for every     *)
(* combination of names, namespaces and kinds left open.                   *)
THEOREM ReferencesOwnSource == Spec => []ReferencesItsSource
<1>1. ASSUME Inv PROVE ReferencesItsSource
  <2> SUFFICES ASSUME Accepted, cfg.source # None
               PROVE  LET t == cfg.source.template
                          open == input.kust.sourceRef
                          ref == cfg.kust.sourceRef
                      IN /\ open.kind = "" => ref.kind = t.kind
                         /\ open.name = "" => ref.name = t.name
                         /\ open.ns = "" => ref.ns = t.ns
    BY DEF ReferencesItsSource
  <2>1. /\ Extends(Base, cfg) /\ RefersTo(Base, cfg) /\ SourceNamed(cfg)
        /\ KustomizationNamed(cfg) /\ Deployable(cfg) /\ Deployable(Base)
        /\ cfg.kust # None
    BY <1>1, AcceptedFacts
  <2>2. Base.kust # None /\ Base.source # None
    BY <2>1 DEF Extends, SameRest
  <2>3. Base = input
    BY <2>2 DEF Base, EmptyConfig
  <2> QED
    BY <2>1, <2>2, <2>3 DEF RefersTo, SourceNamed, KustomizationNamed, Agree, Or
<1> QED
  BY <1>1, InvariantHolds, PTL

(* At no point of the pipeline is a value of the user's replaced.          *)
THEOREM KeepsUserValues == Spec => []UserValuesKept
<1>1. ASSUME Inv PROVE UserValuesKept
  <2> SUFFICES ASSUME cfg # None, input # None
               PROVE  UserValuesKept
    BY DEF UserValuesKept
  <2>1. Extends(input, cfg)
    BY <1>1 DEF Inv, Base
  <2> QED
    BY <2>1 DEF UserValuesKept, Extends, KeepsFields, Filled
<1> QED
  BY <1>1, InvariantHolds, PTL

(* A part of a config that is replaced by itself.                          *)
LEMMA SameParts ==
  ASSUME NEW c \in InputType
  PROVE  /\ [c EXCEPT !.fluxNs = c.fluxNs] = c
         /\ [c EXCEPT !.kust = c.kust] = c
         /\ c.source # None => [c EXCEPT !.source.template = c.source.template] = c
<1>1. [c EXCEPT !.fluxNs = c.fluxNs] = c /\ [c EXCEPT !.kust = c.kust] = c
  BY DEF InputType
<1>2. ASSUME c.source # None
      PROVE  [c EXCEPT !.source.template = c.source.template] = c
  <2>1. c.source \in SourceType
    BY <1>2, Parts
  <2>2. [c.source EXCEPT !.template = c.source.template] = c.source
    BY <2>1 DEF SourceType
  <2>3. [c EXCEPT !.source = c.source] = c
    BY DEF InputType
  <2>4. [c EXCEPT !.source.template = c.source.template]
          = [c EXCEPT !.source = [c.source EXCEPT !.template = c.source.template]]
    OBVIOUS
  <2> QED
    BY <2>2, <2>3, <2>4
<1> QED
  BY <1>1, <1>2

(* Namespaces that are set stay as they are.                               *)
LEMMA NamespacesSet ==
  ASSUME NEW c \in InputType,
         HasTemplate(c) => c.source.template.ns # "",
         c.kust # None => c.kust.ns # "" /\ c.kust.sourceRef.ns # ""
  PROVE  InFluxNamespace(c) = c
<1>1. ASSUME HasTemplate(c)
      PROVE  [c EXCEPT !.source.template.ns = Or(@, c.fluxNs)] = c
  <2> DEFINE t == c.source.template
  <2>1. c.source # None /\ t \in TemplateType /\ t.ns # ""
    BY <1>1, Parts DEF HasTemplate, Decodable
  <2>2. [t EXCEPT !.ns = Or(t.ns, c.fluxNs)] = t
    BY <2>1 DEF TemplateType, Or
  <2>3. [c EXCEPT !.source.template.ns = Or(@, c.fluxNs)]
          = [c EXCEPT !.source.template = [t EXCEPT !.ns = Or(t.ns, c.fluxNs)]]
    OBVIOUS
  <2> QED
    BY <2>1, <2>2, <2>3, SameParts
<1>2. ASSUME c.kust # None
      PROVE  [c EXCEPT !.kust.ns = Or(@, c.fluxNs), !.kust.sourceRef.ns = Or(@, c.fluxNs)] = c
  <2> DEFINE k == c.kust
             r == c.kust.sourceRef
             d == [c EXCEPT !.kust = [k EXCEPT !.ns = Or(k.ns, c.fluxNs)]]
  <2>1. k \in KustomizationType /\ r \in RefType /\ k.ns # "" /\ r.ns # ""
    BY <1>2, Parts
  <2>2. [k EXCEPT !.ns = Or(k.ns, c.fluxNs)] = k
    BY <2>1 DEF KustomizationType, Or
  <2>3. d = c
    BY <2>2, SameParts
  <2>4. [r EXCEPT !.ns = Or(r.ns, c.fluxNs)] = r
    BY <2>1 DEF RefType, Or
  <2>5. [k EXCEPT !.sourceRef = r] = k
    BY <2>1 DEF KustomizationType
  <2>6. [c EXCEPT !.kust.ns = Or(@, c.fluxNs), !.kust.sourceRef.ns = Or(@, c.fluxNs)]
          = [d EXCEPT !.kust = [d.kust EXCEPT !.sourceRef =
                                  [d.kust.sourceRef EXCEPT !.ns = Or(@, c.fluxNs)]]]
    OBVIOUS
  <2> HIDE DEF d
  <2>7. [c EXCEPT !.kust.ns = Or(@, c.fluxNs), !.kust.sourceRef.ns = Or(@, c.fluxNs)]
          = [c EXCEPT !.kust = [k EXCEPT !.sourceRef =
                                  [r EXCEPT !.ns = Or(r.ns, c.fluxNs)]]]
    BY <2>3, <2>6
  <2> QED
    BY <2>4, <2>5, <2>7, SameParts
<1>3. LET e == IF HasTemplate(c)
               THEN [c EXCEPT !.source.template.ns = Or(@, c.fluxNs)] ELSE c
      IN e = c
  BY <1>1
<1> QED
  BY <1>2, <1>3 DEF InFluxNamespace

(* A reference that is complete stays as it is.                            *)
LEMMA ReferenceSet ==
  ASSUME NEW r \in RefType, r.kind # "", r.name # "", r.ns # "", NEW a, NEW b, NEW f
  PROVE  [kind |-> Or(r.kind, a), name |-> Or(r.name, b), ns |-> Or(r.ns, f)] = r
BY DEF RefType, Or

(* An accepted config is as complete as defaulting makes it.               *)
THEOREM DefaultingSettles == Spec => []DefaultingIsStable
<1>1. ASSUME Inv, Accepted
      PROVE  /\ DefaultedConfig(cfg) = cfg
             /\ DefaultedInstallation(cfg) = cfg
             /\ DefaultedSource(cfg) = cfg
             /\ DefaultedKustomization(cfg) = cfg
  <2>1. /\ cfg \in InputType /\ NamespaceSet(Base, cfg)
        /\ SourceNamed(cfg) /\ KustomizationNamed(cfg) /\ ValidateFluxConfig(cfg)
        /\ cfg.source # None => Deployable(cfg) /\ HasTemplate(cfg)
    BY <1>1, AcceptedFacts
  <2>2. HasTemplate(cfg) =>
          LET t == cfg.source.template IN
          /\ cfg.source # None /\ t \in TemplateType /\ t.kind \in Supported
          /\ t.name # "" /\ t.ns # ""
          /\ HasName(cfg.source.secretResource) => HasName(t.secretRef)
    BY <2>1, Parts
       DEF HasTemplate, Decodable, Deployable, SourceNamed, ValidateFluxConfig,
           ValidateSource, ValidateSourceSecretReferences
  <2>3. cfg.kust # None =>
          /\ cfg.kust \in KustomizationType /\ cfg.kust.sourceRef \in RefType
          /\ cfg.kust.ns # "" /\ cfg.kust.sourceRef.kind # ""
          /\ cfg.kust.sourceRef.name # "" /\ cfg.kust.sourceRef.ns # ""
    BY <2>1, Parts DEF KustomizationNamed
  <2>4. RefToSource(cfg) = cfg
    <3>1. ASSUME cfg.kust # None, HasTemplate(cfg)
          PROVE  RefToSource(cfg) = cfg
      <4> DEFINE r == cfg.kust.sourceRef
                 t == cfg.source.template
      <4>1. [kind |-> Or(r.kind, t.kind), name |-> Or(r.name, t.name),
             ns |-> Or(r.ns, t.ns)] = r
        <5>1. r \in RefType /\ r.kind # "" /\ r.name # "" /\ r.ns # ""
          BY <2>3, <3>1
        <5> HIDE DEF r, t
        <5> QED
          BY <5>1, ReferenceSet
      <4>2. [cfg.kust EXCEPT !.sourceRef = r] = cfg.kust
        BY <2>3, <3>1 DEF KustomizationType
      <4>3. RefToSource(cfg) =
              [cfg EXCEPT !.kust = [cfg.kust EXCEPT !.sourceRef =
                 [kind |-> Or(r.kind, t.kind), name |-> Or(r.name, t.name),
                  ns |-> Or(r.ns, t.ns)]]]
        BY <3>1 DEF RefToSource
      <4> QED
        BY <2>1, <4>1, <4>2, <4>3, SameParts
    <3> QED
      BY <3>1 DEF RefToSource
  <2>5. InFluxNamespace(cfg) = cfg
    BY <2>1, <2>2, <2>3, NamespacesSet
  <2>6. DefaultedConfig(cfg) = cfg
    BY <2>4, <2>5 DEF DefaultedConfig
  <2>7. DefaultedInstallation(cfg) = cfg
    <3>1. cfg.fluxNs # "nil"
      BY <2>1, DefaultsTyped DEF NamespaceSet
    <3>2. DefaultedInstallation(cfg) = [cfg EXCEPT !.fluxNs = cfg.fluxNs]
      BY <3>1 DEF DefaultedInstallation
    <3> QED
      BY <2>1, <3>2, SameParts
  <2>8. DefaultedSource(cfg) = cfg
    <3>1. ASSUME HasTemplate(cfg)
          PROVE  DefaultedSource(cfg) = cfg
      <4> DEFINE t == cfg.source.template
      <4>1. DefaultTemplate(t, cfg.source.secretResource) = t
        BY <2>2, <3>1 DEF DefaultTemplate, TemplateType, Or
      <4>2. DefaultedSource(cfg) =
              [cfg EXCEPT !.source.template = DefaultTemplate(t, cfg.source.secretResource)]
        BY <3>1 DEF DefaultedSource
      <4> QED
        BY <2>1, <2>2, <3>1, <4>1, <4>2, SameParts
    <3> QED
      BY <3>1 DEF DefaultedSource
  <2>9. DefaultedKustomization(cfg) = cfg
    <3>1. ASSUME cfg.kust # None
          PROVE  DefaultedKustomization(cfg) = cfg
      <4> DEFINE k == cfg.kust
                 r == k.sourceRef
      <4>1. [kind |-> Or(r.kind, "GitRepository"), name |-> Or(r.name, System),
             ns |-> Or(r.ns, System)] = r
        <5>1. r \in RefType /\ r.kind # "" /\ r.name # "" /\ r.ns # ""
          BY <2>3, <3>1
        <5> HIDE DEF r
        <5> QED
          BY <5>1, ReferenceSet
      <4>2. DefaultKustomization(k) =
              [k EXCEPT !.ns = Or(k.ns, System),
                        !.sourceRef = [kind |-> Or(r.kind, "GitRepository"),
                                       name |-> Or(r.name, System), ns |-> Or(r.ns, System)]]
        BY <2>3, <3>1 DEF DefaultKustomization, KustomizationType
      <4>3. DefaultKustomization(k) = k
        <5>1. Or(k.ns, System) = k.ns
          BY <2>3, <3>1 DEF Or
        <5>2. [k EXCEPT !.ns = k.ns, !.sourceRef = r] = k
          BY <2>3, <3>1 DEF KustomizationType
        <5> QED
          BY <4>1, <4>2, <5>1, <5>2
      <4> QED
        BY <2>1, <3>1, <4>3, SameParts DEF DefaultedKustomization
    <3> QED
      BY <3>1 DEF DefaultedKustomization
  <2> QED
    BY <2>6, <2>7, <2>8, <2>9
<1>2. Inv => DefaultingIsStable
  BY <1>1 DEF DefaultingIsStable
<1> QED
  BY <1>2, InvariantHolds, PTL

(* The secret that the source refers to is the last of the copies.         *)
LEMMA InvResolves == Inv => SecretsResolve
<1> SUFFICES ASSUME Inv, Accepted
             PROVE  LET copies == SecretResources(cfg) IN
                    /\ \A i \in 1 .. Len(copies) : ValidateSecretResource(copies[i].name)
                    /\ cfg.source # None /\ HasName(cfg.source.template.secretRef) =>
                         \E i \in 1 .. Len(copies) :
                           copies[i] = [name |-> cfg.source.secretResource,
                                        target |-> cfg.source.template.secretRef]
  BY DEF SecretsResolve
<1> DEFINE list == cfg.additional
           new == [name |-> cfg.source.secretResource,
                   target |-> cfg.source.template.secretRef]
           copies == SecretResources(cfg)
<1>1. /\ cfg \in InputType /\ ValidateFluxConfig(cfg)
      /\ cfg.source # None => Deployable(cfg) /\ HasTemplate(cfg)
  BY AcceptedFacts
<1>2. list \in Seq(AdditionalType)
  BY <1>1, Parts
<1>3. \A i \in 1 .. Len(list) : ValidateSecretResource(list[i].name)
  BY <1>1 DEF ValidateFluxConfig, ValidateAdditionalSecretResources
<1>4. CASE cfg.source # None /\ HasName(cfg.source.template.secretRef)
  <2>1. HasName(cfg.source.secretResource)
        /\ ValidateSecretResource(cfg.source.secretResource)
    BY <1>1, <1>4 DEF ValidateFluxConfig, ValidateSource, ValidateSourceSecretReferences
  <2>2. copies = Append(list, new)
    BY <1>1, <1>4, <2>1 DEF SecretResources, Deployable, HasName
  <2> DEFINE n == Len(list)
  <2>3. /\ n \in Nat /\ Len(copies) = n + 1 /\ copies[n + 1] = new
        /\ \A i \in 1 .. n : copies[i] = list[i]
    BY <1>2, <2>2
  <2>4. new.name = cfg.source.secretResource
    OBVIOUS
  <2> HIDE DEF copies, new, list, n
  <2>5. \A i \in 1 .. Len(copies) : i \in 1 .. n \/ i = n + 1
    BY <2>3
  <2>6. \A i \in 1 .. Len(copies) : ValidateSecretResource(copies[i].name)
    BY <1>3, <2>1, <2>3, <2>4, <2>5 DEF n
  <2>7. n + 1 \in 1 .. Len(copies)
    BY <2>3
  <2> QED
    BY <2>3, <2>6, <2>7 DEF copies, new
<1>5. CASE ~(cfg.source # None /\ HasName(cfg.source.template.secretRef))
  <2>1. copies = list
    BY <1>5 DEF SecretResources, HasTemplate
  <2> HIDE DEF list
  <2> QED
    BY <1>3, <1>5, <2>1
<1> QED
  BY <1>4, <1>5

(* Validation admits what ReconcileSecrets finds among the resources.      *)
THEOREM CopiesResolve == Spec => []SecretsResolve
BY InvResolves, InvariantHolds, PTL

(* With a namespace left open an object finds what the actuator provides   *)
(* for it; the documented namespace is taken unless Flux has another one.  *)
THEOREM DataIsWithinReach == Spec => []DataWithinReach
<1>1. ASSUME Inv PROVE DataWithinReach
  <2> DEFINE t == cfg.source.template
             openSource == input.source.template.ns = ""
             openKust == input.kust.ns = ""
  <2> SUFFICES ASSUME Accepted, input # None, input.source # None
               PROVE  /\ HasName(cfg.fluxNs) =>
                           /\ openSource /\ HasName(t.secretRef) =>
                                <<t.ns, t.secretRef>> \in CopiesAt(cfg)
                           /\ openKust => <<cfg.kust.ns, "shoot-info">> = ShootInfoAt(cfg)
                      /\ ~HasName(input.fluxNs) =>
                           /\ openSource => t.ns = System
                           /\ openKust => cfg.kust.ns = System
    BY DEF DataWithinReach
  <2>1. Base = input
    BY DEF Base
  <2>2. /\ Extends(Base, cfg) /\ PlacedNextTo(Base, cfg) /\ SourceNamed(cfg)
        /\ KustomizationNamed(cfg) /\ NamespaceSet(Base, cfg)
        /\ cfg.source = None <=> cfg.kust = None
        /\ cfg.source # None => Deployable(cfg) /\ Deployable(Base)
    BY <1>1, AcceptedFacts
  <2>3. cfg.source # None /\ cfg.kust # None /\ input.kust # None
    BY <2>1, <2>2 DEF Extends, SameRest
  <2>4. /\ openSource => t.ns = FluxNs(cfg)
        /\ openKust => cfg.kust.ns = FluxNs(cfg)
    BY <2>1, <2>2, <2>3 DEF PlacedNextTo, SourceNamed, KustomizationNamed, Or
  <2>5. ASSUME HasName(t.secretRef)
        PROVE  <<cfg.fluxNs, t.secretRef>> \in CopiesAt(cfg)
    <3> DEFINE copies == SecretResources(cfg)
    <3>1. PICK i \in 1 .. Len(copies) :
            copies[i] = [name |-> cfg.source.secretResource, target |-> t.secretRef]
      BY <1>1, <2>3, <2>5, InvResolves DEF SecretsResolve
    <3>2. copies[i].target = t.secretRef
      BY <3>1
    <3>3. t.secretRef # "nil"
      BY <2>5 DEF HasName
    <3>4. CopiesAt(cfg) = {<<cfg.fluxNs, copies[j].target>> :
                             j \in {m \in 1 .. Len(copies) : copies[m].target # "nil"}}
      BY DEF CopiesAt
    <3> HIDE DEF copies
    <3>5. i \in {m \in 1 .. Len(copies) : copies[m].target # "nil"}
      BY <3>1, <3>2, <3>3
    <3> QED
      BY <3>2, <3>4, <3>5
  <2>6. ~HasName(input.fluxNs) => FluxNs(cfg) = System
    BY <2>1, <2>2, DefaultsTyped DEF NamespaceSet, FluxNs, HasName
  <2> QED
    BY <2>4, <2>5, <2>6 DEF FluxNs, ShootInfoAt
<1> QED
  BY <1>1, InvariantHolds, PTL

(* The components that validation insists on are installed.                *)
THEOREM InstallsComponents == Spec => []ComponentsComplete
<1>1. ASSUME Inv PROVE ComponentsComplete
  BY <1>1 DEF Inv, ComponentsComplete, Accepted, ValidateFluxConfig,
     ValidateFluxInstallation, InstalledComponents
<1> QED
  BY <1>1, InvariantHolds, PTL

=============================================================================
