---------------------------- MODULE MCFluxConfig ----------------------------
(* Small instances of FluxConfig for TLC: families of providerConfigs, each  *)
(* varying what one part of the pipeline looks at.                           *)
EXTENDS FluxConfig, TLC

MCResourceKind == ("cred" :> "Secret") @@ ("cm" :> "ConfigMap")

Template(kind, complete, name, ns, secretRef) ==
  [kind |-> kind, complete |-> complete, name |-> name, ns |-> ns,
   secretRef |-> secretRef]
Source(template, secretResource) ==
  [template |-> template, secretResource |-> secretResource]
Kustomization(complete, ns, kind, name, refNs) ==
  [complete |-> complete, ns |-> ns,
   sourceRef |-> [kind |-> kind, name |-> name, ns |-> refNs]]
Config(fluxNs, source, kust) ==
  [EmptyConfig EXCEPT !.fluxNs = fluxNs, !.source = source, !.kust = kust]

FluxNamespaces == {"nil", "", "x", "Bad"}
OpenKustomization == Kustomization(TRUE, "", "", "", "")

(* Names, namespaces and references.                                         *)
Placed ==
  {Config(f, Source(Template(k, TRUE, n, ns, "nil"), "nil"),
          Kustomization(TRUE, kns, rk, rn, rns)) :
     f \in FluxNamespaces, k \in Kinds, n \in {"", "a"}, ns \in {"", "y"},
     kns \in {"", "z"}, rk \in {"", "GitRepository"}, rn \in {"", "b"},
     rns \in {"", "y", "z"}}

(* Credentials, and incomplete templates.                                    *)
Credentials ==
  {Config(f, Source(Template(k, ok, "", "", sr), res), OpenKustomization) :
     f \in {"nil", "x"}, k \in Supported, ok \in BOOLEAN,
     sr \in {"nil", "", "s", System},
     res \in {"nil", "", "cred", "cm", "missing"}}

(* Sections and templates that are missing.                                  *)
Partial ==
  {Config(f, s, k) :
     f \in FluxNamespaces,
     s \in {None, Source(None, "nil")}
             \union {Source(Template(kind, TRUE, "", "", "nil"), "nil") : kind \in Kinds},
     k \in {None, OpenKustomization, Kustomization(FALSE, "", "", "", "")}}

Names == Required \union {"helm-controller"}
Components ==
  {[EmptyConfig EXCEPT !.components = c, !.extra = e] :
     c \in SUBSET Names, e \in SUBSET Names}

(* Target names: unset, valid, and one that is not valid.                    *)
Copies == {[name |-> n, target |-> t] :
             n \in {"cred", "cm", "missing"}, t \in {"nil", "s", "Bad"}}
Additional ==
  {[EmptyConfig EXCEPT !.additional = a] :
     a \in {<<c>> : c \in Copies} \union {<<c, d>> : c, d \in Copies}}

MCInputs == Placed \union Credentials \union Partial \union Components \union Additional
(* Flux in its default, an unnamed, and another namespace; no other is set.  *)
MCNamespaces ==
  {Config(f, Source(Template("GitRepository", TRUE, "", "", "nil"), "nil"),
          OpenKustomization) : f \in {"nil", "", "x"}}
=============================================================================
