------------------------- MODULE MCReconcileSecrets -------------------------
(* Small instances of ReconcileSecrets for TLC.                              *)
EXTENDS ReconcileSecrets, TLC

CONSTANTS n1, n2,      \* namespaces
          plain, other \* names: of the secret referred to, and a target name

Ref(r, t) == [resource |-> r, target |-> t]
Config(ns, additional, source) ==
  [ns |-> ns, additional |-> additional, source |-> source]

MCRefName == [r \in Resources |-> plain]
res == CHOOSE r \in Resources : TRUE

(* One additional secret under its own name and the source's under another *)
(* one; the source's alone; none at all; an additional secret moved to the *)
(* other name; a source without secretRef.                                 *)
both    == Config(n1, <<Ref(res, None)>>, Ref(res, other))
source  == Config(n1, <<>>, Ref(res, plain))
nothing == Config(n1, <<>>, None)
moved   == Config(n1, <<Ref(res, other)>>, Ref(res, None))

MCConfigs == {both, source, nothing, moved}
MCSimple == {Config(n1, <<Ref(res, None)>>, None)}
(* Flux moves to another namespace. *)
MCTwoNamespaces == {Config(n, <<Ref(res, None)>>, None) : n \in {n1, n2}}
=============================================================================
