--------------------------- MODULE MCFluxActuator ---------------------------
(* Small instances of FluxActuator for TLC.                                  *)
EXTENDS FluxActuator, TLC

CONSTANTS n1, n2,   \* namespaces
          a, b,     \* specs, with and without credentials for a source
          cred      \* a credentials secret

Config(flux, source, kust, nsFlux, nsSource) ==
  [spec |-> [flux |-> flux, source |-> source, kust |-> kust],
   ns   |-> [flux |-> nsFlux, source |-> nsSource, kust |-> nsSource]]

MCSecretRef == (a :> cred) @@ (b :> None)

(* A private source in one namespace; the same with a changed public source; *)
(* Flux alone in another namespace; and a source without Kustomization,      *)
(* which validation refuses.                                                 *)
private == Config(a, a, a, n1, n1)
public  == Config(a, b, a, n1, n1)
bare    == Config(b, None, None, n2, n2)
broken  == Config(a, a, None, n1, n1)
(* The source lives in a namespace of its own.                               *)
apart   == Config(a, a, a, n1, n2)

MCConfigs == {private, public, bare}
MCAllConfigs == MCConfigs \union {broken}
MCOne == {private}
MCApart == {apart, public}
=============================================================================
