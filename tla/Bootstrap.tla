----------------------------- MODULE Bootstrap ------------------------------
(***************************************************************************)
(* What the Extension controller promises the user of a shoot, without the *)
(* means: the extension deploys Flux resources while it bootstraps, hands  *)
(* them over once a whole config is deployed, and does not write them      *)
(* while it merely manages the shoot.  A resource that the user has        *)
(* changed is the user's until the extension, bootstrapping, deploys it    *)
(* again.                                                                  *)
(***************************************************************************)
CONSTANTS
  Kinds, Slots,   \* sections of a config, places they can be deployed at
  Specs, Configs, \* desired states, configs (records of functions spec, ns)
  None,           \* nothing is deployed in the slot
  Foreign         \* the user changed the slot last

VARIABLES
  phase,     \* "off", "bootstrapping" or "managed"
  deployed   \* for each slot the spec the extension deployed, None or Foreign

vars == <<phase, deployed>>

Complete(c) ==
  \A k \in Kinds : c.spec[k] # None =>
    deployed[<<k, c.ns[k]>>] \in {c.spec[k], Foreign}

Init ==
  /\ phase = "bootstrapping"
  /\ deployed = [x \in Slots |-> None]

Deploy ==
  /\ phase = "bootstrapping"
  /\ \E x \in Slots, s \in Specs : deployed' = [deployed EXCEPT ![x] = s]
  /\ UNCHANGED phase

(* The user takes over any number of resources, in any phase. *)
TakeOver ==
  /\ \E X \in SUBSET Slots :
        deployed' = [x \in Slots |-> IF x \in X THEN Foreign ELSE deployed[x]]
  /\ UNCHANGED phase

HandOver ==
  /\ phase = "bootstrapping"
  /\ \E c \in Configs : Complete(c)
  /\ phase' = "managed"
  /\ UNCHANGED deployed

(* The Extension is removed; what is deployed stays in the shoot. *)
Remove ==
  /\ phase # "off"
  /\ phase' = "off"
  /\ UNCHANGED deployed

Enable ==
  /\ phase = "off"
  /\ phase' = "bootstrapping"
  /\ UNCHANGED deployed

Next == Deploy \/ TakeOver \/ HandOver \/ Remove \/ Enable

Spec == Init /\ [][Next]_vars

=============================================================================
