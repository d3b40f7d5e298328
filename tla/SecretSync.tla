----------------------------- MODULE SecretSync -----------------------------
(***************************************************************************)
(* What a pass over the secrets of a shoot promises, without the calls it  *)
(* is made of: it writes wanted secrets only, deletes unwanted ones only,  *)
(* and deletes nothing before every wanted one has been written.  Others   *)
(* may change any secret at any time; what they changed since the pass     *)
(* began is kept apart.                                                    *)
(***************************************************************************)
CONSTANTS
  Slots,     \* places for secrets in the shoot
  Contents,  \* secrets
  None       \* no secret

VARIABLES
  phase,     \* "idle", "copying" or "cleaning"
  wanted,    \* the slots that the pass is to fill
  filled,    \* those it has filled
  foreign,   \* slots that others have changed since it began
  shoot      \* Slots -> the secret there, or None

vars == <<phase, wanted, filled, foreign, shoot>>

Init ==
  /\ phase = "idle"
  /\ wanted = {} /\ filled = {} /\ foreign = {}
  /\ shoot = [x \in Slots |-> None]

Begin ==
  /\ phase = "idle"
  /\ phase' = "copying"
  /\ wanted' \in SUBSET Slots
  /\ filled' = {} /\ foreign' = {}
  /\ UNCHANGED shoot

(* The pass writes a wanted secret, or leaves one that it has found there; *)
(* then only somebody else can have removed it meanwhile.                  *)
Fill ==
  /\ phase = "copying"
  /\ \E x \in wanted :
       /\ \/ \E s \in Contents : shoot' = [shoot EXCEPT ![x] = s]
          \/ x \in foreign /\ UNCHANGED shoot
       /\ filled' = filled \union {x}
  /\ UNCHANGED <<phase, wanted, foreign>>

StartCleaning ==
  /\ phase = "copying"
  /\ filled = wanted
  /\ phase' = "cleaning"
  /\ UNCHANGED <<wanted, filled, foreign, shoot>>

Delete ==
  /\ phase = "cleaning"
  /\ \E x \in Slots \ wanted : shoot' = [shoot EXCEPT ![x] = None]
  /\ UNCHANGED <<phase, wanted, filled, foreign>>

End ==
  /\ phase # "idle"
  /\ phase' = "idle"
  /\ wanted' = {} /\ filled' = {} /\ foreign' = {}
  /\ UNCHANGED shoot

Others ==
  /\ \E x \in Slots, s \in Contents \union {None} :
       /\ shoot' = [shoot EXCEPT ![x] = s]
       /\ foreign' = IF phase = "idle" THEN {} ELSE foreign \union {x}
  /\ UNCHANGED <<phase, wanted, filled>>

Next == Begin \/ Fill \/ StartCleaning \/ Delete \/ End \/ Others

Spec == Init /\ [][Next]_vars

-----------------------------------------------------------------------------
(* While a pass cleans up, every secret it is to provide is there, unless    *)
(* somebody else has changed it since the pass began.                        *)
NothingMissing ==
  phase = "cleaning" =>
    \A x \in wanted : shoot[x] # None \/ x \in foreign

=============================================================================
