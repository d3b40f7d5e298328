-------------------------- MODULE SecretSync_proofs --------------------------
(***************************************************************************)
(* What the abstract pass of SecretSync promises follows from its steps    *)
(* alone: every implementation keeps it, however many calls it makes.      *)
(***************************************************************************)
EXTENDS SecretSync, TLAPS

(* The pass fills wanted slots, and a slot that it has filled holds a      *)
(* secret until somebody else changes it.                                  *)
Inv ==
  /\ phase \in {"idle", "copying", "cleaning"}
  /\ wanted \subseteq Slots /\ filled \subseteq wanted
  /\ shoot \in [Slots -> Contents \union {None}]
  /\ phase = "idle" => filled = {}
  /\ phase = "cleaning" => filled = wanted
  /\ \A x \in filled : shoot[x] # None \/ x \in foreign

LEMMA FillStep ==
  ASSUME None \notin Contents, Inv, Fill
  PROVE  Inv'
<1>1. PICK x \in wanted :
        /\ \/ \E s \in Contents : shoot' = [shoot EXCEPT ![x] = s]
           \/ x \in foreign /\ UNCHANGED shoot
        /\ filled' = filled \union {x}
  BY DEF Fill
<1>2. UNCHANGED <<phase, wanted, foreign>> /\ phase = "copying" /\ x \in Slots
  BY DEF Fill, Inv
<1>3. /\ shoot' \in [Slots -> Contents \union {None}]
      /\ shoot'[x] # None \/ x \in foreign
      /\ \A y \in Slots \ {x} : shoot'[y] = shoot[y]
  BY <1>1, <1>2 DEF Inv
<1> QED
  BY <1>1, <1>2, <1>3 DEF Inv

LEMMA OthersStep ==
  ASSUME Inv, Others
  PROVE  Inv'
<1>1. PICK x \in Slots, s \in Contents \union {None} :
        /\ shoot' = [shoot EXCEPT ![x] = s]
        /\ foreign' = IF phase = "idle" THEN {} ELSE foreign \union {x}
  BY DEF Others
<1>2. UNCHANGED <<phase, wanted, filled>>
  BY DEF Others
<1>3. /\ shoot' \in [Slots -> Contents \union {None}]
      /\ \A y \in Slots \ {x} : shoot'[y] = shoot[y]
  BY <1>1 DEF Inv
<1> QED
  BY <1>1, <1>2, <1>3 DEF Inv

(* While a pass cleans up, no secret that it is to provide is missing,     *)
(* unless somebody else has changed it since the pass began.               *)
THEOREM CleansUpWhenFilled ==
  ASSUME None \notin Contents
  PROVE  Spec => []NothingMissing
<1>1. Init => Inv
  BY DEF Init, Inv
<1>2. Inv /\ [Next]_vars => Inv'
  <2> SUFFICES ASSUME Inv, [Next]_vars PROVE Inv'
    OBVIOUS
  <2>1. CASE Begin
    BY <2>1 DEF Begin, Inv
  <2>2. CASE Fill
    BY <2>2, FillStep
  <2>3. CASE StartCleaning
    BY <2>3 DEF StartCleaning, Inv
  <2>4. CASE Delete
    <3>1. PICK x \in Slots \ wanted : shoot' = [shoot EXCEPT ![x] = None]
      BY <2>4 DEF Delete
    <3>2. UNCHANGED <<phase, wanted, filled, foreign>>
      BY <2>4 DEF Delete
    <3>3. /\ shoot' \in [Slots -> Contents \union {None}]
          /\ \A y \in filled : shoot'[y] = shoot[y]
      BY <3>1 DEF Inv
    <3> QED
      BY <3>2, <3>3 DEF Inv
  <2>5. CASE End
    BY <2>5 DEF End, Inv
  <2>6. CASE Others
    BY <2>6, OthersStep
  <2>7. CASE UNCHANGED vars
    BY <2>7 DEF vars, Inv
  <2> QED
    BY <2>1, <2>2, <2>3, <2>4, <2>5, <2>6, <2>7 DEF Next
<1>3. Inv => NothingMissing
  BY DEF Inv, NothingMissing
<1> QED
  BY <1>1, <1>2, <1>3, PTL DEF Spec

=============================================================================
