----------------------------- MODULE MCShootInfo -----------------------------
(* A small instance of ShootInfo for TLC: two replicas, and a Deployment     *)
(* that is changed to another garden identity.                               *)
EXTENDS ShootInfo

CONSTANTS given1, given2, preset  \* values of settings

MCDefaultValue ==
  [s \in Settings |-> IF s = "ignoreOperationAnnotation" THEN Zero ELSE preset]

Line(garden, ignore) ==
  [s \in Settings |->
     CASE s = "gardenClusterIdentity" -> garden
       [] s = "ignoreOperationAnnotation" -> ignore
       [] OTHER -> NotGiven]

(* The flag of the garden identity is left to its default, or given; the    *)
(* chart gives the annotation flag always.                                 *)
MCCommandLines == {Line(NotGiven, NotGiven), Line(given1, NotGiven)}
MCChartCommandLines == {Line(given1, given2)}
=============================================================================
