------------------------------ MODULE MCWatch -------------------------------
(* Instances of Watch for TLC: one object of each of two resources for the  *)
(* safety properties, one object of one resource for the liveness ones.    *)
EXTENDS Watch

TwoResources == {"machines", "clusters"}
TwoObjects == {"m", "c"}
TwoResourceOf == [o \in TwoObjects |-> IF o = "m" THEN "machines" ELSE "clusters"]
TwoVersions == [o \in TwoObjects |-> IF o = "m" THEN 2 ELSE 1]

OneResource == {"machines"}
OneObject == {"m"}
OneResourceOf == [o \in OneObject |-> "machines"]
ThreeVersions == [o \in OneObject |-> 3]
=============================================================================
