------------------------------ MODULE MCStatus ------------------------------
(* Status for TLC: interchangeable origins, and a message that does not    *)
(* fit but begins as another does.                                         *)
EXTENDS Status

SomeMessages == {"short", "other", "long"}
CutLong == [m \in SomeMessages |-> IF m = "long" THEN "short" ELSE m]

Symmetry == Permutations(Modules)
=============================================================================
