------------------------------ MODULE MCNcMap ------------------------------
(* Model values for checking NcMap with TLC.                               *)
EXTENDS NcMap, TLC

CONSTANTS k1, k2, k3, k4

(* Three keys collide in a table of four; k4 wraps around its end, and k1  *)
(* and k3 part when the table grows to eight.                              *)
MCHash == [k \in Key |-> IF k = k3 THEN 4 ELSE IF k = k4 THEN 3 ELSE 0]

(* Variables are interchangeable, and so are two keys with the same hash.  *)
Symmetry == Permutations(Var) \cup Permutations({k1, k2} \cap Key)
=============================================================================
