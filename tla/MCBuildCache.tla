------------------------------ MODULE MCBuildCache ------------------------------
(* The instance TLC checks: compilers and versions are model values.       *)
EXTENDS BuildCache, TLC

Symmetry == Permutations(Compiler) \cup Permutations(Version)
=============================================================================
