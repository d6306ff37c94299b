----------------------------- MODULE MCGcRoots -----------------------------
(* Model values for checking GcRoots with TLC.                             *)
EXTENDS GcRoots, TLC

(* Blocks are interchangeable, and so are green threads.                   *)
Symmetry == Permutations(Block) \cup Permutations(GT)
=============================================================================
