---------------------------- MODULE MCWorkerPool ----------------------------
(* Model values for checking WorkerPool with TLC.                          *)
EXTENDS WorkerPool, TLC

(* Green threads and mutexes are interchangeable.  Workers are not: join   *)
(* goes by index.                                                          *)
Symmetry == Permutations(GT) \cup Permutations(Mutex)
=============================================================================
