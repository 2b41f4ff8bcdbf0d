---------------------------- MODULE MCWorkerPool ----------------------------
(***************************************************************************)
(* Small instances of WorkerPool for TLC.                                  *)
(***************************************************************************)
EXTENDS WorkerPool, TLC

CONSTANTS w1, w2, c1, c2, t1, t2, t3

MCSymmetry == Permutations(Workers) \cup Permutations(Callers) \cup Permutations(Tasks)

=============================================================================
