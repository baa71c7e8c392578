----------------------------- MODULE MCInitRepo -----------------------------
(* Small instances of InitRepo: the processes are interchangeable.           *)
EXTENDS InitRepo, TLC

Symmetry == Permutations(Procs)
=============================================================================
