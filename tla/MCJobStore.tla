----------------------------- MODULE MCJobStore -----------------------------
(* The store for TLC: tasks and dossiers are interchangeable; the bounds are  *)
(* explained in the README.                                                   *)
EXTENDS JobStore, TLC

LifeSymmetry  == Permutations(Tasks) \cup Permutations(Dossiers)
=============================================================================
