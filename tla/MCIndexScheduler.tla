------------------------- MODULE MCIndexScheduler -------------------------
(* Small schedulers for TLC. *)
EXTENDS IndexScheduler, TLC

Symmetry == Permutations(Worker) \cup Permutations(Repo)
=============================================================================
