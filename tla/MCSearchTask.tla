----------------------------- MODULE MCSearchTask -----------------------------
(* SearchTask for TLC: tasks and addresses are interchangeable.             *)
EXTENDS SearchTask, TLC

Symmetry == Permutations(Tasks) \cup Permutations(Addrs)
=============================================================================
