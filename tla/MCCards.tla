------------------------------ MODULE MCCards ------------------------------
(* The cards of a small center, for TLC. *)
EXTENDS Cards, TLC

Symmetry == Permutations(Worker) \cup Permutations(Student)
=============================================================================
