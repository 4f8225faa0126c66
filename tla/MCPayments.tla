----------------------------- MODULE MCPayments -----------------------------
(* Payments on small instances: workers are interchangeable. *)
EXTENDS Payments, TLC

Symmetry == Permutations(Worker)
=============================================================================
