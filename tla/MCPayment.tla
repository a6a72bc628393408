----------------------------- MODULE MCPayment -----------------------------
(* Instances of Payment for TLC. *)
EXTENDS Payment, TLC

CONSTANTS w1, w2

MCWorkers == {w1, w2}

\* The workers are interchangeable.
Symmetry == Permutations(MCWorkers)
=============================================================================
