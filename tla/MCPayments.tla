---------------------------- MODULE MCPayments ----------------------------
(* Small instances of Payments for TLC. *)
EXTENDS Payments, TLC

\* Payments, and webhook handlers, are interchangeable.
Symmetry == Permutations(Payment) \cup Permutations(Hook)
=============================================================================
