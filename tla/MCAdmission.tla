---------------------------- MODULE MCAdmission ----------------------------
(* Small instances of Admission for TLC. *)
EXTENDS Admission, TLC

\* Devices, and the API's calls, are interchangeable.
Symmetry == Permutations(Mac) \cup Permutations(Call)
=============================================================================
