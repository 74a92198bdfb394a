--------------------------- MODULE MCWithdrawals ---------------------------
(* Small instances of Withdrawals for TLC. *)
EXTENDS Withdrawals
=============================================================================
