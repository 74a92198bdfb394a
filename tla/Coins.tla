------------------------------- MODULE Coins -------------------------------
(***************************************************************************)
(* Sums of whole amounts, UGX or bytes, over a set of rows.  A sum is      *)
(* counted coin by coin, as the cardinality of a set, so that the          *)
(* finite-set theorems of the library apply to it.                         *)
(***************************************************************************)
EXTENDS Integers, FiniteSets

\* One pair for each coin of amount[w], for the w in S.
Coins(S, amount) == UNION {{w} \X (1..amount[w]) : w \in S}

\* SUM(amount) over the rows of S.
SumOf(S, amount) == Cardinality(Coins(S, amount))
=============================================================================
