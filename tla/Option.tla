------------------------------- MODULE Option -------------------------------
(* A value that may be missing: null, undefined or an absent map entry.     *)
CONSTANT None

Maybe(S) == S \cup {None}
=============================================================================
