------------------------------- MODULE Payout -------------------------------
(***************************************************************************)
(* What the withdrawals promise, whatever handlers, polls, webhooks,       *)
(* crashes and lost answers do in between: a payout is held against the    *)
(* money earned before it can be paid, it ends paid or released and never  *)
(* both, and what is held or paid never exceeds what was earned.           *)
(***************************************************************************)
EXTENDS Coins

CONSTANTS Withdrawal, Amount
VARIABLES earned, total, money

vars == <<earned, total, money>>

Committed == {w \in Withdrawal : money[w] \in {"held", "paid"}}

Init ==
    /\ earned \in Nat
    /\ total = [w \in Withdrawal |-> 0]
    /\ money = [w \in Withdrawal |-> "none"]

Earn ==
    /\ earned' \in Nat /\ earned' > earned
    /\ UNCHANGED <<total, money>>

Hold(w) ==
    /\ money[w] = "none"
    /\ \E t \in Amount :
        /\ total' = [total EXCEPT ![w] = t]
        /\ SumOf(Committed, total) + t <= earned
    /\ money' = [money EXCEPT ![w] = "held"]
    /\ UNCHANGED earned

Pay(w) ==
    /\ money[w] = "held"
    /\ money' = [money EXCEPT ![w] = "paid"]
    /\ UNCHANGED <<earned, total>>

Release(w) ==
    /\ money[w] = "held"
    /\ money' = [money EXCEPT ![w] = "released"]
    /\ UNCHANGED <<earned, total>>

Next == Earn \/ \E w \in Withdrawal : Hold(w) \/ Pay(w) \/ Release(w)

Spec == Init /\ [][Next]_vars
=============================================================================
