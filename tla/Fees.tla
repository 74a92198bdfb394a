-------------------------------- MODULE Fees --------------------------------
(* Withdrawal fees: the schedule of withdrawal-fees.ts, which the API       *)
(* charges by, and the Withdrawals page of the dashboard, which works out   *)
(* from the schedule and the balance it has loaded what an amount would     *)
(* cost and the largest amount that can be withdrawn.  What becomes of a    *)
(* request is module Withdrawals.                                           *)
EXTENDS Integers, Sequences, FiniteSets

CONSTANTS FloorUgx, CeilingUgx,   \* SSENTEZO_MIN_UGX and SSENTEZO_MAX_UGX
          MinBand,                \* the smallest bandSizeUgx
          Schedules,              \* the schedules super admins may try to save
          Balances,               \* what may be available
          MaxSaves

ASSUME FeesAssumption ==
    /\ {FloorUgx, CeilingUgx} \subseteq Nat /\ MinBand \in Nat \ {0} /\ MaxSaves \in Nat
    /\ Schedules \subseteq [min : Nat, max : Nat, band : Nat, base : Nat, step : Nat]
    /\ Balances \subseteq Nat

VARIABLES schedule,    \* the API's
          available,   \* the balance, at the API
          page,        \* what the page has loaded: [schedule, available]
          lo, hi,      \* its search for the largest amount
          saves
feesVars == <<schedule, available, page, lo, hi, saves>>

-----------------------------------------------------------------------------
\* withdrawal-fees.ts.  Too is the error of an amount out of range.

Too == -1
Ceil(a, b) == (a + b - 1) \div b
Above(a, b) == IF a > b THEN a ELSE b

ValidSchedule(s) ==
    /\ s.min >= FloorUgx /\ s.max <= CeilingUgx /\ s.min <= s.max /\ s.band >= MinBand

\* Mutant: an amount at the end of a band pays the next band's fee.
FeeFromFloor(amount, s) ==
    IF amount < s.min \/ amount > s.max THEN Too ELSE s.base + (amount \div s.band) * s.step

WithdrawalFee(amount, s) ==
    IF amount < s.min \/ amount > s.max THEN Too
    ELSE s.base + Above(0, Ceil(amount, s.band) - 1) * s.step

\* Row n of feeTiers, counted from band 0; rows that are empty are left out.
\* (Only the first rows are shown.)
TierFrom(n, s) == IF n = 0 THEN s.min ELSE n * s.band + 1
TierTo(n, s) == IF (n + 1) * s.band < s.max THEN (n + 1) * s.band ELSE s.max
FeeTiers(s) ==
    {[from |-> TierFrom(n, s), to |-> TierTo(n, s), fee |-> s.base + n * s.step] :
        n \in {m \in 0..s.max : TierFrom(m, s) <= TierTo(m, s)}}

-----------------------------------------------------------------------------
\* Withdrawals.tsx

\* "Same formula as the API", which an amount of zero never reaches.
FeeFor(amount, s) ==
    IF amount <= 0 \/ amount < s.min \/ amount > s.max THEN Too
    ELSE s.base + Above(0, Ceil(amount, s.band) - 1) * s.step

Fits(amount, p) ==
    /\ FeeFor(amount, p.schedule) # Too
    /\ amount + FeeFor(amount, p.schedule) <= p.available

\* load: balance and schedule are read; the search starts over.
StartSearch(p) ==
    /\ page' = p /\ lo' = 0
    /\ hi' = IF p.available < p.schedule.max THEN p.available ELSE p.schedule.max
LoadPage ==
    /\ StartSearch([schedule |-> schedule, available |-> available])
    /\ UNCHANGED <<schedule, available, saves>>

\* One round of the loop; on the page nothing else happens until it is over.
SearchStep ==
    LET mid == Ceil(lo + hi, 2) IN
    /\ lo < hi
    /\ IF Fits(mid, page) THEN lo' = mid /\ UNCHANGED hi ELSE hi' = mid - 1 /\ UNCHANGED lo
    /\ UNCHANGED <<schedule, available, page, saves>>

MaxWithdrawable == IF lo >= page.schedule.min THEN lo ELSE 0

\* saveFees, by a super admin, here on this page or on another one.
SaveFees(s, here) ==
    /\ saves < MaxSaves /\ saves' = saves + 1
    /\ ValidSchedule(s) /\ schedule' = s
    /\ IF here THEN StartSearch([page EXCEPT !.schedule = s]) ELSE UNCHANGED <<page, lo, hi>>
    /\ UNCHANGED available

\* Sales and withdrawals move the balance.
BalanceTurns ==
    /\ available' \in Balances \ {available}
    /\ UNCHANGED <<schedule, page, lo, hi, saves>>

FeesInit ==
    /\ schedule \in {s \in Schedules : ValidSchedule(s)} /\ available \in Balances
    /\ page = [schedule |-> schedule, available |-> available]
    /\ lo = 0 /\ hi = IF available < schedule.max THEN available ELSE schedule.max
    /\ saves = 0
FeesNext ==
    \/ LoadPage \/ SearchStep \/ BalanceTurns
    \/ \E s \in Schedules, here \in BOOLEAN : SaveFees(s, here)
FeesSpec == FeesInit /\ [][FeesNext]_feesVars
-----------------------------------------------------------------------------
FeesTypeOK ==
    /\ schedule \in Schedules /\ available \in Balances
    /\ page \in [schedule : Schedules, available : Balances]
    /\ {lo, hi} \subseteq Nat /\ saves \in 0..MaxSaves

\* Whatever the search offers, after any number of its steps, is an amount the
\* API accepts under the schedule the page has loaded, and together with the
\* fee the API charges it fits the balance the page has loaded.
OfferFits ==
    MaxWithdrawable # 0 =>
      /\ WithdrawalFee(MaxWithdrawable, page.schedule) # Too
      /\ MaxWithdrawable + WithdrawalFee(MaxWithdrawable, page.schedule) <= page.available

\* The table of tiers the page shows and the fee that is charged agree on every
\* amount that the table names and a schedule whose first band reaches above
\* its minimum.
TiersTellTheFee ==
    schedule.min <= schedule.band =>
      \A a \in 0..schedule.max + 1 :
        {t.fee : t \in {u \in FeeTiers(schedule) : u.from <= a /\ a <= u.to}}
          = {WithdrawalFee(a, schedule)} \ {Too}
=============================================================================
