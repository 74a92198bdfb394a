-------------------------------- MODULE Books --------------------------------
(* The books: earnings.service.ts, which finds every sale and groups the    *)
(* last days', and ledger.service.ts, which adds the entries admins make by *)
(* hand and the fees of withdrawals.  A day is a calendar day in the local  *)
(* time zone, which begins Offset before the UTC day of the same date; what *)
(* is asked of the database is cut at instants, and both services ask for a *)
(* day more than they need and sort by local day afterwards.  Amounts stay  *)
(* with the records: totals are sums over the sets given here.              *)
EXTENDS Integers, FiniteSets, Option

CONSTANTS Bought, Printed, Payout, Entry,  \* payments, printed vouchers, withdrawals, ledger entries
          DayLen, Offset,                  \* in the same unit; Offset < DayLen
          FewestDays,                      \* of an earnings summary: 7
          FirstNow, MaxNow                    \* instants

VARIABLES now,
          bought,     \* payments: [status, created, completed], or None
          activated,  \* when each voucher was first redeemed, or None; one is issued per payment
          paidOut,    \* when each withdrawal was completed, or None
          ledger,      \* ledger entries: [day, deleted], or None
          editing     \* entries whose update has read them
booksVars == <<now, bought, activated, paidOut, ledger, editing>>

Instant == 0..MaxNow
LocalDay(t) == (t + Offset) \div DayLen
Today == LocalDay(now)

-----------------------------------------------------------------------------
\* sales: payments that succeeded, and printed vouchers when first redeemed.
\* A voucher issued for a payment counts as the payment only.
NoPayment(v) == v \in Printed
Sold(what, at) == [what |-> what, at |-> at]
Sales(since) ==
    {Sold(p, IF bought[p].completed = None THEN bought[p].created ELSE bought[p].completed) :
        p \in {q \in Bought : /\ bought[q] # None /\ bought[q].status = "SUCCESS"
                              /\ IF bought[q].completed = None THEN bought[q].created >= since
                                 ELSE bought[q].completed >= since}}
    \cup {Sold(v, activated[v]) : v \in {w \in DOMAIN activated : NoPayment(w) /\ activated[w] # None /\ activated[w] >= since}}

\* earnings.summary over the last days, and todayUgx.
Days(asked) == IF asked < FewestDays THEN FewestDays ELSE asked
Earnings(asked) ==
    {s \in Sales(now - (Days(asked) + 1) * DayLen) :
        LocalDay(s.at) > Today - Days(asked) /\ LocalDay(s.at) <= Today}
TodaysSales == {s \in Sales(now - 2 * DayLen) : LocalDay(s.at) = Today}

\* Mutant: no day more than needed is asked for.
SalesFromMidnight(from, to) ==
    {s \in Sales(from * DayLen) : from <= LocalDay(s.at) /\ LocalDay(s.at) <= to}

\* ledger.summary from one day to another: the dates are read as UTC midnights.
SalesIncome(from, to) == {s \in Sales(from * DayLen - DayLen) : from <= LocalDay(s.at) /\ LocalDay(s.at) <= to}
Fees(from, to) ==
    {w \in Payout : /\ paidOut[w] # None /\ paidOut[w] >= from * DayLen - DayLen
                    /\ from <= LocalDay(paidOut[w]) /\ LocalDay(paidOut[w]) <= to}
Entries(from, to) ==
    {e \in Entry : ledger[e] # None /\ ~ledger[e].deleted /\ from <= ledger[e].day /\ ledger[e].day <= to}

-----------------------------------------------------------------------------
BooksInit ==
    /\ now = FirstNow
    /\ bought = [p \in Bought |-> None] /\ activated = [v \in Bought \cup Printed |-> None]
    /\ paidOut = [w \in Payout |-> None]
    /\ ledger = [e \in Entry |-> None] /\ editing = {}

Passes ==
    /\ now < MaxNow /\ now' = now + 1
    /\ UNCHANGED <<bought, activated, paidOut, ledger, editing>>

\* Module Payments; a manual payment has no completedAt.
Buy(p) ==
    /\ bought[p] = None
    /\ bought' = [bought EXCEPT ![p] = [status |-> "PENDING", created |-> now, completed |-> None]]
    /\ UNCHANGED <<now, activated, paidOut, ledger, editing>>
Complete(p, at) ==
    /\ bought[p] # None /\ bought[p].status = "PENDING" /\ at \in {now, None}
    /\ bought' = [bought EXCEPT ![p].status = "SUCCESS", ![p].completed = at]
    /\ UNCHANGED <<now, activated, paidOut, ledger, editing>>
\* Module Vouchers: the first redemption sets activatedAt.
Activate(v) ==
    /\ activated[v] = None
    /\ v \in Bought => bought[v] # None /\ bought[v].status = "SUCCESS"
    /\ activated' = [activated EXCEPT ![v] = now]
    /\ UNCHANGED <<now, bought, paidOut, ledger, editing>>
\* Module Withdrawals.
PayOut(w) ==
    /\ paidOut[w] = None
    /\ paidOut' = [paidOut EXCEPT ![w] = now]
    /\ UNCHANGED <<now, bought, activated, ledger, editing>>

\* create and update accept no date in the future.
Accepted(day) == day <= Today
CreateEntry(e, day) ==
    /\ ledger[e] = None /\ Accepted(day)
    /\ ledger' = [ledger EXCEPT ![e] = [day |-> day, deleted |-> FALSE]]
    /\ UNCHANGED <<now, bought, activated, paidOut, editing>>
FindEntry(e) ==
    /\ e \notin editing /\ ledger[e] # None /\ ~ledger[e].deleted
    /\ editing' = editing \cup {e}
    /\ UNCHANGED <<now, bought, activated, paidOut, ledger>>
UpdateEntry(e, day) ==
    /\ e \in editing /\ Accepted(day)
    /\ ledger' = [ledger EXCEPT ![e].day = day]
    /\ editing' = editing \ {e}
    /\ UNCHANGED <<now, bought, activated, paidOut>>
\* "Soft delete: the row stays for the audit trail but stops counting."
RemoveEntry(e) ==
    /\ ledger[e] # None /\ ~ledger[e].deleted
    /\ ledger' = [ledger EXCEPT ![e].deleted = TRUE]
    /\ UNCHANGED <<now, bought, activated, paidOut, editing>>

EntryStep(e) == \/ FindEntry(e) \/ RemoveEntry(e)
                \/ \E day \in 0..Today : CreateEntry(e, day) \/ UpdateEntry(e, day)
BooksNext ==
    \/ Passes
    \/ \E p \in Bought : Buy(p) \/ (\E at \in {now, None} : Complete(p, at))
    \/ \E v \in Bought \cup Printed : Activate(v)
    \/ \E w \in Payout : PayOut(w)
    \/ \E e \in Entry : EntryStep(e)
-----------------------------------------------------------------------------
BooksTypeOK ==
    /\ now \in Instant
    /\ \A p \in Bought : bought[p] # None =>
         bought[p] \in [status : {"PENDING", "SUCCESS"}, created : Instant, completed : Maybe(Instant)]
    /\ activated \in [Bought \cup Printed -> Maybe(Instant)]
    /\ paidOut \in [Payout -> Maybe(Instant)]
    /\ \A e \in Entry : ledger[e] # None => ledger[e] \in [day : Nat, deleted : BOOLEAN]
    /\ editing \subseteq {e \in Entry : ledger[e] # None}

\* The earnings page, today's tile and the profit and loss agree: each counts
\* exactly the sales whose local day is in its range, however late in the
\* evening they were made and whatever the time of day it is asked; and the
\* ledger counts a withdrawal's fee on one day only.
SoldOn(days) ==
    {s \in {Sold(p, CHOOSE t \in {bought[p].completed, bought[p].created} \ {None} :
                       bought[p].completed # None => t = bought[p].completed) :
              p \in {q \in Bought : bought[q] # None /\ bought[q].status = "SUCCESS"}}
          \cup {Sold(v, activated[v]) : v \in {w \in Printed : activated[w] # None}} :
       LocalDay(s.at) \in days}
LedgersAgree ==
    /\ TodaysSales = SoldOn({Today})
    /\ \A n \in FewestDays..Today :
         /\ Earnings(n) = SoldOn((Today - n + 1)..Today)
         /\ SalesIncome(Today - n + 1, Today) = Earnings(n)
    /\ \A w \in Payout : Cardinality({d \in 0..Today : w \in Fees(d, d)}) = IF paidOut[w] = None THEN 0 ELSE 1
=============================================================================
