--------------------------- MODULE ServerProofs ---------------------------
(* Proofs about the components of the API server and the staff web app: of  *)
(* each one's own next-state relation, for all values of its constants.     *)
EXTENDS Accounting, AdminPages, Alerts, Books, ClaudeBridge, Console, Fees, Network, Portal,
        CoinsProofs, TLAPS

-----------------------------------------------------------------------------
\* Fees: the search for the largest amount that can be paid out.

\* The state of the search: what it has found so far fits.
Found == lo = 0 \/ Fits(lo, page)
FInv == FeesTypeOK /\ Found

USE DEF FeesTypeOK, Found, FInv

\* The middle of what the search has left lies above lo.
LEMMA Middle ==
    ASSUME NEW a \in Nat, NEW b \in Nat, a < b
    PROVE  Ceil(a + b, 2) \in Nat /\ Ceil(a + b, 2) >= 1 /\ Ceil(a + b, 2) - 1 \in Nat
  BY DEF Ceil

\* A search starts within the balance.
LEMMA SearchStarts ==
    ASSUME NEW p \in [schedule : Schedules, available : Balances], StartSearch(p)
    PROVE  page' \in [schedule : Schedules, available : Balances] /\ lo' = 0 /\ hi' \in Nat
  <1>1. p.schedule \in [min : Nat, max : Nat, band : Nat, base : Nat, step : Nat] /\ p.available \in Nat
    BY FeesAssumption
  <1>2. p.schedule.max \in Nat
    BY <1>1
  <1>3. QED
    BY <1>1, <1>2 DEF StartSearch

LEMMA FeesInitial == FeesInit => FInv
  <1> SUFFICES ASSUME FeesInit PROVE FInv
    OBVIOUS
  <1>1. /\ schedule \in Schedules /\ available \in Balances /\ saves \in 0..MaxSaves
        /\ page \in [schedule : Schedules, available : Balances]
    BY FeesAssumption DEF FeesInit
  <1>2. schedule.max \in Nat /\ available \in Nat
    BY <1>1, FeesAssumption
  <1>3. lo = 0 /\ hi \in Nat
    BY <1>2 DEF FeesInit
  <1>4. QED
    BY <1>1, <1>3

LEMMA FeesStep == FInv /\ [FeesNext]_feesVars => FInv'
  <1> SUFFICES ASSUME FInv, [FeesNext]_feesVars PROVE FInv'
    OBVIOUS
  <1>1. CASE LoadPage
    <2>1. [schedule |-> schedule, available |-> available] \in [schedule : Schedules, available : Balances]
      OBVIOUS
    <2>2. QED
      BY <1>1, <2>1, SearchStarts DEF LoadPage
  <1>2. CASE SearchStep
    <2> DEFINE mid == Ceil(lo + hi, 2)
    <2>1. mid \in Nat /\ mid >= 1 /\ mid - 1 \in Nat
      BY <1>2, Middle DEF SearchStep
    <2>2. CASE Fits(mid, page)
      <3>1. lo' = mid /\ hi' = hi /\ page' = page
        BY <1>2, <2>2 DEF SearchStep
      <3>2. Fits(lo', page')
        BY <2>2, <3>1
      <3>3. Found'
        BY <3>2 DEF Fits, FeeFor
      <3>4. QED
        BY <1>2, <2>1, <3>1, <3>3 DEF SearchStep
    <2>3. CASE ~Fits(mid, page)
      <3>1. lo' = lo /\ hi' = mid - 1 /\ page' = page
        BY <1>2, <2>3 DEF SearchStep
      <3>2. Found'
        BY <3>1 DEF Fits, FeeFor
      <3>3. QED
        BY <1>2, <2>1, <3>1, <3>2 DEF SearchStep
    <2>4. QED
      BY <2>2, <2>3
  <1>3. CASE BalanceTurns
    <2>1. Found'
      BY <1>3 DEF BalanceTurns, Fits, FeeFor
    <2>2. QED
      BY <1>3, <2>1 DEF BalanceTurns
  <1>4. ASSUME NEW s \in Schedules, NEW here \in BOOLEAN, SaveFees(s, here)
        PROVE  FInv'
    <2>1. schedule' \in Schedules /\ available' = available /\ saves' \in 0..MaxSaves
      BY <1>4, FeesAssumption DEF SaveFees
    <2>2. CASE here
      <3>1. [page EXCEPT !.schedule = s] \in [schedule : Schedules, available : Balances]
        OBVIOUS
      <3>2. StartSearch([page EXCEPT !.schedule = s])
        BY <1>4, <2>2 DEF SaveFees
      <3>3. QED
        BY <2>1, <3>1, <3>2, SearchStarts
    <2>3. CASE ~here
      <3>1. page' = page /\ lo' = lo /\ hi' = hi
        BY <1>4, <2>3 DEF SaveFees
      <3>2. Found'
        BY <3>1 DEF Fits, FeeFor
      <3>3. QED
        BY <2>1, <3>1, <3>2
    <2>4. QED
      BY <2>2, <2>3
  <1>5. CASE UNCHANGED feesVars
    <2>1. Found'
      BY <1>5 DEF feesVars, Fits, FeeFor
    <2>2. QED
      BY <1>5, <2>1 DEF feesVars
  <1>6. QED
    BY <1>1, <1>2, <1>3, <1>4, <1>5 DEF FeesNext

\* What was found is what the API takes and charges.
LEMMA FoundFits == FInv => OfferFits
  <1> SUFFICES ASSUME FInv, MaxWithdrawable # 0 PROVE OfferFits
    BY DEF OfferFits
  <1>1. MaxWithdrawable = lo /\ lo # 0
    BY DEF MaxWithdrawable
  <1>2. Fits(lo, page)
    BY <1>1
  <1>3. FeeFor(lo, page.schedule) = WithdrawalFee(lo, page.schedule)
    BY <1>1, <1>2 DEF Fits, FeeFor, WithdrawalFee
  <1>4. QED
    BY <1>1, <1>2, <1>3 DEF Fits, OfferFits

\* The state is always well typed: the search never leaves the natural numbers.
THEOREM FeesTyped == FeesSpec => []FeesTypeOK
  <1>1. FInv => FeesTypeOK
    OBVIOUS
  <1>2. QED
    BY FeesInitial, FeesStep, <1>1, PTL DEF FeesSpec

\* The largest amount the Withdrawals page offers is payable together with the
\* fee withdrawal-fees.ts charges, whenever the search is stopped and whatever
\* is saved or withdrawn meanwhile.
THEOREM OfferIsPayable == FeesSpec => []OfferFits
  BY FeesInitial, FeesStep, FoundFits, PTL DEF FeesSpec

HIDE DEF FeesTypeOK, Found, FInv

-----------------------------------------------------------------------------
\* Fees: the table of tiers and the fee agree.

\* The band of an amount, and that it is in no other one.
Band(a, b) == Above(0, Ceil(a, b) - 1)
InBand(a, n, b) == (n = 0 \/ n * b + 1 <= a) /\ a <= (n + 1) * b

LEMMA BandIsIn ==
    ASSUME NEW a \in Nat, NEW b \in Nat \ {0}
    PROVE  Band(a, b) \in Nat /\ InBand(a, Band(a, b), b)
<1> DEFINE c == Ceil(a, b)
<1>1. /\ c \in Nat /\ c * b <= a + b - 1 /\ a + b - 1 < c * b + b /\ c * b \in Nat
  <2>1. a + b - 1 \in Nat
    OBVIOUS
  <2> QED
    BY <2>1, Quotient, TimesMonotone DEF Ceil
<1>2. CASE c = 0
  <2>1. a = 0 /\ Band(a, b) = 0
    BY <1>1, <1>2, TimesMonotone DEF Band, Above
  <2> QED
    BY <2>1, TimesMonotone DEF InBand
<1>3. CASE c # 0
  <2> DEFINE q == c - 1
  <2>1. q \in Nat /\ c = q + 1
    BY <1>1, <1>3
  <2>2. Band(a, b) = q
    BY <1>1, <1>3 DEF Band, Above
  <2>3. c * b = q * b + b /\ q * b \in Nat /\ (q + 1) * b = q * b + b
    BY <2>1, TimesSuccessor, TimesMonotone
  <2>4. q * b + 1 <= a /\ a <= q * b + b
    BY <1>1, <2>3
  <2> QED
    BY <2>1, <2>2, <2>3, <2>4 DEF InBand
<1> QED
  BY <1>2, <1>3

LEMMA BandIsUnique ==
    ASSUME NEW a \in Nat, NEW b \in Nat \ {0}, NEW m \in Nat, NEW n \in Nat,
           InBand(a, m, b), InBand(a, n, b)
    PROVE  m = n
<1>1. /\ m * b \in Nat /\ (m + 1) * b = m * b + b
      /\ n * b \in Nat /\ (n + 1) * b = n * b + b
      /\ 0 * b = 0
  BY TimesMonotone, TimesSuccessor
<1>2. CASE a = 0
  BY <1>1, <1>2 DEF InBand
<1>3. CASE a # 0
  <2>1. a - 1 \in Nat
    BY <1>3
  <2>2. m * b <= a - 1 /\ a - 1 < m * b + b /\ n * b <= a - 1 /\ a - 1 < n * b + b
    BY <1>1, <1>3 DEF InBand
  <2> QED
    BY <2>1, <2>2, SameMultiple
<1> QED
  BY <1>2, <1>3

LEMMA TiersTell ==
    ASSUME schedule \in Schedules, ValidSchedule(schedule)
    PROVE  TiersTellTheFee
<1> DEFINE s == schedule
<1>1. s.min \in Nat /\ s.max \in Nat /\ s.band \in Nat \ {0} /\ s.base \in Nat /\ s.step \in Nat /\ s.min <= s.max
  BY FeesAssumption DEF ValidSchedule
<1> SUFFICES ASSUME s.min <= s.band, NEW a \in 0..s.max + 1
             PROVE  {t.fee : t \in {u \in FeeTiers(s) : u.from <= a /\ a <= u.to}} = {WithdrawalFee(a, s)} \ {Too}
  BY DEF TiersTellTheFee
<1> DEFINE Rows == {m \in 0..s.max : TierFrom(m, s) <= TierTo(m, s)}
           Fee(n) == s.base + n * s.step
           Covers(n) == TierFrom(n, s) <= a /\ a <= TierTo(n, s)
<1>4. a \in Nat
  BY <1>1
<1>2. {t.fee : t \in {u \in FeeTiers(s) : u.from <= a /\ a <= u.to}} = {Fee(n) : n \in {m \in Rows : Covers(m)}}
  <2> DEFINE Tier(n) == [from |-> TierFrom(n, s), to |-> TierTo(n, s), fee |-> Fee(n)]
  <2>1. \A n : Tier(n).from = TierFrom(n, s) /\ Tier(n).to = TierTo(n, s) /\ Tier(n).fee = Fee(n)
    <3> HIDE DEF s, Fee
    <3> QED
      OBVIOUS
  <2>2. FeeTiers(s) = {Tier(n) : n \in Rows}
    <3> HIDE DEF s
    <3> QED
      BY DEF FeeTiers
  <2> HIDE DEF s, Fee, Tier
  <2> QED
    BY <2>1, <2>2
<1>3. \A n \in Nat : Covers(n) <=> s.min <= a /\ a <= s.max /\ InBand(a, n, s.band)
  <2> SUFFICES ASSUME NEW n \in Nat
               PROVE  Covers(n) <=> s.min <= a /\ a <= s.max /\ InBand(a, n, s.band)
    OBVIOUS
  <2> DEFINE low == n * s.band
             high == (n + 1) * s.band
  <2>1. low \in Nat /\ high \in Nat /\ high = low + s.band /\ (n # 0 => s.band <= low) /\ (n = 0 => low = 0)
    <3>1. n * s.band \in Nat /\ (n + 1) * s.band = n * s.band + s.band
      BY <1>1, TimesMonotone, TimesSuccessor
    <3>2. n # 0 => 1 * s.band <= n * s.band
      BY <1>1, TimesMonotone
    <3> QED
      BY <1>1, <3>1, <3>2
  <2>2. /\ TierFrom(n, s) = IF n = 0 THEN s.min ELSE low + 1
        /\ TierTo(n, s) = IF high < s.max THEN high ELSE s.max
        /\ InBand(a, n, s.band) <=> (n = 0 \/ low + 1 <= a) /\ a <= high
    BY DEF TierFrom, TierTo, InBand
  <2> DEFINE min == s.min
             max == s.max
             band == s.band
  <2>3. min <= band /\ {min, max, band, a} \subseteq Nat
    BY <1>1, <1>4
  <2>4. /\ TierFrom(n, s) = IF n = 0 THEN min ELSE low + 1
        /\ TierTo(n, s) = IF high < max THEN high ELSE max
    BY <2>2
  <2>5. high = low + band /\ (n # 0 => band <= low)
    BY <2>1
  <2>6. a <= TierTo(n, s) <=> a <= high /\ a <= max
    <3> HIDE DEF low, high, min, max, band
    <3> QED
      BY <2>1, <2>3, <2>4
  <2>7. Covers(n) <=> min <= a /\ a <= max /\ (n = 0 \/ low + 1 <= a) /\ a <= high
    <3> HIDE DEF low, high, min, max, band, s
    <3> QED
      BY <2>1, <2>3, <2>4, <2>5, <2>6
  <2> QED
    BY <2>2, <2>7
<1> DEFINE q == Band(a, s.band)
<1>5. q \in Nat /\ InBand(a, q, s.band)
  BY <1>1, <1>4, BandIsIn
<1>6. CASE a < s.min \/ a > s.max
  <2>1. \A n \in Rows : ~Covers(n)
    BY <1>1, <1>3, <1>6
  <2>2. WithdrawalFee(a, s) = Too
    BY <1>6 DEF WithdrawalFee
  <2> HIDE DEF s, Fee, Covers, Rows
  <2> QED
    BY <1>2, <2>1, <2>2
<1>7. CASE s.min <= a /\ a <= s.max
  <2>1. WithdrawalFee(a, s) = Fee(q)
    BY <1>1, <1>4, <1>7 DEF WithdrawalFee, Band
  <2>2. q \in Rows
    <3>1. Covers(q)
      BY <1>3, <1>5, <1>7
    <3>2. q * s.band \in Nat /\ q <= q * s.band
      BY <1>1, <1>5, TimesAtLeast
    <3>3. q <= s.max
      BY <1>1, <1>4, <1>5, <1>7, <3>2 DEF InBand
    <3>4. TierFrom(q, s) \in Nat /\ TierTo(q, s) \in Nat
      BY <1>1, <1>5, <3>2, TimesMonotone DEF TierFrom, TierTo
    <3> QED
      BY <1>1, <1>4, <1>5, <3>1, <3>3, <3>4
  <2>3. Covers(q) /\ \A n \in Rows : Covers(n) => n = q
    BY <1>1, <1>3, <1>4, <1>5, <1>7, BandIsUnique
  <2>4. Fee(q) \in Nat
    BY <1>1, <1>5, TimesMonotone
  <2>5. {Fee(n) : n \in {m \in Rows : Covers(m)}} = {Fee(q)}
    <3> HIDE DEF Fee, Covers, Rows, q
    <3> QED
      BY <2>2, <2>3
  <2>6. Fee(q) # Too
    BY <2>4 DEF Too
  <2> HIDE DEF Fee, q, s, Rows, Covers
  <2> QED
    BY <1>2, <2>1, <2>5, <2>6
<1> QED
  BY <1>1, <1>4, <1>6, <1>7

FeesInv == FInv /\ ValidSchedule(schedule)

LEMMA FeesInvInitially ==
    ASSUME FeesInit
    PROVE  FeesInv
  BY FeesInitial DEF FeesInit, FeesInv

LEMMA FeesInvStep ==
    ASSUME FeesInv, [FeesNext]_feesVars
    PROVE  FeesInv'
<1>1. FInv'
  BY FeesStep DEF FeesInv
<1>2. ValidSchedule(schedule)'
  BY DEF FeesInv, ValidSchedule, FeesNext, feesVars, LoadPage, SearchStep, BalanceTurns, SaveFees
<1> QED
  BY <1>1, <1>2 DEF FeesInv

-----------------------------------------------------------------------------
\* Books: the dashboard, the earnings and the finance page find the same sales.

\* Days have a length, the local one begins before the UTC day of its date, and
\* a null is no time.
Calendar ==
    /\ DayLen \in Nat \ {0} /\ Offset \in Nat /\ Offset < DayLen
    /\ FirstNow \in Nat /\ FewestDays \in Nat /\ None \notin Nat
\* What has happened has happened by now.
Past == 0..now
BooksDated ==
    /\ now \in Nat
    /\ bought \in [Bought -> Maybe([status : {"PENDING", "SUCCESS"}, created : Past, completed : Maybe(Past)])]
    /\ activated \in [Bought \cup Printed -> Maybe(Past)]
    /\ paidOut \in [Payout -> Maybe(Past)]

LEMMA BooksStep ==
    ASSUME Calendar, BooksDated, BooksNext
    PROVE  BooksDated'
<1>1. ASSUME Passes PROVE BooksDated'
  <2>1. now' = now + 1 /\ now' \in Nat /\ UNCHANGED <<bought, activated, paidOut>>
    BY <1>1 DEF Passes, BooksDated
  <2>2. Past \subseteq Past'
    BY <2>1 DEF Past, BooksDated
  <2>3. \A p \in Bought : bought[p] \in
          Maybe([status : {"PENDING", "SUCCESS"}, created : Past', completed : Maybe(Past')])
    BY <2>2 DEF BooksDated, Maybe
  <2>4. bought' \in [Bought -> Maybe([status : {"PENDING", "SUCCESS"}, created : Past', completed : Maybe(Past')])]
    BY <2>1, <2>3 DEF BooksDated
  <2>5. activated' \in [Bought \cup Printed -> Maybe(Past')] /\ paidOut' \in [Payout -> Maybe(Past')]
    BY <2>1, <2>2 DEF BooksDated, Maybe
  <2> QED
    BY <2>1, <2>4, <2>5 DEF BooksDated, Maybe
<1>2. ASSUME NEW p \in Bought, Buy(p) PROVE BooksDated'
  <2>1. now \in Past /\ Past' = Past
    BY <1>2 DEF Buy, Past, BooksDated
  <2> QED
    BY <1>2, <2>1 DEF Buy, BooksDated, Maybe
<1>3. ASSUME NEW p \in Bought, NEW when \in {now, None}, Complete(p, when) PROVE BooksDated'
  <2>1. now \in Past /\ Past' = Past /\ when \in Maybe(Past)
    BY <1>3 DEF Complete, Past, BooksDated, Maybe
  <2>2. bought[p] \in [status : {"PENDING", "SUCCESS"}, created : Past, completed : Maybe(Past)]
    BY <1>3 DEF Complete, BooksDated, Maybe
  <2>3. [bought[p] EXCEPT !.status = "SUCCESS", !.completed = when]
          \in [status : {"PENDING", "SUCCESS"}, created : Past, completed : Maybe(Past)]
    BY <2>1, <2>2
  <2>4. bought' = [bought EXCEPT ![p] = [bought[p] EXCEPT !.status = "SUCCESS", !.completed = when]]
    BY <1>3 DEF Complete, BooksDated
  <2>5. bought' \in [Bought -> Maybe([status : {"PENDING", "SUCCESS"}, created : Past, completed : Maybe(Past)])]
    BY <2>3, <2>4 DEF BooksDated, Maybe
  <2> QED
    BY <1>3, <2>1, <2>5 DEF Complete, BooksDated, Maybe
<1>4. ASSUME NEW v \in Bought \cup Printed, Activate(v) PROVE BooksDated'
  <2>1. now \in Past /\ Past' = Past
    BY <1>4 DEF Activate, Past, BooksDated
  <2> QED
    BY <1>4, <2>1 DEF Activate, BooksDated, Maybe
<1>5. ASSUME NEW w \in Payout, PayOut(w) PROVE BooksDated'
  <2>1. now \in Past /\ Past' = Past
    BY <1>5 DEF PayOut, Past, BooksDated
  <2> QED
    BY <1>5, <2>1 DEF PayOut, BooksDated, Maybe
<1>6. ASSUME NEW e \in Entry, EntryStep(e) PROVE BooksDated'
  <2>1. UNCHANGED <<now, bought, activated, paidOut>>
    BY <1>6 DEF EntryStep, FindEntry, RemoveEntry, CreateEntry, UpdateEntry
  <2> QED
    BY <2>1 DEF BooksDated, Past, Maybe
<1> QED
  BY <1>1, <1>2, <1>3, <1>4, <1>5, <1>6 DEF BooksNext

LEMMA BooksInitially ==
    ASSUME Calendar, BooksInit
    PROVE  BooksDated
  BY DEF Calendar, BooksInit, BooksDated, Past, Maybe

LEMMA BooksStay ==
    ASSUME BooksDated, UNCHANGED booksVars
    PROVE  BooksDated'
  BY DEF booksVars, BooksDated, Past, Maybe

\* A local day has DayLen instants.
LEMMA DayBounds ==
    ASSUME Calendar, NEW t \in Nat
    PROVE  /\ LocalDay(t) \in Nat /\ LocalDay(t) * DayLen \in Nat
           /\ LocalDay(t) * DayLen <= t + Offset
           /\ t + Offset < LocalDay(t) * DayLen + DayLen
<1>1. t + Offset \in Nat
  BY DEF Calendar
<1> QED
  BY <1>1, Quotient, TimesMonotone DEF LocalDay, Calendar

LEMMA DaysInOrder ==
    ASSUME Calendar, NEW t \in Nat, NEW u \in Nat, t <= u
    PROVE  LocalDay(t) <= LocalDay(u)
<1> DEFINE a == LocalDay(t)
           b == LocalDay(u)
<1>1. /\ a \in Nat /\ b \in Nat /\ b * DayLen \in Nat /\ a * DayLen <= t + Offset
      /\ u + Offset < b * DayLen + DayLen /\ a * DayLen \in Nat
  BY DayBounds
<1>2. CASE b < a
  <2> HIDE DEF a, b
  <2>1. (b + 1) * DayLen <= a * DayLen /\ (b + 1) * DayLen = b * DayLen + DayLen
    BY <1>1, <1>2, TimesMonotone, TimesSuccessor DEF Calendar
  <2> QED
    BY <1>1, <2>1 DEF Calendar
<1> HIDE DEF a, b
<1> QED
  BY <1>1, <1>2 DEF a, b

\* What is asked of the database has every sale of the days that are wanted.
LEMMA CutIsWide ==
    ASSUME Calendar, BooksDated, NEW days, NEW since \in Int,
           \A t \in Past : LocalDay(t) \in days => t >= since
    PROVE  {s \in Sales(since) : LocalDay(s.at) \in days} = SoldOn(days)
<1> DEFINE PaidFor == {q \in Bought : bought[q] # None /\ bought[q].status = "SUCCESS"}
           When(p) == IF bought[p].completed = None THEN bought[p].created ELSE bought[p].completed
           Used == {v \in Printed : activated[v] # None}
<1>1. \A p \in PaidFor : /\ When(p) \in Past
                      /\ When(p) = CHOOSE t \in {bought[p].completed, bought[p].created} \ {None} :
                                   bought[p].completed # None => t = bought[p].completed
  <2> SUFFICES ASSUME NEW p \in PaidFor
               PROVE  /\ When(p) \in Past
                      /\ When(p) = CHOOSE t \in {bought[p].completed, bought[p].created} \ {None} :
                                   bought[p].completed # None => t = bought[p].completed
    OBVIOUS
  <2>1. bought[p].created \in Past /\ bought[p].completed \in Maybe(Past) /\ None \notin Past
    BY DEF BooksDated, Maybe, Past, Calendar
  <2>2. When(p) \in Past
    BY <2>1 DEF Maybe
  <2> DEFINE times == {bought[p].completed, bought[p].created} \ {None}
             settles(t) == bought[p].completed # None => t = bought[p].completed
  <2>3. \A t \in times : settles(t) <=> t = When(p)
    BY <2>1
  <2>4. When(p) \in times
    BY <2>1
  <2>5. When(p) = CHOOSE t \in times : settles(t)
    <3> HIDE DEF times, settles, At
    <3>1. \E t \in times : settles(t)
      BY <2>3, <2>4
    <3>2. PICK x : x = CHOOSE t \in times : settles(t)
      OBVIOUS
    <3>3. x \in times /\ settles(x)
      BY <3>1, <3>2
    <3> QED
      BY <2>3, <3>2, <3>3
  <2> QED
    BY <2>2, <2>5
<1>2. \A v \in Used : activated[v] \in Past
  BY DEF BooksDated, Maybe
<1> DEFINE Bills(S) == {Sold(p, When(p)) : p \in S}
           Prints(S) == {Sold(v, activated[v]) : v \in S}
<1>3. Sales(since) = Bills({p \in PaidFor : When(p) >= since}) \cup Prints({v \in Used : activated[v] >= since})
  <2>1. {q \in Bought : /\ bought[q] # None /\ bought[q].status = "SUCCESS"
                        /\ IF bought[q].completed = None THEN bought[q].created >= since
                           ELSE bought[q].completed >= since} = {p \in PaidFor : When(p) >= since}
    OBVIOUS
  <2>2. {w \in DOMAIN activated : NoPayment(w) /\ activated[w] # None /\ activated[w] >= since}
          = {v \in Used : activated[v] >= since}
    BY DEF NoPayment, BooksDated
  <2> QED
    BY <2>1, <2>2 DEF Sales
<1>4. SoldOn(days) = {s \in Bills(PaidFor) \cup Prints(Used) : LocalDay(s.at) \in days}
  <2>1. {Sold(p, CHOOSE t \in {bought[p].completed, bought[p].created} \ {None} :
                       bought[p].completed # None => t = bought[p].completed) : p \in PaidFor} = Bills(PaidFor)
    BY <1>1
  <2> HIDE DEF Bills, Prints
  <2>2. Prints(Used) = {Sold(v, activated[v]) : v \in {w \in Printed : activated[w] # None}}
    BY DEF Prints
  <2>3. {Sold(p, CHOOSE t \in {bought[p].completed, bought[p].created} \ {None} :
                       bought[p].completed # None => t = bought[p].completed) :
              p \in {q \in Bought : bought[q] # None /\ bought[q].status = "SUCCESS"}} = Bills(PaidFor)
    BY <2>1
  <2> QED
    BY <2>2, <2>3, Zenon DEF SoldOn
<1>5. \A x, t : Sold(x, t).at = t
  BY DEF Sold
<1> QED
  BY <1>1, <1>2, <1>3, <1>4, <1>5

LEMMA LongEnough ==
    ASSUME Calendar, NEW n \in Nat, NEW from \in Nat, NEW to \in Nat, NEW t \in Nat, NEW u \in Nat,
           LocalDay(t) >= from, LocalDay(u) = to, to <= from + n
    PROVE  t >= u - (n + 1) * DayLen /\ t >= from * DayLen - DayLen
<1> DEFINE a == LocalDay(t)
<1>1. /\ a \in Nat /\ a * DayLen \in Nat /\ a * DayLen <= t + Offset
      /\ to * DayLen \in Nat /\ u + Offset < to * DayLen + DayLen
  BY DayBounds
<1>2. from * DayLen <= a * DayLen /\ from * DayLen \in Nat
  BY <1>1, TimesMonotone DEF Calendar
<1>3. to * DayLen <= (from + n) * DayLen
  BY TimesMonotone DEF Calendar
<1>4. (from + n) * DayLen = from * DayLen + n * DayLen
  BY TimesSum DEF Calendar
<1>5. (n + 1) * DayLen = n * DayLen + DayLen /\ n * DayLen \in Nat
  BY TimesSuccessor, TimesMonotone DEF Calendar
<1> HIDE DEF a
<1> QED
  BY <1>1, <1>2, <1>3, <1>4, <1>5 DEF Calendar

\* The ranges the services ask for are wide enough for theirs.
LEMMA TodayAgrees ==
    ASSUME Calendar, BooksDated
    PROVE  TodaysSales = SoldOn({Today})
<1>1. now \in Nat /\ Today \in Nat /\ now - 2 * DayLen \in Int
  BY DayBounds DEF BooksDated, Today, Calendar
<1>2. \A t \in Past : LocalDay(t) \in {Today} => t >= now - (0 + 1) * DayLen
  BY <1>1, LongEnough DEF Past, Today
<1>3. \A t \in Past : LocalDay(t) \in {Today} => t >= now - 2 * DayLen
  <2> SUFFICES ASSUME NEW t \in Past, LocalDay(t) \in {Today} PROVE t >= now - 2 * DayLen
    OBVIOUS
  <2>1. t \in Nat /\ DayLen \in Nat /\ 2 * DayLen = DayLen + DayLen /\ (0 + 1) * DayLen = DayLen
    BY <1>1 DEF Past, Calendar
  <2> QED
    BY <1>1, <1>2, <2>1
<1>4. {s \in Sales(now - 2 * DayLen) : LocalDay(s.at) \in {Today}} = SoldOn({Today})
  BY <1>1, <1>3, CutIsWide
<1> QED
  BY <1>4 DEF TodaysSales

LEMMA EarningsAgree ==
    ASSUME Calendar, BooksDated, NEW n \in FewestDays..Today
    PROVE  /\ Earnings(n) = SoldOn((Today - n + 1)..Today)
           /\ SalesIncome(Today - n + 1, Today) = Earnings(n)
<1> DEFINE from == Today - n + 1
           days == from..Today
<1>1. now \in Nat /\ Today \in Nat /\ n \in Nat /\ from \in Nat /\ from <= Today + 1 /\ Today <= from + n
  <2>1. now \in Nat /\ Today \in Nat
    BY DayBounds DEF BooksDated, Today
  <2> QED
    BY <2>1 DEF Calendar
<1>2. /\ now - (n + 1) * DayLen \in Int /\ from * DayLen - DayLen \in Int
  BY <1>1, TimesMonotone DEF Calendar
<1>3. \A t \in Past : /\ LocalDay(t) \in Nat
                      /\ LocalDay(t) \in days =>
                           t >= now - (n + 1) * DayLen /\ t >= from * DayLen - DayLen
  <2> SUFFICES ASSUME NEW t \in Past
               PROVE  /\ LocalDay(t) \in Nat
                      /\ LocalDay(t) \in days =>
                           t >= now - (n + 1) * DayLen /\ t >= from * DayLen - DayLen
    OBVIOUS
  <2>1. t \in Nat
    BY <1>1 DEF Past
  <2>2. LocalDay(t) \in Nat
    BY <2>1, DayBounds
  <2>3. LocalDay(now) = Today
    BY DEF Today
  <2> HIDE DEF from
  <2> QED
    BY <1>1, <2>1, <2>2, <2>3, LongEnough
<1>4. {s \in Sales(now - (n + 1) * DayLen) : LocalDay(s.at) \in days} = SoldOn(days)
  <2> HIDE DEF days
  <2> QED
    BY <1>2, <1>3, CutIsWide
<1>5. {s \in Sales(from * DayLen - DayLen) : LocalDay(s.at) \in days} = SoldOn(days)
  <2> HIDE DEF days, from
  <2> QED
    BY <1>2, <1>3, CutIsWide
<1>6. \A since : \A s \in Sales(since) : LocalDay(s.at) \in Nat
  <2> SUFFICES ASSUME NEW since, NEW s \in Sales(since) PROVE s.at \in Nat
    BY DayBounds
  <2>1. CASE \E p \in Bought : /\ bought[p] # None
                               /\ s = Sold(p, IF bought[p].completed = None THEN bought[p].created ELSE bought[p].completed)
    <3>1. PICK p \in Bought : /\ bought[p] # None
                              /\ s = Sold(p, IF bought[p].completed = None THEN bought[p].created ELSE bought[p].completed)
      BY <2>1
    <3>2. bought[p].created \in Past /\ bought[p].completed \in Maybe(Past)
      BY <3>1 DEF BooksDated, Maybe
    <3> QED
      BY <1>1, <3>1, <3>2 DEF Sold, Maybe, Past
  <2>2. CASE \E v \in DOMAIN activated : activated[v] # None /\ s = Sold(v, activated[v])
    BY <1>1, <2>2 DEF BooksDated, Maybe, Past, Sold
  <2> QED
    BY <2>1, <2>2 DEF Sales
<1>7. Earnings(n) = {s \in Sales(now - (n + 1) * DayLen) : LocalDay(s.at) \in days}
  <2>1. Days(n) = n
    BY <1>1 DEF Days, Calendar
  <2>2. \A d \in Nat : d > Today - n /\ d <= Today <=> d \in days
    BY <1>1
  <2> HIDE DEF days
  <2> QED
    BY <1>6, <2>1, <2>2 DEF Earnings
<1>8. SalesIncome(from, Today) = {s \in Sales(from * DayLen - DayLen) : LocalDay(s.at) \in days}
  <2>1. \A d \in Nat : from <= d /\ d <= Today <=> d \in days
    BY <1>1
  <2> HIDE DEF days, from
  <2> QED
    BY <1>6, <2>1 DEF SalesIncome
<1> QED
  BY <1>4, <1>5, <1>7, <1>8

\* A fee falls on the day of its withdrawal and on no other.
LEMMA FeesOnce ==
    ASSUME Calendar, BooksDated, NEW w \in Payout
    PROVE  Cardinality({d \in 0..Today : w \in Fees(d, d)}) = IF paidOut[w] = None THEN 0 ELSE 1
<1>1. CASE paidOut[w] = None
  <2>1. {d \in 0..Today : w \in Fees(d, d)} = {}
    BY <1>1 DEF Fees
  <2> QED
    BY <1>1, <2>1, FS_EmptySet
<1>2. CASE paidOut[w] # None
  <2> DEFINE t == paidOut[w]
  <2>1. t \in Nat /\ t <= now /\ now \in Nat
    BY <1>2 DEF BooksDated, Maybe, Past
  <2>2. LocalDay(t) \in Nat /\ LocalDay(t) <= Today /\ Today \in Nat
    BY <2>1, DayBounds, DaysInOrder DEF Today
  <2>3. t >= LocalDay(t) * DayLen - DayLen
    <3> HIDE DEF t
    <3> QED
      BY <2>1, <2>2, DayBounds DEF Calendar
  <2>4. \A d \in 0..Today : w \in Fees(d, d) <=> d = LocalDay(t)
    BY <1>2, <2>2, <2>3 DEF Fees
  <2>5. {d \in 0..Today : w \in Fees(d, d)} = {LocalDay(t)}
    BY <2>2, <2>4
  <2> QED
    BY <1>2, <2>5, FS_Singleton
<1> QED
  BY <1>1, <1>2

LEMMA BooksSafe ==
    ASSUME Calendar, BooksDated
    PROVE  LedgersAgree
  BY TodayAgrees, EarningsAgree, FeesOnce DEF LedgersAgree

-----------------------------------------------------------------------------
\* Books: the time that has passed is bounded, and edited entries exist.
Dated == [day : Nat, deleted : BOOLEAN]
Bookable == Calendar /\ FirstNow <= MaxNow /\ MaxNow \in Nat /\ None \notin Dated
EntriesTyped == ledger \in [Entry -> Maybe(Dated)] /\ editing \subseteq {e \in Entry : ledger[e] # None}
BooksTypes == BooksDated /\ now <= MaxNow /\ EntriesTyped

LEMMA BooksAreTyped ==
    ASSUME Bookable, BooksTypes
    PROVE  BooksTypeOK
<1>1. now \in Instant /\ Past \subseteq Instant
  BY DEF Bookable, BooksTypes, BooksDated, Past, Instant
<1>2. \A p \in Bought : bought[p] # None =>
         bought[p] \in [status : {"PENDING", "SUCCESS"}, created : Instant, completed : Maybe(Instant)]
  BY <1>1 DEF BooksTypes, BooksDated, Maybe
<1>3. activated \in [Bought \cup Printed -> Maybe(Instant)] /\ paidOut \in [Payout -> Maybe(Instant)]
  BY <1>1 DEF BooksTypes, BooksDated, Maybe
<1> QED
  BY <1>1, <1>2, <1>3 DEF BooksTypes, EntriesTyped, BooksTypeOK, Dated, Maybe

LEMMA EntriesStep ==
    ASSUME Bookable, BooksTypes, NEW e \in Entry, EntryStep(e)
    PROVE  EntriesTyped'
<1>1. Today \in Nat
  <2>1. now + Offset \in Nat /\ DayLen \in Nat \ {0}
    BY DEF Bookable, Calendar, BooksTypes, BooksDated
  <2> QED
    BY <2>1, Quotient DEF Today, LocalDay
<1>2. CASE FindEntry(e)
  BY <1>2 DEF FindEntry, BooksTypes, EntriesTyped
<1>3. CASE RemoveEntry(e)
  <2>1. ledger[e] \in Dated
    BY <1>3 DEF RemoveEntry, BooksTypes, EntriesTyped, Maybe
  <2>2. [ledger[e] EXCEPT !.deleted = TRUE] \in Dated
    BY <2>1 DEF Dated
  <2>3. ledger' = [ledger EXCEPT ![e] = [ledger[e] EXCEPT !.deleted = TRUE]] /\ editing' = editing
    BY <1>3 DEF RemoveEntry
  <2> QED
    BY <2>2, <2>3 DEF BooksTypes, EntriesTyped, Bookable, Maybe
<1>4. ASSUME NEW day \in 0..Today, CreateEntry(e, day) PROVE EntriesTyped'
  <2>1. [day |-> day, deleted |-> FALSE] \in Dated
    BY <1>1 DEF Dated
  <2> QED
    BY <1>4, <2>1 DEF CreateEntry, BooksTypes, EntriesTyped, Bookable, Maybe
<1>5. ASSUME NEW day \in 0..Today, UpdateEntry(e, day) PROVE EntriesTyped'
  <2>1. ledger[e] \in Dated
    BY <1>5 DEF UpdateEntry, BooksTypes, EntriesTyped, Maybe
  <2>2. [ledger[e] EXCEPT !.day = day] \in Dated
    BY <1>1, <2>1 DEF Dated
  <2>3. ledger' = [ledger EXCEPT ![e] = [ledger[e] EXCEPT !.day = day]] /\ editing' = editing \ {e}
    BY <1>5 DEF UpdateEntry
  <2> QED
    BY <2>2, <2>3 DEF BooksTypes, EntriesTyped, Bookable, Maybe
<1> QED
  BY <1>2, <1>3, <1>4, <1>5 DEF EntryStep

LEMMA BooksTyped ==
    ASSUME Bookable
    PROVE  /\ BooksInit => BooksTypes
           /\ BooksTypes /\ (BooksNext \/ UNCHANGED booksVars) => BooksTypes'
<1>1. BooksInit => BooksTypes
  BY BooksInitially DEF BooksInit, BooksTypes, EntriesTyped, Bookable, Calendar, Maybe
<1>2. ASSUME BooksTypes, BooksNext PROVE BooksTypes'
  <2>1. BooksDated'
    BY <1>2, BooksStep DEF Bookable, BooksTypes
  <2>2. ASSUME NEW e \in Entry, EntryStep(e) PROVE EntriesTyped' /\ now' <= MaxNow
    <3>1. now' = now
      BY <2>2 DEF EntryStep, FindEntry, RemoveEntry, CreateEntry, UpdateEntry
    <3> QED
      BY <1>2, <2>2, <3>1, EntriesStep DEF BooksTypes
  <2>3. CASE ~\E e \in Entry : EntryStep(e)
    <3>2. now \in Nat /\ now <= MaxNow
      BY <1>2 DEF BooksTypes, BooksDated, Instant
    <3>3. ASSUME Passes PROVE UNCHANGED <<ledger, editing>> /\ now' <= MaxNow
      BY <3>2, <3>3 DEF Passes, Bookable
    <3>4. ASSUME NEW p \in Bought, Buy(p) \/ \E moment \in {now, None} : Complete(p, moment)
          PROVE  UNCHANGED <<now, ledger, editing>>
      BY <3>4 DEF Buy, Complete
    <3>5. ASSUME NEW v \in Bought \cup Printed, Activate(v) PROVE UNCHANGED <<now, ledger, editing>>
      BY <3>5 DEF Activate
    <3>6. ASSUME NEW w \in Payout, PayOut(w) PROVE UNCHANGED <<now, ledger, editing>>
      BY <3>6 DEF PayOut
    <3>1. UNCHANGED <<ledger, editing>> /\ now' <= MaxNow
      BY <1>2, <2>3, <3>2, <3>3, <3>4, <3>5, <3>6 DEF BooksNext
    <3> QED
      BY <1>2, <2>1, <3>1 DEF BooksTypes, EntriesTyped
  <2> QED
    BY <2>1, <2>2, <2>3 DEF BooksTypes
<1>3. ASSUME BooksTypes, UNCHANGED booksVars PROVE BooksTypes'
  BY <1>3, BooksStay DEF BooksTypes, EntriesTyped, booksVars
<1> QED
  BY <1>1, <1>2, <1>3

-----------------------------------------------------------------------------
\* Accounting: the voucher has what its sessions have, the hourly table every
\* byte that was posted for it.

Posted == [pc : {"idle", "find", "session", "voucher", "flag", "insert"}, session : Maybe(Session),
           bytes : Nat, apps : Maybe(Nat), ttl : Maybe(0..2), was : 0..2]
\* Sessions and reports are finitely many, bytes and sightings are such.
Metered ==
    /\ IsFiniteSet(Session) /\ IsFiniteSet(Report) /\ CodeOf \in [Session -> Code] /\ None \notin Session
    /\ Bytes \subseteq Nat /\ \A S \in Sightings : IsFiniteSet(S)
    /\ {MaxPosts, MaxApiDeaths} \subseteq Nat
\* A report is billed to a session; one that waits has nothing to bill.
Billing ==
    \A r \in Report :
        /\ report[r].pc \in {"session", "voucher", "flag"} => report[r].session \in Session
        /\ report[r].pc = "idle" => report[r].bytes = 0 /\ Tabled(report[r]) = 0
AcctInv == AccountingTypeOK /\ Billing /\ UsageAddsUp

LEMMA ReportTyped == AccountingTypeOK <=>
    /\ open \in Maybe(Session) /\ unopened \subseteq Session /\ open \notin unopened
    /\ sessionBytes \in [Session -> Nat] /\ voucherBytes \in [Code -> Nat]
    /\ score \in [Session -> 0..2] /\ flagged \subseteq Session
    /\ report \in [Report -> Posted]
    /\ {hourly, posted} \subseteq Nat /\ posts \in 0..MaxPosts /\ apiDeaths \in 0..MaxApiDeaths
  BY DEF AccountingTypeOK, Posted

LEMMA StaysTyped ==
    ASSUME AccountingTypeOK, report' \in [Report -> Posted],
           sessionBytes' \in [Session -> Nat] /\ voucherBytes' \in [Code -> Nat] /\ score' \in [Session -> 0..2],
           flagged' \subseteq Session, {hourly', posted'} \subseteq Nat, posts' \in 0..MaxPosts,
           UNCHANGED <<open, unopened, apiDeaths>>
    PROVE  AccountingTypeOK'
<1>1. open' \in Maybe(Session) /\ unopened' \subseteq Session /\ open' \notin unopened' /\ apiDeaths' \in 0..MaxApiDeaths
  BY DEF AccountingTypeOK
<1>2. report' \in [Report -> [pc : {"idle", "find", "session", "voucher", "flag", "insert"},
                              session : Maybe(Session), bytes : Nat, apps : Maybe(Nat),
                              ttl : Maybe(0..2), was : 0..2]]
  BY DEF Posted
<1> QED
  BY <1>1, <1>2, Zenon DEF AccountingTypeOK

LEMMA WaitingIsPosted == Waiting \in Posted /\ Waiting.pc = "idle" /\ Waiting.bytes = 0 /\ Tabled(Waiting) = 0
  BY DEF Waiting, Posted, Maybe, Tabled

LEMMA TabledTyped ==
    ASSUME NEW p \in Posted
    PROVE  Tabled(p) \in Nat
  BY DEF Posted, Maybe, Tabled

LEMMA AcctInitially ==
    ASSUME Metered, AccountingInit
    PROVE  AcctInv
<1>1. AccountingTypeOK
  <2>1. report \in [Report -> Posted]
    BY WaitingIsPosted DEF AccountingInit
  <2> HIDE DEF Posted
  <2>2. open \in Maybe(Session) /\ open \notin unopened
    BY DEF AccountingInit, Metered, Maybe
  <2> QED
    BY <2>1, <2>2, ReportTyped DEF AccountingInit, Metered
<1>2. Billing
  BY WaitingIsPosted DEF AccountingInit, Billing
<1>3. ASSUME NEW S \in SUBSET Session PROVE Coins(S, sessionBytes) = {}
  <2>1. \A s \in S : sessionBytes[s] = 0
    BY DEF AccountingInit
  <2> QED
    BY <2>1 DEF Coins
<1>4. ASSUME NEW S \in SUBSET Report PROVE Coins(S, Carried) = {}
  <2>1. \A r \in S : Carried[r] = 0
    BY DEF AccountingInit, Carried, Waiting
  <2> QED
    BY <2>1 DEF Coins
<1>5. Cardinality({}) = 0
  BY FS_EmptySet
<1>6. \A S \in SUBSET Session : SumOf(S, sessionBytes) = 0
  BY <1>3, <1>5 DEF SumOf
<1>7. \A S \in SUBSET Report : SumOf(S, Carried) = 0
  BY <1>4, <1>5 DEF SumOf
<1>8. UsageAddsUp
  <2>3. Coins(Report, ToBeTabled) = {}
    <3>1. \A r \in Report : ToBeTabled[r] = 0
      BY WaitingIsPosted DEF AccountingInit, ToBeTabled
    <3> QED
      BY <3>1 DEF Coins
  <2>1. \A v \in Code : UsedBy(v) = 0 /\ DueTo(v) = 0
    BY <1>6, <1>7 DEF Between, UsedBy, DueTo
  <2>2. SumOf(Report, ToBeTabled) = 0
    BY <1>5, <2>3 DEF SumOf
  <2> QED
    BY <2>1, <2>2 DEF UsageAddsUp, AccountingInit
<1> QED
  BY <1>1, <1>2, <1>8 DEF AcctInv

LEMMA ScoreTyped ==
    ASSUME NEW ttls, IsFiniteSet(ttls)
    PROVE  TtlScore(ttls) \in 0..2
<1> DEFINE kinds == {Origin(t) : t \in ttls}
           n == Cardinality(kinds)
<1>1. [t \in ttls |-> Origin(t)] \in Surjection(ttls, kinds)
  BY DEF Surjection
<1>2. n \in Nat
  BY <1>1, FS_Surjection, FS_CardinalityType
<1>3. TtlScore(ttls) = IF n <= 1 THEN 0 ELSE Min({2, n - 1})
  BY DEF TtlScore
<1> HIDE DEF kinds, n
<1>4. ASSUME ~(n <= 1) PROVE Min({2, n - 1}) \in 0..2
  <2>1. \E x \in {2, n - 1} : \A y \in {2, n - 1} : x <= y
    BY <1>2
  <2>2. Min({2, n - 1}) \in {2, n - 1} /\ \A y \in {2, n - 1} : Min({2, n - 1}) <= y
    BY <2>1 DEF Min
  <2> QED
    BY <1>2, <1>4, <2>2
<1> QED
  BY <1>2, <1>3, <1>4

\* One report goes on as p.
LEMMA ReportMoves ==
    ASSUME AccountingTypeOK, NEW r \in Report, NEW p \in Posted, report' = [report EXCEPT ![r] = p]
    PROVE  report' \in [Report -> Posted] /\ report'[r] = p /\ \A q \in Report : q # r => report'[q] = report[q]
  BY ReportTyped

LEMMA BillingMoves ==
    ASSUME AccountingTypeOK, Billing, NEW r \in Report, NEW p \in Posted, report' = [report EXCEPT ![r] = p],
           p.pc \in {"session", "voucher", "flag"} => p.session \in Session,
           p.pc = "idle" => p.bytes = 0 /\ Tabled(p) = 0
    PROVE  Billing'
  BY ReportMoves DEF Billing

\* Where what is carried stays, so do the sums.
LEMMA SumsStay ==
    ASSUME AcctInv, NEW r \in Report, NEW p \in Posted, report' = [report EXCEPT ![r] = p],
           p.bytes = report[r].bytes, Tabled(p) = Tabled(report[r]), p.pc # "voucher", report[r].pc # "voucher",
           UNCHANGED <<sessionBytes, voucherBytes, hourly, posted, apiDeaths>>
    PROVE  UsageAddsUp'
<1>1. \A q \in Report : report'[q].bytes = report[q].bytes /\ (report'[q].pc = "voucher" => report'[q] = report[q])
  BY ReportMoves DEF AcctInv
<1>2. Carried' = Carried
  BY <1>1 DEF Carried
<1>4. ToBeTabled' = ToBeTabled
  <2>1. \A q \in Report : Tabled(report'[q]) = Tabled(report[q])
    BY ReportMoves DEF AcctInv
  <2> QED
    BY <2>1 DEF ToBeTabled
<1>3. ASSUME NEW v \in Code PROVE DueTo(v)' = DueTo(v) /\ UsedBy(v)' = UsedBy(v)
  <2>1. Between(v)' = Between(v)
    BY ReportMoves DEF AcctInv, Between
  <2> QED
    BY <1>2, <2>1 DEF DueTo, UsedBy
<1> QED
  BY <1>2, <1>3, <1>4 DEF AcctInv, UsageAddsUp

\* Sums are numbers.
LEMMA Sums ==
    ASSUME Metered, AccountingTypeOK
    PROVE  /\ \A q \in Report : Carried[q] = report[q].bytes /\ Carried[q] \in Nat
           /\ \A q \in Report : ToBeTabled[q] = Tabled(report[q]) /\ ToBeTabled[q] \in Nat
           /\ SumOf(Report, ToBeTabled) \in Nat
           /\ \A v \in Code : IsFiniteSet(Between(v)) /\ DueTo(v) \in Nat /\ UsedBy(v) \in Nat
<1>1. \A q \in Report : Carried[q] = report[q].bytes /\ Carried[q] \in Nat
  BY ReportTyped DEF Carried, Posted
<1>2. \A S \in SUBSET Report : SumOf(S, Carried) \in Nat /\ IsFiniteSet(S)
  BY <1>1, SumMonotone, FS_Subset DEF Metered
<1>3. \A S \in SUBSET Session : SumOf(S, sessionBytes) \in Nat
  BY SumMonotone, ReportTyped DEF Metered
<1>4. \A q \in Report : ToBeTabled[q] = Tabled(report[q]) /\ ToBeTabled[q] \in Nat
  BY ReportTyped, TabledTyped DEF ToBeTabled
<1>5. SumOf(Report, ToBeTabled) \in Nat
  BY <1>4, SumMonotone DEF Metered
<1> QED
  BY <1>1, <1>2, <1>3, <1>4, <1>5 DEF Between, DueTo, UsedBy

LEMMA PostKeeps ==
    ASSUME Metered, AcctInv, NEW r \in Report, NEW n \in Bytes, NEW apps \in Maybe(Bytes), NEW S \in Sightings,
           PostReport(r, n, apps, S)
    PROVE  AcctInv'
<1> DEFINE t == IF S = {} THEN None ELSE TtlScore(S)
           p == [pc |-> "find", session |-> None, bytes |-> n, apps |-> apps, ttl |-> t, was |-> 0]
           k == Tabled(p)
<1>1. t \in Maybe(0..2) /\ n \in Nat /\ apps \in Maybe(Nat)
  BY ScoreTyped DEF Metered, Maybe
<1>2. report' = [report EXCEPT ![r] = p] /\ report[r].pc = "idle" /\ report[r].bytes = 0 /\ Tabled(report[r]) = 0
  BY DEF PostReport, AcctInv, Billing
<1> HIDE DEF t
<1>3. p \in Posted /\ p.pc = "find" /\ p.bytes = n
  BY <1>1 DEF Posted, Maybe
<1>7. posted' = posted + k /\ k \in Nat
  <2>1. report'[r] = p /\ k \in Nat
    BY <1>2, <1>3, ReportMoves, TabledTyped DEF AcctInv
  <2> HIDE DEF p
  <2> QED
    BY <2>1 DEF PostReport
<1> HIDE DEF p
<1>4. AccountingTypeOK'
  <2>1. report' \in [Report -> Posted]
    BY <1>2, <1>3, ReportMoves DEF AcctInv
  <2>2. posts' \in 0..MaxPosts /\ {hourly', posted'} \subseteq Nat
    <3> HIDE DEF k
    <3> QED
      BY <1>7, ReportTyped DEF PostReport, Metered, AcctInv
  <2>3. sessionBytes' \in [Session -> Nat] /\ voucherBytes' \in [Code -> Nat] /\ score' \in [Session -> 0..2]
        /\ flagged' \subseteq Session
    BY ReportTyped DEF PostReport, AcctInv
  <2> QED
    BY <2>1, <2>2, <2>3, StaysTyped DEF PostReport, AcctInv
<1>5. Billing'
  BY <1>2, <1>3, BillingMoves DEF AcctInv
<1>6. UsageAddsUp'
  <2>1. /\ report'[r] = p /\ report'[r].pc = "find"
        /\ \A q \in Report : q # r => report'[q] = report[q]
    BY <1>2, <1>3, ReportMoves DEF AcctInv
  <2>2. ASSUME NEW v \in Code
        PROVE  DueTo(v)' = DueTo(v) /\ UsedBy(v)' = UsedBy(v)
    <3>1. Between(v)' = Between(v)
      BY <1>2, <2>1 DEF Between
    <3>2. \A q \in Between(v) : Carried'[q] = Carried[q]
      BY <1>2, <2>1 DEF Between, Carried
    <3>3. SumOf(Between(v), Carried') = SumOf(Between(v), Carried)
      BY <3>2, SumSame
    <3> QED
      BY <3>1, <3>3 DEF DueTo, UsedBy, PostReport
  <2>3. SumOf(Report, ToBeTabled') = SumOf(Report, ToBeTabled) + k
    <3>1. /\ \A q \in Report : ToBeTabled'[q] \in Nat /\ ToBeTabled[q] \in Nat
          /\ \A q \in Report : q # r => ToBeTabled'[q] = ToBeTabled[q]
          /\ ToBeTabled'[r] = k /\ ToBeTabled[r] = 0
      BY <1>2, <1>7, <2>1, Sums DEF ToBeTabled, AcctInv
    <3> HIDE DEF k
    <3>2. SumOf(Report, ToBeTabled) \in Nat /\ SumOf(Report, ToBeTabled') + 0 = SumOf(Report, ToBeTabled) + k
          /\ SumOf(Report, ToBeTabled') \in Nat
      BY <1>7, <3>1, SumChanged DEF Metered
    <3> QED
      BY <1>7, <3>2
  <2>4. UNCHANGED <<voucherBytes, sessionBytes, hourly, apiDeaths>>
    BY DEF PostReport
  <2> HIDE DEF k
  <2> QED
    BY <1>7, <2>2, <2>3, <2>4, Sums, ReportTyped DEF AcctInv, UsageAddsUp
<1> QED
  BY <1>4, <1>5, <1>6 DEF AcctInv

\* A report goes on as p, which changes no type but its own.
LEMMA GoesOn ==
    ASSUME AccountingTypeOK, Billing, NEW r \in Report, NEW p \in Posted, report' = [report EXCEPT ![r] = p],
           p.pc \in {"session", "voucher", "flag"} => p.session \in Session,
           p.pc = "idle" => p.bytes = 0 /\ Tabled(p) = 0,
           sessionBytes' \in [Session -> Nat] /\ voucherBytes' \in [Code -> Nat] /\ score' \in [Session -> 0..2],
           flagged' \subseteq Session, hourly' \in Nat, UNCHANGED <<posted, posts, open, unopened, apiDeaths>>
    PROVE  AccountingTypeOK' /\ Billing'
<1>1. report' \in [Report -> Posted]
  BY ReportMoves
<1>2. posts' \in 0..MaxPosts /\ {hourly', posted'} \subseteq Nat
  BY ReportTyped
<1>3. AccountingTypeOK'
  BY <1>1, <1>2, StaysTyped
<1> QED
  BY <1>3, BillingMoves

LEMMA FindKeeps ==
    ASSUME Metered, AcctInv, NEW r \in Report, FindSession(r)
    PROVE  AcctInv'
<1>1. report[r] \in Posted /\ report[r].pc = "find" /\ open \in Maybe(Session) /\ score \in [Session -> 0..2]
  BY ReportTyped DEF AcctInv, FindSession
<1> DEFINE p == IF open = None THEN [report[r] EXCEPT !.pc = "insert"]
                ELSE [report[r] EXCEPT !.pc = "session", !.session = open, !.was = score[open]]
<1>2. p \in Posted /\ p.bytes = report[r].bytes /\ p.apps = report[r].apps /\ p.pc \in {"session", "insert"}
      /\ (p.pc = "session" => p.session \in Session)
  <2>1. CASE open = None
    BY <1>1, <2>1 DEF Posted
  <2>2. CASE open # None
    BY <1>1, <2>2 DEF Posted, Maybe
  <2> QED
    BY <2>1, <2>2
<1>3. report' = [report EXCEPT ![r] = p] /\ UNCHANGED <<open, unopened, sessionBytes, voucherBytes, score, flagged,
                                                         hourly, posted, posts, apiDeaths>>
  BY DEF FindSession
<1> HIDE DEF p
<1>4. AccountingTypeOK' /\ Billing'
  BY <1>2, <1>3, GoesOn, ReportTyped DEF AcctInv
<1>5. UsageAddsUp'
  BY <1>1, <1>2, <1>3, SumsStay DEF Tabled
<1> QED
  BY <1>4, <1>5 DEF AcctInv

LEMMA FlagKeeps ==
    ASSUME Metered, AcctInv, NEW r \in Report, FlagResharing(r)
    PROVE  AcctInv'
<1>1. report[r] \in Posted /\ report[r].pc = "flag" /\ report[r].session \in Session
  BY ReportTyped DEF AcctInv, FlagResharing, Billing
<1> DEFINE p == [report[r] EXCEPT !.pc = "insert"]
<1>2. p \in Posted /\ p.bytes = report[r].bytes /\ p.apps = report[r].apps /\ p.pc = "insert"
  BY <1>1 DEF Posted
<1>3. report' = [report EXCEPT ![r] = p] /\ UNCHANGED <<open, unopened, sessionBytes, voucherBytes, score,
                                                         hourly, posted, posts, apiDeaths>>
  BY DEF FlagResharing
<1> HIDE DEF p
<1>4. AccountingTypeOK' /\ Billing'
  <2>1. flagged' \subseteq Session
    BY <1>1, ReportTyped DEF AcctInv, FlagResharing
  <2> QED
    BY <1>2, <1>3, <2>1, GoesOn, ReportTyped DEF AcctInv
<1>5. UsageAddsUp'
  BY <1>1, <1>2, <1>3, SumsStay DEF Tabled
<1> QED
  BY <1>4, <1>5 DEF AcctInv

\* What a voucher is still due: one more report, or one less.
LEMMA AddToSessionKeeps ==
    ASSUME Metered, AcctInv, NEW r \in Report, AddToSession(r)
    PROVE  AcctInv'
<1>1. report[r] \in Posted /\ report[r].pc = "session" /\ report[r].session \in Session
  BY ReportTyped DEF AcctInv, AddToSession, Billing
<1> DEFINE n == report[r].bytes
           s == report[r].session
           p == [report[r] EXCEPT !.pc = IF n > 0 THEN "voucher" ELSE "flag"]
<1>2. /\ p \in Posted /\ p.bytes = n /\ p.apps = report[r].apps /\ p.session = s /\ p.pc = (IF n > 0 THEN "voucher" ELSE "flag")
      /\ n \in Nat /\ s \in Session
  BY <1>1 DEF Posted
<1>3. /\ report' = [report EXCEPT ![r] = p] /\ sessionBytes' = [sessionBytes EXCEPT ![s] = @ + n]
      /\ score' = [score EXCEPT ![s] = NewScore(report[r])]
      /\ UNCHANGED <<open, unopened, voucherBytes, flagged, hourly, posted, posts, apiDeaths>>
  BY DEF AddToSession
<1> HIDE DEF p, n, s
<1>4. AccountingTypeOK' /\ Billing'
  <2>1. sessionBytes' \in [Session -> Nat]
    BY <1>2, <1>3, ReportTyped DEF AcctInv
  <2>2. NewScore(report[r]) \in 0..2
    BY <1>1 DEF NewScore, Posted, Maybe
  <2>3. score' \in [Session -> 0..2]
    BY <1>3, <2>2, ReportTyped DEF AcctInv
  <2> QED
    BY <1>2, <1>3, <2>1, <2>3, GoesOn, ReportTyped DEF AcctInv
<1>5. UsageAddsUp'
  <2>1. /\ report'[r] = p /\ \A q \in Report : q # r => report'[q] = report[q]
    BY <1>2, <1>3, ReportMoves DEF AcctInv
  <2>2. Carried' = Carried /\ ToBeTabled' = ToBeTabled
    <3>1. \A q \in Report : report'[q].bytes = report[q].bytes /\ report'[q].apps = report[q].apps
      BY <1>2, <2>1 DEF n
    <3> QED
      BY <3>1 DEF Carried, ToBeTabled, Tabled
  <2>3. Carried[r] = n /\ \A q \in Report : Carried[q] \in Nat
    BY <1>2, Sums DEF AcctInv, n
  <2>4. ASSUME NEW v \in Code
        PROVE  LET k == IF CodeOf[s] = v THEN n ELSE 0
               IN UsedBy(v)' = UsedBy(v) + k /\ DueTo(v)' = DueTo(v) + k /\ k \in Nat
    <3> DEFINE T == {y \in Session : CodeOf[y] = v}
    <3>1. IsFiniteSet(T) /\ IsFiniteSet(Between(v)) /\ SumOf(Between(v), Carried) \in Nat
          /\ SumOf(T, sessionBytes) \in Nat
      BY Sums, FS_Subset DEF AcctInv, Metered, UsedBy, DueTo
    <3>2. \A x \in Session : sessionBytes[x] \in Nat /\ sessionBytes'[x] \in Nat
                             /\ sessionBytes'[x] = IF x = s THEN sessionBytes[x] + n ELSE sessionBytes[x]
      BY <1>2, <1>3, ReportTyped DEF AcctInv
    <3>3. CASE CodeOf[s] # v
      <4>1. SumOf(T, sessionBytes') = SumOf(T, sessionBytes)
        <5>1. \A x \in T : sessionBytes'[x] = sessionBytes[x]
          BY <3>2, <3>3
        <5> HIDE DEF T
        <5> QED
          BY <5>1, SumSame
      <4>2. Between(v)' = Between(v)
        BY <1>1, <1>2, <2>1, <3>3 DEF Between, s
      <4> QED
        BY <2>2, <3>1, <3>3, <4>1, <4>2 DEF UsedBy, DueTo
    <3>4. CASE CodeOf[s] = v
      <4>1. SumOf(T, sessionBytes') = SumOf(T, sessionBytes) + n
        <5>1. /\ s \in T
              /\ \A x \in T : sessionBytes[x] \in Nat /\ sessionBytes'[x] \in Nat
              /\ \A x \in T : x # s => sessionBytes[x] = sessionBytes'[x]
          BY <1>2, <3>2, <3>4
        <5> HIDE DEF T
        <5>2. SumOf(T, sessionBytes') + sessionBytes[s] = SumOf(T, sessionBytes) + sessionBytes'[s]
              /\ SumOf(T, sessionBytes') \in Nat
          BY <3>1, <5>1, SumChanged
        <5> QED
          BY <1>2, <3>1, <3>2, <5>1, <5>2
      <4>2. SumOf(Between(v)', Carried) = SumOf(Between(v), Carried) + n
        <5>1. CASE n = 0
          <6>1. Between(v)' = Between(v)
            BY <1>1, <1>2, <2>1, <5>1 DEF Between
          <6> QED
            BY <3>1, <5>1, <6>1
        <5>2. CASE n # 0
          <6>1. Between(v)' = Between(v) \cup {r} /\ r \notin Between(v)
            BY <1>1, <1>2, <2>1, <3>4, <5>2 DEF Between
          <6>2. \A q \in Between(v) \cup {r} : Carried[q] \in Nat
            BY <2>3 DEF Between
          <6> QED
            BY <2>3, <3>1, <6>1, <6>2, SumAdd
        <5> QED
          BY <5>1, <5>2
      <4> QED
        BY <1>2, <2>2, <3>4, <4>1, <4>2 DEF UsedBy, DueTo
    <3> QED
      BY <3>3, <3>4
  <2>5. ASSUME NEW v \in Code
        PROVE  IF apiDeaths = 0 THEN voucherBytes[v] + DueTo(v)' = UsedBy(v)'
                                ELSE voucherBytes[v] + DueTo(v)' <= UsedBy(v)'
    <3>1. UsedBy(v) \in Nat /\ DueTo(v) \in Nat /\ voucherBytes[v] \in Nat
      BY Sums, ReportTyped DEF AcctInv
    <3>2. PICK k \in Nat : UsedBy(v)' = UsedBy(v) + k /\ DueTo(v)' = DueTo(v) + k
      BY <2>4
    <3>3. IF apiDeaths = 0 THEN voucherBytes[v] + DueTo(v) = UsedBy(v) ELSE voucherBytes[v] + DueTo(v) <= UsedBy(v)
      BY DEF AcctInv, UsageAddsUp
    <3> QED
      BY <3>1, <3>2, <3>3
  <2> QED
    BY <1>3, <2>2, <2>5 DEF AcctInv, UsageAddsUp
<1> QED
  BY <1>4, <1>5 DEF AcctInv

LEMMA AddToVoucherKeeps ==
    ASSUME Metered, AcctInv, NEW r \in Report, AddToVoucher(r)
    PROVE  AcctInv'
<1>1. report[r] \in Posted /\ report[r].pc = "voucher" /\ report[r].session \in Session
  BY ReportTyped DEF AcctInv, AddToVoucher, Billing
<1> DEFINE n == report[r].bytes
           c == CodeOf[report[r].session]
           p == [report[r] EXCEPT !.pc = "flag"]
<1>2. p \in Posted /\ p.bytes = n /\ p.apps = report[r].apps /\ p.pc = "flag" /\ p.session \in Session /\ n \in Nat /\ c \in Code
  BY <1>1 DEF Posted, Metered
<1>3. /\ report' = [report EXCEPT ![r] = p] /\ voucherBytes' = [voucherBytes EXCEPT ![c] = @ + n]
      /\ UNCHANGED <<open, unopened, sessionBytes, score, flagged, hourly, posted, posts, apiDeaths>>
  BY DEF AddToVoucher
<1> HIDE DEF p, n
<1>4. AccountingTypeOK' /\ Billing'
  <2> HIDE DEF c
  <2>1. voucherBytes' \in [Code -> Nat]
    BY <1>2, <1>3, ReportTyped DEF AcctInv
  <2> QED
    BY <1>2, <1>3, <2>1, GoesOn, ReportTyped DEF AcctInv
<1>5. UsageAddsUp'
  <2>1. report'[r] = p /\ \A q \in Report : q # r => report'[q] = report[q]
    BY <1>2, <1>3, ReportMoves DEF AcctInv
  <2>2. Carried' = Carried /\ ToBeTabled' = ToBeTabled
    <3>1. \A q \in Report : report'[q].bytes = report[q].bytes /\ report'[q].apps = report[q].apps
      BY <1>2, <2>1 DEF n
    <3> QED
      BY <3>1 DEF Carried, ToBeTabled, Tabled
  <2>3. Carried[r] = n /\ \A q \in Report : Carried[q] \in Nat
    BY <1>2, Sums DEF AcctInv, n
  <2>4. ASSUME NEW v \in Code
        PROVE  UsedBy(v)' = UsedBy(v) /\ voucherBytes'[v] + DueTo(v)' = voucherBytes[v] + DueTo(v)
    <3>1. UsedBy(v)' = UsedBy(v)
      BY <1>3 DEF UsedBy
    <3>2. IsFiniteSet(Between(v)) /\ DueTo(v) \in Nat /\ voucherBytes[v] \in Nat
      BY Sums, ReportTyped DEF AcctInv
    <3>3. CASE c # v
      <4>1. Between(v)' = Between(v)
        BY <1>1, <1>2, <2>1, <3>3 DEF Between
      <4>2. voucherBytes'[v] = voucherBytes[v]
        BY <1>3, <3>3, ReportTyped DEF AcctInv
      <4> QED
        BY <2>2, <3>1, <4>1, <4>2 DEF DueTo
    <3>4. CASE c = v
      <4>1. Between(v) = Between(v)' \cup {r} /\ r \notin Between(v)'
        BY <1>1, <1>2, <2>1, <3>4 DEF Between
      <4>2. voucherBytes'[v] = voucherBytes[v] + n
        BY <1>3, <3>4, ReportTyped DEF AcctInv
      <4>3. DueTo(v) = SumOf(Between(v)', Carried) + Carried[r] /\ SumOf(Between(v)', Carried) \in Nat
        <5>1. IsFiniteSet(Between(v)')
          BY <3>2, <4>1, FS_Subset
        <5>2. \A q \in Between(v)' \cup {r} : Carried[q] \in Nat
          BY <2>3, <4>1 DEF Between
        <5>3. SumOf(Between(v)' \cup {r}, Carried) = SumOf(Between(v)', Carried) + Carried[r]
          BY <4>1, <5>1, <5>2, SumAdd
        <5>4. SumOf(Between(v)', Carried) \in Nat
          BY <5>1, <5>2, SumMonotone
        <5> QED
          BY <4>1, <5>3, <5>4 DEF DueTo
      <4>4. DueTo(v)' = SumOf(Between(v)', Carried)
        BY <2>2 DEF DueTo
      <4> QED
        BY <1>2, <2>3, <3>1, <3>2, <4>2, <4>3, <4>4
    <3> QED
      BY <3>3, <3>4
  <2> QED
    BY <1>3, <2>2, <2>4 DEF AcctInv, UsageAddsUp
<1> QED
  BY <1>4, <1>5 DEF AcctInv

LEMMA InsertKeeps ==
    ASSUME Metered, AcctInv, NEW r \in Report, InsertHourly(r)
    PROVE  AcctInv'
<1>1. report[r] \in Posted /\ report[r].pc = "insert" /\ Tabled(report[r]) \in Nat
  BY ReportTyped, TabledTyped DEF AcctInv, InsertHourly, Posted
<1>2. /\ report' = [report EXCEPT ![r] = Waiting] /\ hourly' = hourly + Tabled(report[r])
      /\ UNCHANGED <<open, unopened, sessionBytes, voucherBytes, score, flagged, posted, posts, apiDeaths>>
  BY DEF InsertHourly
<1>3. Waiting.pc = "idle" /\ Waiting.bytes = 0 /\ Tabled(Waiting) = 0
  BY WaitingIsPosted
<1>4. AccountingTypeOK' /\ Billing'
  <2>1. hourly' \in Nat
    BY <1>1, <1>2, ReportTyped DEF AcctInv
  <2> QED
    BY <1>2, <1>3, <2>1, WaitingIsPosted, GoesOn, ReportTyped DEF AcctInv
<1>5. UsageAddsUp'
  <2>1. report'[r] = Waiting /\ \A q \in Report : q # r => report'[q] = report[q]
    BY <1>2, WaitingIsPosted, ReportMoves DEF AcctInv
  <2>2. \A q \in Report : q # r => Carried'[q] = Carried[q]
    BY <2>1 DEF Carried
  <2>5. /\ \A q \in Report : ToBeTabled'[q] \in Nat /\ ToBeTabled[q] \in Nat
        /\ \A q \in Report : q # r => ToBeTabled'[q] = ToBeTabled[q]
        /\ ToBeTabled'[r] = 0 /\ ToBeTabled[r] = Tabled(report[r])
    BY <1>3, <2>1, Sums DEF ToBeTabled, AcctInv
  <2>3. ASSUME NEW v \in Code PROVE DueTo(v)' = DueTo(v) /\ UsedBy(v)' = UsedBy(v)
    <3>1. Between(v)' = Between(v) /\ r \notin Between(v)
      BY <1>1, <1>3, <2>1 DEF Between
    <3>2. \A q \in Between(v) : Carried'[q] = Carried[q]
      BY <2>2, <3>1 DEF Between
    <3>3. SumOf(Between(v), Carried') = SumOf(Between(v), Carried)
      BY <3>2, SumSame
    <3> QED
      BY <1>2, <3>1, <3>3 DEF DueTo, UsedBy
  <2>4. SumOf(Report, ToBeTabled') + Tabled(report[r]) = SumOf(Report, ToBeTabled) + 0
        /\ SumOf(Report, ToBeTabled') \in Nat /\ SumOf(Report, ToBeTabled) \in Nat
    BY <2>5, SumChanged DEF Metered
  <2> QED
    BY <1>1, <1>2, <2>3, <2>4, ReportTyped DEF AcctInv, UsageAddsUp
<1> QED
  BY <1>4, <1>5 DEF AcctInv

LEMMA TurnsKeeps ==
    ASSUME Metered, AcctInv, NEW s \in Maybe(Session), SessionTurns(s)
    PROVE  AcctInv'
<1>1. AccountingTypeOK' /\ Billing'
  BY DEF SessionTurns, AcctInv, AccountingTypeOK, Billing, Metered, Maybe
<1>2. ToBeTabled' = ToBeTabled /\ \A v \in Code : DueTo(v)' = DueTo(v) /\ UsedBy(v)' = UsedBy(v)
  BY DEF SessionTurns, ToBeTabled, Carried, DueTo, UsedBy, Between
<1> QED
  BY <1>1, <1>2 DEF AcctInv, UsageAddsUp, SessionTurns

LEMMA DeathKeeps ==
    ASSUME Metered, AcctInv, ApiDies
    PROVE  AcctInv'
<1>1. /\ apiDeaths' = apiDeaths + 1 /\ apiDeaths' \in 1..MaxApiDeaths /\ report' = [q \in Report |-> Waiting]
      /\ UNCHANGED <<open, unopened, sessionBytes, voucherBytes, score, flagged, hourly, posted, posts>>
  BY ReportTyped DEF ApiDies, AcctInv, Metered
<1>2. AccountingTypeOK' /\ Billing'
  <2>1. report' \in [Report -> [pc : {"idle", "find", "session", "voucher", "flag", "insert"},
                                session : Maybe(Session), bytes : Nat, apps : Maybe(Nat),
                              ttl : Maybe(0..2), was : 0..2]]
    BY <1>1, WaitingIsPosted DEF Posted
  <2>2. AccountingTypeOK'
    BY <1>1, <2>1 DEF AcctInv, AccountingTypeOK
  <2> QED
    BY <1>1, <2>2, WaitingIsPosted DEF Billing
<1>3. ASSUME NEW v \in Code PROVE DueTo(v)' = 0 /\ UsedBy(v)' = UsedBy(v)
  <2>1. Between(v)' = {}
    BY <1>1 DEF Between, Waiting
  <2>2. Coins({}, Carried') = {} /\ Cardinality({}) = 0
    BY FS_EmptySet DEF Coins
  <2> QED
    BY <1>1, <2>1, <2>2 DEF DueTo, UsedBy, SumOf
<1>4. ASSUME NEW v \in Code PROVE voucherBytes'[v] + DueTo(v)' <= UsedBy(v)'
  <2>1. UsedBy(v) \in Nat /\ DueTo(v) \in Nat /\ voucherBytes[v] \in Nat
    BY Sums, ReportTyped DEF AcctInv
  <2> QED
    BY <1>1, <1>3, <2>1 DEF AcctInv, UsageAddsUp
<1> QED
  BY <1>1, <1>2, <1>4 DEF AcctInv, UsageAddsUp

LEMMA AcctStep ==
    ASSUME Metered, AcctInv, AccountingNext
    PROVE  AcctInv'
<1>1. ASSUME NEW r \in Report, ReportStep(r) PROVE AcctInv'
  BY <1>1, FindKeeps, AddToSessionKeeps, AddToVoucherKeeps, FlagKeeps, InsertKeeps DEF ReportStep
<1>2. ASSUME NEW r \in Report, NEW n \in Bytes, NEW apps \in Maybe(Bytes), NEW S \in Sightings, PostReport(r, n, apps, S)
      PROVE  AcctInv'
  BY <1>2, PostKeeps
<1>3. ASSUME NEW s \in Maybe(Session), SessionTurns(s) PROVE AcctInv'
  BY <1>3, TurnsKeeps
<1>4. CASE ApiDies
  BY <1>4, DeathKeeps
<1> QED
  BY <1>1, <1>2, <1>3, <1>4 DEF AccountingNext

LEMMA AcctStays ==
    ASSUME AcctInv, UNCHANGED acctVars
    PROVE  AcctInv'
<1>1. AccountingTypeOK' /\ Billing'
  BY DEF acctVars, AcctInv, AccountingTypeOK, Billing
<1>2. ToBeTabled' = ToBeTabled /\ \A v \in Code : DueTo(v)' = DueTo(v) /\ UsedBy(v)' = UsedBy(v)
  BY DEF acctVars, ToBeTabled, Carried, DueTo, UsedBy, Between
<1> QED
  BY <1>1, <1>2 DEF AcctInv, UsageAddsUp, acctVars

-----------------------------------------------------------------------------
\* Alerts: failed logins over the limit are told.

\* The raisers and subjects the code names are no routers and no addresses.
Named == Login \cap {"routers", "agent", "other"} = {} /\ "login" \notin Watched
Notice == [pc : {"idle", "find", "create", "deliver"}, about : Maybe(Subject),
           word : Maybe({"bad", "info"}), keyed : BOOLEAN]
NoticesTyped == wrong \in Nat /\ note \in [Raiser -> Notice]
\* Only logins raise notices about logins, and all of these have a cooldown.
NoticesOwn ==
    \A p \in Raiser : note[p].pc # "idle" =>
        /\ p \in Login <=> note[p].about = "login"
        /\ p \in Login => note[p].keyed /\ note[p].word \in {"bad", "info"}
GuessInv == NoticesTyped /\ NoticesOwn /\ GuessingIsTold

LEMMA GuessInitially ==
    ASSUME FailedLogins \in Nat \ {0}, AlertsInit
    PROVE  GuessInv
<1>1. Quiet \in Notice
  BY DEF Quiet, Notice, Maybe
<1> QED
  BY <1>1 DEF AlertsInit, GuessInv, NoticesTyped, NoticesOwn, GuessingIsTold, Quiet

LEMMA RaiseTyped ==
    ASSUME NoticesTyped, NoticesOwn, NEW p \in Raiser, NEW s \in Subject, NEW w \in {"bad", "info"},
           NEW keyed \in BOOLEAN, p \in Login <=> s = "login", p \in Login => keyed, Raise(p, s, w, keyed)
    PROVE  /\ note' \in [Raiser -> Notice] /\ NoticesOwn'
           /\ \A q \in Raiser : q = p \/ note'[q] = note[q]
           /\ note[p].pc = "idle"
           /\ note'[p].pc \in {"find", "create"} /\ note'[p].word = w /\ (keyed => note'[p].pc = "find")
<1> DEFINE n == [pc |-> IF keyed THEN "find" ELSE "create", about |-> s, word |-> w, keyed |-> keyed]
<1>1. n \in Notice
  BY DEF Notice, Maybe
<1>2. note[p].pc = "idle" /\ note' = [note EXCEPT ![p] = n]
  BY DEF Raise
<1>3. note \in [Raiser -> Notice]
  BY DEF NoticesTyped
<1>4. n.pc = (IF keyed THEN "find" ELSE "create") /\ n.about = s /\ n.word = w /\ n.keyed = keyed
  OBVIOUS
<1> HIDE DEF n
<1>5. note' \in [Raiser -> Notice] /\ note'[p] = n /\ \A q \in Raiser : q = p \/ note'[q] = note[q]
  BY <1>1, <1>2, <1>3
<1>6. NoticesOwn'
  BY <1>4, <1>5 DEF NoticesOwn
<1> QED
  BY <1>2, <1>4, <1>5, <1>6

LEMMA NoticeSettles ==
    ASSUME NoticesTyped, NoticesOwn, NEW p \in Raiser, NEW pc \in {"create", "deliver"},
           note[p].pc # "idle",
           note' = [note EXCEPT ![p] = Quiet] \/ note' = [note EXCEPT ![p].pc = pc]
    PROVE  /\ note' \in [Raiser -> Notice] /\ NoticesOwn'
           /\ \A q \in Raiser : q = p \/ note'[q] = note[q]
<1>1. Quiet \in Notice /\ Quiet.pc = "idle"
  BY DEF Quiet, Notice, Maybe
<1>2. CASE note' = [note EXCEPT ![p] = Quiet]
  <2>1. note' \in [Raiser -> Notice] /\ note'[p] = Quiet /\ \A q \in Raiser : q = p \/ note'[q] = note[q]
    BY <1>1, <1>2 DEF NoticesTyped
  <2> QED
    BY <1>1, <2>1 DEF NoticesOwn
<1>3. CASE note' = [note EXCEPT ![p].pc = pc]
  <2> DEFINE n == [note[p] EXCEPT !.pc = pc]
  <2>1. n \in Notice /\ n.about = note[p].about /\ n.word = note[p].word /\ n.keyed = note[p].keyed
    BY DEF NoticesTyped, Notice
  <2>2. note' \in [Raiser -> Notice] /\ note'[p] = n /\ \A q \in Raiser : q = p \/ note'[q] = note[q]
    BY <1>3, <2>1 DEF NoticesTyped
  <2> HIDE DEF n
  <2> QED
    BY <2>1, <2>2 DEF NoticesOwn
<1> QED
  BY <1>2, <1>3

LEMMA NoticeStepTells ==
    ASSUME Named, GuessInv, NEW p \in Raiser, FindRecent(p) \/ CreateEvent(p) \/ Deliver(p) \/ LoseNotice(p)
    PROVE  GuessInv'
<1> USE DEF GuessInv
<1>1. note' \in [Raiser -> Notice] /\ NoticesOwn' /\ \A q \in Raiser : q = p \/ note'[q] = note[q]
  <2>1. note[p].pc # "idle"
    BY DEF FindRecent, CreateEvent, Deliver, LoseNotice
  <2>2. \E pc \in {"create", "deliver"} :
            note' = [note EXCEPT ![p] = Quiet] \/ note' = [note EXCEPT ![p].pc = pc]
    BY DEF FindRecent, CreateEvent, Deliver, LoseNotice
  <2> QED
    BY <2>1, <2>2, NoticeSettles
<1>2. wrong' = wrong
  BY DEF FindRecent, CreateEvent, Deliver, LoseNotice
<1>3. Login \subseteq Raiser
  BY DEF Raiser
<1>4. CASE p \notin Login
  <2>1. note[p].pc # "idle" => note[p].about # "login"
    BY <1>4 DEF NoticesOwn
  <2>2. "login" \in excused => "login" \in excused'
    BY <2>1 DEF FindRecent, CreateEvent, Deliver, LoseNotice, Tells, eventVars
  <2>3. recent \subseteq recent'
    BY DEF FindRecent, CreateEvent, Deliver, LoseNotice, eventVars
  <2> QED
    BY <1>1, <1>2, <1>3, <1>4, <2>2, <2>3 DEF NoticesTyped, GuessingIsTold
<1>5. CASE p \in Login
  <2> DEFINE bad == note[p].word = "bad"
  <2>1. note[p].pc # "idle" => note[p].about = "login" /\ note[p].keyed
    BY <1>5 DEF NoticesOwn
  <2>2. KeyOf(note[p]) = [about |-> note[p].about, word |-> note[p].word]
    BY DEF KeyOf
  <2>3. ~bad /\ note[p].pc # "idle" => Tells(note[p]) = {}
    BY <2>1, <1>5 DEF NoticesOwn, Tells
  <2>4. recent \subseteq recent'
    BY DEF FindRecent, CreateEvent, Deliver, LoseNotice, eventVars
  <2>5. bad /\ note[p].pc # "idle" => Tells(note[p]) = {"login"}
    BY <2>1 DEF Tells
  <2>6. CASE ~bad \/ Deliver(p)
    <3>1. excused' = excused
      BY <2>3, <2>6 DEF FindRecent, CreateEvent, Deliver, LoseNotice, eventVars
    <3> QED
      BY <1>1, <1>2, <1>3, <2>4, <2>6, <3>1 DEF NoticesTyped, GuessingIsTold, Deliver
  <2>7. CASE bad /\ FindRecent(p)
    <3>1. CASE KeyOf(note[p]) \in recent
      BY <1>1, <1>2, <2>1, <2>2, <2>4, <2>7, <3>1 DEF NoticesTyped, GuessingIsTold, FindRecent
    <3>2. CASE KeyOf(note[p]) \notin recent
      <4>1. note'[p].pc = "create" /\ note'[p].word = "bad"
        BY <2>7, <3>2 DEF FindRecent, NoticesTyped, Notice
      <4> QED
        BY <1>1, <1>2, <1>5, <4>1 DEF NoticesTyped, GuessingIsTold
    <3> QED
      BY <3>1, <3>2
  <2>8. CASE bad /\ CreateEvent(p)
    <3>1. [about |-> "login", word |-> "bad"] \in recent'
      BY <2>1, <2>2, <2>8 DEF CreateEvent
    <3> QED
      BY <1>1, <1>2, <3>1 DEF NoticesTyped, GuessingIsTold
  <2>9. CASE bad /\ LoseNotice(p)
    <3>1. "login" \in excused'
      BY <2>5, <2>9 DEF LoseNotice
    <3> QED
      BY <1>1, <1>2, <3>1 DEF NoticesTyped, GuessingIsTold
  <2> QED
    BY <2>6, <2>7, <2>8, <2>9
<1> QED
  BY <1>4, <1>5

LEMMA RaisedElsewhere ==
    ASSUME Named, GuessInv, NEW p \in Raiser \ Login, NEW s \in Subject \ {"login"},
           NEW w \in {"bad", "info"}, NEW keyed \in BOOLEAN, Raise(p, s, w, keyed),
           wrong' = wrong, recent' = recent, excused \subseteq excused'
    PROVE  GuessInv'
<1>1. note' \in [Raiser -> Notice] /\ NoticesOwn' /\ \A q \in Raiser : q = p \/ note'[q] = note[q]
  BY RaiseTyped DEF GuessInv
<1>2. Login \subseteq Raiser
  BY DEF Raiser
<1> QED
  BY <1>1, <1>2 DEF GuessInv, NoticesTyped, GuessingIsTold

LEMMA GuessStands ==
    ASSUME GuessInv, UNCHANGED <<wrong, note, recent>>, excused \subseteq excused'
    PROVE  GuessInv'
  BY DEF GuessInv, NoticesTyped, NoticesOwn, GuessingIsTold

LEMMA MonitorTells ==
    ASSUME Named, GuessInv, MonitorStep \/ AgentStep \/ CheckSmsFailures \/ DailySummary \/ HostAlert
    PROVE  GuessInv'
<1>1. /\ {"routers", "agent", "other"} \subseteq Raiser \ Login
      /\ Watched \cup {"agent", "other"} \subseteq Subject \ {"login"}
  BY DEF Named, Raiser, Subject
<1>2. CASE CheckRouters
  BY <1>2, GuessStands DEF CheckRouters, eventVars
<1>3. CASE \E r \in Watched : LookAt(r)
  <2>1. PICK r \in Watched : LookAt(r)
    BY <1>3
  <2>2. UNCHANGED <<wrong, recent>> /\ excused \subseteq excused'
    BY <2>1 DEF LookAt
  <2>3. CASE UNCHANGED note
    BY <2>2, <2>3, GuessStands
  <2>4. CASE Raise("routers", r, IF pass[r] THEN "info" ELSE "bad", ~pass[r])
    <3> DEFINE w == IF pass[r] THEN "info" ELSE "bad"
               keyed == ~pass[r]
    <3>1. w \in {"bad", "info"} /\ keyed \in BOOLEAN
      OBVIOUS
    <3>2. Raise("routers", r, w, keyed)
      BY <2>4
    <3> HIDE DEF w, keyed
    <3> QED
      BY <1>1, <2>2, <3>1, <3>2, RaisedElsewhere
  <2> QED
    BY <2>1, <2>3, <2>4 DEF LookAt
<1>4. CASE CheckAgent
  <2>1. UNCHANGED <<wrong, recent, excused>>
    BY <1>4 DEF CheckAgent, eventVars
  <2>2. \/ UNCHANGED note
        \/ Raise("agent", "agent", "info", FALSE)
        \/ Raise("agent", "agent", "bad", TRUE)
    BY <1>4 DEF CheckAgent
  <2> QED
    BY <1>1, <2>1, <2>2, GuessStands, RaisedElsewhere
<1>5. CASE AgentRecovered
  BY <1>5, GuessStands DEF AgentRecovered, eventVars
<1>6. CASE CheckSmsFailures
  BY <1>1, <1>6, RaisedElsewhere DEF CheckSmsFailures, eventVars
<1>7. CASE DailySummary
  BY <1>1, <1>7, RaisedElsewhere DEF DailySummary, eventVars
<1>8. CASE HostAlert
  BY <1>1, <1>8, RaisedElsewhere DEF HostAlert, eventVars
<1> QED
  BY <1>2, <1>3, <1>4, <1>5, <1>6, <1>7, <1>8 DEF MonitorStep, AgentStep

LEMMA LoginTells ==
    ASSUME FailedLogins \in Nat \ {0}, GuessInv, LoginFails \/ LoginSucceeds \/ WrongAge
    PROVE  GuessInv'
<1>1. Login \subseteq Raiser /\ "login" \in Subject
  BY DEF Raiser, Subject
<1>2. ASSUME NEW p \in Login, NEW w \in {"bad", "info"}, Raise(p, "login", w, TRUE)
      PROVE  /\ note' \in [Raiser -> Notice] /\ NoticesOwn'
             /\ note'[p].pc = "find" /\ note'[p].word = w
  BY <1>1, <1>2, RaiseTyped DEF GuessInv
<1>3. CASE LoginFails
  <2>1. wrong' \in Nat
    BY <1>3 DEF LoginFails, GuessInv, NoticesTyped
  <2>2. CASE wrong' >= FailedLogins
    <3>1. PICK p \in Login : Raise(p, "login", "bad", TRUE)
      BY <1>3, <2>2 DEF LoginFails
    <3> QED
      BY <1>2, <2>1, <3>1 DEF GuessInv, NoticesTyped, GuessingIsTold
  <2>3. CASE ~(wrong' >= FailedLogins)
    <3>1. note' = note
      BY <1>3, <2>3 DEF LoginFails
    <3> QED
      BY <2>1, <2>3, <3>1 DEF GuessInv, NoticesTyped, NoticesOwn, GuessingIsTold
  <2> QED
    BY <2>2, <2>3
<1>4. CASE LoginSucceeds
  <2>1. PICK p \in Login : Raise(p, "login", "info", TRUE)
    BY <1>4 DEF LoginSucceeds
  <2>2. wrong' = 0
    BY <1>4 DEF LoginSucceeds
  <2>3. note' \in [Raiser -> Notice] /\ NoticesOwn'
    BY <1>2, <2>1
  <2>4. GuessingIsTold'
    BY <2>2 DEF GuessingIsTold
  <2> QED
    BY <2>2, <2>3, <2>4 DEF GuessInv, NoticesTyped
<1>5. CASE WrongAge
  BY <1>5 DEF WrongAge, GuessInv, NoticesTyped, NoticesOwn, GuessingIsTold, eventVars
<1> QED
  BY <1>3, <1>4, <1>5

LEMMA GuessStep ==
    ASSUME Named, FailedLogins \in Nat \ {0}, GuessInv, AlertsNext
    PROVE  GuessInv'
<1>1. CASE \E p \in Raiser : NoticeStep(p) \/ LoseNotice(p)
  BY <1>1, NoticeStepTells DEF NoticeStep
<1>2. CASE \E k \in Key : CooldownEnds(k)
  BY <1>2 DEF CooldownEnds, GuessInv, NoticesTyped, NoticesOwn, GuessingIsTold
<1>3. CASE MonitorStep \/ AgentStep \/ CheckSmsFailures \/ DailySummary \/ HostAlert
  BY <1>3, MonitorTells
<1>4. CASE LoginFails \/ LoginSucceeds \/ WrongAge
  BY <1>4, LoginTells
<1>5. CASE (\E r \in Watched : Beat(r)) \/ AgentTurns \/ SendOther
  BY <1>5, GuessStands DEF Beat, AgentTurns, SendOther, routerVars, eventVars
<1>6. CASE AlertsRestart
  <2>1. Quiet \in Notice /\ Quiet.pc = "idle"
    BY DEF Quiet, Notice, Maybe
  <2>2. wrong' = 0 /\ note' = [p \in Raiser |-> Quiet]
    BY <1>6 DEF AlertsRestart
  <2> QED
    BY <2>1, <2>2 DEF GuessInv, NoticesTyped, NoticesOwn, GuessingIsTold
<1>7. Login \cup {"routers", "agent", "other"} \subseteq Raiser
  BY DEF Raiser
<1>8. ASSUME NEW P, P \subseteq Raiser, NEW about, Notices(P, about) PROVE GuessInv'
  BY <1>1, <1>2, <1>8 DEF Notices
<1> QED
  BY <1>3, <1>4, <1>5, <1>6, <1>7, <1>8 DEF AlertsNext, RoutersNext, AgentNext, LoginNext, OtherNext

LEMMA GuessStays ==
    ASSUME GuessInv, UNCHANGED alertsVars
    PROVE  GuessInv'
  BY GuessStands DEF alertsVars, routerVars, checkVars, eventVars

-----------------------------------------------------------------------------
\* Alerts: a notice under way has a subject and a word.
Alerting == {AgentFailures, FailedLogins, MaxApiRestarts} \subseteq Nat
NotesTyped == /\ note \in [Raiser -> Notice]
            /\ \A p \in Raiser : note[p].pc # "idle" => note[p].about \in Subject /\ note[p].word \in {"bad", "info"}
RoutersTyped == beating \subseteq Watched /\ {known, pass} \subseteq [Watched -> Maybe(BOOLEAN)]
ChecksTyped ==
    /\ agentUp \in BOOLEAN /\ failures \in 0..AgentFailures /\ downAlerted \in BOOLEAN
    /\ agentPc \in {"idle", "recovered"}
EventsTyped ==
    /\ recent \subseteq Key /\ last \in [Subject -> Maybe({"bad", "info"})] /\ excused \subseteq Subject
CountsTyped == wrong \in 0..FailedLogins /\ smsFailed \in BOOLEAN /\ apiRestarts \in 0..MaxApiRestarts
AlertsTypes == RoutersTyped /\ ChecksTyped /\ EventsTyped /\ CountsTyped /\ NotesTyped

LEMMA AlertsInitially ==
    ASSUME Alerting, AlertsInit
    PROVE  AlertsTypes
<1>1. Quiet \in Notice /\ Quiet.pc = "idle"
  BY DEF Quiet, Notice, Maybe
<1>2. NotesTyped
  BY <1>1 DEF AlertsInit, NotesTyped
<1>3. RoutersTyped
  BY DEF AlertsInit, RoutersTyped, Maybe
<1>4. ChecksTyped /\ CountsTyped
  <2>1. failures \in 0..AgentFailures /\ wrong \in 0..FailedLogins /\ apiRestarts \in 0..MaxApiRestarts
    BY DEF AlertsInit, Alerting
  <2> QED
    BY <2>1 DEF AlertsInit, ChecksTyped, CountsTyped
<1>5. EventsTyped
  BY DEF AlertsInit, EventsTyped, Maybe
<1> QED
  BY <1>2, <1>3, <1>4, <1>5 DEF AlertsTypes

LEMMA AlertsAreTyped == AlertsTypes => AlertsTypeOK
  BY DEF AlertsTypes, AlertsTypeOK, RoutersTyped, ChecksTyped, EventsTyped, CountsTyped, NotesTyped, Notice

LEMMA NoteChanges ==
    ASSUME NotesTyped, NEW p \in Raiser, NEW n \in Notice,
           n.pc # "idle" => n.about \in Subject /\ n.word \in {"bad", "info"},
           note' = [note EXCEPT ![p] = n]
    PROVE  NotesTyped'
  BY DEF NotesTyped

LEMMA NoteQuiet ==
    ASSUME NotesTyped, NEW p \in Raiser, note' = [note EXCEPT ![p] = Quiet]
    PROVE  NotesTyped'
<1>1. Quiet \in Notice /\ Quiet.pc = "idle"
  BY DEF Quiet, Notice, Maybe
<1> QED
  BY <1>1, NoteChanges

LEMMA NoteGoesOn ==
    ASSUME NotesTyped, NEW p \in Raiser, NEW pc \in {"create", "deliver"}, note[p].pc # "idle",
           note' = [note EXCEPT ![p].pc = pc]
    PROVE  NotesTyped'
<1> DEFINE n == [note[p] EXCEPT !.pc = pc]
<1>1. n \in Notice /\ n.about = note[p].about /\ n.word = note[p].word
  BY DEF NotesTyped, Notice
<1>2. note' = [note EXCEPT ![p] = n]
  BY DEF NotesTyped
<1> HIDE DEF n
<1>3. n.about \in Subject /\ n.word \in {"bad", "info"}
  BY <1>1 DEF NotesTyped
<1> QED
  BY <1>1, <1>2, <1>3, NoteChanges

LEMMA NoteRaised ==
    ASSUME NotesTyped, NEW p \in Raiser, NEW s \in Subject, NEW w \in {"bad", "info"}, NEW keyed \in BOOLEAN,
           Raise(p, s, w, keyed)
    PROVE  NotesTyped'
<1> DEFINE n == [pc |-> IF keyed THEN "find" ELSE "create", about |-> s, word |-> w, keyed |-> keyed]
<1>1. n \in Notice /\ n.about = s /\ n.word = w
  BY DEF Notice, Maybe
<1>2. note' = [note EXCEPT ![p] = n]
  BY DEF Raise
<1> HIDE DEF n
<1> QED
  BY <1>1, <1>2, NoteChanges

LEMMA SentTyped == smsFailed \in BOOLEAN => Sent \subseteq BOOLEAN
<1> SUFFICES ASSUME smsFailed \in BOOLEAN, NEW x \in Sent PROVE x \in BOOLEAN
  OBVIOUS
<1>1. PICK ways \in SUBSET {"whatsapp", "sms"} : x \in Send(ways)
  BY DEF Sent
<1>2. \A outcome : SendNow(outcome) \in BOOLEAN
  BY DEF SendNow
<1> QED
  BY <1>1, <1>2 DEF Send

LEMMA NoticeStepTyped ==
    ASSUME AlertsTypes, NEW p \in Raiser, NoticeStep(p) \/ LoseNotice(p)
    PROVE  AlertsTypes'
<1>1. note[p] \in Notice
  BY DEF AlertsTypes, NotesTyped
<1>2. ASSUME note[p].pc # "idle"
      PROVE  Tells(note[p]) \subseteq Subject /\ KeyOf(note[p]) \in Key
  BY <1>2 DEF AlertsTypes, NotesTyped, Tells, KeyOf, Key
<1>3. CASE FindRecent(p)
  <2>1. note[p].pc # "idle"
    BY <1>3 DEF FindRecent
  <2>2. NotesTyped'
    BY <1>3, <2>1, NoteQuiet, NoteGoesOn DEF FindRecent, AlertsTypes
  <2> QED
    BY <1>2, <1>3, <2>1, <2>2 DEF FindRecent, AlertsTypes, RoutersTyped, ChecksTyped, EventsTyped, CountsTyped,
       routerVars, checkVars
<1>4. CASE CreateEvent(p)
  <2>1. note[p].pc # "idle" /\ note' = [note EXCEPT ![p].pc = "deliver"]
    BY <1>4 DEF CreateEvent
  <2>2. NotesTyped'
    BY <2>1, NoteGoesOn DEF AlertsTypes
  <2>3. note[p].about \in Subject /\ note[p].word \in {"bad", "info"}
    BY <2>1 DEF AlertsTypes, NotesTyped
  <2>4. last' \in [Subject -> Maybe({"bad", "info"})]
    BY <1>4, <2>3 DEF CreateEvent, AlertsTypes, EventsTyped, Maybe
  <2>5. recent' \subseteq Key /\ excused' \subseteq Subject
    BY <1>2, <1>4, <2>1 DEF CreateEvent, AlertsTypes, EventsTyped
  <2> QED
    BY <1>4, <2>2, <2>4, <2>5 DEF CreateEvent, AlertsTypes, RoutersTyped, ChecksTyped, EventsTyped, CountsTyped,
       routerVars, checkVars
<1>5. CASE Deliver(p)
  <2>1. NotesTyped'
    BY <1>5, NoteQuiet DEF Deliver, AlertsTypes
  <2>2. smsFailed' \in BOOLEAN
    BY <1>5, SentTyped DEF Deliver, AlertsTypes, CountsTyped
  <2> QED
    BY <1>5, <2>1, <2>2 DEF Deliver, AlertsTypes, RoutersTyped, ChecksTyped, EventsTyped, CountsTyped,
       routerVars, checkVars, eventVars
<1>6. CASE LoseNotice(p)
  <2>1. NotesTyped' /\ note[p].pc # "idle"
    BY <1>6, NoteQuiet DEF LoseNotice, AlertsTypes
  <2> QED
    BY <1>2, <1>6, <2>1 DEF LoseNotice, AlertsTypes, RoutersTyped, ChecksTyped, EventsTyped, CountsTyped,
       routerVars, checkVars
<1> QED
  BY <1>3, <1>4, <1>5, <1>6 DEF NoticeStep

LEMMA LookAtTyped ==
    ASSUME AlertsTypes, NEW r \in Watched, LookAt(r)
    PROVE  AlertsTypes'
<1>1. pass[r] \in BOOLEAN
  BY DEF LookAt, AlertsTypes, RoutersTyped, Maybe
<1>2. "routers" \in Raiser /\ r \in Subject
  BY DEF Raiser, Subject
<1>3. known' \in [Watched -> Maybe(BOOLEAN)] /\ pass' \in [Watched -> Maybe(BOOLEAN)]
  BY <1>1 DEF LookAt, AlertsTypes, RoutersTyped, Maybe
<1>4. NotesTyped'
  <2>1. CASE UNCHANGED note
    BY <2>1 DEF AlertsTypes, NotesTyped
  <2> DEFINE w == IF pass[r] THEN "info" ELSE "bad"
             keyed == ~pass[r]
  <2>2. CASE Raise("routers", r, w, keyed)
    <3>1. w \in {"bad", "info"} /\ keyed \in BOOLEAN
      BY <1>1
    <3> HIDE DEF w, keyed
    <3> QED
      BY <1>2, <2>2, <3>1, NoteRaised DEF AlertsTypes
  <2> QED
    BY <2>1, <2>2 DEF LookAt
<1>5. excused' \subseteq Subject
  BY <1>2 DEF LookAt, AlertsTypes, EventsTyped
<1> QED
  BY <1>3, <1>4, <1>5 DEF LookAt, AlertsTypes, RoutersTyped, ChecksTyped, EventsTyped, CountsTyped, checkVars

LEMMA ChecksStepTyped ==
    ASSUME Alerting, AlertsTypes, AgentStep
    PROVE  AlertsTypes'
<1>1. "agent" \in Raiser /\ "agent" \in Subject
  BY DEF Raiser, Subject
<1>2. CASE CheckAgent
  <2>1. NotesTyped'
    BY <1>1, <1>2, NoteRaised DEF CheckAgent, AlertsTypes, NotesTyped
  <2>2. failures' \in 0..AgentFailures
    <3>1. failures' = failures \/ failures' = 0
          \/ failures' = IF failures < AgentFailures THEN failures + 1 ELSE failures
      BY <1>2 DEF CheckAgent
    <3> QED
      BY <3>1 DEF AlertsTypes, ChecksTyped, Alerting
  <2>3. downAlerted' \in BOOLEAN /\ agentPc' \in {"idle", "recovered"}
    BY <1>2 DEF CheckAgent, AlertsTypes, ChecksTyped
  <2> QED
    BY <1>2, <2>1, <2>2, <2>3 DEF CheckAgent, AlertsTypes, RoutersTyped, ChecksTyped, EventsTyped, CountsTyped,
       routerVars, eventVars
<1>3. CASE AgentRecovered
  <2>1. failures' \in 0..AgentFailures
    BY <1>3 DEF AgentRecovered, Alerting
  <2> QED
    BY <1>3, <2>1 DEF AgentRecovered, AlertsTypes, RoutersTyped, ChecksTyped, EventsTyped, CountsTyped,
       routerVars, eventVars, NotesTyped
<1> QED
  BY <1>2, <1>3 DEF AgentStep

LEMMA OtherRaisesTyped ==
    ASSUME AlertsTypes, CheckSmsFailures \/ DailySummary \/ HostAlert \/ SendOther
    PROVE  AlertsTypes'
<1>1. "other" \in Raiser /\ "other" \in Subject
  BY DEF Raiser, Subject
<1>2. NotesTyped'
  BY <1>1, NoteRaised DEF CheckSmsFailures, DailySummary, HostAlert, SendOther, AlertsTypes, NotesTyped
<1>3. smsFailed' \in BOOLEAN
  BY SentTyped DEF CheckSmsFailures, DailySummary, HostAlert, SendOther, AlertsTypes, CountsTyped
<1> QED
  BY <1>2, <1>3 DEF CheckSmsFailures, DailySummary, HostAlert, SendOther, AlertsTypes, RoutersTyped, ChecksTyped,
     EventsTyped, CountsTyped, routerVars, checkVars, eventVars

LEMMA LoginsTyped ==
    ASSUME Alerting, AlertsTypes, LoginFails \/ LoginSucceeds \/ WrongAge
    PROVE  AlertsTypes'
<1>1. Login \subseteq Raiser /\ "login" \in Subject
  BY DEF Raiser, Subject
<1>2. NotesTyped'
  BY <1>1, NoteRaised DEF LoginFails, LoginSucceeds, WrongAge, AlertsTypes, NotesTyped
<1>3. wrong' \in 0..FailedLogins
  <2>1. wrong' = 0 \/ (wrong > 0 /\ wrong' = wrong - 1)
        \/ wrong' = IF wrong < FailedLogins THEN wrong + 1 ELSE wrong
    BY DEF LoginFails, LoginSucceeds, WrongAge
  <2> QED
    BY <2>1 DEF AlertsTypes, CountsTyped, Alerting
<1> QED
  BY <1>2, <1>3 DEF LoginFails, LoginSucceeds, WrongAge, AlertsTypes, RoutersTyped, ChecksTyped,
     EventsTyped, CountsTyped, routerVars, checkVars, eventVars

LEMMA RestartTyped ==
    ASSUME Alerting, AlertsTypes, AlertsRestart
    PROVE  AlertsTypes'
<1>1. Quiet \in Notice /\ Quiet.pc = "idle"
  BY DEF Quiet, Notice, Maybe
<1>2. NotesTyped'
  BY <1>1 DEF AlertsRestart, NotesTyped
<1>3. excused' \subseteq Subject
  <2>1. \A p \in Raiser : note[p].pc \in {"find", "create"} => Tells(note[p]) \subseteq Subject
    BY DEF AlertsTypes, NotesTyped, Tells
  <2> QED
    BY <2>1 DEF AlertsRestart, AlertsTypes, EventsTyped
<1>4. RoutersTyped'
  BY DEF AlertsRestart, AlertsTypes, RoutersTyped, Maybe
<1>5. failures' \in 0..AgentFailures /\ wrong' \in 0..FailedLogins /\ apiRestarts' \in 0..MaxApiRestarts
  BY DEF AlertsRestart, AlertsTypes, CountsTyped, Alerting
<1> QED
  BY <1>2, <1>3, <1>4, <1>5 DEF AlertsRestart, AlertsTypes, ChecksTyped, EventsTyped, CountsTyped

LEMMA AlertsStepTyped ==
    ASSUME Alerting, AlertsTypes, AlertsNext
    PROVE  AlertsTypes'
<1>1. Login \subseteq Raiser /\ {"routers", "agent", "other"} \subseteq Raiser
  BY DEF Raiser
<1>2. ASSUME NEW P \in SUBSET Raiser, NEW about, Notices(P, about)
      PROVE  AlertsTypes'
  <2>1. ASSUME NEW k \in Key, CooldownEnds(k) PROVE AlertsTypes'
    BY <2>1 DEF CooldownEnds, AlertsTypes, RoutersTyped, ChecksTyped, EventsTyped, CountsTyped,
       routerVars, checkVars, NotesTyped
  <2> QED
    BY <1>2, <2>1, NoticeStepTyped DEF Notices
<1>3. CASE CheckRouters
  BY <1>3 DEF CheckRouters, AlertsTypes, RoutersTyped, ChecksTyped, EventsTyped, CountsTyped,
     checkVars, eventVars, NotesTyped, Maybe
<1>4. ASSUME NEW r \in Watched, Beat(r) PROVE AlertsTypes'
  BY <1>4 DEF Beat, AlertsTypes, RoutersTyped, ChecksTyped, EventsTyped, CountsTyped,
     checkVars, eventVars, NotesTyped
<1>5. CASE AgentTurns
  BY <1>5 DEF AgentTurns, AlertsTypes, RoutersTyped, ChecksTyped, EventsTyped, CountsTyped,
     routerVars, eventVars, NotesTyped
<1> QED
  BY <1>1, <1>2, <1>3, <1>4, <1>5, LookAtTyped, ChecksStepTyped, OtherRaisesTyped, LoginsTyped, RestartTyped
  DEF AlertsNext, RoutersNext, AgentNext, LoginNext, OtherNext, MonitorStep

LEMMA AlertsStayTyped ==
    ASSUME AlertsTypes, UNCHANGED alertsVars
    PROVE  AlertsTypes'
  BY DEF alertsVars, routerVars, checkVars, eventVars, AlertsTypes, RoutersTyped, ChecksTyped, EventsTyped,
     CountsTyped, NotesTyped

-----------------------------------------------------------------------------
\* Claude bridge: an agent resumes a session of its own folder and engine, and
\* a sign-in code goes to the newest login.

Conversation == [cwd : Folder, sid : Maybe(Sid), engine : Maybe(Engine)]
Kept == [cwd : Folder, engine : Engine]
TurnRecord == [pc : {"idle", "queued", "run", "link", "code", "answered"}, conv : Maybe(Conv),
          engine : Maybe(Engine), input : Maybe(Inputs), from : Maybe(Sid), sid : Maybe(Sid),
          login : Nat, late : BOOLEAN, api : {"idle", "waiting", "replied", "unreached"},
          reply : Maybe({"menu", "link", "code", "text", "error", "stopped", "gone"})]
\* A missing value and a session that is gone are neither ids nor sessions.
Bridge ==
    /\ Inputs \subseteq Input /\ Home \in Folder
    /\ None \notin Sid \cup Engine /\ None # Gone
    /\ None \notin Kept /\ Gone \notin Kept
BridgeTyped ==
    /\ conv \in [Conv -> Conversation] /\ file \in [Conv -> Conversation]
    /\ store \in [Sid -> {None, Gone} \cup Kept]
    /\ queue \in [Conv -> Seq(Turn)]
    /\ turn \in [Turn -> TurnRecord]
    /\ \A t \in Turn : Busy(t) => turn[t].conv \in Conv /\ turn[t].engine \in Engine /\ turn[t].input \in Inputs
LoginTyped == login \in Seq({"open", "closed"}) /\ pending \in Nat
\* A turn that is not answered waits in its conversation's queue, and what is
\* at work is at the head of it.
InQueue == \A t \in Turn : Busy(t) => \E n \in 1..Len(queue[turn[t].conv]) : queue[turn[t].conv][n] = t
AtWork(t) == turn[t].pc \in {"run", "link", "code"}
AtHead == \A t \in Turn : AtWork(t) => Head(queue[turn[t].conv]) = t
\* The conversation keeps the engine of the run it waits for ...
EngineKept == \A t \in Turn : turn[t].pc = "run" => conv[turn[t].conv].engine = turn[t].engine
\* ... and has only sessions of its own folder and engine, also in the file
\* that a crash brings back.
Owned(c) ==
    c.sid # None => /\ store[c.sid] # None
                    /\ store[c.sid] \in {Gone, [cwd |-> c.cwd, engine |-> c.engine]}
SessionsOwned == \A c \in Conv : Owned(conv[c]) /\ Owned(file[c])
TurnsInv == BridgeTyped /\ InQueue /\ AtHead /\ EngineKept /\ SessionsOwned /\ ResumesOwn
LoginInv == LoginTyped /\ LoginIsLatest

\* Logins.
LEMMA LoginInitially ==
    ASSUME BridgeInit
    PROVE  LoginInv
  BY DEF BridgeInit, LoginInv, LoginTyped, LoginIsLatest

LEMMA LoginStarts ==
    ASSUME LoginInv, NEW t, StartLogin(t)
    PROVE  LoginInv'
<1>1. login \in Seq({"open", "closed"}) /\ login' = Append(login, "open") /\ pending' = Len(login')
  BY DEF LoginInv, LoginTyped, StartLogin
<1>2. login' \in Seq({"open", "closed"}) /\ Len(login') = Len(login) + 1 /\ Len(login) \in Nat
      /\ login'[Len(login')] = "open" /\ login' # <<>>
  BY <1>1
<1> QED
  BY <1>1, <1>2 DEF LoginInv, LoginTyped, LoginIsLatest

LEMMA LoginEnds ==
    ASSUME LoginInv, NEW l \in DOMAIN login, LoginCloses(l)
    PROVE  LoginInv'
<1>1. login \in Seq({"open", "closed"}) /\ Len(login) \in Nat /\ l \in 1..Len(login) /\ login # <<>>
  BY DEF LoginInv, LoginTyped
<1>2. login' = [login EXCEPT ![l] = "closed"] /\ login[l] = "open"
  BY DEF LoginCloses
<1>3. login' \in Seq({"open", "closed"}) /\ Len(login') = Len(login)
      /\ login'[Len(login)] = (IF l = Len(login) THEN "closed" ELSE login[Len(login)])
  BY <1>1, <1>2
<1>4. login' # <<>>
  BY <1>1, <1>3
<1>5. pending = IF login[Len(login)] = "open" THEN Len(login) ELSE 0
  BY <1>1 DEF LoginInv, LoginIsLatest
<1>6. pending' = IF pending = l THEN 0 ELSE pending
  BY DEF LoginCloses, StillPending
<1>7. pending' = IF login'[Len(login)] = "open" THEN Len(login) ELSE 0
  BY <1>1, <1>2, <1>3, <1>5, <1>6
<1> QED
  BY <1>1, <1>3, <1>4, <1>7 DEF LoginInv, LoginTyped, LoginIsLatest

LEMMA LoginsDie ==
    ASSUME LoginInv, NEW torn \in BOOLEAN, Crash(torn)
    PROVE  LoginInv'
<1>1. login \in Seq({"open", "closed"}) /\ Len(login) \in Nat /\ DOMAIN login = 1..Len(login)
  BY DEF LoginInv, LoginTyped
<1>2. login' = [l \in 1..Len(login) |-> "closed"] /\ pending' = 0
  BY <1>1 DEF Crash
<1>3. login' \in Seq({"open", "closed"}) /\ Len(login') = Len(login)
      /\ \A l \in 1..Len(login) : login'[l] = "closed"
  BY <1>1, <1>2
<1>4. login' # <<>> => login'[Len(login')] = "closed"
  BY <1>1, <1>3
<1> QED
  BY <1>2, <1>3, <1>4 DEF LoginInv, LoginTyped, LoginIsLatest

LEMMA LoginStep ==
    ASSUME LoginInv, BridgeNext
    PROVE  LoginInv'
<1>1. CASE UNCHANGED <<login, pending>>
  BY <1>1 DEF LoginInv, LoginTyped, LoginIsLatest
<1>2. CASE \E t \in Turn : StartLogin(t)
  BY <1>2, LoginStarts
<1>3. CASE \E l \in DOMAIN login : LoginCloses(l)
  BY <1>3, LoginEnds
<1>4. CASE \E torn \in BOOLEAN : Crash(torn)
  BY <1>4, LoginsDie
<1> QED
  BY <1>1, <1>2, <1>3, <1>4
    DEF BridgeNext, TurnStep, Post, Command, LinkKnown, SendCode, CodeDone, Run, RunEnds, GiveUp, CleanUp

\* Turns.
LEMMA TurnRecordExcept ==
    ASSUME NEW q \in TurnRecord, NEW pc \in {"idle", "queued", "run", "link", "code", "answered"},
           NEW heard \in {"idle", "waiting", "replied", "unreached"}, NEW sid \in Maybe(Sid),
           NEW n \in Nat, NEW r \in Maybe({"menu", "link", "code", "text", "error", "stopped", "gone"})
    PROVE  /\ [q EXCEPT !.pc = pc, !.login = n] \in TurnRecord
           /\ [q EXCEPT !.pc = pc, !.from = sid, !.sid = sid] \in TurnRecord
           /\ [q EXCEPT !.sid = sid, !.late = TRUE] \in TurnRecord
           /\ [q EXCEPT !.pc = pc, !.reply = r, !.api = heard] \in TurnRecord
           /\ [q EXCEPT !.pc = pc, !.api = heard] \in TurnRecord
           /\ [q EXCEPT !.api = heard] \in TurnRecord
  BY DEF TurnRecord

\* What a step of one turn changes of the others' view of it.
Alike(p, q) == p.conv = q.conv /\ p.engine = q.engine /\ p.input = q.input

LEMMA TurnsInitially ==
    ASSUME Bridge, BridgeInit
    PROVE  TurnsInv
<1>1. Fresh \in Conversation /\ Fresh.sid = None
  BY DEF Fresh, Conversation, Maybe, Bridge
<1>2. Ready \in TurnRecord /\ Ready.pc = "idle"
  BY DEF Ready, TurnRecord, Maybe
<1>3. \A c \in Conv : conv[c] = Fresh /\ file[c] = Fresh
  BY DEF BridgeInit
<1>4. \A t \in Turn : turn[t] = Ready
  BY DEF BridgeInit
<1>5. BridgeTyped
  BY <1>1, <1>2, <1>4 DEF BridgeInit, BridgeTyped, Busy
<1> QED
  BY <1>1, <1>2, <1>3, <1>4, <1>5
    DEF TurnsInv, InQueue, AtHead, AtWork, EngineKept, SessionsOwned, Owned, ResumesOwn, Busy

\* What Answered and a step that goes on leave of the turns.
LEMMA AnsweredTurns ==
    ASSUME NEW f \in [Turn -> TurnRecord], NEW t \in Turn,
           NEW r \in {"menu", "link", "code", "text", "error", "stopped", "gone"}
    PROVE  /\ Answered(f, t, r) \in [Turn -> TurnRecord]
           /\ \A x \in Turn : x # t => Answered(f, t, r)[x] = f[x]
           /\ Alike(Answered(f, t, r)[t], f[t]) /\ Answered(f, t, r)[t].pc = "answered"
<1> DEFINE heard == IF f[t].api = "waiting" THEN "replied" ELSE f[t].api
           q == [f[t] EXCEPT !.pc = "answered", !.reply = r, !.api = heard]
<1>1. Answered(f, t, r) = [f EXCEPT ![t] = q]
  BY DEF Answered
<1>2. f[t] \in TurnRecord
  OBVIOUS
<1>3. /\ heard \in {"idle", "waiting", "replied", "unreached"}
      /\ r \in Maybe({"menu", "link", "code", "text", "error", "stopped", "gone"})
  BY <1>2 DEF TurnRecord, Maybe
<1>4. None \in Maybe(Sid) /\ 0 \in Nat
  BY DEF Maybe
<1> HIDE DEF heard
<1>5. q \in TurnRecord
  BY <1>2, <1>3, <1>4, TurnRecordExcept
<1>6. Alike(q, f[t]) /\ q.pc = "answered"
  BY <1>2 DEF TurnRecord, Alike
<1> HIDE DEF q
<1> QED
  BY <1>1, <1>5, <1>6

\* The queues.
LEMMA OthersElsewhere ==
    ASSUME TurnsInv, NEW t \in Turn, NEW x \in Turn, Head(queue[turn[t].conv]) = t, AtWork(x), x # t
    PROVE  turn[x].conv # turn[t].conv
  BY DEF TurnsInv, AtHead

LEMMA AtWorkIsBusy ==
    ASSUME NEW t, AtWork(t)
    PROVE  Busy(t)
  BY DEF AtWork, Busy

LEMMA QueueMoves ==
    ASSUME TurnsInv, NEW t \in Turn, First(t),
           queue' = [queue EXCEPT ![turn[t].conv] = Tail(@)],
           \A x \in Turn : Alike(turn'[x], turn[x]) /\ (x # t => turn'[x].pc = turn[x].pc),
           turn'[t].pc = "answered"
    PROVE  queue' \in [Conv -> Seq(Turn)] /\ InQueue' /\ AtHead'
<1> DEFINE c == turn[t].conv
           q == queue[c]
<1>1. c \in Conv /\ q \in Seq(Turn) /\ Head(q) = t /\ q # <<>>
  <2>1. c \in Conv /\ q \in Seq(Turn) /\ Head(q) = t /\ \E n \in 1..Len(q) : q[n] = t
    BY DEF TurnsInv, BridgeTyped, InQueue, First
  <2> QED
    BY <2>1
<1>2. Tail(q) \in Seq(Turn) /\ Len(Tail(q)) = Len(q) - 1 /\ Len(q) \in Nat
      /\ (\A n \in 2..Len(q) : Tail(q)[n - 1] = q[n]) /\ q[1] = t
  BY <1>1
<1>3. queue' \in [Conv -> Seq(Turn)] /\ queue'[c] = Tail(q) /\ \A d \in Conv : d # c => queue'[d] = queue[d]
  BY <1>1, <1>2 DEF TurnsInv, BridgeTyped
<1>4. ASSUME NEW x \in Turn, Busy(x)'
      PROVE  x # t /\ Busy(x) /\ turn'[x].conv = turn[x].conv /\ turn[x].conv \in Conv
  BY <1>4 DEF Busy, Alike, TurnsInv, BridgeTyped
<1>5. InQueue'
  <2> SUFFICES ASSUME NEW x \in Turn, Busy(x)'
               PROVE  \E n \in 1..Len(queue'[turn'[x].conv]) : queue'[turn'[x].conv][n] = x
    BY DEF InQueue
  <2>1. x # t /\ Busy(x) /\ turn'[x].conv = turn[x].conv /\ turn[x].conv \in Conv
    BY <1>4
  <2>2. PICK n \in 1..Len(queue[turn[x].conv]) : queue[turn[x].conv][n] = x
    BY <2>1 DEF TurnsInv, InQueue
  <2>3. CASE turn[x].conv = c
    <3>1. n \in 2..Len(q) /\ n - 1 \in 1..Len(Tail(q)) /\ Tail(q)[n - 1] = x
      BY <1>2, <2>1, <2>2, <2>3
    <3> HIDE DEF q, c
    <3> QED
      BY <1>3, <2>1, <2>3, <3>1
  <2>4. CASE turn[x].conv # c
    BY <1>3, <2>1, <2>2, <2>4
  <2> QED
    BY <2>3, <2>4
<1>6. AtHead'
  <2> SUFFICES ASSUME NEW x \in Turn, AtWork(x)' PROVE Head(queue'[turn'[x].conv]) = x
    BY DEF AtHead
  <2>1. x # t /\ turn'[x].conv = turn[x].conv /\ turn[x].conv \in Conv
    BY <1>4 DEF AtWork, Busy
  <2>2. AtWork(x)
    BY <2>1 DEF AtWork
  <2>3. turn[x].conv # c /\ Head(queue[turn[x].conv]) = x
    BY <1>1, <2>1, <2>2, OthersElsewhere DEF TurnsInv, AtHead
  <2> QED
    BY <1>3, <2>1, <2>3
<1> QED
  BY <1>3, <1>5, <1>6

LEMMA QueueStays ==
    ASSUME TurnsInv, NEW t \in Turn, First(t), queue' = queue,
           \A x \in Turn : Alike(turn'[x], turn[x]) /\ (x # t => turn'[x].pc = turn[x].pc)
    PROVE  InQueue' /\ AtHead'
<1>1. \A x \in Turn : Busy(x)' => Busy(x) /\ turn'[x].conv = turn[x].conv
  BY DEF Busy, First, Alike
<1>2. \A x \in Turn : AtWork(x)' => Head(queue[turn[x].conv]) = x /\ turn'[x].conv = turn[x].conv
  BY DEF AtWork, First, Alike, TurnsInv, AtHead
<1> QED
  BY <1>1, <1>2 DEF TurnsInv, InQueue, AtHead

LEMMA QueueGrows ==
    ASSUME TurnsInv, NEW t \in Turn, NEW c \in Conv, queue' = [queue EXCEPT ![c] = Append(@, t)],
           turn'[t].pc = "queued", turn'[t].conv = c, \A x \in Turn : x # t => turn'[x] = turn[x]
    PROVE  queue' \in [Conv -> Seq(Turn)] /\ InQueue' /\ AtHead'
<1> DEFINE q == queue[c]
<1>1. q \in Seq(Turn)
  BY DEF TurnsInv, BridgeTyped
<1>2. Append(q, t) \in Seq(Turn) /\ Len(Append(q, t)) = Len(q) + 1 /\ Len(q) \in Nat
      /\ Append(q, t)[Len(q) + 1] = t /\ \A n \in 1..Len(q) : Append(q, t)[n] = q[n]
  BY <1>1
<1>3. queue' \in [Conv -> Seq(Turn)] /\ queue'[c] = Append(q, t) /\ \A d \in Conv : d # c => queue'[d] = queue[d]
  BY <1>1, <1>2 DEF TurnsInv, BridgeTyped
<1>4. InQueue'
  <2> SUFFICES ASSUME NEW x \in Turn, Busy(x)'
               PROVE  \E n \in 1..Len(queue'[turn'[x].conv]) : queue'[turn'[x].conv][n] = x
    BY DEF InQueue
  <2>1. CASE x = t
    <3> HIDE DEF q
    <3>1. Len(q) + 1 \in 1..Len(queue'[c]) /\ queue'[c][Len(q) + 1] = t
      BY <1>2, <1>3
    <3> QED
      BY <2>1, <3>1
  <2>2. CASE x # t
    <3>1. turn'[x] = turn[x] /\ Busy(x) /\ turn[x].conv \in Conv
      BY <2>2 DEF Busy, TurnsInv, BridgeTyped
    <3>2. PICK n \in 1..Len(queue[turn[x].conv]) : queue[turn[x].conv][n] = x
      BY <3>1 DEF TurnsInv, InQueue
    <3>3. CASE turn[x].conv = c
      <4>1. n \in 1..Len(q) /\ q[n] = x
        BY <3>2, <3>3
      <4> HIDE DEF q
      <4>2. n \in 1..Len(queue'[c]) /\ queue'[c][n] = x
        BY <1>2, <1>3, <4>1
      <4> QED
        BY <3>1, <3>3, <4>2
    <3>4. CASE turn[x].conv # c
      BY <1>3, <3>1, <3>2, <3>4
    <3> QED
      BY <3>3, <3>4
  <2> QED
    BY <2>1, <2>2
<1>5. AtHead'
  <2> SUFFICES ASSUME NEW x \in Turn, AtWork(x)' PROVE Head(queue'[turn'[x].conv]) = x
    BY DEF AtHead
  <2>1. x # t /\ turn'[x] = turn[x]
    BY DEF AtWork
  <2>2. AtWork(x) /\ Busy(x)
    BY <2>1 DEF AtWork, Busy
  <2>3. turn[x].conv \in Conv /\ Head(queue[turn[x].conv]) = x
        /\ \E n \in 1..Len(queue[turn[x].conv]) : queue[turn[x].conv][n] = x
    BY <2>2 DEF TurnsInv, BridgeTyped, AtHead, InQueue
  <2>4. CASE turn[x].conv = c
    <3>1. Len(q) # 0 /\ q[1] = x
      BY <1>1, <2>3, <2>4
    <3> HIDE DEF q
    <3>2. queue'[c] \in Seq(Turn) /\ Len(queue'[c]) # 0 /\ queue'[c][1] = x
      BY <1>2, <1>3, <3>1
    <3> QED
      BY <2>1, <2>4, <3>2
  <2>5. CASE turn[x].conv # c
    BY <1>3, <2>1, <2>3, <2>5
  <2> QED
    BY <2>4, <2>5
<1> QED
  BY <1>3, <1>4, <1>5

\* The conversation with the engine the turn asks for.
LEMMA SwitchedOwned ==
    ASSUME Bridge, TurnsInv, NEW c \in Conversation, Owned(c), NEW e \in Engine
    PROVE  /\ Switched(c, e) \in Conversation /\ Owned(Switched(c, e))
           /\ Switched(c, e).engine = e /\ Switched(c, e).cwd = c.cwd
<1> DEFINE sid == IF c.engine # None \/ e = "codex" THEN None ELSE c.sid
           d == [c EXCEPT !.engine = e, !.sid = sid]
<1>1. CASE c.engine = e
  BY <1>1 DEF Switched
<1>2. CASE c.engine # e
  <2>1. Switched(c, e) = d
    BY <1>2 DEF Switched
  <2>2. sid \in Maybe(Sid)
    BY DEF Conversation, Maybe
  <2>3. d \in Conversation /\ d.engine = e /\ d.cwd = c.cwd /\ d.sid = sid
    <3> HIDE DEF sid
    <3> QED
      BY <2>2 DEF Conversation, Maybe
  <2>4. sid # None => c.engine = None /\ sid = c.sid
    OBVIOUS
  <2>5. sid # None => store[sid] = Gone
    <3> SUFFICES ASSUME sid # None PROVE store[sid] = Gone
      OBVIOUS
    <3>1. sid = c.sid /\ sid \in Sid /\ c.engine \notin Engine
      BY <2>2, <2>4 DEF Bridge, Maybe
    <3>2. store[sid] \in {None, Gone} \cup Kept
      BY <3>1 DEF TurnsInv, BridgeTyped
    <3>3. store[sid] # None /\ store[sid] \in {Gone, [cwd |-> c.cwd, engine |-> c.engine]}
      BY <3>1 DEF Owned
    <3>4. [cwd |-> c.cwd, engine |-> c.engine] \notin Kept
      BY <3>1 DEF Kept
    <3> QED
      BY <3>2, <3>3, <3>4
  <2> HIDE DEF d, sid
  <2>6. Owned(d)
    BY <2>3, <2>5 DEF Owned, Bridge
  <2> QED
    BY <2>1, <2>3, <2>6
<1> QED
  BY <1>1, <1>2

\* A turn at the head of its queue changes its conversation, its own state and
\* a session nobody has yet.
LEMMA TurnSaves ==
    ASSUME Bridge, TurnsInv, NEW t \in Turn, First(t), NEW c \in Conversation,
           store' \in [Sid -> {None, Gone} \cup Kept],
           \A s \in Sid : store[s] # None => store'[s] = store[s],
           c.sid # None => /\ store'[c.sid] # None
                           /\ store'[c.sid] \in {Gone, [cwd |-> c.cwd, engine |-> c.engine]},
           conv' = [conv EXCEPT ![turn[t].conv] = c], file' = conv' \/ file' = file,
           turn' \in [Turn -> TurnRecord],
           \A x \in Turn :
               /\ Alike(turn'[x], turn[x])
               /\ x # t => turn'[x].pc = turn[x].pc /\ turn'[x].sid = turn[x].sid,
           turn'[t].pc = "run" => c.engine = turn[t].engine /\ turn'[t].sid = c.sid,
           \/ queue' = queue
           \/ queue' = [queue EXCEPT ![turn[t].conv] = Tail(@)] /\ turn'[t].pc = "answered"
    PROVE  TurnsInv'
<1> DEFINE d == turn[t].conv
<1>1. queue' \in [Conv -> Seq(Turn)] /\ InQueue' /\ AtHead'
  <2>1. CASE queue' = queue
    BY <2>1, QueueStays DEF TurnsInv, BridgeTyped
  <2>2. CASE queue' = [queue EXCEPT ![turn[t].conv] = Tail(@)] /\ turn'[t].pc = "answered"
    BY <2>2, QueueMoves
  <2> QED
    BY <2>1, <2>2
<1>2. Busy(t) /\ Head(queue[d]) = t /\ d \in Conv
  BY DEF First, TurnsInv, BridgeTyped
<1>3. conv' \in [Conv -> Conversation] /\ conv'[d] = c /\ \A x \in Conv : x # d => conv'[x] = conv[x]
  BY <1>2 DEF TurnsInv, BridgeTyped
<1>4. file' \in [Conv -> Conversation]
  BY <1>3 DEF TurnsInv, BridgeTyped
<1>5. \A x \in Turn : Busy(x)' => Busy(x)
  BY <1>2 DEF Busy
<1>6. BridgeTyped'
  <2>1. \A x \in Turn : Busy(x)' =>
            turn'[x].conv \in Conv /\ turn'[x].engine \in Engine /\ turn'[x].input \in Inputs
    BY <1>5 DEF TurnsInv, BridgeTyped, Alike
  <2> QED
    BY <1>1, <1>3, <1>4, <2>1 DEF BridgeTyped
<1>7. ASSUME NEW x \in Turn, x # t, turn'[x].pc = "run"
      PROVE  /\ turn[x].pc = "run" /\ turn[x].conv \in Conv /\ turn[x].engine \in Engine
             /\ conv'[turn'[x].conv] = conv[turn[x].conv] /\ turn'[x].engine = turn[x].engine
  <2>1. turn[x].pc = "run" /\ turn'[x].conv = turn[x].conv /\ turn'[x].engine = turn[x].engine
    BY <1>7 DEF Alike
  <2>2. AtWork(x) /\ Busy(x)
    BY <2>1 DEF AtWork, Busy
  <2>3. turn[x].conv # d
    BY <1>2, <1>7, <2>2, OthersElsewhere
  <2> QED
    BY <1>3, <2>1, <2>2, <2>3 DEF TurnsInv, BridgeTyped
<1>8. EngineKept'
  <2> SUFFICES ASSUME NEW x \in Turn, turn'[x].pc = "run"
               PROVE  conv'[turn'[x].conv].engine = turn'[x].engine
    BY DEF EngineKept
  <2>1. CASE x = t
    BY <1>3, <2>1 DEF Alike
  <2>2. CASE x # t
    BY <1>7, <2>2 DEF TurnsInv, EngineKept
  <2> QED
    BY <2>1, <2>2
<1>9. ASSUME NEW x \in Conversation, Owned(x)
      PROVE  x.sid # None => /\ store'[x.sid] # None
                             /\ store'[x.sid] \in {Gone, [cwd |-> x.cwd, engine |-> x.engine]}
  <2>1. x.sid # None => x.sid \in Sid
    BY DEF Conversation, Maybe
  <2> QED
    BY <1>9, <2>1 DEF Owned
<1>10. SessionsOwned'
  <2> SUFFICES ASSUME NEW x \in Conv PROVE Owned(conv[x])' /\ Owned(file[x])'
    BY DEF SessionsOwned
  <2>1. Owned(conv[x]) /\ Owned(file[x]) /\ conv[x] \in Conversation /\ file[x] \in Conversation
    BY DEF TurnsInv, SessionsOwned, BridgeTyped
  <2>2. Owned(conv[x])'
    <3>1. CASE x = d
      BY <1>3, <3>1 DEF Owned
    <3>2. CASE x # d
      BY <1>3, <1>9, <2>1, <3>2 DEF Owned
    <3> QED
      BY <3>1, <3>2
  <2>3. Owned(file[x])'
    <3>1. CASE file' = conv'
      BY <2>2, <3>1 DEF Owned
    <3>2. CASE file' = file
      BY <1>9, <2>1, <3>2 DEF Owned
    <3> QED
      BY <3>1, <3>2
  <2> QED
    BY <2>2, <2>3
<1>11. ResumesOwn'
  <2> SUFFICES ASSUME NEW x \in Turn, turn'[x].pc = "run", turn'[x].sid # None
               PROVE  store'[turn'[x].sid]
                        \in {Gone, [cwd |-> conv'[turn'[x].conv].cwd, engine |-> turn'[x].engine]}
    BY DEF ResumesOwn, Here
  <2>1. CASE x = t
    <3>1. turn'[t].conv = d /\ turn'[t].engine = turn[t].engine
      BY DEF Alike
    <3> QED
      BY <1>3, <2>1, <3>1
  <2>2. CASE x # t
    <3> DEFINE s == turn[x].sid
               h == [cwd |-> conv[turn[x].conv].cwd, engine |-> turn[x].engine]
    <3>1. turn'[x].sid = s
      BY <2>2
    <3>2. s \in Sid
      <4>1. turn[x] \in TurnRecord
        BY DEF TurnsInv, BridgeTyped
      <4> QED
        BY <3>1, <4>1 DEF TurnRecord, Maybe
    <3>3. store[s] \in {Gone, h}
      BY <1>7, <2>2, <3>1 DEF TurnsInv, ResumesOwn, Here
    <3>4. h \in Kept
      BY <1>7, <2>2 DEF Kept, Conversation, TurnsInv, BridgeTyped
    <3> HIDE DEF h
    <3>5. store'[s] = store[s]
      BY <3>2, <3>3, <3>4 DEF Bridge
    <3> QED
      BY <1>7, <2>2, <3>1, <3>3, <3>5 DEF h
  <2> QED
    BY <2>1, <2>2
<1> QED
  BY <1>1, <1>6, <1>8, <1>10, <1>11 DEF TurnsInv

\* The head of a queue, its conversation and what it asks for.
LEMMA FirstOwned ==
    ASSUME Bridge, TurnsInv, NEW t \in Turn, First(t)
    PROVE  LET c0 == conv[turn[t].conv]
               c == Switched(c0, turn[t].engine)
           IN /\ turn[t].conv \in Conv /\ turn[t].engine \in Engine /\ turn[t].input \in Input
              /\ c0 \in Conversation /\ Owned(c0)
              /\ c \in Conversation /\ Owned(c) /\ c.engine = turn[t].engine /\ c.cwd = c0.cwd
<1>1. turn[t].conv \in Conv /\ turn[t].engine \in Engine /\ turn[t].input \in Inputs
  BY DEF First, TurnsInv, BridgeTyped
<1>2. conv[turn[t].conv] \in Conversation /\ Owned(conv[turn[t].conv])
  BY <1>1 DEF TurnsInv, BridgeTyped, SessionsOwned
<1> QED
  BY <1>1, <1>2, SwitchedOwned DEF Bridge

LEMMA TurnGoesOn ==
    ASSUME TurnsInv, NEW t \in Turn, NEW q \in TurnRecord, Alike(q, turn[t]), turn' = [turn EXCEPT ![t] = q]
    PROVE  /\ turn' \in [Turn -> TurnRecord] /\ turn'[t] = q
           /\ \A x \in Turn :
                  /\ Alike(turn'[x], turn[x])
                  /\ x # t => turn'[x].pc = turn[x].pc /\ turn'[x].sid = turn[x].sid
  BY DEF TurnsInv, BridgeTyped, Alike

LEMMA CommandOwns ==
    ASSUME Bridge, TurnsInv, NEW t \in Turn, Command(t)
    PROVE  TurnsInv'
<1> DEFINE i == turn[t].input
           c0 == conv[turn[t].conv]
           c == Switched(c0, turn[t].engine)
           Saves(d) == conv' = [conv EXCEPT ![turn[t].conv] = d] /\ (file' = conv' \/ file' = file)
<1>1. /\ First(t) /\ i \in Input
      /\ c \in Conversation /\ Owned(c)
  BY FirstOwned DEF Command
<1>2. \A d, write : Saved(t, d, write) => Saves(d)
  BY DEF Saved
<1>3. \/ Saves(c) \/ Saves([c EXCEPT !.sid = None])
      \/ i.do = "cd" /\ i.to # None /\ Saves([c EXCEPT !.cwd = i.to, !.sid = None])
      \/ i.do = "pick" /\ i.to \in SessionsFor(c) /\ Saves([c EXCEPT !.sid = i.to])
  <2> HIDE DEF Saves
  <2> QED
    BY <1>2 DEF Command
<1>4. \E d \in Conversation : Owned(d) /\ Saves(d)
  <2> HIDE DEF c
  <2>1. CASE Saves(c)
    BY <1>1, <2>1
  <2>2. CASE Saves([c EXCEPT !.sid = None])
    <3> DEFINE d == [c EXCEPT !.sid = None]
    <3>1. d \in Conversation /\ d.sid = None
      BY <1>1 DEF Conversation, Maybe
    <3>2. Saves(d)
      BY <2>2
    <3> HIDE DEF d, Saves
    <3> QED
      BY <3>1, <3>2 DEF Owned
  <2>3. CASE i.do = "cd" /\ i.to # None /\ Saves([c EXCEPT !.cwd = i.to, !.sid = None])
    <3> DEFINE d == [c EXCEPT !.cwd = i.to, !.sid = None]
    <3>1. i.to \in Folder
      BY <1>1, <2>3 DEF Input, Maybe
    <3>2. d \in Conversation /\ d.sid = None
      BY <1>1, <3>1 DEF Conversation, Maybe
    <3>3. Saves(d)
      BY <2>3
    <3> HIDE DEF d, Saves
    <3> QED
      BY <3>2, <3>3 DEF Owned
  <2>4. CASE i.do = "pick" /\ i.to \in SessionsFor(c) /\ Saves([c EXCEPT !.sid = i.to])
    <3> DEFINE d == [c EXCEPT !.sid = i.to]
    <3>1. i.to \in Sid /\ store[i.to] = [cwd |-> c.cwd, engine |-> c.engine]
      BY <2>4 DEF SessionsFor
    <3>2. d \in Conversation /\ d.sid = i.to /\ d.cwd = c.cwd /\ d.engine = c.engine
      BY <1>1, <3>1 DEF Conversation, Maybe
    <3>3. Saves(d)
      BY <2>4
    <3>4. store[i.to] # None
      <4>1. c.engine \in Engine /\ c.cwd \in Folder
        BY <1>1, FirstOwned DEF Conversation, c
      <4> QED
        BY <3>1, <4>1 DEF Bridge, Kept
    <3> HIDE DEF d, Saves
    <3> QED
      BY <3>1, <3>2, <3>3, <3>4 DEF Owned
  <2> QED
    BY <1>3, <2>1, <2>2, <2>3, <2>4
<1>5. /\ turn' \in [Turn -> TurnRecord]
      /\ \A x \in Turn :
             /\ Alike(turn'[x], turn[x])
             /\ x # t => turn'[x].pc = turn[x].pc /\ turn'[x].sid = turn[x].sid
      /\ turn'[t].pc = "answered"
  BY AnsweredTurns DEF Command, Answer, TurnsInv, BridgeTyped, Alike
<1>6. queue' = [queue EXCEPT ![turn[t].conv] = Tail(@)] /\ store' = store
  BY DEF Command, Answer
<1>7. store \in [Sid -> {None, Gone} \cup Kept]
  BY DEF TurnsInv, BridgeTyped
<1> QED
  <2> PICK d \in Conversation : Owned(d) /\ Saves(d)
    BY <1>4
  <2> HIDE DEF c, i
  <2> QED
    BY <1>1, <1>5, <1>6, <1>7, TurnSaves DEF Owned

\* A turn that becomes q and leaves sessions and queues as they are.
LEMMA TurnWaits ==
    ASSUME Bridge, TurnsInv, NEW t \in Turn, First(t), NEW write,
           Saved(t, Switched(conv[turn[t].conv], turn[t].engine), write),
           NEW q \in TurnRecord, Alike(q, turn[t]), turn' = [turn EXCEPT ![t] = q],
           q.pc = "run" => q.sid = Switched(conv[turn[t].conv], turn[t].engine).sid,
           UNCHANGED <<store, queue>>
    PROVE  TurnsInv'
<1> DEFINE c == Switched(conv[turn[t].conv], turn[t].engine)
<1>1. c \in Conversation /\ Owned(c) /\ c.engine = turn[t].engine
  BY FirstOwned
<1>2. conv' = [conv EXCEPT ![turn[t].conv] = c] /\ (file' = conv' \/ file' = file)
  BY DEF Saved
<1>3. /\ turn' \in [Turn -> TurnRecord] /\ turn'[t] = q
      /\ \A x \in Turn :
             /\ Alike(turn'[x], turn[x])
             /\ x # t => turn'[x].pc = turn[x].pc /\ turn'[x].sid = turn[x].sid
  BY TurnGoesOn
<1>4. store \in [Sid -> {None, Gone} \cup Kept]
  BY DEF TurnsInv, BridgeTyped
<1>5. turn'[t].pc = "run" => c.engine = turn[t].engine /\ turn'[t].sid = c.sid
  BY <1>1, <1>3
<1> HIDE DEF c
<1> QED
  BY <1>1, <1>2, <1>3, <1>4, <1>5, TurnSaves DEF Owned

LEMMA StartLoginOwns ==
    ASSUME Bridge, TurnsInv, LoginTyped, NEW t \in Turn, StartLogin(t) \/ SendCode(t)
    PROVE  TurnsInv'
<1>1. \E pc \in {"link", "code"}, n \in Nat : turn' = [turn EXCEPT ![t] = [turn[t] EXCEPT !.pc = pc, !.login = n]]
  <2>1. CASE StartLogin(t)
    <3>1. login' = Append(login, "open") /\ login \in Seq({"open", "closed"})
      BY <2>1 DEF StartLogin, LoginTyped
    <3>2. Len(login') \in Nat
      BY <3>1
    <3> QED
      BY <2>1, <3>2 DEF StartLogin
  <2>2. CASE SendCode(t)
    BY <2>2 DEF SendCode, LoginTyped
  <2> QED
    BY <2>1, <2>2
<1>2. PICK pc \in {"link", "code"}, n \in Nat : turn' = [turn EXCEPT ![t] = [turn[t] EXCEPT !.pc = pc, !.login = n]]
  BY <1>1
<1> DEFINE q == [turn[t] EXCEPT !.pc = pc, !.login = n]
<1>3. turn[t] \in TurnRecord
  BY DEF TurnsInv, BridgeTyped
<1>4. q \in TurnRecord /\ Alike(q, turn[t]) /\ q.pc # "run"
  BY <1>3 DEF TurnRecord, Alike
<1>5. First(t) /\ UNCHANGED <<store, queue>>
  BY DEF StartLogin, SendCode
<1>6. \E write : Saved(t, Switched(conv[turn[t].conv], turn[t].engine), write)
  BY DEF StartLogin, SendCode
<1> HIDE DEF q
<1>7. turn' = [turn EXCEPT ![t] = q]
  BY <1>2 DEF q
<1> QED
  BY <1>4, <1>5, <1>6, <1>7, TurnWaits

LEMMA RunOwns ==
    ASSUME Bridge, TurnsInv, NEW t \in Turn, Run(t)
    PROVE  TurnsInv'
<1> DEFINE c == Switched(conv[turn[t].conv], turn[t].engine)
           q == [turn[t] EXCEPT !.pc = "run", !.from = c.sid, !.sid = c.sid]
<1>1. First(t) /\ UNCHANGED <<store, queue>> /\ turn' = [turn EXCEPT ![t] = q]
  BY DEF Run
<1>2. turn[t] \in TurnRecord
  BY DEF TurnsInv, BridgeTyped
<1>3. c \in Conversation /\ c.sid \in Maybe(Sid)
  <2>1. c \in Conversation
    BY <1>1, FirstOwned
  <2> HIDE DEF c
  <2> QED
    BY <2>1 DEF Conversation
<1>4. q \in TurnRecord /\ Alike(q, turn[t]) /\ q.pc = "run" /\ q.sid = c.sid
  <2> HIDE DEF c
  <2> QED
    BY <1>2, <1>3 DEF TurnRecord, Alike
<1>5. \E write : Saved(t, c, write)
  BY DEF Run
<1> HIDE DEF q
<1> QED
  BY <1>1, <1>4, <1>5, TurnWaits

LEMMA AtWorkIsFirst ==
    ASSUME TurnsInv, NEW t \in Turn, AtWork(t)
    PROVE  First(t)
  BY AtWorkIsBusy DEF TurnsInv, AtHead, First

\* A login's turn is answered.
LEMMA AnswerOwns ==
    ASSUME Bridge, TurnsInv, NEW t \in Turn, LinkKnown(t) \/ CodeDone(t)
    PROVE  TurnsInv'
<1> DEFINE c == conv[turn[t].conv]
<1>1. First(t)
  BY AtWorkIsFirst DEF LinkKnown, CodeDone, AtWork
<1>2. turn[t].conv \in Conv /\ c \in Conversation /\ Owned(c)
  BY <1>1, FirstOwned
<1>3. conv' = [conv EXCEPT ![turn[t].conv] = c] /\ file' = file /\ store' = store
  <2>1. conv' = conv /\ conv \in [Conv -> Conversation]
    BY DEF LinkKnown, CodeDone, TurnsInv, BridgeTyped
  <2> QED
    BY <1>2, <2>1 DEF LinkKnown, CodeDone
<1>4. /\ turn' \in [Turn -> TurnRecord]
      /\ \A x \in Turn :
             /\ Alike(turn'[x], turn[x])
             /\ x # t => turn'[x].pc = turn[x].pc /\ turn'[x].sid = turn[x].sid
      /\ turn'[t].pc = "answered"
  BY AnsweredTurns DEF LinkKnown, CodeDone, Answer, TurnsInv, BridgeTyped, Alike
<1>5. queue' = [queue EXCEPT ![turn[t].conv] = Tail(@)]
  BY DEF LinkKnown, CodeDone, Answer
<1>6. store \in [Sid -> {None, Gone} \cup Kept]
  BY DEF TurnsInv, BridgeTyped
<1> HIDE DEF c
<1> QED
  BY <1>1, <1>2, <1>3, <1>4, <1>5, <1>6, TurnSaves DEF Owned

\* A run ends on a new session, on its own, or on one that was written in its
\* folder by its engine.
LEMMA ResultOwned ==
    ASSUME Bridge, TurnsInv, NEW t \in Turn, turn[t].pc = "run", NEW r \in Results(t)
    PROVE  /\ r.kind \in {"text", "error", "stopped", "gone"} /\ r.sid \in Maybe(Sid)
           /\ r.sid # None => store[r.sid] \in {None, Here(t)}
           /\ Here(t) \in Kept
<1> DEFINE s == turn[t].sid
           ids == IF s # None THEN {s} ELSE {n \in Sid : store[n] = None}
           newest == {turn[x].sid : x \in {y \in Turn : turn[y].pc = "run"}}
           others == {m \in newest \ {None} : s = None /\ turn[t].engine = "claude" /\ store[m] = Here(t)}
<1>1. \A x \in Turn : turn[x].sid \in Maybe(Sid)
  BY DEF TurnsInv, BridgeTyped, TurnRecord
<1>2. Here(t) \in Kept
  <2>1. turn[t].conv \in Conv /\ turn[t].engine \in Engine
    BY DEF Busy, TurnsInv, BridgeTyped
  <2>2. conv[turn[t].conv].cwd \in Folder
    BY <2>1 DEF TurnsInv, BridgeTyped, Conversation
  <2> QED
    BY <2>1, <2>2 DEF Here, Kept
<1>3. CASE s # None /\ store[s] = Gone
  <2>1. r = Result("gone", None, TRUE)
    BY <1>3 DEF Results
  <2>2. r.kind = "gone" /\ r.sid = None
    BY <2>1 DEF Result
  <2> QED
    BY <1>2, <2>2 DEF Maybe
<1>4. CASE ~(s # None /\ store[s] = Gone)
  <2>1. \A n \in ids : n \in Sid /\ store[n] \in {None, Here(t)}
    BY <1>1, <1>4 DEF Maybe, TurnsInv, ResumesOwn
  <2>2. \A n \in others : n \in Sid /\ store[n] = Here(t)
    BY <1>1 DEF Maybe
  <2>3. \/ \E n \in ids : r = Result("text", n, FALSE)
        \/ \E n \in ids \cup {None} : r = Result("error", n, FALSE)
        \/ r = Result("stopped", None, turn[t].engine = "claude")
        \/ \E n \in others : r = Result("text", n, FALSE)
    BY <1>4 DEF Results, Here
  <2> HIDE DEF ids, others
  <2>4. \E n \in ids \cup others \cup {None} : r.sid = n
    BY <2>3 DEF Result
  <2>5. r.kind \in {"text", "error", "stopped", "gone"}
    BY <2>3 DEF Result
  <2> QED
    BY <1>2, <2>1, <2>2, <2>4, <2>5 DEF Maybe
<1> QED
  BY <1>3, <1>4

LEMMA RunEndsOwns ==
    ASSUME Bridge, TurnsInv, NEW t \in Turn, NEW r \in Results(t), RunEnds(t, r)
    PROVE  TurnsInv'
<1> DEFINE d == turn[t].conv
           c == IF Retry(t, r) THEN [conv[d] EXCEPT !.sid = None]
                ELSE IF r.sid = None THEN conv[d] ELSE [conv[d] EXCEPT !.sid = r.sid]
           behind == {x \in Turn : x # t /\ turn[x].pc = "queued" /\ turn[x].conv = d}
           waited == [x \in Turn |-> [turn[x] EXCEPT !.late = @ \/ x \in behind]]
<1>1. turn[t].pc = "run" /\ First(t)
  BY AtWorkIsFirst DEF RunEnds, AtWork
<1>2. /\ d \in Conv /\ conv[d] \in Conversation /\ Owned(conv[d])
      /\ conv[d].engine = turn[t].engine
  BY <1>1, FirstOwned DEF TurnsInv, EngineKept
<1>3. /\ r.kind \in {"text", "error", "stopped", "gone"} /\ r.sid \in Maybe(Sid)
      /\ r.sid # None => store[r.sid] \in {None, Here(t)}
      /\ Here(t) \in Kept
  BY <1>1, ResultOwned
<1>4. store \in [Sid -> {None, Gone} \cup Kept]
  BY DEF TurnsInv, BridgeTyped
<1>5. store' = IF r.sid = None THEN store ELSE [store EXCEPT ![r.sid] = Here(t)]
  BY DEF RunEnds, Here
<1>6. /\ store' \in [Sid -> {None, Gone} \cup Kept]
      /\ \A s \in Sid : store[s] # None => store'[s] = store[s]
      /\ r.sid # None => store'[r.sid] = Here(t)
  BY <1>3, <1>4, <1>5 DEF Maybe
<1>7. /\ c \in Conversation /\ c.engine = turn[t].engine /\ c.cwd = conv[d].cwd
      /\ c.sid = IF Retry(t, r) THEN None ELSE IF r.sid = None THEN conv[d].sid ELSE r.sid
  <2> HIDE DEF d
  <2>1. CASE Retry(t, r)
    BY <1>2, <2>1 DEF Conversation, Maybe
  <2>2. CASE ~Retry(t, r) /\ r.sid = None
    BY <1>2, <2>2
  <2>3. CASE ~Retry(t, r) /\ r.sid # None
    BY <1>2, <1>3, <2>3 DEF Conversation
  <2> QED
    BY <2>1, <2>2, <2>3
<1>8. c.sid # None => /\ store'[c.sid] # None
                      /\ store'[c.sid] \in {Gone, [cwd |-> c.cwd, engine |-> c.engine]}
  <2>1. Here(t) = [cwd |-> c.cwd, engine |-> c.engine] /\ Here(t) # None
    <3> HIDE DEF c
    <3> QED
      BY <1>3, <1>7 DEF Here, Bridge
  <2>2. conv[d].sid # None => /\ conv[d].sid \in Sid /\ store[conv[d].sid] # None
                              /\ store[conv[d].sid] \in {Gone, [cwd |-> conv[d].cwd, engine |-> conv[d].engine]}
    BY <1>2 DEF Owned, Conversation, Maybe
  <2> HIDE DEF c, d
  <2> QED
    BY <1>2, <1>6, <1>7, <2>1, <2>2
<1>9. conv' = [conv EXCEPT ![d] = c] /\ (file' = conv' \/ file' = file)
  <2>1. CASE Retry(t, r)
    <3>1. conv' = [conv EXCEPT ![d].sid = None] /\ file' = file
      BY <2>1 DEF RunEnds
    <3> QED
      BY <2>1, <3>1
  <2>2. CASE ~Retry(t, r)
    BY <2>2 DEF RunEnds, Saved
  <2> QED
    BY <2>1, <2>2
<1>10. /\ waited \in [Turn -> TurnRecord]
       /\ \A x \in Turn : Alike(waited[x], turn[x]) /\ waited[x].pc = turn[x].pc /\ waited[x].sid = turn[x].sid
  <2>1. ASSUME NEW x \in Turn, NEW late \in BOOLEAN
        PROVE  LET q == [turn[x] EXCEPT !.late = late]
               IN q \in TurnRecord /\ Alike(q, turn[x]) /\ q.pc = turn[x].pc /\ q.sid = turn[x].sid
    <3>1. turn[x] \in TurnRecord
      BY DEF TurnsInv, BridgeTyped
    <3> QED
      BY <3>1 DEF TurnRecord, Alike
  <2>2. \A x \in Turn : (turn[x].late \/ x \in behind) \in BOOLEAN
    BY DEF TurnsInv, BridgeTyped, TurnRecord
  <2> HIDE DEF behind
  <2> QED
    BY <2>1, <2>2
<1>11. CASE Retry(t, r)
  <2> DEFINE q == [waited[t] EXCEPT !.sid = None, !.late = TRUE]
  <2>1. turn' = [waited EXCEPT ![t] = q] /\ queue' = queue
    BY <1>11 DEF RunEnds
  <2>2. q \in TurnRecord /\ Alike(q, waited[t]) /\ q.pc = "run" /\ q.sid = None
    <3> HIDE DEF waited
    <3>1. waited[t] \in TurnRecord /\ waited[t].pc = "run"
      BY <1>1, <1>10
    <3> QED
      BY <3>1 DEF TurnRecord, Alike, Maybe
  <2> HIDE DEF q, waited
  <2>3. /\ turn' \in [Turn -> TurnRecord] /\ turn'[t] = q
        /\ \A x \in Turn :
               /\ Alike(turn'[x], turn[x])
               /\ x # t => turn'[x].pc = turn[x].pc /\ turn'[x].sid = turn[x].sid
    BY <1>10, <2>1, <2>2 DEF Alike
  <2>4. c.sid = None
    BY <1>7, <1>11
  <2> HIDE DEF c, d
  <2> QED
    BY <1>1, <1>6, <1>7, <1>8, <1>9, <2>1, <2>2, <2>3, <2>4, TurnSaves DEF d
<1>12. CASE ~Retry(t, r)
  <2>1. turn' = Answered(waited, t, r.kind) /\ queue' = [queue EXCEPT ![d] = Tail(@)]
    BY <1>12 DEF RunEnds
  <2> HIDE DEF waited
  <2>2. /\ turn' \in [Turn -> TurnRecord] /\ turn'[t].pc = "answered"
        /\ \A x \in Turn :
               /\ Alike(turn'[x], turn[x])
               /\ x # t => turn'[x].pc = turn[x].pc /\ turn'[x].sid = turn[x].sid
    BY <1>3, <1>10, <2>1, AnsweredTurns DEF Alike
  <2> HIDE DEF c, d
  <2> QED
    BY <1>1, <1>6, <1>7, <1>8, <1>9, <2>1, <2>2, TurnSaves DEF d
<1> QED
  BY <1>11, <1>12

\* Steps beside the conversations.
LEMMA PostOwns ==
    ASSUME Bridge, TurnsInv, NEW t \in Turn, NEW c \in Conv, NEW e \in Engine, NEW i \in Inputs, Post(t, c, e, i)
    PROVE  TurnsInv'
<1> DEFINE q == [Ready EXCEPT !.pc = "queued", !.conv = c, !.engine = e, !.input = i, !.api = "waiting"]
<1>1. q \in TurnRecord /\ q.pc = "queued" /\ q.conv = c /\ q.engine = e /\ q.input = i
  BY DEF TurnRecord, Ready, Maybe
<1>2. /\ turn' = [turn EXCEPT ![t] = q] /\ queue' = [queue EXCEPT ![c] = Append(@, t)]
      /\ UNCHANGED <<conv, file, store>>
  BY DEF Post
<1> HIDE DEF q
<1>3. turn' \in [Turn -> TurnRecord] /\ turn'[t] = q /\ \A x \in Turn : x # t => turn'[x] = turn[x]
  BY <1>1, <1>2 DEF TurnsInv, BridgeTyped
<1>4. queue' \in [Conv -> Seq(Turn)] /\ InQueue' /\ AtHead'
  BY <1>1, <1>2, <1>3, QueueGrows
<1>5. \A x \in Turn : Busy(x)' =>
          turn'[x].conv \in Conv /\ turn'[x].engine \in Engine /\ turn'[x].input \in Inputs
  <2> SUFFICES ASSUME NEW x \in Turn, Busy(x)'
               PROVE  turn'[x].conv \in Conv /\ turn'[x].engine \in Engine /\ turn'[x].input \in Inputs
    OBVIOUS
  <2>1. CASE x = t
    BY <1>1, <1>3, <2>1
  <2>2. CASE x # t
    BY <1>3, <2>2 DEF Busy, TurnsInv, BridgeTyped
  <2> QED
    BY <2>1, <2>2
<1>6. BridgeTyped'
  BY <1>2, <1>3, <1>4, <1>5 DEF TurnsInv, BridgeTyped
<1>7. EngineKept' /\ ResumesOwn'
  BY <1>1, <1>2, <1>3 DEF TurnsInv, EngineKept, ResumesOwn, Here
<1>8. SessionsOwned'
  BY <1>2 DEF TurnsInv, SessionsOwned, Owned
<1> QED
  BY <1>4, <1>6, <1>7, <1>8 DEF TurnsInv

LEMMA GiveUpOwns ==
    ASSUME TurnsInv, NEW t \in Turn, GiveUp(t)
    PROVE  TurnsInv'
<1> DEFINE q == [turn[t] EXCEPT !.api = "unreached"]
<1>1. turn' = [turn EXCEPT ![t] = q] /\ UNCHANGED <<conv, file, store, queue>>
  BY DEF GiveUp
<1>2. q \in TurnRecord /\ Alike(q, turn[t]) /\ q.pc = turn[t].pc /\ q.sid = turn[t].sid
  <2>1. turn[t] \in TurnRecord
    BY DEF TurnsInv, BridgeTyped
  <2> QED
    BY <2>1 DEF TurnRecord, Alike
<1> HIDE DEF q
<1>3. /\ turn' \in [Turn -> TurnRecord]
      /\ \A x \in Turn : Alike(turn'[x], turn[x]) /\ turn'[x].pc = turn[x].pc /\ turn'[x].sid = turn[x].sid
  BY <1>1, <1>2 DEF TurnsInv, BridgeTyped, Alike
<1>4. BridgeTyped'
  BY <1>1, <1>3 DEF TurnsInv, BridgeTyped, Busy, Alike
<1>5. InQueue' /\ AtHead'
  BY <1>1, <1>3 DEF TurnsInv, InQueue, AtHead, AtWork, Busy, Alike
<1>6. EngineKept' /\ ResumesOwn'
  BY <1>1, <1>3 DEF TurnsInv, EngineKept, ResumesOwn, Here, Alike
<1>7. SessionsOwned'
  BY <1>1 DEF TurnsInv, SessionsOwned, Owned
<1> QED
  BY <1>4, <1>5, <1>6, <1>7 DEF TurnsInv

LEMMA CleanUpOwns ==
    ASSUME Bridge, TurnsInv, NEW s \in Sid, CleanUp(s)
    PROVE  TurnsInv'
<1>1. store' = [store EXCEPT ![s] = Gone] /\ UNCHANGED <<conv, file, queue, turn>>
  BY DEF CleanUp
<1>2. /\ store' \in [Sid -> {None, Gone} \cup Kept]
      /\ \A x \in Sid : store'[x] = store[x] \/ store'[x] = Gone
  BY <1>1 DEF TurnsInv, BridgeTyped
<1>3. BridgeTyped'
  BY <1>1, <1>2 DEF TurnsInv, BridgeTyped, Busy
<1>4. InQueue' /\ AtHead' /\ EngineKept'
  BY <1>1 DEF TurnsInv, InQueue, AtHead, AtWork, Busy, EngineKept
<1>5. SessionsOwned'
  <2>1. \A c \in Conv : conv[c].sid \in Maybe(Sid) /\ file[c].sid \in Maybe(Sid)
    BY DEF TurnsInv, BridgeTyped, Conversation
  <2> QED
    BY <1>1, <1>2, <2>1 DEF TurnsInv, SessionsOwned, Owned, Maybe, Bridge
<1>6. ResumesOwn'
  <2>1. \A t \in Turn : turn[t].sid \in Maybe(Sid)
    BY DEF TurnsInv, BridgeTyped, TurnRecord
  <2> QED
    BY <1>1, <1>2, <2>1 DEF TurnsInv, ResumesOwn, Here, Maybe
<1> QED
  BY <1>3, <1>4, <1>5, <1>6 DEF TurnsInv

LEMMA CrashOwns ==
    ASSUME Bridge, TurnsInv, NEW torn \in BOOLEAN, Crash(torn)
    PROVE  TurnsInv'
<1>1. Fresh \in Conversation /\ Fresh.sid = None
  BY DEF Fresh, Conversation, Maybe, Bridge
<1>2. file' = (IF torn THEN [c \in Conv |-> Fresh] ELSE file) /\ conv' = file' /\ store' = store
  BY DEF Crash
<1>3. file' \in [Conv -> Conversation] /\ conv' \in [Conv -> Conversation]
  BY <1>1, <1>2 DEF TurnsInv, BridgeTyped
<1>4. turn' \in [Turn -> TurnRecord] /\ \A t \in Turn : ~Busy(t)' /\ turn'[t].pc # "run"
  <2> DEFINE heard(t) == IF turn[t].api = "waiting" THEN "unreached" ELSE turn[t].api
             ended(t) == IF ~Busy(t) THEN turn[t] ELSE [turn[t] EXCEPT !.pc = "answered", !.api = heard(t)]
  <2>1. turn' = [t \in Turn |-> ended(t)]
    BY DEF Crash
  <2>2. ASSUME NEW t \in Turn
        PROVE  ended(t) \in TurnRecord /\ ended(t).pc \notin {"queued", "run", "link", "code"}
    <3>1. turn[t] \in TurnRecord
      BY DEF TurnsInv, BridgeTyped
    <3>2. heard(t) \in {"idle", "waiting", "replied", "unreached"}
      BY <3>1 DEF TurnRecord
    <3> HIDE DEF heard
    <3> QED
      BY <3>1, <3>2 DEF TurnRecord, Busy
  <2> HIDE DEF ended
  <2> QED
    BY <2>1, <2>2 DEF Busy
<1>5. queue' \in [Conv -> Seq(Turn)]
  <2>1. queue' = [c \in Conv |-> <<>>]
    BY DEF Crash
  <2>2. <<>> \in Seq(Turn)
    OBVIOUS
  <2> QED
    BY <2>1, <2>2
<1>6. BridgeTyped'
  BY <1>2, <1>3, <1>4, <1>5 DEF TurnsInv, BridgeTyped
<1>7. InQueue' /\ AtHead' /\ EngineKept' /\ ResumesOwn'
  BY <1>4 DEF InQueue, AtHead, AtWork, Busy, EngineKept, ResumesOwn
<1>8. SessionsOwned'
  BY <1>1, <1>2 DEF TurnsInv, SessionsOwned, Owned
<1> QED
  BY <1>6, <1>7, <1>8 DEF TurnsInv

LEMMA TurnsStep ==
    ASSUME Bridge, TurnsInv, LoginTyped, BridgeNext
    PROVE  TurnsInv'
<1>1. CASE \E t \in Turn, c \in Conv, e \in Engine, i \in Inputs : Post(t, c, e, i)
  BY <1>1, PostOwns
<1>2. CASE \E t \in Turn : TurnStep(t)
  BY <1>2, CommandOwns, StartLoginOwns, RunOwns, AnswerOwns, RunEndsOwns DEF TurnStep
<1>3. CASE \E t \in Turn : GiveUp(t)
  BY <1>3, GiveUpOwns
<1>4. CASE \E l \in DOMAIN login : LoginCloses(l)
  <2>1. UNCHANGED <<conv, file, store, queue, turn>>
    BY <1>4 DEF LoginCloses
  <2> QED
    BY <2>1 DEF TurnsInv, BridgeTyped, Busy, InQueue, AtHead, AtWork, EngineKept, SessionsOwned, Owned,
      ResumesOwn, Here
<1>5. CASE \E s \in Sid : CleanUp(s)
  BY <1>5, CleanUpOwns
<1>6. CASE \E torn \in BOOLEAN : Crash(torn)
  BY <1>6, CrashOwns
<1> QED
  BY <1>1, <1>2, <1>3, <1>4, <1>5, <1>6 DEF BridgeNext

LEMMA BridgeStays ==
    ASSUME TurnsInv, LoginInv, UNCHANGED bridgeVars
    PROVE  TurnsInv' /\ LoginInv'
  BY DEF bridgeVars, TurnsInv, BridgeTyped, Busy, InQueue, AtHead, AtWork, EngineKept, SessionsOwned, Owned,
    ResumesOwn, Here, LoginInv, LoginTyped, LoginIsLatest

-----------------------------------------------------------------------------
\* ClaudeBridge: a queue has turns that wait, of its conversation, each once;
\* and a turn is posted once.
Lined ==
    \A c \in Conv : \A n \in 1..Len(queue[c]) :
        /\ Busy(queue[c][n]) /\ turn[queue[c][n]].conv = c
        /\ \A m \in 1..Len(queue[c]) : queue[c][m] = queue[c][n] => m = n
PostedOnce == \A t \in Turn : Busy(t) => turn[t].api # "idle"
BridgeTypes == TurnsInv /\ LoginInv /\ Lined /\ PostedOnce /\ crashes \in 0..MaxCrashes
\* What any step of t, or beside the turns, leaves of a turn x.
Follows(x, t) ==
    /\ turn'[x].conv = turn[x].conv
    /\ x # t => turn'[x].pc = turn[x].pc
    /\ turn'[x].api = "idle" => turn[x].api = "idle"
\* And x is busy after the step.
Lives(x) == turn'[x].pc \in {"queued", "run", "link", "code"}

LEMMA BridgesAreTyped ==
    ASSUME BridgeTypes
    PROVE  BridgeTypeOK
<1>1. {conv, file} \subseteq [Conv -> [cwd : Folder, sid : Maybe(Sid), engine : Maybe(Engine)]]
  BY DEF BridgeTypes, TurnsInv, BridgeTyped, Conversation
<1>2. \A s \in Sid : store[s] \in {None, Gone} \cup [cwd : Folder, engine : Engine]
  BY DEF BridgeTypes, TurnsInv, BridgeTyped, Kept
<1>3. \A c \in Conv : \A n \in DOMAIN queue[c] : Busy(queue[c][n]) /\ turn[queue[c][n]].conv = c
  <2>1. \A c \in Conv : DOMAIN queue[c] = 1..Len(queue[c])
    BY DEF BridgeTypes, TurnsInv, BridgeTyped
  <2> QED
    BY <2>1 DEF BridgeTypes, Lined
<1>4. \A t \in Turn : turn[t].pc \in {"idle", "queued", "run", "link", "code", "answered"}
  BY DEF BridgeTypes, TurnsInv, BridgeTyped, TurnRecord
<1>5. login \in Seq({"open", "closed"}) /\ Len(login) \in Nat
  BY DEF BridgeTypes, LoginInv, LoginTyped
<1>6. \A l \in DOMAIN login : login[l] \in {"open", "closed"}
  BY <1>5
<1>7. pending \in 0..Len(login)
  BY <1>5 DEF BridgeTypes, LoginInv, LoginIsLatest
<1> QED
  BY <1>1, <1>2, <1>3, <1>4, <1>6, <1>7 DEF BridgeTypes, BridgeTypeOK

LEMMA LineStays ==
    ASSUME TurnsInv, Lined, queue' = queue,
           \A x \in Turn : Busy(x) => Lives(x) /\ turn'[x].conv = turn[x].conv
    PROVE  Lined'
<1>1. \A c \in Conv : \A n \in 1..Len(queue[c]) : queue[c][n] \in Turn
  BY DEF TurnsInv, BridgeTyped
<1> QED
  BY <1>1 DEF Lined, Busy, Lives

LEMMA LineMoves ==
    ASSUME TurnsInv, Lined, NEW t \in Turn, First(t),
           queue' = [queue EXCEPT ![turn[t].conv] = Tail(@)],
           \A x \in Turn : Follows(x, t)
    PROVE  Lined'
<1> DEFINE c == turn[t].conv
           q == queue[c]
<1>1. c \in Conv /\ q \in Seq(Turn) /\ Head(q) = t /\ q # <<>>
  <2>1. c \in Conv /\ q \in Seq(Turn) /\ Head(q) = t /\ \E n \in 1..Len(q) : q[n] = t
    BY DEF TurnsInv, BridgeTyped, InQueue, First
  <2> QED
    BY <2>1
<1>2. /\ Tail(q) \in Seq(Turn) /\ Len(Tail(q)) = Len(q) - 1 /\ Len(q) \in Nat /\ q[1] = t /\ 1 \in 1..Len(q)
      /\ \A n \in 1..Len(Tail(q)) : Tail(q)[n] = q[n + 1] /\ n + 1 \in 1..Len(q) /\ n + 1 # 1
  BY <1>1
<1>3. queue'[c] = Tail(q) /\ \A d \in Conv : d # c => queue'[d] = queue[d]
  BY <1>1 DEF TurnsInv, BridgeTyped
<1>4. \A d \in Conv : \A n \in 1..Len(queue[d]) : queue[d][n] \in Turn
  BY DEF TurnsInv, BridgeTyped
<1>5. ASSUME NEW d \in Conv, d # c, NEW n \in 1..Len(queue'[d])
      PROVE  /\ Lives(queue'[d][n]) /\ turn'[queue'[d][n]].conv = d
             /\ \A m \in 1..Len(queue'[d]) : queue'[d][m] = queue'[d][n] => m = n
  <2>1. queue'[d] = queue[d] /\ queue[d][n] \in Turn /\ Busy(queue[d][n]) /\ turn[queue[d][n]].conv = d
    BY <1>3, <1>4, <1>5 DEF Lined
  <2>2. queue[d][n] # t
    BY <1>5, <2>1
  <2>3. Lives(queue[d][n]) /\ turn'[queue[d][n]].conv = d
    BY <2>1, <2>2 DEF Follows, Busy, Lives
  <2>4. \A m \in 1..Len(queue[d]) : queue[d][m] = queue[d][n] => m = n
    BY <1>5, <2>1 DEF Lined
  <2> QED
    BY <2>1, <2>3, <2>4 DEF Busy, Lives
<1>6. ASSUME NEW n \in 1..Len(Tail(q))
      PROVE  /\ Lives(Tail(q)[n]) /\ turn'[Tail(q)[n]].conv = c
             /\ \A m \in 1..Len(Tail(q)) : Tail(q)[m] = Tail(q)[n] => m = n
  <2>1. Tail(q)[n] = q[n + 1] /\ n + 1 \in 1..Len(q)
    BY <1>2
  <2>2. q[n + 1] \in Turn /\ Busy(q[n + 1]) /\ turn[q[n + 1]].conv = c
    BY <1>1, <1>4, <2>1 DEF Lined
  <2>3. \A m \in 1..Len(q) : q[m] = q[n + 1] => m = n + 1
    BY <1>1, <2>1 DEF Lined
  <2> HIDE DEF q, c
  <2>4. q[n + 1] # t
    BY <1>2, <2>3
  <2>5. Lives(q[n + 1]) /\ turn'[q[n + 1]].conv = c
    BY <2>2, <2>4 DEF Follows, Busy, Lives
  <2>6. \A m \in 1..Len(Tail(q)) : Tail(q)[m] = Tail(q)[n] => m = n
    <3> SUFFICES ASSUME NEW m \in 1..Len(Tail(q)), Tail(q)[m] = Tail(q)[n] PROVE m = n
      OBVIOUS
    <3>1. q[m + 1] = q[n + 1] /\ m + 1 \in 1..Len(q)
      BY <1>2, <2>1
    <3>2. m + 1 = n + 1
      BY <2>3, <3>1
    <3> QED
      BY <1>2, <3>2
  <2> QED
    BY <2>1, <2>5, <2>6 DEF Busy, Lives
<1>7. ASSUME NEW d \in Conv, NEW n \in 1..Len(queue'[d])
      PROVE  /\ Lives(queue'[d][n]) /\ turn'[queue'[d][n]].conv = d
             /\ \A m \in 1..Len(queue'[d]) : queue'[d][m] = queue'[d][n] => m = n
  <2>1. CASE d = c
    <3>1. queue'[d] = Tail(q) /\ d = c
      BY <1>3, <2>1
    <3> HIDE DEF q, c
    <3> QED
      BY <1>6, <3>1
  <2> QED
    BY <1>5, <2>1
<1> HIDE DEF q, c
<1> QED
  BY <1>7 DEF Lined, Busy, Lives

LEMMA LineGrows ==
    ASSUME TurnsInv, Lined, NEW t \in Turn, ~Busy(t), NEW c \in Conv, queue' = [queue EXCEPT ![c] = Append(@, t)],
           turn'[t].pc = "queued", turn'[t].conv = c, \A x \in Turn : x # t => turn'[x] = turn[x]
    PROVE  Lined'
<1> DEFINE q == queue[c]
           l == Append(q, t)
<1>1. q \in Seq(Turn)
  BY DEF TurnsInv, BridgeTyped
<1>2. /\ l \in Seq(Turn) /\ Len(l) = Len(q) + 1 /\ Len(q) \in Nat /\ l[Len(q) + 1] = t
      /\ \A n \in 1..Len(q) : l[n] = q[n]
  BY <1>1
<1>3. queue'[c] = l /\ \A d \in Conv : d # c => queue'[d] = queue[d]
  BY <1>1, <1>2 DEF TurnsInv, BridgeTyped
<1>4. ASSUME NEW d \in Conv, NEW n \in 1..Len(queue[d])
      PROVE  /\ queue[d][n] # t /\ Lives(queue[d][n]) /\ turn'[queue[d][n]].conv = d
             /\ \A m \in 1..Len(queue[d]) : queue[d][m] = queue[d][n] => m = n
  <2>1. queue[d][n] \in Turn /\ Busy(queue[d][n]) /\ turn[queue[d][n]].conv = d
        /\ \A m \in 1..Len(queue[d]) : queue[d][m] = queue[d][n] => m = n
    BY DEF TurnsInv, BridgeTyped, Lined
  <2>2. queue[d][n] # t
    BY <2>1
  <2> QED
    BY <2>1, <2>2 DEF Busy, Lives
<1>5. Lives(t) /\ turn'[t].conv = c
  BY DEF Busy, Lives
<1>6. ASSUME NEW n \in 1..Len(l)
      PROVE  Lives(l[n]) /\ turn'[l[n]].conv = c /\ \A m \in 1..Len(l) : l[m] = l[n] => m = n
  <2>1. \A m \in 1..Len(q) : l[m] # t
    BY <1>2, <1>4
  <2>2. CASE n = Len(q) + 1
    <3> HIDE DEF q, l
    <3> QED
      BY <1>2, <1>5, <2>1, <2>2 DEF Busy, Lives
  <2>3. CASE n \in 1..Len(q)
    <3>1. Lives(q[n]) /\ turn'[q[n]].conv = c /\ \A m \in 1..Len(q) : q[m] = q[n] => m = n
      BY <1>4, <2>3
    <3>2. l[n] = q[n]
      BY <1>2, <2>3
    <3> HIDE DEF q, l
    <3> QED
      BY <1>2, <2>1, <2>3, <3>1, <3>2 DEF Busy, Lives
  <2> HIDE DEF q, l
  <2> QED
    BY <1>2, <2>2, <2>3
<1> HIDE DEF q, l
<1> QED
  BY <1>3, <1>4, <1>6 DEF Lined, Busy, Lives

LEMMA TurnKeepsLine ==
    ASSUME TurnsInv, Lined, PostedOnce, NEW t \in Turn, First(t), \A x \in Turn : Follows(x, t),
           \/ queue' = queue /\ turn'[t].pc \in {"run", "link", "code"}
           \/ queue' = [queue EXCEPT ![turn[t].conv] = Tail(@)]
    PROVE  Lined' /\ PostedOnce'
<1>1. Busy(t)
  BY DEF First
<1>2. PostedOnce'
  BY <1>1 DEF PostedOnce, Follows, Busy, Lives
<1>3. CASE queue' = queue /\ turn'[t].pc \in {"run", "link", "code"}
  <2>1. \A x \in Turn : Busy(x) => Lives(x) /\ turn'[x].conv = turn[x].conv
    BY <1>3 DEF Follows, Busy, Lives
  <2> QED
    BY <1>2, <1>3, <2>1, LineStays
<1> QED
  BY <1>2, <1>3, LineMoves

LEMMA AnsweredFollows ==
    ASSUME NEW f \in [Turn -> TurnRecord], NEW t \in Turn,
           NEW r \in {"menu", "link", "code", "text", "error", "stopped", "gone"}
    PROVE  Answered(f, t, r)[t].api = "idle" => f[t].api = "idle"
<1> DEFINE heard == IF f[t].api = "waiting" THEN "replied" ELSE f[t].api
           q == [f[t] EXCEPT !.pc = "answered", !.reply = r, !.api = heard]
<1>1. Answered(f, t, r) = [f EXCEPT ![t] = q]
  BY DEF Answered
<1>2. q.api = heard
  BY DEF TurnRecord
<1>3. Answered(f, t, r)[t] = q
  BY <1>1
<1> QED
  BY <1>2, <1>3

LEMMA AnswerKeepsLine ==
    ASSUME TurnsInv, Lined, PostedOnce, NEW t \in Turn, First(t), NEW r \in {"menu", "link", "code"}, Answer(t, r)
    PROVE  Lined' /\ PostedOnce'
<1>1. turn \in [Turn -> TurnRecord]
  BY DEF TurnsInv, BridgeTyped
<1>2. \A x \in Turn : Follows(x, t)
  BY <1>1, AnsweredTurns, AnsweredFollows DEF Answer, Follows, Alike
<1> QED
  BY <1>2, TurnKeepsLine DEF Answer

LEMMA WaitKeepsLine ==
    ASSUME TurnsInv, Lined, PostedOnce, NEW t \in Turn, StartLogin(t) \/ SendCode(t) \/ Run(t)
    PROVE  Lined' /\ PostedOnce'
<1>1. turn \in [Turn -> TurnRecord] /\ turn[t] \in TurnRecord
  BY DEF TurnsInv, BridgeTyped
<1>2. First(t) /\ queue' = queue
  BY DEF StartLogin, SendCode, Run
<1>3. \E q : /\ turn' = [turn EXCEPT ![t] = q] /\ q.conv = turn[t].conv /\ q.api = turn[t].api
             /\ q.pc \in {"run", "link", "code"}
  <2>1. CASE StartLogin(t)
    <3> DEFINE q == [turn[t] EXCEPT !.pc = "link", !.login = Len(login')]
    <3>1. turn' = [turn EXCEPT ![t] = q]
      BY <2>1 DEF StartLogin
    <3>2. q.conv = turn[t].conv /\ q.api = turn[t].api /\ q.pc = "link"
      BY <1>1 DEF TurnRecord
    <3> HIDE DEF q
    <3> QED
      BY <3>1, <3>2
  <2>2. CASE SendCode(t)
    <3> DEFINE q == [turn[t] EXCEPT !.pc = "code", !.login = pending]
    <3>1. turn' = [turn EXCEPT ![t] = q]
      BY <2>2 DEF SendCode
    <3>2. q.conv = turn[t].conv /\ q.api = turn[t].api /\ q.pc = "code"
      BY <1>1 DEF TurnRecord
    <3> HIDE DEF q
    <3> QED
      BY <3>1, <3>2
  <2>3. CASE Run(t)
    <3> DEFINE c == Switched(conv[turn[t].conv], turn[t].engine)
               q == [turn[t] EXCEPT !.pc = "run", !.from = c.sid, !.sid = c.sid]
    <3>1. turn' = [turn EXCEPT ![t] = q]
      BY <2>3 DEF Run
    <3> HIDE DEF c
    <3>2. q.conv = turn[t].conv /\ q.api = turn[t].api /\ q.pc = "run"
      BY <1>1 DEF TurnRecord
    <3> HIDE DEF q
    <3> QED
      BY <3>1, <3>2
  <2> QED
    BY <2>1, <2>2, <2>3
<1>4. PICK q : /\ turn' = [turn EXCEPT ![t] = q] /\ q.conv = turn[t].conv /\ q.api = turn[t].api
               /\ q.pc \in {"run", "link", "code"}
  BY <1>3
<1>5. turn'[t] = q /\ \A x \in Turn : x # t => turn'[x] = turn[x]
  BY <1>1, <1>4
<1>6. \A x \in Turn : Follows(x, t)
  BY <1>4, <1>5 DEF Follows
<1> QED
  BY <1>2, <1>4, <1>5, <1>6, TurnKeepsLine

LEMMA RunEndKeepsLine ==
    ASSUME Bridge, TurnsInv, Lined, PostedOnce, NEW t \in Turn, NEW r \in Results(t), RunEnds(t, r)
    PROVE  Lined' /\ PostedOnce'
<1> DEFINE d == turn[t].conv
           behind == {x \in Turn : x # t /\ turn[x].pc = "queued" /\ turn[x].conv = d}
           waited == [x \in Turn |-> [turn[x] EXCEPT !.late = @ \/ x \in behind]]
<1>1. turn[t].pc = "run" /\ First(t)
  BY AtWorkIsFirst DEF RunEnds, AtWork
<1>2. r.kind \in {"text", "error", "stopped", "gone"}
  BY <1>1, ResultOwned
<1>3. /\ waited \in [Turn -> TurnRecord]
      /\ \A x \in Turn : Alike(waited[x], turn[x]) /\ waited[x].pc = turn[x].pc /\ waited[x].api = turn[x].api
  <2>1. ASSUME NEW x \in Turn, NEW late \in BOOLEAN
        PROVE  LET q == [turn[x] EXCEPT !.late = late]
               IN q \in TurnRecord /\ Alike(q, turn[x]) /\ q.pc = turn[x].pc /\ q.api = turn[x].api
    <3>1. turn[x] \in TurnRecord
      BY DEF TurnsInv, BridgeTyped
    <3> QED
      BY <3>1 DEF TurnRecord, Alike
  <2>2. \A x \in Turn : (turn[x].late \/ x \in behind) \in BOOLEAN
    BY DEF TurnsInv, BridgeTyped, TurnRecord
  <2> HIDE DEF behind
  <2> QED
    BY <2>1, <2>2
<1>4. CASE Retry(t, r)
  <2> DEFINE q == [waited[t] EXCEPT !.sid = None, !.late = TRUE]
  <2>1. turn' = [waited EXCEPT ![t] = q] /\ queue' = queue
    BY <1>4 DEF RunEnds
  <2>2. q.pc = "run" /\ q.conv = turn[t].conv /\ q.api = turn[t].api
    <3> HIDE DEF waited
    <3>1. waited[t] \in TurnRecord /\ waited[t].pc = "run" /\ waited[t].conv = turn[t].conv
          /\ waited[t].api = turn[t].api
      BY <1>1, <1>3 DEF Alike
    <3> QED
      BY <3>1 DEF TurnRecord
  <2> HIDE DEF q, waited
  <2>3. turn'[t] = q /\ \A x \in Turn : x # t => turn'[x] = waited[x]
    BY <1>3, <2>1
  <2>4. \A x \in Turn : Follows(x, t)
    BY <1>3, <2>2, <2>3 DEF Follows, Alike
  <2> QED
    BY <1>1, <2>1, <2>2, <2>3, <2>4, TurnKeepsLine
<1>5. CASE ~Retry(t, r)
  <2>1. turn' = Answered(waited, t, r.kind) /\ queue' = [queue EXCEPT ![d] = Tail(@)]
    BY <1>5 DEF RunEnds
  <2> HIDE DEF waited
  <2>2. \A x \in Turn : Follows(x, t)
    BY <1>2, <1>3, <2>1, AnsweredTurns, AnsweredFollows DEF Follows, Alike
  <2> QED
    BY <1>1, <2>1, <2>2, TurnKeepsLine
<1> QED
  BY <1>4, <1>5

LEMMA LineStep ==
    ASSUME Bridge, TurnsInv, Lined, PostedOnce, BridgeNext
    PROVE  Lined' /\ PostedOnce'
<1>1. ASSUME NEW t \in Turn, NEW c \in Conv, NEW e \in Engine, NEW i \in Inputs, Post(t, c, e, i)
      PROVE  Lined' /\ PostedOnce'
  <2> DEFINE q == [Ready EXCEPT !.pc = "queued", !.conv = c, !.engine = e, !.input = i, !.api = "waiting"]
  <2>1. q.pc = "queued" /\ q.conv = c /\ q.api = "waiting"
    BY DEF Ready
  <2>2. turn' = [turn EXCEPT ![t] = q] /\ queue' = [queue EXCEPT ![c] = Append(@, t)] /\ turn[t].api = "idle"
    BY <1>1 DEF Post
  <2> HIDE DEF q
  <2>3. turn'[t] = q /\ \A x \in Turn : x # t => turn'[x] = turn[x]
    BY <2>2 DEF TurnsInv, BridgeTyped
  <2>4. ~Busy(t)
    BY <2>2 DEF PostedOnce
  <2>5. PostedOnce'
    BY <2>1, <2>3 DEF PostedOnce, Busy, Lives
  <2> QED
    BY <2>1, <2>2, <2>3, <2>4, <2>5, LineGrows
<1>2. ASSUME NEW t \in Turn, TurnStep(t) PROVE Lined' /\ PostedOnce'
  <2>1. CASE Command(t)
    BY <2>1, AnswerKeepsLine DEF Command
  <2>2. CASE LinkKnown(t) \/ CodeDone(t)
    <3>1. First(t)
      BY <2>2, AtWorkIsFirst DEF LinkKnown, CodeDone, AtWork
    <3> QED
      BY <2>2, <3>1, AnswerKeepsLine DEF LinkKnown, CodeDone
  <2> QED
    BY <1>2, <2>1, <2>2, WaitKeepsLine, RunEndKeepsLine DEF TurnStep
<1>3. ASSUME NEW t \in Turn, GiveUp(t) PROVE Lined' /\ PostedOnce'
  <2> DEFINE q == [turn[t] EXCEPT !.api = "unreached"]
  <2>1. turn' = [turn EXCEPT ![t] = q] /\ queue' = queue
    BY <1>3 DEF GiveUp
  <2>2. q.pc = turn[t].pc /\ q.conv = turn[t].conv /\ q.api = "unreached"
    BY DEF TurnsInv, BridgeTyped, TurnRecord
  <2> HIDE DEF q
  <2>3. turn'[t] = q /\ \A x \in Turn : x # t => turn'[x] = turn[x]
    BY <2>1 DEF TurnsInv, BridgeTyped
  <2>4. \A x \in Turn : Busy(x) => Lives(x) /\ turn'[x].conv = turn[x].conv
    BY <2>2, <2>3 DEF Busy, Lives
  <2>5. PostedOnce'
    BY <2>2, <2>3 DEF PostedOnce, Busy, Lives
  <2> QED
    BY <2>1, <2>4, <2>5, LineStays
<1>4. ASSUME UNCHANGED <<queue, turn>> PROVE Lined' /\ PostedOnce'
  BY <1>4 DEF Lined, PostedOnce, Busy, Lives
<1>5. ASSUME NEW torn \in BOOLEAN, Crash(torn) PROVE Lined' /\ PostedOnce'
  <2>1. \A c \in Conv : queue'[c] = <<>>
    BY <1>5 DEF Crash
  <2>2. Lined'
    <3>1. \A c \in Conv : Len(queue'[c]) = 0
      BY <2>1
    <3> QED
      BY <3>1 DEF Lined
  <2>3. \A t \in Turn : ~Lives(t)
    <3> DEFINE heard(t) == IF turn[t].api = "waiting" THEN "unreached" ELSE turn[t].api
               ended(t) == IF ~Busy(t) THEN turn[t] ELSE [turn[t] EXCEPT !.pc = "answered", !.api = heard(t)]
    <3>1. turn' = [t \in Turn |-> ended(t)]
      BY <1>5 DEF Crash
    <3>2. ASSUME NEW t \in Turn PROVE ended(t).pc \notin {"queued", "run", "link", "code"}
      <4>1. turn[t] \in TurnRecord
        BY DEF TurnsInv, BridgeTyped
      <4> HIDE DEF heard
      <4> QED
        BY <4>1 DEF TurnRecord, Busy, Lives
    <3> HIDE DEF ended
    <3> QED
      BY <3>1, <3>2 DEF Busy, Lives
  <2> QED
    BY <2>2, <2>3 DEF PostedOnce, Busy, Lives
<1>6. CASE \E t \in Turn, c \in Conv, e \in Engine, i \in Inputs : Post(t, c, e, i)
  BY <1>1, <1>6
<1>7. CASE \E t \in Turn : TurnStep(t)
  BY <1>2, <1>7
<1>8. CASE \E t \in Turn : GiveUp(t)
  BY <1>3, <1>8
<1>9. CASE (\E l \in DOMAIN login : LoginCloses(l)) \/ (\E s \in Sid : CleanUp(s))
  BY <1>4, <1>9 DEF LoginCloses, CleanUp
<1>10. CASE \E torn \in BOOLEAN : Crash(torn)
  BY <1>5, <1>10
<1> QED
  BY <1>6, <1>7, <1>8, <1>9, <1>10 DEF BridgeNext

LEMMA BridgesTyped ==
    ASSUME Bridge, MaxCrashes \in Nat
    PROVE  /\ BridgeInit => BridgeTypes
           /\ BridgeTypes /\ (BridgeNext \/ UNCHANGED bridgeVars) => BridgeTypes'
<1>1. ASSUME BridgeInit PROVE BridgeTypes
  <2>1. \A c \in Conv : Len(queue[c]) = 0
    BY <1>1 DEF BridgeInit
  <2>2. Lined
    BY <2>1 DEF Lined
  <2>3. PostedOnce
    BY <1>1 DEF BridgeInit, PostedOnce, Busy, Lives, Ready
  <2> QED
    BY <1>1, <2>2, <2>3, TurnsInitially, LoginInitially DEF BridgeTypes, BridgeInit
<1>2. ASSUME BridgeTypes, BridgeNext PROVE BridgeTypes'
  <2>1. crashes' \in 0..MaxCrashes
    <3>1. CASE \E t \in Turn, c \in Conv, e \in Engine, i \in Inputs : Post(t, c, e, i)
      BY <1>2, <3>1 DEF BridgeTypes, Post
    <3>2. ASSUME NEW t \in Turn, TurnStep(t) PROVE crashes' = crashes
      BY <3>2 DEF TurnStep, Command, StartLogin, LinkKnown, SendCode, CodeDone, Run, RunEnds
    <3>3. CASE \E t \in Turn : TurnStep(t) \/ GiveUp(t)
      BY <1>2, <3>2, <3>3 DEF BridgeTypes, GiveUp
    <3>4. CASE (\E l \in DOMAIN login : LoginCloses(l)) \/ (\E s \in Sid : CleanUp(s))
      BY <1>2, <3>4 DEF BridgeTypes, LoginCloses, CleanUp
    <3>5. CASE \E torn \in BOOLEAN : Crash(torn)
      <4>1. crashes < MaxCrashes /\ crashes' = crashes + 1
        BY <3>5 DEF Crash
      <4> QED
        BY <1>2, <4>1 DEF BridgeTypes
    <3> QED
      BY <1>2, <3>1, <3>3, <3>4, <3>5 DEF BridgeNext
  <2> QED
    BY <1>2, <2>1, TurnsStep, LoginStep, LineStep DEF BridgeTypes, LoginInv
<1>3. ASSUME BridgeTypes, UNCHANGED bridgeVars PROVE BridgeTypes'
  <2>1. UNCHANGED <<queue, turn, crashes>>
    BY <1>3 DEF bridgeVars
  <2> QED
    BY <1>3, <2>1, BridgeStays DEF BridgeTypes, Lined, PostedOnce, Busy, Lives
<1> QED
  BY <1>1, <1>2, <1>3

-----------------------------------------------------------------------------
\* Console: an edit that no other one overlapped leaves the settings right.

Idle == [pc |-> "idle"]
Job ==
    {Idle}
    \cup [pc : {"update"}, kind : Maybe(Kinds), limits : [time : Maybe({60}), cap : Maybe({100})], lone : BOOLEAN]
    \cup [pc : {"remove"}, unsold : BOOLEAN, lone : BOOLEAN]
    \cup [pc : {"look"}, want : Channel, lone : BOOLEAN]
    \cup [pc : {"clear"}, want : Channel, seen : SUBSET Channel, lone : BOOLEAN]
    \cup [pc : {"set"}, want : Channel, cleared : SUBSET Channel, lone : BOOLEAN]
ConsoleTyped ==
    /\ job \in [Editor -> Job] /\ active \subseteq channels /\ channels \subseteq Channel /\ sold \in BOOLEAN
    /\ package = Deleted \/ package \in [kind : Kinds, time : Maybe({60}), cap : Maybe({100}), shown : BOOLEAN]
\* What a request that is alone still knows: the limits it writes are those of
\* the kind the package will have, and it clears every channel that is active.
Knows(j) ==
    /\ j.pc = "update" /\ package # Deleted =>
         /\ (j.limits.time # None) = Timed(Or(j.kind, package.kind))
         /\ (j.limits.cap # None) = Capped(Or(j.kind, package.kind))
    /\ j.pc = "clear" => active \subseteq j.seen
    /\ j.pc = "set" => active \subseteq j.cleared
LoneKnows ==
    \A e \in Underway : job[e].lone => Knows(job[e]) /\ \A f \in Editor \ {e} : job[f] = Idle
ConsoleInv == ConsoleTyped /\ LoneKnows

LEMMA ConsoleInitially ==
    ASSUME ConsoleInit
    PROVE  ConsoleInv
<1>1. package \in [kind : Kinds, time : Maybe({60}), cap : Maybe({100}), shown : BOOLEAN]
  BY DEF ConsoleInit, Kinds, Maybe
<1>2. ConsoleTyped
  BY <1>1 DEF ConsoleInit, ConsoleTyped, Job, Idle
<1>3. LoneKnows
  BY DEF ConsoleInit, LoneKnows, Underway
<1> QED
  BY <1>2, <1>3 DEF ConsoleInv

\* A request that another one overlaps.
LEMMA Overlapped ==
    ASSUME ConsoleTyped, NEW f \in Underway
    PROVE  LET k == [job[f] EXCEPT !.lone = FALSE] IN k \in Job /\ ~k.lone /\ k.pc = job[f].pc
<1> DEFINE k == [job[f] EXCEPT !.lone = FALSE]
<1>1. job[f] \in Job /\ job[f] # Idle
  BY DEF ConsoleTyped, Underway, Idle
<1>2. CASE job[f].pc = "update"
  BY <1>1, <1>2 DEF Job
<1>3. CASE job[f].pc = "remove"
  BY <1>1, <1>3 DEF Job
<1>4. CASE job[f].pc = "look"
  BY <1>1, <1>4 DEF Job
<1>5. CASE job[f].pc = "clear"
  BY <1>1, <1>5 DEF Job
<1>6. CASE job[f].pc = "set"
  BY <1>1, <1>6 DEF Job
<1> QED
  BY <1>1, <1>2, <1>3, <1>4, <1>5, <1>6 DEF Job

\* Requests that begin, go on and end.
LEMMA EditBegins ==
    ASSUME ConsoleInv, NEW e \in Editor, NEW j \in Job, j # Idle, j.lone = Lone, Begins(e, j),
           Lone => Knows(j), UNCHANGED <<package, sold, active, channels, staff>>
    PROVE  ConsoleInv'
<1> DEFINE stays(f) == IF f \in Underway THEN [job[f] EXCEPT !.lone = FALSE] ELSE job[f]
<1>1. job' = [f \in Editor |-> IF f = e THEN j ELSE stays(f)]
  BY DEF Begins
<1>2. ASSUME NEW f \in Editor
      PROVE  /\ stays(f) \in Job
             /\ f \in Underway => ~stays(f).lone
             /\ f \notin Underway => job[f] = Idle /\ stays(f) = Idle
  <2>1. job[f] \in Job
    BY DEF ConsoleInv, ConsoleTyped
  <2>2. CASE f \in Underway
    BY <2>2, Overlapped DEF ConsoleInv
  <2>3. CASE f \notin Underway
    BY <2>1, <2>3 DEF Job, Underway, Idle
  <2> QED
    BY <2>2, <2>3
<1> HIDE DEF stays
<1>3. job' \in [Editor -> Job] /\ job'[e] = j /\ \A f \in Editor : f # e => job'[f] = stays(f)
  BY <1>1, <1>2
<1>4. ConsoleTyped'
  BY <1>3 DEF ConsoleInv, ConsoleTyped
<1>5. LoneKnows'
  <2> SUFFICES ASSUME NEW f \in Editor, job'[f].pc # "idle", job'[f].lone
               PROVE  Knows(job[f])' /\ \A g \in Editor \ {f} : job'[g] = Idle
    BY DEF LoneKnows, Underway
  <2>1. f = e
    <3> SUFFICES ASSUME f # e PROVE FALSE
      OBVIOUS
    <3>1. job'[f] = stays(f)
      BY <1>3
    <3>2. stays(f) # Idle
      BY <3>1 DEF Idle
    <3> QED
      BY <1>2, <3>1, <3>2
  <2>2. Lone
    BY <1>3, <2>1
  <2>3. \A g \in Editor \ {e} : job'[g] = Idle
    BY <1>2, <1>3, <2>2 DEF Lone
  <2>4. Knows(job[e])'
    BY <1>3, <2>2 DEF Knows
  <2> QED
    BY <2>1, <2>3, <2>4
<1> QED
  BY <1>4, <1>5 DEF ConsoleInv

\* One request goes on as j; what it and the others know still holds.
LEMMA EditMoves ==
    ASSUME ConsoleInv, NEW e \in Editor, NEW j \in Job, job' = [job EXCEPT ![e] = j], ConsoleTyped',
           job[e].pc # "idle",
           j # Idle => j.lone = job[e].lone /\ (j.lone => Knows(j)')
    PROVE  ConsoleInv'
<1>1. job \in [Editor -> Job] /\ job'[e] = j /\ \A f \in Editor : f # e => job'[f] = job[f]
  BY DEF ConsoleInv, ConsoleTyped
<1>2. LoneKnows'
  <2> SUFFICES ASSUME NEW f \in Editor, job'[f].pc # "idle", job'[f].lone
               PROVE  Knows(job[f])' /\ \A g \in Editor \ {f} : job'[g] = Idle
    BY DEF LoneKnows, Underway
  <2>1. f = e
    <3> SUFFICES ASSUME f # e PROVE FALSE
      OBVIOUS
    <3>1. job'[f] = job[f] /\ f \in Underway
      BY <1>1 DEF Underway
    <3>2. job[e] = Idle
      BY <3>1 DEF ConsoleInv, LoneKnows
    <3> QED
      BY <3>2 DEF Idle
  <2>2. j # Idle
    BY <1>1, <2>1 DEF Idle
  <2>3. job[e].lone /\ e \in Underway
    BY <1>1, <2>1, <2>2 DEF Underway
  <2>4. \A g \in Editor \ {e} : job'[g] = Idle
    BY <1>1, <2>3 DEF ConsoleInv, LoneKnows
  <2>5. Knows(j)'
    BY <1>1, <2>1, <2>2
  <2>6. Knows(job[e])'
    BY <1>1, <2>5 DEF Knows
  <2> QED
    BY <2>1, <2>4, <2>6
<1> QED
  BY <1>2 DEF ConsoleInv

LEMMA EditEnds ==
    ASSUME ConsoleInv, NEW e \in Editor, Ends(e), job[e].pc # "idle",
           /\ active' \subseteq channels' /\ channels' \subseteq Channel /\ sold' \in BOOLEAN
           /\ \/ package' = Deleted
              \/ package' \in [kind : Kinds, time : Maybe({60}), cap : Maybe({100}), shown : BOOLEAN]
    PROVE  ConsoleInv'
<1>1. Idle \in Job /\ job' = [job EXCEPT ![e] = Idle]
  BY DEF Job, Ends, Idle
<1>2. ConsoleTyped'
  BY <1>1 DEF ConsoleInv, ConsoleTyped, Deleted
<1> QED
  BY <1>1, <1>2, EditMoves

\* Nothing a lone request knows is lost when all requests stay as they are.
LEMMA EditsStand ==
    ASSUME ConsoleInv, UNCHANGED <<job, package>>, active' \subseteq active, active' \subseteq channels',
           channels' \subseteq Channel, sold' \in BOOLEAN
    PROVE  ConsoleInv'
<1>1. ConsoleTyped'
  BY DEF ConsoleInv, ConsoleTyped, Deleted
<1>2. LoneKnows'
  BY DEF ConsoleInv, LoneKnows, Knows, Underway, Deleted
<1> QED
  BY <1>1, <1>2 DEF ConsoleInv

LEMMA BeginSettles ==
    ASSUME ConsoleInv,
           NEW e \in Editor,
           \/ CountSold(e)
           \/ \E asked \in Asked : ReadPackage(e, asked)
           \/ \E c \in Channel : FindChannel(e, c)
    PROVE  ConsoleInv'
<1>1. Lone \in BOOLEAN
  BY DEF Lone
<1>2. CASE CountSold(e)
  <2> DEFINE j == [pc |-> "remove", unsold |-> ~sold, lone |-> Lone]
  <2>1. j \in Job /\ j # Idle /\ j.lone = Lone /\ j.pc = "remove"
    BY <1>1 DEF Job, Idle
  <2>2. Begins(e, j) /\ UNCHANGED <<package, sold, active, channels, staff>>
    BY <1>2 DEF CountSold
  <2> HIDE DEF j
  <2>3. Knows(j)
    BY <2>1 DEF Knows
  <2> QED
    BY <2>1, <2>2, <2>3, EditBegins
<1>3. ASSUME NEW c \in Channel, FindChannel(e, c) PROVE ConsoleInv'
  <2> DEFINE j == [pc |-> "look", want |-> c, lone |-> Lone]
  <2>1. j \in Job /\ j # Idle /\ j.lone = Lone /\ j.pc = "look"
    BY <1>1 DEF Job, Idle
  <2>2. Begins(e, j) /\ UNCHANGED <<package, sold, active, channels, staff>>
    BY <1>3 DEF FindChannel
  <2> HIDE DEF j
  <2>3. Knows(j)
    BY <2>1 DEF Knows
  <2> QED
    BY <2>1, <2>2, <2>3, EditBegins
<1>4. ASSUME NEW asked \in Asked, ReadPackage(e, asked) PROVE ConsoleInv'
  <2> DEFINE w == Merged(asked, package)
             j == [pc |-> "update", kind |-> asked.kind, limits |-> Limits(w), lone |-> Lone]
  <2>1. package # Deleted /\ AllGiven(w) /\ Begins(e, j) /\ UNCHANGED <<package, sold, active, channels, staff>>
    BY <1>4 DEF ReadPackage
  <2>2. /\ w.kind = Or(asked.kind, package.kind)
        /\ w.time \in Maybe({60}) /\ w.cap \in Maybe({100})
    BY <2>1 DEF Merged, Or, Asked, Maybe, ConsoleInv, ConsoleTyped
  <2> HIDE DEF w
  <2>3. /\ Limits(w).time = (IF Timed(w.kind) THEN w.time ELSE None)
        /\ Limits(w).cap = (IF Capped(w.kind) THEN w.cap ELSE None)
        /\ Limits(w) \in [time : Maybe({60}), cap : Maybe({100})]
    BY <2>2 DEF Limits, Maybe
  <2>4. j \in Job /\ j # Idle /\ j.lone = Lone /\ j.pc = "update" /\ j.kind = asked.kind /\ j.limits = Limits(w)
    <3> HIDE DEF Limits
    <3> QED
      BY <1>1, <2>3 DEF Job, Idle, Asked
  <2> HIDE DEF j
  <2>5. (j.limits.time # None) = Timed(w.kind) /\ (j.limits.cap # None) = Capped(w.kind)
    BY <2>1, <2>3, <2>4 DEF AllGiven, Timed, Capped
  <2>6. Knows(j)
    BY <2>2, <2>4, <2>5 DEF Knows
  <2> QED
    BY <2>1, <2>4, <2>6, EditBegins
<1> QED
  BY <1>2, <1>3, <1>4

LEMMA EditorSettles ==
    ASSUME ConsoleInv, NEW e \in Editor, EditorStep(e)
    PROVE  ConsoleInv'
<1>1. job[e] \in Job /\ active \subseteq channels /\ channels \subseteq Channel /\ sold \in BOOLEAN
  BY DEF ConsoleInv, ConsoleTyped
<1>2. \/ package = Deleted
      \/ package \in [kind : Kinds, time : Maybe({60}), cap : Maybe({100}), shown : BOOLEAN]
  BY DEF ConsoleInv, ConsoleTyped
<1>3. CASE WritePackage(e)
  <2>1. job[e].kind \in Maybe(Kinds) /\ job[e].limits.time \in Maybe({60}) /\ job[e].limits.cap \in Maybe({100})
    BY <1>1, <1>3 DEF WritePackage, Job, Idle
  <2>2. \/ package' = Deleted
        \/ package' \in [kind : Kinds, time : Maybe({60}), cap : Maybe({100}), shown : BOOLEAN]
    BY <1>2, <1>3, <2>1 DEF WritePackage, Or, Maybe
  <2> QED
    BY <1>1, <1>3, <2>2, EditEnds DEF WritePackage
<1>4. CASE DropPackage(e)
  <2>1. \/ package' = Deleted
        \/ package' \in [kind : Kinds, time : Maybe({60}), cap : Maybe({100}), shown : BOOLEAN]
    BY <1>2, <1>4 DEF DropPackage
  <2> QED
    BY <1>1, <1>4, <2>1, EditEnds DEF DropPackage
<1>5. CASE SetActive(e)
  <2>1. active' \subseteq channels' /\ UNCHANGED <<package, sold, channels>>
    BY <1>1, <1>5 DEF SetActive
  <2> QED
    BY <1>1, <1>2, <1>5, <2>1, EditEnds DEF SetActive
<1>6. CASE SeeActive(e)
  <2>1. job[e].want \in Channel /\ job[e].lone \in BOOLEAN /\ job[e].pc # "idle"
    BY <1>1, <1>6 DEF SeeActive, Job, Idle
  <2>2. [pc |-> "clear", want |-> job[e].want, seen |-> active, lone |-> job[e].lone] \in Job
    BY <1>1, <2>1 DEF Job
  <2>3. PICK j \in Job : j = [pc |-> "clear", want |-> job[e].want, seen |-> active, lone |-> job[e].lone]
    BY <2>2
  <2>4. job' = [job EXCEPT ![e] = j] /\ UNCHANGED <<package, sold, active, channels, staff>>
    BY <1>6, <2>3 DEF SeeActive
  <2>5. j.pc = "clear" /\ j.seen = active /\ j.lone = job[e].lone
    BY <2>3
  <2>6. Knows(j)' /\ ConsoleTyped'
    BY <2>4, <2>5 DEF Knows, ConsoleInv, ConsoleTyped, Deleted
  <2> QED
    BY <2>1, <2>4, <2>5, <2>6, EditMoves
<1>7. CASE ClearActive(e)
  <2> DEFINE cut == job[e].seen \cap active
  <2>1. job[e].want \in Channel /\ job[e].lone \in BOOLEAN /\ job[e].pc = "clear"
    BY <1>1, <1>7 DEF ClearActive, Job, Idle
  <2>2. cut \in SUBSET Channel
    BY <1>1
  <2>3. job[e].lone => active \subseteq cut
    BY <2>1 DEF ConsoleInv, LoneKnows, Underway, Knows
  <2>4. [pc |-> "set", want |-> job[e].want, cleared |-> cut, lone |-> job[e].lone] \in Job
    <3> HIDE DEF cut
    <3> QED
      BY <2>1, <2>2 DEF Job
  <2>5. PICK j \in Job : j = [pc |-> "set", want |-> job[e].want, cleared |-> cut, lone |-> job[e].lone]
    BY <2>4
  <2>6. job' = [job EXCEPT ![e] = j] /\ UNCHANGED <<package, sold, active, channels, staff>>
    BY <1>7, <2>5 DEF ClearActive
  <2>7. j.pc = "set" /\ j.cleared = cut /\ j.lone = job[e].lone
    BY <2>5
  <2> HIDE DEF cut
  <2>8. (j.lone => Knows(j)') /\ ConsoleTyped'
    BY <2>3, <2>6, <2>7 DEF Knows, ConsoleInv, ConsoleTyped, Deleted
  <2> QED
    BY <2>1, <2>6, <2>7, <2>8, EditMoves
<1> QED
  BY <1>3, <1>4, <1>5, <1>6, <1>7 DEF EditorStep

LEMMA ConsoleStep ==
    ASSUME ConsoleInv, ConsoleNext
    PROVE  ConsoleInv'
<1>1. active \subseteq channels /\ channels \subseteq Channel /\ sold \in BOOLEAN
  BY DEF ConsoleInv, ConsoleTyped
<1>2. ASSUME NEW e \in Editor, EditorStep(e) PROVE ConsoleInv'
  BY <1>2, EditorSettles
<1>3. ASSUME NEW e \in Editor,
             \/ CountSold(e)
             \/ \E asked \in Asked : ReadPackage(e, asked)
             \/ \E c \in Channel : FindChannel(e, c)
      PROVE  ConsoleInv'
  BY <1>3, BeginSettles
<1>4. CASE Sell
  BY <1>1, <1>4, EditsStand DEF Sell
<1>5. ASSUME NEW c \in Channel, RemoveChannel(c) PROVE ConsoleInv'
  BY <1>1, <1>5, EditsStand DEF RemoveChannel
<1>6. ASSUME NEW by \in Admin, NEW a \in Admin, NEW yes \in BOOLEAN, SetStaff(by, a, yes) PROVE ConsoleInv'
  BY <1>1, <1>6, EditsStand DEF SetStaff
<1> QED
  BY <1>2, <1>3, <1>4, <1>5, <1>6 DEF ConsoleNext

\* Who ends, and what it leaves.
LEMMA WhoEnds ==
    ASSUME ConsoleInv, ConsoleNext, NEW e \in Underway, job'[e].pc = "idle"
    PROVE  WritePackage(e) \/ DropPackage(e) \/ SetActive(e)
<1>1. job \in [Editor -> Job] /\ e \in Editor /\ job[e].pc # "idle"
  BY DEF ConsoleInv, ConsoleTyped, Underway
<1>2. ASSUME NEW f \in Editor, EditorStep(f)
      PROVE  WritePackage(e) \/ DropPackage(e) \/ SetActive(e)
  <2>1. CASE f # e
    <3>1. job'[e] = job[e]
      BY <1>1, <1>2, <2>1 DEF EditorStep, WritePackage, DropPackage, SeeActive, ClearActive, SetActive, Ends
    <3> QED
      BY <1>1, <3>1
  <2>2. CASE f = e
    <3>1. ASSUME SeeActive(e) PROVE FALSE
      <4>1. job'[e] = [pc |-> "clear", want |-> job[e].want, seen |-> active, lone |-> job[e].lone]
        BY <1>1, <3>1 DEF SeeActive
      <4> QED
        BY <4>1
    <3>2. ASSUME ClearActive(e) PROVE FALSE
      <4>1. job'[e] = [pc |-> "set", want |-> job[e].want, cleared |-> job[e].seen \cap active, lone |-> job[e].lone]
        BY <1>1, <3>2 DEF ClearActive
      <4> QED
        BY <4>1
    <3> QED
      BY <1>2, <2>2, <3>1, <3>2 DEF EditorStep
  <2> QED
    BY <2>1, <2>2
<1>3. ASSUME NEW f \in Editor, NEW j, Begins(f, j) PROVE FALSE
  <2>1. job'[e] = [job[e] EXCEPT !.lone = FALSE]
    BY <1>1, <1>3 DEF Begins
  <2> QED
    BY <1>1, <2>1, Overlapped DEF ConsoleInv
<1>4. CASE UNCHANGED job
  BY <1>1, <1>4
<1> QED
  BY <1>2, <1>3, <1>4
    DEF ConsoleNext, CountSold, ReadPackage, FindChannel, Sell, RemoveChannel, SetStaff

LEMMA LoneSettles ==
    ASSUME ConsoleInv, ConsoleNext, NEW e \in Underway, job'[e].pc = "idle", job[e].lone
    PROVE  /\ job[e].pc = "set" /\ job[e].want \in channels => active' = {job[e].want}
           /\ job[e].pc = "update" /\ package # Deleted => LimitsFit(package')
<1>1. Knows(job[e]) /\ (WritePackage(e) \/ DropPackage(e) \/ SetActive(e))
  BY WhoEnds DEF ConsoleInv, LoneKnows
<1>2. ASSUME job[e].pc = "set", job[e].want \in channels PROVE active' = {job[e].want}
  BY <1>1, <1>2 DEF WritePackage, DropPackage, SetActive, Knows
<1>3. ASSUME job[e].pc = "update", package # Deleted PROVE LimitsFit(package')
  <2>1. package' = [kind |-> Or(job[e].kind, package.kind), time |-> job[e].limits.time,
                    cap |-> job[e].limits.cap, shown |-> package.shown]
    BY <1>1, <1>3 DEF WritePackage, DropPackage, SetActive
  <2>2. /\ package'.kind = Or(job[e].kind, package.kind) /\ package'.time = job[e].limits.time
        /\ package'.cap = job[e].limits.cap
    BY <2>1
  <2> QED
    BY <1>1, <1>3, <2>2 DEF LimitsFit, Knows
<1> QED
  BY <1>2, <1>3

LEMMA ConsoleStays ==
    ASSUME ConsoleInv, UNCHANGED consoleVars
    PROVE  ConsoleInv'
  BY EditsStand DEF consoleVars, ConsoleInv, ConsoleTyped

-----------------------------------------------------------------------------
\* Console.
ConsoleTypes == ConsoleInv /\ staff \subseteq Admin /\ changes \in 0..MaxChanges

LEMMA ConsolesAreTyped == ConsoleTypes => ConsoleTypeOK
  BY DEF ConsoleTypes, ConsoleInv, ConsoleTyped, ConsoleTypeOK, Job, Idle

LEMMA ConsolesTyped ==
    ASSUME MaxChanges \in Nat
    PROVE  /\ ConsoleInit => ConsoleTypes
           /\ ConsoleTypes /\ (ConsoleNext \/ UNCHANGED consoleVars) => ConsoleTypes'
<1>1. ConsoleInit => ConsoleTypes
  BY ConsoleInitially DEF ConsoleInit, ConsoleTypes
<1>2. ASSUME ConsoleTypes, ConsoleNext PROVE staff' \subseteq Admin /\ changes' \in 0..MaxChanges
  <2>1. staff' \subseteq Admin
    BY <1>2 DEF ConsoleNext, EditorStep, WritePackage, DropPackage, SeeActive, ClearActive, SetActive,
       CountSold, ReadPackage, FindChannel, Sell, RemoveChannel, SetStaff, ConsoleTypes
  <2>2. changes' = changes \/ (changes < MaxChanges /\ changes' = changes + 1)
    BY <1>2 DEF ConsoleNext, EditorStep, WritePackage, DropPackage, SeeActive, ClearActive, SetActive,
       CountSold, ReadPackage, FindChannel, Sell, RemoveChannel, SetStaff, Begins
  <2>3. changes' \in 0..MaxChanges
    BY <1>2, <2>2 DEF ConsoleTypes
  <2> QED
    BY <2>1, <2>3
<1>3. ASSUME ConsoleTypes, ConsoleNext PROVE ConsoleTypes'
  BY <1>2, <1>3, ConsoleStep DEF ConsoleTypes
<1>4. ASSUME ConsoleTypes, UNCHANGED consoleVars PROVE ConsoleTypes'
  BY <1>4, ConsoleStays DEF ConsoleTypes, consoleVars
<1> QED
  BY <1>1, <1>3, <1>4

-----------------------------------------------------------------------------
\* Types.

\* AdminPages: a call under way asks for a range there is.
CallRecord == [pc : {"idle", "asked", "answered"}, kind : {"load", "edit"},
               range : Maybe(Period), seen : 0..MaxData]
Paged == FirstPeriod \in Period /\ {MaxData, MaxLost} \subseteq Nat
AdminTypes == AdminTypeOK /\ \A c \in Call : call[c].pc # "idle" => call[c].range \in Period

LEMMA CallsTyped ==
    ASSUME Paged
    PROVE  /\ NoCall \in CallRecord /\ NoCall.pc = "idle"
           /\ \A kind \in {"load", "edit"}, r \in Period :
                AskedFor(kind, r) \in CallRecord /\ AskedFor(kind, r).range = r
<1>1. NoCall \in CallRecord /\ NoCall.pc = "idle"
  BY DEF NoCall, CallRecord, Maybe, Paged
<1>2. ASSUME NEW kind \in {"load", "edit"}, NEW r \in Period
      PROVE  AskedFor(kind, r) \in CallRecord /\ AskedFor(kind, r).range = r
  <2> DEFINE k == [NoCall EXCEPT !.pc = "asked", !.kind = kind, !.range = r]
  <2>1. AskedFor(kind, r) = k
    BY DEF AskedFor
  <2>2. NoCall \in [pc : {"idle", "asked", "answered"}, kind : {"load", "edit"}, range : Maybe(Period), seen : 0..MaxData]
    BY <1>1 DEF CallRecord
  <2>3. k \in [pc : {"idle", "asked", "answered"}, kind : {"load", "edit"}, range : Maybe(Period), seen : 0..MaxData]
        /\ k.range = r
    BY <2>2 DEF Maybe
  <2> QED
    BY <2>1, <2>3 DEF CallRecord
<1> QED
  BY <1>1, <1>2

LEMMA AdminInitially ==
    ASSUME Paged, AdminInit
    PROVE  AdminTypes
<1>1. call \in [Call -> CallRecord] /\ \A c \in Call : call[c].pc = "idle"
  BY CallsTyped DEF AdminInit
<1>2. call \in [Call -> [pc : {"idle", "asked", "answered"}, kind : {"load", "edit"}, range : Maybe(Period), seen : 0..MaxData]]
  BY <1>1 DEF CallRecord
<1>3. route \in Maybe(Page) /\ range \in Period /\ hidden \in BOOLEAN /\ expired \in BOOLEAN /\ loaded = None
  BY DEF AdminInit, Paged, Maybe
<1>5. data \in 0..MaxData /\ lost \in 0..MaxLost
  BY DEF AdminInit, Paged
<1>4. AdminTypeOK
  BY <1>2, <1>3, <1>5 DEF AdminTypeOK
<1> QED
  BY <1>1, <1>4 DEF AdminTypes

\* One call is put in another's place.
LEMMA CallChanges ==
    ASSUME Paged, AdminTypes, NEW c \in Call, NEW k \in CallRecord, k.pc # "idle" => k.range \in Period,
           call' = [call EXCEPT ![c] = k]
    PROVE  call' \in [Call -> CallRecord] /\ \A d \in Call : call'[d].pc # "idle" => call'[d].range \in Period
  BY DEF AdminTypes, AdminTypeOK, CallRecord

LEMMA AdminCallStarts ==
    ASSUME Paged, AdminTypes, NEW c \in Call, NEW kind \in {"load", "edit"}, NEW r \in Period, StartCall(c, kind, r)
    PROVE  call' \in [Call -> CallRecord] /\ \A d \in Call : call'[d].pc # "idle" => call'[d].range \in Period
  BY CallsTyped, CallChanges DEF StartCall

LEMMA AdminStep ==
    ASSUME Paged, AdminTypes, AdminNext
    PROVE  AdminTypes'
<1> DEFINE Calls == call' \in [Call -> CallRecord] /\ \A d \in Call : call'[d].pc # "idle" => call'[d].range \in Period
<1>1. /\ route \in Maybe(Page) /\ range \in Period /\ hidden \in BOOLEAN /\ expired \in BOOLEAN
      /\ data \in 0..MaxData /\ lost \in 0..MaxLost /\ call \in [Call -> CallRecord]
      /\ (loaded # None => loaded \in [range : Period, seen : 0..MaxData])
      /\ \A c \in Call : call[c].pc # "idle" => call[c].range \in Period
  BY DEF AdminTypes, AdminTypeOK, CallRecord
<1>2. ASSUME Calls, route' \in Maybe(Page), range' \in Period, hidden' \in BOOLEAN, expired' \in BOOLEAN,
             data' \in 0..MaxData, lost' \in 0..MaxLost,
             loaded' # None => loaded' \in [range : Period, seen : 0..MaxData]
      PROVE  AdminTypes'
  BY <1>2 DEF AdminTypes, AdminTypeOK, CallRecord
<1>3. ASSUME NEW c \in Call, Served(c) PROVE AdminTypes'
  <2>1. data' \in 0..MaxData /\ call' = [call EXCEPT ![c].pc = "answered", ![c].seen = data']
    BY <1>1, <1>3 DEF Served, Paged
  <2> DEFINE k == [call[c] EXCEPT !.pc = "answered", !.seen = data']
  <2>2. call[c] \in [pc : {"idle", "asked", "answered"}, kind : {"load", "edit"}, range : Maybe(Period), seen : 0..MaxData]
        /\ call[c].range \in Period
    BY <1>1, <1>3 DEF Served, CallRecord
  <2>4. k \in [pc : {"idle", "asked", "answered"}, kind : {"load", "edit"}, range : Maybe(Period), seen : 0..MaxData]
        /\ k.range = call[c].range
    BY <2>1, <2>2
  <2>5. call' = [call EXCEPT ![c] = k]
    BY <1>1, <2>1
  <2>6. k \in CallRecord /\ (k.pc # "idle" => k.range \in Period)
    BY <2>2, <2>4 DEF CallRecord
  <2> HIDE DEF k
  <2>3. Calls
    BY <2>5, <2>6, CallChanges
  <2> QED
    BY <1>1, <1>2, <1>3, <2>1, <2>3 DEF Served
<1>4. ASSUME NEW c \in Call, CallAnswered(c) PROVE AdminTypes'
  <2>1. call[c] \in CallRecord /\ call[c].range \in Period
    BY <1>1, <1>4 DEF CallAnswered
  <2>2. CASE call[c].kind = "load"
    <3>1. loaded' \in [range : Period, seen : 0..MaxData] /\ call' = [call EXCEPT ![c] = NoCall]
      BY <1>4, <2>1, <2>2 DEF CallAnswered, CallRecord
    <3>2. Calls
      BY <3>1, CallsTyped, CallChanges
    <3> QED
      BY <1>1, <1>2, <1>4, <3>1, <3>2 DEF CallAnswered
  <2>3. CASE call[c].kind # "load"
    <3> DEFINE k == IF route.edits = "reload" THEN AskedFor("load", call[c].range) ELSE NoCall
    <3>1. UNCHANGED loaded /\ call' = [call EXCEPT ![c] = k]
      BY <1>4, <2>3 DEF CallAnswered
    <3>2. k \in CallRecord /\ (k.pc # "idle" => k.range \in Period)
      BY <2>1, CallsTyped
    <3>3. Calls
      BY <3>1, <3>2, CallChanges
    <3> QED
      BY <1>1, <1>2, <1>4, <3>1, <3>3 DEF CallAnswered
  <2> QED
    BY <2>2, <2>3
<1>5. ASSUME NEW c \in Call, CallFails(c) PROVE AdminTypes'
  <2>1. Calls
    BY <1>5, CallsTyped, CallChanges DEF CallFails
  <2> QED
    BY <1>1, <1>2, <1>5, <2>1 DEF CallFails, Paged
<1>6. ASSUME LeavesApp, UNCHANGED <<range, hidden, data, expired, lost>> PROVE AdminTypes'
  BY <1>1, <1>2, <1>6, CallsTyped DEF LeavesApp, Maybe
<1>7. ASSUME NEW c \in Call, TimerFires(c) \/ EditPage(c) PROVE AdminTypes'
  <2>1. Calls
    BY <1>1, <1>7, AdminCallStarts DEF TimerFires, EditPage
  <2> QED
    BY <1>1, <1>2, <1>7, <2>1 DEF TimerFires, EditPage
<1>8. ASSUME NEW c \in Call, SignIn(c) PROVE AdminTypes'
  <2>1. Calls
    BY <1>1, <1>8, AdminCallStarts DEF SignIn, Paged
  <2>2. DashboardPage \in Page
    BY DEF Page
  <2> QED
    BY <1>1, <1>2, <1>8, <2>1, <2>2 DEF SignIn, Paged, Maybe
<1>9. ASSUME NEW c \in Call, NEW r \in Period, ChooseRange(r, c) PROVE AdminTypes'
  <2>1. Calls
    BY <1>1, <1>9, AdminCallStarts DEF ChooseRange
  <2> QED
    BY <1>1, <1>2, <1>9, <2>1 DEF ChooseRange
<1>10. ASSUME NEW c \in Call, NEW p \in Page, OpenRoute(p, c) PROVE AdminTypes'
  <2>1. Calls
    BY <1>10, CallsTyped DEF OpenRoute, Paged
  <2> QED
    BY <1>1, <1>2, <1>10, <2>1 DEF OpenRoute, Paged, Maybe
<1>11. CASE OthersEdit \/ TabTurns \/ TokenExpires
  <2>1. UNCHANGED <<route, range, call, loaded, lost>>
    BY <1>11 DEF OthersEdit, TabTurns, TokenExpires
  <2>2. Calls
    BY <1>1, <2>1
  <2>3. data' \in 0..MaxData
    BY <1>1, <1>11 DEF OthersEdit, TabTurns, TokenExpires, Paged
  <2>4. hidden' \in BOOLEAN /\ expired' \in BOOLEAN
    BY <1>1, <1>11 DEF OthersEdit, TabTurns, TokenExpires
  <2> QED
    BY <1>1, <1>2, <2>1, <2>2, <2>3, <2>4
<1> QED
  BY <1>3, <1>4, <1>5, <1>6, <1>7, <1>8, <1>9, <1>10, <1>11 DEF AdminNext, CallStep, CallRefused, SignOut

LEMMA AdminStays ==
    ASSUME AdminTypes, UNCHANGED adminVars
    PROVE  AdminTypes'
  BY DEF adminVars, AdminTypes, AdminTypeOK

-----------------------------------------------------------------------------
\* Network: who is taken to be up was so while it was looked.  First what the
\* chain of routers above one is, which Chain finds by recursion.

\* What Chain has collected after as many steps as there are routers: f is the
\* function it is defined by.
Further(S, above) == S \cup ({above[x] : x \in S} \ {None})
Climbs(f, n, r, above) ==
    f = [i \in 0..n |-> IF i = 0 THEN {r} ELSE Further(f[i - 1], above)]

LEMMA ClimbExists ==
    ASSUME NEW n \in Nat, NEW r, NEW above
    PROVE  \E f : Climbs(f, n, r, above)
<1> DEFINE T == {k \in Nat : ~\E f : Climbs(f, k, r, above)}
<1> SUFFICES ASSUME n \in T PROVE FALSE
  OBVIOUS
<1>1. PICK k \in T : \A m \in T : ~(m < k)
  BY LeastNumber
<1>2. k # 0
  <2>1. Climbs([i \in 0..0 |-> {r}], 0, r, above)
    BY DEF Climbs
  <2> QED
    BY <1>1, <2>1
<1>3. k - 1 \in Nat /\ k - 1 < k /\ k \in Nat
  BY <1>1, <1>2
<1>4. PICK f : Climbs(f, k - 1, r, above)
  BY <1>1, <1>3
<1> DEFINE g == [i \in 0..k |-> IF i = k THEN Further(f[k - 1], above) ELSE f[i]]
<1>5. \A i \in 0..k : g[i] = IF i = 0 THEN {r} ELSE Further(g[i - 1], above)
  <2> SUFFICES ASSUME NEW i \in 0..k
               PROVE  g[i] = IF i = 0 THEN {r} ELSE Further(g[i - 1], above)
    OBVIOUS
  <2>1. CASE i = k
    <3>1. g[i - 1] = f[k - 1]
      BY <1>3, <2>1
    <3> QED
      BY <1>3, <1>2, <2>1, <3>1
  <2>2. CASE i # k
    <3>1. i \in 0..(k - 1) /\ g[i] = f[i]
      BY <1>3, <2>2
    <3>2. f[i] = IF i = 0 THEN {r} ELSE Further(f[i - 1], above)
      BY <1>4, <3>1 DEF Climbs
    <3>3. i # 0 => g[i - 1] = f[i - 1]
      BY <1>3, <3>1
    <3> QED
      BY <3>1, <3>2, <3>3
  <2> QED
    BY <2>1, <2>2
<1>6. Climbs(g, k, r, above)
  BY <1>5 DEF Climbs
<1> QED
  BY <1>1, <1>6

LEMMA ChainClimbs ==
    ASSUME NEW r, NEW above, IsFiniteSet(Router)
    PROVE  \E f : Climbs(f, Cardinality(Router), r, above) /\ Chain(r, above) = f[Cardinality(Router)]
<1>1. Cardinality(Router) \in Nat
  BY FS_CardinalityType
<1>2. \E f : Climbs(f, Cardinality(Router), r, above)
  BY <1>1, ClimbExists
<1> QED
  BY <1>2 DEF Climbs, Further, Chain

LEMMA ClimbsWithin ==
    ASSUME NEW n \in Nat, NEW r \in Router, None \notin Router,
           NEW u \in [Router -> Maybe(Router)], NEW p \in [Router -> Maybe(Router)],
           \A x \in Router : p[x] \in {u[x], None},
           NEW f, NEW g, Climbs(f, n, r, p), Climbs(g, n, r, u),
           NEW i \in 0..n
    PROVE  f[i] \subseteq g[i] /\ g[i] \subseteq Router
<1> DEFINE T == {k \in Nat : k <= n /\ ~(f[k] \subseteq g[k] /\ g[k] \subseteq Router)}
<1> SUFFICES ASSUME i \in T PROVE FALSE
  OBVIOUS
<1>1. PICK k \in T : \A m \in T : ~(m < k)
  BY LeastNumber
<1>2. k \in 0..n
  OBVIOUS
<1>3. /\ f[k] = IF k = 0 THEN {r} ELSE Further(f[k - 1], p)
      /\ g[k] = IF k = 0 THEN {r} ELSE Further(g[k - 1], u)
  BY <1>2 DEF Climbs
<1>4. k # 0
  BY <1>1, <1>3
<1>5. f[k - 1] \subseteq g[k - 1] /\ g[k - 1] \subseteq Router
  BY <1>1, <1>2, <1>4
<1>6. g[k] \subseteq Router
  BY <1>3, <1>4, <1>5 DEF Further, Maybe
<1>7. f[k] \subseteq g[k]
  BY <1>3, <1>4, <1>5 DEF Further
<1> QED
  BY <1>1, <1>6, <1>7

\* Where the configured chain is the wired one, or lacks a link of it, it leads
\* past no other routers.
LEMMA ChainWithin ==
    ASSUME IsFiniteSet(Router), None \notin Router, NEW r \in Router,
           NEW u \in [Router -> Maybe(Router)], NEW p \in [Router -> Maybe(Router)],
           \A x \in Router : p[x] \in {u[x], None}
    PROVE  Chain(r, p) \subseteq Chain(r, u) /\ Chain(r, u) \subseteq Router
<1> DEFINE N == Cardinality(Router)
<1>1. N \in Nat /\ N \in 0..N
  BY FS_CardinalityType
<1>2. PICK f : Climbs(f, N, r, p) /\ Chain(r, p) = f[N]
  BY ChainClimbs
<1>3. PICK g : Climbs(g, N, r, u) /\ Chain(r, u) = g[N]
  BY ChainClimbs
<1> HIDE DEF N
<1> QED
  BY <1>1, <1>2, <1>3, ClimbsWithin

LEMMA ChainOfRoot ==
    ASSUME IsFiniteSet(Router), NEW r, NEW p, p[r] = None
    PROVE  Chain(r, p) = {r}
<1> DEFINE N == Cardinality(Router)
<1>1. N \in Nat
  BY FS_CardinalityType
<1>2. PICK f : Climbs(f, N, r, p) /\ Chain(r, p) = f[N]
  BY ChainClimbs
<1> DEFINE T == {k \in Nat : k <= N /\ f[k] # {r}}
<1> SUFFICES ASSUME N \in T PROVE FALSE
  BY <1>1, <1>2
<1>3. PICK k \in T : \A m \in T : ~(m < k)
  BY LeastNumber
<1>4. f[k] = IF k = 0 THEN {r} ELSE Further(f[k - 1], p)
  <2>1. k \in 0..N
    BY <1>1
  <2> QED
    BY <1>2, <2>1 DEF Climbs
<1>5. k # 0
  BY <1>3, <1>4
<1>6. f[k - 1] = {r}
  BY <1>1, <1>3, <1>5
<1>7. Further({r}, p) = {r}
  BY DEF Further
<1> QED
  BY <1>3, <1>4, <1>5, <1>6, <1>7

\* The wires end at routers of their own, and every way up ends at a root.
Wiring ==
    /\ IsFiniteSet(Router) /\ None \notin Router \cup {"REACHABLE"}
    /\ Uplink \in [Router -> Maybe(Router)]
    /\ \A r \in Router : Chain(r, Uplink) \cap Root # {}
Probing == [pc : {"idle", "ping", "save"}, rows : SUBSET Router, parent : [Router -> Maybe(Router)],
            todo : SUBSET At, answered : SUBSET At, presence : SUBSET Router, proof : SUBSET Router]
ProbingTyped ==
    /\ place \in [Client -> Maybe(Router)]
    /\ rows \subseteq Router /\ parent \in [Router -> Maybe(Router)]
    /\ neighbor \in [At -> Maybe({"REACHABLE", "STALE"})] /\ proof \in [At -> SUBSET Router]
    /\ probe \in Probing
\* Routers S stand behind what is heard from address a.
Backed(a, S) == (a[1] \in Router => Chain(a[1], Uplink) \subseteq S) /\ a[2] \in S
EntriesBacked == \A a \in At : neighbor[a] = "REACHABLE" => Backed(a, proof[a])
AnswersBacked == probe.pc = "ping" => \A a \in probe.answered : Backed(a, probe.proof)
SoundInv == ProbingTyped /\ EntriesBacked /\ AnswersBacked /\ PresenceIsSound

LEMMA SegmentOnPath ==
    ASSUME Wiring, ProbingTyped, NEW x \in Node, Path(x) # {}
    PROVE  /\ Segment(x) \in Root /\ Segment(x) \in Path(x) /\ Path(x) \subseteq Router
           /\ <<x, Segment(x)>> \in At /\ Backed(<<x, Segment(x)>>, Path(x))
<1>1. \E r \in Router : Path(x) = Chain(r, Uplink)
  BY DEF Path, ProbingTyped, Node, Maybe
<1>2. Path(x) \subseteq Router /\ Path(x) \cap Root # {}
  BY <1>1, ChainWithin DEF Wiring
<1>3. Segment(x) \in Root /\ Segment(x) \in Path(x)
  BY <1>2 DEF Segment
<1>4. <<x, Segment(x)>> \in At
  BY <1>3 DEF At
<1>5. Backed(<<x, Segment(x)>>, Path(x))
  BY <1>3 DEF Backed, Path
<1> QED
  BY <1>2, <1>3, <1>4, <1>5

LEMMA ConfirmedBacked ==
    ASSUME Wiring, ProbingTyped, EntriesBacked, NEW x \in Node, Path(x) # {}, Confirmed(x)
    PROVE  /\ neighbor' \in [At -> Maybe({"REACHABLE", "STALE"})] /\ proof' \in [At -> SUBSET Router]
           /\ EntriesBacked'
<1> DEFINE addr == <<x, Segment(x)>>
<1>1. addr \in At /\ Path(x) \subseteq Router /\ Backed(addr, Path(x))
  BY SegmentOnPath
<1>2. /\ neighbor' = [neighbor EXCEPT ![addr] = "REACHABLE"]
      /\ proof' = [proof EXCEPT ![addr] = Path(x)]
  BY DEF Confirmed
<1> HIDE DEF addr
<1>3. neighbor' \in [At -> Maybe({"REACHABLE", "STALE"})]
  BY <1>1, <1>2 DEF ProbingTyped, Maybe
<1>4. proof' \in [At -> SUBSET Router]
  BY <1>1, <1>2 DEF ProbingTyped
<1>5. EntriesBacked'
  <2> SUFFICES ASSUME NEW a \in At, neighbor'[a] = "REACHABLE"
               PROVE  Backed(a, proof'[a])
    BY DEF EntriesBacked, Backed
  <2>1. CASE a = addr
    BY <1>1, <1>2, <2>1 DEF ProbingTyped
  <2>2. CASE a # addr
    BY <1>1, <1>2, <2>2 DEF ProbingTyped, EntriesBacked
  <2> QED
    BY <2>1, <2>2
<1> QED
  BY <1>3, <1>4, <1>5

LEMMA SoundInitially ==
    ASSUME Wiring, NetworkInit
    PROVE  SoundInv
<1>1. ProbingTyped
  BY DEF NetworkInit, Wiring, ProbingTyped, Probing, NoProbing, Maybe
<1>2. EntriesBacked
  BY DEF NetworkInit, EntriesBacked, Wiring
<1>3. AnswersBacked /\ PresenceIsSound
  BY DEF NetworkInit, NoProbing, AnswersBacked, PresenceIsSound
<1> QED
  BY <1>1, <1>2, <1>3 DEF SoundInv

\* Steps that neither probe nor touch the neighbour table.
LEMMA SoundBesides ==
    ASSUME SoundInv, UNCHANGED <<neighbor, proof, probe>>,
           place' \in [Client -> Maybe(Router)],
           rows' \subseteq Router, parent' \in [Router -> Maybe(Router)]
    PROVE  SoundInv'
  BY DEF SoundInv, ProbingTyped, EntriesBacked, Backed, AnswersBacked, PresenceIsSound

LEMMA LanSound ==
    ASSUME Wiring, SoundInv, LanStep
    PROVE  SoundInv'
<1> USE DEF SoundInv
<1>1. ASSUME NEW r \in Router, PowerTurns(r) PROVE SoundInv'
  BY <1>1, SoundBesides DEF PowerTurns, ProbingTyped
<1>2. ASSUME NEW c \in Client, NEW r \in Maybe(Router), Wander(c, r) PROVE SoundInv'
  BY <1>2, SoundBesides DEF Wander, ProbingTyped
<1>3. ASSUME NEW x \in Node, Talks(x) PROVE SoundInv'
  <2>1. /\ neighbor' \in [At -> Maybe({"REACHABLE", "STALE"})] /\ proof' \in [At -> SUBSET Router]
        /\ EntriesBacked'
    BY <1>3, ConfirmedBacked DEF Talks, Reached
  <2>2. UNCHANGED <<place, rows, parent, probe>>
    BY <1>3 DEF Talks
  <2> QED
    BY <2>1, <2>2 DEF ProbingTyped, AnswersBacked, Backed, PresenceIsSound
<1>4. ASSUME NEW a \in At, EntryAges(a) PROVE SoundInv'
  <2>1. /\ neighbor' = [neighbor EXCEPT ![a] = IF neighbor[a] = "REACHABLE" THEN "STALE" ELSE None]
        /\ proof' = [proof EXCEPT ![a] = {}]
        /\ UNCHANGED <<place, rows, parent, probe>>
    BY <1>4 DEF EntryAges
  <2>2. neighbor' \in [At -> Maybe({"REACHABLE", "STALE"})] /\ proof' \in [At -> SUBSET Router]
    BY <2>1 DEF ProbingTyped, Maybe
  <2>3. ASSUME NEW b \in At, neighbor'[b] = "REACHABLE" PROVE Backed(b, proof'[b])
    <3>1. neighbor'[a] # "REACHABLE"
      BY <2>1 DEF ProbingTyped, Wiring
    <3>2. b # a
      BY <2>3, <3>1
    <3> QED
      BY <2>1, <2>3, <3>2 DEF ProbingTyped, EntriesBacked
  <2> QED
    BY <2>1, <2>2, <2>3 DEF ProbingTyped, EntriesBacked, AnswersBacked, Backed, PresenceIsSound
<1> QED
  BY <1>1, <1>2, <1>3, <1>4 DEF LanStep

LEMMA PingSound ==
    ASSUME Wiring, SoundInv, NEW a \in At, NEW answers \in BOOLEAN, Ping(a, answers)
    PROVE  SoundInv'
<1> USE DEF SoundInv
<1>1. /\ probe' = [probe EXCEPT !.todo = probe.todo \ {a},
                     !.answered = IF answers THEN probe.answered \cup {a} ELSE probe.answered,
                     !.proof = IF answers THEN probe.proof \cup Path(a[1]) ELSE probe.proof]
      /\ probe.pc = "ping"
      /\ UNCHANGED <<place, rows, parent>>
  BY DEF Ping
<1>2. CASE ~answers
  <2>1. probe' = [probe EXCEPT !.todo = probe.todo \ {a}]
    BY <1>1, <1>2 DEF ProbingTyped, Probing
  <2>2. probe' \in Probing /\ UNCHANGED <<probe.pc, probe.answered, probe.proof>>
    BY <2>1 DEF ProbingTyped, Probing
  <2>3. UNCHANGED <<neighbor, proof>>
    BY <1>2 DEF Ping
  <2> QED
    BY <1>1, <2>2, <2>3 DEF ProbingTyped, EntriesBacked, AnswersBacked, Backed, PresenceIsSound
<1>3. CASE answers
  <2>1. /\ Confirmed(a[1]) /\ a[1] \in Node /\ Path(a[1]) # {} /\ a = <<a[1], Segment(a[1])>>
    BY <1>3 DEF Ping, Reached, At
  <2>2. /\ neighbor' \in [At -> Maybe({"REACHABLE", "STALE"})] /\ proof' \in [At -> SUBSET Router]
        /\ EntriesBacked'
    BY <2>1, ConfirmedBacked
  <2>3. Path(a[1]) \subseteq Router /\ Backed(a, Path(a[1]))
    BY <2>1, SegmentOnPath
  <2>4. /\ probe' \in Probing /\ probe'.pc = "ping"
        /\ probe'.answered = probe.answered \cup {a} /\ probe'.proof = probe.proof \cup Path(a[1])
    BY <1>1, <1>3, <2>3 DEF ProbingTyped, Probing
  <2>5. AnswersBacked'
    BY <1>1, <2>3, <2>4 DEF AnswersBacked, Backed
  <2> QED
    BY <1>1, <2>2, <2>4, <2>5 DEF ProbingTyped, PresenceIsSound
<1> QED
  BY <1>2, <1>3

\* A router the probe takes to be up is behind something it has heard of.
LEMMA InferredBacked ==
    ASSUME Wiring, SoundInv, NEW row \in LastRead, probe.pc = "ping"
    PROVE  /\ Inferred(row) \subseteq Router
           /\ AsWired(probe.parent)
                => Inferred(row) \subseteq probe.proof \cup UNION {proof[a] : a \in At}
<1> USE DEF SoundInv
<1> DEFINE Heard == probe.proof \cup UNION {proof[a] : a \in At}
<1>1. probe.parent \in [Router -> Maybe(Router)] /\ probe.rows \subseteq Router
      /\ probe.answered \subseteq At
  BY DEF ProbingTyped, Probing
<1>2. \A a \in At : Online(a) => Backed(a, Heard)
  BY DEF Online, EntriesBacked, AnswersBacked, Backed
<1>3. Proven(row) \subseteq Router
  BY <1>1 DEF Proven
<1>4. \A r \in Router : Chain(r, probe.parent) \subseteq Router
  BY <1>1, ChainWithin DEF Wiring
<1>5. ASSUME AsWired(probe.parent), NEW r \in Proven(row)
      PROVE  Chain(r, probe.parent) \subseteq Heard
  <2>1. Chain(r, probe.parent) \subseteq Chain(r, Uplink)
    BY <1>1, <1>3, <1>5, ChainWithin DEF Wiring, AsWired
  <2>2. CASE \E g \in Root : Online(<<r, g>>)
    <3>1. PICK g \in Root : Online(<<r, g>>)
      BY <2>2
    <3>2. <<r, g>> \in At
      BY <1>3, <1>5, <3>1 DEF At, Node
    <3>3. Backed(<<r, g>>, Heard)
      BY <1>2, <3>1, <3>2
    <3>4. Chain(r, Uplink) \subseteq Heard
      BY <1>3, <1>5, <3>3 DEF Backed
    <3> QED
      BY <2>1, <3>4
  <2>3. CASE \E c \in Clients(row) : r = row[c]
    <3>1. PICK c \in Clients(row) : r = row[c]
      BY <2>3
    <3>2. c \in Client /\ r \in Root /\ Online(<<c, r>>)
      BY <3>1 DEF Clients, LastRead
    <3>3. <<c, r>> \in At
      BY <3>2 DEF At, Node
    <3>4. r \in Heard
      BY <1>2, <3>2, <3>3 DEF Backed
    <3>5. probe.parent[r] = None
      BY <1>5, <3>2 DEF AsWired, Root
    <3>6. Chain(r, probe.parent) = {r}
      BY <3>5, ChainOfRoot DEF Wiring
    <3> QED
      BY <3>4, <3>6
  <2> QED
    BY <1>5, <2>2, <2>3 DEF Proven
<1> QED
  BY <1>3, <1>4, <1>5 DEF Inferred

LEMMA ProbeInfersSound ==
    ASSUME Wiring, SoundInv, NEW row \in LastRead, ProbeInfers(row)
    PROVE  SoundInv'
<1> USE DEF SoundInv
<1> DEFINE Heard == probe.proof \cup UNION {proof[a] : a \in At}
           I == Inferred(row)
<1>1. /\ probe' = [probe EXCEPT !.pc = "save", !.presence = I, !.proof = Heard]
      /\ probe.pc = "ping"
      /\ UNCHANGED <<place, neighbor, rows, parent, proof>>
  BY DEF ProbeInfers
<1>2. I \subseteq Router /\ (AsWired(probe.parent) => I \subseteq Heard)
  BY <1>1, InferredBacked
<1>3. Heard \subseteq Router
  BY DEF ProbingTyped, Probing
<1> HIDE DEF I, Heard
<1>4. /\ probe' \in Probing /\ probe'.pc = "save" /\ probe'.presence = I /\ probe'.proof = Heard
      /\ probe'.parent = probe.parent
  BY <1>1, <1>2, <1>3 DEF ProbingTyped, Probing
<1>5. PresenceIsSound'
  BY <1>2, <1>4 DEF PresenceIsSound, AsWired
<1> QED
  BY <1>1, <1>4, <1>5 DEF ProbingTyped, EntriesBacked, AnswersBacked, Backed

LEMMA ProbeSound ==
    ASSUME Wiring, SoundInv, ProbeStep
    PROVE  SoundInv'
<1> USE DEF SoundInv
<1>1. ASSUME NEW asked \in SUBSET At, ProbeBegins(asked) PROVE SoundInv'
  <2>1. /\ probe' = [NoProbing EXCEPT !.pc = "ping", !.rows = rows, !.parent = parent, !.todo = asked]
        /\ UNCHANGED <<place, neighbor, rows, parent, proof>>
    BY <1>1 DEF ProbeBegins
  <2>2. probe' \in Probing /\ probe'.pc = "ping" /\ probe'.answered = {}
    BY <2>1 DEF NoProbing, Probing, ProbingTyped
  <2> QED
    BY <2>1, <2>2 DEF ProbingTyped, EntriesBacked, AnswersBacked, Backed, PresenceIsSound
<1>2. ASSUME ProbeSaves PROVE SoundInv'
  <2>1. probe' = NoProbing /\ UNCHANGED <<place, neighbor, rows, parent, proof>>
    BY <1>2 DEF ProbeSaves
  <2>2. probe' \in Probing /\ probe'.pc = "idle"
    BY <2>1 DEF NoProbing, Probing, Maybe
  <2> QED
    BY <2>1, <2>2 DEF ProbingTyped, EntriesBacked, AnswersBacked, Backed, PresenceIsSound
<1> QED
  BY <1>1, <1>2, PingSound, ProbeInfersSound DEF ProbeStep

LEMMA ConfigSound ==
    ASSUME Wiring, SoundInv, ConfigStep \/ StampStep
    PROVE  SoundInv'
<1>1. UNCHANGED <<place, neighbor, proof, probe>>
  BY DEF ConfigStep, StampStep, RemoveRouter, SetParent, CreateRouter, HeartBeat, StampAges
<1>2. rows' \subseteq Router /\ parent' \in [Router -> Maybe(Router)]
  <2> USE DEF SoundInv, ProbingTyped, Maybe
  <2>1. ASSUME NEW r \in Router, RemoveRouter(r)
        PROVE  rows' \subseteq Router /\ parent' \in [Router -> Maybe(Router)]
    BY <2>1 DEF RemoveRouter
  <2>2. ASSUME NEW r \in Router, NEW p \in Maybe(Router), SetParent(r, p) \/ CreateRouter(r, p)
        PROVE  rows' \subseteq Router /\ parent' \in [Router -> Maybe(Router)]
    BY <2>2 DEF SetParent, CreateRouter
  <2>3. CASE StampStep
    BY <2>3 DEF StampStep, HeartBeat, StampAges
  <2> QED
    BY <2>1, <2>2, <2>3 DEF ConfigStep
<1> QED
  BY <1>1, <1>2, SoundBesides DEF SoundInv, ProbingTyped

LEMMA SoundStep ==
    ASSUME Wiring, SoundInv, NetworkNext
    PROVE  SoundInv'
  BY LanSound, ProbeSound, ConfigSound DEF NetworkNext

LEMMA SoundStays ==
    ASSUME SoundInv, UNCHANGED netVars
    PROVE  SoundInv'
  BY SoundBesides DEF netVars, SoundInv, ProbingTyped

-----------------------------------------------------------------------------
\* Network: only rows are stamped.
Editable == Wiring /\ MaxEdits \in Nat
StampsTyped == on \subseteq Router /\ stamp \subseteq rows /\ edits \in 0..MaxEdits
NetTypes == SoundInv /\ StampsTyped

LEMMA NetsAreTyped == NetTypes => NetworkTypeOK
  BY DEF NetTypes, SoundInv, ProbingTyped, StampsTyped, NetworkTypeOK

LEMMA StampsStep ==
    ASSUME Editable, NetTypes, NetworkNext
    PROVE  StampsTyped'
<1>1. CASE LanStep
  BY <1>1 DEF LanStep, PowerTurns, Wander, Talks, EntryAges, NetTypes, StampsTyped
<1>2. CASE ProbeStep
  BY <1>2 DEF ProbeStep, ProbeBegins, Ping, ProbeInfers, ProbeSaves, NetTypes, StampsTyped
<1>3. CASE StampStep
  BY <1>3 DEF StampStep, HeartBeat, StampAges, NetTypes, StampsTyped
<1>4. CASE ConfigStep
  <2>1. edits' \in 0..MaxEdits
    BY <1>4 DEF ConfigStep, RemoveRouter, SetParent, CreateRouter, Edit, NetTypes, StampsTyped, Editable
  <2>2. on' = on /\ stamp' \subseteq rows'
    BY <1>4 DEF ConfigStep, RemoveRouter, SetParent, CreateRouter, NetTypes, StampsTyped
  <2> QED
    BY <2>1, <2>2 DEF NetTypes, StampsTyped
<1> QED
  BY <1>1, <1>2, <1>3, <1>4 DEF NetworkNext

LEMMA NetsTyped ==
    ASSUME Editable
    PROVE  /\ NetworkInit => NetTypes
           /\ NetTypes /\ (NetworkNext \/ UNCHANGED netVars) => NetTypes'
<1>1. NetworkInit => NetTypes
  BY SoundInitially DEF Editable, NetworkInit, NetTypes, StampsTyped
<1>2. ASSUME NetTypes, NetworkNext PROVE NetTypes'
  BY <1>2, SoundStep, StampsStep DEF Editable, NetTypes
<1>3. ASSUME NetTypes, UNCHANGED netVars PROVE NetTypes'
  BY <1>3, SoundStays DEF NetTypes, StampsTyped, netVars
<1> QED
  BY <1>1, <1>2, <1>3

-----------------------------------------------------------------------------
\* Portal: recovery codes, for any number of codes, requests and confirmations
\* under way, and restarts.

Proof == [pc : {"idle", "check", "voucher"}, code : Nat]

CodeTypes ==
    /\ codes \in 0..MaxCodes /\ challenge \in 0..codes
    /\ proving \in [Proving -> Proof] /\ opened \in [1..MaxCodes -> Nat]
Opening(a) == proving[a].pc = "voucher"

\* A code that was typed has been sent.
TypedWasSent == \A a \in Proving : proving[a].pc # "idle" => proving[a].code \in 1..codes
\* No code has opened two vouchers; one that is not sent yet, or that can still
\* be confirmed, has opened none.
OpenedOnce ==
    \A n \in 1..MaxCodes : opened[n] <= 1 /\ (n > codes \/ n = challenge => opened[n] = 0)
\* A confirmation that has passed the check has used its code up, which nobody
\* else has passed with and which has opened nothing.
PassedAlone ==
    /\ \A a \in Proving : Opening(a) => proving[a].code # challenge /\ opened[proving[a].code] = 0
    /\ \A a, b \in Proving : a # b /\ Opening(a) /\ Opening(b) => proving[a].code # proving[b].code
CodeInv == CodeTypes /\ TypedWasSent /\ OpenedOnce /\ PassedAlone

LEMMA CodesInitial == PortalInit => CodeInv
  BY PortalAssumption
  DEF PortalInit, CodeInv, CodeTypes, TypedWasSent, OpenedOnce, PassedAlone, Opening, Proof, NoProof

\* The page and the customer's vouchers do not touch the codes.
LEMMA OthersKeepCodes ==
    ASSUME CodeInv, UNCHANGED <<challenge, codes, proving, opened>>
    PROVE  CodeInv'
  BY DEF CodeInv, CodeTypes, TypedWasSent, OpenedOnce, PassedAlone, Opening

LEMMA PageKeepsCodes == PageNext => UNCHANGED <<challenge, codes, proving, opened>>
  BY DEF PageNext, OpenPage, ClosePage, InitPage, PackagesKnown, PackageEnds, Submit, FormFails, CodeTried,
         Reconnected, Paying, Decide, IssueVoucher, PollStep, PollStart, PollStatus, PollRedeem, PollFails,
         PollAnswered, codeVars

\* A new code replaces the one before it and has opened nothing yet.
LEMMA DecisionKeeps ==
    ASSUME CodeInv, NEW a \in Asking, RecoveryDecides(a)
    PROVE  CodeInv'
  <1>1. CASE resend /\ codes < MaxCodes
    <2>1. /\ codes' = codes + 1 /\ challenge' = codes + 1
          /\ UNCHANGED <<proving, opened>>
      BY <1>1 DEF RecoveryDecides
    <2>2. codes \in Nat /\ MaxCodes \in Nat
      BY PortalAssumption DEF CodeInv, CodeTypes
    <2>3. CodeTypes'
      BY <1>1, <2>1, <2>2 DEF CodeInv, CodeTypes
    <2>4. TypedWasSent'
      BY <2>1, <2>2 DEF CodeInv, TypedWasSent, CodeTypes, Proof
    <2>5. OpenedOnce'
      BY <1>1, <2>1, <2>2 DEF CodeInv, OpenedOnce, CodeTypes
    <2>6. PassedAlone'
      BY <2>1, <2>2 DEF CodeInv, PassedAlone, Opening, TypedWasSent, CodeTypes, Proof
    <2>7. QED
      BY <2>3, <2>4, <2>5, <2>6 DEF CodeInv
  <1>2. CASE ~(resend /\ codes < MaxCodes)
    BY <1>2, OthersKeepCodes DEF RecoveryDecides
  <1>3. QED
    BY <1>1, <1>2

LEMMA TypingKeeps ==
    ASSUME CodeInv, NEW a \in Proving, NEW n \in 1..MaxCodes, CodeTyped(a, n)
    PROVE  CodeInv'
  <1>1. /\ proving' = [proving EXCEPT ![a] = [pc |-> "check", code |-> n]] /\ n \in 1..codes
        /\ UNCHANGED <<challenge, codes, opened>>
    BY DEF CodeTyped
  <1>2. CodeTypes'
    BY <1>1, PortalAssumption DEF CodeInv, CodeTypes, Proof
  <1>3. TypedWasSent'
    BY <1>1 DEF CodeInv, TypedWasSent, CodeTypes
  <1>4. OpenedOnce'
    BY <1>1 DEF CodeInv, OpenedOnce
  <1>5. \A b \in Proving : Opening(b)' => b # a /\ Opening(b) /\ proving'[b] = proving[b]
    BY <1>1 DEF CodeInv, CodeTypes, Opening
  <1>6. PassedAlone'
    BY <1>1, <1>5 DEF CodeInv, PassedAlone, Opening
  <1>7. QED
    BY <1>2, <1>3, <1>4, <1>6 DEF CodeInv

\* The code that is checked is used up in the same step.
LEMMA CheckKeeps ==
    ASSUME CodeInv, NEW a \in Proving, CodeChecked(a)
    PROVE  CodeInv'
  <1>1. CASE challenge = proving[a].code
    <2>1. /\ challenge' = 0 /\ proving' = [proving EXCEPT ![a].pc = "voucher"]
          /\ UNCHANGED <<codes, opened>>
      BY <1>1 DEF CodeChecked
    <2>2. /\ codes \in Nat /\ proving[a].code \in 1..codes /\ challenge # 0
          /\ proving[a].code \in 1..MaxCodes
      BY <1>1, PortalAssumption DEF CodeInv, TypedWasSent, CodeChecked, CodeTypes
    <2>3. /\ proving'[a].pc = "voucher" /\ proving'[a].code = proving[a].code
          /\ \A b \in Proving : b # a => proving'[b] = proving[b]
      BY <2>1 DEF CodeInv, CodeTypes, Proof
    <2>4. CodeTypes'
      BY <2>1, <2>2 DEF CodeInv, CodeTypes, Proof
    <2>5. TypedWasSent'
      BY <2>1, <2>2, <2>3 DEF CodeInv, TypedWasSent
    <2>6. OpenedOnce'
      BY <2>1 DEF CodeInv, OpenedOnce
    <2>7. opened[proving[a].code] = 0
      BY <1>1, <2>2 DEF CodeInv, OpenedOnce
    <2>8. ASSUME NEW b \in Proving, Opening(b)'
          PROVE  proving'[b].code # challenge' /\ opened'[proving'[b].code] = 0
      <3>1. CASE b = a
        BY <2>1, <2>2, <2>3, <2>7, <3>1
      <3>2. CASE b # a
        <4>1. Opening(b) /\ proving'[b] = proving[b]
          BY <2>3, <2>8, <3>2 DEF Opening
        <4>2. proving[b].code \in 1..codes
          BY <4>1 DEF CodeInv, TypedWasSent, Opening
        <4>3. QED
          BY <2>1, <2>2, <4>1, <4>2 DEF CodeInv, PassedAlone
      <3>3. QED
        BY <3>1, <3>2
    <2>9. ASSUME NEW b \in Proving, NEW c \in Proving, b # c, Opening(b)', Opening(c)'
          PROVE  proving'[b].code # proving'[c].code
      BY <1>1, <2>3, <2>9 DEF CodeInv, PassedAlone, Opening
    <2>10. QED
      BY <2>4, <2>5, <2>6, <2>8, <2>9 DEF CodeInv, PassedAlone
  <1>2. CASE challenge # proving[a].code
    <2>1. /\ proving' = [proving EXCEPT ![a] = NoProof]
          /\ UNCHANGED <<challenge, codes, opened>>
      BY <1>2 DEF CodeChecked
    <2>2. CodeTypes'
      BY <2>1 DEF CodeInv, CodeTypes, NoProof, Proof
    <2>3. TypedWasSent' /\ OpenedOnce'
      BY <2>1 DEF CodeInv, TypedWasSent, OpenedOnce, CodeTypes, NoProof
    <2>4. \A b \in Proving : Opening(b)' => b # a /\ Opening(b) /\ proving'[b] = proving[b]
      BY <2>1 DEF CodeInv, CodeTypes, Opening, NoProof
    <2>5. PassedAlone'
      BY <2>1, <2>4 DEF CodeInv, PassedAlone, Opening
    <2>6. QED
      BY <2>2, <2>3, <2>5 DEF CodeInv
  <1>3. QED
    BY <1>1, <1>2

\* Only a confirmation that passed the check opens a voucher, with a code that
\* no other one that passed has.
LEMMA OpeningKeeps ==
    ASSUME CodeInv, NEW a \in Proving, CodeOpens(a)
    PROVE  CodeInv'
  <1> DEFINE k == proving[a].code
  <1>1. /\ proving' = [proving EXCEPT ![a] = NoProof] /\ UNCHANGED <<challenge, codes>>
        /\ Opening(a)
    BY DEF CodeOpens, Opening
  <1>2. k \in 1..codes /\ k \in 1..MaxCodes /\ k # challenge /\ opened[k] = 0
    BY <1>1, PortalAssumption DEF CodeInv, CodeTypes, TypedWasSent, PassedAlone, Opening
  <1>3. opened' \in [1..MaxCodes -> Nat] /\ opened'[k] \in {0, 1}
        /\ \A n \in 1..MaxCodes : n # k => opened'[n] = opened[n]
    <2>1. CASE valid
      BY <1>2, <2>1 DEF CodeOpens, CodeInv, CodeTypes
    <2>2. CASE ~valid
      BY <1>2, <2>2 DEF CodeOpens, CodeInv, CodeTypes
    <2>3. QED
      BY <2>1, <2>2
  <1>4. CodeTypes'
    BY <1>1, <1>3 DEF CodeInv, CodeTypes, NoProof, Proof
  <1>5. TypedWasSent'
    BY <1>1 DEF CodeInv, TypedWasSent, CodeTypes, NoProof
  <1>6. OpenedOnce'
    BY <1>1, <1>2, <1>3 DEF CodeInv, OpenedOnce, CodeTypes
  <1>7. \A b \in Proving : Opening(b)' => b # a /\ Opening(b) /\ proving'[b] = proving[b]
    BY <1>1 DEF CodeInv, CodeTypes, Opening, NoProof
  <1>8. ASSUME NEW b \in Proving, Opening(b)'
        PROVE  proving'[b].code # challenge' /\ opened'[proving'[b].code] = 0
    <2>1. b # a /\ Opening(b) /\ proving'[b] = proving[b]
      BY <1>7, <1>8
    <2>2. proving[b].code # k /\ proving[b].code # challenge /\ opened[proving[b].code] = 0
      BY <1>1, <2>1 DEF CodeInv, PassedAlone
    <2>3. proving[b].code \in 1..MaxCodes
      BY <2>1, PortalAssumption DEF CodeInv, CodeTypes, TypedWasSent, Opening
    <2>4. QED
      BY <1>1, <1>3, <2>1, <2>2, <2>3
  <1>9. PassedAlone'
    BY <1>7, <1>8 DEF CodeInv, PassedAlone
  <1>10. QED
    BY <1>4, <1>5, <1>6, <1>9 DEF CodeInv

\* A code that expires, or that the API forgets, opens nothing any more.
LEMMA ExpiryKeeps == CodeInv /\ CodeExpires => CodeInv'
  <1> SUFFICES ASSUME CodeInv, CodeExpires PROVE CodeInv'
    OBVIOUS
  <1>1. challenge' = 0 /\ UNCHANGED <<codes, proving, opened>>
    BY DEF CodeExpires
  <1>2. CodeTypes' /\ TypedWasSent' /\ OpenedOnce'
    BY <1>1, PortalAssumption DEF CodeInv, CodeTypes, TypedWasSent, OpenedOnce
  <1>3. PassedAlone'
    BY <1>1 DEF CodeInv, CodeTypes, Proof, TypedWasSent, PassedAlone, Opening
  <1>4. QED
    BY <1>2, <1>3 DEF CodeInv

LEMMA RestartKeeps == CodeInv /\ ApiForgets => CodeInv'
  <1> SUFFICES ASSUME CodeInv, ApiForgets PROVE CodeInv'
    OBVIOUS
  <1>1. /\ challenge' = 0 /\ proving' = [a \in Proving |-> NoProof]
        /\ UNCHANGED <<codes, opened>>
    BY DEF ApiForgets
  <1>2. QED
    BY <1>1, PortalAssumption
    DEF CodeInv, CodeTypes, TypedWasSent, OpenedOnce, PassedAlone, Opening, Proof, NoProof

LEMMA CodesStep == CodeInv /\ [PortalNext]_portalVars => CodeInv'
  <1> SUFFICES ASSUME CodeInv, [PortalNext]_portalVars PROVE CodeInv'
    OBVIOUS
  <1>1. CASE PageNext
    BY <1>1, PageKeepsCodes, OthersKeepCodes
  <1>2. CASE RecoveryNext
    <2>1. ASSUME NEW a \in Asking, RecoveryAsked(a) \/ RecoverySent(a)
          PROVE  CodeInv'
      BY <2>1, OthersKeepCodes DEF RecoveryAsked, RecoverySent
    <2>2. ASSUME NEW a \in Asking, RecoveryDecides(a)
          PROVE  CodeInv'
      BY <2>2, DecisionKeeps
    <2>3. ASSUME NEW a \in Proving, NEW n \in 1..MaxCodes, CodeTyped(a, n)
          PROVE  CodeInv'
      BY <2>3, TypingKeeps
    <2>4. ASSUME NEW a \in Proving, CodeChecked(a)
          PROVE  CodeInv'
      BY <2>4, CheckKeeps
    <2>5. ASSUME NEW a \in Proving, CodeOpens(a)
          PROVE  CodeInv'
      BY <2>5, OpeningKeeps
    <2>6. CASE ResendAllowed \/ VoucherTurns
      BY <2>6, OthersKeepCodes DEF ResendAllowed, VoucherTurns
    <2>7. QED
      BY <1>2, <2>1, <2>2, <2>3, <2>4, <2>5, <2>6, ExpiryKeeps, RestartKeeps DEF RecoveryNext
  <1>3. CASE UNCHANGED portalVars
    BY <1>3, OthersKeepCodes DEF portalVars, codeVars
  <1>4. QED
    BY <1>1, <1>2, <1>3 DEF PortalNext

\* A recovery code opens a voucher at most once, whatever confirmRecovery calls
\* overlap, however many codes requestRecovery sends, and whenever the API
\* restarts.
THEOREM CodeOnce == PortalSpec => []CodeOpensOnce
  <1>1. CodeInv => CodeOpensOnce
    BY DEF CodeInv, OpenedOnce, CodeOpensOnce
  <1>2. QED
    BY CodesInitial, CodesStep, <1>1, PTL DEF PortalSpec

-----------------------------------------------------------------------------
\* Portal.
PollRecord == [pc : {"idle", "asked", "status", "redeem"}, pay : Maybe(Purchase)]
PaymentRecord == [status : Maybe({"PENDING", "SUCCESS", "FAILED"}), named : BOOLEAN, voucher : BOOLEAN]
ProofRecord == [pc : {"idle", "check", "voucher"}, code : 0..codes]
PageTyped ==
    /\ view \in {"closed", "loading", "app", "online"}
    /\ packages \in {"none", "loading", "shown", "failed"}
    /\ timer \in Maybe(Purchase) /\ busy \subseteq {"pay", "code", "reconnect"}
    /\ poll \in [Tick -> PollRecord] /\ payment \in [Purchase -> PaymentRecord]
    /\ covered \in BOOLEAN /\ slipped \in BOOLEAN
CodesTyped ==
    /\ resend \in BOOLEAN /\ valid \in BOOLEAN
    /\ challenge \in 0..codes /\ codes \in 0..MaxCodes
    /\ asking \in [Asking -> {"idle", "decide", "send"}]
    /\ proving \in [Proving -> ProofRecord]
    /\ opened \in [1..MaxCodes -> Nat]

LEMMA PortalIsTyped == PageTyped /\ CodesTyped <=> PortalTypeOK
  BY DEF PageTyped, CodesTyped, PollRecord, PaymentRecord, ProofRecord, PortalTypeOK

LEMMA PortalInitially ==
    ASSUME PortalInit
    PROVE  PageTyped /\ CodesTyped
<1>1. PageTyped
  BY DEF PortalInit, PageTyped, NoPoll, PollRecord, Unpaid, PaymentRecord, Maybe
<1>2. CodesTyped
  BY PortalAssumption DEF PortalInit, CodesTyped, NoProof, ProofRecord
<1> QED
  BY <1>1, <1>2

LEMMA PagePolls ==
    ASSUME PageTyped, NEW k \in Tick, NEW n \in PollRecord, poll' = [poll EXCEPT ![k] = n]
    PROVE  poll' \in [Tick -> PollRecord]
  BY DEF PageTyped

LEMMA PollsTyped ==
    ASSUME PageTyped, NEW k \in Tick, PollStep(k)
    PROVE  PageTyped'
<1>1. NoPoll \in PollRecord
  BY DEF NoPoll, PollRecord, Maybe
<1>2. poll[k] \in PollRecord
  BY DEF PageTyped
<1>3. \A pc \in {"status", "redeem"} : [poll[k] EXCEPT !.pc = pc] \in PollRecord
  BY <1>2 DEF PollRecord
<1>4. CASE PollStart(k)
  <2>1. [pc |-> "asked", pay |-> timer] \in PollRecord
    BY DEF PageTyped, PollRecord
  <2>2. poll' \in [Tick -> PollRecord]
    BY <1>4, <2>1, PagePolls DEF PollStart
  <2> QED
    BY <1>4, <2>2 DEF PollStart, PageTyped
<1>5. ASSUME NEW says \in {"PENDING", "SUCCESS", "FAILED"}, PollAnswered(k, says) PROVE PageTyped'
  <2>1. poll' \in [Tick -> PollRecord]
    BY <1>1, <1>3, <1>5, PagePolls DEF PollAnswered
  <2>2. timer' \in Maybe(Purchase) /\ slipped' \in BOOLEAN
    BY <1>5 DEF PollAnswered, ClearTimer, PageTyped, Maybe
  <2> QED
    BY <1>5, <2>1, <2>2 DEF PollAnswered, PageTyped
<1>6. CASE PollStatus(k)
  <2>1. PICK yes \in BOOLEAN : ShowConnected(yes)
          /\ poll' = [poll EXCEPT ![k] = IF yes THEN NoPoll ELSE [poll[k] EXCEPT !.pc = "redeem"]]
    BY <1>2, <1>6 DEF PollStatus, PageTyped
  <2>2. poll' \in [Tick -> PollRecord]
    BY <1>1, <1>3, <2>1, PagePolls
  <2> QED
    BY <1>6, <2>1, <2>2 DEF PollStatus, ShowConnected, PageTyped
<1>7. CASE PollRedeem(k)
  <2>1. poll' \in [Tick -> PollRecord]
    BY <1>1, <1>7, PagePolls DEF PollRedeem
  <2>2. view' \in {"closed", "loading", "app", "online"} /\ covered' \in BOOLEAN /\ slipped' \in BOOLEAN
    BY <1>7 DEF PollRedeem, ShowConnected, Redeemed, PageTyped
  <2> QED
    BY <1>7, <2>1, <2>2 DEF PollRedeem, PageTyped
<1>8. CASE PollFails(k)
  <2>1. poll' \in [Tick -> PollRecord]
    BY <1>1, <1>8, PagePolls DEF PollFails
  <2> QED
    BY <1>8, <2>1 DEF PollFails, PageTyped
<1> QED
  BY <1>4, <1>5, <1>6, <1>7, <1>8 DEF PollStep

LEMMA PaymentsTyped ==
    ASSUME PageTyped, NEW p \in Purchase,
           Paying(p) \/ IssueVoucher(p) \/ \E o \in {"SUCCESS", "FAILED"} : Decide(p, o)
    PROVE  PageTyped'
<1>1. payment[p] \in PaymentRecord
  BY DEF PageTyped
<1>2. CASE Paying(p)
  <2>1. PICK named \in BOOLEAN :
          payment' = [payment EXCEPT ![p] = [status |-> "PENDING", named |-> named, voucher |-> FALSE]]
    BY <1>2 DEF Paying, Paid, DeviceFor
  <2>2. [status |-> "PENDING", named |-> named, voucher |-> FALSE] \in PaymentRecord
    BY DEF PaymentRecord, Maybe
  <2>3. payment' \in [Purchase -> PaymentRecord]
    BY <2>1, <2>2 DEF PageTyped
  <2> QED
    BY <1>2, <2>3 DEF Paying, Done, PageTyped, Maybe
<1>3. CASE IssueVoucher(p)
  <2>1. [payment[p] EXCEPT !.voucher = TRUE] \in PaymentRecord
    BY <1>1 DEF PaymentRecord
  <2>2. payment' = [payment EXCEPT ![p] = [payment[p] EXCEPT !.voucher = TRUE]]
    BY <1>3 DEF IssueVoucher
  <2>3. payment' \in [Purchase -> PaymentRecord] /\ covered' \in BOOLEAN
    BY <1>1, <1>3, <2>1, <2>2 DEF PageTyped, IssueVoucher, PaymentRecord
  <2> QED
    BY <1>3, <2>3 DEF IssueVoucher, PageTyped
<1>4. ASSUME NEW o \in {"SUCCESS", "FAILED"}, Decide(p, o) PROVE PageTyped'
  <2>1. [payment[p] EXCEPT !.status = o] \in PaymentRecord
    BY <1>1 DEF PaymentRecord, Maybe
  <2>2. payment' = [payment EXCEPT ![p] = [payment[p] EXCEPT !.status = o]]
    BY <1>4 DEF Decide
  <2>3. payment' \in [Purchase -> PaymentRecord]
    BY <2>1, <2>2 DEF PageTyped
  <2> QED
    BY <1>4, <2>3 DEF Decide, PageTyped
<1> QED
  BY <1>2, <1>3, <1>4

LEMMA PageStepTyped ==
    ASSUME PageTyped, PageNext
    PROVE  PageTyped'
<1>1. CASE OpenPage
  BY <1>1 DEF OpenPage, PageTyped
<1>2. CASE ClosePage
  BY <1>2 DEF ClosePage, PageTyped, NoPoll, PollRecord, Maybe
<1>3. CASE InitPage
  <2>1. Pending \subseteq Purchase
    BY DEF Pending
  <2> QED
    BY <1>3, <2>1 DEF InitPage, ShowForms, PageTyped, Maybe
<1>4. CASE PackagesKnown \/ PackageEnds
  BY <1>4 DEF PackagesKnown, PackageEnds, PageTyped
<1>5. ASSUME NEW form \in {"pay", "code", "reconnect"}, Submit(form) \/ FormFails(form) PROVE PageTyped'
  BY <1>5 DEF Submit, FormFails, Done, PageTyped
<1>6. CASE CodeTried
  <2>1. view' \in {"closed", "loading", "app", "online"} /\ covered' \in BOOLEAN /\ busy' \subseteq busy
    BY <1>6 DEF CodeTried, Done, Redeemed, ShowConnected, PageTyped
  <2> QED
    BY <1>6, <2>1 DEF CodeTried, PageTyped
<1>7. CASE Reconnected
  BY <1>7 DEF Reconnected, Done, PageTyped
<1> QED
  BY <1>1, <1>2, <1>3, <1>4, <1>5, <1>6, <1>7, PollsTyped, PaymentsTyped DEF PageNext

LEMMA CodesStepTyped ==
    ASSUME CodesTyped, RecoveryNext
    PROVE  CodesTyped'
<1>1. codes \in Nat /\ MaxCodes \in Nat
  BY PortalAssumption DEF CodesTyped
<1>2. ASSUME NEW a \in Asking, RecoveryAsked(a) \/ RecoverySent(a) PROVE CodesTyped'
  BY <1>2 DEF RecoveryAsked, RecoverySent, CodesTyped, ProofRecord
<1>3. ASSUME NEW a \in Asking, RecoveryDecides(a) PROVE CodesTyped'
  <2>1. codes' \in 0..MaxCodes /\ codes <= codes' /\ challenge' \in 0..codes'
    BY <1>1, <1>3 DEF RecoveryDecides, CodesTyped
  <2>2. ProofRecord \subseteq ProofRecord'
    BY <1>1, <2>1 DEF ProofRecord
  <2> HIDE DEF ProofRecord
  <2> QED
    BY <1>3, <2>1, <2>2 DEF RecoveryDecides, CodesTyped
<1>4. ASSUME NEW a \in Proving, NEW n \in 1..MaxCodes, CodeTyped(a, n) PROVE CodesTyped'
  <2>1. [pc |-> "check", code |-> n] \in ProofRecord
    BY <1>1, <1>4 DEF CodeTyped, ProofRecord
  <2>2. ProofRecord' = ProofRecord
    BY <1>4 DEF CodeTyped, ProofRecord
  <2> QED
    BY <1>4, <2>1, <2>2 DEF CodeTyped, CodesTyped
<1>5. NoProof \in ProofRecord
  BY <1>1 DEF NoProof, ProofRecord
<1>6. ASSUME NEW a \in Proving, CodeChecked(a) PROVE CodesTyped'
  <2>1. ProofRecord' = ProofRecord /\ challenge' \in 0..codes
    BY <1>1, <1>6 DEF CodeChecked, ProofRecord, CodesTyped
  <2>2. [proving[a] EXCEPT !.pc = "voucher"] \in ProofRecord
    BY DEF CodesTyped, ProofRecord
  <2>3. proving' = [proving EXCEPT ![a] = [proving[a] EXCEPT !.pc = "voucher"]]
        \/ proving' = [proving EXCEPT ![a] = NoProof]
    BY <1>6 DEF CodeChecked, CodesTyped
  <2>4. proving' \in [Proving -> ProofRecord]
    BY <1>5, <2>2, <2>3 DEF CodesTyped
  <2> QED
    BY <1>6, <2>1, <2>4 DEF CodeChecked, CodesTyped
<1>7. ASSUME NEW a \in Proving, CodeOpens(a) PROVE CodesTyped'
  <2>1. ProofRecord' = ProofRecord
    BY <1>7 DEF CodeOpens, ProofRecord
  <2>2. opened' \in [1..MaxCodes -> Nat]
    <3> DEFINE n == proving[a].code
    <3>1. opened' = opened \/ opened' = [opened EXCEPT ![n] = opened[n] + 1]
      BY <1>7 DEF CodeOpens
    <3>2. opened \in [1..MaxCodes -> Nat]
      BY DEF CodesTyped
    <3> HIDE DEF n
    <3>3. CASE n \in 1..MaxCodes
      BY <3>1, <3>2, <3>3
    <3>4. CASE n \notin 1..MaxCodes
      BY <3>1, <3>2, <3>4
    <3> QED
      BY <3>3, <3>4
  <2>3. proving' \in [Proving -> ProofRecord]
    BY <1>5, <1>7 DEF CodeOpens, CodesTyped
  <2> QED
    BY <1>7, <2>1, <2>2, <2>3 DEF CodeOpens, CodesTyped
<1>8. CASE ResendAllowed \/ CodeExpires \/ VoucherTurns
  <2>1. UNCHANGED <<codes, asking, proving, opened>>
    BY <1>8 DEF ResendAllowed, CodeExpires, VoucherTurns
  <2>2. ProofRecord' = ProofRecord
    BY <2>1 DEF ProofRecord
  <2>3. challenge' \in 0..codes
    BY <1>1, <1>8 DEF ResendAllowed, CodeExpires, VoucherTurns, CodesTyped
  <2>4. resend' \in BOOLEAN /\ valid' \in BOOLEAN
    BY <1>8 DEF ResendAllowed, CodeExpires, VoucherTurns, CodesTyped
  <2> QED
    BY <2>1, <2>2, <2>3, <2>4, <1>8 DEF ResendAllowed, CodeExpires, VoucherTurns, CodesTyped
<1>9. CASE ApiForgets
  <2>1. ProofRecord' = ProofRecord
    BY <1>9 DEF ApiForgets, ProofRecord
  <2> QED
    BY <1>1, <1>5, <1>9, <2>1 DEF ApiForgets, CodesTyped
<1> QED
  BY <1>2, <1>3, <1>4, <1>6, <1>7, <1>8, <1>9 DEF RecoveryNext

LEMMA PortalStepTyped ==
    ASSUME PortalTypeOK, PortalNext
    PROVE  PortalTypeOK'
<1>0. PageTyped /\ CodesTyped
  BY PortalIsTyped
<1>1. CASE PageNext
  <2>1. PageTyped'
    BY <1>0, <1>1, PageStepTyped
  <2>2. UNCHANGED codeVars
    BY <1>1 DEF PageNext, OpenPage, ClosePage, InitPage, PackagesKnown, PackageEnds, Submit, FormFails, CodeTried,
       Reconnected, Paying, Decide, IssueVoucher, PollStep, PollStart, PollAnswered, PollStatus, PollRedeem, PollFails
  <2>3. CodesTyped'
    BY <1>0, <2>2 DEF codeVars, CodesTyped, ProofRecord
  <2> QED
    BY <2>1, <2>3 DEF PageTyped, CodesTyped, PollRecord, PaymentRecord, ProofRecord, PortalTypeOK
<1>2. CASE RecoveryNext
  <2>1. CodesTyped'
    BY <1>0, <1>2, CodesStepTyped
  <2>2. UNCHANGED pageVars
    BY <1>2 DEF RecoveryNext, RecoveryAsked, RecoverySent, RecoveryDecides, CodeTyped, CodeChecked, CodeOpens,
       ResendAllowed, CodeExpires, VoucherTurns, ApiForgets
  <2>3. PageTyped'
    BY <1>0, <2>2 DEF pageVars, PageTyped
  <2> QED
    BY <2>1, <2>3 DEF PageTyped, CodesTyped, PollRecord, PaymentRecord, ProofRecord, PortalTypeOK
<1> QED
  BY <1>1, <1>2 DEF PortalNext

LEMMA PortalStays ==
    ASSUME PortalTypeOK, UNCHANGED portalVars
    PROVE  PortalTypeOK'
  BY DEF PortalTypeOK, portalVars, pageVars, codeVars
=============================================================================
