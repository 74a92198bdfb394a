--------------------------- MODULE PaymentsProofs ---------------------------
(* Theorems of Payments, for any payments, webhooks and batch.  None of the *)
(* properties is inductive: PInv adds what a run of reconcile knows of the  *)
(* payment it is at, and what Ssentezo can know of one that was refused.    *)
EXTENDS Payments, TLAPS

-----------------------------------------------------------------------------
(* The inductive invariant                                                 *)

\* A run of reconcile that works on a payment; one that has issued its voucher.
Works(s)   == rec[s].pc \in {"ask", "fail", "issue", "login", "text"}
Hands(s) == rec[s].pc \in {"login", "text"}

\* A run issues a voucher only after Ssentezo's word that it was paid.
RunInv ==
    \A s \in Reconciler :
        /\ Works(s) => rec[s].p \in Payment
        /\ rec[s].pc = "issue" => prov[rec[s].p] = "SUCCEEDED"

\* A payment that can still be claimed has no voucher.
RowInv ==
    \A p \in Payment :
        /\ status[p] \in {"NONE", "PENDING"} => issued[p] = 0
        /\ status[p] = "SUCCESS" => issued[p] = 1
        /\ issued[p] > 0 => prov[p] = "SUCCEEDED"
        /\ texted[p] <= issued[p] /\ issued[p] <= 1

\* The run that issued a voucher is the only one to text its code.
TextInv ==
    \A s \in Reconciler : Hands(s) =>
        /\ issued[rec[s].p] = 1 /\ texted[rec[s].p] = 0
        /\ \A r \in Reconciler : Hands(r) /\ rec[r].p = rec[s].p => r = s

\* Ssentezo knows nothing of a request that is not sent, under way, or refused.
BuyInv ==
    \A p \in Payment :
        /\ buy[p] \in {"idle", "send"} \/ (buy[p] = "fail" /\ p \notin Lossy)
             => p \notin wire /\ prov[p] = "absent"
        /\ p \in wire => prov[p] = "absent"
        /\ p \notin Lossy /\ issued[p] > 0 => status[p] = "SUCCESS"

PInv == TypeOK /\ RunInv /\ RowInv /\ TextInv /\ BuyInv

-----------------------------------------------------------------------------
(* Type correctness                                                        *)

LEMMA PaymentsTypeInit == Init => TypeOK
  BY PaymentsAssumption DEF Init, TypeOK, NoRun, Run, RunState

LEMMA PaymentsTypeStep == TypeOK /\ RunInv /\ [Next]_vars => TypeOK'
  <1> SUFFICES ASSUME TypeOK, RunInv, [Next]_vars PROVE TypeOK'
    OBVIOUS
  <1> USE PaymentsAssumption DEF TypeOK
  <1>1. CASE PollStart
    BY <1>1 DEF PollStart, Run, RunState, Reconciler
  <1>2. CASE ApiRestart
    BY <1>2 DEF ApiRestart, NoRun, Run, RunState
  <1>3. ASSUME NEW p \in Payment, Outside(p) PROVE TypeOK'
    BY <1>3 DEF Outside, Initiate, Buying, Arrive, Lose, Age, ProviderDoubts, CustomerPays,
                CustomerFails, ProviderStep
  <1>4. ASSUME NEW p \in Payment, BuyStep(p) PROVE TypeOK'
    BY <1>4 DEF BuyStep, Deposit, AnswerOk, AnswerRefused, AnswerLost, InitiateFailed,
                InitiateSaved, Buying
  <1>5. ASSUME NEW s \in Reconciler, RecStep(s) PROVE TypeOK'
    <2> Works(s) => rec[s].p \in Payment
      BY DEF RunInv
    <2> USE DEF Works
    <2>1. CASE RecRead(s)
      BY <2>1 DEF RecRead, Run, RunState
    <2>2. CASE RecEnd(s)
      BY <2>2 DEF RecEnd, NoRun, Run, RunState
    <2>3. CASE RecAnswer(s)
      BY <2>3 DEF RecAnswer, Outcome, Goto, GoOn, Run, RunState
    <2>4. CASE RecError(s)
      BY <2>4 DEF RecError, GoOn, Run, RunState
    <2>5. CASE RecFail(s)
      BY <2>5 DEF RecFail, GoOn, Run, RunState
    <2>6. CASE RecIssue(s)
      BY <2>6 DEF RecIssue, Goto, GoOn, Run, RunState
    <2>7. CASE RecLogin(s)
      BY <2>7 DEF RecLogin, Goto, RunState
    <2>8. CASE RecText(s)
      BY <2>8 DEF RecText, GoOn, Run, RunState
    <2>9. QED
      BY <1>5, <2>1, <2>2, <2>3, <2>4, <2>5, <2>6, <2>7, <2>8 DEF RecStep
  <1>6. ASSUME NEW h \in Hook, NEW p \in Payment, Webhook(h, p) PROVE TypeOK'
    BY <1>6 DEF Webhook, Run, RunState, Reconciler
  <1>7. CASE UNCHANGED vars
    BY <1>7 DEF vars
  <1>8. QED
    BY <1>1, <1>2, <1>3, <1>4, <1>5, <1>6, <1>7 DEF Next

-----------------------------------------------------------------------------
(* The steps                                                               *)

LEMMA PaymentsInit == Init => PInv
  BY PaymentsTypeInit DEF Init, PInv, RunInv, RowInv, TextInv, BuyInv, Works, Hands, NoRun, Run

\* What initiate, the network, Ssentezo and time do, the failed request apart.
LEMMA BuyKeeps ==
    ASSUME PInv, NEW p \in Payment,
           \/ Outside(p) \/ Deposit(p) \/ AnswerOk(p) \/ AnswerRefused(p) \/ AnswerLost(p)
           \/ InitiateSaved(p)
    PROVE  (RunInv /\ RowInv /\ TextInv /\ BuyInv)'
  <1> USE DEF PInv, TypeOK
  <1>1. /\ UNCHANGED <<rec, issued, texted>>
        /\ status' = status \/ (status[p] = "NONE" /\ status' = [status EXCEPT ![p] = "PENDING"])
        /\ \A q \in Payment : prov[q] = "SUCCEEDED" => prov'[q] = "SUCCEEDED"
    BY DEF Outside, Initiate, Deposit, AnswerOk, AnswerRefused, AnswerLost, InitiateSaved, Buying,
           Arrive, Lose, Age, ProviderDoubts, CustomerPays, CustomerFails, ProviderStep
  <1>2. RunInv'
    BY <1>1 DEF RunInv, Works
  <1>3. RowInv'
    BY <1>1 DEF RowInv
  <1>4. TextInv'
    BY <1>1 DEF TextInv, Hands
  <1>5. BuyInv'
    BY <1>1 DEF BuyInv, RowInv, Outside, Initiate, Deposit, AnswerOk, AnswerRefused, AnswerLost,
           InitiateSaved, Buying, Arrive, Lose, Age, ProviderDoubts, CustomerPays, CustomerFails,
           ProviderStep
  <1>6. QED
    BY <1>2, <1>3, <1>4, <1>5

\* The update to FAILED by id alone: a request that was refused has no voucher.
LEMMA FailureKeeps ==
    ASSUME PInv, NEW p \in Payment, InitiateFailed(p)
    PROVE  (RunInv /\ RowInv /\ TextInv /\ BuyInv)'
  <1> USE DEF PInv, TypeOK, InitiateFailed, Buying
  <1>1. RunInv' /\ TextInv'
    BY DEF RunInv, TextInv, Works, Hands
  <1>2. RowInv'
    BY DEF RowInv
  <1>3. p \notin Lossy => issued[p] = 0
    BY DEF BuyInv, RowInv
  <1>4. BuyInv'
    BY <1>3 DEF BuyInv
  <1>5. QED
    BY <1>1, <1>2, <1>4

\* A run that starts, ends, or goes from one payment to the next.
LEMMA RunKeeps ==
    ASSUME PInv, NEW s \in Reconciler, UNCHANGED <<status, issued, texted, buy, wire, prov>>,
           \/ PollStart \/ RecRead(s) \/ RecEnd(s) \/ RecAnswer(s) \/ RecError(s) \/ RecLogin(s)
           \/ \E h \in Hook, p \in Payment : Webhook(h, p)
    PROVE  (RunInv /\ RowInv /\ TextInv /\ BuyInv)'
  <1> USE DEF PInv
  <1>1. RowInv' /\ BuyInv'
    BY DEF RowInv, BuyInv
  <1>2. \A r \in Reconciler :
          /\ Hands(r)' => Hands(r) /\ rec'[r].p = rec[r].p
          /\ Works(r)' => rec'[r].p \in Payment
          /\ rec'[r].pc = "issue" => prov[rec'[r].p] = "SUCCEEDED"
    <2> USE DEF TypeOK, RunInv, Works, Hands
    <2>1. CASE PollStart
      BY <2>1 DEF PollStart, Run
    <2>2. CASE RecRead(s)
      BY <2>2 DEF RecRead, Run, RunState
    <2>3. CASE RecEnd(s)
      BY <2>3 DEF RecEnd, NoRun, Run
    <2>4. CASE RecAnswer(s)
      BY <2>4 DEF RecAnswer, Outcome, Goto, GoOn, Run, RunState
    <2>5. CASE RecError(s)
      BY <2>5 DEF RecError, GoOn, Run, RunState
    <2>6. CASE RecLogin(s)
      BY <2>6 DEF RecLogin, Goto, RunState
    <2>7. ASSUME NEW h \in Hook, NEW p \in Payment, Webhook(h, p)
          PROVE  \A r \in Reconciler :
                   /\ Hands(r)' => Hands(r) /\ rec'[r].p = rec[r].p
                   /\ Works(r)' => rec'[r].p \in Payment
                   /\ rec'[r].pc = "issue" => prov[rec'[r].p] = "SUCCEEDED"
      BY <2>7 DEF Webhook, Run
    <2>8. QED
      BY <2>1, <2>2, <2>3, <2>4, <2>5, <2>6, <2>7
  <1>3. RunInv'
    BY <1>2 DEF RunInv
  <1>4. TextInv'
    BY <1>2 DEF TextInv
  <1>5. QED
    BY <1>1, <1>3, <1>4

\* FAILED where still PENDING: such a payment has no voucher.
LEMMA RecFailKeeps ==
    ASSUME PInv, NEW s \in Reconciler, RecFail(s)
    PROVE  (RunInv /\ RowInv /\ TextInv /\ BuyInv)'
  <1> USE DEF PInv, TypeOK, RunState, RecFail, GoOn, Run
  <1>1. RunInv' /\ TextInv'
    BY DEF RunInv, TextInv, Works, Hands
  <1>2. RowInv' /\ BuyInv'
    BY DEF RowInv, BuyInv
  <1>3. QED
    BY <1>1, <1>2

\* The claim finds the payment PENDING, so nobody has issued for it.
LEMMA IssueKeeps ==
    ASSUME PInv, NEW s \in Reconciler, RecIssue(s)
    PROVE  (RunInv /\ RowInv /\ TextInv /\ BuyInv)'
  <1> DEFINE p == rec[s].p
  <1> USE DEF PInv, TypeOK
  <1>1. p \in Payment /\ prov[p] = "SUCCEEDED"
    BY DEF RecIssue, RunInv, Works
  <1>2. CASE status[p] = "PENDING"
    <2>1. /\ status' = [status EXCEPT ![p] = "SUCCESS"] /\ issued' = [issued EXCEPT ![p] = @ + 1]
          /\ rec' = [rec EXCEPT ![s].pc = "login"] /\ UNCHANGED <<texted, buy, wire, prov>>
      BY <1>2 DEF RecIssue, Goto
    <2>2. issued[p] = 0 /\ texted[p] = 0 /\ issued'[p] = 1
      BY <1>1, <1>2, <2>1 DEF RowInv
    <2>3. RowInv' /\ BuyInv'
      BY <1>1, <2>1, <2>2 DEF RowInv, BuyInv
    <2>4. \A r \in Reconciler : r # s => rec'[r] = rec[r] /\ (Hands(r) => rec[r].p # p)
      BY <2>1, <2>2 DEF TextInv
    <2>5. rec'[s].p = p /\ rec'[s].pc = "login"
      BY <2>1 DEF RunState
    <2>6. RunInv'
      BY <1>1, <2>1, <2>4, <2>5 DEF RunInv, Works
    <2>7. TextInv'
      BY <1>1, <2>1, <2>2, <2>4, <2>5 DEF TextInv, Hands, RunInv, Works
    <2>8. QED
      BY <2>3, <2>6, <2>7
  <1>3. CASE status[p] # "PENDING"
    <2>1. rec' = [rec EXCEPT ![s] = Run("next", @.due, Null)]
          /\ UNCHANGED <<status, issued, texted, buy, wire, prov>>
      BY <1>3 DEF RecIssue, GoOn
    <2>2. QED
      BY <2>1 DEF RunInv, RowInv, TextInv, BuyInv, Works, Hands, Run
  <1>4. QED
    BY <1>2, <1>3

\* The run that texts a code is done with it.
LEMMA TextKeeps ==
    ASSUME PInv, NEW s \in Reconciler, RecText(s)
    PROVE  (RunInv /\ RowInv /\ TextInv /\ BuyInv)'
  <1> DEFINE p == rec[s].p
  <1> USE DEF PInv, TypeOK
  <1>1. /\ Hands(s) /\ texted' = [texted EXCEPT ![p] = @ + 1]
        /\ rec' = [rec EXCEPT ![s] = Run("next", @.due, Null)]
        /\ UNCHANGED <<status, issued, buy, wire, prov>>
    BY DEF RecText, GoOn, Hands
  <1>2. p \in Payment /\ issued[p] = 1 /\ texted[p] = 0 /\ texted'[p] = 1
    BY <1>1 DEF RunInv, Works, Hands, TextInv
  <1>3. RowInv' /\ BuyInv'
    BY <1>1, <1>2 DEF RowInv, BuyInv
  <1>4. RunInv'
    BY <1>1 DEF RunInv, Works, Run
  <1>5. \A r \in Reconciler : Hands(r)' => r # s /\ Hands(r) /\ rec'[r] = rec[r] /\ rec[r].p # p
    BY <1>1 DEF Hands, TextInv, Run
  <1>6. TextInv'
    BY <1>1, <1>5 DEF TextInv
  <1>7. QED
    BY <1>3, <1>4, <1>6

\* A crash ends every handler; what it was about to write is never written.
LEMMA CrashKeeps ==
    ASSUME PInv, ApiRestart
    PROVE  (RunInv /\ RowInv /\ TextInv /\ BuyInv)'
  BY DEF PInv, TypeOK, ApiRestart, NoRun, Run, RunInv, RowInv, TextInv, BuyInv, Works, Hands

LEMMA PaymentsStep == PInv /\ [Next]_vars => PInv'
  <1> SUFFICES ASSUME PInv, [Next]_vars PROVE (RunInv /\ RowInv /\ TextInv /\ BuyInv)'
    BY PaymentsTypeStep DEF PInv
  <1>1. CASE PollStart
    BY <1>1, RunKeeps DEF PollStart, Reconciler
  <1>2. CASE ApiRestart
    BY <1>2, CrashKeeps
  <1>3. ASSUME NEW p \in Payment, Outside(p) \/ BuyStep(p)
        PROVE  (RunInv /\ RowInv /\ TextInv /\ BuyInv)'
    BY <1>3, BuyKeeps, FailureKeeps DEF BuyStep
  <1>4. ASSUME NEW s \in Reconciler, RecStep(s)
        PROVE  (RunInv /\ RowInv /\ TextInv /\ BuyInv)'
    <2>1. CASE RecRead(s) \/ RecEnd(s) \/ RecAnswer(s) \/ RecError(s) \/ RecLogin(s)
      BY <2>1, RunKeeps DEF RecRead, RecEnd, RecAnswer, RecError, RecLogin
    <2>2. QED
      BY <1>4, <2>1, RecFailKeeps, IssueKeeps, TextKeeps DEF RecStep
  <1>5. ASSUME NEW h \in Hook, NEW p \in Payment, Webhook(h, p)
        PROVE  (RunInv /\ RowInv /\ TextInv /\ BuyInv)'
    BY <1>5, RunKeeps DEF Webhook, Reconciler
  <1>6. CASE UNCHANGED vars
    BY <1>6 DEF vars, PInv, RunInv, RowInv, TextInv, BuyInv, Works, Hands
  <1>7. QED
    BY <1>1, <1>2, <1>3, <1>4, <1>5, <1>6 DEF Next

-----------------------------------------------------------------------------
(* The theorems                                                            *)

\* What the properties below follow from holds in every state.
THEOREM PaymentsInvariance == Spec => []PInv
  BY PaymentsInit, PaymentsStep, PTL DEF Spec

\* Every row, handler and record keeps its shape.
THEOREM PaymentsTyped == Spec => []TypeOK
  <1>1. PInv => TypeOK
    BY DEF PInv
  <1>2. QED
    BY <1>1, PaymentsInvariance, PTL

\* A payment yields one voucher at most, whose code is texted at most once,
\* however many webhooks race the poll and wherever the API dies.
THEOREM OneVoucher == Spec => []IssuedOnce
  <1>1. PInv => IssuedOnce
    BY DEF PInv, RowInv, IssuedOnce
  <1>2. QED
    BY <1>1, PaymentsInvariance, PTL

\* A voucher is issued only for money that Ssentezo has received.
THEOREM OnlyForMoney == Spec => []VoucherIsPaid
  <1>1. PInv => VoucherIsPaid
    BY DEF PInv, RowInv, VoucherIsPaid
  <1>2. QED
    BY <1>1, PaymentsInvariance, PTL

\* The SUCCESS rows that withdrawals.service.ts sums as revenue are those that
\* yielded a voucher, where the deposit request is always answered.
THEOREM SalesBooked == Spec => []SaleIsBooked
  <1>1. PInv => SaleIsBooked
    BY DEF PInv, TypeOK, RowInv, BuyInv, SaleIsBooked
  <1>2. QED
    BY <1>1, PaymentsInvariance, PTL
=============================================================================
