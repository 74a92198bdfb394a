------------------------- MODULE WithdrawalsProofs -------------------------
(***************************************************************************)
(* Proofs about Withdrawals, for any number of rows, admins and handlers.  *)
(* NoOverdraft, SentOnce, PaidStaysHeld and SuccessIsPaid are not          *)
(* inductive: IInv adds what the program counters know about the rows.     *)
(***************************************************************************)
EXTENDS Withdrawals, CoinsProofs

-----------------------------------------------------------------------------
(* The inductive invariant                                                 *)

\* Ssentezo can no longer pay w, whatever happens.
Never(w) ==
    \/ prov[w] = "FAILED"
    \/ /\ prov[w] = "absent" /\ w \notin wire
       /\ \A a \in Admin : ~(call[a].pc = "send" /\ call[a].w = w)

\* What a handler is about to write is true of the payout.
Sound(w, to) ==
    /\ to = "SUCCESS" => prov[w] = "SUCCEEDED"
    /\ to = "FAILED" => Never(w)

\* A transaction that can still commit knows the balance, up to sales.
TxInv ==
    \A a \in Admin : call[a].pc = "tx" =>
        /\ wd[call[a].w] = "NONE" /\ call[a].t \in Amount
        /\ \A b \in Admin : call[b].pc = "tx" /\ call[b].w = call[a].w => b = a
        /\ a \in fresh => SumOf(Held, total) + call[a].t <= earned

\* A row that was not claimed was not sent.
Claimed == {"PROCESSING", "SUCCESS", "FAILED"}
RowInv ==
    \A w \in Withdrawal :
        /\ wd[w] \notin Claimed => w \notin wire /\ w \notin aged
                                   /\ prov[w] = "absent" /\ sends[w] = 0
        /\ w \in wire => prov[w] = "absent" /\ w \notin aged
        /\ wd[w] = "SUCCESS" => prov[w] = "SUCCEEDED"
        /\ wd[w] = "FAILED" => Never(w)
        /\ sends[w] <= 1

\* A row about to be sent has one sender and no trace at Ssentezo.
SendInv ==
    \A a \in Admin : call[a].pc = "send" =>
        LET w == call[a].w IN
        /\ wd[w] = "PROCESSING" /\ sends[w] = 0
        /\ prov[w] = "absent" /\ w \notin wire /\ w \notin aged
        /\ \A b \in Admin : call[b].pc = "send" /\ call[b].w = w => b = a

CallInv ==
    \A a \in Admin :
        /\ call[a].pc \in {"send", "wait", "mark"} => wd[call[a].w] \in Claimed
        /\ call[a].pc = "wait" => call[a].w \notin aged
        /\ call[a].pc = "mark" => Sound(call[a].w, call[a].to)

SettleInv ==
    \A s \in Settler : settle[s].pc \in {"ask", "mark"} =>
        /\ settle[s].w \in Withdrawal /\ wd[settle[s].w] \in Claimed
        /\ settle[s].pc = "mark" => Sound(settle[s].w, settle[s].to)

PayInv == RowInv /\ SendInv /\ CallInv /\ SettleInv
IInv   == TypeOK /\ NoOverdraft /\ TxInv /\ PayInv

-----------------------------------------------------------------------------
(* Type correctness                                                        *)

\* The rows that hold money are finitely many.
LEMMA HeldNat ==
    ASSUME TypeOK
    PROVE  IsFiniteSet(Held) /\ SumOf(Held, total) \in Nat
<1>1. Held \in SUBSET Withdrawal /\ \A w \in Withdrawal : total[w] \in Nat
  BY DEF Held, TypeOK
<1>2. IsFiniteSet(Held)
  BY <1>1, WithdrawalsAssumption, FS_Subset
<1> QED BY <1>1, <1>2, WithdrawalsAssumption, SumMonotone

\* A handler under way works on a row.
LEMMA CallType ==
    ASSUME TypeOK, NEW a \in Admin, call[a].pc # "idle"
    PROVE  call[a].w \in Withdrawal /\ call[a].t \in Nat
BY DEF TypeOK, CallState, NoCall, At

LEMMA Verdicts ==
    ASSUME NEW status
    PROVE  /\ Verdict(status) \in {"none", "SUCCESS", "FAILED"}
           /\ Verdict(status) = "SUCCESS" => status = "SUCCEEDED"
           /\ Verdict(status) = "FAILED" => status = "FAILED"
BY DEF Verdict

LEMMA TypeInit == Init => TypeOK
BY WithdrawalsAssumption DEF Init, TypeOK, NoCall, NoSettle, At, Run, CallState, SettleState, HOLDING

LEMMA TypeStep == TypeOK /\ [Next]_vars => TypeOK'
<1> SUFFICES ASSUME TypeOK, [Next]_vars PROVE TypeOK'
  OBVIOUS
<1> USE WithdrawalsAssumption DEF TypeOK, rows, world, Settler
<1>1. CASE Earn
  BY <1>1 DEF Earn
<1>2. CASE PollStart
  BY <1>2 DEF PollStart, NoSettle, Run, SettleState
<1>3. CASE ApiRestart
  BY <1>3 DEF ApiRestart, NoCall, NoSettle, At, Run, CallState, SettleState
<1>4. ASSUME NEW a \in Admin, NEW w \in Withdrawal, Approve(a, w) PROVE TypeOK'
  BY <1>4 DEF Approve, NoCall, At, Tx, CallState
<1>5. ASSUME NEW a \in Admin, NEW w \in Withdrawal, NEW t \in Amount,
             RequestRead(a, w, t)
      PROVE TypeOK'
  BY <1>5, t \in Nat DEF RequestRead, NoCall, At, Tx, CallState
<1>6. ASSUME NEW a \in Admin, CallStep(a) PROVE TypeOK'
  <2> call[a].pc # "idle" => call[a].w \in Withdrawal /\ call[a].t \in Nat
    BY CallType
  <2>1. CASE RequestCommit(a)
    BY <2>1 DEF RequestCommit, Create, NoCall, At, Tx, CallState, HOLDING
  <2>2. CASE RequestAbort(a)
    BY <2>2 DEF RequestAbort, NoCall, At, Tx, CallState
  <2>3. CASE Claim(a)
    BY <2>3 DEF Claim, NoCall, At, Tx, CallState, HOLDING
  <2>4. CASE Send(a)
    BY <2>4 DEF Send, At, NoCall, CallState
  <2>5. CASE SendOk(a)
    BY <2>5, Verdicts DEF SendOk, At, CallState
  <2>6. CASE SendDeclined(a)
    BY <2>6 DEF SendDeclined, At, CallState
  <2>7. CASE SendUncertain(a)
    BY <2>7 DEF SendUncertain, NoCall, At, Tx, CallState
  <2>8. CASE SendMark(a)
    BY <2>8 DEF SendMark, Marked, NoCall, At, Tx, CallState, HOLDING
  <2> QED BY <1>6, <2>1, <2>2, <2>3, <2>4, <2>5, <2>6, <2>7, <2>8 DEF CallStep
<1>7. ASSUME NEW s \in Settler, SettleStep(s) PROVE TypeOK'
  <2>1. CASE SettleRead(s)
    BY <1>7, <2>1 DEF SettleRead, Run, SettleState
  <2>2. CASE SettleEnd(s)
    BY <1>7, <2>2 DEF SettleEnd, NoSettle, Run, SettleState
  <2>3. CASE SettleAnswer(s)
    BY <1>7, <2>3 DEF SettleAnswer, Verdict, NotFound, Run, SettleState
  <2>4. CASE SettleError(s)
    BY <1>7, <2>4 DEF SettleError, Run, SettleState
  <2>5. CASE SettleMark(s)
    BY <1>7, <2>5 DEF SettleMark, Marked, Run, SettleState, HOLDING
  <2> QED BY <1>7, <2>1, <2>2, <2>3, <2>4, <2>5 DEF SettleStep
<1>8. ASSUME NEW h \in Hook, NEW w \in Withdrawal, HookStart(h, w) PROVE TypeOK'
  BY <1>8 DEF HookStart, NoSettle, Run, SettleState
<1>9. ASSUME NEW w \in Withdrawal, Outside(w) PROVE TypeOK'
  BY <1>9 DEF Outside, Reject, Cancel, Resolve, Arrive, Lose, Age, ProviderDoubts,
              ProviderPays, ProviderFails, ProviderStep, HOLDING
<1>10. CASE UNCHANGED vars
  BY <1>10 DEF vars
<1> QED BY <1>1, <1>2, <1>3, <1>4, <1>5, <1>6, <1>7, <1>8, <1>9, <1>10
        DEF Next, AdminAct

-----------------------------------------------------------------------------
(* Payouts                                                                 *)

\* What is decided stays decided: a claimed row is never asked for again, what
\* Ssentezo paid it has paid, and what it can no longer pay it never will.
LEMMA Final ==
    ASSUME TypeOK, TxInv, PayInv, Next
    PROVE  \A w \in Withdrawal :
             /\ wd[w] \in Claimed => wd'[w] \in Claimed
             /\ prov[w] = "SUCCEEDED" => prov'[w] = "SUCCEEDED"
             /\ wd[w] \in Claimed /\ Never(w) => Never(w)'
<1> DEFINE Goal(w) == /\ wd[w] \in Claimed => wd'[w] \in Claimed
                      /\ prov[w] = "SUCCEEDED" => prov'[w] = "SUCCEEDED"
                      /\ wd[w] \in Claimed /\ Never(w) => Never(w)'
<1> SUFFICES ASSUME NEW w \in Withdrawal PROVE Goal(w)
  OBVIOUS
<1> USE DEF rows, world, Never, Claimed
<1>1. CASE Earn \/ PollStart
  BY <1>1 DEF Earn, PollStart
<1>2. CASE ApiRestart
  BY <1>2 DEF ApiRestart, NoCall, At
<1>3. ASSUME NEW a \in Admin, NEW x \in Withdrawal, Approve(a, x) PROVE Goal(w)
  BY <1>3 DEF Approve, At, TypeOK
<1>4. ASSUME NEW a \in Admin, NEW x \in Withdrawal, NEW t \in Amount,
             RequestRead(a, x, t)
      PROVE Goal(w)
  BY <1>4 DEF RequestRead, Tx, TypeOK
<1>5. ASSUME NEW a \in Admin, CallStep(a) PROVE Goal(w)
  <2> call[a].pc # "idle" => call[a].w \in Withdrawal /\ call[a].t \in Nat
    BY CallType
  <2>1. CASE RequestCommit(a)
    BY <2>1 DEF RequestCommit, Create, NoCall, At, TypeOK, TxInv
  <2>2. CASE RequestAbort(a) \/ SendUncertain(a)
    BY <2>2 DEF RequestAbort, SendUncertain, NoCall, At, TypeOK
  <2>3. CASE Claim(a)
    BY <2>3 DEF Claim, NoCall, At, TypeOK
  <2>4. CASE Send(a)
    BY <2>4 DEF Send, At, TypeOK
  <2>5. CASE SendOk(a)
    BY <2>5 DEF SendOk, At, TypeOK
  <2>6. CASE SendDeclined(a)
    BY <2>6 DEF SendDeclined, At, TypeOK
  <2>7. CASE SendMark(a)
    <3>1. call[a].to \in {"none", "SUCCESS", "FAILED"}
      BY DEF TypeOK, CallState, NoCall, At
    <3> QED BY <2>7, <3>1 DEF SendMark, Marked, NoCall, At, TypeOK
  <2> QED BY <1>5, <2>1, <2>2, <2>3, <2>4, <2>5, <2>6, <2>7 DEF CallStep
<1>6. ASSUME NEW s \in Settler, SettleStep(s) PROVE Goal(w)
  <2>1. CASE SettleRead(s) \/ SettleEnd(s) \/ SettleAnswer(s) \/ SettleError(s)
    BY <2>1 DEF SettleRead, SettleEnd, SettleAnswer, SettleError
  <2>2. CASE SettleMark(s)
    <3>1. settle[s].to \in {"none", "SUCCESS", "FAILED"}
      BY <1>6 DEF TypeOK, SettleState
    <3> QED BY <2>2, <3>1 DEF SettleMark, Marked, TypeOK
  <2> QED BY <1>6, <2>1, <2>2 DEF SettleStep
<1>7. ASSUME NEW h \in Hook, NEW x \in Withdrawal, HookStart(h, x) PROVE Goal(w)
  BY <1>7 DEF HookStart
<1>8. ASSUME NEW x \in Withdrawal, Outside(x) PROVE Goal(w)
  <2>1. CASE Reject(x) \/ Cancel(x) \/ Resolve(x) \/ Lose(x) \/ Age(x)
    BY <2>1 DEF Reject, Cancel, Resolve, Lose, Age, TypeOK
  <2>2. CASE Arrive(x)
    BY <2>2 DEF Arrive, TypeOK, PayInv, RowInv
  <2>3. CASE ProviderDoubts(x) \/ ProviderPays(x) \/ ProviderFails(x)
    BY <2>3 DEF ProviderDoubts, ProviderPays, ProviderFails, ProviderStep, TypeOK
  <2> QED BY <1>8, <2>1, <2>2, <2>3 DEF Outside
<1> QED BY <1>1, <1>2, <1>3, <1>4, <1>5, <1>6, <1>7, <1>8 DEF Next, AdminAct

\* RowInv: every action, row by row.
LEMMA RowStep == ASSUME TypeOK, TxInv, PayInv, Next PROVE RowInv'
<1> USE DEF rows, world
<1> DEFINE R(w) == /\ wd[w] \notin Claimed => w \notin wire /\ w \notin aged
                                   /\ prov[w] = "absent" /\ sends[w] = 0
                   /\ w \in wire => prov[w] = "absent" /\ w \notin aged
                   /\ wd[w] = "SUCCESS" => prov[w] = "SUCCEEDED"
                   /\ sends[w] <= 1
<1> SUFFICES ASSUME NEW w \in Withdrawal
             PROVE  R(w)' /\ ((wd[w] = "FAILED")' => Never(w)')
  BY DEF RowInv
<1>0. /\ R(w) /\ (wd[w] = "FAILED" => Never(w))
      /\ wd[w] \in Claimed /\ Never(w) => Never(w)'
      /\ wd[w] \in HOLDING \cup {"NONE", "FAILED", "REJECTED", "CANCELLED"}
  BY Final DEF PayInv, RowInv, TypeOK
<1> SUFFICES R(w)' /\ ((wd[w] = "FAILED")' => Never(w)' \/ (wd[w] = "FAILED"))
  BY <1>0 DEF Claimed
<1> USE DEF Claimed
<1>1. CASE Earn \/ PollStart \/ ApiRestart
  BY <1>0, <1>1 DEF Earn, PollStart, ApiRestart
<1>2. ASSUME NEW a \in Admin, AdminAct(a) PROVE R(w)' /\ wd' = wd
  BY <1>0, <1>2 DEF AdminAct, Approve, RequestRead
<1>3. ASSUME NEW a \in Admin, CallStep(a)
      PROVE  R(w)' /\ ((wd[w] = "FAILED")' => Never(w)' \/ wd[w] = "FAILED")
  <2> call[a].pc # "idle" => call[a].w \in Withdrawal /\ call[a].t \in Nat
    BY CallType
  <2>1. CASE RequestCommit(a)
    BY <1>0, <2>1 DEF RequestCommit, Create, TypeOK, TxInv
  <2>2. CASE RequestAbort(a) \/ SendUncertain(a) \/ SendOk(a)
    BY <1>0, <2>2 DEF RequestAbort, SendUncertain, SendOk
  <2>3. CASE Claim(a)
    BY <1>0, <2>3 DEF Claim, TypeOK
  <2>4. CASE Send(a)
    BY <1>0, <2>4 DEF Send, TypeOK, PayInv, SendInv
  <2>5. CASE SendDeclined(a)
    BY <1>0, <2>5 DEF SendDeclined
  <2>6. CASE SendMark(a)
    <3>1. PICK x \in Withdrawal : x = call[a].w
      BY <2>6 DEF SendMark
    <3>2. Sound(x, call[a].to) /\ wd[x] \in Claimed
      BY <2>6, <3>1 DEF SendMark, PayInv, CallInv
    <3>3. call[a].to = "FAILED" => Never(x)'
      BY <3>2, Final DEF Sound
    <3>4. call[a].to \in {"none", "SUCCESS", "FAILED"}
      BY DEF TypeOK, CallState, NoCall, At
    <3> QED BY <1>0, <2>6, <3>1, <3>2, <3>3, <3>4
            DEF SendMark, Marked, TypeOK, Sound
  <2> QED BY <1>3, <2>1, <2>2, <2>3, <2>4, <2>5, <2>6 DEF CallStep
<1>4. ASSUME NEW s \in Settler, SettleStep(s)
      PROVE  R(w)' /\ ((wd[w] = "FAILED")' => Never(w)' \/ wd[w] = "FAILED")
  <2>1. CASE SettleRead(s) \/ SettleEnd(s) \/ SettleAnswer(s) \/ SettleError(s)
    BY <1>0, <2>1 DEF SettleRead, SettleEnd, SettleAnswer, SettleError
  <2>2. CASE SettleMark(s)
    <3>1. PICK x \in Withdrawal : x = settle[s].w
      BY <1>4, <2>2 DEF SettleMark, PayInv, SettleInv
    <3>2. Sound(x, settle[s].to) /\ wd[x] \in Claimed
      BY <1>4, <2>2, <3>1 DEF SettleMark, PayInv, SettleInv
    <3>3. settle[s].to = "FAILED" => Never(x)'
      BY <3>2, Final DEF Sound
    <3>4. settle[s].to \in {"none", "SUCCESS", "FAILED"}
      BY <1>4 DEF TypeOK, SettleState
    <3> QED BY <1>0, <2>2, <3>1, <3>2, <3>3, <3>4
            DEF SettleMark, Marked, TypeOK, Sound
  <2> QED BY <1>4, <2>1, <2>2 DEF SettleStep
<1>5. ASSUME NEW h \in Hook, NEW x \in Withdrawal, HookStart(h, x) PROVE R(w)' /\ wd' = wd
  BY <1>0, <1>5 DEF HookStart
<1>6. ASSUME NEW x \in Withdrawal, Outside(x)
      PROVE  R(w)' /\ ((wd[w] = "FAILED")' => Never(w)' \/ wd[w] = "FAILED")
  <2>1. CASE Reject(x) \/ Cancel(x) \/ Arrive(x) \/ Lose(x)
    BY <1>0, <2>1 DEF Reject, Cancel, Arrive, Lose, TypeOK
  <2>2. CASE Resolve(x)
    <3>1. prov[x] = "absent" /\ x \in aged => Never(x)
      BY DEF Never, PayInv, RowInv, SendInv
    <3>2. Unpayable(x) => Never(x)'
      BY <2>2, <3>1, Final DEF Resolve, Unpayable, Never
    <3> QED BY <1>0, <2>2, <3>2 DEF Resolve, TypeOK
  <2>3. CASE Age(x)
    BY <1>0, <2>3 DEF Age
  <2>4. CASE ProviderDoubts(x) \/ ProviderPays(x) \/ ProviderFails(x)
    BY <1>0, <2>4 DEF ProviderDoubts, ProviderPays, ProviderFails, ProviderStep, TypeOK
  <2> QED BY <1>6, <2>1, <2>2, <2>3, <2>4 DEF Outside
<1> QED BY <1>1, <1>2, <1>3, <1>4, <1>5, <1>6, <1>0 DEF Next

\* SendInv: the claim picks one sender for a row nobody else touches.
LEMMA SendStep == ASSUME TypeOK, TxInv, PayInv, Next PROVE SendInv'
<1> USE DEF rows, world, SendInv
<1>0. SendInv /\ \A b \in Admin : call[b].pc = "send" => call[b].w \in Withdrawal
  BY CallType DEF PayInv
<1>1. CASE Earn \/ PollStart
  BY <1>0, <1>1 DEF Earn, PollStart
<1>2. CASE ApiRestart
  BY <1>0, <1>2 DEF ApiRestart, NoCall, At
<1>3. ASSUME NEW a \in Admin, AdminAct(a) PROVE SendInv'
  BY <1>0, <1>3 DEF AdminAct, Approve, RequestRead, At, Tx, TypeOK
<1>4. ASSUME NEW a \in Admin, CallStep(a) PROVE SendInv'
  <2> call[a].pc # "idle" => call[a].w \in Withdrawal /\ call[a].t \in Nat
    BY CallType
  <2>1. CASE RequestCommit(a)
    BY <1>0, <2>1 DEF RequestCommit, Create, NoCall, At, TypeOK, TxInv
  <2>2. CASE RequestAbort(a) \/ SendUncertain(a)
    BY <1>0, <2>2 DEF RequestAbort, SendUncertain, NoCall, At, TypeOK
  <2>3. CASE Claim(a)
    BY <1>0, <2>3 DEF Claim, NoCall, At, TypeOK, PayInv, RowInv, Claimed
  <2>4. CASE Send(a)
    BY <1>0, <2>4 DEF Send, At, TypeOK
  <2>5. CASE SendOk(a) \/ SendDeclined(a)
    BY <1>0, <2>5 DEF SendOk, SendDeclined, At, TypeOK
  <2>6. CASE SendMark(a)
    <3>1. /\ Sound(call[a].w, call[a].to)
          /\ call[a].to \in {"none", "SUCCESS", "FAILED"}
      BY <2>6 DEF SendMark, PayInv, CallInv, TypeOK, CallState, NoCall, At
    <3> QED BY <1>0, <2>6, <3>1 DEF SendMark, Marked, Sound, Never, NoCall, At, TypeOK
  <2> QED BY <1>4, <2>1, <2>2, <2>3, <2>4, <2>5, <2>6 DEF CallStep
<1>5. ASSUME NEW s \in Settler, SettleStep(s) PROVE SendInv'
  <2>1. CASE SettleRead(s) \/ SettleEnd(s) \/ SettleAnswer(s) \/ SettleError(s)
    BY <1>0, <2>1 DEF SettleRead, SettleEnd, SettleAnswer, SettleError
  <2>2. CASE SettleMark(s)
    <3>1. /\ Sound(settle[s].w, settle[s].to)
          /\ settle[s].to \in {"none", "SUCCESS", "FAILED"}
      BY <1>5, <2>2 DEF SettleMark, PayInv, SettleInv, TypeOK, SettleState
    <3> QED BY <1>0, <2>2, <3>1 DEF SettleMark, Marked, Sound, Never, TypeOK
  <2> QED BY <1>5, <2>1, <2>2 DEF SettleStep
<1>6. ASSUME NEW h \in Hook, NEW x \in Withdrawal, HookStart(h, x) PROVE SendInv'
  BY <1>0, <1>6 DEF HookStart
<1>7. ASSUME NEW x \in Withdrawal, Outside(x) PROVE SendInv'
  <2>1. CASE Reject(x) \/ Cancel(x) \/ Arrive(x) \/ Lose(x)
    BY <1>0, <2>1 DEF Reject, Cancel, Arrive, Lose, TypeOK
  <2>2. CASE Resolve(x)
    BY <1>0, <2>2 DEF Resolve, Unpayable, TypeOK
  <2>3. CASE Age(x)
    BY <1>0, <2>3 DEF Age
  <2>4. CASE ProviderDoubts(x) \/ ProviderPays(x) \/ ProviderFails(x)
    BY <1>0, <2>4 DEF ProviderDoubts, ProviderPays, ProviderFails, ProviderStep, TypeOK
  <2> QED BY <1>7, <2>1, <2>2, <2>3, <2>4 DEF Outside
<1> QED BY <1>1, <1>2, <1>3, <1>4, <1>5, <1>6, <1>7 DEF Next

\* A handler that does not move keeps its invariant.
LEMMA CallStays ==
    ASSUME TypeOK, TxInv, PayInv, Next, NEW b \in Admin, call'[b] = call[b],
           aged' = aged \/ (\E w \in Withdrawal : Age(w))
    PROVE  /\ (call[b].pc \in {"send", "wait", "mark"})' => (wd[call[b].w] \in Claimed)'
           /\ (call[b].pc = "wait")' => (call[b].w \notin aged)'
           /\ (call[b].pc = "mark")' => Sound(call[b].w, call[b].to)'
<1> SUFFICES ASSUME call[b].pc \in {"send", "wait", "mark"}
             PROVE  /\ wd'[call[b].w] \in Claimed
                    /\ call[b].pc = "wait" => call[b].w \notin aged'
                    /\ (call[b].pc = "mark")' => Sound(call[b].w, call[b].to)'
  BY DEF Claimed
<1>1. PICK x \in Withdrawal : x = call[b].w
  BY CallType
<1>2. wd[x] \in Claimed /\ wd'[x] \in Claimed
  BY <1>1, Final DEF PayInv, CallInv
<1>3. call[b].pc = "wait" => x \notin aged'
  BY <1>1 DEF PayInv, CallInv, Age
<1>4. PICK to : to = call[b].to
  OBVIOUS
<1>5. call[b].pc = "mark" => Sound(x, to)
  BY <1>1, <1>4 DEF PayInv, CallInv
<1>6. Sound(x, to) => Sound(x, to)'
  BY <1>2, Final DEF Sound
<1>7. call'[b].w = x /\ call'[b].to = to
  BY <1>1, <1>4
<1> QED BY <1>1, <1>2, <1>3, <1>5, <1>6, <1>7 DEF Sound, Never

\* CallInv: every step of a handler.
LEMMA CallInvStep == ASSUME TypeOK, TxInv, PayInv, Next PROVE CallInv'
<1> USE DEF rows, world
<1> DEFINE C(b) == /\ call[b].pc \in {"send", "wait", "mark"} => wd[call[b].w] \in Claimed
                   /\ call[b].pc = "wait" => call[b].w \notin aged
                   /\ call[b].pc = "mark" => Sound(call[b].w, call[b].to)
           Stays(b) == /\ call'[b] = call[b]
                       /\ aged' = aged \/ (\E w \in Withdrawal : Age(w))
<1> SUFFICES ASSUME NEW b \in Admin PROVE C(b)'
  BY DEF CallInv
<1>0. Stays(b) => C(b)'
  BY CallStays
<1>1. call'[b].pc \in {"idle", "tx", "claim"} => C(b)'
  OBVIOUS
<1>2. CASE Earn \/ PollStart
  BY <1>0, <1>2 DEF Earn, PollStart
<1>3. CASE ApiRestart
  BY <1>1, <1>3 DEF ApiRestart, NoCall, At
<1>4. ASSUME NEW a \in Admin, AdminAct(a) PROVE C(b)'
  <2>1. Stays(b) \/ call'[b].pc \in {"claim", "tx"}
    BY <1>4 DEF AdminAct, Approve, RequestRead, At, Tx, TypeOK
  <2> QED BY <1>0, <1>1, <2>1
<1>5. ASSUME NEW a \in Admin, CallStep(a) PROVE C(b)'
  <2> call[a].pc # "idle" => call[a].w \in Withdrawal /\ call[a].t \in Nat
    BY CallType
  <2>1. b # a => Stays(b)
    BY <1>5 DEF CallStep, RequestCommit, Create, RequestAbort, SendUncertain, Claim,
                Send, SendOk, SendDeclined, SendMark, TypeOK
  <2>2. CASE b = a
    <3>1. CASE RequestCommit(a) \/ RequestAbort(a) \/ SendUncertain(a) \/ SendMark(a)
      <4>1. call'[a].pc \in {"idle", "claim"}
        BY <3>1 DEF RequestCommit, Create, RequestAbort, SendUncertain, SendMark,
                    NoCall, At, TypeOK
      <4> QED BY <1>1, <2>2, <4>1
    <3>2. CASE Claim(a)
      BY <2>2, <3>2 DEF Claim, NoCall, At, TypeOK, Claimed
    <3>3. CASE Send(a)
      BY <2>2, <3>3 DEF Send, At, TypeOK, Claimed, PayInv, SendInv
    <3>4. CASE SendOk(a)
      <4>1. PICK status \in {"PENDING", prov[call[a].w]} :
                call' = [call EXCEPT ![a] = At("mark", call[a].w, Verdict(status))]
        BY <3>4 DEF SendOk
      <4>2. PICK x \in Withdrawal : x = call[a].w
        BY <3>4 DEF SendOk
      <4>3. wd[x] \in Claimed
        BY <3>4, <4>2 DEF SendOk, PayInv, CallInv
      <4>4. Sound(x, Verdict(status)) /\ prov' = prov /\ wd' = wd
        BY <3>4, <4>1, <4>2, Verdicts DEF SendOk, Sound, Never
      <4>5. PICK to : to = Verdict(status)
        OBVIOUS
      <4>6. Sound(x, to)'
        BY <4>3, <4>4, <4>5, Final DEF Sound
      <4>7. call'[a].pc = "mark" /\ call'[a].w = x /\ call'[a].to = to
        BY <4>1, <4>2, <4>5 DEF At, TypeOK
      <4> QED BY <2>2, <4>3, <4>4, <4>6, <4>7 DEF Sound, Never
    <3>5. CASE SendDeclined(a)
      <4>1. PICK x \in Withdrawal : x = call[a].w
        BY <3>5 DEF SendDeclined
      <4>2. wd[x] \in Claimed /\ prov[x] = "absent"
        BY <3>5, <4>1 DEF SendDeclined, PayInv, CallInv, RowInv
      <4>3. call'[a] = At("mark", x, "FAILED") /\ wd' = wd /\ prov' = prov
            /\ wire' = wire \ {x}
        BY <3>5, <4>1 DEF SendDeclined, TypeOK
      <4>4. \A c \in Admin : ~(call'[c].pc = "send" /\ call'[c].w = x)
        BY <3>5, <4>1 DEF SendDeclined, PayInv, SendInv, At, TypeOK
      <4>5. Never(x)'
        BY <4>2, <4>3, <4>4 DEF Never
      <4> QED BY <2>2, <4>2, <4>3, <4>5 DEF Sound, Never, At
    <3> QED BY <1>5, <3>1, <3>2, <3>3, <3>4, <3>5 DEF CallStep
  <2> QED BY <1>0, <2>1, <2>2
<1>6. ASSUME NEW s \in Settler, SettleStep(s) PROVE Stays(b)
  BY <1>6 DEF SettleStep, SettleRead, SettleEnd, SettleAnswer, SettleError, SettleMark
<1>7. ASSUME NEW h \in Hook, NEW x \in Withdrawal, HookStart(h, x) PROVE Stays(b)
  BY <1>7 DEF HookStart
<1>8. ASSUME NEW x \in Withdrawal, Outside(x) PROVE Stays(b)
  BY <1>8 DEF Outside, Reject, Cancel, Resolve, Arrive, Lose, Age, ProviderDoubts,
              ProviderPays, ProviderFails, ProviderStep
<1> QED BY <1>0, <1>2, <1>3, <1>4, <1>5, <1>6, <1>7, <1>8 DEF Next

\* SettleInv: every step of a poll, a webhook or a refresh.
LEMMA SettleInvStep == ASSUME TypeOK, TxInv, PayInv, Next PROVE SettleInv'
<1> USE DEF rows, world
<1> DEFINE S(s) == settle[s].pc \in {"ask", "mark"} =>
                       /\ settle[s].w \in Withdrawal /\ wd[settle[s].w] \in Claimed
                       /\ settle[s].pc = "mark" => Sound(settle[s].w, settle[s].to)
<1> SUFFICES ASSUME NEW s \in Settler PROVE S(s)'
  BY DEF SettleInv
<1>0. settle'[s] = settle[s] => S(s)'
  <2> SUFFICES ASSUME settle'[s] = settle[s], settle[s].pc \in {"ask", "mark"}
               PROVE  /\ settle[s].w \in Withdrawal /\ wd'[settle[s].w] \in Claimed
                      /\ settle[s].pc = "mark" => Sound(settle[s].w, settle[s].to)'
    OBVIOUS
  <2>1. PICK x \in Withdrawal : x = settle[s].w
    BY DEF PayInv, SettleInv
  <2>2. PICK to : to = settle[s].to
    OBVIOUS
  <2>3. wd[x] \in Claimed /\ (settle[s].pc = "mark" => Sound(x, to))
    BY <2>1, <2>2 DEF PayInv, SettleInv
  <2>4. wd'[x] \in Claimed /\ (Sound(x, to) => Sound(x, to)')
    BY <2>3, Final DEF Sound
  <2>5. settle'[s].w = x /\ settle'[s].to = to
    BY <2>1, <2>2
  <2> QED BY <2>1, <2>2, <2>3, <2>4, <2>5 DEF Sound, Never
<1>1. settle'[s].pc \in {"idle", "next"} => S(s)'
  OBVIOUS
<1>2. CASE Earn \/ (\E a \in Admin : AdminAct(a) \/ CallStep(a))
           \/ \E w \in Withdrawal : Outside(w)
  <2>1. settle' = settle
    BY <1>2 DEF Earn, AdminAct, Approve, RequestRead, CallStep, RequestCommit, Create,
          RequestAbort, SendUncertain, Claim, Send, SendOk, SendDeclined, SendMark,
          Outside, Reject, Cancel, Resolve, Arrive, Lose, Age, ProviderDoubts,
          ProviderPays, ProviderFails, ProviderStep
  <2> QED BY <1>0, <2>1
<1>3. CASE PollStart
  <2>1. settle'[s] = settle[s] \/ settle'[s].pc = "next"
    BY <1>3 DEF PollStart, Run, TypeOK
  <2> QED BY <1>0, <1>1, <2>1
<1>4. CASE ApiRestart
  BY <1>1, <1>4 DEF ApiRestart, NoSettle, Run
<1>5. ASSUME NEW h \in Hook, NEW x \in Withdrawal, HookStart(h, x) PROVE S(s)'
  <2>1. settle'[s] = settle[s] \/ settle'[s].pc = "next"
    BY <1>5 DEF HookStart, Run, TypeOK
  <2> QED BY <1>0, <1>1, <2>1
<1>6. ASSUME NEW r \in Settler, SettleStep(r) PROVE S(s)'
  <2>1. CASE r # s
    <3>1. settle'[s] = settle[s]
      BY <1>6, <2>1 DEF SettleStep, SettleRead, SettleEnd, SettleAnswer, SettleError,
                        SettleMark, TypeOK
    <3> QED BY <1>0, <3>1
  <2>2. CASE r = s
    <3>1. CASE SettleEnd(s) \/ SettleError(s) \/ SettleMark(s)
      <4>1. settle'[s].pc \in {"idle", "next"}
        BY <3>1 DEF SettleEnd, SettleError, SettleMark, NoSettle, Run, TypeOK
      <4> QED BY <1>1, <4>1
    <3>2. CASE SettleRead(s)
      BY <3>2 DEF SettleRead, Run, TypeOK, SettleState, Claimed
    <3>3. CASE SettleAnswer(s)
      <4>1. PICK x \in Withdrawal : x = settle[s].w
        BY <3>3 DEF SettleAnswer, PayInv, SettleInv
      <4>2. PICK to : to = IF prov[x] = "absent" THEN NotFound(x) ELSE Verdict(prov[x])
        OBVIOUS
      <4>3. wd[x] \in Claimed
        BY <3>3, <4>1 DEF SettleAnswer, PayInv, SettleInv
      <4>4. prov[x] = "absent" /\ x \in aged => Never(x)
        BY DEF Never, PayInv, RowInv, SendInv
      <4>5. Sound(x, to)
        BY <4>2, <4>4, Verdicts DEF NotFound, Sound, Never
      <4>6. wd'[x] \in Claimed /\ Sound(x, to)'
        BY <4>3, <4>5, Final DEF Sound
      <4>7. settle'[s].w = x /\ settle'[s].to = to
        BY <3>3, <4>1, <4>2 DEF SettleAnswer, Run, TypeOK
      <4> QED BY <4>6, <4>7 DEF Sound, Never
    <3> QED BY <1>6, <2>2, <3>1, <3>2, <3>3 DEF SettleStep
  <2> QED BY <2>1, <2>2
<1> QED BY <1>2, <1>3, <1>4, <1>5, <1>6 DEF Next

-----------------------------------------------------------------------------
(* The balance                                                             *)

\* Where no row is created the money on hold only shrinks.
LEMMA HoldShrinks ==
    ASSUME TypeOK, Next, \A a \in Admin : ~RequestCommit(a)
    PROVE  /\ Held' \subseteq Held /\ total' = total /\ earned <= earned'
           /\ \A w \in Withdrawal : wd'[w] = "NONE" <=> wd[w] = "NONE"
<1> DEFINE G == /\ Held' \subseteq Held /\ total' = total /\ earned <= earned'
                /\ \A w \in Withdrawal : wd'[w] = "NONE" <=> wd[w] = "NONE"
<1> USE DEF rows, Held, HOLDING
<1>1. CASE Earn \/ PollStart \/ ApiRestart
  BY <1>1 DEF Earn, PollStart, ApiRestart, TypeOK
<1>2. ASSUME NEW a \in Admin, AdminAct(a) PROVE G
  BY <1>2 DEF AdminAct, Approve, RequestRead, TypeOK
<1>3. ASSUME NEW a \in Admin, CallStep(a) PROVE G
  <2>1. CASE RequestAbort(a) \/ Send(a) \/ SendOk(a) \/ SendDeclined(a) \/ SendUncertain(a)
    BY <2>1 DEF RequestAbort, Send, SendOk, SendDeclined, SendUncertain, TypeOK
  <2>2. CASE Claim(a)
    BY <2>2 DEF Claim, TypeOK
  <2>3. CASE SendMark(a)
    <3>1. call[a].to \in {"none", "SUCCESS", "FAILED"}
      BY DEF TypeOK, CallState, NoCall, At
    <3> QED BY <2>3, <3>1 DEF SendMark, Marked, TypeOK
  <2> QED BY <1>3, <2>1, <2>2, <2>3 DEF CallStep
<1>4. ASSUME NEW s \in Settler, SettleStep(s) PROVE G
  <2>1. CASE SettleRead(s) \/ SettleEnd(s) \/ SettleAnswer(s) \/ SettleError(s)
    BY <2>1 DEF SettleRead, SettleEnd, SettleAnswer, SettleError, TypeOK
  <2>2. CASE SettleMark(s)
    <3>1. settle[s].to \in {"none", "SUCCESS", "FAILED"}
      BY <1>4 DEF TypeOK, SettleState
    <3> QED BY <2>2, <3>1 DEF SettleMark, Marked, TypeOK
  <2> QED BY <1>4, <2>1, <2>2 DEF SettleStep
<1>5. ASSUME NEW h \in Hook, NEW x \in Withdrawal, HookStart(h, x) PROVE G
  BY <1>5 DEF HookStart, TypeOK
<1>6. ASSUME NEW x \in Withdrawal, Outside(x) PROVE G
  <2>1. CASE Reject(x) \/ Cancel(x) \/ Resolve(x)
    BY <2>1 DEF Reject, Cancel, Resolve, TypeOK
  <2>2. CASE Arrive(x) \/ Lose(x) \/ Age(x) \/ ProviderDoubts(x) \/ ProviderPays(x)
             \/ ProviderFails(x)
    BY <2>2 DEF Arrive, Lose, Age, ProviderDoubts, ProviderPays, ProviderFails,
                ProviderStep, TypeOK
  <2> QED BY <1>6, <2>1, <2>2 DEF Outside
<1> QED BY <1>1, <1>2, <1>3, <1>4, <1>5, <1>6 DEF Next

\* A committed request adds its total to the money on hold.
LEMMA HoldGrows ==
    ASSUME TypeOK, TxInv, TypeOK', NEW a \in Admin, RequestCommit(a)
    PROVE  /\ Held \in SUBSET Withdrawal /\ call[a].w \in Withdrawal \ Held
           /\ Held' = Held \cup {call[a].w}
           /\ total' = [total EXCEPT ![call[a].w] = call[a].t]
           /\ earned' = earned
           /\ SumOf(Held, total) + call[a].t <= earned
           /\ SumOf(Held', total') = SumOf(Held, total) + call[a].t
<1>1. /\ a \in fresh /\ call[a].pc = "tx"
      /\ wd' = [wd EXCEPT ![call[a].w] = "REQUESTED"]
      /\ total' = [total EXCEPT ![call[a].w] = call[a].t]
      /\ earned' = earned
  BY DEF RequestCommit, Create
<1>2. call[a].w \in Withdrawal /\ wd[call[a].w] = "NONE" /\ call[a].t \in Nat
      /\ SumOf(Held, total) + call[a].t <= earned
  BY <1>1, CallType DEF TxInv
<1>3. Held \in SUBSET Withdrawal /\ call[a].w \notin Held
      /\ Held' = Held \cup {call[a].w}
  BY <1>1, <1>2 DEF Held, HOLDING, TypeOK
<1>4. \A w \in Withdrawal : total'[w] \in Nat
  BY DEF TypeOK
<1>5. total'[call[a].w] = call[a].t /\ \A w \in Held : total[w] = total'[w]
  BY <1>1, <1>2, <1>3 DEF TypeOK
<1>6. SumOf(Held \cup {call[a].w}, total') = SumOf(Held, total') + total'[call[a].w]
  BY <1>2, <1>3, <1>4, HeldNat, SumAdd
<1>7. SumOf(Held, total) = SumOf(Held, total')
  BY <1>5, SumSame
<1> QED BY <1>1, <1>2, <1>3, <1>5, <1>6, <1>7

\* NoOverdraft and TxInv: a commit is covered by what its snapshot left over.
LEMMA MoneyStep ==
    ASSUME TypeOK, NoOverdraft, TxInv, Next, TypeOK'
    PROVE  NoOverdraft' /\ TxInv'
<1>1. ASSUME NEW a \in Admin, RequestCommit(a) PROVE NoOverdraft' /\ TxInv'
  <2>1. NoOverdraft'
    BY <1>1, HoldGrows DEF NoOverdraft
  <2>2. TxInv'
    BY <1>1 DEF RequestCommit, Create, TxInv, At, NoCall, TypeOK
  <2> QED BY <2>1, <2>2
<1>2. ASSUME \A a \in Admin : ~RequestCommit(a) PROVE NoOverdraft' /\ TxInv'
  <2> DEFINE old == SumOf(Held, total)
             new == SumOf(Held', total')
  <2>1. /\ Held' \subseteq Held /\ total' = total /\ earned <= earned'
        /\ \A w \in Withdrawal : wd'[w] = "NONE" <=> wd[w] = "NONE"
    BY <1>2, HoldShrinks
  <2>2. old \in Nat /\ new \in Nat /\ new <= old
    <3>1. IsFiniteSet(Held)
      BY HeldNat
    <3>2. Held \subseteq Withdrawal /\ \A w \in Withdrawal : total[w] \in Nat
      BY DEF Held, TypeOK
    <3> QED BY <2>1, <3>1, <3>2, SumMonotone
  <2>3. old <= earned /\ earned \in Nat /\ earned' \in Nat
    BY DEF NoOverdraft, TypeOK
  <2>4. \A a \in Admin : call[a].t \in Nat
    BY DEF TypeOK, CallState, NoCall, At
  <2> HIDE DEF old, new
  <2>5. NoOverdraft'
    <3>1. new <= earned'
      BY <2>1, <2>2, <2>3
    <3> QED BY <3>1 DEF new, NoOverdraft
  <2>6. ASSUME NEW a \in Admin, call'[a].pc = "tx", call'[a] = call[a],
               a \in fresh' => a \in fresh
        PROVE  /\ wd'[call'[a].w] = "NONE" /\ call'[a].t \in Amount
               /\ a \in fresh' => new + call'[a].t <= earned'
    <3>1. call[a].w \in Withdrawal
      BY <2>6, CallType
    <3>2. wd[call[a].w] = "NONE" /\ call[a].t \in Amount
          /\ (a \in fresh => old + call[a].t <= earned)
      BY <2>6 DEF TxInv, old
    <3> QED BY <2>1, <2>2, <2>3, <2>4, <2>6, <3>1, <3>2
  <2>7. ASSUME NEW a \in Admin, NEW x \in Withdrawal, NEW t \in Amount,
               RequestRead(a, x, t)
        PROVE  TxInv'
    <3>1. Held' = Held /\ wd' = wd /\ total' = total /\ earned' = earned
      BY <2>7 DEF RequestRead, rows, Held
    <3>2. t <= earned - old /\ t \in Nat
      BY <2>2, <2>3, <2>7, WithdrawalsAssumption DEF RequestRead, Available, old
    <3>3. old + t <= earned /\ old = new
      BY <2>2, <2>3, <3>1, <3>2 DEF old, new
    <3> QED BY <2>6, <2>7, <3>1, <3>3 DEF RequestRead, TxInv, Tx, TypeOK, new
  <2>8. ASSUME \A a \in Admin : call'[a] = call[a] \/ call'[a].pc # "tx",
               fresh' \subseteq fresh
        PROVE  TxInv'
    <3>1. ASSUME NEW a \in Admin, NEW b \in Admin, call'[a].pc = "tx",
                 call'[b].pc = "tx", call'[b].w = call'[a].w
          PROVE  b = a
      BY <2>8, <3>1 DEF TxInv
    <3> QED BY <2>6, <2>8, <3>1 DEF TxInv, new
  <2>9. ASSUME NEW a \in Admin, CallStep(a) PROVE TxInv'
    <3>1. \A b \in Admin : call'[b] = call[b] \/ call'[b].pc # "tx"
      BY <1>2, <2>9 DEF CallStep, RequestAbort, SendUncertain, Claim,
                Send, SendOk, SendDeclined, SendMark, NoCall, At, TypeOK
    <3>2. fresh' \subseteq fresh
      BY <1>2, <2>9 DEF CallStep, RequestAbort, SendUncertain, Claim,
                Send, SendOk, SendDeclined, SendMark
    <3> QED BY <2>8, <3>1, <3>2
  <2>10. ASSUME NEW a \in Admin, NEW w \in Withdrawal, Approve(a, w) PROVE TxInv'
    <3>1. \A b \in Admin : call'[b] = call[b] \/ call'[b].pc # "tx"
      BY <2>10 DEF Approve, At, TypeOK
    <3> QED BY <2>8, <2>10, <3>1 DEF Approve
  <2>11. ASSUME ApiRestart PROVE TxInv'
    BY <2>8, <2>11 DEF ApiRestart, NoCall, At
  <2>12. ASSUME \/ Earn \/ PollStart \/ (\E s \in Settler : SettleStep(s))
                \/ (\E h \in Hook, w \in Withdrawal : HookStart(h, w))
                \/ \E w \in Withdrawal : Outside(w)
         PROVE  TxInv'
    <3>1. call' = call /\ fresh' = fresh
      BY <2>12 DEF Earn, PollStart, SettleStep, SettleRead, SettleEnd, SettleAnswer,
            SettleError, SettleMark, HookStart, Outside, Reject, Cancel, Resolve,
            Arrive, Lose, Age, ProviderDoubts, ProviderPays, ProviderFails, ProviderStep
    <3> QED BY <2>8, <3>1
  <2>13. TxInv'
    BY <2>7, <2>9, <2>10, <2>11, <2>12 DEF Next, AdminAct
  <2> QED BY <2>5, <2>13
<1> QED BY <1>1, <1>2

-----------------------------------------------------------------------------
(* The theorems                                                            *)

LEMMA IInvInit == Init => IInv
<1> SUFFICES ASSUME Init PROVE IInv
  OBVIOUS
<1>1. TypeOK
  BY TypeInit
<1>2. SumOf(Held, total) = 0
  <2>1. Held = {}
    BY DEF Init, Held, HOLDING
  <2>2. Coins(Held, total) = {}
    BY <2>1 DEF Coins
  <2> QED BY <2>2, FS_EmptySet DEF SumOf
<1>3. NoOverdraft
  BY <1>2 DEF Init, NoOverdraft
<1>4. TxInv /\ PayInv
  BY DEF Init, TxInv, PayInv, RowInv, SendInv, CallInv, SettleInv, NoCall, NoSettle,
         At, Run, Claimed
<1> QED BY <1>1, <1>3, <1>4 DEF IInv

LEMMA IInvStep == IInv /\ [Next]_vars => IInv'
<1> SUFFICES ASSUME IInv, [Next]_vars PROVE IInv'
  OBVIOUS
<1> USE DEF IInv
<1>1. CASE Next
  BY <1>1, TypeStep, MoneyStep, RowStep, SendStep, CallInvStep, SettleInvStep DEF PayInv
<1>2. CASE UNCHANGED vars
  BY <1>2 DEF vars, rows, world, TypeOK, NoOverdraft, Held, TxInv, PayInv, RowInv, SendInv,
              CallInv, SettleInv, Sound, Never
<1> QED BY <1>1, <1>2

\* The inductive invariant of the withdrawals holds in every reachable state.
THEOREM Invariance == Spec => []IInv
BY IInvInit, IInvStep, PTL DEF Spec

\* Every row, handler and record keeps its shape.
THEOREM TypeCorrect == Spec => []TypeOK
<1>1. IInv => TypeOK
  BY DEF IInv
<1> QED BY <1>1, Invariance, PTL

\* Concurrent requests never hold or pay out more than was earned
\* (withdrawals.service.ts:163).
THEOREM BalanceKept == Spec => []NoOverdraft
<1>1. IInv => NoOverdraft
  BY DEF IInv
<1> QED BY <1>1, Invariance, PTL

\* No withdrawal is sent to Ssentezo twice (withdrawals.service.ts:279, 312).
THEOREM NeverResent == Spec => []SentOnce
<1>1. IInv => SentOnce
  BY DEF IInv, PayInv, RowInv, SentOnce
<1> QED BY <1>1, Invariance, PTL

\* What Ssentezo paid, or may still pay, stays out of the balance.
THEOREM PaidIsHeld == Spec => []PaidStaysHeld
<1>1. IInv => PaidStaysHeld
  BY DEF IInv, TypeOK, HOLDING, PayInv, RowInv, Claimed, Never, PaidStaysHeld
<1> QED BY <1>1, Invariance, PTL

\* A withdrawal shown as paid out was paid out.
THEOREM ShownPaidIsPaid == Spec => []SuccessIsPaid
<1>1. IInv => SuccessIsPaid
  BY DEF IInv, PayInv, RowInv, SuccessIsPaid
<1> QED BY <1>1, Invariance, PTL

-----------------------------------------------------------------------------
(* Refinement                                                              *)

AbstractMoney == [w \in Withdrawal |-> Money(w)]

\* The abstract specification holds against the balance what the code does.
LEMMA CommittedIsHeld ==
    ASSUME IInv
    PROVE  /\ PayoutSpec!Committed = Held
           /\ PayoutSpec!SumOf(PayoutSpec!Committed, total) = SumOf(Held, total)
<1>1. \A w \in Withdrawal : Money(w) \in {"held", "paid"} <=> wd[w] \in HOLDING
  BY DEF IInv, PayInv, RowInv, Claimed, Never, Money, HOLDING, TypeOK
<1>2. PayoutSpec!Committed = Held
  BY <1>1 DEF PayoutSpec!Committed, Held
<1>3. PayoutSpec!SumOf(Held, total) = SumOf(Held, total)
  BY DEF PayoutSpec!SumOf, PayoutSpec!Coins, PayoutSpec!Cardinality, SumOf, Coins,
         Cardinality
<1> QED BY <1>2, <1>3

\* A step that changes the money of one withdrawal.
LEMMA MoneyMoves ==
    ASSUME NEW w \in Withdrawal, NEW m, Money(w)' = m,
           \A x \in Withdrawal \ {w} : Money(x)' = Money(x)
    PROVE  AbstractMoney' = [AbstractMoney EXCEPT ![w] = m]
BY DEF AbstractMoney

\* Steps that move no money.
LEMMA Stutter ==
    ASSUME wd' = wd, total' = total, earned' = earned, prov' = prov
    PROVE  UNCHANGED PayoutSpec!vars
BY DEF PayoutSpec!vars, Money

\* markFailed of a payout Ssentezo never made releases the money; markSucceeded
\* of one it made changes nothing.
LEMMA MarkRefines ==
    ASSUME IInv, NEW w \in Withdrawal, NEW to \in {"none", "SUCCESS", "FAILED"},
           Sound(w, to), Marked(w, to), total' = total, earned' = earned, prov' = prov
    PROVE  PayoutSpec!Release(w) \/ UNCHANGED PayoutSpec!vars
<1>1. CASE wd' = wd
  BY <1>1, Stutter
<1>2. CASE to = "FAILED" /\ wd[w] = "PROCESSING" /\ wd' = [wd EXCEPT ![w] = to]
  <2>1. prov[w] # "SUCCEEDED"
    BY <1>2 DEF Sound, Never
  <2>2. Money(w) = "held"
    BY <1>2, <2>1 DEF Money
  <2>3. Money(w)' = "released" /\ \A x \in Withdrawal \ {w} : Money(x)' = Money(x)
    BY <1>2, <2>1 DEF Money, IInv, TypeOK
  <2>4. AbstractMoney' = [AbstractMoney EXCEPT ![w] = "released"]
    BY <2>3, MoneyMoves
  <2> QED BY <2>2, <2>4 DEF PayoutSpec!Release, AbstractMoney
<1>3. CASE to = "SUCCESS" /\ wd[w] = "PROCESSING" /\ wd' = [wd EXCEPT ![w] = to]
  <2>1. prov[w] = "SUCCEEDED"
    BY <1>3 DEF Sound
  <2>2. AbstractMoney' = AbstractMoney
    BY <1>3, <2>1 DEF AbstractMoney, Money, IInv, TypeOK
  <2> QED BY <2>2 DEF PayoutSpec!vars, AbstractMoney
<1> QED BY <1>1, <1>2, <1>3 DEF Marked

\* Every step holds, pays or releases one withdrawal, or does none of these.
LEMMA StepRefines == IInv /\ [Next]_vars => [PayoutSpec!Next]_PayoutSpec!vars
<1> SUFFICES ASSUME IInv, Next PROVE PayoutSpec!Next \/ UNCHANGED PayoutSpec!vars
  BY Stutter DEF vars, rows, world
<1> DEFINE G == PayoutSpec!Next \/ UNCHANGED PayoutSpec!vars
<1> USE DEF rows, world
<1>1. CASE Earn
  BY <1>1 DEF Earn, PayoutSpec!Next, PayoutSpec!Earn, Money, IInv, TypeOK
<1>2. CASE PollStart \/ ApiRestart
  BY <1>2, Stutter DEF PollStart, ApiRestart
<1>3. ASSUME NEW a \in Admin, AdminAct(a) PROVE G
  BY <1>3, Stutter DEF AdminAct, Approve, RequestRead
<1>4. ASSUME NEW a \in Admin, CallStep(a) PROVE G
  <2>1. CASE RequestCommit(a)
    <3>1. PICK w \in Withdrawal, t \in Amount : w = call[a].w /\ t = call[a].t
      BY <2>1, CallType DEF RequestCommit, Create, IInv, TxInv
    <3>2. /\ total' = [total EXCEPT ![w] = t] /\ earned' = earned
          /\ SumOf(Held, total) + t <= earned
      BY <2>1, <3>1, HoldGrows, TypeStep DEF IInv
    <3>3. /\ wd[w] = "NONE" /\ wd' = [wd EXCEPT ![w] = "REQUESTED"]
          /\ prov' = prov /\ prov[w] = "absent"
      BY <2>1, <3>1 DEF RequestCommit, Create, IInv, TxInv, PayInv, RowInv, Claimed
    <3>4. Money(w) = "none"
      BY <3>3 DEF Money
    <3>5. Money(w)' = "held" /\ \A x \in Withdrawal \ {w} : Money(x)' = Money(x)
      BY <3>3 DEF Money, IInv, TypeOK
    <3>6. AbstractMoney' = [AbstractMoney EXCEPT ![w] = "held"]
      BY <3>5, MoneyMoves
    <3>7. PayoutSpec!Hold(w)
      BY <3>2, <3>4, <3>6, CommittedIsHeld DEF PayoutSpec!Hold, AbstractMoney
    <3> QED BY <3>7 DEF PayoutSpec!Next
  <2>2. CASE RequestAbort(a) \/ Send(a) \/ SendOk(a) \/ SendDeclined(a) \/ SendUncertain(a)
    BY <2>2, Stutter DEF RequestAbort, Send, SendOk, SendDeclined, SendUncertain
  <2>3. CASE Claim(a)
    <3>1. CASE wd' = wd
      BY <2>3, <3>1, Stutter DEF Claim
    <3>2. CASE wd' = [wd EXCEPT ![call[a].w] = "PROCESSING"]
               /\ wd[call[a].w] = "REQUESTED"
      BY <2>3, <3>2 DEF Claim, Money, PayoutSpec!vars, IInv, TypeOK
    <3> QED BY <2>3, <3>1, <3>2 DEF Claim
  <2>4. CASE SendMark(a)
    <3>1. /\ call[a].w \in Withdrawal /\ Sound(call[a].w, call[a].to)
          /\ call[a].to \in {"none", "SUCCESS", "FAILED"}
      BY <2>4 DEF SendMark, IInv, PayInv, CallInv, TypeOK, CallState, NoCall, At
    <3>2. /\ Marked(call[a].w, call[a].to) /\ total' = total /\ earned' = earned
          /\ prov' = prov
      BY <2>4 DEF SendMark
    <3> QED BY <3>1, <3>2, MarkRefines DEF PayoutSpec!Next
  <2> QED BY <1>4, <2>1, <2>2, <2>3, <2>4 DEF CallStep
<1>5. ASSUME NEW s \in Settler, SettleStep(s) PROVE G
  <2>1. CASE SettleRead(s) \/ SettleEnd(s) \/ SettleAnswer(s) \/ SettleError(s)
    BY <2>1, Stutter DEF SettleRead, SettleEnd, SettleAnswer, SettleError
  <2>2. CASE SettleMark(s)
    <3>1. /\ settle[s].w \in Withdrawal /\ Sound(settle[s].w, settle[s].to)
          /\ settle[s].to \in {"none", "SUCCESS", "FAILED"}
      BY <1>5, <2>2 DEF SettleMark, IInv, PayInv, SettleInv, TypeOK, SettleState
    <3>2. /\ Marked(settle[s].w, settle[s].to) /\ total' = total /\ earned' = earned
          /\ prov' = prov
      BY <2>2 DEF SettleMark
    <3> QED BY <3>1, <3>2, MarkRefines DEF PayoutSpec!Next
  <2> QED BY <1>5, <2>1, <2>2 DEF SettleStep
<1>6. ASSUME NEW h \in Hook, NEW x \in Withdrawal, HookStart(h, x) PROVE G
  BY <1>6, Stutter DEF HookStart
<1>7. ASSUME NEW w \in Withdrawal, Outside(w) PROVE G
  <2>0. /\ prov[w] = "absent" /\ w \in aged => Never(w)
        /\ wd[w] \notin Claimed => prov[w] = "absent"
        /\ prov[w] \in {"PENDING", "INDETERMINATE"} => wd[w] = "PROCESSING"
    BY DEF IInv, PayInv, RowInv, SendInv, Never, Claimed, TypeOK, HOLDING
  <2>1. CASE Reject(w) \/ Cancel(w)
    <3>1. Money(w) = "held" /\ Money(w)' = "released"
          /\ \A x \in Withdrawal \ {w} : Money(x)' = Money(x)
      BY <2>0, <2>1 DEF Reject, Cancel, Money, IInv, TypeOK, Claimed
    <3>2. AbstractMoney' = [AbstractMoney EXCEPT ![w] = "released"]
      BY <3>1, MoneyMoves
    <3>3. total' = total /\ earned' = earned
      BY <2>1 DEF Reject, Cancel
    <3> QED BY <3>1, <3>2, <3>3 DEF PayoutSpec!Next, PayoutSpec!Release, AbstractMoney
  <2>2. CASE Resolve(w)
    <3>1. PICK to \in {"SUCCESS", "FAILED"} : Sound(w, to) /\ Marked(w, to)
      BY <2>0, <2>2 DEF Resolve, Unpayable, Sound, Never, Marked
    <3>2. total' = total /\ earned' = earned /\ prov' = prov
      BY <2>2 DEF Resolve
    <3> QED BY <3>1, <3>2, MarkRefines DEF PayoutSpec!Next
  <2>3. CASE Lose(w) \/ Age(w)
    BY <2>3, Stutter DEF Lose, Age
  <2>4. CASE Arrive(w) \/ ProviderDoubts(w) \/ ProviderFails(w)
    <3>1. UNCHANGED <<wd, total, earned>>
          /\ \A x \in Withdrawal : prov'[x] = "SUCCEEDED" <=> prov[x] = "SUCCEEDED"
      BY <2>4 DEF Arrive, ProviderDoubts, ProviderFails, ProviderStep, IInv, TypeOK
    <3> QED BY <3>1 DEF Money, PayoutSpec!vars
  <2>5. CASE ProviderPays(w)
    <3>1. Money(w) = "held" /\ Money(w)' = "paid"
          /\ \A x \in Withdrawal \ {w} : Money(x)' = Money(x)
      BY <2>0, <2>5 DEF ProviderPays, ProviderStep, Money, IInv, TypeOK
    <3>2. AbstractMoney' = [AbstractMoney EXCEPT ![w] = "paid"]
      BY <3>1, MoneyMoves
    <3>3. total' = total /\ earned' = earned
      BY <2>5 DEF ProviderPays, ProviderStep
    <3> QED BY <3>1, <3>2, <3>3 DEF PayoutSpec!Next, PayoutSpec!Pay, AbstractMoney
  <2> QED BY <1>7, <2>1, <2>2, <2>3, <2>4, <2>5 DEF Outside
<1> QED BY <1>1, <1>2, <1>3, <1>4, <1>5, <1>6, <1>7 DEF Next

\* The withdrawals keep the promise of Payout: held, then paid or released and
\* never both, and never more than was earned.
THEOREM Refinement == Spec => ImplementsPayout
<1>1. Init => PayoutSpec!Init
  BY DEF Init, PayoutSpec!Init, Money
<1> QED BY <1>1, StepRefines, Invariance, PTL
        DEF Spec, ImplementsPayout, PayoutSpec!Spec

=============================================================================
