------------------------------ MODULE Payments ------------------------------
(***************************************************************************)
(* Buying a voucher with mobile money (payments.service.ts): the deposit   *)
(* request and its uncertain answers, and the poll and the webhooks that   *)
(* reconcile it with Ssentezo, issue the voucher and text its code.  One   *)
(* step per awaited call or transaction.                                   *)
(***************************************************************************)
EXTENDS Naturals, FiniteSets

CONSTANTS
    Payment,      \* the rows that may be created
    Hook,         \* webhook handlers that may run at once
    Batch,        \* `take` of pollPending
    Lossy,        \* those whose deposit request may be lost, or get an answer
                  \* that is a 5xx, unreadable or lost
    MaxRestarts,  \* bound on crashes of the API
    Null

ASSUME PaymentsAssumption ==
    /\ IsFiniteSet(Payment) /\ Null \notin Payment
    /\ "poll" \notin Hook
    /\ Lossy \subseteq Payment
    /\ Batch \in Nat \ {0} /\ MaxRestarts \in Nat

VARIABLES
    status,   \* Payment.status; "NONE" before the row exists
    issued,   \* voucher rows committed for each payment
    texted,   \* ghost: times the code was sent to the customer
    buy,      \* step of each payment's initiate handler
    rec,      \* the runs of reconcile(): the poll's and the hooks'
    wire,     \* deposit requests on their way to Ssentezo
    prov,     \* Ssentezo's record of the deposit
    aged,     \* rows created more than POLL_STALE_AFTER_MS ago
    restarts

vars == <<status, issued, texted, buy, rec, wire, prov, aged, restarts>>

Reconciler == {"poll"} \cup Hook

\* A run of reconcile at step pc for p, with the payments still due.
Run(pc, due, p) == [pc |-> pc, due |-> due, p |-> p]
NoRun == Run("idle", {}, Null)

Init ==
    /\ status = [p \in Payment |-> "NONE"]
    /\ issued = [p \in Payment |-> 0]
    /\ texted = [p \in Payment |-> 0]
    /\ buy = [p \in Payment |-> "idle"]
    /\ rec = [s \in Reconciler |-> NoRun]
    /\ wire = {}
    /\ prov = [p \in Payment |-> "absent"]
    /\ aged = {}
    /\ restarts = 0

-----------------------------------------------------------------------------
(* initiate                                                                *)

Buying(p, from, to) ==
    /\ buy[p] = from
    /\ buy' = [buy EXCEPT ![p] = to]

Initiate(p) ==
    /\ status[p] = "NONE"
    /\ Buying(p, "idle", "send")
    /\ status' = [status EXCEPT ![p] = "PENDING"]
    /\ UNCHANGED <<issued, texted, rec, wire, prov, aged, restarts>>

\* gateway.initiateDeposit
Deposit(p) ==
    /\ Buying(p, "send", "wait")
    /\ wire' = wire \cup {p}
    /\ UNCHANGED <<status, issued, texted, rec, prov, aged, restarts>>

\* Mutant: the PENDING of a request just registered is not an OK.
AnswerNotOk(p) ==
    /\ prov[p] # "absent" /\ Buying(p, "wait", "fail")
    /\ UNCHANGED <<status, issued, texted, rec, wire, prov, aged, restarts>>

\* 200/202 OK: registered.
AnswerOk(p) ==
    /\ prov[p] # "absent" /\ Buying(p, "wait", "save")
    /\ UNCHANGED <<status, issued, texted, rec, wire, prov, aged, restarts>>

\* Refused: Ssentezo did not take the request.
AnswerRefused(p) ==
    /\ p \in wire /\ Buying(p, "wait", "fail")
    /\ wire' = wire \ {p}
    /\ UNCHANGED <<status, issued, texted, rec, prov, aged, restarts>>

\* Timed out, 5xx or unreadable: treated like a refusal.
AnswerLost(p) ==
    /\ p \in Lossy /\ Buying(p, "wait", "fail")
    /\ UNCHANGED <<status, issued, texted, rec, wire, prov, aged, restarts>>

\* The update is by id alone.
InitiateFailed(p) ==
    /\ Buying(p, "fail", "done")
    /\ status' = [status EXCEPT ![p] = "FAILED"]
    /\ UNCHANGED <<issued, texted, rec, wire, prov, aged, restarts>>

\* Mutant: Ssentezo's status is saved as the payment's.
StatusSaved(p) ==
    /\ Buying(p, "save", "done")
    /\ status' = [status EXCEPT ![p] = prov[p]]
    /\ UNCHANGED <<issued, texted, rec, wire, prov, aged, restarts>>

\* providerRef is saved.
InitiateSaved(p) ==
    /\ Buying(p, "save", "done")
    /\ UNCHANGED <<status, issued, texted, rec, wire, prov, aged, restarts>>

-----------------------------------------------------------------------------
(* pollPending, handleWebhook and reconcile                                *)

\* Up to Batch PENDING rows, in no order; a young one may be left out, a full
\* batch may leave out any.
PollStart ==
    LET pending == {p \in Payment : status[p] = "PENDING"} IN
    /\ rec["poll"].pc = "idle"
    /\ \E due \in SUBSET pending :
        /\ due # {}
        /\ pending \cap aged \subseteq due \/ Cardinality(due) = Batch
        /\ Cardinality(due) <= Batch
        /\ rec' = [rec EXCEPT !["poll"] = Run("next", due, Null)]
    /\ UNCHANGED <<status, issued, texted, buy, wire, prov, aged, restarts>>

\* The callback names any reference at any time.
Webhook(h, p) ==
    /\ rec[h].pc = "idle" /\ status[p] # "NONE"
    /\ rec' = [rec EXCEPT ![h] = Run("next", {p}, Null)]
    /\ UNCHANGED <<status, issued, texted, buy, wire, prov, aged, restarts>>

\* On to a step for the same payment, or to the next payment.
Goto(s, pc) == rec' = [rec EXCEPT ![s].pc = pc]
GoOn(s)     == rec' = [rec EXCEPT ![s] = Run("next", @.due, Null)]

RecRead(s) ==
    /\ rec[s].pc = "next"
    /\ \E p \in rec[s].due :
        rec' = [rec EXCEPT ![s] =
            IF status[p] = "PENDING" THEN Run("ask", @.due \ {p}, p)
            ELSE Run("next", @.due \ {p}, Null)]
    /\ UNCHANGED <<status, issued, texted, buy, wire, prov, aged, restarts>>

RecEnd(s) ==
    /\ rec[s].pc = "next" /\ rec[s].due = {}
    /\ rec' = [rec EXCEPT ![s] = NoRun]
    /\ UNCHANGED <<status, issued, texted, buy, wire, prov, aged, restarts>>

\* Mutant: an INDETERMINATE deposit counts as paid.
HopefulOutcome(answer) ==
    CASE answer \in {"SUCCEEDED", "INDETERMINATE"} -> "issue"
      [] answer = "FAILED" -> "fail"
      [] OTHER -> "next"

\* What Ssentezo's answer makes reconcile do.
Outcome(answer) ==
    CASE answer = "SUCCEEDED" -> "issue"
      [] answer = "FAILED" -> "fail"
      [] OTHER -> "next"

\* getStatus answers; a reference it does not know is a failed check.
RecAnswer(s) ==
    /\ rec[s].pc = "ask"
    /\ LET to == Outcome(prov[rec[s].p]) IN
        IF to = "next" THEN GoOn(s) ELSE Goto(s, to)
    /\ UNCHANGED <<status, issued, texted, buy, wire, prov, aged, restarts>>

RecError(s) ==
    /\ rec[s].pc = "ask"
    /\ GoOn(s)
    /\ UNCHANGED <<status, issued, texted, buy, wire, prov, aged, restarts>>

\* FAILED where still PENDING.
RecFail(s) ==
    LET p == rec[s].p IN
    /\ rec[s].pc = "fail"
    /\ status' = IF status[p] = "PENDING" THEN [status EXCEPT ![p] = "FAILED"]
                 ELSE status
    /\ GoOn(s)
    /\ UNCHANGED <<issued, texted, buy, wire, prov, aged, restarts>>

\* Mutant: issue the voucher without claiming the payment.
IssueUnclaimed(s) ==
    LET p == rec[s].p IN
    /\ rec[s].pc = "issue"
    /\ status' = [status EXCEPT ![p] = "SUCCESS"]
    /\ issued' = [issued EXCEPT ![p] = @ + 1]
    /\ Goto(s, "login")
    /\ UNCHANGED <<texted, buy, wire, prov, aged, restarts>>

\* Mutant: the voucher is issued in a transaction of its own.
ClaimThenIssue(s) ==
    LET p == rec[s].p IN
    /\ rec[s].pc = "issue"
    /\ status' = [status EXCEPT ![p] = "SUCCESS"]
    /\ GoOn(s)
    /\ UNCHANGED <<issued, texted, buy, wire, prov, aged, restarts>>

\* One transaction: create the voucher and claim the payment if it is still
\* PENDING; otherwise all of it is rolled back.
RecIssue(s) ==
    LET p == rec[s].p IN
    /\ rec[s].pc = "issue"
    /\ IF status[p] = "PENDING"
       THEN /\ status' = [status EXCEPT ![p] = "SUCCESS"]
            /\ issued' = [issued EXCEPT ![p] = @ + 1]
            /\ Goto(s, "login")
       ELSE GoOn(s) /\ UNCHANGED <<status, issued>>
    /\ UNCHANGED <<texted, buy, wire, prov, aged, restarts>>

\* autoLogin of the paying device (Vouchers), whose errors are only logged.
RecLogin(s) ==
    /\ rec[s].pc = "login"
    /\ Goto(s, "text")
    /\ UNCHANGED <<status, issued, texted, buy, wire, prov, aged, restarts>>

\* messenger.send
RecText(s) ==
    /\ rec[s].pc = "text"
    /\ texted' = [texted EXCEPT ![rec[s].p] = @ + 1]
    /\ GoOn(s)
    /\ UNCHANGED <<status, issued, buy, wire, prov, aged, restarts>>

-----------------------------------------------------------------------------
(* Ssentezo, the customer, the network and time (external)                 *)

Arrive(p) ==
    /\ p \in wire
    /\ wire' = wire \ {p}
    /\ prov' = [prov EXCEPT ![p] = IF @ = "absent" THEN "PENDING" ELSE @]
    /\ UNCHANGED <<status, issued, texted, buy, rec, aged, restarts>>

\* A request that never arrives is never answered OK.
Lose(p) ==
    /\ p \in Lossy \cap wire
    /\ wire' = wire \ {p}
    /\ UNCHANGED <<status, issued, texted, buy, rec, prov, aged, restarts>>

\* SUCCEEDED and FAILED are final.
ProviderStep(p, from, to) ==
    /\ prov[p] \in from
    /\ prov' = [prov EXCEPT ![p] = to]
    /\ UNCHANGED <<status, issued, texted, buy, rec, wire, aged, restarts>>

ProviderDoubts(p) == ProviderStep(p, {"PENDING"}, "INDETERMINATE")
CustomerPays(p)   == ProviderStep(p, {"PENDING", "INDETERMINATE"}, "SUCCEEDED")
CustomerFails(p)  == ProviderStep(p, {"PENDING", "INDETERMINATE"}, "FAILED")

\* POLL_STALE_AFTER_MS since createdAt.
Age(p) ==
    /\ status[p] # "NONE" /\ p \notin aged
    /\ aged' = aged \cup {p}
    /\ UNCHANGED <<status, issued, texted, buy, rec, wire, prov, restarts>>

\* Every handler under way is gone.
ApiRestart ==
    /\ restarts < MaxRestarts
    /\ restarts' = restarts + 1
    /\ buy' = [p \in Payment |-> IF buy[p] = "idle" THEN "idle" ELSE "done"]
    /\ rec' = [s \in Reconciler |-> NoRun]
    /\ UNCHANGED <<status, issued, texted, wire, prov, aged>>

-----------------------------------------------------------------------------
BuyStep(p) ==
    \/ Deposit(p) \/ AnswerOk(p) \/ AnswerRefused(p) \/ AnswerLost(p)
    \/ InitiateFailed(p) \/ InitiateSaved(p)

RecStep(s) ==
    \/ RecRead(s) \/ RecEnd(s) \/ RecAnswer(s) \/ RecError(s)
    \/ RecFail(s) \/ RecIssue(s) \/ RecLogin(s) \/ RecText(s)

Outside(p) ==
    \/ Initiate(p) \/ Arrive(p) \/ Lose(p) \/ Age(p)
    \/ ProviderDoubts(p) \/ CustomerPays(p) \/ CustomerFails(p)

Next ==
    \/ PollStart \/ ApiRestart
    \/ \E p \in Payment : Outside(p) \/ BuyStep(p)
    \/ \E s \in Reconciler : RecStep(s)
    \/ \E h \in Hook, p \in Payment : Webhook(h, p)

Spec == Init /\ [][Next]_vars

\* Handlers run on, the cron fires every 30 s, time passes, Ssentezo answers
\* when it is asked about a payment again and again and ends every deposit (a
\* PIN prompt nobody answers fails); webhooks are under no obligation.
Fairness ==
    /\ \A p \in Payment :
        /\ WF_vars(BuyStep(p)) /\ WF_vars(Age(p))
        /\ WF_vars(Arrive(p) \/ Lose(p))
        /\ WF_vars(CustomerPays(p) \/ CustomerFails(p))
        /\ SF_vars(rec["poll"].p = p /\ RecAnswer("poll"))
    /\ WF_vars(PollStart) /\ WF_vars(RecStep("poll"))

FairSpec == Spec /\ Fairness

-----------------------------------------------------------------------------
(* What must hold                                                          *)

RunState ==
    [pc : {"idle", "next", "ask", "fail", "issue", "login", "text"},
     due : SUBSET Payment, p : Payment \cup {Null}]

\* Every row, handler and record keeps its shape.
TypeOK ==
    /\ status \in [Payment -> {"NONE", "PENDING", "SUCCESS", "FAILED"}]
    /\ issued \in [Payment -> Nat]
    /\ texted \in [Payment -> Nat]
    /\ buy \in [Payment -> {"idle", "send", "wait", "fail", "save", "done"}]
    /\ rec \in [Reconciler -> RunState]
    /\ wire \in SUBSET Payment
    /\ prov \in [Payment -> {"absent", "PENDING", "INDETERMINATE",
                             "SUCCEEDED", "FAILED"}]
    /\ aged \in SUBSET Payment
    /\ restarts \in Nat

\* However the poll and the webhooks interleave, a payment yields one voucher
\* at most, and its code is texted at most once.
IssuedOnce == \A p \in Payment : texted[p] <= issued[p] /\ issued[p] <= 1

\* A voucher is issued only for money that Ssentezo has received.
VoucherIsPaid == \A p \in Payment : issued[p] > 0 => prov[p] = "SUCCEEDED"

\* A sale that yielded a voucher counts as revenue: its row says SUCCESS, and
\* no other row does (withdrawals.service.ts:105 sums the SUCCESS rows) - as
\* long as the deposit request is answered.
SaleIsBooked ==
    \A p \in Payment \ Lossy : issued[p] > 0 <=> status[p] = "SUCCESS"

\* When the deposit request is answered, polling alone finds the payment once
\* it went through, and the customer gets the voucher, after a crash too.
PaidGetsVoucher ==
    \A p \in Payment \ Lossy : prov[p] = "SUCCEEDED" ~> issued[p] > 0

\* README.md:100, payments.service.ts:121: polling finds every payment that
\* went through, whatever became of the answer to the deposit request.
PollFindsEveryPayment == \A p \in Payment : prov[p] = "SUCCEEDED" ~> issued[p] > 0
=============================================================================
