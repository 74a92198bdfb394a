---------------------------- MODULE Withdrawals ----------------------------
(***************************************************************************)
(* Paying the hotspot's mobile-money earnings out through Ssentezo         *)
(* (withdrawals.service.ts): the request and its Serializable transaction, *)
(* approval, the payout call with its uncertain outcomes, and the poller,  *)
(* webhooks and manual checks that settle it.  One step per awaited call;  *)
(* the amount of a withdrawal stands for amountUgx + feeUgx.               *)
(***************************************************************************)
EXTENDS Coins

CONSTANTS
    Withdrawal,   \* the rows that may be created
    Admin,        \* admins, each with at most one request under way
    SuperAdmin,   \* those whose role is SUPER_ADMIN
    Hook,         \* webhook and refresh handlers that may run at once
    Amount,       \* totals an admin may ask for
    Batch,        \* `take` of pollProcessing
    MaxEarned,    \* bound on the sales
    MaxRestarts,  \* bound on crashes of the API
    Null

ASSUME WithdrawalsAssumption ==
    /\ IsFiniteSet(Withdrawal) /\ Null \notin Withdrawal
    /\ SuperAdmin \subseteq Admin
    /\ "poll" \notin Hook
    /\ Amount \subseteq Nat
    /\ Batch \in Nat \ {0} /\ MaxEarned \in Nat /\ MaxRestarts \in Nat

VARIABLES
    wd,       \* Withdrawal.status; "NONE" before the row exists
    total,    \* amountUgx + feeUgx of each row
    earned,   \* SUM of the SUCCESS payments
    call,     \* the admins' request and approve handlers
    fresh,    \* admins whose open transaction no commit has made stale
    settle,   \* the runs of settle(): the poll's and the hooks'
    wire,     \* payout requests on their way to Ssentezo
    prov,     \* Ssentezo's record of the payout
    aged,     \* rows whose sentAt is more than five minutes old
    sends,    \* ghost: payout requests sent for each row
    restarts

rows  == <<wd, total, earned>>
world == <<wire, prov, aged, sends>>
vars  == <<rows, call, fresh, settle, world, restarts>>

Settler == {"poll"} \cup Hook
HOLDING == {"REQUESTED", "PROCESSING", "SUCCESS"}

Held == {w \in Withdrawal : wd[w] \in HOLDING}

\* balance().availableUgx
Available ==
    LET left == earned - SumOf(Held, total) IN IF left > 0 THEN left ELSE 0

\* A handler in the request transaction, or at step pc for w with the status
\* `to` to write; a run of settle() with the rows still due.
Tx(w, t)       == [pc |-> "tx", w |-> w, t |-> t, to |-> "none"]
At(pc, w, to)  == [pc |-> pc, w |-> w, t |-> 0, to |-> to]
Run(pc, due, w, to) == [pc |-> pc, due |-> due, w |-> w, to |-> to]
NoCall   == At("idle", Null, "none")
NoSettle == Run("idle", {}, Null, "none")

Init ==
    /\ wd = [w \in Withdrawal |-> "NONE"]
    /\ total = [w \in Withdrawal |-> 0]
    /\ earned = 0
    /\ call = [a \in Admin |-> NoCall]
    /\ fresh = {}
    /\ settle = [s \in Settler |-> NoSettle]
    /\ wire = {}
    /\ prov = [w \in Withdrawal |-> "absent"]
    /\ aged = {}
    /\ sends = [w \in Withdrawal |-> 0]
    /\ restarts = 0

-----------------------------------------------------------------------------
(* request                                                                 *)

\* A mobile-money sale succeeds (payments.service.ts).
Earn ==
    /\ earned < MaxEarned
    /\ earned' = earned + 1
    /\ UNCHANGED <<wd, total, call, fresh, settle, world, restarts>>

\* The transaction's snapshot and its check of the balance.
RequestRead(a, w, t) ==
    /\ call[a].pc = "idle" /\ wd[w] = "NONE"
    /\ \A b \in Admin : ~(call[b].pc = "tx" /\ call[b].w = w)
    /\ t <= Available
    /\ call' = [call EXCEPT ![a] = Tx(w, t)]
    /\ fresh' = fresh \cup {a}
    /\ UNCHANGED <<rows, settle, world, restarts>>

\* The row is created; a super admin then approves their own request.
Create(a) ==
    /\ call[a].pc = "tx"
    /\ wd' = [wd EXCEPT ![call[a].w] = "REQUESTED"]
    /\ total' = [total EXCEPT ![call[a].w] = call[a].t]
    /\ call' = [call EXCEPT ![a] = IF a \in SuperAdmin
                                  THEN At("claim", call[a].w, "none") ELSE NoCall]
    /\ fresh' = {}
    /\ UNCHANGED <<earned, settle, world, restarts>>

\* Mutant: READ COMMITTED, which sees no conflict.
CommitAnyway(a) == Create(a)

\* Serializable: a commit makes the snapshots the others hold stale.
RequestCommit(a) == a \in fresh /\ Create(a)

\* P2034, or any other failure of the transaction.
RequestAbort(a) ==
    /\ call[a].pc = "tx"
    /\ call' = [call EXCEPT ![a] = NoCall]
    /\ fresh' = fresh \ {a}
    /\ UNCHANGED <<rows, settle, world, restarts>>

-----------------------------------------------------------------------------
(* approve, reject, cancel, resolve                                        *)

\* An admin may approve from a stale page, whatever the status is now.
Approve(a, w) ==
    /\ a \in SuperAdmin /\ call[a].pc = "idle" /\ wd[w] # "NONE"
    /\ call' = [call EXCEPT ![a] = At("claim", w, "none")]
    /\ UNCHANGED <<rows, fresh, settle, world, restarts>>

\* reject and cancel: one conditional update each.
Reject(w) ==
    /\ wd[w] = "REQUESTED"
    /\ wd' = [wd EXCEPT ![w] = "REJECTED"]
    /\ UNCHANGED <<total, earned, call, fresh, settle, world, restarts>>

Cancel(w) ==
    /\ wd[w] = "REQUESTED"
    /\ wd' = [wd EXCEPT ![w] = "CANCELLED"]
    /\ UNCHANGED <<total, earned, call, fresh, settle, world, restarts>>

\* Ssentezo will never pay w: it refused it, or never got the request.
Unpayable(w) ==
    \/ prov[w] = "FAILED"
    \/ prov[w] = "absent" /\ w \in aged

\* resolve: the super admin records the outcome seen on Ssentezo's dashboard.
Resolve(w) ==
    /\ wd[w] = "PROCESSING"
    /\ \/ prov[w] = "SUCCEEDED" /\ wd' = [wd EXCEPT ![w] = "SUCCESS"]
       \/ Unpayable(w) /\ wd' = [wd EXCEPT ![w] = "FAILED"]
    /\ UNCHANGED <<total, earned, call, fresh, settle, world, restarts>>

-----------------------------------------------------------------------------
(* send                                                                    *)

\* Mutant: the claim does not look at the status.
ClaimAnyway(a) ==
    /\ call[a].pc = "claim"
    /\ wd' = [wd EXCEPT ![call[a].w] = "PROCESSING"]
    /\ call' = [call EXCEPT ![a] = At("send", call[a].w, "none")]
    /\ UNCHANGED <<total, earned, fresh, settle, world, restarts>>

\* The atomic claim; whoever loses it is told so.
Claim(a) ==
    /\ call[a].pc = "claim"
    /\ IF wd[call[a].w] = "REQUESTED"
       THEN /\ wd' = [wd EXCEPT ![call[a].w] = "PROCESSING"]
            /\ call' = [call EXCEPT ![a] = At("send", call[a].w, "none")]
       ELSE /\ call' = [call EXCEPT ![a] = NoCall]
            /\ UNCHANGED wd
    /\ UNCHANGED <<total, earned, fresh, settle, world, restarts>>

\* gateway.initiateWithdrawal puts the request on the wire.
Send(a) ==
    /\ call[a].pc = "send"
    /\ wire' = wire \cup {call[a].w}
    /\ sends' = [sends EXCEPT ![call[a].w] = @ + 1]
    /\ call' = [call EXCEPT ![a] = At("wait", call[a].w, "none")]
    /\ UNCHANGED <<rows, fresh, settle, prov, aged, restarts>>

\* Mutant: a payout the network is unsure of counts as made.
HopefulVerdict(status) ==
    CASE status \in {"SUCCEEDED", "INDETERMINATE"} -> "SUCCESS"
      [] status = "FAILED" -> "FAILED"
      [] OTHER -> "none"

\* What a provider status makes of the withdrawal.
Verdict(status) ==
    CASE status = "SUCCEEDED" -> "SUCCESS"
      [] status = "FAILED" -> "FAILED"
      [] OTHER -> "none"

\* 200/202 OK: the status at registration or since.
SendOk(a) ==
    LET w == call[a].w IN
    /\ call[a].pc = "wait" /\ prov[w] # "absent"
    /\ \E status \in {"PENDING", prov[w]} :
        call' = [call EXCEPT ![a] = At("mark", w, Verdict(status))]
    /\ UNCHANGED <<rows, fresh, settle, world, restarts>>

\* An answer below 500 that is not OK: Ssentezo did not take the request.
SendDeclined(a) ==
    LET w == call[a].w IN
    /\ call[a].pc = "wait" /\ w \in wire
    /\ wire' = wire \ {w}
    /\ call' = [call EXCEPT ![a] = At("mark", call[a].w, "FAILED")]
    /\ UNCHANGED <<rows, fresh, settle, prov, aged, sends, restarts>>

\* Mutant: a lost answer is taken for a refusal.
UncertainFails(a) ==
    /\ call[a].pc = "wait"
    /\ call' = [call EXCEPT ![a] = At("mark", call[a].w, "FAILED")]
    /\ UNCHANGED <<rows, fresh, settle, world, restarts>>

\* 5xx, timeout, unreadable answer: leave it PROCESSING, never resend.
SendUncertain(a) ==
    /\ call[a].pc = "wait"
    /\ call' = [call EXCEPT ![a] = NoCall]
    /\ UNCHANGED <<rows, fresh, settle, world, restarts>>

\* Mutant: a status that decides nothing is written too.
MarkedBlindly(w, to) ==
    wd' = IF wd[w] = "PROCESSING" THEN [wd EXCEPT ![w] = to] ELSE wd

\* markSucceeded and markFailed: where the status is still PROCESSING.
Marked(w, to) ==
    wd' = IF to # "none" /\ wd[w] = "PROCESSING"
          THEN [wd EXCEPT ![w] = to] ELSE wd

SendMark(a) ==
    /\ call[a].pc = "mark"
    /\ Marked(call[a].w, call[a].to)
    /\ call' = [call EXCEPT ![a] = NoCall]
    /\ UNCHANGED <<total, earned, fresh, settle, world, restarts>>

-----------------------------------------------------------------------------
(* settle                                                                  *)

\* pollProcessing takes up to Batch rows that are PROCESSING, in no order; one
\* sent less than 15 s ago may be left out, a full batch may leave out any.
PollStart ==
    LET processing == {w \in Withdrawal : wd[w] = "PROCESSING"} IN
    /\ settle["poll"].pc = "idle"
    /\ \E due \in SUBSET processing :
        /\ due # {}
        /\ processing \cap aged \subseteq due \/ Cardinality(due) = Batch
        /\ Cardinality(due) <= Batch
        /\ settle' = [settle EXCEPT !["poll"] =
                        Run("next", due, Null, "none")]
    /\ UNCHANGED <<rows, call, fresh, world, restarts>>

\* A callback from Ssentezo, or an admin's refresh.
HookStart(h, w) ==
    /\ settle[h].pc = "idle" /\ wd[w] # "NONE"
    /\ settle' = [settle EXCEPT ![h] =
                    Run("next", {w}, Null, "none")]
    /\ UNCHANGED <<rows, call, fresh, world, restarts>>

\* settle reads the row and goes on only if it is PROCESSING.
SettleRead(s) ==
    /\ settle[s].pc = "next"
    /\ \E w \in settle[s].due :
        settle' = [settle EXCEPT ![s] =
            IF wd[w] = "PROCESSING"
            THEN Run("ask", settle[s].due \ {w}, w, "none")
            ELSE Run("next", settle[s].due \ {w}, Null, "none")]
    /\ UNCHANGED <<rows, call, fresh, world, restarts>>

SettleEnd(s) ==
    /\ settle[s].pc = "next" /\ settle[s].due = {}
    /\ settle' = [settle EXCEPT ![s] = NoSettle]
    /\ UNCHANGED <<rows, call, fresh, world, restarts>>

\* Mutant: "not found" releases the hold at any age.
NotFoundFails(w) == "FAILED"

\* Mutant: "not found" never releases it.
NotFoundWaits(w) == "none"

\* No record of it: the request never landed, if it is old enough.
NotFound(w) == IF w \in aged THEN "FAILED" ELSE "none"

\* getStatus answers.
SettleAnswer(s) ==
    LET w == settle[s].w IN
    /\ settle[s].pc = "ask"
    /\ settle' = [settle EXCEPT ![s] = Run("mark", settle[s].due, w,
          IF prov[w] = "absent" THEN NotFound(w) ELSE Verdict(prov[w]))]
    /\ UNCHANGED <<rows, call, fresh, world, restarts>>

\* getStatus fails otherwise: try again later.
SettleError(s) ==
    /\ settle[s].pc = "ask"
    /\ settle' = [settle EXCEPT ![s] = Run("next", settle[s].due, Null, "none")]
    /\ UNCHANGED <<rows, call, fresh, world, restarts>>

SettleMark(s) ==
    /\ settle[s].pc = "mark"
    /\ Marked(settle[s].w, settle[s].to)
    /\ settle' = [settle EXCEPT ![s] = Run("next", settle[s].due, Null, "none")]
    /\ UNCHANGED <<total, earned, call, fresh, world, restarts>>

-----------------------------------------------------------------------------
(* Ssentezo, the network and time (external)                               *)

Arrive(w) ==
    /\ w \in wire
    /\ wire' = wire \ {w}
    /\ prov' = [prov EXCEPT ![w] = IF @ = "absent" THEN "PENDING" ELSE @]
    /\ UNCHANGED <<rows, call, fresh, settle, aged, sends, restarts>>

Lose(w) ==
    /\ w \in wire
    /\ wire' = wire \ {w}
    /\ UNCHANGED <<rows, call, fresh, settle, prov, aged, sends, restarts>>

\* SUCCEEDED and FAILED are final; INDETERMINATE is not.
ProviderStep(w, from, to) ==
    /\ prov[w] \in from
    /\ prov' = [prov EXCEPT ![w] = to]
    /\ UNCHANGED <<rows, call, fresh, settle, wire, aged, sends, restarts>>

ProviderDoubts(w) == ProviderStep(w, {"PENDING"}, "INDETERMINATE")
ProviderPays(w)   == ProviderStep(w, {"PENDING", "INDETERMINATE"}, "SUCCEEDED")
ProviderFails(w)  == ProviderStep(w, {"PENDING", "INDETERMINATE"}, "FAILED")

\* Five minutes since sentAt. The HTTP client gives up after 15 s and
\* repeats only what never left the box, so the request has landed or is lost.
Age(w) ==
    /\ wd[w] = "PROCESSING" /\ w \notin aged /\ w \notin wire
    /\ \A a \in Admin : ~(call[a].w = w /\ call[a].pc \in {"send", "wait"})
    /\ aged' = aged \cup {w}
    /\ UNCHANGED <<rows, call, fresh, settle, wire, prov, sends, restarts>>

ApiRestart ==
    /\ restarts < MaxRestarts
    /\ restarts' = restarts + 1
    /\ call' = [a \in Admin |-> NoCall]
    /\ fresh' = {}
    /\ settle' = [s \in Settler |-> NoSettle]
    /\ UNCHANGED <<rows, world>>

-----------------------------------------------------------------------------
CallStep(a) ==
    \/ RequestCommit(a) \/ RequestAbort(a) \/ Claim(a) \/ Send(a)
    \/ SendOk(a) \/ SendDeclined(a) \/ SendUncertain(a) \/ SendMark(a)

SettleStep(s) ==
    \/ SettleRead(s) \/ SettleEnd(s) \/ SettleAnswer(s) \/ SettleError(s)
    \/ SettleMark(s)

AdminAct(a) == \E w \in Withdrawal : \/ Approve(a, w)
                                     \/ \E t \in Amount : RequestRead(a, w, t)

Outside(w) ==
    \/ Reject(w) \/ Cancel(w) \/ Resolve(w)
    \/ Arrive(w) \/ Lose(w) \/ Age(w)
    \/ ProviderDoubts(w) \/ ProviderPays(w) \/ ProviderFails(w)

Next ==
    \/ Earn \/ PollStart \/ ApiRestart
    \/ \E a \in Admin : AdminAct(a) \/ CallStep(a)
    \/ \E s \in Settler : SettleStep(s)
    \/ \E h \in Hook, w \in Withdrawal : HookStart(h, w)
    \/ \E w \in Withdrawal : Outside(w)

Spec == Init /\ [][Next]_vars

\* Handlers run on, the cron fires every 30 s, HTTP requests land or are lost,
\* five minutes pass, Ssentezo decides in the end and, asked again and again,
\* answers; admins are under no obligation.
Fairness ==
    /\ \A a \in Admin : WF_vars(CallStep(a))
    /\ WF_vars(PollStart) /\ WF_vars(SettleStep("poll"))
    /\ SF_vars(SettleAnswer("poll"))
    /\ \A w \in Withdrawal :
        /\ WF_vars(Arrive(w) \/ Lose(w)) /\ WF_vars(Age(w))
        /\ WF_vars(ProviderPays(w) \/ ProviderFails(w))

FairSpec == Spec /\ Fairness

-----------------------------------------------------------------------------
(* What must hold                                                          *)

CallState ==
    {NoCall} \cup
    [pc : {"tx", "claim", "send", "wait", "mark"},
     w : Withdrawal, t : Nat, to : {"none", "SUCCESS", "FAILED"}]
SettleState ==
    [pc : {"idle", "next", "ask", "mark"}, due : SUBSET Withdrawal,
     w : Withdrawal \cup {Null}, to : {"none", "SUCCESS", "FAILED"}]

\* Every row, handler and record keeps its shape.
TypeOK ==
    /\ wd \in [Withdrawal -> HOLDING \cup {"NONE", "FAILED", "REJECTED",
                                           "CANCELLED"}]
    /\ total \in [Withdrawal -> Nat]
    /\ earned \in Nat
    /\ call \in [Admin -> CallState]
    /\ fresh \in SUBSET Admin
    /\ settle \in [Settler -> SettleState]
    /\ wire \in SUBSET Withdrawal
    /\ prov \in [Withdrawal -> {"absent", "PENDING", "INDETERMINATE",
                                "SUCCEEDED", "FAILED"}]
    /\ aged \in SUBSET Withdrawal
    /\ sends \in [Withdrawal -> Nat]
    /\ restarts \in Nat

\* withdrawals.service.ts:163: two simultaneous requests cannot both spend the
\* same balance: what is held or paid out never exceeds what was earned.
NoOverdraft == SumOf(Held, total) <= earned

\* withdrawals.service.ts:279, 312: a double click or two admins never pay
\* twice, and an uncertain payout is never resent.
SentOnce == \A w \in Withdrawal : sends[w] <= 1

\* Money that left, or may still leave, the wallet stays out of the balance.
PaidStaysHeld ==
    \A w \in Withdrawal :
        (w \in wire \/ prov[w] \in {"PENDING", "INDETERMINATE", "SUCCEEDED"})
            => wd[w] \in {"PROCESSING", "SUCCESS"}

\* What the admin sees as paid out was paid out.
SuccessIsPaid ==
    \A w \in Withdrawal : wd[w] = "SUCCESS" => prov[w] = "SUCCEEDED"

\* Every payout is settled in the end, after lost answers and crashes too.
Settled ==
    \A w \in Withdrawal : wd[w] = "PROCESSING" ~> wd[w] \in {"SUCCESS", "FAILED"}

\* The abstract money of a withdrawal: paid from the moment Ssentezo paid it.
Money(w) ==
    CASE wd[w] = "NONE" -> "none"
      [] prov[w] = "SUCCEEDED" -> "paid"
      [] wd[w] \in {"FAILED", "REJECTED", "CANCELLED"} -> "released"
      [] OTHER -> "held"

PayoutSpec == INSTANCE Payout WITH money <- [w \in Withdrawal |-> Money(w)]

\* Withdrawals implements Payout: held, then paid or released, never both.
ImplementsPayout == PayoutSpec!Spec
=============================================================================
