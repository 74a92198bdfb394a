------------------------------- MODULE Portal -------------------------------
(* The captive-portal page of one device (apps/portal) with the proxy on    *)
(* the gateway that adds the device's MAC (portal-proxy.ts), what the API   *)
(* answers (portal.controller.ts, portal.service.ts), and the recovery of a *)
(* lost voucher code.  What redeem and autoLogin do in detail is module     *)
(* Vouchers, what payments go through module Payments.                      *)
EXTENDS Naturals, FiniteSets, Option

CONSTANTS Purchase,      \* payments the page may start
          Tick,          \* calls of the polling timer that may overlap
          Asking,        \* recovery requests under way
          Proving,       \* recovery confirmations under way
          MaxCodes,      \* recovery codes sent
          MaxForms,      \* forms that wait for a call at once
          MaxHiccups,    \* calls that fail
          MaxLoads,      \* times the page is opened
          MaxForgets     \* restarts of the API

ASSUME PortalAssumption ==
    None \notin Purchase /\ {MaxCodes, MaxForms, MaxHiccups, MaxLoads, MaxForgets} \subseteq Nat

VARIABLES view,       \* "closed", "loading", "app" or "online"
          packages,   \* the package list: "none", "loading", "shown" or "failed"
          timer,      \* the payment the timer polls, or None
          poll,       \* the timer's calls: [pc, pay]
          busy,       \* forms whose call is under way
          payment,    \* [status, named, voucher]: named when the device is known
          covered,   \* whether autoLogin finds something for the device
          hiccups, loads,
          slipped,    \* the page stopped polling and something failed after that
          challenge,  \* the code a confirmation must match, 0 for none
          resend,     \* whether the 60 s since the last code are over
          codes,      \* codes sent
          asking,     \* requestRecovery: "idle", "decide" or "send"
          proving,    \* confirmRecovery: [pc, code]
          valid,      \* whether the customer has a voucher to recover
          opened,     \* how often each code opened a voucher
          forgets
pageVars == <<view, packages, timer, poll, busy, payment, covered, hiccups, loads, slipped>>
codeVars == <<challenge, resend, codes, asking, proving, valid, opened, forgets>>
portalVars == <<pageVars, codeVars>>

Unpaid == [status |-> None, named |-> FALSE, voucher |-> FALSE]
NoPoll == [pc |-> "idle", pay |-> None]
NoProof == [pc |-> "idle", code |-> 0]

PortalInit ==
    /\ view = "closed" /\ packages = "none" /\ timer = None
    /\ poll = [k \in Tick |-> NoPoll] /\ busy = {}
    /\ payment = [p \in Purchase |-> Unpaid] /\ covered \in BOOLEAN
    /\ hiccups = 0 /\ loads = 0 /\ slipped = FALSE
    /\ challenge = 0 /\ resend = TRUE /\ codes = 0
    /\ asking = [a \in Asking |-> "idle"] /\ proving = [a \in Proving |-> NoProof]
    /\ valid = TRUE /\ opened = [n \in 1..MaxCodes |-> 0] /\ forgets = 0

-----------------------------------------------------------------------------
\* Calls of the page.  Each goes through the proxy, which identifies the device
\* by its neighbour entry, to the API.

\* No answer, or 503 because the API does not answer the proxy.
Fails == hiccups < MaxHiccups /\ hiccups' = hiccups + 1
Works == UNCHANGED hiccups

\* GET /portal/status: autoLogin admits a device that is entitled.  A device
\* the proxy cannot identify is told no without a call.
StatusSays(yes) == (Works /\ yes = covered) \/ (Fails /\ ~yes)
\* ... and names a payment of this device that is pending.
Pending == {p \in Purchase : payment[p].status = "PENDING" /\ payment[p].named}

\* GET /portal/packages.
PackagesSay(ok) == (Works /\ ok) \/ (Fails /\ ~ok)

\* deviceFor: whether the proxy finds the neighbour entry of the caller.
DeviceFor == BOOLEAN

\* POST /portal/pay: the payment exists even if the answer gets lost; without a
\* neighbour entry it does not name the device.
Paid(p, ok) ==
    /\ \E named \in DeviceFor :
         payment' = [payment EXCEPT ![p] = [status |-> "PENDING", named |-> named, voucher |-> FALSE]]
    /\ (Works /\ ok) \/ (Fails /\ ~ok)

\* GET /portal/pay/:id/status; the page treats SUCCESS without a code as pending.
PayStatus(p, says) ==
    /\ Works
    /\ says = IF payment[p].status = "SUCCESS" /\ ~payment[p].voucher THEN "PENDING" ELSE payment[p].status

\* POST /portal/redeem for a code, which may be refused.
Redeemed(ok) == Works /\ covered' = (covered \/ ok)

-----------------------------------------------------------------------------
\* The page

\* showConnected replaces the forms, whatever they were waiting for.
ShowConnected(yes) == view' = IF yes THEN "online" ELSE view

OpenPage ==
    /\ view = "closed" /\ loads < MaxLoads
    /\ loads' = loads + 1 /\ view' = "loading" /\ packages' = "none"
    /\ UNCHANGED <<timer, poll, busy, payment, covered, hiccups, slipped, codeVars>>
\* The customer leaves; timers and calls go with the page.
ClosePage ==
    /\ view # "closed" /\ view' = "closed"
    /\ timer' = None /\ poll' = [k \in Tick |-> NoPoll] /\ busy' = {}
    /\ UNCHANGED <<packages, payment, covered, hiccups, loads, slipped, codeVars>>

\* init: online at once, or the forms, the packages, and polling for a
\* payment of this device that is pending.  checkStatus gives up after six
\* attempts and the forms are shown then.
ShowForms(pays) ==
    /\ view' = "app" /\ packages' = "loading"
    /\ IF pays = {} THEN UNCHANGED timer ELSE timer' \in pays
InitPage ==
    /\ view = "loading"
    /\ \/ StatusSays(TRUE) /\ view' = "online" /\ UNCHANGED <<packages, timer>>
       \/ Works /\ ~covered /\ ShowForms(Pending)
       \/ Fails /\ ShowForms({})
    /\ UNCHANGED <<poll, busy, payment, covered, loads, slipped, codeVars>>
PackagesKnown ==
    /\ packages = "loading"
    /\ \E ok \in BOOLEAN : PackagesSay(ok) /\ packages' = IF ok THEN "shown" ELSE "failed"
    /\ UNCHANGED <<view, timer, poll, busy, payment, covered, loads, slipped, codeVars>>

\* The forms; each is disabled while its call is under way (the recovery form
\* is not, but pressing it twice does what pressing it again does).
Submit(form) ==
    /\ form \notin busy /\ Cardinality(busy) < MaxForms
    /\ busy' = busy \cup {form}
    /\ view = (IF form = "reconnect" THEN "online" ELSE "app")
    /\ form = "pay" => packages = "shown"
    /\ UNCHANGED <<view, packages, timer, poll, payment, covered, hiccups, loads, slipped, codeVars>>
Done(form) == form \in busy /\ busy' = busy \ {form}

\* pollPayment replaces the timer.
Paying(p) ==
    /\ Done("pay") /\ payment[p] = Unpaid /\ p = CHOOSE q \in Purchase : payment[q] = Unpaid
    /\ \E ok \in BOOLEAN : Paid(p, ok) /\ timer' = IF ok THEN p ELSE timer
    /\ UNCHANGED <<view, packages, poll, covered, loads, slipped, codeVars>>
\* A code the customer typed, or one that confirmRecovery returned to the
\* recovery form, which goes on like the code form.
CodeTried ==
    /\ Done("code")
    /\ \E ok \in BOOLEAN : Redeemed(ok) /\ ShowConnected(ok)
    /\ UNCHANGED <<packages, timer, poll, payment, loads, slipped, codeVars>>
\* Back to the forms when the package has ended.
Reconnected ==
    /\ Done("reconnect")
    /\ \E yes \in BOOLEAN : StatusSays(yes) /\ view' = IF yes THEN "online" ELSE "app"
    /\ UNCHANGED <<packages, timer, poll, payment, covered, loads, slipped, codeVars>>
FormFails(form) ==
    /\ Done(form) /\ Fails
    /\ UNCHANGED <<view, packages, timer, poll, payment, covered, loads, slipped, codeVars>>

-----------------------------------------------------------------------------
\* pollPayment: every three seconds a call, whether or not the last one is
\* back.  clearInterval stops the timer there is, also that of a later payment.

PollStart(k) ==
    /\ timer # None /\ poll[k].pc = "idle" /\ k = CHOOSE i \in Tick : poll[i].pc = "idle"
    /\ poll' = [poll EXCEPT ![k] = [pc |-> "asked", pay |-> timer]]
    /\ UNCHANGED <<view, packages, timer, busy, payment, covered, hiccups, loads, slipped, codeVars>>
ClearTimer(k) == timer' = None /\ slipped' = (slipped \/ timer \notin {poll[k].pay, None})
PollAnswered(k, says) ==
    /\ poll[k].pc = "asked" /\ PayStatus(poll[k].pay, says)
    /\ poll' = [poll EXCEPT ![k] = IF says = "SUCCESS" THEN [@ EXCEPT !.pc = "status"] ELSE NoPoll]
    /\ IF says = "PENDING" THEN UNCHANGED <<timer, slipped>> ELSE ClearTimer(k)
    /\ UNCHANGED <<view, packages, busy, payment, covered, loads, codeVars>>
\* Mutant: a device that is not logged in yet is left to the next poll, which
\* the timer that was cleared does not make.
PollStatusOnly(k) ==
    /\ poll[k].pc = "status"
    /\ \E yes \in BOOLEAN : StatusSays(yes) /\ ShowConnected(yes)
    /\ poll' = [poll EXCEPT ![k] = NoPoll]
    /\ UNCHANGED <<packages, timer, busy, payment, covered, loads, slipped, codeVars>>

\* The code is redeemed only if the server has not logged the device in.
PollStatus(k) ==
    /\ poll[k].pc = "status"
    /\ \E yes \in BOOLEAN :
         /\ StatusSays(yes)
         /\ ShowConnected(yes)
         /\ poll' = [poll EXCEPT ![k] = IF yes THEN NoPoll ELSE [@ EXCEPT !.pc = "redeem"]]
    /\ UNCHANGED <<packages, timer, busy, payment, covered, loads, slipped, codeVars>>
PollRedeem(k) ==
    /\ poll[k].pc = "redeem"
    /\ \E ok \in BOOLEAN : /\ Redeemed(ok)
                           /\ ShowConnected(ok)
                           /\ slipped' = (slipped \/ ~ok)
    /\ poll' = [poll EXCEPT ![k] = NoPoll]
    /\ UNCHANGED <<packages, timer, busy, payment, loads, codeVars>>
\* "transient network hiccup - keep polling silently"
PollFails(k) ==
    /\ poll[k].pc \in {"asked", "redeem"} /\ Fails
    /\ slipped' = (slipped \/ poll[k].pc = "redeem")
    /\ poll' = [poll EXCEPT ![k] = NoPoll]
    /\ UNCHANGED <<view, packages, timer, busy, payment, covered, loads, codeVars>>

\* The payment is decided; then the voucher is issued and the device logged in.
Decide(p, outcome) ==
    /\ payment[p].status = "PENDING"
    /\ payment' = [payment EXCEPT ![p].status = outcome]
    /\ UNCHANGED <<view, packages, timer, poll, busy, covered, hiccups, loads, slipped, codeVars>>
IssueVoucher(p) ==
    /\ payment[p].status = "SUCCESS" /\ ~payment[p].voucher
    /\ payment' = [payment EXCEPT ![p].voucher = TRUE]
    /\ covered' = (covered \/ payment[p].named)
    /\ UNCHANGED <<view, packages, timer, poll, busy, hiccups, loads, slipped, codeVars>>
PackageEnds ==
    /\ covered /\ covered' = FALSE
    /\ UNCHANGED <<view, packages, timer, poll, busy, payment, hiccups, loads, slipped, codeVars>>

PollStep(k) == \/ PollStart(k) \/ PollStatus(k) \/ PollRedeem(k) \/ PollFails(k)
               \/ \E says \in {"PENDING", "SUCCESS", "FAILED"} : PollAnswered(k, says)
PageNext ==
    \/ OpenPage \/ ClosePage \/ InitPage \/ PackagesKnown \/ PackageEnds
    \/ \E form \in {"pay", "code", "reconnect"} : Submit(form) \/ FormFails(form)
    \/ CodeTried \/ Reconnected
    \/ \E p \in Purchase : Paying(p) \/ (\E o \in {"SUCCESS", "FAILED"} : Decide(p, o)) \/ IssueVoucher(p)
    \/ \E k \in Tick : PollStep(k)

-----------------------------------------------------------------------------
\* Recovery

\* requestRecovery has found the customer and a voucher: the rest up to the
\* message is one step.
RecoveryAsked(a) ==
    /\ asking[a] = "idle" /\ valid
    /\ asking' = [asking EXCEPT ![a] = "decide"]
    /\ UNCHANGED <<pageVars, challenge, resend, codes, proving, valid, opened, forgets>>
RecoveryDecides(a) ==
    /\ asking[a] = "decide"
    /\ IF resend /\ codes < MaxCodes
       THEN /\ codes' = codes + 1 /\ challenge' = codes' /\ resend' = FALSE
            /\ asking' = [asking EXCEPT ![a] = "send"]
       ELSE /\ asking' = [asking EXCEPT ![a] = "idle"]
            /\ UNCHANGED <<codes, challenge, resend>>
    /\ UNCHANGED <<pageVars, proving, valid, opened, forgets>>
RecoverySent(a) ==
    /\ asking[a] = "send"
    /\ asking' = [asking EXCEPT ![a] = "idle"]
    /\ UNCHANGED <<pageVars, challenge, resend, codes, proving, valid, opened, forgets>>

\* confirmRecovery: the customer is looked up, the code checked and used up,
\* then a voucher is looked for.
CodeTyped(a, n) ==
    /\ proving[a].pc = "idle" /\ n \in 1..codes
    /\ proving' = [proving EXCEPT ![a] = [pc |-> "check", code |-> n]]
    /\ UNCHANGED <<pageVars, challenge, resend, codes, asking, valid, opened, forgets>>
\* Mutant: a code that was right stays valid.
CodeKept(a) ==
    /\ proving[a].pc = "check"
    /\ proving' = [proving EXCEPT ![a] = IF challenge = @.code THEN [@ EXCEPT !.pc = "voucher"] ELSE NoProof]
    /\ UNCHANGED <<pageVars, challenge, resend, codes, asking, valid, opened, forgets>>

CodeChecked(a) ==
    /\ proving[a].pc = "check"
    /\ IF challenge = proving[a].code
       THEN /\ challenge' = 0
            /\ proving' = [proving EXCEPT ![a].pc = "voucher"]
       ELSE /\ proving' = [proving EXCEPT ![a] = NoProof]
            /\ UNCHANGED challenge
    /\ UNCHANGED <<pageVars, resend, codes, asking, valid, opened, forgets>>
CodeOpens(a) ==
    /\ proving[a].pc = "voucher"
    /\ opened' = IF valid THEN [opened EXCEPT ![proving[a].code] = @ + 1] ELSE opened
    /\ proving' = [proving EXCEPT ![a] = NoProof]
    /\ UNCHANGED <<pageVars, challenge, resend, codes, asking, valid, forgets>>

\* A minute, and five minutes, after the code was set.
ResendAllowed ==
    /\ ~resend /\ resend' = TRUE
    /\ UNCHANGED <<pageVars, challenge, codes, asking, proving, valid, opened, forgets>>
CodeExpires ==
    /\ challenge # 0 /\ resend /\ challenge' = 0
    /\ UNCHANGED <<pageVars, resend, codes, asking, proving, valid, opened, forgets>>
VoucherTurns ==
    /\ valid' = ~valid
    /\ UNCHANGED <<pageVars, challenge, resend, codes, asking, proving, opened, forgets>>
\* The challenges are in memory only.
ApiForgets ==
    /\ forgets < MaxForgets /\ forgets' = forgets + 1
    /\ challenge' = 0 /\ resend' = TRUE
    /\ asking' = [a \in Asking |-> "idle"] /\ proving' = [a \in Proving |-> NoProof]
    /\ UNCHANGED <<pageVars, codes, valid, opened>>

RecoveryNext ==
    \/ \E a \in Asking : RecoveryAsked(a) \/ RecoveryDecides(a) \/ RecoverySent(a)
    \/ \E a \in Proving : (\E n \in 1..MaxCodes : CodeTyped(a, n)) \/ CodeChecked(a) \/ CodeOpens(a)
    \/ ResendAllowed \/ CodeExpires \/ VoucherTurns \/ ApiForgets
PortalNext == PageNext \/ RecoveryNext
PortalSpec == PortalInit /\ [][PortalNext]_portalVars
-----------------------------------------------------------------------------
PortalTypeOK ==
    /\ view \in {"closed", "loading", "app", "online"}
    /\ packages \in {"none", "loading", "shown", "failed"}
    /\ timer \in Maybe(Purchase) /\ busy \subseteq {"pay", "code", "reconnect"}
    /\ poll \in [Tick -> [pc : {"idle", "asked", "status", "redeem"}, pay : Maybe(Purchase)]]
    /\ payment \in [Purchase -> [status : Maybe({"PENDING", "SUCCESS", "FAILED"}),
                                 named : BOOLEAN, voucher : BOOLEAN]]
    /\ {covered, slipped, resend, valid} \subseteq BOOLEAN
    /\ challenge \in 0..codes /\ codes \in 0..MaxCodes
    /\ asking \in [Asking -> {"idle", "decide", "send"}]
    /\ proving \in [Proving -> [pc : {"idle", "check", "voucher"}, code : 0..codes]]
    /\ opened \in [1..MaxCodes -> Nat]

\* A recovery code sent to a phone opens a voucher at most once, whoever types
\* it at the same time, however often new codes are asked for and whenever the
\* API restarts: confirmRecovery uses the code up before its first await after
\* the check.
CodeOpensOnce == \A n \in 1..MaxCodes : opened[n] <= 1

\* While the page polls for a payment whose voucher exists, it ends up online
\* or closed, unless it polls for another payment by then that has none, or
\* something failed after it had stopped polling.
PaidIsShown ==
    (timer # None /\ payment[timer].voucher)
      ~> (view # "app" \/ slipped \/ (timer # None /\ ~payment[timer].voucher))
=============================================================================
