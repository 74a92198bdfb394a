------------------------------ MODULE Vouchers ------------------------------
(***************************************************************************)
(* Captive-portal entitlement: vouchers, the devices (MACs) bound to them, *)
(* their sessions, and who the network-agent currently lets through.       *)
(*                                                                         *)
(* One step per awaited call: between two awaits of a NestJS handler every *)
(* other handler, the admin, the expiry cron and the agent may run.  A     *)
(* request handler works from the snapshot it read first (lines 121-124 of *)
(* vouchers.service.ts), kept in rq[r].                                    *)
(***************************************************************************)
EXTENDS Naturals, FiniteSets

CONSTANTS
    Voucher,      \* voucher rows that may come to exist
    Mac,          \* device MAC addresses
    Request,      \* the requests that reach the API, in any order and at once
    Null,
    FreeVoucher,  \* the vouchers only freeConnect creates (FREE_LAUNCH_LABEL)
    Timed,        \* vouchers whose package has a durationMinutes
    Capped,       \* vouchers whose package has a dataCapMb
    Limit,        \* package.deviceLimit of each voucher
    MaxAtOnce,    \* bound on the requests being handled at the same time
    Payer,        \* the MAC of the SUCCESS payment a voucher was issued for
    SameName,     \* pairs of MACs announcing the same non-generic hostname
    Typed,        \* vouchers whose code customers type in
    Kinds,        \* the other entry points called: "auto", "free"
    AdminOps,     \* admin operations used: "suspend", "block", "unblock"
    Loops,        \* periodic work of the instance: "cron" (expireOverdue), "sync"
                  \* (the agent's), "traffic" (usage reports and idle devices)
    MaxRestarts   \* bound on crashes of the API and of the agent together

ASSUME VouchersAssumption ==
    /\ Null \notin Voucher /\ Null \notin Mac
    /\ IsFiniteSet(Voucher) /\ IsFiniteSet(Mac)
    /\ {FreeVoucher, Typed, Timed} \subseteq SUBSET Voucher
    /\ Capped \subseteq Voucher
    /\ Limit \in [Voucher -> Nat \ {0}]
    /\ Payer \in [Voucher -> Mac \cup {Null}]
    /\ SameName \subseteq Mac \X Mac
    /\ MaxRestarts \in Nat /\ MaxAtOnce \in Nat

VARIABLES
    status,    \* Voucher.status; "NONE" before the row is created
    deadline,  \* Voucher.expiresAt relative to now: "none", "ahead", "past"
    spent,     \* vouchers whose dataUsedMb has reached the cap
    rows,      \* the MACs that have a Device row on each voucher
    released,  \* those with releasedAt set
    blocked,   \* those with isBlocked set
    idle,      \* those not seen for DEVICE_SLOT_STALE_MS
    open,      \* number of Session rows with endedAt = null, per device
    rq,        \* the running request handlers
    job,       \* the admin's operation and the cron's pass
    online,    \* at the agent: the voucher each MAC was let through on
    sync,      \* the agent's pass over /active-sessions
    restarts

db    == <<status, deadline, spent, rows, released, blocked, idle, open>>
agent == <<online, sync>>
vars  == <<db, rq, job, agent, restarts>>

Dead     == {"EXPIRED", "DEPLETED", "SUSPENDED"}
Job      == {"admin", "sweep"}
Pair     == Voucher \X Mac

\* A request that has not arrived; an answered one is the same with pc "done".
NoRequest == [pc |-> "idle", kind |-> "auto", mac |-> Null, v |-> Null,
              cand |-> {}, old |-> <<Null, Null>>, back |-> "slot",
              first |-> FALSE, late |-> FALSE, row |-> "none"]
NoJob     == [pc |-> "idle", to |-> "EXPIRED", todo |-> {}, v |-> Null,
              macs |-> [v \in Voucher |-> {}]]
NoSync    == [pc |-> "idle", list |-> {}, since |-> {}]

\* The devices that count against the limit.
Holders(v) == rows[v] \ (blocked[v] \cup released[v])

\* voucherUsable
Usable(v) == deadline[v] # "past" /\ v \notin spent

\* GET /active-sessions: whom the API says the agent should let through.
Entitled ==
    {p \in Pair : /\ open[p[1]][p[2]] > 0
                  /\ p[2] \in Holders(p[1])
                  /\ status[p[1]] = "ACTIVE"
                  /\ deadline[p[1]] # "past"}

Init ==
    /\ status = [v \in Voucher |-> "NONE"]
    /\ deadline = [v \in Voucher |-> "none"]
    /\ spent = {}
    /\ rows = [v \in Voucher |-> {}]
    /\ released = [v \in Voucher |-> {}]
    /\ blocked = [v \in Voucher |-> {}]
    /\ idle = [v \in Voucher |-> {}]
    /\ open = [v \in Voucher |-> [m \in Mac |-> 0]]
    /\ rq = [r \in Request |-> NoRequest]
    /\ job = [j \in Job |-> NoJob]
    /\ online = [m \in Mac |-> Null]
    /\ sync = NoSync
    /\ restarts = 0

-----------------------------------------------------------------------------
(* The agent as the API calls it.  A call may fail: the bridge only logs.  *)

\* POST /admit. An entry the agent did not have is newer than a sync pass
\* under way; one it had keeps its admittedAt.
Admit(m, v) ==
    \/ /\ online' = [online EXCEPT ![m] = v]
       /\ sync' = IF sync.pc = "fetched" /\ online[m] = Null
                  THEN [sync EXCEPT !.since = @ \cup {m}] ELSE sync
    \/ UNCHANGED agent

\* POST /revoke, by MAC only.
Revoke(m) ==
    /\ online' \in {online, [online EXCEPT ![m] = Null]}
    /\ UNCHANGED sync

\* Mutant: close one session instead of all.
CloseOneSession(v, m) == open' = [open EXCEPT ![v][m] = @ - 1]

CloseSessions(v, m) == open' = [open EXCEPT ![v][m] = 0]
OpenSession(v, m)   == open' = [open EXCEPT ![v][m] = @ + 1]

-----------------------------------------------------------------------------
(* Vouchers appear.                                                        *)

\* generateBatch and issueForPayment: a new UNUSED voucher.
Issue(v) ==
    /\ v \notin FreeVoucher /\ status[v] = "NONE"
    /\ status' = [status EXCEPT ![v] = "UNUSED"]
    /\ UNCHANGED <<deadline, spent, rows, released, blocked, idle, open,
                   rq, job, agent, restarts>>

-----------------------------------------------------------------------------
(* redeem                                                                  *)

Goto(r, p) == rq' = [rq EXCEPT ![r].pc = p]
Return(r)  == rq' = [rq EXCEPT ![r] = [NoRequest EXCEPT !.pc = "done"]]

Arrives(r) ==
    /\ rq[r].pc = "idle"
    /\ Cardinality({q \in Request : rq[q].pc \notin {"idle", "done"}}) < MaxAtOnce

\* The snapshot and what is decided from it before the next await: throw, take
\* the slot, release an idle holder, or ask which holder left the network.
ReadVoucher(r, k, v, m) ==
    LET held   == m \in rows[v] \ released[v]
        others == Holders(v) \ {m}
        full   == ~held /\ Cardinality(others) >= Limit[v]
        snap(p, c, o) ==
            [pc |-> p, kind |-> k, mac |-> m, v |-> v, cand |-> c, old |-> o,
             back |-> "slot", first |-> status[v] = "UNUSED",
             late |-> deadline[v] = "past",
             row |-> IF m \notin rows[v] THEN "none"
                     ELSE IF held THEN "held" ELSE "released"]
        to(s) == rq' = [rq EXCEPT ![r] = s]
    IN  /\ \/ /\ status[v] \in Dead \/ m \in blocked[v]
              /\ Return(r)
           \/ /\ status[v] \notin Dead /\ m \notin blocked[v]
              /\ \/ ~full /\ to(snap("slot", {}, <<Null, Null>>))
                 \/ /\ full
                    /\ \E d \in others \cap idle[v] :
                           to(snap("relDevice", {}, <<v, d>>))
                 \/ /\ full /\ others \cap idle[v] = {}
                    /\ to(snap("probe", {v} \X others, <<Null, Null>>))
        /\ UNCHANGED <<db, job, agent, restarts>>

Redeem(r, v, m) ==
    /\ v \in Typed /\ Arrives(r) /\ status[v] # "NONE"
    /\ ReadVoucher(r, "redeem", v, m)

\* redeem called by autoLogin, handOverChangedMac or freeConnect.
RedeemFound(r) ==
    /\ rq[r].pc = "read"
    /\ ReadVoucher(r, rq[r].kind, rq[r].v, rq[r].mac)

\* Mutant: fall through to the slot when no holder could be released.
ProbeFallsThrough(r) ==
    /\ rq[r].pc = "probe"
    /\ Goto(r, "slot")
    /\ UNCHANGED <<db, job, agent, restarts>>

\* freeSlotIfFull asks the agent about one holder; only a definite "absent"
\* frees its slot, and when none is absent the redemption is refused.
Probe(r) ==
    /\ rq[r].pc = "probe"
    /\ \E d \in rq[r].cand :
        \/ rq' = [rq EXCEPT ![r].pc = "relDevice", ![r].old = d,
                            ![r].cand = {}]
        \/ IF rq[r].cand = {d}
           THEN Return(r)
           ELSE rq' = [rq EXCEPT ![r].cand = @ \ {d}]
    /\ UNCHANGED <<db, job, agent, restarts>>

\* Mutant: delete the row instead of marking it released.
ReleaseDeletes(r) ==
    LET v == rq[r].old[1]  d == rq[r].old[2] IN
    /\ rq[r].pc = "relDevice"
    /\ rows' = [rows EXCEPT ![v] = @ \ {d}]
    /\ Goto(r, "relClose")
    /\ UNCHANGED <<status, deadline, spent, released, blocked, idle, open,
                   job, agent, restarts>>

\* releaseDevice, three awaits.
ReleaseRow(r) ==
    LET v == rq[r].old[1]  d == rq[r].old[2] IN
    /\ rq[r].pc = "relDevice"
    /\ released' = [released EXCEPT ![v] = @ \cup {d}]
    /\ Goto(r, "relClose")
    /\ UNCHANGED <<status, deadline, spent, rows, blocked, idle, open,
                   job, agent, restarts>>

ReleaseClose(r) ==
    /\ rq[r].pc = "relClose"
    /\ CloseSessions(rq[r].old[1], rq[r].old[2])
    /\ Goto(r, "relRevoke")
    /\ UNCHANGED <<status, deadline, spent, rows, released, blocked, idle,
                   job, agent, restarts>>

\* Mutant: hand over without redeeming for the new MAC.
ReleaseReturns(r) ==
    /\ rq[r].pc = "relRevoke"
    /\ Revoke(rq[r].old[2])
    /\ Return(r)
    /\ UNCHANGED <<db, job, restarts>>

ReleaseRevoke(r) ==
    /\ rq[r].pc = "relRevoke"
    /\ Revoke(rq[r].old[2])
    /\ Goto(r, rq[r].back)
    /\ UNCHANGED <<db, job, restarts>>

\* Mutants: never activate; renew a voucher past its deadline.
NeverActivate(s) == IF s.late THEN "expire" ELSE "close"
RenewLate(s)     == IF s.first \/ s.late THEN "activate" ELSE "close"

\* First use activates; later ones only check the deadline.
AfterSlot(s) == IF s.first THEN "activate" ELSE IF s.late THEN "expire" ELSE "close"

\* Create, re-take or touch the Device row. The row's (voucher, mac) pair is
\* unique, so a create that lost the race throws.
TakeSlot(r) ==
    LET v == rq[r].v  m == rq[r].mac
    IN  /\ rq[r].pc = "slot"
        /\ IF rq[r].row = "none" /\ m \in rows[v]
           THEN /\ Return(r)
                /\ UNCHANGED <<rows, released, idle>>
           ELSE /\ rows' = [rows EXCEPT ![v] = @ \cup {m}]
                /\ idle' = [idle EXCEPT ![v] = @ \ {m}]
                /\ released' = IF rq[r].row = "released"
                               THEN [released EXCEPT ![v] = @ \ {m}]
                               ELSE released
                /\ Goto(r, AfterSlot(rq[r]))
        /\ UNCHANGED <<status, deadline, spent, blocked, open,
                       job, agent, restarts>>

\* First use, as the snapshot saw it.
Activate(r) ==
    LET v == rq[r].v IN
    /\ rq[r].pc = "activate"
    /\ status' = [status EXCEPT ![v] = "ACTIVE"]
    /\ deadline' = [deadline EXCEPT ![v] = IF v \in Timed THEN "ahead"
                                           ELSE "none"]
    /\ Goto(r, "close")
    /\ UNCHANGED <<spent, rows, released, blocked, idle, open,
                   job, agent, restarts>>

\* The snapshot was past its deadline: mark it EXPIRED and throw.
Expire(r) ==
    /\ rq[r].pc = "expire"
    /\ status' = [status EXCEPT ![rq[r].v] = "EXPIRED"]
    /\ Return(r)
    /\ UNCHANGED <<deadline, spent, rows, released, blocked, idle, open,
                   job, agent, restarts>>

\* Mutant: open a session without closing the old one.
ReplaceNothing(r) ==
    /\ rq[r].pc = "close"
    /\ Goto(r, "create")
    /\ UNCHANGED <<db, job, agent, restarts>>

\* Close the device's open sessions, then open a new one.
ReplaceClose(r) ==
    /\ rq[r].pc = "close"
    /\ CloseSessions(rq[r].v, rq[r].mac)
    /\ Goto(r, "create")
    /\ UNCHANGED <<status, deadline, spent, rows, released, blocked, idle,
                   job, agent, restarts>>

ReplaceOpen(r) ==
    /\ rq[r].pc = "create"
    /\ OpenSession(rq[r].v, rq[r].mac)
    /\ Goto(r, "admit")
    /\ UNCHANGED <<status, deadline, spent, rows, released, blocked, idle,
                   job, agent, restarts>>

AdmitDevice(r) ==
    /\ rq[r].pc = "admit"
    /\ Admit(rq[r].mac, rq[r].v)
    /\ Return(r)
    /\ UNCHANGED <<db, job, restarts>>

-----------------------------------------------------------------------------
(* autoLogin, handOverChangedMac and freeConnect                           *)

\* No entitlement found: autoLogin answers unauthorised, freeConnect goes on
\* to create a voucher.
Unauthorised(r) == IF rq[r].kind = "free" THEN Goto(r, "mint") ELSE Return(r)

\* Mutant: a device that was idle has to log in again.
LiveIfSeen(m) == {v \in Voucher : /\ m \in Holders(v) \ idle[v]
                                 /\ status[v] = "ACTIVE" /\ Usable(v)}

\* The vouchers on which m is bound to a live, usable login.
LiveOn(m) == {v \in Voucher : /\ m \in Holders(v)
                             /\ status[v] = "ACTIVE" /\ Usable(v)}

\* autoLogin's first query: the most recently seen such device wins.
AutoLogin(r, k, m) ==
    LET mine == LiveOn(m)
        fresh == {v \in mine : m \notin idle[v]}
        to(p, v) == rq' = [rq EXCEPT ![r] = [NoRequest EXCEPT
                        !.pc = p, !.kind = k, !.mac = m, !.v = v]]
    IN  /\ k \in Kinds /\ Arrives(r)
        /\ k = "free" =>   \* the pool of free vouchers is a bound
              Cardinality({v \in FreeVoucher : status[v] = "NONE"})
                > Cardinality({q \in Request : rq[q].kind = "free"})
        /\ \/ \E v \in (IF fresh # {} THEN fresh ELSE mine) : to("find", v)
           \/ mine = {} /\ to("paid", Null)
        /\ UNCHANGED <<db, job, agent, restarts>>

\* Keep the device's open session, or open one if there is none.
AutoFind(r) ==
    /\ rq[r].pc = "find"
    /\ Goto(r, IF open[rq[r].v][rq[r].mac] = 0 THEN "open" ELSE "touch")
    /\ UNCHANGED <<db, job, agent, restarts>>

AutoOpen(r) ==
    /\ rq[r].pc = "open"
    /\ OpenSession(rq[r].v, rq[r].mac)
    /\ Goto(r, "touch")
    /\ UNCHANGED <<status, deadline, spent, rows, released, blocked, idle,
                   job, agent, restarts>>

AutoTouch(r) ==
    /\ rq[r].pc = "touch"
    /\ idle' = [idle EXCEPT ![rq[r].v] = @ \ {rq[r].mac}]
    /\ Goto(r, "admit")
    /\ UNCHANGED <<status, deadline, spent, rows, released, blocked, open,
                   job, agent, restarts>>

\* A voucher this MAC paid for and nobody has used yet.
FindPaid(r) ==
    LET paid == {v \in Voucher : Payer[v] = rq[r].mac /\ status[v] = "UNUSED"}
    IN  /\ rq[r].pc = "paid"
        /\ \/ \E v \in paid : rq' = [rq EXCEPT ![r].pc = "read", ![r].v = v]
           \/ paid = {} /\ Goto(r, "changed")
        /\ UNCHANGED <<db, job, agent, restarts>>

\* The live logins of devices with this hostname. MAC_HANDOVER_WINDOW_MS is
\* longer than DEVICE_SLOT_STALE_MS: an idle one may or may not be in it.
FindChanged(r) ==
    LET m == rq[r].mac
        live  == {p \in Pair : /\ <<m, p[2]>> \in SameName /\ p[2] # m
                               /\ p[2] \in Holders(p[1])
                               /\ status[p[1]] = "ACTIVE" /\ Usable(p[1])}
        stale == {p \in live : p[2] \in idle[p[1]]}
    IN  /\ rq[r].pc = "changed"
        /\ \E gone \in SUBSET stale :
            IF live = gone
            THEN Unauthorised(r)
            ELSE rq' = [rq EXCEPT ![r].pc = "hand", ![r].cand = live \ gone]
        /\ UNCHANGED <<db, job, agent, restarts>>

\* Ask the agent about one candidate; a definite "absent" hands it over.
HandOver(r) ==
    /\ rq[r].pc = "hand"
    /\ \E p \in rq[r].cand :
        \/ rq' = [rq EXCEPT ![r].pc = "relDevice", ![r].old = p,
                            ![r].v = p[1], ![r].back = "read",
                            ![r].cand = {}]
        \/ IF rq[r].cand = {p}
           THEN Unauthorised(r)
           ELSE rq' = [rq EXCEPT ![r].cand = @ \ {p}]
    /\ UNCHANGED <<db, job, agent, restarts>>

\* freeConnect creates its voucher and redeems it.
Mint(r) ==
    /\ rq[r].pc = "mint"
    /\ \E v \in FreeVoucher :
        /\ status[v] = "NONE"
        /\ status' = [status EXCEPT ![v] = "UNUSED"]
        /\ rq' = [rq EXCEPT ![r].pc = "read", ![r].v = v]
    /\ UNCHANGED <<deadline, spent, rows, released, blocked, idle, open,
                   job, agent, restarts>>

-----------------------------------------------------------------------------
(* suspend, setDeviceBlocked and the expireOverdue cron                    *)

\* The devices a job's first query includes with each voucher it found.
Devices(found) == [v \in Voucher |-> IF v \in found THEN rows[v] ELSE {}]

\* suspend reads the voucher's devices, whatever its status.
Suspend(v) ==
    /\ "suspend" \in AdminOps /\ job["admin"].pc = "idle"
    /\ status[v] # "NONE"
    /\ job' = [job EXCEPT !["admin"] =
                  [NoJob EXCEPT !.pc = "status", !.to = "SUSPENDED",
                                !.todo = {v}, !.macs = Devices({v})]]
    /\ UNCHANGED <<db, rq, agent, restarts>>

\* expireOverdue: the ACTIVE vouchers past their deadline, with their devices.
SweepExpired ==
    LET overdue == {v \in Voucher : status[v] = "ACTIVE" /\ deadline[v] = "past"} IN
    /\ "cron" \in Loops /\ job["sweep"].pc = "idle"
    /\ job' = [job EXCEPT !["sweep"] =
                  [NoJob EXCEPT !.pc = "status", !.to = "EXPIRED",
                                !.todo = overdue,
                                !.macs = Devices(overdue)]]
    /\ UNCHANGED <<db, rq, agent, restarts>>

\* Then the ACTIVE vouchers over their data cap.
SweepDepleted ==
    LET over == {v \in Voucher : status[v] = "ACTIVE" /\ v \in spent} IN
    /\ job["sweep"].pc = "status" /\ job["sweep"].to = "EXPIRED"
    /\ job["sweep"].todo = {}
    /\ job' = [job EXCEPT !["sweep"] =
                  [NoJob EXCEPT !.pc = "status", !.to = "DEPLETED",
                                !.todo = over,
                                !.macs = Devices(over)]]
    /\ UNCHANGED <<db, rq, agent, restarts>>

\* Mutant: no self-healing of sessions on inactive vouchers.
SweepNoOrphans ==
    /\ job["sweep"].pc = "status" /\ job["sweep"].to = "DEPLETED"
    /\ job["sweep"].todo = {}
    /\ job' = [job EXCEPT !["sweep"] = NoJob]
    /\ UNCHANGED <<db, rq, agent, restarts>>

\* Last, the sessions left open on vouchers that are not ACTIVE.
SweepOrphans ==
    /\ job["sweep"].pc = "status" /\ job["sweep"].to = "DEPLETED"
    /\ job["sweep"].todo = {}
    /\ open' = [v \in Voucher |-> IF status[v] # "ACTIVE"
                                  THEN [m \in Mac |-> 0] ELSE open[v]]
    /\ job' = [job EXCEPT !["sweep"] = NoJob]
    /\ UNCHANGED <<status, deadline, spent, rows, released, blocked, idle,
                   rq, agent, restarts>>

\* The body shared by suspend and both loops: set the status...
RetireStatus(j) ==
    /\ job[j].pc = "status"
    /\ \E v \in job[j].todo :
        /\ status' = [status EXCEPT ![v] = job[j].to]
        /\ job' = [job EXCEPT ![j].pc = "close", ![j].v = v,
                              ![j].todo = @ \ {v}]
    /\ UNCHANGED <<deadline, spent, rows, released, blocked, idle, open,
                   rq, agent, restarts>>

\* ... close every session of the voucher ...
RetireClose(j) ==
    /\ job[j].pc = "close"
    /\ open' = [open EXCEPT ![job[j].v] = [m \in Mac |-> 0]]
    /\ job' = [job EXCEPT ![j].pc = "revoke"]
    /\ UNCHANGED <<status, deadline, spent, rows, released, blocked, idle,
                   rq, agent, restarts>>

\* ... and revoke every device the snapshot listed, released ones included.
RetireRevoke(j) ==
    LET v == job[j].v IN
    /\ job[j].pc = "revoke"
    /\ \E m \in job[j].macs[v] :
        /\ Revoke(m)
        /\ job' = [job EXCEPT ![j].macs[v] = @ \ {m}]
    /\ UNCHANGED <<db, rq, restarts>>

RetireNext(j) ==
    /\ job[j].pc = "revoke" /\ job[j].macs[job[j].v] = {}
    /\ job' = [job EXCEPT ![j] =
                  IF j = "admin" THEN NoJob
                  ELSE [@ EXCEPT !.pc = "status", !.v = Null]]
    /\ UNCHANGED <<db, rq, agent, restarts>>

\* setDeviceBlocked(true): set the flag, revoke, close.
Block(v, m) ==
    /\ "block" \in AdminOps /\ job["admin"].pc = "idle"
    /\ m \in rows[v] \ blocked[v]
    /\ blocked' = [blocked EXCEPT ![v] = @ \cup {m}]
    /\ job' = [job EXCEPT !["admin"] =
                  [NoJob EXCEPT !.pc = "blkRevoke", !.v = v, !.macs[v] = {m}]]
    /\ UNCHANGED <<status, deadline, spent, rows, released, idle, open,
                   rq, agent, restarts>>

BlockRevoke ==
    LET j == job["admin"] IN
    /\ j.pc = "blkRevoke"
    /\ \E m \in j.macs[j.v] : Revoke(m)
    /\ job' = [job EXCEPT !["admin"].pc = "blkClose"]
    /\ UNCHANGED <<db, rq, restarts>>

BlockClose ==
    LET j == job["admin"] IN
    /\ j.pc = "blkClose"
    /\ \E m \in j.macs[j.v] : CloseSessions(j.v, m)
    /\ job' = [job EXCEPT !["admin"] = NoJob]
    /\ UNCHANGED <<status, deadline, spent, rows, released, blocked, idle,
                   rq, agent, restarts>>

\* setDeviceBlocked(false) only clears the flag.
Unblock(v, m) ==
    /\ "unblock" \in AdminOps /\ job["admin"].pc = "idle"
    /\ m \in blocked[v]
    /\ blocked' = [blocked EXCEPT ![v] = @ \ {m}]
    /\ UNCHANGED <<status, deadline, spent, rows, released, idle, open,
                   rq, job, agent, restarts>>

-----------------------------------------------------------------------------
(* Time and traffic                                                        *)

\* A package outlasts any request: the deadline a handler is about to set is
\* not passed while a handler that saw the voucher UNUSED still runs.
DeadlinePasses(v) ==
    /\ deadline[v] = "ahead"
    /\ \A r \in Request : ~(rq[r].v = v /\ rq[r].first)
    /\ deadline' = [deadline EXCEPT ![v] = "past"]
    /\ UNCHANGED <<status, spent, rows, released, blocked, idle, open,
                   rq, job, agent, restarts>>

GoIdle(v, m) ==
    /\ "traffic" \in Loops /\ m \in rows[v] \ idle[v]
    /\ idle' = [idle EXCEPT ![v] = @ \cup {m}]
    /\ UNCHANGED <<status, deadline, spent, rows, released, blocked, open,
                   rq, job, agent, restarts>>

\* reportTraffic: a sample of a MAC the agent lets through is billed to an
\* open session of that MAC, and the device counts as seen.
Traffic(v, m) ==
    /\ "traffic" \in Loops /\ online[m] # Null /\ open[v][m] > 0
    /\ idle' = [idle EXCEPT ![v] = @ \ {m}]
    /\ spent' \in {spent, spent \cup ({v} \cap Capped)}
    /\ UNCHANGED <<status, deadline, rows, released, blocked, open,
                   rq, job, agent, restarts>>

-----------------------------------------------------------------------------
(* The agent on its own                                                    *)

\* The firewall entry times out at the session's end.
EntryTimeout(m) ==
    /\ online[m] # Null /\ deadline[online[m]] = "past"
    /\ online' = [online EXCEPT ![m] = Null]
    /\ UNCHANGED <<db, rq, job, sync, restarts>>

SyncFetch ==
    /\ "sync" \in Loops /\ sync.pc = "idle"
    /\ sync' = [pc |-> "fetched", list |-> Entitled, since |-> {}]
    /\ UNCHANGED <<db, rq, job, online, restarts>>

\* Mutant: a sync that only admits.
SyncOnlyAdmits(m, vs) == IF vs # {} THEN vs ELSE {online[m]}

\* A MAC listed on the vouchers vs is let through on one of them; one that is
\* not listed is cut, unless its entry is newer than the pass.
SyncOutcome(m, vs) ==
    IF vs # {} THEN vs ELSE {IF m \in sync.since THEN online[m] ELSE Null}

SyncApply ==
    /\ sync.pc = "fetched"
    /\ online' \in [Mac -> Voucher \cup {Null}]
    /\ \A m \in Mac :
        online'[m] \in SyncOutcome(m, {v \in Voucher : <<v, m>> \in sync.list})
    /\ sync' = NoSync
    /\ UNCHANGED <<db, rq, job, restarts>>

-----------------------------------------------------------------------------
(* Crashes: handlers vanish half-way; the agent starts from an empty set.  *)

ApiRestart ==
    /\ restarts < MaxRestarts
    /\ restarts' = restarts + 1
    /\ rq' = [r \in Request |-> IF rq[r].pc = "idle" THEN NoRequest
                               ELSE [NoRequest EXCEPT !.pc = "done"]]
    /\ job' = [j \in Job |-> NoJob]
    /\ UNCHANGED <<db, agent>>

AgentRestart ==
    /\ restarts < MaxRestarts
    /\ restarts' = restarts + 1
    /\ online' = [m \in Mac |-> Null]
    /\ sync' = NoSync
    /\ UNCHANGED <<db, rq, job>>

-----------------------------------------------------------------------------
RequestStep(r) ==
    \/ RedeemFound(r) \/ Probe(r)
    \/ ReleaseRow(r) \/ ReleaseClose(r) \/ ReleaseRevoke(r)
    \/ TakeSlot(r) \/ Activate(r) \/ Expire(r)
    \/ ReplaceClose(r) \/ ReplaceOpen(r) \/ AdmitDevice(r)
    \/ AutoFind(r) \/ AutoOpen(r) \/ AutoTouch(r)
    \/ FindPaid(r) \/ FindChanged(r) \/ HandOver(r) \/ Mint(r)

RequestStart(r) ==
    \E m \in Mac : \/ \E v \in Voucher : Redeem(r, v, m)
                   \/ \E k \in {"auto", "free"} : AutoLogin(r, k, m)

Retire(j) == RetireStatus(j) \/ RetireClose(j) \/ RetireRevoke(j) \/ RetireNext(j)

SweepStep == SweepExpired \/ SweepDepleted \/ SweepOrphans \/ Retire("sweep")

AdminStep == Retire("admin") \/ BlockRevoke \/ BlockClose

AdminStart == \E v \in Voucher : \/ Suspend(v)
                                 \/ \E m \in Mac : Block(v, m) \/ Unblock(v, m)

AgentStep == SyncFetch \/ SyncApply \/ \E m \in Mac : EntryTimeout(m)

World ==
    \/ \E v \in Voucher : \/ Issue(v) \/ DeadlinePasses(v)
                          \/ \E m \in Mac : GoIdle(v, m) \/ Traffic(v, m)
    \/ ApiRestart \/ AgentRestart

Next ==
    \/ \E r \in Request : RequestStart(r) \/ RequestStep(r)
    \/ SweepStep \/ AdminStart \/ AdminStep \/ AgentStep \/ World

Spec == Init /\ [][Next]_vars

\* The event loop runs every handler on to its next await, the cron fires
\* every minute and the agent's loop every minute (every 5 s until the first
\* success); customers, the admin, time and crashes are under no obligation.
Fairness ==
    /\ \A r \in Request : WF_vars(RequestStep(r))
    /\ WF_vars(SweepStep) /\ WF_vars(AdminStep)
    /\ WF_vars(SyncFetch) /\ WF_vars(SyncApply)

FairSpec == Spec /\ Fairness
-----------------------------------------------------------------------------
(* What must hold                                                          *)

RequestPc == {"idle", "done", "read", "probe", "relDevice", "relClose", "relRevoke",
              "slot", "activate", "expire", "close", "create", "admit",
              "find", "open", "touch", "paid", "changed", "hand", "mint"}
RequestState ==
    [pc : RequestPc, kind : {"redeem", "auto", "free"}, mac : Mac \cup {Null},
     v : Voucher \cup {Null}, cand : SUBSET Pair,
     old : (Voucher \cup {Null}) \X (Mac \cup {Null}), back : {"slot", "read"},
     first : BOOLEAN, late : BOOLEAN, row : {"none", "held", "released"}]
JobState ==
    [pc : {"idle", "status", "close", "revoke", "blkRevoke", "blkClose"},
     to : Dead, todo : SUBSET Voucher, v : Voucher \cup {Null},
     macs : [Voucher -> SUBSET Mac]]

\* Every row, handler and agent entry keeps its shape.
TypeOK ==
    /\ status \in [Voucher -> Dead \cup {"NONE", "UNUSED", "ACTIVE"}]
    /\ deadline \in [Voucher -> {"none", "ahead", "past"}]
    /\ spent \in SUBSET Voucher
    /\ rows \in [Voucher -> SUBSET Mac]
    /\ released \in [Voucher -> SUBSET Mac]
    /\ blocked \in [Voucher -> SUBSET Mac]
    /\ idle \in [Voucher -> SUBSET Mac]
    /\ open \in [Voucher -> [Mac -> Nat]]
    /\ rq \in [Request -> RequestState]
    /\ job \in [Job -> JobState]
    /\ online \in [Mac -> Voucher \cup {Null}]
    /\ sync \in [pc : {"idle", "fetched"}, list : SUBSET Pair,
                 since : SUBSET Mac]
    /\ restarts \in Nat

\* A voucher nobody has activated carries nobody: no session, no MAC let
\* through and none about to be (redeem activates before it opens a session).
UnusedCarriesNobody ==
    \A v \in Voucher : status[v] \in {"NONE", "UNUSED"} =>
        \A m \in Mac : /\ open[v][m] = 0
                       /\ online[m] # v
                       /\ <<v, m>> \notin sync.list

\* Whoever the agent lets through on a voucher has a Device row there, so the
\* admin sees it and suspending the voucher can revoke it.
OnlineIsRecorded ==
    \A m \in Mac : online[m] # Null => m \in rows[online[m]]

\* ARCHITECTURE.md section 4: a voucher has at most deviceLimit devices.
WithinLimit == \A v \in Voucher : Cardinality(Holders(v)) <= Limit[v]

\* vouchers.service.ts:177: a device has one open session, never a stack.
OneOpenSession == \A v \in Voucher, m \in Mac : open[v][m] <= 1

\* vouchers.service.ts:211: a device on a live free voucher gets no second one.
OneFreeVoucher ==
    \A m \in Mac : Cardinality({v \in FreeVoucher :
        m \in Holders(v) /\ status[v] = "ACTIVE" /\ Usable(v)}) <= 1

\* A voucher that ran out of time stays out: no handler brings back what the
\* cron expired, although first use is decided on an old read.
ExpiredStaysExpired ==
    [][\A v \in Voucher : status[v] = "EXPIRED" => status'[v] \in Dead]_vars

\* The last pass of the cron: sessions on a voucher that is not ACTIVE do not
\* stay open, whatever crashed or raced.
OrphansClose ==
    \A v \in Voucher, m \in Mac :
        (status[v] # "ACTIVE" /\ open[v][m] > 0)
            ~> (status[v] = "ACTIVE" \/ open[v][m] = 0)

\* handOverChangedMac moves a login: once the old MAC's row is being released
\* the new one ends up holding the slot, unless the voucher died meanwhile, the
\* admin blocked the new MAC on it, or the API died in between.
LoginMoves == \A m \in Mac, v \in Voucher :
    (\E r \in Request : /\ rq[r].pc = "relDevice" /\ rq[r].back = "read"
                        /\ rq[r].mac = m /\ rq[r].v = v)
        ~> (m \in Holders(v) \/ status[v] \in Dead \/ m \in blocked[v] \/ restarts > 0)

EntitledMac(m) == \E v \in Voucher : <<v, m>> \in Entitled

\* A MAC let through without entitlement is cut in the end, although every
\* revoke may be lost and a sync may act on an old list.
CutInTheEnd == \A m \in Mac :
    (online[m] # Null /\ ~EntitledMac(m)) ~> (online[m] = Null \/ EntitledMac(m))

\* An entitled MAC gets through in the end, although the admit may be lost,
\* the agent may restart and another voucher's revoke may cut it.
RestoredInTheEnd == \A m \in Mac :
    (online[m] = Null /\ EntitledMac(m)) ~> (online[m] # Null \/ ~EntitledMac(m))

\* What the agent lets through and what the API entitles agree in the end: the
\* two together.
SyncedInTheEnd == CutInTheEnd /\ RestoredInTheEnd
=============================================================================
