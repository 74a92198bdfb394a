# NetCam in TLA+

NetCam is a self-hosted WiFi hotspot with prepaid vouchers: a NestJS API over
Postgres decides who may be online and takes and pays out mobile money, and a
network-agent on the gateway machine enforces it with nftables and tc. This
directory models the parts of the system whose correctness depends on the order
in which things happen, checks them with TLC, and proves what matters most with
TLAPS. `PROJECT.json` lists components, runs, hazards, findings and theorems,
and ties every definition to the source lines it translates.

## The system

| Part | State | Operations | Talks to |
|---|---|---|---|
| Vouchers (`apps/api/src/vouchers`) | `Voucher`, `Device`, `Session` rows | `redeem`, `autoLogin`, `handOverChangedMac`, `freeConnect`, `suspend`, `setDeviceBlocked`, `issueForPayment` | agent bridge (HTTP), payments (call) |
| Sessions (`sessions`) | bytes of sessions, vouchers and hours | `reportTraffic`, cron `expireOverdue` | agent, vouchers' rows |
| Payments (`payments`) | `Payment` rows | `initiate`, `pollPending` (30 s), webhook, `reconcile` | Ssentezo, vouchers, messenger |
| Withdrawals and books (`finance`, `payments/earnings.service.ts`) | `Withdrawal` and ledger rows, the fee schedule | `request`, `approve`, `reject`, `cancel`, `resolve`, `refresh`, `pollProcessing` (30 s), webhook; summary and earnings | Ssentezo, payments' rows |
| Agent bridge (`network-agent-bridge`) | none | `admit`, `revoke`, `isPresent`; `/active-sessions`, traffic, leases and alerts of the agent | both ways |
| Agent: admission and shaping | nftables set, registry `admitted`, class IDs, tc filters | `/admit`, `/revoke`, sync (60 s), expiry sweep (15 s), bootstrap | API |
| Agent: metering and apps | counters per class, flows, what names were looked up | report loop, usage tick, DNS log | kernel, API |
| Agent: leases, presence, health | offers made, neighbour table, failure counts, cooldowns | scans, `isPresent`, network probe, host checks | API, WhatsApp |
| Portal (`apps/portal`, proxy, `portal`) | the page, its polling timer; recovery codes | load, pay, redeem, recover, poll | vouchers, payments, messenger |
| Alerts and messaging (`alerts`, `sms`, `whatsapp`) | `AlertEvent` and `SmsLog` rows, what the monitors remember | `notify`, crons every minute, failed logins | everybody |
| Routers and network status | `Router` rows, `lastSeenAt` | probe, heartbeat, tree edits | agent |
| Dashboard settings (`packages`, `output-channels`, `admin-users`) | their rows | one request each | – |
| Claude bridge (`scripts/claude-bridge.mjs`, `whatsapp-claude.service.ts`) | conversations, sessions, state file, pending login | turns, commands, logins | Claude Code, Codex |
| Staff pages (`apps/web`) | what is shown, calls under way, token | loads, timers, edits | API |
| Customers, settings, audit, dashboard; interface set-up; installation | – | CRUD, queries, scripts | – |

What is hard in it: every `await` of a handler is a point where other handlers,
crons and the agent run; a handler decides on what it read several awaits ago;
calls from the API to the agent are fire-and-forget (`network-agent-bridge.service.ts`
logs a failure and goes on), so the agent's periodic sync is the only repair;
Ssentezo may answer late, not at all, or after the webhook; the API, the agent
and the machine restart at any point; timers of pages fire while the last call is
still out. `hazards` in `PROJECT.json` places each of these at its line.

What makes each part correct: a voucher carries at most `deviceLimit` devices
and nobody once it is dead; the firewall ends up matching the entitlements; money
paid in yields exactly one voucher; money paid out is paid once and never
exceeds what came in; no byte is charged or tabled twice, and what is charged is
also split; the books agree with each other; an outage that lasts is told; a code
opens a voucher once; a customer who paid, and a page that is left open, see it.

## Modules

| Module | Models |
|---|---|
| `Vouchers` | entitlement: voucher, device and session rows, request handlers, admin jobs, the cron, and the agent as the API sees it |
| `Admission` | inside the agent: firewall set, registry, class IDs, filters, and the calls, sync, sweep and boot that interleave on them |
| `Payments` | deposits: `initiate`, the poll, webhooks, `reconcile`, Ssentezo |
| `Withdrawals` | payouts: request, approval, `send`, `settle`, manual resolution, Ssentezo |
| `Payout` | the abstract promise of the withdrawals: held, then paid or released |
| `Metering` | the report loop and the usage tick over one class counter |
| `AppUsage` | the DNS log, the connection table, the split of bytes across apps |
| `Accounting` | `reportTraffic`: session, voucher, hour, TTL score |
| `Leases` | the lease watcher; `isPresent` |
| `HostHealth` | the agent's checks and the way of its alerts |
| `Alerts` | `notify`, delivery, the API's monitors, failed logins |
| `Network` | probing routers, presence, heartbeats, the tree |
| `Portal` | the portal page with its proxy; recovery codes |
| `Books` | earnings, ledger, today's sales, over days and time zones |
| `Fees` | the fee schedule and the Withdrawals page's offer |
| `Console` | packages, output channels, admin users under overlapping edits |
| `ClaudeBridge` | turns, sessions and logins of the bridge, retries of the API |
| `AdminPages` | when the staff pages load, and what answers leave on them |
| `Coins`, `Option` | sums over sets of rows; values that may be missing |
| `CoinsProofs`, `WithdrawalsProofs`, `PaymentsProofs`, `VouchersProofs`, `AdmissionProofs`, `ServerProofs`, `AgentProofs`, `PlatformProofs` | lemmas and theorems |
| `MCVouchers`, `MCAdmission`, `MCPayments`, `MCWithdrawals`, `MCPlatform` | values and symmetries for TLC |

### Vouchers

`rq[r]` is a request handler: its program counter and the snapshot it took at
`vouchers.service.ts:121`. One action per awaited call; `ReadVoucher` is the
read with everything decided from it before the next await. `job` holds the
admin's operation and the cron's pass, which share the body "status, sessions,
revoke each device" (`Retire*`). Times are abstracted to what the code compares:
`deadline` is none, ahead or past, and `idle` says that a device was not seen for
`DEVICE_SLOT_STALE_MS`. `online` is the agent's view, with the voucher each MAC
was let through on; `Admit` and `Revoke` may be lost; `SyncFetch` reads
`/active-sessions` and `SyncApply` acts on that, possibly old, list. Traffic is
what a sample does to the voucher's cap and to `lastSeenAt`. `DeadlinePasses`
waits for handlers that saw the voucher unused: a package lasts longer than a
request. Firewall timeouts are modelled for vouchers with a deadline.

### Admission

`task[t]` is an `admitDevice` or `revokeDevice` call of an HTTP request, the sync
or the sweep. A step is the effect of one shell command or the code between two
awaits, so a command may take effect long before its caller goes on. An entry's
`admittedAt` only matters relative to the start of the sync under way, so it is
"old" or "new" and `SyncStart` ages all entries, also those a call has already
read. The free list counts how often an ID is on it (2 stands for more); which
free ID is popped is left open. All tc commands of one apply, or of one remove,
are one effect, and which segment a request belongs to is an input
(`findRouter` is not modelled). A command may fail: nft without effect, which the
delete swallows and the add throws, or after its effect when it runs out of the
10 s of `shell.ts`; tc before or after its effect, which a removal ignores and an
admission throws. `leaked` marks the MACs that such a failure of their own last
admit or revoke left in the firewall without an entry of their making, `bare` those
it left with a class ID and no filter. A later operation that succeeds takes the
mark away, but a class ID that is kept keeps its mark, as `applyShapingForMac` adds
no filter for it. The entitlements are an input that changes at
any time, and calls arrive whatever they are by then: that stands for stale,
missing and reordered calls. `Overlap` says whether two operations on one MAC
may run at the same time and whether calls are served during the bootstrap;
the code does nothing to prevent either, and the runs with an empty `Overlap`
show what holds as long as it does not happen.

### Payments and Withdrawals

Both talk to Ssentezo, modelled as an external party: `wire` holds the requests
on their way, `prov` its record, with SUCCEEDED and FAILED final. A handler that
waits may get the answer, a refusal, or nothing usable. `aged` stands for the
code's age limits (15 s for the polls, five minutes for "not found"). In
`Withdrawals` a transaction's snapshot is `fresh` until another commits
(Serializable), and one amount stands for `amountUgx + feeUgx`. It is assumed
there that an answer below 500 other than OK means that the request was not
taken, that the super admin who resolves a payout records what Ssentezo's
dashboard shows, and that `earned` never shrinks; the last
fails when a booked sale is overwritten with FAILED (see below). `Payments`
treats the login of the paying device as one step: `Vouchers` has its details.
`Lossy` names the payments whose deposit request may get no usable answer: what
holds only for the others is stated for the others.

### Bytes: Metering, AppUsage, Accounting

`Metering` follows one device in one direction. `class` is the kernel's counter,
which begins again with a new class, and registry entries are objects: `sample[r]`
keeps the entry it started with while `AdmitEnters` puts another in its place,
with the bytes it inherits as the code does. `raced` marks the moments when an
entry was shared or replaced while being sampled; then bytes may be charged
twice, and the invariant says so. The usage tick reads the same counter
(`TickRead`, `TickBill`, `TickAdd`) and a failed read counts as zero, after
which the next tick splits all bytes again (`ReadFaults`).

`AppUsage` has the log as a sequence of lines, two halves each, so that a read
can end within a line; `dnsLog` is emptied by a truncation that may fail while
dnsmasq goes on writing. A tick compares the flows with those of the last tick,
scales what each app moved to what the tick itself bills, which is nothing on a
first reading and when the class's counter went back, and rounds. An app is the
site it was looked up for, or none. The shares are kept as numerators, with
rounding where the code rounds.

`Accounting` has one action per query of `reportTraffic`; reports overlap, or die
with the API between two updates, and the agent sends none again
(`api-client.ts`). What is charged and what the Usage page shows come from two
counters of the agent: the report loop's difference of the class, and the apps its
ticks have found since the last report. A sample carries both, unrelated here;
the table gets the apps, or the class's bytes when no apps are listed (`Tabled`).
`Metering` has the two side by side, with `tabled` for what the table is sent.

### Leases, HostHealth, Alerts, Network

In `Leases` a scan offers each lease it has not offered yet; an offer is an API
call that may fail or be answered late, while the next scan starts. `isPresent` is
asked of several addresses in turn; `neigh` is the kernel's table and `holds`
who really has an address.

`HostHealth`: checks run one after the other and never overlap, so one check with
its alert is one action. `cool` and `direct` are the cooldowns of the API and of
the direct way, `told[t]` the last word on a topic that the API stored or WhatsApp
took, `hushed` the topics whose last word did neither: held back by a cooldown, not
urgent while the API is down, lost on the direct way, or not noticed because the
agent had just started. An alert sent directly begins its cooldown before the
post, as in the code, and the post may arrive or be lost without anyone noticing
(`SendDirect`). The direct WhatsApp hub and the fallback phones are taken to be
configured.

`Alerts` runs each notice through `notify` one query at a time: cooldown, event,
delivery. Notices that nothing else depends on share a raiser. `excused` records
a suppressed or lost notice. The monitors wait for their own notices, logins and
the agent's alerts do not.

`Network` has the routers' real wiring (`Uplink`) and the configured one
(`parent`), which need not agree. The neighbour table has an entry for each address,
and a node an address in each segment: a client that moved may have two, of which
`collectNetworkStatus` takes the one read last, and only a ping to that one counts.
`proof` holds which routers must have had power
for what the neighbour table says, so that the invariant compares what the
probe infers with what was the case.

### Portal

The page is `view`, `packages`, `timer` and the forms that wait (`busy`); `poll[k]`
is a call of the polling timer, several of which may be out. `covered` stands for
"autoLogin finds something", `slipped` for a page that stopped polling and then
had a call fail. Recovery is one action per await of `requestRecovery` and
`confirmRecovery`; the codes live in the API's memory and are taken as distinct.

### Books and Fees

In `Books` time counts in fractions of a day, the local day begins `Offset` before
the UTC day, and a query is cut at instants as the code cuts it. Sales are
completed and deleted between reports; each report sees one instant. `Fees` is the schedule as the API
computes it, and the page's binary search step by step over a schedule and a
balance that may be older than the API's.

### Console, AdminPages, ClaudeBridge

`Console` has handlers that read first and write later; `lone` marks those that had
no other under way. `AdminPages` has each page as what it depends on (range,
timer, reload after an edit), with the data as a version number; a call keeps the
range of the render it was made in. In `ClaudeBridge` a session is in memory, in the
state file and in the agent's own store; `Crash` falls back on the file, which
may be torn; the API's retry repeats a turn whose answer it did not get.

### MCPlatform

The components around the core share no variables: what one needs of another it
has as an assumption about its environment. Interleaving them would add nothing,
so `MCPlatform` puts them side by side: `part`, chosen in the initial state, says
which component moves, and which of its hazards; the others stay in their
initial state. An invariant of a component is checked in its own parts.

## Runs

The longest runs take two to three minutes with two workers. Sets are as small as
the property allows: two devices are needed to compete for a slot or a class ID,
two vouchers to move between, two handlers to race; the limit is one device, the
schema's default, so that the second one is already too many.

| Run | Result | Shows |
|---|---|---|
| `Vouchers_redeem` | pass | two overlapping redemptions with suspension, blocking, unblocking, cron and traffic: an unused voucher carries nobody, whoever is online has a row, an expired voucher stays dead |
| `Vouchers_logins` | pass | one request at a time (`MaxAtOnce = 1`), logins and free connects, blocking and a crash half-way: device limit, single session, one live free voucher per device, and a hand-over ends with the new MAC on the slot |
| `Vouchers_heal` | pass | two vouchers, overlapping requests and a restart: orphaned sessions close, MACs without entitlement are cut and entitled ones restored |
| `Vouchers_over_limit` | violated | two redemptions at once exceed the limit |
| `Withdrawals_payouts` | pass | concurrent requests never overdraw; one payout call per row, money paid or in doubt stays held, SUCCESS is true; payouts implement `Payout` and each is settled in the end |
| `Admission_serial` | pass | class IDs are never shared, with boots, a crash or a failing tc command |
| `Admission_heal` | pass | once nothing works on a MAC, firewall, registry and filters agree on it, and the firewall follows the entitlements in the end, on two segments, with up to two crashes or failures of any kind, for every MAC but those that a failed command of their own left open (`leaked`) or without a filter (`bare`) |
| `Admission_leak` | violated | interleaved admit and revoke leave a MAC in the firewall for good |
| `Payments_deposits` | pass | poll and webhook at once, one deposit request reliable and one not: one voucher, one text, only for money received; every answered payment is booked and gets its voucher, after a crash too |
| `Payments_lost_answer` | violated | a lost answer makes a paid deposit FAILED for good |
| `Platform_steps` | pass | bytes are not charged twice; what is charged adds up from session to voucher, what is tabled from report to hour, and a tick's apps to what it has billed; earnings, ledger and today's sales agree; the page's offer can be paid; presence is real; a recovery code opens once; guessing passwords is told; agents resume their own sessions and codes reach the newest login; an edit with no other under way settles |
| `Platform_timers` | pass | outages that last are told, entitled leases get in, a page that polls shows a payment, a staff page with a timer becomes current |

The passing runs say under which conditions the code keeps its promises, and
changing one constant, or one clause of a property, shows that the condition is
needed: TLC then reports the named property, or another of the run that the same
trace breaks. Each is a divergence of the code from its own comments, next to the
findings of the violated runs:

- `Vouchers_logins` with `"unblock"` in `AdminOps`: block a device, let another
  take the slot, unblock (`vouchers.service.ts:449` only clears the flag), and
  `WithinLimit` fails without any race.
- `Vouchers_logins` with `MaxAtOnce = 2`: two requests of one device both close
  its sessions before either opens the new one (`OneOpenSession`,
  `vouchers.service.ts:179`), and two free connects both find no live voucher and
  both create one (`OneFreeVoucher`, `vouchers.service.ts:215`). A free voucher's
  code that another device types breaks `OneFreeVoucher` as well.
- `LoginMoves` does not survive a death of the API between the release of the
  old MAC and the login of the new one (`vouchers.service.ts:355`).
- `Admission_serial` with `Overlap = {"calls"}`: two overlapping revokes put a
  class ID on the free list twice (`OwnClass`, `tc.ts:143`).
- `Admission_heal` with `Overlap = {"boot"}`: an /admit served during the bootstrap
  leaves a MAC in the firewall and out of the registry (`FirewallKnown`,
  `SyncedInTheEnd`).
- `Admission_heal` with `CutInTheEnd` instead of `SyncedInTheEnd`, that is without
  the exception for `leaked`: `revokeDevice` swallows a failed nft delete and drops
  the entry (`admission.ts:64`), and an nft add that runs out of its 10 s throws
  with the element added (`admission.ts:43`). Either way the MAC is let through
  without an entry, and `syncWithApi`, which goes by the registry, never cuts it,
  against `admission.ts:70`; only the element's own timeout does. `FirewallKnown`
  without its exceptions fails alike.
- `Admission_heal` with `Shaped`: a class ID taken for a MAC whose tc commands
  failed is kept by every later admission, which then adds no filter
  (`tc.ts:133`): the device is neither shaped nor counted, against `tc.ts:15`.
- `Payments_deposits` with `Batch = 1`: a row that never resolves fills the
  poll's unordered batch (`PaidGetsVoucher`, `payments.service.ts:127`).
- `SaleIsBooked` over all payments: the update to FAILED by id alone
  (`payments.service.ts:67`) overwrites a sale that a webhook has booked.
- `LoneEditSettles` without `lone`: two overlapping `setActive` leave two active
  channels (against the comment at `output-channels.service.ts:28`), and two
  updates of a package leave limits neither asked for (`packages.service.ts:68`).
- `BytesCountOnce` without `raced`, or with a failed read of the counters: a
  report over an entry that is replaced charges its bytes again, and a tick after a
  failed read splits all bytes of the class again (`usage.ts`).
- `Metering`'s `ChargedIsSplit` in `Platform_steps`: a tick bills nothing on the
  first reading of a device (`usage.ts:171`), while the report loop charges all that
  the class has counted since admission (`index.ts:110`). Once apps are reported,
  the split is short of that, although `usage.ts:125` says it "always adds up to
  what the customer was actually charged for".
- `Metering`'s `TabledOnce` in `Platform_steps`: a report that lists no apps because
  the agent has not ticked yet is tabled by its class (`sessions.service.ts:51`); the
  next tick splits the same bytes, and the next report tables them again.
- `OutagesTold` without `excused` and `hushed`: an outage within the cooldown of
  the last one is not told at all, nor is one whose notice meets a failed query or
  whose direct post is lost; the monitors and the agent remember it as told. For
  the internet that is by design: `host-health.ts:134` says the alert is only
  delivered if another route out works. The outage of the API is announced once
  (`host-health.ts:161`).
- `PaidIsShown` without `slipped`: the timer is cleared before the status and
  the redemption are known, so one failed call then leaves the page waiting for a
  payment that succeeded (`main.ts:73`).
- `PageIsCurrent` for pages without a timer (Finance, Vouchers, Payments,
  Packages): a late answer for another range stays (`Finance.tsx:76`), and the
  reload after a save asks for the range of the render it was clicked in.
- `TiersTellTheFee` without its condition: when a schedule's minimum lies above
  its first band, the tiers shown do not begin where the fees do.

Bounds are constants: `MaxRestarts` and `MaxFaults` (one or two, enough for a
crash and a failure during its recovery), `MaxAtOnce`, `MaxEarned`, `Batch`
(1 where the batch is full, otherwise all rows), `MaxLeases` (two in
`Platform_timers`, so that a lease is renewed while its first offer is out), and
the sets of requests, calls and hooks, each of which is used once or reused as its
module says. In `MCPlatform` one instance serves all runs, up to the logins and
leases: two devices, routers, sessions, conversations, calls, ticks and samplers,
since each hazard there is one of two actors; two bytes and two posts, enough to be billed, split and repeated;
one restart and one failure of each kind; a day of three units with a local day
that begins one earlier, and times around one midnight (`FirstNow` to `MaxNow`);
schedules with every order of minimum, band and maximum. Runs without
deadlock checking are those where all the bounded inputs can be used up.

A firewall element in `Admission` may time out but has no fairness: its session
has hours to run, and the question of "cut in the end" is whether the sync repairs
it.

## Fairness

Weak fairness on every handler's steps (the event loop goes on, and each shell
command ends, with or without success), on the crons, the sync and the bootstrap's retries (timers that never
stop). Strong fairness only on the poll's answer from Ssentezo: asked again and
again about a payment, it answers at some time. External parties decide every
request they hold in the end. Customers, admins, webhooks, calls, entitlements,
crashes and failures have no fairness.

`MCPlatform`'s `Fairness` is of the same kind: the API's crons with the notices
they wait for, the host checks, the lease scans, their offers and rechecks, the
polling timer of the page with its calls, and the calls and timers of a staff page.
Each comes from a `setInterval`, a `@Cron` or an awaited call with a timeout.
Heartbeats, leases, outages, payments and everything people do may stop at any
point; edits, restarts and failures are bounded.

## Proofs

`WithdrawalsProofs` proves, for any finite set of withdrawals, any sets of
admins and hooks and any amounts, from `WithdrawalsAssumption` alone: `TypeOK`,
`NoOverdraft`, `SentOnce`, `PaidStaysHeld`, `SuccessIsPaid`, and that every
behaviour implements `Payout`.

None of the safety invariants is inductive: that a payout is not sent twice
depends on which handlers are on their way to send it. `IInv` adds

- `TxInv`: a request under way holds a row that does not exist yet, no two hold
  the same, and while its snapshot is fresh its amount is still available — a
  commit makes the others stale, which is what Serializable buys;
- `PayInv`: how the row's status, the wire, Ssentezo's record and the count of
  sends go together (`RowInv`, `SendInv`), what a handler at each step of `send`
  may rely on (`CallInv`), and that a run of `settle` about to write an outcome
  has one that Ssentezo's record supports (`SettleInv`).

Each action preserves each part; `Invariance` closes the argument and the
theorems are its consequences. For the refinement each action maps to a step of
`Payout` or leaves `earned`, `total` and the abstract `money` unchanged.
`CoinsProofs` has the facts about sums, which are counted coin by coin so that
the library's cardinality theorems apply.

`PaymentsProofs` proves, for any payments and webhooks and any number of crashes,
`TypeOK`, `IssuedOnce`, `VoucherIsPaid` and `SaleIsBooked`. Its invariant `PInv`
adds to the type: a run of `reconcile` that is about to issue a voucher has
Ssentezo's word for the money (`RunInv`); a payment that can still be claimed has
no voucher yet (`RowInv`), which is what the conditional update of the claim
buys; the run that issued a voucher is the only one to text it (`TextInv`); and
Ssentezo knows nothing of a request that is unsent, under way or refused (`BuyInv`).

`ServerProofs` and `AgentProofs` hold what is proved of the smaller components by
themselves, of the API and the staff web app in the first, of the agent in the
second. `CodeOpensOnce` is proved for any number of codes, requests and
confirmations, and any restarts: a typed code has been sent (`TypedWasSent`), a
code that can still be confirmed has opened nothing (`OpenedOnce`), and a
confirmation past the check is alone with its code, which no longer stands
(`PassedAlone`). It is proved that the page's offer can be paid out, for
every schedule and balance: what the search has found so far fits (`Found`).

`VouchersProofs` proves, for any vouchers, devices, requests, jobs, limits, losses and
restarts, `TypeOK`, `UnusedCarriesNobody`, `OnlineIsRecorded` and
`ExpiredStaysExpired`. Its invariant `VInv` says of each handler what the snapshot it
took still guarantees when it acts on it, whoever ran in between: the voucher it
is about exists (`About`); the device it goes on with has a row, as no row is
ever deleted (`HasRow`); it opens a session only on a voucher that it activated or
read as used (`Activates`); and while a handler that saw the voucher unused is
about, no deadline passes, and one that passed stays so (`InTime`).
`RowsInv` is the same of the list the sync has fetched, `JobInv`
of the admin's and the cron's passes.

Three more invariants hold only where handlers do not overlap (`MaxAtOnce = 1`, a
hypothesis of the theorems as it is a bound of the run): `OneOpenSession`,
`WithinLimit` and `OneFreeVoucher`. The last two assume that nothing is unblocked
as well, and the last that free vouchers are neither typed in nor paid for; each
of these hypotheses is needed, as the list under "Runs" shows. The handler that
runs has closed what it is about to open (`NoneOpen`), has room for the device it
is about to add (`MakesRoom`), or has found no other live free voucher
(`OnlyOne`). The argument has two halves: an action of the handler itself keeps
its own promise, and whatever runs between its awaits, jobs, cron, agent, traffic
and time, only takes devices and sessions away.

`AdmissionProofs` proves `TypeOK` whatever overlaps. Where operations on one MAC
do not (`Overlap = {}`, the one hypothesis of what follows), it proves `OwnClass`
with `SerialInv`: each MAC is in the hands of one worker (`Alone`), calls wait for
the bootstrap (`Booting`), an ID below the next new one is free once or one MAC's,
never both (`Classes`), and the one a worker gives back is its MAC's (`Returns`). `FirewallKnown` is proved from the same
hypothesis, for any failures of nft and tc and however few IDs there are, with the
exceptions it states: `KnownInv` says what a worker relies on at each step
(`Relies`) and that a MAC nothing works on is filtered in its class if registered
(`Filtered`), has no class otherwise (`Classless`), and is not in the firewall
unregistered (`Watched`), each but for a MAC marked `bare` or `leaked`. That the
marks mean no more than a failure of the MAC's own is in the actions that set and
clear them: an operation that goes through is answerable for its MAC again, except
that an admission that keeps the class ID a failure left bare keeps it so.

`PlatformProofs` proves the invariants of `Platform_steps` and the action property
`LoneEditSettles`. Each is proved of its component's own next-state relation
(`ServerProofs`, `AgentProofs`), and one lemma each says that every step of
`MCPlatform` takes that or leaves the component alone.

- `BytesCountOnce` (`MeterInv`): what is still to be charged has not been charged
  (`Uncharged`), nor has what a sample under way has read (`ReadOnce`), unless an
  entry was replaced or shared; the same of the tick, unless a reading failed.
- `PresenceIsReal` (`FreshInv`, `SoundInv`): an address that answered leads to
  routers that had power when it did (`Backed`), and so on upwards. `Wiring` assumes
  that each chain of uplinks ends at a root. The recursion of the chain is argued
  by a least number, as the provers do no induction.
- `FeesAgree` (`FeesInv`, with the search's `FInv`): the bands of the table
  cover every amount once.
- `BooksAgree` (`BooksDated`): nothing has happened later than now. `Calendar`
  assumes a length of the day and a local day that begins within it.
- `OwnSessionOwnLogin` (`TurnsInv`, `LoginInv`): a turn that is at work is at the
  head of its conversation's queue, so only one is; sessions in memory and in the
  file belong to the folder and engine they are kept under.
- `GuessingIsTold` (`GuessInv`): only logins raise notices about logins. A
  successful login announces itself on another topic, which excuses nothing; the run
  has two login slots so that notices meet.
- `LoneEditSettles` (`ConsoleInv`): what a request has read is still so if nothing
  overlapped it (`LoneKnows`).
- `UsageAccounted` (`AcctInv`, `LogInv`, `FlowInv`) says that sessions and voucher
  agree, that the table has what the reports listed for it, and that a tick's apps
  add up to what that tick has billed; that all of this is what the customer was
  charged, it does not say, and it is not so (`ChargedIsSplit`, under "Runs"). A report is billed to a
  session, and moving it on takes from what is due what it adds to the voucher; the
  lines of the log come in the order of their lookups, so the last one read of
  a site is the newest; a split scaled down or topped up adds up, and rounding
  moves each share by half a byte. Sums are counted by `Coins`, and a bound on
  each row bounds the sum (`SumWithin`). `Metered`, `Logging` and `Splitting`
  assume finite sets, natural numbers for bounds, and that `None` and
  `Unattributed` are no sites.

- `TypeOK` (`PlatformTypes`): what the types alone do not say, and the steps that
  keep them need. A notice under way has a subject and a word (`NotesTyped`); a
  scan that has ended waits for no answer (`LeasedTyped`); a turn of the bridge
  that waits is in the queue of its own conversation, once (`Lined`); an admission
  under way leaves room for the entry it will make (`MeterBounded`); nothing has
  happened later than now, and now is bounded (`BooksTypes`); a staff page's call
  asks for a range there is (`AdminTypes`). `PlatformConstants` collects what the
  components assume: bounds are natural numbers, sets that are summed over are
  finite, `None` is no member of the sets it stands beside, `Wiring` and
  `Calendar` as above, and `Parts` names parts there are. The runs' values
  satisfy each of them, which was checked by evaluating them.

Model-checked only: all liveness, `LoginMoves` and the other leads-to properties
included, which is out of the prover's reach, as are `ENABLED` and induction over
data. The proofs assume no fairness.

## Not modelled

- Customers, settings, the audit log and the dashboard: single-row upserts,
  appends and queries that nothing else waits for. Interface set-up (VLANs,
  dnsmasq and shell wrappers), installation and deployment: scripts run once.
- Within modelled parts: `findRouter`, live rates and the catalogue of domains,
  the WhatsApp bot's own conversations, password hashes and roles, rate limits,
  creating rows that start inactive, CSV, everything that is drawn. Failed
  logins are counted for one address; the code's map forgets the oldest of 1000.
- Some behaviour that reading the code showed has no run, because it is one actor
  or two clicks and no property of the models would say more than this list:
  pressing Enter twice in the withdrawal's password prompt sends two requests, as
  the key does not look at `busy` (`Withdrawals.tsx:77`); a wrong password at
  login is answered 401, on which the web client forgets the token and loads
  /login again, so the message is lost, and a late 401 in one tab forgets the token
  another has just got; the page's search ends at 0 when half the balance lies
  below the minimum (`Withdrawals.tsx:132`); "Reconnect" shows the forms
  without loading the packages (`main.ts:178`); two admins can deactivate each other,
  and a token stays good until it expires; voucher sales are valued at the
  package's present price; routers in a cycle of parents vanish from the tree, as
  only a router that is its own parent is refused; `retryFailed` is
  called by nobody; the dashboard's SMS count uses the server's time zone; overlapping
  reports may write back an old `ttlAnomalyScore`; lines written
  between the read and the truncation of the DNS log are lost, and when the
  truncation keeps failing its first 2 MB are read again and again.

## Plan

What is left, in the order of its worth:

1. An abstract `Gate` (who is let through) that `Admission` implements when
   operations on a MAC do not overlap, and that `Vouchers` can use as its agent.
2. `findRouter` and the TTL score against reference definitions; the live view's
   joins; the bot's conversations.
