----------------------------- MODULE Accounting -----------------------------
(* What the API does with the samples the agent reports for one device:     *)
(* reportTraffic of sessions.service.ts adds the bytes of the device's class *)
(* to the open session and to its voucher and, at the end, those of its apps *)
(* to the hourly table of the Usage page, and flags a session whose packets *)
(* look like several machines'.  The apps come from a counter of their own  *)
(* (modules Metering and AppUsage) and need not match the class.  The       *)
(* awaits of two reports interleave with each other and with redemptions    *)
(* that close the session and open another (module Vouchers).               *)
EXTENDS Naturals, FiniteSets, FiniteSetsExt, Coins, Option

CONSTANTS Session, Code,   \* sessions the device may get; vouchers
          CodeOf,          \* the voucher of each session
          Report,          \* reports that may be under way at once
          Bytes,           \* bytes of a sample, of its class or its apps
          Sightings,       \* sets of TTLs that tcpdump may have seen with it
          MaxPosts, MaxApiDeaths

VARIABLES open,        \* the device's open session, or None
          unopened,    \* sessions still to come
          sessionBytes, voucherBytes,
          score,       \* ttlAnomalyScore in halves: 0, 1 or 2
          flagged,     \* sessions reported as shared
          report,      \* [pc, session, bytes, apps, ttl, was]: apps is None if
                       \* the sample lists none; was is the score read
          hourly,      \* bytes in UsageHourly
          posted,      \* bytes of all samples, as the table is to have them
          posts, apiDeaths
acctVars == <<open, unopened, sessionBytes, voucherBytes, score, flagged, report, hourly,
              posted, posts, apiDeaths>>

Waiting == [pc |-> "idle", session |-> None, bytes |-> 0, apps |-> None, ttl |-> None, was |-> 0]
Suspicious == 1   \* RESHARE_SUSPICION_THRESHOLD

AccountingInit ==
    /\ open = None /\ unopened = Session
    /\ sessionBytes = [s \in Session |-> 0] /\ voucherBytes = [v \in Code |-> 0]
    /\ score = [s \in Session |-> 0] /\ flagged = {}
    /\ report = [r \in Report |-> Waiting]
    /\ hourly = 0 /\ posted = 0 /\ posts = 0 /\ apiDeaths = 0

\* scoreTtlAnomaly: each kind of machine starts its packets at its own TTL,
\* and kinds beyond the first count half each.
Origin(ttl) == Min({d \in {64, 128, 255} : ttl <= d})
TtlScore(ttls) ==
    LET kinds == Cardinality({Origin(t) : t \in ttls})
    IN IF kinds <= 1 THEN 0 ELSE Min({2, kinds - 1})

\* What goes to the table: the apps' bytes, or the class's without apps.
Tabled(p) == IF p.apps = None THEN p.bytes ELSE p.apps

PostReport(r, n, apps, seen) ==
    /\ report[r].pc = "idle" /\ posts < MaxPosts /\ posts' = posts + 1
    /\ report' = [report EXCEPT ![r] =
                    [pc |-> "find", session |-> None, bytes |-> n, apps |-> apps,
                     ttl |-> IF seen = {} THEN None ELSE TtlScore(seen), was |-> 0]]
    /\ posted' = posted + Tabled(report'[r])
    /\ UNCHANGED <<open, unopened, sessionBytes, voucherBytes, score, flagged, hourly, apiDeaths>>

\* The open session is what is billed, whatever happens to it meanwhile.
FindSession(r) ==
    /\ report[r].pc = "find"
    /\ report' = [report EXCEPT ![r] =
                    IF open = None THEN [@ EXCEPT !.pc = "insert"]
                    ELSE [@ EXCEPT !.pc = "session", !.session = open, !.was = score[open]]]
    /\ UNCHANGED <<open, unopened, sessionBytes, voucherBytes, score, flagged, hourly, posted, posts, apiDeaths>>

\* Without a sighting the score that was read is written again.
NewScore(p) == IF p.ttl = None THEN p.was ELSE p.ttl
AddToSession(r) ==
    LET p == report[r] IN
    /\ p.pc = "session"
    /\ sessionBytes' = [sessionBytes EXCEPT ![p.session] = @ + p.bytes]
    /\ score' = [score EXCEPT ![p.session] = NewScore(p)]
    /\ report' = [report EXCEPT ![r].pc = IF p.bytes > 0 THEN "voucher" ELSE "flag"]
    /\ UNCHANGED <<open, unopened, voucherBytes, flagged, hourly, posted, posts, apiDeaths>>

\* Mutant: the voucher gets what the session has.
SetVoucher(r) ==
    LET p == report[r] IN
    /\ p.pc = "voucher"
    /\ voucherBytes' = [voucherBytes EXCEPT ![CodeOf[p.session]] = sessionBytes[p.session]]
    /\ report' = [report EXCEPT ![r].pc = "flag"]
    /\ UNCHANGED <<open, unopened, sessionBytes, score, flagged, hourly, posted, posts, apiDeaths>>

\* "Incremented, not recomputed from this session"
AddToVoucher(r) ==
    LET p == report[r] IN
    /\ p.pc = "voucher"
    /\ voucherBytes' = [voucherBytes EXCEPT ![CodeOf[p.session]] = @ + p.bytes]
    /\ report' = [report EXCEPT ![r].pc = "flag"]
    /\ UNCHANGED <<open, unopened, sessionBytes, score, flagged, hourly, posted, posts, apiDeaths>>

\* Only a fresh sample that crosses the threshold is flagged.
Crossed(p) == p.ttl # None /\ p.ttl >= Suspicious /\ p.was < Suspicious
FlagResharing(r) ==
    LET p == report[r] IN
    /\ p.pc = "flag"
    /\ flagged' = IF Crossed(p) THEN flagged \cup {p.session} ELSE flagged
    /\ report' = [report EXCEPT ![r].pc = "insert"]
    /\ UNCHANGED <<open, unopened, sessionBytes, voucherBytes, score, hourly, posted, posts, apiDeaths>>

\* With the bytes of a device that has no session, too.
InsertHourly(r) ==
    /\ report[r].pc = "insert"
    /\ hourly' = hourly + Tabled(report[r])
    /\ report' = [report EXCEPT ![r] = Waiting]
    /\ UNCHANGED <<open, unopened, sessionBytes, voucherBytes, score, flagged, posted, posts, apiDeaths>>

\* A redemption, a release or the cron changes the open session.
SessionTurns(s) ==
    /\ open # s /\ s \in Maybe(unopened)
    /\ open' = s /\ unopened' = unopened \ {s}
    /\ UNCHANGED <<sessionBytes, voucherBytes, score, flagged, report, hourly, posted, posts, apiDeaths>>

\* The API dies with the reports it was working on; the agent sends none again.
ApiDies ==
    /\ apiDeaths < MaxApiDeaths /\ apiDeaths' = apiDeaths + 1
    /\ report' = [r \in Report |-> Waiting]
    /\ UNCHANGED <<open, unopened, sessionBytes, voucherBytes, score, flagged, hourly, posted, posts>>

ReportStep(r) == \/ FindSession(r) \/ AddToSession(r) \/ AddToVoucher(r) \/ FlagResharing(r)
                 \/ InsertHourly(r)
AccountingNext ==
    \/ \E r \in Report : ReportStep(r)
                       \/ (\E n \in Bytes, apps \in Maybe(Bytes), seen \in Sightings :
                              PostReport(r, n, apps, seen))
    \/ \E s \in Maybe(Session) : SessionTurns(s)
    \/ ApiDies

-----------------------------------------------------------------------------
AccountingTypeOK ==
    /\ open \in Maybe(Session) /\ unopened \subseteq Session /\ open \notin unopened
    /\ sessionBytes \in [Session -> Nat] /\ voucherBytes \in [Code -> Nat]
    /\ score \in [Session -> 0..2] /\ flagged \subseteq Session
    /\ report \in [Report -> [pc : {"idle", "find", "session", "voucher", "flag", "insert"},
                              session : Maybe(Session), bytes : Nat, apps : Maybe(Nat),
                              ttl : Maybe(0..2), was : 0..2]]
    /\ {hourly, posted} \subseteq Nat /\ posts \in 0..MaxPosts /\ apiDeaths \in 0..MaxApiDeaths

\* What a voucher has used is what its sessions have used, over reconnects and
\* overlapping reports, up to the reports that are between the two updates or
\* were cut off there; and the hourly table has every byte that was posted for
\* it, up to the reports under way, if none was cut off.  The data cap and the
\* Usage page rest on it; they need not agree with each other.
Between(v) == {r \in Report : report[r].pc = "voucher" /\ CodeOf[report[r].session] = v}
Carried == [r \in Report |-> report[r].bytes]
DueTo(v) == SumOf(Between(v), Carried)
ToBeTabled == [r \in Report |-> Tabled(report[r])]
UsedBy(v) == SumOf({s \in Session : CodeOf[s] = v}, sessionBytes)
UsageAddsUp ==
    /\ \A v \in Code : IF apiDeaths = 0 THEN voucherBytes[v] + DueTo(v) = UsedBy(v)
                                        ELSE voucherBytes[v] + DueTo(v) <= UsedBy(v)
    /\ apiDeaths = 0 => hourly + SumOf(Report, ToBeTabled) = posted
=============================================================================
