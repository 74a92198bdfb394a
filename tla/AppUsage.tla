------------------------------ MODULE AppUsage ------------------------------
(* How the agent knows what a device's bytes were used for: dns-log.ts reads *)
(* what dnsmasq logs and remembers which site an address was looked up for,  *)
(* and a tick of usage.ts compares the connection table with the last one    *)
(* and splits the bytes it has counted itself (what the report loop charges  *)
(* is in module Metering) across apps.  One device that stays admitted, one  *)
(* direction; an app is the site it was looked up for.                       *)
EXTENDS Naturals, Sequences, FiniteSets, FiniteSetsExt, Coins, Option

CONSTANTS Site,
          MaxLookups,    \* lines dnsmasq writes
          LogLimit,      \* MAX_LOG_BYTES, in halves of a line
          TruncateFaults,\* how often truncating the log may fail
          AgentStarts,   \* restarts of the agent
          Flow,          \* connections of the device: keys of the connection table
          MaxMoved       \* bytes the device moves

VARIABLES dnsLog,    \* the lines in the file
          half,      \* whether the last one is still without its end
          lookups,   \* lines written
          offset,    \* how far the file has been read, in halves of a line
          dnsPoll,   \* pollDnsLog: [pc, size]
          mapping,   \* byIp: the number of the lookup remembered for each site, or 0
          truncFaults, starts,
          flows,     \* the kernel's connection table: bytes of each flow, or None
          moved,
          counter,   \* bytes of the device's class
          lastTc,    \* what the last tick read of it, or None
          lastFlows, \* bytes of each flow at the last tick, or None
          firstTick,
          appTick,   \* a tick under way: [on, billed]
          split      \* the last tick's result: [billed, seen, parts, den]
lookupVars == <<dnsLog, half, lookups, offset, dnsPoll, mapping, truncFaults>>
flowVars == <<flows, moved, counter, lastTc, lastFlows, firstTick, appTick, split>>
appVars == <<lookupVars, flowVars, starts>>

Unattributed == "Other"
App == Site \cup {Unattributed}
Fragment == [site |-> None, no |-> 0]
NoAppTick == [on |-> FALSE, billed |-> 0]
NoSplit == [billed |-> 0, seen |-> [a \in App |-> 0], parts |-> [a \in App |-> 0], den |-> 1]

AppInit ==
    /\ dnsLog = <<>> /\ half = FALSE /\ lookups = 0 /\ offset = 0
    /\ dnsPoll = [pc |-> "idle", size |-> 0] /\ mapping = [s \in Site |-> 0]
    /\ truncFaults = 0 /\ starts = 0
    /\ flows = [f \in Flow |-> None] /\ moved = 0 /\ counter = 0 /\ lastTc = None
    /\ lastFlows = [f \in Flow |-> None] /\ firstTick = TRUE
    /\ appTick = NoAppTick /\ split = NoSplit

-----------------------------------------------------------------------------
\* The log.  dnsmasq appends a line, of which a reader may see the first half.
WriteLookup(s) ==
    /\ lookups < MaxLookups /\ ~half /\ lookups' = lookups + 1
    /\ dnsLog' = Append(dnsLog, [site |-> s, no |-> lookups'])
    /\ half' \in BOOLEAN
    /\ UNCHANGED <<offset, dnsPoll, mapping, truncFaults, flowVars, starts>>
FinishLine ==
    /\ half /\ half' = FALSE
    /\ UNCHANGED <<dnsLog, lookups, offset, dnsPoll, mapping, truncFaults, flowVars, starts>>

LogSize == 2 * Len(dnsLog) - (IF half THEN 1 ELSE 0)
PollSize ==
    /\ dnsPoll.pc = "idle"
    /\ dnsPoll' = [pc |-> "read", size |-> LogSize]
    /\ offset' = IF LogSize < offset THEN 0 ELSE offset
    /\ UNCHANGED <<dnsLog, half, lookups, mapping, truncFaults, flowVars, starts>>

\* What is read of what the file had when its size was taken.
ReadUpTo == offset + (IF dnsPoll.size - offset < LogLimit THEN dnsPoll.size - offset ELSE LogLimit)
\* The last line's end in it; a half line is left for next time.
WholeLines == IF 2 * (ReadUpTo \div 2) > offset THEN 2 * (ReadUpTo \div 2) ELSE offset

\* parseDnsLogLine and remember, for the lines between two places of the file:
\* the last lookup of an address counts.
Remember(from, to) ==
    [s \in Site |->
       LET lines == {i \in 1..Len(dnsLog) : dnsLog[i].site = s /\ 2 * i - 2 >= from /\ 2 * i <= to}
       IN IF lines = {} THEN mapping[s] ELSE dnsLog[Max(lines)].no]

PollReads ==
    /\ dnsPoll.pc = "read"
    /\ mapping' = Remember(offset, WholeLines) /\ offset' = WholeLines
    /\ dnsPoll' = [dnsPoll EXCEPT !.pc = "trim"]
    /\ UNCHANGED <<dnsLog, half, lookups, truncFaults, flowVars, starts>>

\* The log is emptied once it is big enough, with what came in since; if that
\* fails it is read again.
PollTrims ==
    /\ dnsPoll.pc = "trim" /\ dnsPoll' = [dnsPoll EXCEPT !.pc = "idle"]
    /\ \/ offset < LogLimit /\ UNCHANGED <<dnsLog, offset, truncFaults>>
       \/ /\ offset >= LogLimit /\ offset' = 0
          /\ \/ dnsLog' = (IF half THEN <<Fragment>> ELSE <<>>) /\ UNCHANGED truncFaults
             \/ truncFaults < TruncateFaults /\ truncFaults' = truncFaults + 1 /\ UNCHANGED dnsLog
    /\ UNCHANGED <<half, lookups, mapping, flowVars, starts>>

\* The file stays, what was read of it is forgotten.
AppAgentRestart ==
    /\ starts < AgentStarts /\ starts' = starts + 1
    /\ offset' = 0 /\ dnsPoll' = [pc |-> "idle", size |-> 0] /\ mapping' = [s \in Site |-> 0]
    /\ lastTc' = None /\ lastFlows' = [f \in Flow |-> None] /\ firstTick' = TRUE
    /\ appTick' = NoAppTick /\ split' = NoSplit
    /\ UNCHANGED <<dnsLog, half, lookups, truncFaults, flows, moved, counter>>

LookupStep == (\E s \in Site : WriteLookup(s)) \/ FinishLine \/ PollSize \/ PollReads \/ PollTrims

-----------------------------------------------------------------------------
\* Connections.  The class counts packets that no flow in the table counts too.

FlowOpens(f) ==
    /\ flows[f] = None /\ flows' = [flows EXCEPT ![f] = 0]
    /\ UNCHANGED <<lookupVars, moved, counter, lastTc, lastFlows, firstTick, appTick, split, starts>>
FlowCloses(f) ==
    /\ flows[f] # None /\ flows' = [flows EXCEPT ![f] = None]
    /\ UNCHANGED <<lookupVars, moved, counter, lastTc, lastFlows, firstTick, appTick, split, starts>>
BytesMove(f) ==
    /\ moved < MaxMoved /\ moved' = moved + 1 /\ counter' = counter + 1
    /\ f \in Maybe({g \in Flow : flows[g] # None})
    /\ flows' = IF f = None THEN flows ELSE [flows EXCEPT ![f] = @ + 1]
    /\ UNCHANGED <<lookupVars, lastTc, lastFlows, firstTick, appTick, split, starts>>
\* The device is admitted again or on another router and gets a new class; if a
\* tick found it gone in between, its last reading is forgotten.
ClassRenewed ==
    /\ counter' = 0 /\ lastTc' \in {lastTc, None}
    /\ UNCHANGED <<lookupVars, flows, moved, lastFlows, firstTick, appTick, split, starts>>

\* A tick, if none is under way, reads the class, or nothing when that fails,
\* and bills what is new; a first reading and a counter that went back are
\* where it starts from.
AppTickStart ==
    /\ ~appTick.on
    /\ \E now \in {counter, 0} :
         /\ lastTc' = now
         /\ appTick' = [on |-> TRUE,
                        billed |-> IF lastTc = None \/ now < lastTc THEN 0 ELSE now - lastTc]
    /\ UNCHANGED <<lookupVars, flows, moved, counter, lastFlows, firstTick, split, starts>>

\* parseConntrack: the flows of the device; none if the table cannot be read.
FlowsRead == {[f \in Flow |-> flows[f]], [f \in Flow |-> None]}
\* What each has moved since the last tick; on the first one it is history.
Moved(now, f) ==
    IF firstTick \/ now[f] = None THEN 0
    ELSE LET before == IF lastFlows[f] = None THEN 0 ELSE lastFlows[f]
         IN IF now[f] > before THEN now[f] - before ELSE 0
\* The site its destination was looked up for in the last two hours; what the
\* port tells otherwise is unattributed here.
AppFor(f, known) == IF known[f] = None THEN Unattributed ELSE known[f]
Seen(now, known) ==
    [a \in App |-> SumOf({f \in Flow : AppFor(f, known) = a}, [f \in Flow |-> Moved(now, f)])]

\* splitAcrossApps, in parts of 1/den: in the proportions seen, never more than
\* what is billed, and the rest unattributed.
Total(seen) == SumOf(App, seen)
SplitAcrossApps(billed, seen) ==
    LET over == Total(seen) > billed
        den == IF over THEN Total(seen) ELSE 1
        rest == IF over THEN 0 ELSE billed - Total(seen)
    IN [billed |-> billed, seen |-> seen, den |-> den,
        parts |-> [a \in App |-> (IF over THEN seen[a] * billed ELSE seen[a])
                                 + (IF a = Unattributed THEN rest ELSE 0)]]

AppTickEnd ==
    /\ appTick.on /\ appTick' = NoAppTick /\ firstTick' = FALSE
    /\ \E now \in FlowsRead :
         /\ lastFlows' = now
         /\ split' \in {SplitAcrossApps(appTick.billed, Seen(now, known)) :
                          known \in [Flow -> Maybe(Site)]}
    /\ UNCHANGED <<lookupVars, flows, moved, counter, lastTc, starts>>

\* drainAppUsage: each app's bytes, rounded.
Reported(a) == (2 * split.parts[a] + split.den) \div (2 * split.den)

FlowStep ==
    \/ \E f \in Flow : FlowOpens(f) \/ FlowCloses(f)
    \/ \E f \in Maybe(Flow) : BytesMove(f)
    \/ ClassRenewed \/ AppTickStart \/ AppTickEnd
AppNext == LookupStep \/ FlowStep \/ AppAgentRestart
-----------------------------------------------------------------------------
AppTypeOK ==
    /\ Len(dnsLog) <= lookups + 1 /\ lookups \in 0..MaxLookups /\ half \in BOOLEAN
    /\ (half => dnsLog # <<>>)
    /\ dnsPoll.pc \in {"idle", "read", "trim"} /\ offset \in Nat
    /\ mapping \in [Site -> 0..MaxLookups]
    /\ truncFaults \in 0..TruncateFaults /\ starts \in 0..AgentStarts
    /\ flows \in [Flow -> Maybe(0..MaxMoved)] /\ lastFlows \in [Flow -> Maybe(0..MaxMoved)]
    /\ {moved, counter} \subseteq 0..MaxMoved /\ lastTc \in Maybe(0..MaxMoved) /\ firstTick \in BOOLEAN

\* Reading never stands inside a line, and every lookup before it that the file
\* still has is remembered, or a later one of the same address is: with lines
\* half written, a log truncated or not, and restarts.
LookupsRead ==
    /\ offset % 2 = 0
    /\ \A i \in 1..Len(dnsLog) :
         dnsLog[i].site # None /\ 2 * i <= offset => mapping[dnsLog[i].site] >= dnsLog[i].no

\* The parts of a tick add up to what that tick itself has billed, whatever
\* the connection table shows and however the class's counter went back; no app
\* gets more than was seen of it, and rounding each app moves the sum by half a
\* byte an app at most.
AppsAddUp ==
    LET sum == SumOf(App, split.parts)
        told == SumOf(App, [a \in App |-> Reported(a)])
    IN /\ sum = split.billed * split.den
       /\ \A a \in Site : split.parts[a] <= split.seen[a] * split.den
       /\ 2 * told <= 2 * split.billed + Cardinality(App)
       /\ 2 * split.billed <= 2 * told + Cardinality(App)
=============================================================================
