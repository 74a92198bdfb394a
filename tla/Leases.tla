------------------------------- MODULE Leases -------------------------------
(* lease-watcher.ts, which offers every DHCP lease of a device that is not  *)
(* admitted to the API, and isPresent of arp.ts, by which the API asks      *)
(* whether a device is still there.  What the API does with an offer is     *)
(* Vouchers' AutoLogin: here it admits the device if it is entitled.        *)
EXTENDS Naturals, FiniteSets, Option

CONSTANTS Device, Address,
          MaxLeases,     \* leases a device takes
          MaxMisses      \* offers that fail

VARIABLES lease,      \* the current lease of each device, 0 before the first
          entitled, admitted,
          checked,    \* lastChecked: [lease, due], due once it may be asked again
          scan,       \* [on, read, todo, ask]: the leases read and those still to do
          rescan,
          served,     \* whether the API has answered the offer under way
          misses,
          holds,      \* the address at which each device can be reached now, or None
          neigh,      \* the neighbour table: the device behind an address, or None
          inquiry,      \* isPresent: [pc, mac, todo, ip]
          seen        \* whether the device was there at some time of the inquiry
watchVars == <<lease, entitled, admitted, checked, scan, rescan, served, misses>>
probeVars == <<holds, neigh, inquiry, seen>>
leaseVars == <<watchVars, probeVars>>

NoScan == [on |-> FALSE, read |-> [d \in Device |-> 0], todo |-> {}, ask |-> None]
NoProbe == [pc |-> "idle", mac |-> None, todo |-> {}, ip |-> None]

LeasesInit ==
    /\ lease = [d \in Device |-> 0] /\ entitled = {} /\ admitted = {}
    /\ checked = [d \in Device |-> [lease |-> 0, due |-> TRUE]]
    /\ scan = NoScan /\ rescan = FALSE /\ served = FALSE /\ misses = 0
    /\ holds = [d \in Device |-> None] /\ neigh = [a \in Address |-> None]
    /\ inquiry = NoProbe /\ seen = FALSE

-----------------------------------------------------------------------------
\* scan, called by the poll, by the file watch and by itself: it reads the
\* lease file, or asks the scan under way to be followed by another.
Begun(on) == [NoScan EXCEPT !.on = on, !.read = IF on THEN lease ELSE NoScan.read,
                            !.todo = IF on THEN {d \in Device : lease[d] # 0} ELSE {}]
Scan ==
    /\ IF scan.on THEN rescan' = TRUE /\ UNCHANGED scan
       ELSE scan' = Begun(TRUE) /\ UNCHANGED rescan
    /\ UNCHANGED <<lease, entitled, admitted, checked, served, misses, probeVars>>

\* Mutant: a lease offered once is not offered again.
SkippedForGood(d) == d \in admitted \/ checked[d].lease = scan.read[d]

Skipped(d) == d \in admitted \/ (checked[d].lease = scan.read[d] /\ ~checked[d].due)
SkipLease(d) ==
    /\ scan.on /\ scan.ask = None /\ d \in scan.todo /\ Skipped(d)
    /\ scan' = [scan EXCEPT !.todo = @ \ {d}]
    /\ UNCHANGED <<lease, entitled, admitted, checked, rescan, served, misses, probeVars>>
Offer(d) ==
    /\ scan.on /\ scan.ask = None /\ d \in scan.todo /\ ~Skipped(d)
    /\ checked' = [checked EXCEPT ![d] = [lease |-> scan.read[d], due |-> FALSE]]
    /\ scan' = [scan EXCEPT !.todo = @ \ {d}, !.ask = d]
    /\ served' = FALSE
    /\ UNCHANGED <<lease, entitled, admitted, rescan, misses, probeVars>>

\* The API admits an entitled device before it answers.
ApiServes ==
    /\ scan.ask # None /\ ~served /\ served' = TRUE
    /\ admitted' = admitted \cup ({scan.ask} \cap entitled)
    /\ UNCHANGED <<lease, entitled, checked, scan, rescan, misses, probeVars>>
OfferAnswered ==
    /\ scan.ask # None /\ served
    /\ scan' = [scan EXCEPT !.ask = None]
    /\ UNCHANGED <<lease, entitled, admitted, checked, rescan, served, misses, probeVars>>
\* No answer within eight seconds: the lease is due again ten seconds later
\* instead of five minutes later, which RecheckDue does not tell apart.
OfferFails ==
    /\ scan.ask # None /\ misses < MaxMisses /\ misses' = misses + 1
    /\ scan' = [scan EXCEPT !.ask = None]
    /\ UNCHANGED <<lease, entitled, admitted, checked, rescan, served, probeVars>>
RecheckDue(d) ==
    /\ ~checked[d].due
    /\ checked' = [checked EXCEPT ![d].due = TRUE]
    /\ UNCHANGED <<lease, entitled, admitted, scan, rescan, served, misses, probeVars>>

ScanEnds ==
    /\ scan.on /\ scan.ask = None /\ scan.todo = {}
    /\ scan' = Begun(rescan) /\ rescan' = FALSE
    /\ UNCHANGED <<lease, entitled, admitted, checked, served, misses, probeVars>>

TakeLease(d) ==
    /\ lease[d] < MaxLeases
    /\ lease' = [lease EXCEPT ![d] = @ + 1]
    /\ UNCHANGED <<entitled, admitted, checked, scan, rescan, served, misses, probeVars>>
\* A payment elsewhere; a session that ends, with its admission.
Entitle(d) ==
    /\ d \notin entitled /\ entitled' = entitled \cup {d}
    /\ UNCHANGED <<lease, admitted, checked, scan, rescan, served, misses, probeVars>>
EntitlementEnds(d) ==
    /\ d \in entitled
    /\ entitled' = entitled \ {d} /\ admitted' = admitted \ {d}
    /\ UNCHANGED <<lease, checked, scan, rescan, served, misses, probeVars>>

WatchStep == \/ \E d \in Device : SkipLease(d) \/ Offer(d)
             \/ ApiServes \/ OfferAnswered \/ OfferFails \/ ScanEnds
WatchNext == Scan \/ WatchStep
             \/ \E d \in Device : RecheckDue(d) \/ TakeLease(d) \/ Entitle(d) \/ EntitlementEnds(d)

-----------------------------------------------------------------------------
\* isPresent, for one address after the other

\* The address of the session's device row, and those of its leases.
ProbeStart(d, ips) ==
    /\ inquiry.pc = "idle"
    /\ inquiry' = [pc |-> "next", mac |-> d, todo |-> ips, ip |-> None]
    /\ seen' = (holds[d] # None)
    /\ UNCHANGED <<watchVars, holds, neigh>>
\* Mutant: the entry from earlier is left in the table.
ProbeTrusts(a) ==
    /\ inquiry.pc = "next" /\ a \in inquiry.todo
    /\ inquiry' = [inquiry EXCEPT !.pc = "show", !.todo = @ \ {a}, !.ip = a]
    /\ UNCHANGED <<watchVars, holds, neigh, seen>>

\* ip neigh del
ProbeForgets(a) ==
    /\ inquiry.pc = "next" /\ a \in inquiry.todo
    /\ neigh' = [neigh EXCEPT ![a] = None]
    /\ inquiry' = [inquiry EXCEPT !.pc = "ping", !.todo = @ \ {a}, !.ip = a]
    /\ UNCHANGED <<watchVars, holds, seen>>
\* ping makes the kernel ask who has the address.
Behind(a) == {d \in Device : holds[d] = a}
ProbePings ==
    /\ inquiry.pc = "ping"
    /\ neigh' = [neigh EXCEPT ![inquiry.ip] = IF Behind(inquiry.ip) = {} THEN None
                                            ELSE CHOOSE d \in Behind(inquiry.ip) : TRUE]
    /\ inquiry' = [inquiry EXCEPT !.pc = "show"]
    /\ UNCHANGED <<watchVars, holds, seen>>
ProbeLooks ==
    /\ inquiry.pc = "show"
    /\ inquiry' = [inquiry EXCEPT !.pc = IF neigh[inquiry.ip] = inquiry.mac THEN "present" ELSE "next"]
    /\ UNCHANGED <<watchVars, holds, neigh, seen>>
ProbeGivesUp ==
    /\ inquiry.pc = "next" /\ inquiry.todo = {}
    /\ inquiry' = [inquiry EXCEPT !.pc = "absent"]
    /\ UNCHANGED <<watchVars, holds, neigh, seen>>
ProbeAnswered ==
    /\ inquiry.pc \in {"present", "absent"}
    /\ inquiry' = NoProbe
    /\ UNCHANGED <<watchVars, holds, neigh, seen>>

\* A device joins, leaves or changes its address; its own traffic puts it in
\* the table, where it stays.
Roam(d, a) ==
    /\ a # holds[d] /\ (a # None => Behind(a) = {})
    /\ holds' = [holds EXCEPT ![d] = a]
    /\ neigh' = IF a = None THEN neigh ELSE [neigh EXCEPT ![a] = d]
    /\ seen' = (seen \/ (inquiry.mac = d /\ a # None))
    /\ UNCHANGED <<watchVars, inquiry>>

ProbeNext ==
    \/ \E d \in Device, ips \in SUBSET Address : ProbeStart(d, ips)
    \/ \E a \in Address : ProbeForgets(a)
    \/ ProbePings \/ ProbeLooks \/ ProbeGivesUp \/ ProbeAnswered
    \/ \E d \in Device, a \in Address \cup {None} : Roam(d, a)
LeasesNext == WatchNext \/ ProbeNext
-----------------------------------------------------------------------------
LeasesTypeOK ==
    /\ lease \in [Device -> 0..MaxLeases] /\ admitted \subseteq entitled /\ entitled \subseteq Device
    /\ checked \in [Device -> [lease : 0..MaxLeases, due : BOOLEAN]]
    /\ scan.todo \subseteq Device /\ scan.ask \in Maybe(Device) /\ (scan.ask # None => scan.on)
    /\ {rescan, served, seen} \subseteq BOOLEAN /\ misses \in 0..MaxMisses
    /\ holds \in [Device -> Maybe(Address)] /\ neigh \in [Address -> Maybe(Device)]
    /\ inquiry \in [pc : {"idle", "next", "ping", "show", "present", "absent"},
                    mac : Maybe(Device), todo : SUBSET Address, ip : Maybe(Address)]

\* A device that keeps its lease and stays entitled is admitted in the end,
\* without opening the portal: offers that fail, scans that overlap and a lease
\* renewed behind a scan's back only delay it.
EntitledGetsIn ==
    \A d \in Device : <>[](d \in entitled /\ lease[d] # 0) => <>[](d \in admitted)

\* isPresent says yes only of a device that was on the network at some time
\* while it looked: a neighbour entry left from earlier does not count.
PresenceIsFresh == inquiry.pc = "present" => seen
=============================================================================
