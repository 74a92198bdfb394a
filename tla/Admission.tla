------------------------------ MODULE Admission ------------------------------
(***************************************************************************)
(* Inside the network-agent: the nftables set that lets MACs through, the  *)
(* in-memory registry of admitted MACs, the traffic-shaping classes, and   *)
(* what rewrites them at the same time: /admit and /revoke calls, the sync *)
(* with the API, the expiry sweep and the bootstrap.                       *)
(*                                                                         *)
(* A step is either the effect of one shell command (nft, tc) or the code  *)
(* that runs between two awaits.  A firewall element's own timeout, hours  *)
(* away, is modelled for a session whose end has passed and for an element *)
(* that no entry stands for.                                               *)
(***************************************************************************)
EXTENDS Naturals, FiniteSets

CONSTANTS
    Mac,        \* device MAC addresses
    Router,     \* the configured segments
    Call,       \* the HTTP calls from the API; each happens at most once
    Last,       \* LAST_MINOR - FIRST_MINOR + 1: number of class IDs
    Overlap,    \* what may run at the same time for one MAC: "calls", and "boot"
                \* for calls served while the networking is being set up
    Faults,     \* what may fail: "fetch", "nft", "shape" (a tc command), "boot",
                \* "crash"
    MaxFaults,  \* bound on the failures
    Null

ASSUME AdmissionAssumption ==
    /\ IsFiniteSet(Mac) /\ Null \notin Mac
    /\ Router # {} /\ Null \notin Router
    /\ Null \notin [rt : Router, at : {"old", "new"}]
    /\ {"sync", "sweep"} \cap Call = {}
    /\ Last \in Nat \ {0} /\ MaxFaults \in Nat

VARIABLES
    fw,       \* authorized_macs, the nftables set
    reg,      \* admitted: the entry of each MAC, or Null
    ended,    \* MACs whose entry's sessionExpiresAt has passed
    minorOf,  \* minorByMac, 0 for none
    free,     \* freeMinors: how often each ID is on it; 2 is twice or more
    next,     \* nextMinor - FIRST_MINOR + 1
    filters,  \* tc filters <<router, minor, mac>> that steer a MAC's traffic
    task,     \* the running admitDevice and revokeDevice calls
    sync,     \* syncWithApi
    boot,     \* bootstrapNetworking: next stage, "up" when it is over
    entitled, \* the MACs /active-sessions lists now
    faults,
    leaked,   \* history: let through when the MAC's last admit or revoke failed
    bare      \* history: no filter since an admit of the MAC failed; its class ID
              \* stays, and with it the mark

shaping == <<minorOf, free, next, filters>>
marks    == <<leaked, bare>>
failures == <<faults, leaked, bare>>
vars == <<fw, reg, ended, shaping, task, sync, boot, entitled, failures>>

Minor  == 1..Last
Worker == Call \cup {"sync", "sweep"}

\* admittedAt of an entry, relative to startedAt of the sync pass under way.
Entry == [rt : Router, at : {"old", "new"}]

NoTask == [pc |-> "idle", op |-> "admit", mac |-> Null, rt |-> Null,
           had |-> Null, minor |-> 0, kept |-> FALSE]
NoSync == [pc |-> "idle", list |-> {}, todo |-> {}, seen |-> {}]

Init ==
    /\ fw = {}
    /\ reg = [m \in Mac |-> Null]
    /\ ended = {}
    /\ minorOf = [m \in Mac |-> 0]
    /\ free = [i \in Minor |-> 0]
    /\ next = 1
    /\ filters = {}
    /\ task = [t \in Worker |-> NoTask]
    /\ sync = NoSync
    /\ boot = "rules"
    /\ entitled = {}
    /\ faults = 0
    /\ leaked = {} /\ bare = {}

Busy(m) == \E t \in Worker : task[t].mac = m
Quiet(m) == boot = "up" /\ ~Busy(m)

\* A MAC another call is working on is left alone, unless calls may overlap.
MayStart(m) == "calls" \in Overlap \/ ~Busy(m)

\* A failure within the bound.
Fault(kind) ==
    /\ kind \in Faults /\ faults < MaxFaults
    /\ faults' = faults + 1

\* A call has been answered; a loop is ready for its next MAC.
Finished(t) == [NoTask EXCEPT !.pc = IF t \in Call THEN "done" ELSE "idle"]
Finish(t)  == task' = [task EXCEPT ![t] = Finished(t)]
Goto(t, p) == task' = [task EXCEPT ![t].pc = p]

-----------------------------------------------------------------------------
(* admitDevice and revokeDevice                                            *)

\* The code before the first await: read the entry, issue the nft delete.
AdmitStart(t, m, rt) ==
    /\ task[t].pc = "idle" /\ MayStart(m)
    /\ task' = [task EXCEPT ![t] = [NoTask EXCEPT
                    !.pc = "delete", !.mac = m, !.rt = rt, !.had = reg[m]]]

RevokeStart(t, m) ==
    /\ task[t].pc = "idle" /\ MayStart(m)
    /\ task' = [task EXCEPT ![t] = [NoTask EXCEPT
                    !.pc = "delete", !.op = "revoke", !.mac = m,
                    !.had = reg[m]]]

\* run gives a command 10 s; one that runs out of them may have had its effect.

\* nft delete element.
NftDelete(t) ==
    LET s == task[t] IN
    /\ s.pc = "delete"
    /\ fw' = fw \ {s.mac}
    /\ Goto(t, IF s.op = "admit" THEN "add" ELSE "unshape")
    /\ leaked' = leaked \ {s.mac}
    /\ UNCHANGED <<reg, ended, shaping, sync, boot, entitled, faults, bare>>

\* What a failed command leaves in the set stays.
Leak(m, set) == leaked' = leaked \cup ({m} \cap set)

\* It fails without effect, and both callers go on all the same: revokeDevice
\* forgets the MAC.
NftDeleteFails(t) ==
    LET s == task[t] IN
    /\ s.pc = "delete" /\ Fault("nft")
    /\ Goto(t, IF s.op = "admit" THEN "add" ELSE "unshape")
    /\ UNCHANGED fw
    /\ IF s.op = "revoke" THEN Leak(s.mac, fw) ELSE UNCHANGED leaked
    /\ UNCHANGED <<reg, ended, shaping, sync, boot, entitled, bare>>

\* nft add element.
NftAdd(t) ==
    LET s == task[t]
        moved == s.had # Null /\ s.had.rt # s.rt
    IN  /\ s.pc = "add"
        /\ fw' = fw \cup {s.mac}
        /\ Goto(t, IF moved THEN "unshape" ELSE "allocate")
        /\ UNCHANGED <<reg, ended, shaping, sync, boot, entitled, failures>>

\* It fails: admitDevice throws, and whatever entry there was stays.
NftAddFails(t) ==
    LET s == task[t] IN
    /\ s.pc = "add" /\ Fault("nft")
    /\ Finish(t)
    /\ fw' \in {fw, fw \cup {s.mac}}
    /\ Leak(s.mac, fw')
    /\ UNCHANGED <<reg, ended, shaping, sync, boot, entitled, bare>>

\* admitted.delete, the end of revokeDevice.
Forget(m) ==
    /\ reg' = [reg EXCEPT ![m] = Null]
    /\ ended' = ended \ {m}

\* Mutant: revokeDevice goes on like admitDevice.
UnshapedAdmits(t) == Goto(t, "allocate") /\ UNCHANGED <<reg, ended>>

\* Back from removeShapingForMac.
Unshaped(t) ==
    IF task[t].op = "admit"
    THEN Goto(t, "allocate") /\ UNCHANGED <<reg, ended>>
    ELSE Finish(t) /\ Forget(task[t].mac)

\* removeShapingForMac looks the minor up; without an entry or a minor there
\* is nothing to remove.
UnshapeRead(t) ==
    LET s == task[t] IN
    /\ s.pc = "unshape"
    /\ IF s.had # Null /\ minorOf[s.mac] # 0
       THEN /\ task' = [task EXCEPT ![t].pc = "tcDelete",
                                    ![t].minor = minorOf[s.mac]]
            /\ UNCHANGED <<reg, ended>>
       ELSE Unshaped(t)
    /\ UNCHANGED <<fw, shaping, sync, boot, entitled, failures>>

\* tc filter del and tc class del, on both of the segment's devices.
TcDelete(t) ==
    LET s == task[t] IN
    /\ s.pc = "tcDelete"
    /\ filters' = {f \in filters : f[1] # s.had.rt \/ f[2] # s.minor}
    /\ Goto(t, "tcFree")
    /\ UNCHANGED <<fw, reg, ended, minorOf, free, next, sync, boot, entitled,
                   failures>>

\* They fail, which is ignored.
TcDeleteFails(t) ==
    /\ task[t].pc = "tcDelete" /\ Fault("shape")
    /\ Goto(t, "tcFree")
    /\ UNCHANGED <<fw, reg, ended, shaping, sync, boot, entitled, marks>>

AtMostTwo(n) == IF n < 2 THEN n ELSE 2
Popped(n)    == IF n < 2 THEN {n - 1} ELSE {1, 2}

\* Mutant: the ID goes back to the list, the MAC keeps it.
FreeOnly(t) ==
    /\ task[t].pc = "tcFree"
    /\ free' = [free EXCEPT ![task[t].minor] = AtMostTwo(@ + 1)]
    /\ Unshaped(t)
    /\ UNCHANGED <<fw, minorOf, next, filters, sync, boot, entitled, failures>>

\* minorByMac.delete and freeMinors.push.
TcFree(t) ==
    /\ task[t].pc = "tcFree"
    /\ minorOf' = [minorOf EXCEPT ![task[t].mac] = 0]
    /\ free' = [free EXCEPT ![task[t].minor] = AtMostTwo(@ + 1)]
    /\ Unshaped(t)
    /\ bare' = bare \ {task[t].mac}
    /\ UNCHANGED <<fw, next, filters, sync, boot, entitled, faults, leaked>>

\* admitDevice throws after the nft add; without a class kept, the MAC has no
\* filter from now on.
Throw(t, hadClass) ==
    /\ Finish(t)
    /\ Leak(task[t].mac, fw)
    /\ bare' = IF hadClass THEN bare ELSE bare \cup {task[t].mac}

\* applyShapingForMac up to its first await: keep the class or allocate one.
\* Which free ID is popped does not matter; out of IDs, admitDevice throws.
Allocate(t) ==
    LET m == task[t].mac
        take(i, had) == task' = [task EXCEPT ![t].pc = "tcAdd", ![t].minor = i,
                                             ![t].kept = had]
        gives(i) == take(i, FALSE) /\ minorOf' = [minorOf EXCEPT ![m] = i]
        listed == {i \in Minor : free[i] > 0}
    IN  /\ task[t].pc = "allocate"
        /\ \/ /\ minorOf[m] # 0
              /\ take(minorOf[m], TRUE)
              /\ UNCHANGED <<minorOf, free, next, marks>>
           \/ /\ minorOf[m] = 0
              /\ \E i \in listed :
                    /\ gives(i)
                    /\ \E n \in Popped(free[i]) :
                           free' = [free EXCEPT ![i] = n]
              /\ UNCHANGED <<next, marks>>
           \/ /\ minorOf[m] = 0 /\ listed = {} /\ next <= Last
              /\ gives(next)
              /\ next' = next + 1
              /\ UNCHANGED <<free, marks>>
           \/ /\ minorOf[m] = 0 /\ listed = {} /\ next > Last
              /\ Throw(t, FALSE)
              /\ UNCHANGED <<minorOf, free, next>>
        /\ UNCHANGED <<fw, reg, ended, filters, sync, boot, entitled, faults>>

\* upsertClassAndFilter on both devices; a class kept keeps its filter.
Steered(s) ==
    IF s.kept THEN filters
    ELSE {f \in filters : f[1] # s.rt \/ f[2] # s.minor}
         \cup {<<s.rt, s.minor, s.mac>>}

TcAdd(t) ==
    LET s == task[t] IN
    /\ s.pc = "tcAdd"
    /\ filters' = Steered(s)
    /\ Goto(t, "enter")
    /\ bare' = IF s.kept THEN bare ELSE bare \ {s.mac}
    /\ UNCHANGED <<fw, reg, ended, minorOf, free, next, sync, boot, entitled,
                   faults, leaked>>

\* One of its commands fails.
TcFails(t) ==
    LET s == task[t] IN
    /\ s.pc = "tcAdd" /\ Fault("shape")
    /\ Throw(t, s.kept)
    /\ filters' \in {filters, Steered(s)}
    /\ UNCHANGED <<fw, reg, ended, minorOf, free, next, sync, boot, entitled>>

\* admitted.set: the admittedAt of the entry that was read stays.
Enter(t) ==
    LET s == task[t]
        at == IF s.had # Null /\ s.had.rt = s.rt THEN s.had.at
              ELSE IF sync.pc = "idle" THEN "old" ELSE "new"
    IN  /\ s.pc = "enter"
        /\ reg' = [reg EXCEPT ![s.mac] = [rt |-> s.rt, at |-> at]]
        /\ ended' = ended \ {s.mac}
        /\ Finish(t)
        /\ leaked' = leaked \ {s.mac}
        /\ UNCHANGED <<fw, shaping, sync, boot, entitled, faults, bare>>

-----------------------------------------------------------------------------
(* The API's calls and the expiry sweep                                    *)

\* The HTTP server listens before the bootstrap.
Serving == boot = "up" \/ "boot" \in Overlap

\* POST /admit and POST /revoke, whatever the entitlement is by the time the
\* call arrives.
HttpAdmit(c, m, rt) ==
    /\ Serving /\ AdmitStart(c, m, rt)
    /\ UNCHANGED <<fw, reg, ended, shaping, sync, boot, entitled, failures>>

HttpRevoke(c, m) ==
    /\ Serving /\ RevokeStart(c, m)
    /\ UNCHANGED <<fw, reg, ended, shaping, sync, boot, entitled, failures>>

\* startExpirySweep: `void revokeDevice`; one at a time is a bound.
Sweep(m) ==
    /\ boot = "up" /\ m \in ended /\ RevokeStart("sweep", m)
    /\ UNCHANGED <<fw, reg, ended, shaping, sync, boot, entitled, failures>>

-----------------------------------------------------------------------------
(* syncWithApi                                                             *)

Older(e) == IF e = Null THEN Null ELSE [e EXCEPT !.at = "old"]

\* startedAt: every entry, and every entry a call has read, is older.
SyncStart ==
    /\ boot = "up" /\ sync.pc = "idle"
    /\ sync' = [NoSync EXCEPT !.pc = "fetch"]
    /\ reg' = [m \in Mac |-> Older(reg[m])]
    /\ task' = [t \in Worker |-> [task[t] EXCEPT !.had = Older(@)]]
    /\ UNCHANGED <<fw, ended, shaping, boot, entitled, failures>>

\* The API answers with what is entitled at that moment.
SyncFetch ==
    /\ sync.pc = "fetch"
    /\ sync' = [sync EXCEPT !.pc = "list", !.list = entitled, !.todo = entitled]
    /\ UNCHANGED <<fw, reg, ended, shaping, task, boot, entitled, failures>>

\* Unreachable: the pass throws.
SyncFails ==
    /\ sync.pc = "fetch" /\ Fault("fetch")
    /\ sync' = NoSync
    /\ UNCHANGED <<fw, reg, ended, shaping, task, boot, entitled, marks>>

\* What the firewall has; a listing that fails counts as empty.
SyncList ==
    /\ sync.pc = "list"
    /\ \E seen \in {fw, {}} :
           sync' = [sync EXCEPT !.pc = "work", !.seen = seen]
    /\ UNCHANGED <<fw, reg, ended, shaping, task, boot, entitled, failures>>

\* Not forced, and nothing changed: admitDevice returns at once.
NothingToDo(m, rt) ==
    m \in sync.seen /\ reg[m] # Null /\ reg[m].rt = rt /\ m \notin ended

\* The next listed device.
SyncAdmit(m, rt) ==
    /\ sync.pc = "work" /\ m \in sync.todo /\ task["sync"].pc = "idle"
    /\ sync' = [sync EXCEPT !.todo = @ \ {m}]
    /\ \/ AdmitStart("sync", m, rt)
       \/ NothingToDo(m, rt) /\ UNCHANGED task
    /\ UNCHANGED <<fw, reg, ended, shaping, boot, entitled, failures>>

\* Mutant: nothing is revoked by the sync.
RevokeNone(m) == FALSE

\* Entries the API no longer lists, if older than the pass.
Outdated(m) == reg[m] # Null /\ m \notin sync.list /\ reg[m].at = "old"

SyncRevoke(m) ==
    /\ sync.pc = "work" /\ sync.todo = {}
    /\ Outdated(m) /\ RevokeStart("sync", m)
    /\ UNCHANGED <<fw, reg, ended, shaping, sync, boot, entitled, failures>>

\* Then it sleeps until the next pass.
SyncEnd ==
    /\ sync.pc = "work" /\ sync.todo = {} /\ task["sync"].pc = "idle"
    /\ \A m \in Mac : ~Outdated(m)
    /\ sync' = NoSync
    /\ UNCHANGED <<fw, reg, ended, shaping, task, boot, entitled, failures>>

-----------------------------------------------------------------------------
(* bootstrapNetworking                                                     *)

\* Mutant: the table is not deleted first.
BootKeepsSet ==
    /\ boot = "rules"
    /\ boot' = "shaping"
    /\ UNCHANGED <<fw, reg, ended, shaping, task, sync, entitled, failures>>

\* The ruleset is loaded with an empty set.
BootRules ==
    /\ boot = "rules"
    /\ fw' = {}
    /\ leaked' = {}
    /\ boot' = "shaping"
    /\ UNCHANGED <<reg, ended, shaping, task, sync, entitled, faults, bare>>

\* ensureShapingForRouter pushes every ID in use on the free list.
FreeAll ==
    free' = [i \in Minor |->
        AtMostTwo(free[i] + Cardinality({m \in Mac : minorOf[m] = i}))]

BootShaping ==
    /\ boot = "shaping"
    /\ filters' = {}
    /\ FreeAll
    /\ minorOf' = [m \in Mac |-> 0]
    /\ bare' = {}
    /\ boot' = "clear"
    /\ UNCHANGED <<fw, reg, ended, next, task, sync, entitled, faults, leaked>>

\* admitted.clear
BootClear ==
    /\ boot = "clear"
    /\ reg' = [m \in Mac |-> Null]
    /\ ended' = {}
    /\ boot' = "up"
    /\ UNCHANGED <<fw, shaping, task, sync, entitled, failures>>

\* A network device is not there yet: everything is tried again.
BootFails ==
    /\ boot \in {"rules", "shaping"} /\ Fault("boot")
    /\ boot' = "rules"
    /\ UNCHANGED <<fw, reg, ended, shaping, task, sync, entitled, marks>>

\* The agent dies and is started again (the firewall and the classes survive),
\* or the machine is (they do not).
Crash ==
    /\ Fault("crash")
    /\ \/ UNCHANGED <<fw, filters>>
       \/ fw' = {} /\ filters' = {}
    /\ leaked' = {} /\ bare' = {}
    /\ reg' = [m \in Mac |-> Null]
    /\ ended' = {}
    /\ minorOf' = [m \in Mac |-> 0]
    /\ free' = [i \in Minor |-> 0]
    /\ next' = 1
    /\ task' = [t \in Worker |-> IF task[t].pc = "idle" THEN NoTask ELSE Finished(t)]
    /\ sync' = NoSync
    /\ boot' = "rules"
    /\ UNCHANGED entitled

-----------------------------------------------------------------------------
(* The API's side (external)                                               *)

EntitlementStarts(m) ==
    /\ m \notin entitled
    /\ entitled' = entitled \cup {m}
    /\ UNCHANGED <<fw, reg, ended, shaping, task, sync, boot, failures>>

EntitlementEnds(m) ==
    /\ m \in entitled
    /\ entitled' = entitled \ {m}
    /\ UNCHANGED <<fw, reg, ended, shaping, task, sync, boot, failures>>

\* The session's end passes; the firewall element times out within a minute.
Lapse(m) ==
    /\ m \notin entitled /\ reg[m] # Null /\ m \notin ended
    /\ ended' = ended \cup {m}
    /\ fw' \in {fw, fw \ {m}}
    /\ UNCHANGED <<reg, shaping, task, sync, boot, entitled, failures>>

\* An element that is in nobody's registry times out, with the session it was
\* added for.
TimesOut(m) ==
    /\ m \notin entitled /\ reg[m] = Null /\ m \in fw /\ ~Busy(m)
    /\ fw' = fw \ {m}
    /\ UNCHANGED <<reg, ended, shaping, task, sync, boot, entitled, failures>>

-----------------------------------------------------------------------------
TaskStep(t) ==
    \/ NftDelete(t) \/ NftDeleteFails(t) \/ NftAdd(t) \/ NftAddFails(t)
    \/ UnshapeRead(t) \/ TcDelete(t) \/ TcDeleteFails(t) \/ TcFree(t)
    \/ Allocate(t) \/ TcAdd(t) \/ TcFails(t) \/ Enter(t)

HttpCall(c) ==
    \E m \in Mac : HttpRevoke(c, m) \/ \E rt \in Router : HttpAdmit(c, m, rt)

SyncStep ==
    \/ SyncStart \/ SyncFetch \/ SyncFails \/ SyncList \/ SyncEnd
    \/ \E m \in Mac : SyncRevoke(m) \/ \E rt \in Router : SyncAdmit(m, rt)

BootStep == BootRules \/ BootShaping \/ BootClear \/ BootFails

Next ==
    \/ \E t \in Worker : TaskStep(t)
    \/ \E c \in Call : HttpCall(c)
    \/ \E m \in Mac : \/ Sweep(m) \/ EntitlementStarts(m) \/ EntitlementEnds(m)
                      \/ Lapse(m) \/ TimesOut(m)
    \/ SyncStep \/ BootStep \/ Crash

Spec == Init /\ [][Next]_vars

\* Commands and handlers run on; the sync loop, the sweep and the bootstrap's
\* retries never stop. Calls, entitlements and failures owe nothing.
Fairness ==
    /\ \A t \in Worker : WF_vars(TaskStep(t))
    /\ \A m \in Mac : WF_vars(Sweep(m))
    /\ WF_vars(SyncStep) /\ WF_vars(BootStep)

FairSpec == Spec /\ Fairness

-----------------------------------------------------------------------------
(* What must hold                                                          *)

TaskState ==
    [pc : {"idle", "done", "delete", "add", "unshape", "tcDelete", "tcFree",
           "allocate", "tcAdd", "enter"},
     op : {"admit", "revoke"}, mac : Mac \cup {Null}, rt : Router \cup {Null},
     had : Entry \cup {Null}, minor : 0..Last, kept : BOOLEAN]
SyncState ==
    [pc : {"idle", "fetch", "list", "work"}, list : SUBSET Mac,
     todo : SUBSET Mac, seen : SUBSET Mac]

\* Every set, map and call keeps its shape.
TypeOK ==
    /\ fw \in SUBSET Mac
    /\ reg \in [Mac -> Entry \cup {Null}]
    /\ ended \in SUBSET Mac
    /\ minorOf \in [Mac -> 0..Last]
    /\ free \in [Minor -> 0..2]
    /\ next \in 1..(Last + 1)
    /\ filters \in SUBSET (Router \X Minor \X Mac)
    /\ task \in [Worker -> TaskState]
    /\ sync \in SyncState
    /\ boot \in {"rules", "shaping", "clear", "up"}
    /\ entitled \in SUBSET Mac
    /\ faults \in Nat
    /\ leaked \in SUBSET Mac /\ bare \in SUBSET Mac

\* tc.ts:15: each MAC has a class ID of its own; two that share one share their
\* speed and are billed for each other's traffic.
OwnClass ==
    \A m, n \in Mac : m # n /\ minorOf[m] # 0 => minorOf[m] # minorOf[n]

\* Once nothing works on a MAC, firewall, registry and traffic control agree on
\* it: one that is let through is in the registry, which is all that the sync and
\* the expiry sweep look at, and one in the registry has the filter that steers
\* its traffic into its class, without which it is neither shaped nor counted.
\* The exceptions are the MACs whose own last admit or revoke failed half-way
\* (admission.ts:64 drops the entry of a MAC it could not delete, and an
\* admitDevice that throws has added it already), and for the filter those whose
\* class ID is still the one a failed admit left.
FirewallKnown ==
    \A m \in Mac : Quiet(m) =>
      /\ m \in fw => reg[m] # Null \/ m \in leaked
      /\ reg[m] # Null => <<reg[m].rt, minorOf[m], m>> \in filters \/ m \in bare

\* tc.ts:15: a device that was admitted has the filter that its class needs,
\* whatever its earlier admissions failed in. No run checks this: it fails with
\* "shape" in Faults, as tc.ts:133 adds no filter for a class ID it finds taken.
Shaped == \A m \in Mac :
    Quiet(m) /\ reg[m] # Null => <<reg[m].rt, minorOf[m], m>> \in filters

\* admission.ts:70, index.ts:52: a MAC the API no longer lists is cut in the
\* end, although the revoke call was missed.
CutInTheEnd == \A m \in Mac :
    (m \in fw /\ m \notin entitled) ~> (m \notin fw \/ m \in entitled)

\* A listed MAC is let through in the end, after any crash or missed call.
RestoredInTheEnd == \A m \in Mac :
    (m \notin fw /\ m \in entitled) ~> (m \in fw \/ m \notin entitled)

\* The same but for the MACs a failed command left behind.
CutUnlessLeaked == \A m \in Mac :
    (m \in fw /\ m \notin entitled) ~>
        (m \notin fw \/ m \in entitled \/ m \in leaked)

\* What the firewall lets through and what the API lists agree in the end: the
\* two together.
SyncedInTheEnd == CutUnlessLeaked /\ RestoredInTheEnd
=============================================================================
