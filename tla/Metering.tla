------------------------------ MODULE Metering ------------------------------
(* Metering one device in one direction: the report loop of the agent's     *)
(* index.ts, which charges what the device's traffic class counted, and the *)
(* ticks of usage.ts, which read the same counter a second time to split it *)
(* across apps.  Registry entries are objects: a report keeps the one it    *)
(* started with while admitDevice puts another in its place.                *)
EXTENDS Naturals, Sequences

CONSTANTS Sampler,       \* runs of the report loop that may overlap
          MaxBytes,      \* bytes the device moves
          MaxEntries,    \* registry entries made for it
          ReadFaults     \* how many reads of a tick may fail

VARIABLES used,      \* bytes the device has moved through a class
          class,     \* the kernel's class: [on, bytes]
          lastBytes,      \* lastDownBytes of each entry ever made
          entry,     \* the one in the registry, or 0
          adm,       \* admitDevice: [on, from, kept]
          sample,    \* what each run of the report loop has read: [on, entry, read]
          charged,   \* bytes handed to reports
          tabled,    \* and those the hourly table has of them (module Accounting)
          raced,     \* whether an entry was replaced or shared while it was sampled
          base,      \* lastTc: [on, bytes]
          tick,      \* [pc, read, billed]
          pendingApps, \* present while devices has the device: [on, bytes]
          attributed,\* bytes of apps handed to reports
          faults
agentVars == <<used, class, lastBytes, entry, adm>>
loopVars == <<sample, charged, tabled, raced>>
tickVars == <<base, tick, pendingApps, attributed, faults>>
meterVars == <<agentVars, loopVars, tickVars>>

Off == [on |-> FALSE, bytes |-> 0]
NoAdmit == [on |-> FALSE, from |-> 0, kept |-> FALSE]
NoSample == [on |-> FALSE, entry |-> 0, read |-> Off]
NoTick == [pc |-> "idle", read |-> 0, billed |-> 0]
Minus(a, b) == IF a > b THEN a - b ELSE 0
Sampling == \E r \in Sampler : sample[r].on

MeterInit ==
    /\ used = 0 /\ class = Off /\ lastBytes = <<>> /\ entry = 0 /\ adm = NoAdmit
    /\ sample = [r \in Sampler |-> NoSample] /\ charged = 0 /\ tabled = 0 /\ raced = FALSE
    /\ base = Off /\ tick = NoTick /\ pendingApps = Off /\ attributed = 0 /\ faults = 0

\* The class counts what the device moves.
Traffic ==
    /\ class.on /\ used < MaxBytes
    /\ used' = used + 1 /\ class' = [class EXCEPT !.bytes = @ + 1]
    /\ UNCHANGED <<lastBytes, entry, adm, loopVars, tickVars>>

-----------------------------------------------------------------------------
\* Admission, as far as counters go (module Admission has the rest).

\* admitDevice looks up the entry; on another router the class goes first.
AdmitLooksUp(moved) ==
    /\ ~adm.on /\ Len(lastBytes) < MaxEntries
    /\ LET kept == class.on /\ ~moved IN
       /\ adm' = [on |-> TRUE, from |-> entry, kept |-> kept]
       /\ class' = IF kept THEN class ELSE [Off EXCEPT !.on = TRUE]
    /\ raced' = (raced \/ Sampling)
    /\ UNCHANGED <<used, lastBytes, entry, sample, charged, tabled, tickVars>>

\* Mutant: the new entry starts at nothing, over a class that was kept.
AdmitEntersAfresh ==
    /\ adm.on
    /\ lastBytes' = Append(lastBytes, 0)
    /\ entry' = Len(lastBytes') /\ adm' = NoAdmit
    /\ UNCHANGED <<used, class, loopVars, tickVars>>

\* The new entry takes over the old one's readings when the class was kept.
AdmitEnters ==
    /\ adm.on
    /\ lastBytes' = Append(lastBytes, IF adm.kept /\ adm.from # 0 THEN lastBytes[adm.from] ELSE 0)
    /\ entry' = Len(lastBytes') /\ adm' = NoAdmit
    /\ UNCHANGED <<used, class, loopVars, tickVars>>

\* An admission under way enters the device again without its class: that
\* race is Admission's, not the meter's.
RevokeDevice ==
    /\ entry # 0 /\ ~adm.on
    /\ entry' = 0 /\ class' = Off
    /\ UNCHANGED <<used, lastBytes, adm, loopVars, tickVars>>

-----------------------------------------------------------------------------
\* The report loop: readClassBytes at once, sampleTtls for up to five seconds.
SampleStart(r) ==
    /\ ~sample[r].on /\ entry # 0
    /\ sample' = [sample EXCEPT ![r] = [on |-> TRUE, entry |-> entry, read |-> class]]
    /\ raced' = (raced \/ adm.on \/ Sampling)
    /\ UNCHANGED <<agentVars, charged, tabled, tickVars>>

\* Then what is new since the entry's last reading, and drainAppUsage: apps are
\* listed if the ticks have found any, and where none is the API tables what is
\* new of the class.
\* Whether the report arrives makes no difference here: nothing is sent twice.
SampleEnd(r) ==
    LET p == sample[r]
        bytes == IF p.read.on THEN Minus(p.read.bytes, lastBytes[p.entry]) ELSE 0
    IN /\ p.on
       /\ lastBytes' = IF p.read.on THEN [lastBytes EXCEPT ![p.entry] = p.read.bytes] ELSE lastBytes
       /\ charged' = charged + bytes
       /\ attributed' = attributed + pendingApps.bytes
       /\ tabled' = tabled + (IF pendingApps.bytes = 0 THEN bytes ELSE pendingApps.bytes)
       /\ pendingApps' = [pendingApps EXCEPT !.bytes = 0]
       /\ sample' = [sample EXCEPT ![r] = NoSample]
       /\ UNCHANGED <<used, class, entry, adm, raced, base, tick, faults>>

-----------------------------------------------------------------------------
\* A tick of usage.ts: forget devices that left, read the counters, ...
TickRead ==
    /\ tick.pc = "idle"
    /\ IF entry = 0 THEN base' = Off /\ pendingApps' = Off ELSE UNCHANGED <<base, pendingApps>>
    /\ \/ tick' = [pc |-> "bill", read |-> class.bytes, billed |-> 0] /\ UNCHANGED faults
       \/ /\ faults < ReadFaults /\ faults' = faults + 1   \* readAllMacBytes failed
          /\ tick' = [pc |-> "bill", read |-> 0, billed |-> 0]
    /\ UNCHANGED <<agentVars, loopVars, attributed>>

\* ... take the difference to the last reading, ...
TickBill ==
    /\ tick.pc = "bill"
    /\ IF entry = 0 THEN tick' = [tick EXCEPT !.pc = "add"] /\ UNCHANGED base
       ELSE /\ base' = [on |-> TRUE, bytes |-> tick.read]
            /\ tick' = [tick EXCEPT !.pc = "add",
                                    !.billed = IF base.on THEN Minus(tick.read, base.bytes) ELSE 0]
    /\ UNCHANGED <<agentVars, loopVars, pendingApps, attributed, faults>>

\* ... and, after reading the connection table, split it: splitAcrossApps
\* gives parts that add up to what it is given.
TickAdd ==
    /\ tick.pc = "add"
    /\ pendingApps' = IF entry = 0 THEN pendingApps
                  ELSE [on |-> TRUE, bytes |-> pendingApps.bytes + tick.billed]
    /\ tick' = NoTick
    /\ UNCHANGED <<agentVars, loopVars, base, attributed, faults>>

AdmissionStep == (\E moved \in BOOLEAN : AdmitLooksUp(moved)) \/ AdmitEnters \/ RevokeDevice
LoopStep == \E r \in Sampler : SampleStart(r) \/ SampleEnd(r)
TickStep == TickRead \/ TickBill \/ TickAdd
MeterNext == Traffic \/ AdmissionStep \/ LoopStep \/ TickStep
-----------------------------------------------------------------------------
MeterTypeOK ==
    /\ used \in 0..MaxBytes /\ {class, base, pendingApps} \subseteq [on : BOOLEAN, bytes : Nat]
    /\ Len(lastBytes) <= MaxEntries /\ entry \in 0..Len(lastBytes)
    /\ adm \in [on : BOOLEAN, from : 0..MaxEntries, kept : BOOLEAN]
    /\ \A r \in Sampler : sample[r].entry \in 0..Len(lastBytes)
    /\ {charged, tabled, attributed} \subseteq Nat /\ raced \in BOOLEAN
    /\ tick.pc \in {"idle", "bill", "add"} /\ faults \in 0..ReadFaults

\* Bytes are not charged twice, over moves, new entries and overlapping
\* reports, unless an entry was replaced or shared while it was being sampled;
\* and they are not split across apps twice, as long as every reading worked.
BytesCountOnce ==
    /\ charged > used => raced
    /\ faults = 0 => attributed <= used

\* "the app split always adds up to what the customer was actually charged
\* for": once both loops have read all of the device's class and its apps have
\* been reported, nothing that was charged is missing from the table. No run
\* checks this: it fails, as the first reading of a tick bills nothing.
AllRead ==
    /\ ~Sampling /\ tick.pc = "idle" /\ ~adm.on /\ entry # 0 /\ class.on
    /\ base = class /\ lastBytes[entry] = class.bytes /\ pendingApps.bytes = 0
ChargedIsSplit == AllRead /\ faults = 0 /\ ~raced => tabled >= charged

\* "Data used per device per app per hour": the table does not have more than
\* the device has used. No run checks this either: it fails when a report that
\* lists no apps comes between the traffic and the tick that splits it.
TabledOnce == faults = 0 /\ ~raced => tabled <= used
=============================================================================
