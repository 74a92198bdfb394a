---------------------------- MODULE AgentProofs ----------------------------
(* Proofs about the components of the network agent: of each one's own      *)
(* next-state relation, for all values of its constants.                    *)
EXTENDS AppUsage, HostHealth, Leases, Metering, CoinsProofs, TLAPS

-----------------------------------------------------------------------------
\* Metering: what the class counted is charged once, and split once.

Reading == [on : BOOLEAN, bytes : Nat]
Sample == [on : BOOLEAN, entry : Nat, read : Reading]
MeterTyped ==
    /\ used \in Nat /\ charged \in Nat /\ tabled \in Nat /\ attributed \in Nat /\ faults \in Nat
    /\ raced \in BOOLEAN
    /\ class \in Reading /\ base \in Reading /\ pendingApps \in Reading
    /\ lastBytes \in Seq(Nat) /\ entry \in 0..Len(lastBytes)
    /\ adm \in [on : BOOLEAN, from : Nat, kept : BOOLEAN] /\ adm.from <= Len(lastBytes)
    /\ sample \in [Sampler -> Sample]
    /\ \A r \in Sampler : /\ sample[r].entry <= Len(lastBytes)
                          /\ sample[r].on => sample[r].entry # 0
    /\ tick \in [pc : {"idle", "bill", "add"}, read : Nat, billed : Nat]
\* What of the class's bytes the entry of the registry, or the one about to
\* take its place, has been charged already.
Charged(l) ==
    IF adm.on THEN IF adm.kept /\ adm.from # 0 THEN l[adm.from] ELSE 0
    ELSE IF entry # 0 THEN l[entry] ELSE 0
Taken == Charged(lastBytes)
Classless == entry = 0 /\ ~adm.on => class = Off
\* One report at a time samples, and not while the entry is replaced.
OneSampler ==
    \A r \in Sampler : sample[r].on => /\ ~adm.on
                                       /\ \A q \in Sampler : sample[q].on => q = r
\* What is still to be charged has not been charged.
Uncharged == Taken <= class.bytes /\ charged + class.bytes <= used + Taken
\* The same of what a report under way has read.
ReadOnce ==
    \A r \in Sampler : LET p == sample[r] IN p.on =>
        /\ p.read.on => /\ lastBytes[p.entry] <= p.read.bytes
                        /\ charged + p.read.bytes <= used + lastBytes[p.entry]
        /\ entry # 0 => entry = p.entry /\ p.read.bytes <= class.bytes
ChargeInv == raced \/ (OneSampler /\ Uncharged /\ ReadOnce)
\* What the class has counted since it stood at n, when it may have restarted.
Since(n) == IF n <= class.bytes THEN class.bytes - n ELSE class.bytes
SinceBase == IF base.on THEN Since(base.bytes) ELSE 0
ToBill == IF base.on THEN Minus(tick.read, base.bytes) ELSE 0
Split == attributed + pendingApps.bytes
SplitInv ==
    faults = 0 =>
        /\ Split + tick.billed + SinceBase <= used
        /\ tick.pc # "add" => tick.billed = 0
        /\ tick.pc = "bill" => Split + ToBill + Since(tick.read) <= used
MeterInv == MeterTyped /\ Classless /\ ChargeInv /\ SplitInv

LEMMA MinusInNat ==
    ASSUME NEW a \in Nat, NEW b \in Nat
    PROVE  Minus(a, b) \in Nat
  BY DEF Minus

LEMMA ReadingExcept ==
    ASSUME NEW c \in Reading, NEW n \in Nat
    PROVE  /\ [c EXCEPT !.bytes = n] \in Reading
           /\ [c EXCEPT !.bytes = n].on = c.on
           /\ [c EXCEPT !.bytes = n].bytes = n
  BY DEF Reading

\* Types, action by action.
LEMMA MeterInitTyped == MeterInit => MeterTyped
<1> SUFFICES ASSUME MeterInit PROVE MeterTyped
  OBVIOUS
<1>1. used \in Nat /\ charged \in Nat /\ tabled \in Nat /\ attributed \in Nat /\ faults \in Nat /\ raced \in BOOLEAN
  BY DEF MeterInit
<1>2. class \in Reading /\ base \in Reading /\ pendingApps \in Reading
  BY DEF MeterInit, Reading, Off
<1>3. lastBytes \in Seq(Nat) /\ entry \in 0..Len(lastBytes)
  BY DEF MeterInit
<1>4. adm \in [on : BOOLEAN, from : Nat, kept : BOOLEAN] /\ adm.from <= Len(lastBytes)
  BY DEF MeterInit, NoAdmit
<1>5. NoSample \in Sample
  BY DEF NoSample, Sample, Off, Reading
<1>6. sample \in [Sampler -> Sample]
  BY <1>5 DEF MeterInit
<1>7. \A r \in Sampler : sample[r].entry <= Len(lastBytes) /\ (sample[r].on => sample[r].entry # 0)
  BY DEF MeterInit, NoSample
<1>8. tick \in [pc : {"idle", "bill", "add"}, read : Nat, billed : Nat]
  BY DEF MeterInit, NoTick
<1> QED
  BY <1>1, <1>2, <1>3, <1>4, <1>6, <1>7, <1>8 DEF MeterTyped

LEMMA TrafficTyped ==
    ASSUME MeterTyped, Traffic
    PROVE  MeterTyped'
<1>1. class' \in Reading
  <2>1. class.bytes + 1 \in Nat /\ class \in Reading
    BY DEF MeterTyped, Reading
  <2> QED
    BY <2>1, ReadingExcept DEF Traffic
<1> QED
  BY <1>1 DEF MeterTyped, Traffic, loopVars, tickVars

LEMMA LooksUpTyped ==
    ASSUME MeterTyped, NEW elsewhere \in BOOLEAN, AdmitLooksUp(elsewhere)
    PROVE  MeterTyped'
<1> DEFINE kept == class.on /\ ~elsewhere
<1>1. class' \in Reading
  BY DEF MeterTyped, AdmitLooksUp, Reading, Off
<1>2. adm' = [on |-> TRUE, from |-> entry, kept |-> kept]
  BY DEF AdmitLooksUp
<1>3. kept \in BOOLEAN
  BY DEF MeterTyped, Reading
<1>4. entry \in Nat /\ entry <= Len(lastBytes)
  BY DEF MeterTyped
<1>5. adm' \in [on : BOOLEAN, from : Nat, kept : BOOLEAN] /\ adm'.from <= Len(lastBytes)
  <2> HIDE DEF kept
  <2> QED
    BY <1>2, <1>3, <1>4
<1>6. raced' \in BOOLEAN
  BY DEF AdmitLooksUp, Sampling
<1>7. UNCHANGED <<used, charged, tabled, attributed, faults, base, pendingApps, lastBytes, entry, sample, tick>>
  BY DEF AdmitLooksUp, tickVars
<1> QED
  BY <1>1, <1>5, <1>6, <1>7 DEF MeterTyped

LEMMA EntersTyped ==
    ASSUME MeterTyped, AdmitEnters
    PROVE  MeterTyped'
  BY DEF MeterTyped, AdmitEnters, loopVars, tickVars, Reading, Sample, NoAdmit

LEMMA RevokeTyped ==
    ASSUME MeterTyped, RevokeDevice
    PROVE  MeterTyped'
  BY DEF MeterTyped, RevokeDevice, loopVars, tickVars, Reading, Off

LEMMA SampleStartTyped ==
    ASSUME MeterTyped, NEW r \in Sampler, SampleStart(r)
    PROVE  MeterTyped'
  BY DEF MeterTyped, SampleStart, agentVars, tickVars, Reading, Sample, Sampling

LEMMA SampleEndTyped ==
    ASSUME MeterTyped, NEW r \in Sampler, SampleEnd(r)
    PROVE  MeterTyped'
<1> DEFINE p == sample[r]
           bytes == IF p.read.on THEN Minus(p.read.bytes, lastBytes[p.entry]) ELSE 0
<1>1. p \in Sample /\ p.on /\ p.entry \in 1..Len(lastBytes) /\ p.read \in Reading
  BY DEF MeterTyped, Sample, SampleEnd
<1>2. p.read.bytes \in Nat /\ lastBytes[p.entry] \in Nat
  <2>1. lastBytes \in Seq(Nat)
    BY DEF MeterTyped
  <2> HIDE DEF p
  <2>2. p.read.bytes \in Nat
    BY <1>1 DEF Reading
  <2> QED
    BY <1>1, <2>1, <2>2
<1>3. bytes \in Nat
  BY <1>2, MinusInNat
<1>4. charged' \in Nat /\ tabled' \in Nat
  <2>1. charged' = charged + bytes
        /\ tabled' = tabled + (IF pendingApps.bytes = 0 THEN bytes ELSE pendingApps.bytes)
    BY DEF SampleEnd
  <2>2. charged \in Nat /\ tabled \in Nat /\ pendingApps.bytes \in Nat
    BY DEF MeterTyped, Reading
  <2> HIDE DEF bytes
  <2> QED
    BY <2>1, <2>2, <1>3
<1>5. attributed' \in Nat
  BY DEF SampleEnd, MeterTyped, Reading
<1>6. pendingApps' \in Reading
  <2>1. pendingApps' = [pendingApps EXCEPT !.bytes = 0]
    BY DEF SampleEnd
  <2> QED
    BY <2>1, ReadingExcept DEF MeterTyped
<1>7. lastBytes' \in Seq(Nat) /\ Len(lastBytes') = Len(lastBytes)
  BY <1>1, <1>2 DEF SampleEnd, MeterTyped
<1>8. NoSample \in Sample /\ NoSample.entry = 0 /\ ~NoSample.on
  BY DEF NoSample, Sample, Off, Reading
<1>9. sample' = [sample EXCEPT ![r] = NoSample]
  BY DEF SampleEnd
<1>10. sample' \in [Sampler -> Sample]
  BY <1>8, <1>9 DEF MeterTyped
<1>11. \A q \in Sampler : /\ sample'[q].entry <= Len(lastBytes)
                          /\ sample'[q].on => sample'[q].entry # 0
  BY <1>8, <1>9 DEF MeterTyped
<1>12. UNCHANGED <<used, class, entry, adm, raced, base, tick, faults>>
  BY DEF SampleEnd
<1> QED
  BY <1>4, <1>5, <1>6, <1>7, <1>10, <1>11, <1>12 DEF MeterTyped

LEMMA TickTyped ==
    ASSUME MeterTyped, TickStep
    PROVE  MeterTyped'
<1> DEFINE TickShape == [pc : {"idle", "bill", "add"}, read : Nat, billed : Nat]
<1>0. /\ Off \in Reading /\ NoTick \in TickShape /\ tick \in TickShape /\ class.bytes \in Nat
      /\ base \in Reading /\ pendingApps \in Reading /\ faults \in Nat
  BY DEF Off, NoTick, Reading, MeterTyped
<1>1. /\ base' \in Reading /\ pendingApps' \in Reading /\ faults' \in Nat /\ tick' \in TickShape
      /\ UNCHANGED <<agentVars, loopVars, attributed>>
  <2>1. CASE TickRead
    BY <1>0, <2>1 DEF TickRead
  <2>2. CASE TickBill
    <3>1. CASE entry = 0
      <4>1. tick' = [tick EXCEPT !.pc = "add"]
        BY <3>1, <2>2 DEF TickBill
      <4>2. tick' \in TickShape
        BY <4>1, <1>0
      <4> QED
        BY <1>0, <2>2, <3>1, <4>2 DEF TickBill
    <3>2. CASE entry # 0
      <4> DEFINE billed == IF base.on THEN Minus(tick.read, base.bytes) ELSE 0
      <4>1. billed \in Nat /\ tick.read \in Nat
        <5>1. tick.read \in Nat /\ base.bytes \in Nat
          BY <1>0 DEF Reading
        <5> QED
          BY <5>1, MinusInNat
      <4>2. tick' = [tick EXCEPT !.pc = "add", !.billed = billed]
        BY <3>2, <2>2 DEF TickBill
      <4>3. tick' \in TickShape
        <5> HIDE DEF billed
        <5> QED
          BY <4>1, <4>2, <1>0
      <4>4. base' = [on |-> TRUE, bytes |-> tick.read]
        BY <3>2, <2>2 DEF TickBill
      <4>5. base' \in Reading
        <5> HIDE DEF billed
        <5> QED
          BY <4>1, <4>4 DEF Reading
      <4> QED
        BY <1>0, <2>2, <4>3, <4>5 DEF TickBill
    <3> QED
      BY <3>1, <3>2
  <2>3. CASE TickAdd
    <3>1. pendingApps' \in Reading
      BY <1>0, <2>3 DEF TickAdd, Reading
    <3> QED
      BY <1>0, <2>3, <3>1 DEF TickAdd
  <2> QED
    BY <2>1, <2>2, <2>3 DEF TickStep
<1> QED
  BY <1>1 DEF MeterTyped, agentVars, loopVars

\* An entry of the registry goes with its class.
LEMMA ClasslessHolds ==
    ASSUME MeterTyped, Classless, MeterNext
    PROVE  Classless'
<1>1. CASE Traffic
  BY <1>1 DEF Traffic, Classless, Off
<1>2. CASE AdmissionStep
  BY <1>2 DEF AdmissionStep, AdmitLooksUp, AdmitEnters, RevokeDevice, Classless, MeterTyped, Off, NoAdmit
<1>3. CASE LoopStep
  BY <1>3 DEF LoopStep, SampleStart, SampleEnd, agentVars, Classless
<1>4. CASE TickStep
  BY <1>4 DEF TickStep, TickRead, TickBill, TickAdd, agentVars, Classless
<1> QED
  BY <1>1, <1>2, <1>3, <1>4 DEF MeterNext

\* What is charged: the class counts on,
LEMMA TrafficCharges ==
    ASSUME MeterTyped, ChargeInv, Traffic
    PROVE  ChargeInv'
<1> SUFFICES ASSUME ~raced' PROVE ChargeInv'
  BY DEF ChargeInv
<1>1. OneSampler /\ Uncharged /\ ReadOnce
  BY DEF ChargeInv, Traffic, loopVars
<1>2. /\ class'.bytes = class.bytes + 1 /\ used' = used + 1
      /\ UNCHANGED <<lastBytes, entry, adm, sample, charged>>
  BY DEF Traffic, loopVars, MeterTyped, Reading
<1>3. OneSampler'
  BY <1>1, <1>2 DEF OneSampler
<1>4. Taken' = Taken
  BY <1>2 DEF Taken, Charged
<1>5. Taken \in Nat
  BY DEF Taken, Charged, MeterTyped
<1>6. used \in Nat /\ charged \in Nat /\ class.bytes \in Nat
  BY DEF MeterTyped, Reading
<1>7. Uncharged'
  BY <1>1, <1>2, <1>4, <1>5, <1>6 DEF Uncharged
<1>8. ReadOnce'
  <2> SUFFICES ASSUME NEW r \in Sampler, sample[r].on
               PROVE  LET p == sample[r] IN
                      /\ p.read.on => /\ lastBytes[p.entry] <= p.read.bytes
                                      /\ charged + p.read.bytes <= used + 1 + lastBytes[p.entry]
                      /\ entry # 0 => entry = p.entry /\ p.read.bytes <= class.bytes + 1
    BY <1>2 DEF ReadOnce
  <2>1. sample[r].read.bytes \in Nat /\ lastBytes[sample[r].entry] \in Nat
    BY DEF MeterTyped, Sample, Reading
  <2> QED
    BY <1>1, <1>6, <2>1 DEF ReadOnce
<1> QED
  BY <1>3, <1>7, <1>8 DEF ChargeInv

\* an admission takes the entry's readings over with the class,
LEMMA LooksUpCharges ==
    ASSUME MeterTyped, ChargeInv, NEW elsewhere \in BOOLEAN, AdmitLooksUp(elsewhere)
    PROVE  ChargeInv'
<1> SUFFICES ASSUME ~raced' PROVE ChargeInv'
  BY DEF ChargeInv
<1> DEFINE kept == class.on /\ ~elsewhere
<1>1. ~raced /\ \A r \in Sampler : ~sample[r].on
  BY DEF AdmitLooksUp, Sampling
<1>2. Uncharged
  BY <1>1 DEF ChargeInv
<1>3. /\ ~adm.on /\ adm' = [on |-> TRUE, from |-> entry, kept |-> kept]
      /\ class' = IF kept THEN class ELSE [Off EXCEPT !.on = TRUE]
      /\ UNCHANGED <<lastBytes, entry, used, charged, sample>>
  BY DEF AdmitLooksUp
<1>4. OneSampler' /\ ReadOnce'
  BY <1>1, <1>3 DEF OneSampler, ReadOnce
<1>5. used \in Nat /\ charged \in Nat /\ class.bytes \in Nat /\ kept \in BOOLEAN
  BY DEF MeterTyped, Reading
<1>6. adm'.on /\ adm'.from = entry /\ adm'.kept = kept
  BY <1>3
<1>7. Taken \in Nat
  BY DEF Taken, Charged, MeterTyped
<1>8. Uncharged'
  <2>1. CASE kept
    <3>1. Taken' = Taken
      BY <1>3, <1>6, <2>1 DEF Taken, Charged
    <3> QED
      BY <1>2, <1>3, <2>1, <3>1 DEF Uncharged
  <2>2. CASE ~kept
    <3>1. Taken' = 0 /\ class'.bytes = 0
      BY <1>3, <1>6, <2>2 DEF Taken, Charged, Off
    <3> QED
      BY <1>2, <1>3, <1>5, <1>7, <3>1 DEF Uncharged
  <2> QED
    BY <2>1, <2>2
<1> QED
  BY <1>4, <1>8 DEF ChargeInv

LEMMA EntersCharges ==
    ASSUME MeterTyped, ChargeInv, AdmitEnters
    PROVE  ChargeInv'
<1> SUFFICES ASSUME ~raced' PROVE ChargeInv'
  BY DEF ChargeInv
<1>1. OneSampler /\ Uncharged
  BY DEF ChargeInv, AdmitEnters, loopVars
<1>2. /\ adm.on /\ entry' = Len(lastBytes') /\ adm' = NoAdmit
      /\ lastBytes' = Append(lastBytes, IF adm.kept /\ adm.from # 0 THEN lastBytes[adm.from] ELSE 0)
      /\ UNCHANGED <<used, class, charged, sample>>
  BY DEF AdmitEnters, loopVars
<1>3. \A r \in Sampler : ~sample[r].on
  BY <1>1, <1>2 DEF OneSampler
<1>4. OneSampler' /\ ReadOnce'
  BY <1>2, <1>3 DEF OneSampler, ReadOnce
<1>5. Taken' = Taken
  BY <1>2 DEF Taken, Charged, NoAdmit, MeterTyped
<1>6. Uncharged'
  BY <1>1, <1>2, <1>5 DEF Uncharged
<1> QED
  BY <1>4, <1>6 DEF ChargeInv

LEMMA RevokeCharges ==
    ASSUME MeterTyped, ChargeInv, RevokeDevice
    PROVE  ChargeInv'
<1> SUFFICES ASSUME ~raced' PROVE ChargeInv'
  BY DEF ChargeInv
<1>1. OneSampler /\ Uncharged /\ ReadOnce
  BY DEF ChargeInv, RevokeDevice, loopVars
<1>2. /\ ~adm.on /\ entry' = 0 /\ class' = Off
      /\ UNCHANGED <<lastBytes, adm, used, charged, sample>>
  BY DEF RevokeDevice, loopVars
<1>3. used \in Nat /\ charged \in Nat /\ class.bytes \in Nat /\ Taken \in Nat
  BY DEF MeterTyped, Reading, Taken, Charged
<1>4. Taken' = 0 /\ class'.bytes = 0
  BY <1>2 DEF Taken, Charged, Off
<1>5. Uncharged'
  BY <1>1, <1>2, <1>3, <1>4 DEF Uncharged
<1>6. OneSampler' /\ ReadOnce'
  BY <1>1, <1>2 DEF OneSampler, ReadOnce
<1> QED
  BY <1>5, <1>6 DEF ChargeInv

\* and a report charges what is new since the entry's last reading.
LEMMA SampleStartCharges ==
    ASSUME MeterTyped, ChargeInv, NEW r \in Sampler, SampleStart(r)
    PROVE  ChargeInv'
<1> SUFFICES ASSUME ~raced' PROVE ChargeInv'
  BY DEF ChargeInv
<1>1. ~raced /\ ~adm.on /\ \A q \in Sampler : ~sample[q].on
  BY DEF SampleStart, Sampling
<1>2. Uncharged
  BY <1>1 DEF ChargeInv
<1>3. /\ entry # 0 /\ sample' = [sample EXCEPT ![r] = [on |-> TRUE, entry |-> entry, read |-> class]]
      /\ UNCHANGED <<lastBytes, entry, adm, used, class, charged>>
  BY DEF SampleStart, agentVars
<1>4. Taken' = Taken /\ Taken = lastBytes[entry]
  BY <1>1, <1>3 DEF Taken, Charged
<1>5. sample \in [Sampler -> Sample]
  BY DEF MeterTyped
<1>6. sample'[r] = [on |-> TRUE, entry |-> entry, read |-> class]
      /\ \A q \in Sampler : q # r => ~sample'[q].on
  BY <1>1, <1>3, <1>5
<1>7. OneSampler'
  BY <1>1, <1>3, <1>6 DEF OneSampler
<1>8. Uncharged'
  BY <1>2, <1>3, <1>4 DEF Uncharged
<1>9. class.bytes \in Nat
  BY DEF MeterTyped, Reading
<1>10. ReadOnce'
  BY <1>2, <1>3, <1>4, <1>6, <1>9 DEF ReadOnce, Uncharged
<1> QED
  BY <1>7, <1>8, <1>10 DEF ChargeInv

LEMMA SampleEndCharges ==
    ASSUME MeterTyped, Classless, ChargeInv, NEW r \in Sampler, SampleEnd(r)
    PROVE  ChargeInv'
<1> SUFFICES ASSUME ~raced' PROVE ChargeInv'
  BY DEF ChargeInv
<1> DEFINE p == sample[r]
<1>1. OneSampler /\ Uncharged /\ ReadOnce
  BY DEF ChargeInv, SampleEnd
<1>2. /\ p.on
      /\ lastBytes' = IF p.read.on THEN [lastBytes EXCEPT ![p.entry] = p.read.bytes] ELSE lastBytes
      /\ charged' = charged + (IF p.read.on THEN Minus(p.read.bytes, lastBytes[p.entry]) ELSE 0)
      /\ sample' = [sample EXCEPT ![r] = NoSample]
      /\ UNCHANGED <<used, class, entry, adm>>
  BY DEF SampleEnd
<1>3. ~adm.on /\ \A q \in Sampler : q # r => ~sample[q].on
  BY <1>1, <1>2 DEF OneSampler
<1>4. sample \in [Sampler -> Sample]
  BY DEF MeterTyped
<1>5. \A q \in Sampler : ~sample'[q].on
  BY <1>2, <1>3, <1>4 DEF NoSample
<1>6. OneSampler' /\ ReadOnce'
  BY <1>5 DEF OneSampler, ReadOnce
<1>7. /\ used \in Nat /\ charged \in Nat /\ class.bytes \in Nat
      /\ lastBytes \in Seq(Nat) /\ entry \in 0..Len(lastBytes)
      /\ p.entry \in 1..Len(lastBytes) /\ p.read.bytes \in Nat
  BY <1>2, <1>4 DEF MeterTyped, Reading, Sample
<1>8. Uncharged'
  <2>1. CASE ~p.read.on
    BY <1>1, <1>2, <1>7, <2>1 DEF Uncharged, Taken, Charged
  <2>2. CASE p.read.on
    <3> DEFINE n == p.read.bytes
               l == lastBytes[p.entry]
    <3>1. n \in Nat /\ l \in Nat
      BY <1>7
    <3>2. l <= n /\ charged + n <= used + l
      BY <1>1, <1>2, <2>2 DEF ReadOnce
    <3>3. charged' = charged + (n - l)
      BY <1>2, <2>2, <3>1, <3>2 DEF Minus
    <3>4. CASE entry = 0
      <4>1. Taken' = 0 /\ class'.bytes = 0
        BY <1>2, <1>3, <3>4 DEF Taken, Charged, Classless, Off
      <4> HIDE DEF n, l
      <4> QED
        BY <1>2, <1>7, <3>1, <3>2, <3>3, <4>1 DEF Uncharged
    <3>5. CASE entry # 0
      <4>1. entry = p.entry /\ n <= class.bytes
        BY <1>1, <1>2, <3>5 DEF ReadOnce
      <4>2. Taken = l
        BY <1>3, <3>5, <4>1 DEF Taken, Charged
      <4>3. Taken' = n
        BY <1>2, <1>3, <1>7, <2>2, <3>5, <4>1 DEF Taken, Charged
      <4> HIDE DEF n, l
      <4> QED
        BY <1>1, <1>2, <1>7, <3>1, <3>3, <4>1, <4>2, <4>3 DEF Uncharged
    <3> QED
      BY <3>4, <3>5
  <2> QED
    BY <2>1, <2>2
<1> QED
  BY <1>6, <1>8 DEF ChargeInv

LEMMA TickCharges ==
    ASSUME ChargeInv, TickStep
    PROVE  ChargeInv'
<1>1. UNCHANGED <<agentVars, loopVars>>
  BY DEF TickStep, TickRead, TickBill, TickAdd
<1> QED
  BY <1>1 DEF agentVars, loopVars, ChargeInv, OneSampler, Uncharged, ReadOnce, Taken, Charged

\* What is split: a reading never goes back further than the last one, ...
LEMMA SinceInNat ==
    ASSUME MeterTyped, NEW n \in Nat
    PROVE  Since(n) \in Nat
  BY DEF Since, MeterTyped, Reading

LEMMA SplitTyped ==
    ASSUME MeterTyped
    PROVE  /\ Split \in Nat /\ SinceBase \in Nat /\ ToBill \in Nat /\ Since(tick.read) \in Nat
           /\ tick.billed \in Nat /\ tick.read \in Nat /\ used \in Nat /\ class.bytes \in Nat
<1>1. /\ base.bytes \in Nat /\ pendingApps.bytes \in Nat /\ attributed \in Nat
      /\ tick.billed \in Nat /\ tick.read \in Nat /\ used \in Nat /\ class.bytes \in Nat
  BY DEF MeterTyped, Reading
<1>2. Since(base.bytes) \in Nat /\ Since(tick.read) \in Nat /\ Minus(tick.read, base.bytes) \in Nat
  BY <1>1, SinceInNat, MinusInNat
<1> QED
  BY <1>1, <1>2 DEF Split, SinceBase, ToBill

LEMMA TrafficSplits ==
    ASSUME MeterTyped, SplitInv, Traffic
    PROVE  SplitInv'
<1> SUFFICES ASSUME faults = 0 PROVE SplitInv'
  BY DEF SplitInv, Traffic, tickVars
<1>1. /\ class'.bytes = class.bytes + 1 /\ used' = used + 1
      /\ UNCHANGED <<base, tick, pendingApps, attributed, faults>>
  BY DEF Traffic, tickVars, MeterTyped, Reading
<1>2. \A n \in Nat : Since(n)' <= Since(n) + 1 /\ Since(n)' \in Nat
  BY <1>1, SplitTyped DEF Since
<1>3. Since(tick.read)' <= Since(tick.read) + 1 /\ Since(tick.read)' \in Nat
  BY <1>1, <1>2, SplitTyped DEF Since
<1>4. SinceBase' <= SinceBase + 1 /\ SinceBase' \in Nat
  <2>1. base.bytes \in Nat
    BY DEF MeterTyped, Reading
  <2>2. Since(base.bytes)' <= Since(base.bytes) + 1 /\ Since(base.bytes)' \in Nat
    BY <1>1, <1>2, <2>1 DEF Since
  <2> QED
    BY <1>1, <2>2 DEF SinceBase
<1>5. Split' = Split /\ ToBill' = ToBill
  BY <1>1 DEF Split, ToBill
<1> QED
  BY <1>1, <1>3, <1>4, <1>5, SplitTyped DEF SplitInv

\* (which a class that is made anew only forgets)
LEMMA SplitStands ==
    ASSUME MeterTyped, SplitInv,
           UNCHANGED <<used, base, tick, faults>>, Split' <= Split, Split' \in Nat,
           class' = class \/ class'.bytes = 0
    PROVE  SplitInv'
<1> SUFFICES ASSUME faults = 0 PROVE SplitInv'
  BY DEF SplitInv
<1>1. \A n \in Nat : Since(n)' <= Since(n) /\ Since(n)' \in Nat
  BY SplitTyped DEF Since
<1>2. Since(tick.read)' <= Since(tick.read) /\ Since(tick.read)' \in Nat
  BY <1>1, SplitTyped DEF Since
<1>3. SinceBase' <= SinceBase /\ SinceBase' \in Nat
  <2>1. base.bytes \in Nat
    BY DEF MeterTyped, Reading
  <2>2. Since(base.bytes)' <= Since(base.bytes) /\ Since(base.bytes)' \in Nat
    BY <1>1, <2>1 DEF Since
  <2> QED
    BY <2>2 DEF SinceBase
<1>4. ToBill' = ToBill
  BY DEF ToBill
<1> QED
  BY <1>2, <1>3, <1>4, SplitTyped DEF SplitInv

LEMMA AdmissionSplits ==
    ASSUME MeterTyped, SplitInv, AdmissionStep
    PROVE  SplitInv'
<1>1. UNCHANGED <<used, base, tick, pendingApps, attributed, faults>>
  BY DEF AdmissionStep, AdmitLooksUp, AdmitEnters, RevokeDevice, tickVars
<1>2. class' = class \/ class'.bytes = 0
  BY DEF AdmissionStep, AdmitLooksUp, AdmitEnters, RevokeDevice, Off
<1>3. Split' = Split
  BY <1>1 DEF Split
<1> QED
  BY <1>1, <1>2, <1>3, SplitStands, SplitTyped

LEMMA LoopSplits ==
    ASSUME MeterTyped, SplitInv, LoopStep
    PROVE  SplitInv'
<1>1. UNCHANGED <<used, class, base, tick, faults>>
  BY DEF LoopStep, SampleStart, SampleEnd, agentVars, tickVars
<1>2. Split' = Split
  BY DEF LoopStep, SampleStart, SampleEnd, tickVars, Split, MeterTyped, Reading
<1> QED
  BY <1>1, <1>2, SplitStands, SplitTyped

\* ... so what a tick bills has not been split before.
LEMMA TickReadSplits ==
    ASSUME MeterTyped, SplitInv, TickRead
    PROVE  SplitInv'
<1> SUFFICES ASSUME faults' = 0 PROVE SplitInv'
  BY DEF SplitInv
<1>1. /\ faults' = faults /\ faults = 0
      /\ tick' = [pc |-> "bill", read |-> class.bytes, billed |-> 0]
      /\ tick.pc = "idle"
      /\ UNCHANGED <<used, class, attributed>>
  BY DEF TickRead, agentVars, MeterTyped
<1>2. tick.billed = 0 /\ Split + SinceBase <= used
  BY <1>1, SplitTyped DEF SplitInv
<1>3. (base' = Off /\ pendingApps' = Off) \/ UNCHANGED <<base, pendingApps>>
  BY DEF TickRead
<1>4. Split' \in Nat /\ Split' <= Split
  BY <1>1, <1>3 DEF Split, Off, MeterTyped, Reading
<1>5. SinceBase' \in Nat /\ SinceBase' <= SinceBase
  BY <1>1, <1>3, SplitTyped DEF SinceBase, Since, Off
<1>6. Since(tick.read)' = 0
  BY <1>1, SplitTyped DEF Since
<1>7. ToBill' \in Nat /\ ToBill' <= SinceBase'
  <2>1. base'.bytes \in Nat
    BY <1>3 DEF MeterTyped, Reading, Off
  <2> QED
    BY <1>1, <2>1, SplitTyped DEF ToBill, SinceBase, Since, Minus
<1>8. tick'.billed = 0 /\ tick'.pc = "bill"
  BY <1>1
<1> QED
  BY <1>1, <1>2, <1>4, <1>5, <1>6, <1>7, <1>8, SplitTyped DEF SplitInv

LEMMA TickBillSplits ==
    ASSUME MeterTyped, SplitInv, TickBill
    PROVE  SplitInv'
<1> SUFFICES ASSUME faults = 0 PROVE SplitInv'
  BY DEF SplitInv, TickBill
<1>1. /\ tick.billed = 0 /\ Split + SinceBase <= used
      /\ Split + ToBill + Since(tick.read) <= used
  BY SplitTyped DEF SplitInv, TickBill
<1>2. UNCHANGED <<used, class, pendingApps, attributed>>
  BY DEF TickBill, agentVars
<1>3. Split' = Split
  BY <1>2 DEF Split
<1>4. CASE entry = 0
  <2>1. tick' = [tick EXCEPT !.pc = "add"] /\ base' = base
    BY <1>4 DEF TickBill
  <2>2. tick'.pc = "add" /\ tick'.billed = 0
    BY <2>1, <1>1 DEF MeterTyped
  <2>3. SinceBase' = SinceBase
    BY <2>1, <1>2 DEF SinceBase, Since
  <2> QED
    BY <1>1, <1>2, <1>3, <2>2, <2>3, SplitTyped DEF SplitInv
<1>5. CASE entry # 0
  <2>1. base' = [on |-> TRUE, bytes |-> tick.read]
    BY <1>5 DEF TickBill
  <2>2. tick' = [tick EXCEPT !.pc = "add", !.billed = ToBill]
    BY <1>5 DEF TickBill, ToBill
  <2>3. tick'.pc = "add" /\ tick'.billed = ToBill
    BY <2>2 DEF MeterTyped
  <2>4. SinceBase' = Since(tick.read)
    BY <2>1, <1>2 DEF SinceBase, Since
  <2> QED
    BY <1>1, <1>2, <1>3, <2>3, <2>4, SplitTyped DEF SplitInv
<1> QED
  BY <1>4, <1>5

LEMMA TickAddSplits ==
    ASSUME MeterTyped, SplitInv, TickAdd
    PROVE  SplitInv'
<1> SUFFICES ASSUME faults = 0 PROVE SplitInv'
  BY DEF SplitInv, TickAdd
<1>1. Split + tick.billed + SinceBase <= used
  BY SplitTyped DEF SplitInv
<1>2. /\ UNCHANGED <<used, class, base, attributed>> /\ tick' = NoTick
      /\ pendingApps' = IF entry = 0 THEN pendingApps
                        ELSE [on |-> TRUE, bytes |-> pendingApps.bytes + tick.billed]
  BY DEF TickAdd, agentVars
<1>3. tick'.pc = "idle" /\ tick'.billed = 0
  BY <1>2 DEF NoTick
<1>4. SinceBase' = SinceBase
  BY <1>2 DEF SinceBase, Since
<1>5. Split' \in Nat /\ Split' <= Split + tick.billed
  <2>1. pendingApps'.bytes \in {pendingApps.bytes, pendingApps.bytes + tick.billed}
    BY <1>2
  <2>2. pendingApps.bytes \in Nat /\ attributed \in Nat
    BY DEF MeterTyped, Reading
  <2> QED
    BY <1>2, <2>1, <2>2, SplitTyped DEF Split
<1> QED
  BY <1>1, <1>2, <1>3, <1>4, <1>5, SplitTyped DEF SplitInv

\* The invariant, and what it says of the bytes.
LEMMA MeterInitially == MeterInit => MeterInv
<1> SUFFICES ASSUME MeterInit PROVE MeterInv
  OBVIOUS
<1>1. MeterTyped
  BY MeterInitTyped
<1>2. Classless
  BY DEF MeterInit, Classless
<1>3. ChargeInv
  BY DEF MeterInit, ChargeInv, OneSampler, Uncharged, ReadOnce, Taken, Charged, Off, NoAdmit, NoSample
<1>4. SplitInv
  BY DEF MeterInit, SplitInv, Split, SinceBase, Off, NoTick
<1> QED
  BY <1>1, <1>2, <1>3, <1>4 DEF MeterInv

LEMMA MeterStep ==
    ASSUME MeterInv, MeterNext
    PROVE  MeterInv'
<1> USE DEF MeterInv
<1>1. Classless'
  BY ClasslessHolds
<1>2. MeterTyped' /\ ChargeInv' /\ SplitInv'
  <2>1. CASE Traffic
    BY <2>1, TrafficTyped, TrafficCharges, TrafficSplits
  <2>2. CASE AdmissionStep
    <3>1. SplitInv'
      BY <2>2, AdmissionSplits
    <3>2. MeterTyped' /\ ChargeInv'
      BY <2>2, LooksUpTyped, EntersTyped, RevokeTyped, LooksUpCharges, EntersCharges, RevokeCharges
         DEF AdmissionStep
    <3> QED
      BY <3>1, <3>2
  <2>3. CASE LoopStep
    <3>1. SplitInv'
      BY <2>3, LoopSplits
    <3>2. MeterTyped' /\ ChargeInv'
      BY <2>3, SampleStartTyped, SampleEndTyped, SampleStartCharges, SampleEndCharges DEF LoopStep
    <3> QED
      BY <3>1, <3>2
  <2>4. CASE TickStep
    <3>1. SplitInv'
      BY <2>4, TickReadSplits, TickBillSplits, TickAddSplits DEF TickStep
    <3> QED
      BY <2>4, <3>1, TickTyped, TickCharges
  <2> QED
    BY <2>1, <2>2, <2>3, <2>4 DEF MeterNext
<1> QED
  BY <1>1, <1>2

LEMMA MeterStays ==
    ASSUME MeterInv, UNCHANGED meterVars
    PROVE  MeterInv'
  BY DEF meterVars, agentVars, loopVars, tickVars, MeterInv, MeterTyped, Classless, ChargeInv, SplitInv,
     OneSampler, Uncharged, ReadOnce, Taken, Charged, Since, SinceBase, ToBill, Split

LEMMA MeterSafe ==
    ASSUME MeterInv
    PROVE  BytesCountOnce
<1>1. charged > used => raced
  <2> SUFFICES ASSUME ~raced PROVE charged <= used
    BY DEF MeterInv, MeterTyped
  <2>1. used \in Nat /\ charged \in Nat /\ class.bytes \in Nat /\ Taken \in Nat
    BY DEF MeterInv, MeterTyped, Reading, Taken, Charged
  <2> QED
    BY <2>1 DEF MeterInv, ChargeInv, Uncharged
<1>2. faults = 0 => attributed <= used
  <2>1. attributed \in Nat /\ pendingApps.bytes \in Nat
    BY DEF MeterInv, MeterTyped, Reading
  <2> QED
    BY <2>1, SplitTyped DEF MeterInv, SplitInv, Split
<1> QED
  BY <1>1, <1>2 DEF BytesCountOnce

-----------------------------------------------------------------------------
\* Metering: an admission under way leaves room for its entry.
Entering == {MaxBytes, MaxEntries, ReadFaults} \subseteq Nat
MeterBounded ==
    /\ used <= MaxBytes /\ faults <= ReadFaults
    /\ Len(lastBytes) <= MaxEntries /\ (adm.on => Len(lastBytes) < MaxEntries)
MeterTypes == MeterInv /\ MeterBounded

LEMMA MetersAreTyped ==
    ASSUME Entering, MeterTypes
    PROVE  MeterTypeOK
<1>1. Len(lastBytes) \in Nat
  BY DEF MeterTypes, MeterInv, MeterTyped
<1>2. adm \in [on : BOOLEAN, from : 0..MaxEntries, kept : BOOLEAN]
  BY <1>1 DEF MeterTypes, MeterInv, MeterTyped, MeterBounded, Entering
<1>3. \A r \in Sampler : sample[r].entry \in 0..Len(lastBytes)
  BY <1>1 DEF MeterTypes, MeterInv, MeterTyped, Sample
<1> QED
  BY <1>1, <1>2, <1>3 DEF MeterTypes, MeterInv, MeterTyped, MeterBounded, MeterTypeOK, Reading, Entering

LEMMA MeterBoundedStep ==
    ASSUME Entering, MeterTypes, MeterNext
    PROVE  MeterBounded'
<1>1. lastBytes \in Seq(Nat) /\ Len(lastBytes) \in Nat /\ used \in Nat /\ faults \in Nat
      /\ adm \in [on : BOOLEAN, from : Nat, kept : BOOLEAN]
  BY DEF MeterTypes, MeterInv, MeterTyped
<1>2. CASE Traffic
  BY <1>1, <1>2 DEF Traffic, loopVars, tickVars, MeterTypes, MeterBounded, Entering
<1>3. ASSUME NEW kept \in BOOLEAN, AdmitLooksUp(kept) PROVE MeterBounded'
  BY <1>1, <1>3 DEF AdmitLooksUp, tickVars, MeterTypes, MeterBounded
<1>4. CASE AdmitEnters
  <2>1. Len(lastBytes') = Len(lastBytes) + 1 /\ ~adm'.on
    BY <1>1, <1>4 DEF AdmitEnters, NoAdmit
  <2> QED
    BY <1>1, <1>4, <2>1 DEF AdmitEnters, loopVars, tickVars, MeterTypes, MeterBounded, Entering
<1>5. CASE RevokeDevice
  BY <1>5 DEF RevokeDevice, loopVars, tickVars, MeterTypes, MeterBounded
<1>6. ASSUME NEW r \in Sampler, SampleStart(r) PROVE MeterBounded'
  BY <1>6 DEF SampleStart, agentVars, tickVars, MeterTypes, MeterBounded
<1>7. ASSUME NEW r \in Sampler, SampleEnd(r) PROVE MeterBounded'
  <2>1. Len(lastBytes') = Len(lastBytes)
    BY <1>1, <1>7 DEF SampleEnd
  <2> QED
    BY <1>7, <2>1 DEF SampleEnd, MeterTypes, MeterBounded
<1>8. CASE TickStep
  <2>1. faults' <= ReadFaults
    BY <1>1, <1>8 DEF TickStep, TickRead, TickBill, TickAdd, MeterTypes, MeterBounded, Entering
  <2> QED
    BY <1>8, <2>1 DEF TickStep, TickRead, TickBill, TickAdd, agentVars, MeterTypes, MeterBounded
<1> QED
  BY <1>2, <1>3, <1>4, <1>5, <1>6, <1>7, <1>8 DEF MeterNext, AdmissionStep, LoopStep

LEMMA MetersTyped ==
    ASSUME Entering
    PROVE  /\ MeterInit => MeterTypes
           /\ MeterTypes /\ (MeterNext \/ UNCHANGED meterVars) => MeterTypes'
<1>1. MeterInit => MeterTypes
  <2> SUFFICES ASSUME MeterInit PROVE MeterBounded
    BY MeterInitially DEF MeterTypes
  <2>1. Len(<<>>) = 0
    OBVIOUS
  <2> QED
    BY <2>1 DEF MeterInit, MeterBounded, Entering, NoAdmit
<1>2. ASSUME MeterTypes, MeterNext PROVE MeterTypes'
  BY <1>2, MeterStep, MeterBoundedStep DEF MeterTypes
<1>3. ASSUME MeterTypes, UNCHANGED meterVars PROVE MeterTypes'
  BY <1>3, MeterStays DEF MeterTypes, MeterBounded, meterVars, agentVars, tickVars
<1> QED
  BY <1>1, <1>2, <1>3

-----------------------------------------------------------------------------
\* Leases: isPresent says yes only of a device that was there while it looked.

Inquiry == [pc : {"idle", "next", "ping", "show", "present", "absent"},
            mac : Maybe(Device), todo : SUBSET Address, ip : Maybe(Address)]
ProbeTyped ==
    /\ holds \in [Device -> Maybe(Address)] /\ neigh \in [Address -> Maybe(Device)]
    /\ inquiry \in Inquiry
    /\ inquiry.pc # "idle" => inquiry.mac \in Device
    /\ inquiry.pc \in {"ping", "show"} => inquiry.ip \in Address
\* From the moment it asks, a device that holds an address was seen; and so was
\* the one the table shows after the ping.
SeenOnce ==
    /\ inquiry.pc # "idle" /\ holds[inquiry.mac] # None => seen
    /\ inquiry.pc = "show" /\ neigh[inquiry.ip] = inquiry.mac => seen
    /\ inquiry.pc = "present" => seen
FreshInv == ProbeTyped /\ SeenOnce

LEMMA FreshInitially ==
    ASSUME LeasesInit
    PROVE  FreshInv
  BY DEF LeasesInit, FreshInv, ProbeTyped, SeenOnce, NoProbe, Inquiry, Maybe

LEMMA ProbeStartFresh ==
    ASSUME FreshInv, NEW d \in Device, NEW ips \in SUBSET Address, ProbeStart(d, ips)
    PROVE  FreshInv'
  BY DEF ProbeStart, FreshInv, ProbeTyped, SeenOnce, Inquiry, Maybe

LEMMA ProbeForgetsFresh ==
    ASSUME FreshInv, NEW a \in Address, ProbeForgets(a)
    PROVE  FreshInv'
  BY DEF ProbeForgets, FreshInv, ProbeTyped, SeenOnce, Inquiry, Maybe

LEMMA ProbePingsFresh ==
    ASSUME None \notin Address, None \notin Device, FreshInv, ProbePings
    PROVE  FreshInv'
  BY DEF ProbePings, Behind, FreshInv, ProbeTyped, SeenOnce, Inquiry, Maybe

LEMMA ProbeOthersFresh ==
    ASSUME FreshInv, ProbeLooks \/ ProbeGivesUp \/ ProbeAnswered
    PROVE  FreshInv'
  BY DEF ProbeLooks, ProbeGivesUp, ProbeAnswered, NoProbe, FreshInv, ProbeTyped, SeenOnce, Inquiry, Maybe

LEMMA RoamFresh ==
    ASSUME None \notin Address, None \notin Device,
           FreshInv, NEW d \in Device, NEW a \in Address \cup {None}, Roam(d, a)
    PROVE  FreshInv'
  BY DEF Roam, FreshInv, ProbeTyped, SeenOnce, Inquiry, Maybe

LEMMA FreshStep ==
    ASSUME None \notin Address, None \notin Device, FreshInv, ProbeNext
    PROVE  FreshInv'
  BY ProbeStartFresh, ProbeForgetsFresh, ProbePingsFresh, ProbeOthersFresh, RoamFresh DEF ProbeNext

LEMMA FreshStays ==
    ASSUME FreshInv, UNCHANGED probeVars
    PROVE  FreshInv'
  BY DEF probeVars, FreshInv, ProbeTyped, SeenOnce

-----------------------------------------------------------------------------
\* Leases: only a scan under way has an offer under way.
Leasing == {MaxLeases, MaxMisses} \subseteq Nat /\ None \notin Address \cup Device
ScanRecord == [on : BOOLEAN, read : [Device -> 0..MaxLeases], todo : SUBSET Device, ask : Maybe(Device)]
LeasedTyped ==
    /\ lease \in [Device -> 0..MaxLeases] /\ admitted \subseteq entitled /\ entitled \subseteq Device
    /\ checked \in [Device -> [lease : 0..MaxLeases, due : BOOLEAN]]
    /\ scan \in ScanRecord /\ (scan.ask # None => scan.on)
    /\ rescan \in BOOLEAN /\ served \in BOOLEAN /\ misses \in 0..MaxMisses
WatchTypes == LeasedTyped /\ seen \in BOOLEAN

LEMMA LeasesAreTyped ==
    ASSUME FreshInv, WatchTypes
    PROVE  LeasesTypeOK
  BY DEF FreshInv, ProbeTyped, Inquiry, WatchTypes, LeasedTyped, ScanRecord, LeasesTypeOK

LEMMA BegunTyped ==
    ASSUME Leasing, LeasedTyped, NEW b \in BOOLEAN
    PROVE  Begun(b) \in ScanRecord /\ Begun(b).ask = None
<1> DEFINE read == IF b THEN lease ELSE NoScan.read
           todo == IF b THEN {d \in Device : lease[d] # 0} ELSE {}
<1>1. read \in [Device -> 0..MaxLeases] /\ todo \in SUBSET Device
  BY DEF NoScan, LeasedTyped, Leasing
<1> DEFINE s == [NoScan EXCEPT !.on = b, !.read = read, !.todo = todo]
<1>2. Begun(b) = s
  BY DEF Begun
<1>3. NoScan \in ScanRecord /\ NoScan.ask = None
  BY DEF NoScan, ScanRecord, Leasing, Maybe
<1> HIDE DEF read, todo
<1>4. s \in ScanRecord /\ s.ask = None
  BY <1>1, <1>3 DEF ScanRecord
<1> QED
  BY <1>2, <1>4

LEMMA WatchInitially ==
    ASSUME Leasing, LeasesInit
    PROVE  WatchTypes
<1>1. NoScan \in ScanRecord /\ NoScan.ask = None
  BY DEF NoScan, ScanRecord, Leasing, Maybe
<1> QED
  <2>1. /\ lease \in [Device -> 0..MaxLeases] /\ misses \in 0..MaxMisses
        /\ checked \in [Device -> [lease : 0..MaxLeases, due : BOOLEAN]]
    BY DEF LeasesInit, Leasing
  <2> QED
    BY <1>1, <2>1 DEF LeasesInit, WatchTypes, LeasedTyped

LEMMA WatchStepTyped ==
    ASSUME Leasing, LeasedTyped, WatchNext
    PROVE  LeasedTyped'
<1>1. CASE Scan
  BY <1>1, BegunTyped DEF Scan, LeasedTyped
<1>2. ASSUME NEW d \in Device, SkipLease(d) PROVE LeasedTyped'
  BY <1>2 DEF SkipLease, LeasedTyped, ScanRecord
<1>3. ASSUME NEW d \in Device, Offer(d) PROVE LeasedTyped'
  <2>1. checked' \in [Device -> [lease : 0..MaxLeases, due : BOOLEAN]]
    BY <1>3 DEF Offer, LeasedTyped, ScanRecord
  <2>2. scan' \in ScanRecord /\ scan'.on
    BY <1>3 DEF Offer, LeasedTyped, ScanRecord, Maybe
  <2> QED
    BY <1>3, <2>1, <2>2 DEF Offer, LeasedTyped
<1>4. CASE ApiServes
  BY <1>4 DEF ApiServes, LeasedTyped
<1>5. CASE OfferAnswered
  BY <1>5 DEF OfferAnswered, LeasedTyped, ScanRecord, Maybe
<1>6. CASE OfferFails
  BY <1>6 DEF OfferFails, LeasedTyped, ScanRecord, Maybe, Leasing
<1>7. CASE ScanEnds
  BY <1>7, BegunTyped DEF ScanEnds, LeasedTyped
<1>8. ASSUME NEW d \in Device, RecheckDue(d) PROVE LeasedTyped'
  <2>1. [checked[d] EXCEPT !.due = TRUE] \in [lease : 0..MaxLeases, due : BOOLEAN]
    BY <1>8 DEF LeasedTyped
  <2>2. checked' = [checked EXCEPT ![d] = [checked[d] EXCEPT !.due = TRUE]]
    BY <1>8 DEF RecheckDue
  <2>3. checked' \in [Device -> [lease : 0..MaxLeases, due : BOOLEAN]]
    BY <2>1, <2>2 DEF LeasedTyped
  <2> QED
    BY <1>8, <2>3 DEF RecheckDue, LeasedTyped
<1>9. ASSUME NEW d \in Device, TakeLease(d) PROVE LeasedTyped'
  <2>1. lease' \in [Device -> 0..MaxLeases]
    BY <1>9 DEF TakeLease, LeasedTyped, Leasing
  <2> QED
    BY <1>9, <2>1 DEF TakeLease, LeasedTyped
<1>10. ASSUME NEW d \in Device, Entitle(d) \/ EntitlementEnds(d) PROVE LeasedTyped'
  BY <1>10 DEF Entitle, EntitlementEnds, LeasedTyped
<1> QED
  BY <1>1, <1>2, <1>3, <1>4, <1>5, <1>6, <1>7, <1>8, <1>9, <1>10 DEF WatchNext, WatchStep

-----------------------------------------------------------------------------
\* HostHealth.

\* Levels and limits are numbers, and no key is null.
Hosted ==
    /\ Charge \subseteq Nat /\ {NetFailures, ApiFailures, MaxAgentRestarts} \subseteq Nat
    /\ None \notin Topic \X Nat
HealthTypes == HealthTypeOK /\ charge \in Nat

LEMMA HealthInitially ==
    ASSUME Hosted, HealthInit
    PROVE  HealthTypes
<1>1. told \in [Topic -> Maybe(BOOLEAN)]
  BY DEF HealthInit, Maybe
<1>2. charge \in Nat /\ netFails \in 0..NetFailures /\ apiFails \in 0..ApiFailures + 1
      /\ agentRestarts \in 0..MaxAgentRestarts
  BY DEF HealthInit, Hosted
<1> QED
  BY <1>1, <1>2 DEF HealthInit, HealthTypes, HealthTypeOK, Maybe

\* What an alert may be: only one with a key is urgent.
WellKeyed(a) ==
    /\ a.topic \in Topic /\ a.bad \in BOOLEAN
    /\ a.severity = "CRITICAL" => a.key # None
WordsTyped ==
    /\ {None} \cap (cool \cup direct) = {}
    /\ told \in [Topic -> Maybe(BOOLEAN)] /\ hushed \subseteq Topic

LEMMA OutTyped ==
    ASSUME WordsTyped, NEW a, WellKeyed(a), Out(a) \/ Silent(a)
    PROVE  told' \in [Topic -> Maybe(BOOLEAN)] /\ hushed' \subseteq Topic
  BY DEF WordsTyped, WellKeyed, Out, Silent, Maybe

LEMMA DirectTyped ==
    ASSUME WordsTyped, NEW a, WellKeyed(a), SendDirect(a)
    PROVE  WordsTyped'
<1>1. told' \in [Topic -> Maybe(BOOLEAN)] /\ hushed' \subseteq Topic
  BY OutTyped DEF SendDirect
<1>2. {None} \cap (cool' \cup direct') = {}
  BY DEF SendDirect, WordsTyped, WellKeyed
<1> QED
  BY <1>1, <1>2 DEF WordsTyped

LEMMA AlertTyped ==
    ASSUME WordsTyped, NEW a, WellKeyed(a), RaiseAlert(a)
    PROVE  WordsTyped'
<1>1. CASE ~api
  BY <1>1, DirectTyped DEF RaiseAlert
<1>2. CASE api
  <2>1. told' \in [Topic -> Maybe(BOOLEAN)] /\ hushed' \subseteq Topic
    BY <1>2, OutTyped DEF RaiseAlert
  <2>2. {None} \cap (cool' \cup direct') = {}
    BY <1>2 DEF RaiseAlert, WordsTyped
  <2> QED
    BY <2>1, <2>2 DEF WordsTyped
<1> QED
  BY <1>1, <1>2

LEMMA Keyed ==
    ASSUME Hosted, NEW t \in Topic, NEW n \in Nat, NEW w, NEW bad \in BOOLEAN
    PROVE  WellKeyed(Alert(t, <<t, n>>, w, bad)) /\ WellKeyed(Alert(t, None, "INFO", bad))
<1>1. <<t, n>> # None
  BY DEF Hosted
<1> QED
  BY <1>1 DEF WellKeyed, Alert

LEMMA HealthStays ==
    ASSUME HealthTypes, UNCHANGED healthVars
    PROVE  HealthTypes'
  BY DEF healthVars, worldVars, wordVars, HealthTypes, HealthTypeOK

LEMMA HealthKeeps ==
    ASSUME Hosted, HealthTypes, HealthNext
    PROVE  HealthTypes'
<1> DEFINE World == /\ mains \in BOOLEAN /\ net \in BOOLEAN /\ api \in BOOLEAN /\ diskLow \in BOOLEAN
                    /\ hot \in BOOLEAN /\ charge \in Charge \cup {100}
           Agent == /\ at \in {"power", "battery", "net", "api", "disk", "heat"} /\ power \in Maybe(BOOLEAN)
                    /\ netUp \in BOOLEAN /\ announced \in BOOLEAN
                    /\ netFails \in 0..NetFailures /\ apiFails \in 0..(ApiFailures + 1)
                    /\ warned \subseteq {30, 15, 7} /\ agentRestarts \in 0..MaxAgentRestarts
<1>1. World /\ Agent /\ WordsTyped
  BY DEF HealthTypes, HealthTypeOK, WordsTyped
<1>2. ASSUME World', Agent', WordsTyped' PROVE HealthTypes'
  BY <1>2 DEF HealthTypes, HealthTypeOK, WordsTyped, Hosted
<1>3. Topic = {"power", "battery", "net", "api", "disk", "heat", "start"}
  BY DEF Topic
<1>4. NoAlert => WordsTyped'
  BY <1>1 DEF NoAlert, wordVars, WordsTyped
<1>5. UNCHANGED worldVars => World'
  BY <1>1 DEF worldVars
<1>6. CASE CheckPower
  <2>1. WellKeyed(Alert("power", None, "INFO", FALSE)) /\ WellKeyed(Alert("power", None, "INFO", TRUE))
        /\ WellKeyed(Alert("power", <<"power", 0>>, "CRITICAL", TRUE))
    BY <1>3, Keyed
  <2>2. WordsTyped'
    <3>1. CASE NoAlert
      BY <1>4, <3>1
    <3>2. CASE Silent(Alert("power", None, "INFO", TRUE)) /\ UNCHANGED <<cool, direct>>
      BY <1>1, <2>1, <3>2, OutTyped DEF WordsTyped
    <3>3. CASE RaiseAlert(Alert("power", None, "INFO", FALSE))
      BY <1>1, <2>1, <3>3, AlertTyped
    <3>4. CASE RaiseAlert(Alert("power", <<"power", 0>>, "CRITICAL", TRUE))
      BY <1>1, <2>1, <3>4, AlertTyped
    <3> QED
      BY <1>6, <3>1, <3>2, <3>3, <3>4 DEF CheckPower
  <2>3. Agent'
    BY <1>1, <1>6 DEF CheckPower, Maybe
  <2> QED
    BY <1>2, <1>5, <1>6, <2>2, <2>3 DEF CheckPower
<1>7. CASE CheckBattery
  <2> DEFINE hits == {n \in {30, 15, 7} : charge <= n}
             level == Max(hits)
             w == IF level = 30 THEN "WARNING" ELSE "CRITICAL"
  <2>1. hits # {} => level \in {30, 15, 7} /\ level \in Nat
    <3>1. charge \in Nat
      BY DEF HealthTypes
    <3>2. hits # {} => \E x \in hits : \A y \in hits : x >= y
      BY <3>1
    <3> QED
      BY <3>2 DEF Max
  <2>2. CASE power = FALSE /\ hits # {}
    <3>1. RaiseAlert(Alert("battery", <<"battery", level>>, w, TRUE)) /\ warned' = warned \cup {level}
      BY <1>7, <2>2 DEF CheckBattery
    <3> HIDE DEF level, w
    <3>2. WellKeyed(Alert("battery", <<"battery", level>>, w, TRUE))
      BY <1>3, <2>1, <2>2, Keyed
    <3>3. WordsTyped'
      BY <1>1, <3>1, <3>2, AlertTyped
    <3>4. warned' \subseteq {30, 15, 7}
      BY <1>1, <2>1, <2>2, <3>1
    <3> QED
      BY <1>1, <1>2, <1>5, <1>7, <3>3, <3>4 DEF CheckBattery
  <2>3. CASE ~(power = FALSE /\ hits # {})
    <3>1. NoAlert /\ UNCHANGED warned
      BY <1>7, <2>3 DEF CheckBattery
    <3> QED
      BY <1>1, <1>2, <1>4, <1>5, <1>7, <3>1 DEF CheckBattery
  <2> QED
    BY <2>2, <2>3
<1>8. CASE CheckInternet
  <2>1. WordsTyped'
    <3>1. WellKeyed(Alert("net", None, "INFO", FALSE)) /\ WellKeyed(Alert("net", <<"net", 0>>, "CRITICAL", TRUE))
      BY <1>3, Keyed
    <3>2. NoAlert \/ RaiseAlert(Alert("net", None, "INFO", FALSE))
          \/ RaiseAlert(Alert("net", <<"net", 0>>, "CRITICAL", TRUE))
      <4>1. CASE net
        BY <1>8, <4>1 DEF CheckInternet
      <4>2. CASE ~net
        BY <1>8, <4>2 DEF CheckInternet
      <4> QED
        BY <4>1, <4>2
    <3>3. CASE NoAlert
      BY <1>4, <3>3
    <3>4. CASE RaiseAlert(Alert("net", None, "INFO", FALSE))
      BY <1>1, <3>1, <3>4, AlertTyped
    <3>5. CASE RaiseAlert(Alert("net", <<"net", 0>>, "CRITICAL", TRUE))
      BY <1>1, <3>1, <3>5, AlertTyped
    <3> QED
      BY <3>2, <3>3, <3>4, <3>5
  <2>2. netFails' \in 0..NetFailures
    <3>1. netFails' = 0 \/ netFails' = IF netFails < NetFailures THEN netFails + 1 ELSE netFails
      BY <1>8 DEF CheckInternet
    <3> QED
      BY <1>1, <3>1 DEF Hosted
  <2>3. netUp' \in BOOLEAN
    <3>1. CASE net
      BY <1>8, <3>1 DEF CheckInternet
    <3>2. CASE ~net
      BY <1>1, <1>8, <3>2 DEF CheckInternet
    <3> QED
      BY <3>1, <3>2
  <2> QED
    BY <1>1, <1>2, <1>5, <1>8, <2>1, <2>2, <2>3 DEF CheckInternet
<1>9. CASE CheckApi
  <2>1. WordsTyped'
    <3>1. WellKeyed(Alert("api", None, "INFO", FALSE)) /\ WellKeyed(Alert("api", <<"api", 0>>, "CRITICAL", TRUE))
      BY <1>3, Keyed
    <3>2. NoAlert \/ RaiseAlert(Alert("api", None, "INFO", FALSE))
          \/ SendDirect(Alert("api", <<"api", 0>>, "CRITICAL", TRUE))
      BY <1>9 DEF CheckApi
    <3>3. CASE NoAlert
      BY <1>4, <3>3
    <3>4. CASE RaiseAlert(Alert("api", None, "INFO", FALSE))
      BY <1>1, <3>1, <3>4, AlertTyped
    <3>5. CASE SendDirect(Alert("api", <<"api", 0>>, "CRITICAL", TRUE))
      BY <1>1, <3>1, <3>5, DirectTyped
    <3> QED
      BY <3>2, <3>3, <3>4, <3>5
  <2>2. apiFails' \in 0..(ApiFailures + 1)
    <3>1. apiFails' = 0 \/ apiFails' = IF apiFails > ApiFailures THEN apiFails ELSE apiFails + 1
      BY <1>9 DEF CheckApi
    <3> QED
      BY <1>1, <3>1 DEF Hosted
  <2> QED
    BY <1>1, <1>2, <1>5, <1>9, <2>1, <2>2 DEF CheckApi
<1>10. CASE CheckDisk
  <2>1. WordsTyped'
    <3>1. WellKeyed(Alert("disk", <<"disk", 0>>, "WARNING", TRUE))
      BY <1>3, Keyed
    <3> QED
      BY <1>1, <1>4, <1>10, <3>1, AlertTyped DEF CheckDisk
  <2> QED
    BY <1>1, <1>2, <1>5, <1>10, <2>1 DEF CheckDisk
<1>11. CASE CheckHeat
  <2>1. WordsTyped'
    <3>1. WellKeyed(Alert("heat", <<"heat", 0>>, "WARNING", TRUE))
      BY <1>3, Keyed
    <3> QED
      BY <1>1, <1>4, <1>11, <3>1, AlertTyped DEF CheckHeat
  <2> QED
    BY <1>1, <1>2, <1>5, <1>11, <2>1 DEF CheckHeat
<1>12. CASE Announce
  <2>1. WordsTyped'
    <3>1. WellKeyed(Alert("start", <<"start", 1>>, "WARNING", FALSE))
          /\ WellKeyed(Alert("start", <<"start", 0>>, "INFO", FALSE))
      BY <1>3, Keyed
    <3>2. RaiseAlert(Alert("start", <<"start", 1>>, "WARNING", FALSE))
          \/ RaiseAlert(Alert("start", <<"start", 0>>, "INFO", FALSE))
      BY <1>12 DEF Announce
    <3>3. CASE RaiseAlert(Alert("start", <<"start", 1>>, "WARNING", FALSE))
      BY <1>1, <3>1, <3>3, AlertTyped
    <3>4. CASE RaiseAlert(Alert("start", <<"start", 0>>, "INFO", FALSE))
      BY <1>1, <3>1, <3>4, AlertTyped
    <3> QED
      BY <3>2, <3>3, <3>4
  <2> QED
    BY <1>1, <1>2, <1>5, <1>12, <2>1 DEF Announce
<1>13. ASSUME NEW k, KeyCools(k) PROVE HealthTypes'
  <2>1. WordsTyped'
    BY <1>1, <1>13 DEF KeyCools, WordsTyped
  <2> QED
    BY <1>1, <1>2, <1>5, <1>13, <2>1 DEF KeyCools
<1>14. CASE AgentRestart
  <2>1. WordsTyped'
    BY <1>1, <1>14 DEF AgentRestart, WordsTyped
  <2>2. netFails' \in 0..NetFailures /\ apiFails' \in 0..(ApiFailures + 1) /\ agentRestarts' \in 0..MaxAgentRestarts
    BY <1>1, <1>14 DEF AgentRestart, Hosted
  <2> QED
    BY <1>1, <1>2, <1>5, <1>14, <2>1, <2>2 DEF AgentRestart, Maybe
<1>15. ASSUME World', UNCHANGED <<at, power, netUp, netFails, apiFails, warned, wordVars, announced, agentRestarts>>
       PROVE  HealthTypes'
  BY <1>1, <1>2, <1>15 DEF wordVars, WordsTyped
<1>16. CASE WorldTurns(MainsTurn)
  BY <1>1, <1>15, <1>16 DEF WorldTurns, MainsTurn
<1>17. CASE WorldTurns(ChargeTurns)
  BY <1>1, <1>15, <1>17 DEF WorldTurns, ChargeTurns
<1>18. CASE WorldTurns(NetTurns)
  BY <1>1, <1>15, <1>18 DEF WorldTurns, NetTurns
<1>19. CASE WorldTurns(ApiTurns)
  BY <1>1, <1>15, <1>19 DEF WorldTurns, ApiTurns
<1>20. CASE WorldTurns(GatewayTurns)
  BY <1>1, <1>15, <1>20 DEF WorldTurns, GatewayTurns
<1> QED
  BY <1>6, <1>7, <1>8, <1>9, <1>10, <1>11, <1>12, <1>13, <1>14, <1>16, <1>17, <1>18, <1>19, <1>20
  DEF HealthNext, HealthStep, CheckStep

-----------------------------------------------------------------------------
\* AppUsage: reading the log, and the split across apps.

Line == [site : Maybe(Site), no : Nat]
Polling == [pc : {"idle", "read", "trim"}, size : Nat]
LogTyped ==
    /\ dnsLog \in Seq(Line) /\ half \in BOOLEAN /\ (half => dnsLog # <<>>)
    /\ lookups \in 0..MaxLookups /\ Len(dnsLog) <= lookups + 1
    /\ offset \in Nat /\ dnsPoll \in Polling /\ mapping \in [Site -> Nat]
    /\ truncFaults \in 0..TruncateFaults /\ starts \in 0..AgentStarts
\* Lines come in the order of their lookups, and none is from the future.
InOrder ==
    /\ \A i \in 1..Len(dnsLog) : dnsLog[i].no <= lookups
    /\ \A i, j \in 1..Len(dnsLog) : i < j /\ dnsLog[j].site # None => dnsLog[i].no < dnsLog[j].no
    /\ \A s \in Site : mapping[s] <= lookups
\* What has been read, or is about to be, is in the file.
WithinLog == offset <= 2 * Len(dnsLog) /\ (dnsPoll.pc = "read" => dnsPoll.size <= 2 * Len(dnsLog))
LogInv == LogTyped /\ InOrder /\ WithinLog /\ LookupsRead
\* Bounds and limits are numbers, and a fragment names no site.
Logging ==
    /\ {MaxLookups, TruncateFaults, AgentStarts} \subseteq Nat /\ LogLimit \in Nat
    /\ None \notin Site

LEMMA LogInitially ==
    ASSUME Logging, AppInit
    PROVE  LogInv
<1>1. LogTyped
  <2>1. dnsLog \in Seq(Line) /\ Len(dnsLog) = 0 /\ half \in BOOLEAN /\ ~half /\ dnsPoll \in Polling
    <3>1. dnsLog = <<>> /\ ~half /\ dnsPoll = [pc |-> "idle", size |-> 0]
      BY DEF AppInit
    <3>2. half \in BOOLEAN
      BY DEF AppInit
    <3>3. [pc |-> "idle", size |-> 0] \in Polling
      BY DEF Polling
    <3>4. <<>> \in Seq(Line) /\ Len(<<>>) = 0
      OBVIOUS
    <3> QED
      BY <3>1, <3>2, <3>3, <3>4
  <2>2. lookups = 0 /\ offset = 0 /\ truncFaults = 0 /\ starts = 0 /\ mapping \in [Site -> Nat]
    BY DEF AppInit
  <2>3. 0 \in 0..MaxLookups /\ 0 \in 0..TruncateFaults /\ 0 \in 0..AgentStarts /\ 0 \in Nat /\ 0 <= 0 + 1
    BY DEF Logging
  <2> QED
    BY <2>1, <2>2, <2>3 DEF LogTyped
<1>2. Len(dnsLog) = 0 /\ 1..Len(dnsLog) = {} /\ offset = 0 /\ dnsPoll.pc = "idle" /\ lookups = 0
      /\ \A s \in Site : mapping[s] = 0
  BY DEF AppInit
<1>3. InOrder /\ WithinLog /\ LookupsRead
  BY <1>2 DEF InOrder, WithinLog, LookupsRead
<1> QED
  BY <1>1, <1>3 DEF LogInv

LEMMA WriteKeeps ==
    ASSUME Logging, LogInv, NEW s \in Site, WriteLookup(s)
    PROVE  LogInv'
<1> DEFINE line == [site |-> s, no |-> lookups + 1]
           n == Len(dnsLog)
<1>1. /\ lookups \in Nat /\ lookups' = lookups + 1 /\ lookups' \in 0..MaxLookups /\ n \in Nat
      /\ dnsLog' = Append(dnsLog, line) /\ line \in Line /\ half' \in BOOLEAN
      /\ UNCHANGED <<offset, dnsPoll, mapping, truncFaults, starts>>
  BY DEF LogInv, LogTyped, WriteLookup, Logging, Line, Maybe
<1>2. /\ dnsLog' \in Seq(Line) /\ Len(dnsLog') = n + 1
      /\ \A i \in 1..n : dnsLog'[i] = dnsLog[i] /\ dnsLog[i] \in Line
      /\ dnsLog'[n + 1].no = lookups + 1 /\ dnsLog'[n + 1].site = s
  <2> HIDE DEF line
  <2>1. /\ dnsLog' \in Seq(Line) /\ Len(dnsLog') = n + 1
        /\ \A i \in 1..n : dnsLog'[i] = dnsLog[i] /\ dnsLog[i] \in Line
        /\ dnsLog'[n + 1] = line
    BY <1>1 DEF LogInv, LogTyped
  <2> QED
    BY <2>1 DEF line
<1> HIDE DEF line, n
<1>3. LogTyped'
  BY <1>1, <1>2 DEF LogInv, LogTyped, n
<1>4. \A i \in 1..(n + 1) : i \in 1..n \/ i = n + 1
  BY <1>1
<1>5. InOrder'
  <2>1. \A i \in 1..n : dnsLog'[i].no <= lookups /\ dnsLog'[i].no \in Nat
    BY <1>2 DEF LogInv, InOrder, n, Line
  <2>2. \A i \in 1..(n + 1) : dnsLog'[i].no <= lookups + 1
    BY <1>1, <1>2, <1>4, <2>1
  <2>3. ASSUME NEW i \in 1..(n + 1), NEW j \in 1..(n + 1), i < j, dnsLog'[j].site # None
        PROVE  dnsLog'[i].no < dnsLog'[j].no
    <3>1. CASE j = n + 1
      BY <1>1, <1>2, <2>1, <2>3, <3>1
    <3>2. CASE j # n + 1
      <4>1. i \in 1..n /\ j \in 1..n
        BY <1>1, <2>3, <3>2
      <4> QED
        BY <1>2, <2>3, <4>1 DEF LogInv, InOrder, n
    <3> QED
      BY <3>1, <3>2
  <2>4. \A x \in Site : mapping'[x] <= lookups + 1
    BY <1>1 DEF LogInv, InOrder, LogTyped
  <2> QED
    BY <1>1, <1>2, <2>2, <2>3, <2>4 DEF InOrder
<1>6. WithinLog'
  BY <1>1, <1>2 DEF LogInv, LogTyped, Polling, WithinLog, n
<1>7. LookupsRead'
  <2>1. ASSUME NEW i \in 1..(n + 1), dnsLog'[i].site # None, 2 * i <= offset
        PROVE  i \in 1..n
    BY <1>1, <1>4, <2>1 DEF LogInv, LogTyped, WithinLog, n
  <2> QED
    BY <1>1, <1>2, <2>1 DEF LogInv, LookupsRead, n
<1> QED
  BY <1>3, <1>5, <1>6, <1>7 DEF LogInv

LEMMA FinishKeeps ==
    ASSUME LogInv, FinishLine
    PROVE  LogInv'
  BY DEF LogInv, FinishLine, LogTyped, InOrder, WithinLog, LookupsRead

LEMMA SizeKeeps ==
    ASSUME LogInv, PollSize
    PROVE  LogInv'
<1>1. LogSize \in Nat /\ LogSize <= 2 * Len(dnsLog)
  <2>1. Len(dnsLog) \in Nat /\ (half => Len(dnsLog) > 0)
    BY DEF LogInv, LogTyped
  <2> QED
    BY <2>1 DEF LogSize
<1>2. /\ offset' \in {0, offset} /\ dnsPoll' = [pc |-> "read", size |-> LogSize]
      /\ UNCHANGED <<dnsLog, half, lookups, mapping, truncFaults, starts>>
  BY DEF PollSize
<1>3. dnsPoll' \in Polling /\ dnsPoll'.size = LogSize
  BY <1>1, <1>2 DEF Polling
<1> HIDE DEF LogSize
<1>4. LogTyped'
  BY <1>2, <1>3 DEF LogInv, LogTyped
<1>5. InOrder' /\ WithinLog'
  BY <1>1, <1>2, <1>3 DEF LogInv, LogTyped, InOrder, WithinLog
<1>6. LookupsRead'
  <2>1. CASE offset' = offset
    BY <1>2, <2>1 DEF LogInv, LookupsRead
  <2>2. CASE offset' = 0
    <3>1. ASSUME NEW i \in 1..Len(dnsLog) PROVE ~(2 * i <= 0)
      OBVIOUS
    <3> QED
      BY <1>2, <2>2, <3>1 DEF LookupsRead
  <2> QED
    BY <1>2, <2>1, <2>2
<1> QED
  BY <1>4, <1>5, <1>6 DEF LogInv

\* A set of numbers below a bound has a greatest one.
LEMMA Greatest ==
    ASSUME NEW n \in Nat, NEW T \in SUBSET (1..n), T # {}
    PROVE  Max(T) \in T /\ \A i \in T : i <= Max(T)
<1> DEFINE U == {k \in Nat : \A i \in T : i <= k}
<1>1. n \in U
  OBVIOUS
<1>2. PICK k \in U : \A m \in U : ~(m < k)
  BY <1>1, LeastNumber
<1>3. k \in T
  <2> SUFFICES ASSUME k \notin T PROVE FALSE
    OBVIOUS
  <2>1. PICK i \in T : TRUE
    OBVIOUS
  <2>2. k - 1 \in Nat
    BY <1>2, <2>1
  <2>3. \A j \in T : j <= k - 1
    BY <1>2
  <2> QED
    BY <1>2, <2>2, <2>3
<1>4. \A i \in T : k >= i
  BY <1>2
<1>5. Max(T) \in T /\ \A i \in T : Max(T) >= i
  BY <1>3, <1>4 DEF Max
<1> QED
  BY <1>5

LEMMA ReadsKeeps ==
    ASSUME Logging, LogInv, PollReads
    PROVE  LogInv'
<1> DEFINE to == WholeLines
           n == Len(dnsLog)
           lines(s) == {i \in 1..n : dnsLog[i].site = s /\ 2 * i - 2 >= offset /\ 2 * i <= to}
<1>1. /\ dnsPoll.pc = "read" /\ dnsPoll \in Polling /\ offset \in Nat /\ n \in Nat /\ offset % 2 = 0
      /\ mapping \in [Site -> Nat] /\ dnsPoll.size <= 2 * n /\ offset <= 2 * n
  BY DEF PollReads, LogInv, LogTyped, WithinLog, LookupsRead
<1>2. /\ mapping' = [s \in Site |-> IF lines(s) = {} THEN mapping[s] ELSE dnsLog[Max(lines(s))].no]
      /\ offset' = to /\ dnsPoll' = [dnsPoll EXCEPT !.pc = "trim"]
      /\ UNCHANGED <<dnsLog, half, lookups, truncFaults, starts>>
  BY DEF PollReads, Remember
<1>3. to \in Nat /\ to % 2 = 0 /\ to <= 2 * n
  <2>1. dnsPoll.size \in Nat /\ LogLimit \in Nat
    BY <1>1 DEF Polling, Logging
  <2>2. ReadUpTo \in Int /\ ReadUpTo <= dnsPoll.size
    BY <1>1, <2>1 DEF ReadUpTo
  <2> HIDE DEF ReadUpTo
  <2>3. PICK h \in Int : h = ReadUpTo \div 2 /\ 2 * h <= ReadUpTo
    BY <2>2
  <2>4. (2 * h) % 2 = 0
    BY <2>3
  <2>5. to = IF 2 * h > offset THEN 2 * h ELSE offset
    BY <2>3 DEF WholeLines
  <2> HIDE DEF to
  <2> QED
    BY <1>1, <2>1, <2>2, <2>3, <2>4, <2>5
<1> HIDE DEF to
<1>4. ASSUME NEW s \in Site, lines(s) # {}
      PROVE  /\ Max(lines(s)) \in lines(s) /\ \A i \in lines(s) : i <= Max(lines(s))
             /\ Max(lines(s)) \in 1..n /\ dnsLog[Max(lines(s))] \in Line
  <2>1. Max(lines(s)) \in lines(s) /\ \A i \in lines(s) : i <= Max(lines(s))
    BY <1>1, <1>4, Greatest
  <2> HIDE DEF n
  <2>2. Max(lines(s)) \in 1..n
    BY <2>1
  <2> HIDE DEF lines
  <2> QED
    BY <2>1, <2>2 DEF n, LogInv, LogTyped
<1>5. ASSUME NEW s \in Site
      PROVE  mapping'[s] \in Nat /\ mapping'[s] <= lookups /\
             mapping'[s] = IF lines(s) = {} THEN mapping[s] ELSE dnsLog[Max(lines(s))].no
  <2>1. mapping'[s] = IF lines(s) = {} THEN mapping[s] ELSE dnsLog[Max(lines(s))].no
    BY <1>2
  <2>2. CASE lines(s) = {}
    BY <1>1, <2>1, <2>2 DEF LogInv, InOrder
  <2>3. CASE lines(s) # {}
    <3> HIDE DEF lines
    <3> QED
      BY <1>4, <2>1, <2>3 DEF LogInv, InOrder, Line, n
  <2> QED
    BY <2>1, <2>2, <2>3
<1>6. dnsPoll' \in Polling /\ dnsPoll'.pc = "trim"
  BY <1>1, <1>2 DEF Polling
<1>7. LogTyped'
  <2>1. mapping' \in [Site -> Nat]
    BY <1>2, <1>5
  <2> QED
    BY <1>2, <1>3, <1>6, <2>1 DEF LogInv, LogTyped
<1>8. InOrder' /\ WithinLog'
  BY <1>2, <1>3, <1>5, <1>6 DEF LogInv, InOrder, WithinLog, n
<1>9. LookupsRead'
  <2> SUFFICES ASSUME NEW i \in 1..n, dnsLog[i].site # None, 2 * i <= to
               PROVE  mapping'[dnsLog[i].site] >= dnsLog[i].no
    BY <1>2, <1>3 DEF LookupsRead, n
  <2>a. \A k \in 1..n : dnsLog[k] \in Line
    BY DEF LogInv, LogTyped, n
  <2>b. \A k \in 1..n : dnsLog[k].no \in Nat
    BY <2>a DEF Line
  <2> DEFINE s == dnsLog[i].site
             top == Max(lines(s))
  <2>1. s \in Site /\ dnsLog[i].no \in Nat
    <3>1. dnsLog[i] \in Line
      BY DEF LogInv, LogTyped, n
    <3> QED
      BY <3>1 DEF Line, Maybe
  <2>2. CASE 2 * i - 2 >= offset
    <3>1. i \in lines(s) /\ lines(s) # {}
      BY <2>2
    <3>2. i <= top /\ top \in 1..n /\ dnsLog[top].site = s /\ mapping'[s] = dnsLog[top].no
      BY <1>4, <1>5, <2>1, <3>1
    <3>3. top = i \/ i < top
      BY <3>2
    <3> HIDE DEF top, s, lines
    <3>4. dnsLog[top].no >= dnsLog[i].no
      <4>1. i < top => dnsLog[i].no < dnsLog[top].no
        BY <3>2 DEF LogInv, InOrder, n, s
      <4>2. dnsLog[top].no \in Nat
        BY <2>b, <3>2
      <4> QED
        BY <2>1, <3>3, <4>1, <4>2
    <3> QED
      BY <3>2, <3>4 DEF s
  <2>3. CASE ~(2 * i - 2 >= offset)
    <3>1. 2 * i <= offset
      BY <1>1, <2>3
    <3>2. mapping[s] >= dnsLog[i].no
      BY <3>1 DEF LogInv, LookupsRead, n
    <3>3. CASE lines(s) = {}
      BY <1>5, <2>1, <3>2, <3>3
    <3>4. CASE lines(s) # {}
      <4>a. top \in lines(s) /\ top \in 1..n
        <5> HIDE DEF lines, s, n
        <5> QED
          BY <1>4, <2>1, <3>4
      <4>b. mapping'[s] = dnsLog[top].no
        <5> HIDE DEF lines, s, n
        <5> QED
          BY <1>5, <2>1, <3>4
      <4>c. dnsLog[top].site = s /\ 2 * top - 2 >= offset
        <5> HIDE DEF top, s, n
        <5> QED
          BY <4>a
      <4>1. top \in 1..n /\ dnsLog[top].site = s /\ 2 * top - 2 >= offset /\ mapping'[s] = dnsLog[top].no
        BY <4>a, <4>b, <4>c
      <4> HIDE DEF s, lines
      <4>2. i < top
        <5> HIDE DEF top
        <5> QED
          BY <1>1, <3>1, <4>1
      <4> HIDE DEF top
      <4>3. dnsLog[i].no < dnsLog[top].no
        BY <4>1, <4>2 DEF LogInv, InOrder, n, s
      <4>4. dnsLog[top].no \in Nat
        BY <2>b, <4>1
      <4> QED
        BY <2>1, <4>1, <4>3, <4>4 DEF s
    <3> QED
      BY <3>3, <3>4
  <2> QED
    BY <2>2, <2>3
<1> QED
  BY <1>7, <1>8, <1>9 DEF LogInv

LEMMA TrimsKeeps ==
    ASSUME Logging, LogInv, PollTrims
    PROVE  LogInv'
<1>1. dnsPoll' \in Polling /\ dnsPoll'.pc = "idle" /\ UNCHANGED <<half, lookups, mapping, starts>>
  BY DEF LogInv, LogTyped, PollTrims, Polling
<1>2. CASE offset < LogLimit /\ UNCHANGED <<dnsLog, offset, truncFaults>>
  BY <1>1, <1>2 DEF LogInv, LogTyped, InOrder, WithinLog, LookupsRead
<1>3. CASE offset' = 0 /\ dnsLog' = (IF half THEN <<Fragment>> ELSE <<>>) /\ UNCHANGED truncFaults
  <2>1. /\ dnsLog' \in Seq(Line) /\ Len(dnsLog') \in 0..1 /\ (half => Len(dnsLog') = 1)
        /\ \A i \in 1..Len(dnsLog') : i = 1 /\ dnsLog'[i] = Fragment
    <3>1. Fragment \in Line
      BY DEF Fragment, Line, Maybe
    <3>2. CASE half
      <4>1. dnsLog' = <<Fragment>>
        BY <1>3, <3>2
      <4> QED
        BY <3>1, <4>1
    <3>3. CASE ~half
      <4>1. dnsLog' = <<>>
        BY <1>3, <3>3
      <4> QED
        BY <3>3, <4>1
    <3> QED
      BY <3>2, <3>3
  <2>2. LogTyped'
    BY <1>1, <1>3, <2>1 DEF LogInv, LogTyped
  <2>3. InOrder' /\ WithinLog' /\ LookupsRead'
    <3>1. Fragment.no = 0 /\ Fragment.site = None
      BY DEF Fragment
    <3> QED
      BY <1>1, <1>3, <2>1, <3>1 DEF LogInv, LogTyped, InOrder, WithinLog, LookupsRead
  <2> QED
    BY <2>2, <2>3 DEF LogInv
<1>4. CASE /\ offset' = 0 /\ truncFaults < TruncateFaults /\ truncFaults' = truncFaults + 1 /\ UNCHANGED dnsLog
  BY <1>1, <1>4 DEF LogInv, LogTyped, InOrder, WithinLog, LookupsRead, Logging
<1> QED
  BY <1>2, <1>3, <1>4 DEF PollTrims

LEMMA RestartReads ==
    ASSUME Logging, LogInv, AppAgentRestart
    PROVE  LogInv'
<1>1. /\ offset' = 0 /\ dnsPoll' \in Polling /\ dnsPoll'.pc = "idle" /\ mapping' = [s \in Site |-> 0]
      /\ starts' \in 0..AgentStarts /\ UNCHANGED <<dnsLog, half, lookups, truncFaults>>
  BY DEF AppAgentRestart, Polling, LogInv, LogTyped, Logging
<1> QED
  BY <1>1 DEF LogInv, LogTyped, InOrder, WithinLog, LookupsRead

LEMMA LogSame ==
    ASSUME LogInv, UNCHANGED <<lookupVars, starts>>
    PROVE  LogInv'
  BY DEF lookupVars, LogInv, LogTyped, InOrder, WithinLog, LookupsRead

\* A bound on each row bounds the sum.
LEMMA SumWithin ==
    ASSUME NEW S, IsFiniteSet(S), NEW f, NEW g, NEW c \in Nat, NEW d \in Nat, NEW e \in Nat,
           \A x \in S : f[x] \in Nat /\ g[x] \in Nat /\ c * f[x] <= d * g[x] + e
    PROVE  c * SumOf(S, f) <= d * SumOf(S, g) + e * Cardinality(S)
<1> DEFINE Within(R) == c * SumOf(R, f) <= d * SumOf(R, g) + e * Cardinality(R)
           T == {k \in Nat : \E R \in SUBSET S : Cardinality(R) = k /\ ~Within(R)}
<1> SUFFICES ASSUME ~Within(S) PROVE FALSE
  OBVIOUS
<1>1. Cardinality(S) \in T
  BY FS_CardinalityType
<1>2. PICK k \in T : \A m \in T : ~(m < k)
  BY <1>1, LeastNumber
<1>3. PICK R \in SUBSET S : Cardinality(R) = k /\ ~Within(R)
  BY <1>2
<1>4. IsFiniteSet(R)
  BY FS_Subset
<1>5. R # {}
  <2> SUFFICES ASSUME R = {} PROVE FALSE
    OBVIOUS
  <2>1. Coins({}, f) = {} /\ Coins({}, g) = {} /\ Cardinality({}) = 0
    BY FS_EmptySet DEF Coins
  <2>2. SumOf(R, f) = 0 /\ SumOf(R, g) = 0 /\ Cardinality(R) = 0
    BY <2>1 DEF SumOf
  <2> QED
    BY <1>3, <2>2
<1>6. PICK w \in R : TRUE
  BY <1>5
<1> DEFINE Q == R \ {w}
<1>7. IsFiniteSet(Q) /\ Cardinality(Q) = k - 1 /\ Cardinality(Q) \in Nat
  BY <1>3, <1>4, FS_RemoveElement, FS_CardinalityType
<1>8. Within(Q)
  <2>1. k - 1 \in Nat /\ k - 1 < k
    BY <1>2, <1>7
  <2>2. k - 1 \notin T
    BY <1>2, <2>1
  <2> QED
    BY <1>7, <2>1, <2>2
<1>9. /\ SumOf(R, f) = SumOf(Q, f) + f[w] /\ SumOf(R, g) = SumOf(Q, g) + g[w]
      /\ SumOf(Q, f) \in Nat /\ SumOf(Q, g) \in Nat
  <2>1. R = Q \cup {w} /\ w \notin Q
    OBVIOUS
  <2>2. \A x \in Q \cup {w} : f[x] \in Nat /\ g[x] \in Nat
    OBVIOUS
  <2> HIDE DEF Q
  <2>3. SumOf(Q \cup {w}, f) = SumOf(Q, f) + f[w] /\ SumOf(Q \cup {w}, g) = SumOf(Q, g) + g[w]
    BY <1>7, <2>1, <2>2, SumAdd
  <2>4. SumOf(Q, f) \in Nat
    BY <1>7, <2>2, SumMonotone
  <2>5. SumOf(Q, g) \in Nat
    BY <1>7, <2>2, SumMonotone
  <2> QED
    BY <2>1, <2>3, <2>4, <2>5
<1>10. Within(R)
  <2> DEFINE F == SumOf(Q, f)
             G == SumOf(Q, g)
             x == f[w]
             y == g[w]
             m == Cardinality(Q)
  <2>1. F \in Nat /\ G \in Nat /\ x \in Nat /\ y \in Nat /\ m \in Nat /\ c * x <= d * y + e
        /\ c * F <= d * G + e * m /\ Cardinality(R) = m + 1
    BY <1>3, <1>7, <1>8, <1>9, <1>2
  <2> HIDE DEF F, G, x, y, m
  <2>2. c * (F + x) = c * F + c * x /\ d * (G + y) = d * G + d * y /\ e * (m + 1) = e * m + e
    BY <2>1
  <2>3. {c * F, c * x, d * G, d * y, e * m} \subseteq Nat
    BY <2>1
  <2>4. c * (F + x) <= d * (G + y) + e * (m + 1)
    BY <2>1, <2>2, <2>3
  <2> QED
    BY <1>9, <2>1, <2>4 DEF F, G, x, y, m
<1> QED
  BY <1>3, <1>10

\* Sites are finitely many, and none is called like the rest.
Splitting == IsFiniteSet(Site) /\ Unattributed \notin Site /\ IsFiniteSet(Flow) /\ MaxMoved \in Nat

LEMMA AppsFinite ==
    ASSUME Splitting
    PROVE  IsFiniteSet(App) /\ Unattributed \in App /\ Site \subseteq App /\ Cardinality(App) \in Nat
<1>1. IsFiniteSet(App)
  BY FS_AddElement DEF Splitting, App
<1> QED
  BY <1>1, FS_CardinalityType DEF App

SharesTyped(s) ==
    /\ s.billed \in Nat /\ s.den \in Nat \ {0} /\ s.seen \in [App -> Nat] /\ s.parts \in [App -> Nat]
    /\ SumOf(App, s.parts) = s.billed * s.den
    /\ \A a \in Site : s.parts[a] <= s.seen[a] * s.den

LEMMA SplitsWell ==
    ASSUME Splitting, NEW n \in Nat, NEW have \in [App -> Nat]
    PROVE  SharesTyped(SplitAcrossApps(n, have))
<1> DEFINE total == Total(have)
           over == total > n
           den == IF over THEN total ELSE 1
           rest == IF over THEN 0 ELSE n - total
           parts == [a \in App |-> (IF over THEN have[a] * n ELSE have[a]) + (IF a = Unattributed THEN rest ELSE 0)]
           s == SplitAcrossApps(n, have)
<1>1. s = [billed |-> n, seen |-> have, den |-> den, parts |-> parts]
  BY DEF SplitAcrossApps
<1>2. s.billed = n /\ s.seen = have /\ s.den = den /\ s.parts = parts
  BY <1>1
<1>3. total = SumOf(App, have) /\ total \in Nat
  BY AppsFinite, SumMonotone DEF Total
<1> HIDE DEF total
<1>4. CASE over
  <2>1. parts = [a \in App |-> have[a] * n] /\ den = total /\ total \in Nat \ {0}
    <3>1. \A a \in App : have[a] * n \in Nat
      OBVIOUS
    <3>2. \A a \in App : (IF over THEN have[a] * n ELSE have[a]) + (IF a = Unattributed THEN rest ELSE 0) = have[a] * n
      BY <1>4, <3>1
    <3> QED
      BY <1>3, <1>4, <3>2
  <2> DEFINE p == [a \in App |-> have[a] * n]
  <2>2. p \in [App -> Nat] /\ \A a \in App : p[a] = have[a] * n
    OBVIOUS
  <2> HIDE DEF p
  <2>3. SumOf(App, p) \in Nat
    BY <2>2, AppsFinite, SumMonotone
  <2>4. SumOf(App, p) = n * total
    <3>1. 1 * SumOf(App, p) <= n * SumOf(App, have) + 0 * Cardinality(App)
      <4>1. \A a \in App : p[a] \in Nat /\ have[a] \in Nat /\ 1 * p[a] <= n * have[a] + 0
        BY <2>2
      <4> QED
        BY <4>1, AppsFinite, SumWithin
    <3>2. n * SumOf(App, have) <= 1 * SumOf(App, p) + 0 * Cardinality(App)
      <4>1. \A a \in App : have[a] \in Nat /\ p[a] \in Nat /\ n * have[a] <= 1 * p[a] + 0
        BY <2>2
      <4> QED
        BY <4>1, AppsFinite, SumWithin
    <3>3. n * total \in Nat
      BY <1>3
    <3> QED
      BY <1>3, <2>3, <3>1, <3>2, <3>3, AppsFinite
  <2>5. \A a \in Site : p[a] <= have[a] * total
    <3> SUFFICES ASSUME NEW a \in Site PROVE p[a] <= have[a] * total
      OBVIOUS
    <3>1. have[a] \in Nat /\ p[a] = have[a] * n /\ n <= total
      BY <1>3, <1>4, <2>2, AppsFinite
    <3> QED
      BY <1>3, <3>1
  <2> QED
    BY <1>2, <2>1, <2>2, <2>4, <2>5 DEF SharesTyped, p
<1>5. CASE ~over
  <2>1. den = 1 /\ rest = n - total /\ rest \in Nat
    BY <1>3, <1>5
  <2> DEFINE p == [a \in App |-> IF a = Unattributed THEN have[a] + rest ELSE have[a]]
  <2>2. parts = p
    BY <1>5, <2>1
  <2>3. /\ p \in [App -> Nat] /\ p[Unattributed] = have[Unattributed] + rest
        /\ \A a \in App : a # Unattributed => p[a] = have[a]
    BY <2>1, AppsFinite
  <2> HIDE DEF p, rest
  <2>4. SumOf(App, p) = n
    <3>1. SumOf(App, p) \in Nat /\ SumOf(App, p) + have[Unattributed] = SumOf(App, have) + p[Unattributed]
      BY <2>3, AppsFinite, SumChanged
    <3> QED
      BY <1>3, <2>1, <2>3, <3>1, AppsFinite
  <2>5. \A a \in Site : p[a] <= have[a] * 1
    BY <2>3, AppsFinite DEF Splitting
  <2> QED
    BY <1>2, <2>1, <2>2, <2>3, <2>4, <2>5 DEF SharesTyped
<1> QED
  BY <1>4, <1>5

\* Rounding an app's share moves it by half a byte at most.
LEMMA Rounds ==
    ASSUME Splitting, SharesTyped(split)
    PROVE  AppsAddUp
<1> DEFINE d == split.den
           n == split.billed
           p == split.parts
           rounded == [a \in App |-> Reported(a)]
           k == Cardinality(App)
<1>1. d \in Nat \ {0} /\ n \in Nat /\ p \in [App -> Nat] /\ k \in Nat /\ SumOf(App, p) = n * d
      /\ \A a \in Site : p[a] <= split.seen[a] * d
  BY AppsFinite DEF SharesTyped
<1>2. \A a \in App : rounded[a] = (2 * p[a] + d) \div (2 * d)
  BY DEF Reported
<1> HIDE DEF d, n, p, rounded
<1>3. \A a \in App : rounded[a] \in Nat /\ (2 * d) * rounded[a] <= 2 * p[a] + d /\ 2 * p[a] <= (2 * d) * rounded[a] + d
  <2> SUFFICES ASSUME NEW a \in App
               PROVE  rounded[a] \in Nat /\ (2 * d) * rounded[a] <= 2 * p[a] + d /\ 2 * p[a] <= (2 * d) * rounded[a] + d
    OBVIOUS
  <2> DEFINE x == 2 * p[a] + d
             y == 2 * d
             q == x \div y
  <2>1. x \in Nat /\ y \in Nat \ {0} /\ p[a] \in Nat /\ rounded[a] = q
    BY <1>1, <1>2
  <2> HIDE DEF x, y
  <2>2. q \in Nat /\ y * q <= x /\ x < y * q + y
    BY <2>1
  <2> HIDE DEF q
  <2> QED
    BY <1>1, <2>1, <2>2 DEF x, y
<1>4. SumOf(App, rounded) \in Nat
  BY <1>3, AppsFinite, SumMonotone
<1>5. PICK c \in Nat : c = 2 * d
  BY <1>1
<1>6. \A a \in App : rounded[a] \in Nat /\ p[a] \in Nat /\ c * rounded[a] <= 2 * p[a] + d /\ 2 * p[a] <= c * rounded[a] + d
  BY <1>1, <1>3, <1>5
<1>7. c * SumOf(App, rounded) <= 2 * SumOf(App, p) + d * k
  BY <1>1, <1>6, AppsFinite, SumWithin
<1>8. 2 * SumOf(App, p) <= c * SumOf(App, rounded) + d * k
  BY <1>1, <1>6, AppsFinite, SumWithin
<1> DEFINE t == SumOf(App, rounded)
<1> HIDE DEF k
<1>9. 2 * t <= 2 * n + k /\ 2 * n <= 2 * t + k
  <2> HIDE DEF t
  <2>1. t \in Nat
    BY <1>4 DEF t
  <2>2. d * (2 * t) <= d * (2 * n + k)
    BY <1>1, <1>5, <1>7, <2>1 DEF t
  <2>3. d * (2 * n) <= d * (2 * t + k)
    BY <1>1, <1>5, <1>8, <2>1 DEF t
  <2>4. \A u, v \in Nat : d * u <= d * v => u <= v
    BY <1>1
  <2> QED
    BY <1>1, <2>1, <2>2, <2>3, <2>4
<1> QED
  BY <1>1, <1>9 DEF AppsAddUp, d, n, p, rounded, k

FlowInv ==
    /\ moved \in 0..MaxMoved /\ counter \in 0..moved /\ lastTc \in Maybe(0..moved)
    /\ firstTick \in BOOLEAN
    /\ flows \in [Flow -> Maybe(0..moved)] /\ lastFlows \in [Flow -> Maybe(0..moved)]
    /\ appTick \in [on : BOOLEAN, billed : Nat] /\ SharesTyped(split)

LEMMA NoSharesTyped ==
    ASSUME Splitting
    PROVE  SharesTyped(NoSplit)
<1> DEFINE none == [a \in App |-> 0]
<1>1. NoSplit = [billed |-> 0, seen |-> none, parts |-> none, den |-> 1]
  BY DEF NoSplit
<1>2. NoSplit.billed = 0 /\ NoSplit.seen = none /\ NoSplit.parts = none /\ NoSplit.den = 1
  BY <1>1
<1>3. none \in [App -> Nat] /\ \A a \in App : none[a] = 0
  OBVIOUS
<1> HIDE DEF none
<1>4. SumOf(App, none) = 0
  <2>1. Coins(App, none) = {}
    BY <1>3 DEF Coins
  <2> QED
    BY <2>1, FS_EmptySet DEF SumOf
<1> QED
  BY <1>2, <1>3, <1>4, AppsFinite DEF SharesTyped

LEMMA FlowInitially ==
    ASSUME Splitting, AppInit
    PROVE  FlowInv
<1>1. SharesTyped(split)
  BY NoSharesTyped DEF AppInit
<1>2. moved = 0 /\ counter = 0 /\ lastTc \in Maybe(0..moved) /\ 0 \in 0..MaxMoved /\ firstTick \in BOOLEAN
  BY DEF AppInit, Splitting, Maybe
<1>3. flows \in [Flow -> Maybe(0..moved)] /\ lastFlows \in [Flow -> Maybe(0..moved)]
  BY DEF AppInit, Maybe
<1>4. appTick \in [on : BOOLEAN, billed : Nat]
  BY DEF AppInit, NoAppTick
<1> QED
  BY <1>1, <1>2, <1>3, <1>4 DEF FlowInv

LEMMA OpensKeeps ==
    ASSUME Splitting, FlowInv, NEW f \in Flow, FlowOpens(f) \/ FlowCloses(f)
    PROVE  FlowInv'
<1>1. flows' \in [Flow -> Maybe(0..moved)]
  BY DEF FlowInv, FlowOpens, FlowCloses, Maybe
<1> QED
  BY <1>1 DEF FlowInv, FlowOpens, FlowCloses, SharesTyped

LEMMA MoveKeeps ==
    ASSUME Splitting, FlowInv, NEW f \in Maybe(Flow), BytesMove(f)
    PROVE  FlowInv'
<1>1. moved \in Nat /\ moved' = moved + 1 /\ moved' \in 0..MaxMoved /\ counter' \in 0..moved'
      /\ lastTc' \in Maybe(0..moved')
  BY DEF FlowInv, BytesMove, Splitting, Maybe
<1>2. \A g \in Flow : flows[g] \in Maybe(0..moved') /\ lastFlows[g] \in Maybe(0..moved')
  <2> SUFFICES ASSUME NEW g \in Flow PROVE flows[g] \in Maybe(0..moved') /\ lastFlows[g] \in Maybe(0..moved')
    OBVIOUS
  <2>1. flows[g] \in Maybe(0..moved) /\ lastFlows[g] \in Maybe(0..moved) /\ 0..moved \subseteq 0..moved'
    BY <1>1 DEF FlowInv
  <2> QED
    BY <2>1 DEF Maybe
<1>3. lastFlows' \in [Flow -> Maybe(0..moved')]
  BY <1>2 DEF FlowInv, BytesMove
<1>4. flows' \in [Flow -> Maybe(0..moved')]
  <2>1. CASE f = None
    BY <1>2, <2>1 DEF FlowInv, BytesMove
  <2>2. CASE f # None
    <3>1. f \in Flow /\ flows[f] # None /\ flows' = [flows EXCEPT ![f] = @ + 1]
      BY <2>2 DEF BytesMove, Maybe
    <3>2. flows[f] \in 0..moved
      BY <3>1 DEF FlowInv, Maybe
    <3>3. flows[f] + 1 \in Maybe(0..moved')
      BY <1>1, <3>2 DEF Maybe
    <3> QED
      BY <1>2, <3>1, <3>3 DEF FlowInv
  <2> QED
    BY <2>1, <2>2
<1> QED
  BY <1>1, <1>3, <1>4 DEF FlowInv, BytesMove, SharesTyped

LEMMA TickStartKeeps ==
    ASSUME Splitting, FlowInv, AppTickStart
    PROVE  FlowInv'
<1>1. PICK now \in {counter, 0} :
        /\ lastTc' = now
        /\ appTick' = [on |-> TRUE, billed |-> IF lastTc = None \/ now < lastTc THEN 0 ELSE now - lastTc]
        /\ UNCHANGED <<flows, moved, counter, lastFlows, firstTick, split>>
  BY DEF AppTickStart
<1>2. now \in 0..moved /\ moved \in Nat /\ lastTc \in Maybe(0..moved)
  BY DEF FlowInv
<1>3. (IF lastTc = None \/ now < lastTc THEN 0 ELSE now - lastTc) \in Nat /\ lastTc' \in Maybe(0..moved)
  BY <1>1, <1>2 DEF Maybe
<1>4. appTick' \in [on : BOOLEAN, billed : Nat]
  BY <1>1, <1>3
<1> QED
  BY <1>1, <1>3, <1>4 DEF FlowInv, SharesTyped

LEMMA RenewalKeeps ==
    ASSUME Splitting, FlowInv, ClassRenewed
    PROVE  FlowInv'
<1>1. counter' \in 0..moved /\ lastTc' \in Maybe(0..moved)
  BY DEF FlowInv, ClassRenewed, Maybe
<1> QED
  BY <1>1 DEF FlowInv, ClassRenewed, SharesTyped

LEMMA SeenTyped ==
    ASSUME Splitting, FlowInv, NEW table \in FlowsRead, NEW who \in [Flow -> Maybe(Site)]
    PROVE  table \in [Flow -> Maybe(0..moved)] /\ Seen(table, who) \in [App -> Nat]
<1>1. table \in [Flow -> Maybe(0..moved)]
  BY DEF FlowsRead, FlowInv, Maybe
<1> DEFINE m == [f \in Flow |-> Moved(table, f)]
<1>2. ASSUME NEW f \in Flow PROVE m[f] \in Nat
  <2>1. table[f] \in Maybe(0..moved) /\ lastFlows[f] \in Maybe(0..moved) /\ moved \in Nat /\ m[f] = Moved(table, f)
    BY <1>1 DEF FlowInv
  <2> QED
    BY <2>1 DEF Moved, Maybe
<1> HIDE DEF m
<1>3. ASSUME NEW S \in SUBSET Flow PROVE SumOf(S, m) \in Nat
  <2>1. IsFiniteSet(S)
    BY FS_Subset DEF Splitting
  <2> QED
    BY <1>2, <2>1, SumMonotone
<1>4. Seen(table, who) = [a \in App |-> SumOf({f \in Flow : AppFor(f, who) = a}, m)]
  BY DEF Seen, m
<1> QED
  BY <1>1, <1>3, <1>4

LEMMA TickEndKeeps ==
    ASSUME Splitting, FlowInv, AppTickEnd
    PROVE  FlowInv'
<1>1. PICK table \in FlowsRead :
        /\ lastFlows' = table
        /\ split' \in {SplitAcrossApps(appTick.billed, Seen(table, who)) : who \in [Flow -> Maybe(Site)]}
  BY DEF AppTickEnd
<1>2. PICK who \in [Flow -> Maybe(Site)] : split' = SplitAcrossApps(appTick.billed, Seen(table, who))
  BY <1>1
<1>3. table \in [Flow -> Maybe(0..moved)] /\ Seen(table, who) \in [App -> Nat] /\ appTick.billed \in Nat
  BY SeenTyped DEF FlowInv
<1>4. SharesTyped(split')
  BY <1>2, <1>3, SplitsWell
<1>5. SharesTyped(split)'
  BY <1>4 DEF SharesTyped
<1>6. appTick' \in [on : BOOLEAN, billed : Nat] /\ firstTick' = FALSE /\ UNCHANGED <<moved, counter, lastTc, flows>>
  BY DEF AppTickEnd, NoAppTick
<1> QED
  BY <1>1, <1>3, <1>5, <1>6 DEF FlowInv

LEMMA RestartSplits ==
    ASSUME Splitting, FlowInv, AppAgentRestart
    PROVE  FlowInv'
<1>1. lastTc' = None /\ counter' = counter /\ lastFlows' = [f \in Flow |-> None] /\ firstTick' = TRUE /\ UNCHANGED <<flows, moved>>
      /\ appTick' = NoAppTick /\ split' = NoSplit
  BY DEF AppAgentRestart
<1>2. SharesTyped(split)'
  BY <1>1, NoSharesTyped DEF SharesTyped
<1>3. lastFlows' \in [Flow -> Maybe(0..moved)] /\ appTick' \in [on : BOOLEAN, billed : Nat] /\ lastTc' \in Maybe(0..moved)
  BY <1>1 DEF Maybe, NoAppTick, FlowInv
<1> QED
  BY <1>1, <1>2, <1>3 DEF FlowInv

LEMMA FlowSame ==
    ASSUME FlowInv, UNCHANGED flowVars
    PROVE  FlowInv'
  BY DEF flowVars, FlowInv, SharesTyped

LEMMA AppStep ==
    ASSUME Logging, Splitting, LogInv, FlowInv, AppNext
    PROVE  LogInv' /\ FlowInv'
<1>1. CASE LookupStep
  <2>1. UNCHANGED flowVars
    BY <1>1 DEF LookupStep, WriteLookup, FinishLine, PollSize, PollReads, PollTrims
  <2>2. LogInv'
    BY <1>1, WriteKeeps, FinishKeeps, SizeKeeps, ReadsKeeps, TrimsKeeps DEF LookupStep
  <2> QED
    BY <2>1, <2>2, FlowSame
<1>2. CASE FlowStep
  <2>1. UNCHANGED <<lookupVars, starts>>
    BY <1>2 DEF FlowStep, FlowOpens, FlowCloses, BytesMove, ClassRenewed, AppTickStart, AppTickEnd
  <2>2. FlowInv'
    BY <1>2, OpensKeeps, MoveKeeps, RenewalKeeps, TickStartKeeps, TickEndKeeps DEF FlowStep
  <2> QED
    BY <2>1, <2>2, LogSame
<1>3. CASE AppAgentRestart
  BY <1>3, RestartReads, RestartSplits
<1> QED
  BY <1>1, <1>2, <1>3 DEF AppNext

-----------------------------------------------------------------------------
\* AppUsage.
LEMMA AppsAreTyped ==
    ASSUME Splitting, Logging, LogInv, FlowInv
    PROVE  AppTypeOK
<1>1. mapping \in [Site -> 0..MaxLookups]
  BY DEF LogInv, LogTyped, InOrder, Logging
<1>2. flows \in [Flow -> Maybe(0..MaxMoved)] /\ lastFlows \in [Flow -> Maybe(0..MaxMoved)]
      /\ {moved, counter} \subseteq 0..MaxMoved /\ lastTc \in Maybe(0..MaxMoved)
  BY DEF FlowInv, Splitting, Maybe
<1> QED
  BY <1>1, <1>2 DEF LogInv, LogTyped, FlowInv, AppTypeOK, Polling
=============================================================================
