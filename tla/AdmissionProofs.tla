--------------------------- MODULE AdmissionProofs ---------------------------
(* Theorems of Admission, for any devices, segments, calls, class IDs and   *)
(* failures.  The types hold whatever overlaps; what firewall, registry and *)
(* traffic control have to do with each other is proved for operations that *)
(* do not overlap on one MAC, with every failure of a command.              *)
EXTENDS Admission, FiniteSetTheorems, TLAPS

-----------------------------------------------------------------------------
(* Types                                                                   *)

Over == {"idle", "done"}

\* What a call at each of its steps has to go on with.
Formed(s) ==
    /\ s.pc \in Over => s.mac = Null
    /\ s.pc \notin Over => s.mac \in Mac /\ (s.op = "admit" => s.rt \in Router)
    /\ s.pc \in {"add", "allocate", "tcAdd", "enter"} => s.op = "admit"
    /\ s.pc \in {"tcDelete", "tcFree"} => s.had # Null /\ s.minor # 0
    /\ s.pc \in {"tcAdd", "enter"} => s.minor # 0

Typed == TypeOK /\ \A t \in Worker : Formed(task[t])

\* Call t is now in state s; the others wait.
Moves(t, s) ==
    /\ s \in TaskState /\ Formed(s)
    /\ task' = [task EXCEPT ![t] = s]

LEMMA MovesTyped ==
    ASSUME Typed, NEW t \in Worker, NEW s, Moves(t, s)
    PROVE  /\ task' \in [Worker -> TaskState] /\ task'[t] = s
           /\ \A u \in Worker : u # t => task'[u] = task[u]
           /\ \A u \in Worker : Formed(task'[u])
  <1>1. task \in [Worker -> TaskState] /\ s \in TaskState /\ task' = [task EXCEPT ![t] = s]
    BY DEF Typed, TypeOK, Moves
  <1>2. task'[t] = s /\ \A u \in Worker : u # t => task'[u] = task[u]
    BY <1>1
  <1>3. \A u \in Worker : Formed(task'[u])
    BY <1>2 DEF Typed, Moves
  <1>4. QED
    BY <1>1, <1>2, <1>3

\* The failures and what they left are counted and marked.
MarksTyped == faults' \in Nat /\ leaked' \in SUBSET Mac /\ bare' \in SUBSET Mac

LEMMA MarksKept ==
    ASSUME Typed, UNCHANGED failures
    PROVE  MarksTyped
  BY DEF MarksTyped, Typed, TypeOK, failures, marks

\* Opening the set to a MAC at most marks it.
LEMMA ThrowTyped ==
    ASSUME Typed, NEW t \in Worker, NEW h, Throw(t, h), task[t].mac \in Mac, faults' \in Nat
    PROVE  MarksTyped
  BY DEF Throw, Leak, MarksTyped, Typed, TypeOK

\* A step of a call that leaves the rest of the agent well typed.
LEMMA StepTyped ==
    ASSUME Typed, NEW t \in Worker, NEW s, Moves(t, s),
           fw' \in SUBSET Mac, reg' \in [Mac -> Entry \cup {Null}], ended' \in SUBSET Mac,
           minorOf' \in [Mac -> 0..Last], free' \in [Minor -> 0..2], next' \in 1..(Last + 1),
           filters' \in SUBSET (Router \X Minor \X Mac), sync' \in SyncState,
           UNCHANGED <<boot, entitled>>, MarksTyped
    PROVE  Typed'
  BY MovesTyped DEF Typed, TypeOK, MarksTyped

LEMMA NoTaskTyped == NoTask \in TaskState /\ Null \notin Mac /\ Null \notin Router
  <1>1. 0 \in 0..Last
    BY AdmissionAssumption
  <1>2. QED
    BY <1>1, AdmissionAssumption DEF NoTask, TaskState

LEMMA FinishMoves ==
    ASSUME Typed, NEW t \in Worker, Finish(t)
    PROVE  Moves(t, Finished(t)) /\ Finished(t).pc \in Over /\ Finished(t).mac = Null
  <1> DEFINE s == Finished(t)
  <1>1. /\ s.pc \in Over /\ s.mac = Null /\ s \in TaskState
    <2>1. NoTask.mac = Null
      BY DEF NoTask
    <2>2. QED
      BY <2>1, NoTaskTyped DEF Finished, TaskState, Over
  <1>2. task' = [task EXCEPT ![t] = s]
    BY DEF Finish
  <1> HIDE DEF s
  <1>3. Formed(s)
    BY <1>1 DEF Formed, Over
  <1>4. QED
    BY <1>1, <1>2, <1>3 DEF Moves, s

\* A call under way goes on to p.
LEMMA GotoMoves ==
    ASSUME Typed, NEW t \in Worker, NEW p, task[t].pc \notin Over,
           p \in {"delete", "add", "unshape", "tcDelete", "tcFree", "allocate", "tcAdd", "enter"},
           p \in {"add", "allocate", "tcAdd", "enter"} => task[t].op = "admit",
           p \in {"tcDelete", "tcFree"} => task[t].had # Null /\ task[t].minor # 0,
           p \in {"tcAdd", "enter"} => task[t].minor # 0,
           Goto(t, p)
    PROVE  Moves(t, [task[t] EXCEPT !.pc = p])
  <1>1. task \in [Worker -> TaskState] /\ task[t] \in TaskState /\ Formed(task[t])
    BY DEF Typed, TypeOK
  <1> DEFINE s == [task[t] EXCEPT !.pc = p]
  <1>2. s \in TaskState /\ task' = [task EXCEPT ![t] = s]
    BY <1>1 DEF TaskState, Goto
  <1>3. /\ s.pc = p /\ s.mac = task[t].mac /\ s.op = task[t].op /\ s.rt = task[t].rt
        /\ s.had = task[t].had /\ s.minor = task[t].minor
    BY <1>1 DEF TaskState
  <1> HIDE DEF s
  <1>4. Formed(s)
    BY <1>1, <1>3 DEF Formed, Over
  <1>5. QED
    BY <1>2, <1>4 DEF Moves, s

LEMMA AdmitStartMoves ==
    ASSUME Typed, NEW t \in Worker, NEW m \in Mac, NEW rt \in Router, AdmitStart(t, m, rt)
    PROVE  Moves(t, [NoTask EXCEPT !.pc = "delete", !.mac = m, !.rt = rt, !.had = reg[m]])
  <1> DEFINE s == [NoTask EXCEPT !.pc = "delete", !.mac = m, !.rt = rt, !.had = reg[m]]
  <1>1. reg[m] \in Entry \cup {Null}
    BY DEF Typed, TypeOK
  <1>2. s \in TaskState /\ s.pc = "delete" /\ s.mac = m /\ s.op = "admit" /\ s.rt = rt
    <2>1. NoTask.op = "admit"
      BY DEF NoTask
    <2>2. QED
      BY <1>1, <2>1, NoTaskTyped DEF TaskState
  <1>3. task' = [task EXCEPT ![t] = s]
    BY DEF AdmitStart
  <1> HIDE DEF s
  <1>4. Formed(s)
    BY <1>2 DEF Formed, Over
  <1>5. QED
    BY <1>2, <1>3, <1>4 DEF Moves, s

LEMMA RevokeStartMoves ==
    ASSUME Typed, NEW t \in Worker, NEW m \in Mac, RevokeStart(t, m)
    PROVE  Moves(t, [NoTask EXCEPT !.pc = "delete", !.op = "revoke", !.mac = m, !.had = reg[m]])
  <1> DEFINE s == [NoTask EXCEPT !.pc = "delete", !.op = "revoke", !.mac = m, !.had = reg[m]]
  <1>1. reg[m] \in Entry \cup {Null}
    BY DEF Typed, TypeOK
  <1>2. s \in TaskState /\ s.pc = "delete" /\ s.mac = m /\ s.op = "revoke"
    <2>1. NoTask.op = "admit"
      BY DEF NoTask
    <2>2. QED
      BY <1>1, <2>1, NoTaskTyped DEF TaskState
  <1>3. task' = [task EXCEPT ![t] = s]
    BY DEF RevokeStart
  <1> HIDE DEF s
  <1>4. Formed(s)
    BY <1>2 DEF Formed, Over
  <1>5. QED
    BY <1>2, <1>3, <1>4 DEF Moves, s

\* Where a call is after removeShapingForMac.
AfterUnshape(t) ==
    IF task[t].op = "admit" THEN [task[t] EXCEPT !.pc = "allocate"] ELSE Finished(t)

LEMMA UnshapedMoves ==
    ASSUME Typed, NEW t \in Worker, task[t].pc \notin Over, Unshaped(t)
    PROVE  /\ Moves(t, AfterUnshape(t))
           /\ reg' = IF task[t].op = "admit" THEN reg ELSE [reg EXCEPT ![task[t].mac] = Null]
           /\ ended' = IF task[t].op = "admit" THEN ended ELSE ended \ {task[t].mac}
           /\ reg' \in [Mac -> Entry \cup {Null}] /\ ended' \in SUBSET Mac
  <1>1. CASE task[t].op = "admit"
    BY <1>1, GotoMoves DEF Unshaped, AfterUnshape, Typed, TypeOK
  <1>2. CASE task[t].op # "admit"
    BY <1>2, FinishMoves DEF Unshaped, AfterUnshape, Forget, Typed, TypeOK
  <1>3. QED
    BY <1>1, <1>2
\* The free list counts 0, 1 or more.
LEMMA Counted == \A n \in Nat : AtMostTwo(n) \in 0..2
  BY DEF AtMostTwo

\* Where an nft command leaves a call.
LEMMA NftMoves ==
    ASSUME Typed, NEW t \in Worker,
           NftDelete(t) \/ NftDeleteFails(t) \/ NftAdd(t)
    PROVE  \E p \in {"add", "unshape", "allocate"} :
               Goto(t, p) /\ Moves(t, [task[t] EXCEPT !.pc = p])
  <1> Formed(task[t])
    BY DEF Typed
  <1>1. task[t].pc \notin Over
    BY DEF NftDelete, NftDeleteFails, NftAdd, Over
  <1>2. PICK p \in {"add", "unshape", "allocate"} :
            Goto(t, p) /\ (p \in {"add", "allocate"} => task[t].op = "admit")
    <2>1. CASE NftDelete(t) \/ NftDeleteFails(t)
      BY <2>1 DEF NftDelete, NftDeleteFails
    <2>2. CASE NftAdd(t)
      BY <2>2 DEF NftAdd, Formed
    <2>3. QED
      BY <2>1, <2>2
  <1>3. QED
    BY <1>1, <1>2, GotoMoves

LEMMA NftTyped ==
    ASSUME Typed, NEW t \in Worker,
           NftDelete(t) \/ NftDeleteFails(t) \/ NftAdd(t) \/ NftAddFails(t)
    PROVE  Typed'
  <1> TypeOK /\ Formed(task[t])
    BY DEF Typed
  <1>1. task[t].mac \in Mac /\ task[t].pc \notin Over
    BY DEF NftDelete, NftDeleteFails, NftAdd, NftAddFails, Formed, Over
  <1>2. PICK s : Moves(t, s)
    BY NftMoves, FinishMoves DEF NftAddFails
  <1>3. fw' \in SUBSET Mac /\ MarksTyped
    <2>1. CASE NftDelete(t)
      BY <2>1 DEF NftDelete, TypeOK, MarksTyped
    <2>2. CASE NftDeleteFails(t)
      BY <1>1, <2>2 DEF NftDeleteFails, Fault, Leak, TypeOK, MarksTyped
    <2>3. CASE NftAdd(t)
      BY <1>1, <2>3, MarksKept DEF NftAdd, TypeOK
    <2>4. CASE NftAddFails(t)
      BY <1>1, <2>4 DEF NftAddFails, Fault, Leak, TypeOK, MarksTyped
    <2>5. QED
      BY <2>1, <2>2, <2>3, <2>4
  <1>4. UNCHANGED <<reg, ended, shaping, sync, boot, entitled>>
    BY DEF NftDelete, NftDeleteFails, NftAdd, NftAddFails
  <1>5. QED
    BY <1>2, <1>3, <1>4, StepTyped DEF TypeOK, shaping

LEMMA UnshapeReadMoves ==
    ASSUME Typed, NEW t \in Worker, UnshapeRead(t)
    PROVE  /\ task[t].pc = "unshape" /\ task[t].mac \in Mac
           /\ \/ /\ task[t].had # Null /\ minorOf[task[t].mac] # 0
                 /\ Moves(t, [task[t] EXCEPT !.pc = "tcDelete", !.minor = minorOf[task[t].mac]])
                 /\ UNCHANGED <<reg, ended>>
              \/ (task[t].had = Null \/ minorOf[task[t].mac] = 0) /\ Unshaped(t)
           /\ UNCHANGED <<fw, shaping, sync, boot, entitled, failures>>
  <1> TypeOK /\ Formed(task[t]) /\ task[t] \in TaskState /\ task \in [Worker -> TaskState]
    BY DEF Typed, TypeOK
  <1>1. task[t].pc = "unshape" /\ task[t].mac \in Mac
    BY DEF UnshapeRead, Formed, Over
  <1>2. CASE task[t].had # Null /\ minorOf[task[t].mac] # 0
    <2> DEFINE s == [task[t] EXCEPT !.pc = "tcDelete", !.minor = minorOf[task[t].mac]]
    <2>1. task' = [task EXCEPT ![t] = s]
      BY <1>2 DEF UnshapeRead
    <2>2. minorOf[task[t].mac] \in 0..Last
      BY <1>1 DEF TypeOK
    <2>3. /\ s \in TaskState /\ s.pc = "tcDelete" /\ s.mac = task[t].mac /\ s.op = task[t].op
          /\ s.rt = task[t].rt /\ s.had = task[t].had /\ s.minor = minorOf[task[t].mac]
      BY <2>2 DEF TaskState
    <2> HIDE DEF s
    <2>4. Formed(s)
      BY <1>1, <1>2, <2>3 DEF Formed, Over
    <2>5. Moves(t, s)
      BY <2>1, <2>3, <2>4 DEF Moves
    <2>6. QED
      BY <1>1, <1>2, <2>5 DEF UnshapeRead, s
  <1>3. CASE task[t].had = Null \/ minorOf[task[t].mac] = 0
    BY <1>1, <1>3 DEF UnshapeRead
  <1>4. QED
    BY <1>2, <1>3

LEMMA UnshapeReadTyped ==
    ASSUME Typed, NEW t \in Worker, UnshapeRead(t)
    PROVE  Typed'
  <1> TypeOK
    BY DEF Typed
  <1>1. UNCHANGED <<fw, shaping, sync, boot, entitled, failures>>
    BY DEF UnshapeRead
  <1> MarksTyped
    BY <1>1, MarksKept
  <1>2. CASE Unshaped(t)
    <2>1. task[t].pc \notin Over
      BY UnshapeReadMoves DEF Over
    <2>2. QED
      BY <1>1, <1>2, <2>1, UnshapedMoves, StepTyped DEF TypeOK, shaping
  <1>3. ASSUME NEW s, Moves(t, s), UNCHANGED <<reg, ended>>
        PROVE  Typed'
    BY <1>1, <1>3, StepTyped DEF TypeOK, shaping
  <1>4. QED
    BY <1>2, <1>3, UnshapeReadMoves

LEMMA TcDeleteTyped ==
    ASSUME Typed, NEW t \in Worker, TcDelete(t) \/ TcDeleteFails(t)
    PROVE  Typed'
  <1> TypeOK /\ Formed(task[t])
    BY DEF Typed
  <1>1. Moves(t, [task[t] EXCEPT !.pc = "tcFree"])
    BY GotoMoves DEF TcDelete, TcDeleteFails, Formed, Over
  <1>2. filters' \in SUBSET (Router \X Minor \X Mac)
    BY DEF TcDelete, TcDeleteFails, TypeOK, shaping
  <1>3. MarksTyped
    BY MarksKept DEF TcDelete, TcDeleteFails, Fault, TypeOK, MarksTyped, marks
  <1>4. QED
    BY <1>1, <1>2, <1>3, StepTyped DEF TcDelete, TcDeleteFails, TypeOK, shaping

LEMMA TcFreeTyped ==
    ASSUME Typed, NEW t \in Worker, TcFree(t)
    PROVE  Typed'
  <1> TypeOK /\ Formed(task[t]) /\ task[t] \in TaskState
    BY DEF Typed, TypeOK
  <1>1. task[t].pc \notin Over /\ task[t].mac \in Mac /\ task[t].minor \in Minor
    BY AdmissionAssumption DEF TcFree, Formed, Over, TaskState, Minor
  <1>2. minorOf' \in [Mac -> 0..Last]
    BY <1>1, AdmissionAssumption DEF TcFree, TypeOK
  <1>3. free' \in [Minor -> 0..2]
    <2>1. AtMostTwo(free[task[t].minor] + 1) \in 0..2
      BY <1>1, Counted DEF TypeOK
    <2>2. QED
      BY <1>1, <2>1 DEF TcFree, TypeOK
  <1>4. Unshaped(t) /\ UNCHANGED <<fw, next, filters, sync, boot, entitled>> /\ MarksTyped
    BY DEF TcFree, MarksTyped, TypeOK
  <1>5. QED
    BY <1>1, <1>2, <1>3, <1>4, UnshapedMoves, StepTyped DEF TypeOK

\* Keeping the class, taking a listed or a new one, or out of IDs.
LEMMA AllocateMoves ==
    ASSUME Typed, NEW t \in Worker, Allocate(t)
    PROVE  LET m == task[t].mac
               to(i, had) == [task[t] EXCEPT !.pc = "tcAdd", !.minor = i, !.kept = had]
           IN  /\ task[t].pc = "allocate" /\ task[t].op = "admit" /\ m \in Mac
               /\ \/ /\ minorOf[m] # 0 /\ Moves(t, to(minorOf[m], TRUE))
                     /\ UNCHANGED <<minorOf, free, next, marks>>
                  \/ /\ minorOf[m] = 0 /\ UNCHANGED <<next, marks>>
                     /\ \E i \in Minor :
                           /\ free[i] > 0 /\ Moves(t, to(i, FALSE))
                           /\ minorOf' = [minorOf EXCEPT ![m] = i]
                           /\ \E n \in Popped(free[i]) : free' = [free EXCEPT ![i] = n]
                  \/ /\ minorOf[m] = 0 /\ next \in Minor /\ Moves(t, to(next, FALSE))
                     /\ minorOf' = [minorOf EXCEPT ![m] = next]
                     /\ next' = next + 1 /\ UNCHANGED <<free, marks>>
                  \/ /\ minorOf[m] = 0 /\ next > Last /\ \A i \in Minor : ~(free[i] > 0)
                     /\ Moves(t, Finished(t)) /\ Throw(t, FALSE)
                     /\ UNCHANGED <<minorOf, free, next>>
               /\ UNCHANGED <<fw, reg, ended, filters, sync, boot, entitled, faults>>
  <1> TypeOK /\ Formed(task[t]) /\ task[t] \in TaskState /\ task \in [Worker -> TaskState]
    BY DEF Typed, TypeOK
  <1> DEFINE m == task[t].mac
             to(i, had) == [task[t] EXCEPT !.pc = "tcAdd", !.minor = i, !.kept = had]
  <1>1. /\ task[t].pc = "allocate" /\ task[t].op = "admit" /\ m \in Mac
        /\ UNCHANGED <<fw, reg, ended, filters, sync, boot, entitled, faults>>
    BY DEF Allocate, Formed, Over
  <1>2. ASSUME NEW i \in Minor, NEW had \in BOOLEAN,
               task' = [task EXCEPT ![t].pc = "tcAdd", ![t].minor = i, ![t].kept = had]
        PROVE  Moves(t, to(i, had))
    <2> DEFINE s == to(i, had)
    <2>1. task' = [task EXCEPT ![t] = s]
      BY <1>2
    <2>2. i \in 0..Last /\ i # 0
      BY AdmissionAssumption DEF Minor
    <2>3. /\ s \in TaskState /\ s.pc = "tcAdd" /\ s.mac = m /\ s.op = task[t].op
          /\ s.rt = task[t].rt /\ s.had = task[t].had /\ s.minor = i
      BY <2>2 DEF TaskState
    <2> HIDE DEF s
    <2>4. Formed(s)
      BY <1>1, <2>2, <2>3 DEF Formed, Over
    <2>5. QED
      BY <2>1, <2>3, <2>4 DEF Moves, s
  <1> HIDE DEF to
  <1>3. ASSUME minorOf[m] # 0, UNCHANGED <<minorOf, free, next, marks>>,
               task' = [task EXCEPT ![t].pc = "tcAdd", ![t].minor = minorOf[m], ![t].kept = TRUE]
        PROVE  Moves(t, to(minorOf[m], TRUE))
    <2>1. minorOf[m] \in Minor
      BY <1>1, <1>3, AdmissionAssumption DEF TypeOK, Minor
    <2>2. QED
      BY <1>2, <1>3, <2>1
  <1>4. next <= Last => next \in Minor
    BY AdmissionAssumption DEF TypeOK, Minor
  <1>5. Throw(t, FALSE) => Moves(t, Finished(t))
    BY FinishMoves DEF Throw
  <1>6. \/ /\ minorOf[m] # 0
           /\ task' = [task EXCEPT ![t].pc = "tcAdd", ![t].minor = minorOf[m], ![t].kept = TRUE]
           /\ UNCHANGED <<minorOf, free, next, marks>>
        \/ /\ minorOf[m] = 0 /\ UNCHANGED <<next, marks>>
           /\ \E i \in Minor :
                 /\ free[i] > 0
                 /\ task' = [task EXCEPT ![t].pc = "tcAdd", ![t].minor = i, ![t].kept = FALSE]
                 /\ minorOf' = [minorOf EXCEPT ![m] = i]
                 /\ \E n \in Popped(free[i]) : free' = [free EXCEPT ![i] = n]
        \/ /\ minorOf[m] = 0 /\ next <= Last
           /\ task' = [task EXCEPT ![t].pc = "tcAdd", ![t].minor = next, ![t].kept = FALSE]
           /\ minorOf' = [minorOf EXCEPT ![m] = next]
           /\ next' = next + 1 /\ UNCHANGED <<free, marks>>
        \/ /\ minorOf[m] = 0 /\ next > Last /\ \A i \in Minor : ~(free[i] > 0)
           /\ Throw(t, FALSE) /\ UNCHANGED <<minorOf, free, next>>
    BY DEF Allocate
  <1>7. QED
    BY <1>1, <1>2, <1>3, <1>4, <1>5, <1>6 DEF to

LEMMA AllocateTyped ==
    ASSUME Typed, NEW t \in Worker, Allocate(t)
    PROVE  Typed'
  <1> TypeOK
    BY DEF Typed
  <1>1. UNCHANGED <<fw, reg, ended, filters, sync, boot, entitled, faults>>
    BY DEF Allocate
  <1>2. PICK s : Moves(t, s)
    BY AllocateMoves
  <1>3. minorOf' \in [Mac -> 0..Last] /\ free' \in [Minor -> 0..2] /\ next' \in 1..(Last + 1)
    <2>1. ASSUME NEW i \in Minor, minorOf' = [minorOf EXCEPT ![task[t].mac] = i]
          PROVE  minorOf' \in [Mac -> 0..Last]
      <3>1. i \in 0..Last
        BY AdmissionAssumption DEF Minor
      <3>2. QED
        BY <2>1, <3>1 DEF TypeOK
    <2>2. ASSUME NEW i \in Minor, free[i] > 0, NEW n \in Popped(free[i]), free' = [free EXCEPT ![i] = n]
          PROVE  free' \in [Minor -> 0..2]
      <3>1. n \in 0..2
        BY <2>2 DEF TypeOK, Popped
      <3>2. QED
        BY <2>2, <3>1 DEF TypeOK
    <2>3. next \in Minor /\ next' = next + 1 => next' \in 1..(Last + 1)
      BY AdmissionAssumption DEF Minor
    <2>4. QED
      BY <2>1, <2>2, <2>3, AllocateMoves DEF TypeOK
  <1>4. MarksTyped
    <2>1. task[t].mac \in Mac /\ (UNCHANGED marks \/ Throw(t, FALSE))
      BY AllocateMoves
    <2>2. QED
      BY <1>1, <2>1, ThrowTyped DEF MarksTyped, TypeOK, marks
  <1>5. QED
    BY <1>1, <1>2, <1>3, <1>4, StepTyped DEF TypeOK

LEMMA TcAddTyped ==
    ASSUME Typed, NEW t \in Worker, TcAdd(t)
    PROVE  Typed'
  <1> TypeOK /\ Formed(task[t]) /\ task[t] \in TaskState
    BY DEF Typed, TypeOK
  <1>1. /\ task[t].pc \notin Over /\ task[t].mac \in Mac /\ task[t].rt \in Router
        /\ task[t].minor \in Minor /\ task[t].op = "admit"
    BY AdmissionAssumption DEF TcAdd, Formed, Over, TaskState, Minor
  <1>2. Moves(t, [task[t] EXCEPT !.pc = "enter"])
    BY <1>1, GotoMoves, AdmissionAssumption DEF TcAdd, Minor
  <1>3. filters' \in SUBSET (Router \X Minor \X Mac)
    BY <1>1 DEF TcAdd, Steered, TypeOK
  <1>4. MarksTyped
    BY DEF TcAdd, MarksTyped, TypeOK
  <1>5. QED
    BY <1>2, <1>3, <1>4, StepTyped DEF TcAdd, TypeOK

LEMMA TcFailsTyped ==
    ASSUME Typed, NEW t \in Worker, TcFails(t)
    PROVE  Typed'
  <1> TypeOK /\ Formed(task[t]) /\ task[t] \in TaskState
    BY DEF Typed, TypeOK
  <1>1. /\ task[t].mac \in Mac /\ task[t].rt \in Router /\ task[t].minor \in Minor
    BY AdmissionAssumption DEF TcFails, Formed, Over, TaskState, Minor
  <1>2. MarksTyped
    BY <1>1, ThrowTyped DEF TcFails, Fault, TypeOK
  <1>3. filters' \in SUBSET (Router \X Minor \X Mac)
    BY <1>1 DEF TcFails, Steered, TypeOK
  <1>4. Moves(t, Finished(t))
    BY FinishMoves DEF TcFails, Throw
  <1>5. QED
    BY <1>2, <1>3, <1>4, StepTyped DEF TcFails, TypeOK

LEMMA EnterTyped ==
    ASSUME Typed, NEW t \in Worker, Enter(t)
    PROVE  Typed'
  <1> TypeOK /\ Formed(task[t]) /\ task[t] \in TaskState
    BY DEF Typed, TypeOK
  <1>1. task[t].mac \in Mac /\ task[t].rt \in Router
    BY DEF Enter, Formed, Over
  <1>2. PICK at \in {"old", "new"} : reg' = [reg EXCEPT ![task[t].mac] = [rt |-> task[t].rt, at |-> at]]
    BY DEF Enter, TaskState, Entry
  <1>3. reg' \in [Mac -> Entry \cup {Null}] /\ ended' \in SUBSET Mac
    BY <1>1, <1>2 DEF Enter, TypeOK, Entry
  <1>4. MarksTyped
    BY DEF Enter, MarksTyped, TypeOK
  <1>5. QED
    BY <1>3, <1>4, FinishMoves, StepTyped DEF Enter, TypeOK, shaping

LEMMA TaskStepTyped ==
    ASSUME Typed, NEW t \in Worker, TaskStep(t)
    PROVE  Typed'
  BY NftTyped, UnshapeReadTyped, TcDeleteTyped, TcFreeTyped, AllocateTyped, TcAddTyped,
     TcFailsTyped, EnterTyped DEF TaskStep
\* The start of a call changes nothing else, save for the list of the sync.
LEMMA StartTyped ==
    ASSUME Typed, NEW t \in Worker, NEW m \in Mac,
           RevokeStart(t, m) \/ \E rt \in Router : AdmitStart(t, m, rt),
           UNCHANGED <<fw, reg, ended, shaping, boot, entitled, failures>>, sync' \in SyncState
    PROVE  Typed'
  <1>1. PICK s : Moves(t, s)
    BY AdmitStartMoves, RevokeStartMoves
  <1>2. QED
    BY <1>1, MarksKept, StepTyped DEF Typed, TypeOK, shaping

LEMMA CallTyped ==
    ASSUME Typed, \/ \E c \in Call : HttpCall(c)
                  \/ \E m \in Mac : Sweep(m) \/ SyncRevoke(m)
    PROVE  Typed'
  <1>1. sync \in SyncState /\ Call \subseteq Worker /\ "sync" \in Worker /\ "sweep" \in Worker
    BY DEF Typed, TypeOK, Worker
  <1>2. QED
    BY <1>1, StartTyped DEF HttpCall, HttpAdmit, HttpRevoke, Sweep, SyncRevoke

\* A step that leaves the calls alone.
LEMMA RestTyped ==
    ASSUME Typed, UNCHANGED task,
           fw' \in SUBSET Mac, reg' \in [Mac -> Entry \cup {Null}], ended' \in SUBSET Mac,
           minorOf' \in [Mac -> 0..Last], free' \in [Minor -> 0..2], next' \in 1..(Last + 1),
           filters' \in SUBSET (Router \X Minor \X Mac), sync' \in SyncState,
           boot' \in {"rules", "shaping", "clear", "up"}, entitled' \in SUBSET Mac, MarksTyped
    PROVE  Typed'
  BY DEF Typed, TypeOK, MarksTyped

LEMMA SyncAdmitTyped ==
    ASSUME Typed, NEW m \in Mac, NEW rt \in Router, SyncAdmit(m, rt)
    PROVE  Typed'
  <1>1. sync' \in SyncState
    BY DEF SyncAdmit, Typed, TypeOK, SyncState
  <1>2. UNCHANGED <<fw, reg, ended, shaping, boot, entitled, failures>>
    BY DEF SyncAdmit
  <1>3. CASE AdmitStart("sync", m, rt)
    BY <1>1, <1>2, <1>3, StartTyped DEF Worker
  <1>4. CASE UNCHANGED task
    BY <1>1, <1>2, <1>4, MarksKept, RestTyped DEF Typed, TypeOK, shaping
  <1>5. QED
    BY <1>3, <1>4 DEF SyncAdmit

LEMMA OlderTyped ==
    \A e \in Entry \cup {Null} :
        /\ Older(e) \in Entry \cup {Null} /\ (Older(e) = Null <=> e = Null)
        /\ e # Null => Older(e).rt = e.rt
  <1> SUFFICES ASSUME NEW e \in Entry \cup {Null}
               PROVE  /\ Older(e) \in Entry \cup {Null} /\ (Older(e) = Null <=> e = Null)
                      /\ e # Null => Older(e).rt = e.rt
    OBVIOUS
  <1>1. CASE e = Null
    BY <1>1 DEF Older
  <1>2. CASE e # Null
    <2>1. Older(e) = [e EXCEPT !.at = "old"] /\ e \in Entry
      BY <1>2 DEF Older
    <2>2. Older(e) \in Entry /\ Older(e).rt = e.rt
      BY <2>1 DEF Entry
    <2>3. Null \notin Entry
      BY AdmissionAssumption DEF Entry
    <2>4. QED
      BY <1>2, <2>2, <2>3
  <1>3. QED
    BY <1>1, <1>2

LEMMA AgedTyped ==
    ASSUME Typed, task' = [u \in Worker |-> [task[u] EXCEPT !.had = Older(@)]]
    PROVE  /\ task' \in [Worker -> TaskState] /\ \A u \in Worker : Formed(task'[u])
           /\ \A u \in Worker : /\ task'[u].had = Older(task[u].had)
                                /\ task'[u].pc = task[u].pc /\ task'[u].mac = task[u].mac
                                /\ task'[u].op = task[u].op /\ task'[u].rt = task[u].rt
                                /\ task'[u].minor = task[u].minor /\ task'[u].kept = task[u].kept
  <1>1. ASSUME NEW u \in Worker
        PROVE  /\ task'[u] \in TaskState /\ Formed(task'[u])
               /\ task'[u].had = Older(task[u].had)
               /\ task'[u].pc = task[u].pc /\ task'[u].mac = task[u].mac
               /\ task'[u].op = task[u].op /\ task'[u].rt = task[u].rt
               /\ task'[u].minor = task[u].minor /\ task'[u].kept = task[u].kept
    <2> DEFINE s == [task[u] EXCEPT !.had = Older(@)]
    <2>1. task[u] \in TaskState /\ Formed(task[u]) /\ task'[u] = s
      BY DEF Typed, TypeOK
    <2>2. task[u].had \in Entry \cup {Null}
      BY <2>1 DEF TaskState
    <2>3. Older(task[u].had) \in Entry \cup {Null} /\ (Older(task[u].had) = Null <=> task[u].had = Null)
      BY <2>2, OlderTyped
    <2>4. /\ s \in TaskState /\ s.had = Older(task[u].had) /\ s.pc = task[u].pc
          /\ s.mac = task[u].mac /\ s.op = task[u].op /\ s.rt = task[u].rt
          /\ s.minor = task[u].minor /\ s.kept = task[u].kept
      BY <2>1, <2>3 DEF TaskState
    <2> HIDE DEF s
    <2>5. Formed(s)
      BY <2>1, <2>3, <2>4 DEF Formed
    <2>6. QED
      BY <2>1, <2>4, <2>5
  <1>2. task' \in [Worker -> TaskState]
    BY <1>1
  <1>3. QED
    BY <1>1, <1>2

LEMMA SyncStartTyped ==
    ASSUME Typed, SyncStart
    PROVE  Typed'
  <1>1. /\ sync' \in SyncState
        /\ reg' = [m \in Mac |-> Older(reg[m])]
        /\ task' = [u \in Worker |-> [task[u] EXCEPT !.had = Older(@)]]
        /\ UNCHANGED <<fw, ended, shaping, boot, entitled, failures>>
    BY DEF SyncStart, NoSync, SyncState
  <1>2. reg' \in [Mac -> Entry \cup {Null}]
    BY <1>1, OlderTyped DEF Typed, TypeOK
  <1>3. QED
    BY <1>1, <1>2, AgedTyped DEF Typed, TypeOK, shaping, failures, marks

LEMMA SyncRestTyped ==
    ASSUME Typed, SyncFetch \/ SyncFails \/ SyncList \/ SyncEnd
    PROVE  Typed'
  <1> TypeOK
    BY DEF Typed
  <1>1. sync' \in SyncState /\ MarksTyped
    <2>1. CASE SyncFetch
      BY <2>1, MarksKept DEF SyncFetch, TypeOK, SyncState
    <2>2. CASE SyncFails
      BY <2>2 DEF SyncFails, Fault, NoSync, TypeOK, SyncState, MarksTyped, marks
    <2>3. CASE SyncList
      <3>1. PICK seen \in SUBSET Mac : sync' = [sync EXCEPT !.pc = "work", !.seen = seen]
        BY <2>3 DEF SyncList, TypeOK
      <3>2. QED
        BY <2>3, <3>1, MarksKept DEF SyncList, TypeOK, SyncState
    <2>4. CASE SyncEnd
      BY <2>4, MarksKept DEF SyncEnd, NoSync, TypeOK, SyncState
    <2>5. QED
      BY <2>1, <2>2, <2>3, <2>4
  <1>2. UNCHANGED <<fw, reg, ended, shaping, task, boot, entitled>>
    BY DEF SyncFetch, SyncFails, SyncList, SyncEnd
  <1>3. QED
    BY <1>1, <1>2, RestTyped DEF TypeOK, shaping

LEMMA BootTyped ==
    ASSUME Typed, BootStep
    PROVE  Typed'
  <1> TypeOK
    BY DEF Typed
  <1>1. CASE BootRules
    BY <1>1, RestTyped DEF BootRules, TypeOK, shaping, MarksTyped
  <1>2. CASE BootShaping
    <2>1. \A i \in Minor : Cardinality({m \in Mac : minorOf[m] = i}) \in Nat
      BY AdmissionAssumption, FS_Subset, FS_CardinalityType
    <2>2. free' \in [Minor -> 0..2]
      BY <1>2, <2>1, Counted DEF BootShaping, FreeAll, TypeOK
    <2>3. minorOf' \in [Mac -> 0..Last]
      BY <1>2, AdmissionAssumption DEF BootShaping
    <2>4. QED
      BY <1>2, <2>2, <2>3, RestTyped DEF BootShaping, TypeOK, MarksTyped
  <1>3. CASE BootClear
    BY <1>3, MarksKept, RestTyped DEF BootClear, TypeOK, shaping
  <1>4. CASE BootFails
    BY <1>4, RestTyped DEF BootFails, Fault, TypeOK, shaping, MarksTyped, marks
  <1>5. QED
    BY <1>1, <1>2, <1>3, <1>4 DEF BootStep

LEMMA CrashTyped ==
    ASSUME Typed, Crash
    PROVE  Typed'
  <1> TypeOK
    BY DEF Typed
  <1>1. /\ fw' \in SUBSET Mac /\ filters' \in SUBSET (Router \X Minor \X Mac) /\ faults' \in Nat
        /\ reg' = [m \in Mac |-> Null] /\ ended' = {} /\ minorOf' = [m \in Mac |-> 0]
        /\ free' = [i \in Minor |-> 0] /\ next' = 1 /\ sync' = NoSync /\ boot' = "rules"
        /\ task' = [t \in Worker |-> IF task[t].pc = "idle" THEN NoTask ELSE Finished(t)]
        /\ UNCHANGED entitled /\ leaked' = {} /\ bare' = {}
    BY DEF Crash, Fault, TypeOK
  <1>2. \A t \in Worker : /\ Finished(t) \in TaskState /\ Finished(t).pc \in Over
                          /\ Finished(t).mac = Null
    <2>1. NoTask.mac = Null
      BY DEF NoTask
    <2>2. QED
      BY <2>1, NoTaskTyped DEF Finished, TaskState, Over
  <1>3. NoTask.pc \in Over /\ NoTask.mac = Null
    BY DEF NoTask, Over
  <1>4. task' \in [Worker -> TaskState]
    BY <1>1, <1>2, NoTaskTyped
  <1>5. \A t \in Worker : task'[t].pc \in Over /\ task'[t].mac = Null
    BY <1>1, <1>2, <1>3
  <1>6. \A t \in Worker : Formed(task'[t])
    BY <1>5 DEF Formed, Over
  <1>7. NoSync \in SyncState /\ 0 \in 0..Last /\ 1 \in 1..(Last + 1)
    BY AdmissionAssumption DEF NoSync, SyncState
  <1>8. QED
    BY <1>1, <1>4, <1>6, <1>7 DEF Typed, TypeOK

LEMMA WorldTyped ==
    ASSUME Typed, NEW m \in Mac, EntitlementStarts(m) \/ EntitlementEnds(m) \/ Lapse(m) \/ TimesOut(m)
    PROVE  Typed'
  <1> TypeOK
    BY DEF Typed
  <1>1. CASE EntitlementStarts(m) \/ EntitlementEnds(m)
    BY <1>1, MarksKept, RestTyped DEF EntitlementStarts, EntitlementEnds, TypeOK, shaping
  <1>2. CASE Lapse(m) \/ TimesOut(m)
    BY <1>2, MarksKept, RestTyped DEF Lapse, TimesOut, TypeOK, shaping
  <1>3. QED
    BY <1>1, <1>2

LEMMA AdmissionInitTyped == Init => Typed
  <1> SUFFICES ASSUME Init PROVE Typed
    OBVIOUS
  <1>1. NoTask.pc \in Over /\ NoTask.mac = Null
    BY DEF NoTask, Over
  <1>2. Formed(NoTask)
    BY <1>1 DEF Formed, Over
  <1>3. NoSync \in SyncState /\ 0 \in 0..Last /\ 1 \in 1..(Last + 1)
    BY AdmissionAssumption DEF NoSync, SyncState
  <1>4. QED
    BY <1>2, <1>3, NoTaskTyped DEF Init, Typed, TypeOK

LEMMA AdmissionNextTyped == Typed /\ [Next]_vars => Typed'
  <1> SUFFICES ASSUME Typed, [Next]_vars PROVE Typed'
    OBVIOUS
  <1>1. CASE \E t \in Worker : TaskStep(t)
    BY <1>1, TaskStepTyped
  <1>2. CASE (\E c \in Call : HttpCall(c)) \/ (\E m \in Mac : Sweep(m))
    BY <1>2, CallTyped
  <1>3. CASE \E m \in Mac : EntitlementStarts(m) \/ EntitlementEnds(m) \/ Lapse(m) \/ TimesOut(m)
    BY <1>3, WorldTyped
  <1>4. CASE SyncStep
    BY <1>4, SyncStartTyped, SyncRestTyped, CallTyped, SyncAdmitTyped DEF SyncStep
  <1>5. CASE BootStep \/ Crash
    BY <1>5, BootTyped, CrashTyped
  <1>6. CASE UNCHANGED vars
    BY <1>6 DEF vars, shaping, failures, marks, Typed, TypeOK
  <1>7. QED
    BY <1>1, <1>2, <1>3, <1>4, <1>5, <1>6 DEF Next

\* Every set, map and call keeps its shape, whatever overlaps and fails.
THEOREM AdmissionTyped == Spec => []TypeOK
  <1>1. Typed => TypeOK
    BY DEF Typed
  <1>2. QED
    BY <1>1, AdmissionInitTyped, AdmissionNextTyped, PTL DEF Spec
-----------------------------------------------------------------------------
(* Operations that do not overlap: who holds which class ID                *)

\* No two operations on one MAC.
Alone ==
    \A t, u \in Worker : t # u /\ task[t].mac \in Mac => task[u].mac # task[t].mac

\* Before the agent serves, nothing runs and no class is taken.
Booting ==
    boot # "up" =>
        /\ \A t \in Worker : task[t].mac = Null
        /\ \A m \in Mac : minorOf[m] = 0
        /\ \A i \in Minor : free[i] = 0
        /\ sync.pc = "idle" /\ next = 1
        /\ boot \in {"shaping", "clear"} => fw = {}

\* An ID below the next new one is either on the free list, once, or one MAC's.
Classes ==
    /\ OwnClass
    /\ \A m \in Mac : minorOf[m] < next
    /\ \A i \in Minor :
        /\ free[i] <= 1
        /\ free[i] = 1 => i < next /\ \A m \in Mac : minorOf[m] # i
        /\ i < next => free[i] = 1 \/ \E m \in Mac : minorOf[m] = i

\* The ID a call gives back is the one its MAC has.
Returns ==
    \A t \in Worker : task[t].pc \in {"tcDelete", "tcFree"} => task[t].minor = minorOf[task[t].mac]

SerialInv == Typed /\ Alone /\ Booting /\ Classes /\ Returns

-----------------------------------------------------------------------------
(* What firewall, registry and traffic control have to do with each other  *)

Filtered(m)  == reg[m] # Null => <<reg[m].rt, minorOf[m], m>> \in filters \/ m \in bare
Classless(m) == reg[m] = Null => minorOf[m] = 0 \/ m \in bare
Watched(m)   == m \in fw => reg[m] # Null \/ m \in leaked
Settled(m)   == Filtered(m) /\ Classless(m) /\ Watched(m)

\* What a call may rely on at each of its steps.
Relies(s) ==
    LET m == s.mac IN
    /\ s.had = reg[m]
    /\ s.pc = "delete" => Settled(m)
    /\ s.pc \in {"add", "unshape"} => Filtered(m) /\ Classless(m)
    /\ s.pc = "unshape" /\ s.op = "admit" => s.had # Null
    /\ s.pc \in {"unshape", "tcDelete", "tcFree"} /\ s.op = "revoke" =>
           (m \in fw => m \in leaked)
    /\ s.pc = "allocate" /\ minorOf[m] # 0 =>
           (s.had # Null /\ s.had.rt = s.rt /\ Filtered(m)) \/ m \in bare
    /\ s.pc \in {"tcAdd", "enter"} => s.minor = minorOf[m]
    /\ s.pc = "tcAdd" /\ s.kept =>
           (s.had # Null /\ s.had.rt = s.rt /\ <<s.rt, s.minor, m>> \in filters) \/ m \in bare
    /\ s.pc = "enter" => <<s.rt, s.minor, m>> \in filters \/ m \in bare

KnownInv ==
    /\ SerialInv
    /\ \A t \in Worker : task[t].mac \in Mac => Relies(task[t])
    /\ \A m \in Mac : Quiet(m) => Settled(m)
-----------------------------------------------------------------------------
(* Class IDs are never shared                                              *)

LEMMA UpWhileBusy ==
    ASSUME SerialInv, NEW t \in Worker, task[t].mac \in Mac
    PROVE  boot = "up"
  BY NoTaskTyped DEF SerialInv, Booting

\* A step of a call under way, as far as class IDs are concerned.
LEMMA StepSerial ==
    ASSUME SerialInv, Typed', NEW t \in Worker, NEW s, Moves(t, s),
           task[t].mac \in Mac, s.mac \in {task[t].mac, Null}, UNCHANGED boot,
           s.pc \in {"tcDelete", "tcFree"} => s.mac = task[t].mac /\ s.minor = minorOf'[s.mac],
           \A n \in Mac : n # task[t].mac => minorOf'[n] = minorOf[n],
           Classes'
    PROVE  SerialInv'
  <1> Typed
    BY DEF SerialInv
  <1>1. task'[t] = s /\ \A u \in Worker : u # t => task'[u] = task[u]
    BY MovesTyped
  <1>2. Alone'
    BY <1>1, NoTaskTyped DEF SerialInv, Alone
  <1>3. boot' = "up"
    BY UpWhileBusy
  <1>4. Booting'
    BY <1>3 DEF Booting
  <1>5. Returns'
    <2> SUFFICES ASSUME NEW u \in Worker, task'[u].pc \in {"tcDelete", "tcFree"}
                 PROVE  task'[u].minor = minorOf'[task'[u].mac]
      BY DEF Returns
    <2>1. CASE u = t
      BY <1>1, <2>1
    <2>2. CASE u # t
      <3>1. task'[u] = task[u] /\ task[u].mac \in Mac /\ task[u].mac # task[t].mac
        BY <1>1, <2>2 DEF SerialInv, Alone, Typed, Formed, Over
      <3>2. QED
        BY <3>1 DEF SerialInv, Returns
    <2>3. QED
      BY <2>1, <2>2
  <1>6. QED
    BY <1>2, <1>4, <1>5 DEF SerialInv

LEMMA ClassesSame ==
    ASSUME Classes, UNCHANGED <<minorOf, free, next>>
    PROVE  Classes'
  BY DEF Classes, OwnClass

\* A call ends, or goes on with what it had.
LEMMA OnlyTaskSerial ==
    ASSUME SerialInv, Typed', NEW t \in Worker, NEW s, Moves(t, s),
           task[t].mac \in Mac, s.mac \in {task[t].mac, Null},
           UNCHANGED <<boot, minorOf, free, next>>,
           s.pc \in {"tcDelete", "tcFree"} => s.mac = task[t].mac /\ s.minor = minorOf[s.mac]
    PROVE  SerialInv'
  BY StepSerial, ClassesSame DEF SerialInv

\* Where a task's own step leaves it.
LEMMA GotoFields ==
    ASSUME Typed, NEW t \in Worker, NEW p
    PROVE  LET s == [task[t] EXCEPT !.pc = p]
           IN  /\ s.pc = p /\ s.mac = task[t].mac /\ s.op = task[t].op /\ s.rt = task[t].rt
               /\ s.had = task[t].had /\ s.minor = task[t].minor /\ s.kept = task[t].kept
  BY DEF Typed, TypeOK, TaskState

LEMMA AfterUnshapeFields ==
    ASSUME Typed, NEW t \in Worker
    PROVE  LET s == AfterUnshape(t)
           IN  /\ task[t].op = "admit" =>
                     /\ s.pc = "allocate" /\ s.mac = task[t].mac /\ s.op = "admit"
                     /\ s.rt = task[t].rt /\ s.had = task[t].had
               /\ task[t].op # "admit" => s.pc \in Over /\ s.mac = Null
  <1>1. Finished(t).pc \in Over /\ Finished(t).mac = Null
    <2>1. NoTask.mac = Null
      BY DEF NoTask
    <2>2. QED
      BY <2>1, NoTaskTyped DEF Finished, TaskState, Over
  <1>2. QED
    BY <1>1, GotoFields DEF AfterUnshape

\* A call goes on to p.
LEMMA GotoSerial ==
    ASSUME SerialInv, Typed', NEW t \in Worker, NEW p, Moves(t, [task[t] EXCEPT !.pc = p]),
           task[t].mac \in Mac, UNCHANGED <<boot, minorOf, free, next>>,
           p \in {"tcDelete", "tcFree"} => task[t].minor = minorOf[task[t].mac]
    PROVE  SerialInv'
  <1> DEFINE s == [task[t] EXCEPT !.pc = p]
  <1>1. s.pc = p /\ s.mac = task[t].mac /\ s.minor = task[t].minor
    BY GotoFields DEF SerialInv
  <1>2. Moves(t, s)
    OBVIOUS
  <1> HIDE DEF s
  <1>3. QED
    BY <1>1, <1>2, OnlyTaskSerial

\* removeShapingForMac is over.
LEMMA AfterUnshapeSerial ==
    ASSUME SerialInv, Typed', NEW t \in Worker, Moves(t, AfterUnshape(t)), task[t].mac \in Mac,
           UNCHANGED boot, \A n \in Mac : n # task[t].mac => minorOf'[n] = minorOf[n], Classes'
    PROVE  SerialInv'
  <1> DEFINE s == AfterUnshape(t)
  <1>1. s.mac \in {task[t].mac, Null} /\ s.pc \notin {"tcDelete", "tcFree"}
    BY AfterUnshapeFields DEF SerialInv, Over
  <1>2. Moves(t, s)
    OBVIOUS
  <1> HIDE DEF s
  <1>3. QED
    BY <1>1, <1>2, StepSerial

\* Who takes an ID takes it from the list, or is the first to have it.
LEMMA TakesClass ==
    ASSUME SerialInv, NEW m \in Mac, minorOf[m] = 0, NEW i \in Minor,
           minorOf' = [minorOf EXCEPT ![m] = i],
           \/ free[i] > 0 /\ UNCHANGED next /\ \E n \in Popped(free[i]) : free' = [free EXCEPT ![i] = n]
           \/ i = next /\ next' = next + 1 /\ UNCHANGED free
    PROVE  Classes'
  <1> TypeOK /\ Classes
    BY DEF SerialInv, Typed
  <1>1. \A n \in Mac : minorOf'[n] = IF n = m THEN i ELSE minorOf[n]
    BY DEF TypeOK
  <1>2. /\ i < next' /\ next <= next' /\ next \in Nat /\ next' \in Nat
        /\ \A j \in Minor : free'[j] = IF j = i THEN 0 ELSE free[j]
        /\ \A j \in Minor : j < next' => j < next \/ j = i
        /\ \A n \in Mac : minorOf[n] # i
    <2>1. CASE free[i] > 0 /\ UNCHANGED next /\ \E n \in Popped(free[i]) : free' = [free EXCEPT ![i] = n]
      <3>1. free[i] = 1
        BY <2>1 DEF Classes, TypeOK
      <3>2. free' = [free EXCEPT ![i] = 0]
        BY <2>1, <3>1 DEF Popped
      <3>3. QED
        BY <2>1, <3>1, <3>2 DEF Classes, TypeOK
    <2>2. CASE i = next /\ next' = next + 1 /\ UNCHANGED free
      <3>1. \A n \in Mac : minorOf[n] < next
        BY DEF Classes
      <3>2. free[i] # 1 /\ free[i] \in 0..2 /\ free[i] <= 1
        BY <2>2 DEF Classes, TypeOK, Minor
      <3>3. next \in Nat /\ \A n \in Mac : minorOf[n] \in Nat
        BY AdmissionAssumption DEF TypeOK
      <3>4. \A j \in Minor : j < next + 1 => j < next \/ j = next
        BY <3>3, AdmissionAssumption DEF Minor
      <3>5. QED
        BY <2>2, <3>1, <3>2, <3>3, <3>4
    <2>3. QED
      BY <2>1, <2>2
  <1>3. OwnClass'
    BY <1>1, <1>2 DEF Classes, OwnClass
  <1>4. \A n \in Mac : minorOf'[n] < next'
    BY <1>1, <1>2, AdmissionAssumption DEF Classes, TypeOK
  <1>5. ASSUME NEW j \in Minor
        PROVE  /\ free'[j] <= 1
               /\ free'[j] = 1 => j < next' /\ \A n \in Mac : minorOf'[n] # j
               /\ j < next' => free'[j] = 1 \/ \E n \in Mac : minorOf'[n] = j
    <2>1. CASE j = i
      BY <1>1, <1>2, <2>1
    <2>2. CASE j # i
      <3>1. /\ free'[j] = free[j] /\ (j < next => j < next') /\ (j < next' => j < next)
            /\ \A n \in Mac : minorOf'[n] = j <=> minorOf[n] = j
        BY <1>1, <1>2, <2>2, AdmissionAssumption DEF Minor
      <3>2. QED
        BY <3>1 DEF Classes
    <2>3. QED
      BY <2>1, <2>2
  <1>6. QED
    BY <1>3, <1>4, <1>5 DEF Classes

LEMMA AllocateSerial ==
    ASSUME SerialInv, Typed', NEW t \in Worker, Allocate(t)
    PROVE  SerialInv'
  <1> Typed
    BY DEF SerialInv
  <1> DEFINE m == task[t].mac
             to(i, had) == [task[t] EXCEPT !.pc = "tcAdd", !.minor = i, !.kept = had]
  <1>1. m \in Mac /\ UNCHANGED boot
    BY AllocateMoves
  <1>2. \A i, had : to(i, had).pc = "tcAdd" /\ to(i, had).mac = m
    BY DEF Typed, TypeOK, TaskState
  <1>3. \/ /\ minorOf[m] # 0 /\ Moves(t, to(minorOf[m], TRUE)) /\ UNCHANGED <<minorOf, free, next>>
        \/ /\ minorOf[m] = 0
           /\ \E i \in Minor :
                 /\ Moves(t, to(i, FALSE)) /\ minorOf' = [minorOf EXCEPT ![m] = i]
                 /\ \/ /\ free[i] > 0 /\ UNCHANGED next
                       /\ \E n \in Popped(free[i]) : free' = [free EXCEPT ![i] = n]
                    \/ i = next /\ next' = next + 1 /\ UNCHANGED free
        \/ Moves(t, Finished(t)) /\ UNCHANGED <<minorOf, free, next>>
    BY AllocateMoves
  <1> HIDE DEF to
  <1>4. CASE Moves(t, to(minorOf[m], TRUE)) /\ UNCHANGED <<minorOf, free, next>>
    BY <1>1, <1>2, <1>4, OnlyTaskSerial
  <1>5. ASSUME minorOf[m] = 0, NEW i \in Minor,
               Moves(t, to(i, FALSE)), minorOf' = [minorOf EXCEPT ![m] = i],
               \/ /\ free[i] > 0 /\ UNCHANGED next
                  /\ \E n \in Popped(free[i]) : free' = [free EXCEPT ![i] = n]
               \/ i = next /\ next' = next + 1 /\ UNCHANGED free
        PROVE  SerialInv'
    <2>1. Classes'
      BY <1>1, <1>5, TakesClass
    <2>2. \A n \in Mac : n # m => minorOf'[n] = minorOf[n]
      BY <1>5 DEF Typed, TypeOK
    <2> DEFINE s == to(i, FALSE)
    <2>3. Moves(t, s) /\ s.pc = "tcAdd" /\ s.mac = m
      BY <1>2, <1>5
    <2> HIDE DEF s
    <2>4. QED
      BY <1>1, <2>1, <2>2, <2>3, StepSerial
  <1>6. CASE Moves(t, Finished(t)) /\ UNCHANGED <<minorOf, free, next>>
    <2>1. Finished(t).pc \in Over /\ Finished(t).mac = Null
      <3>1. NoTask.mac = Null
        BY DEF NoTask
      <3>2. QED
        BY <3>1, NoTaskTyped DEF Finished, TaskState, Over
    <2>2. QED
      BY <1>1, <1>6, <2>1, OnlyTaskSerial DEF Over
  <1>7. QED
    BY <1>3, <1>4, <1>5, <1>6

LEMMA TaskStepSerial ==
    ASSUME SerialInv, NEW t \in Worker, TaskStep(t)
    PROVE  SerialInv'
  <1> Typed /\ Formed(task[t])
    BY DEF SerialInv, Typed
  <1>1. Typed'
    BY TaskStepTyped
  <1>2. task[t].mac \in Mac /\ task[t].pc \notin Over
    BY DEF TaskStep, NftDelete, NftDeleteFails, NftAdd, NftAddFails, UnshapeRead, TcDelete,
       TcDeleteFails, TcFree, Allocate, TcAdd, TcFails, Enter, Formed, Over
  <1>3. CASE NftDelete(t) \/ NftDeleteFails(t) \/ NftAdd(t)
    <2>1. PICK p \in {"add", "unshape", "allocate"} : Moves(t, [task[t] EXCEPT !.pc = p])
      BY <1>3, NftMoves
    <2>2. UNCHANGED <<boot, minorOf, free, next>>
      BY <1>3 DEF NftDelete, NftDeleteFails, NftAdd, shaping
    <2>3. QED
      BY <1>1, <1>2, <2>1, <2>2, GotoSerial
  <1>4. CASE UnshapeRead(t)
    <2>1. UNCHANGED <<boot, minorOf, free, next>>
      BY <1>4 DEF UnshapeRead, shaping
    <2>2. CASE Unshaped(t)
      <3>1. Moves(t, AfterUnshape(t))
        BY <1>2, <2>2, UnshapedMoves
      <3>2. QED
        BY <1>1, <1>2, <2>1, <3>1, ClassesSame, AfterUnshapeSerial DEF SerialInv
    <2>3. CASE Moves(t, [task[t] EXCEPT !.pc = "tcDelete", !.minor = minorOf[task[t].mac]])
      <3> DEFINE s == [task[t] EXCEPT !.pc = "tcDelete", !.minor = minorOf[task[t].mac]]
      <3>1. s.pc = "tcDelete" /\ s.mac = task[t].mac /\ s.minor = minorOf[task[t].mac]
        BY DEF Typed, TypeOK, TaskState
      <3> HIDE DEF s
      <3>2. QED
        BY <1>1, <1>2, <2>1, <2>3, <3>1, OnlyTaskSerial DEF s
    <2>4. QED
      BY <1>4, <2>2, <2>3, UnshapeReadMoves
  <1>5. CASE TcDelete(t) \/ TcDeleteFails(t)
    <2>1. Moves(t, [task[t] EXCEPT !.pc = "tcFree"])
      BY <1>2, <1>5, GotoMoves DEF TcDelete, TcDeleteFails, Formed
    <2>2. task[t].minor = minorOf[task[t].mac]
      BY <1>5 DEF TcDelete, TcDeleteFails, SerialInv, Returns
    <2>3. QED
      BY <1>1, <1>2, <1>5, <2>1, <2>2, GotoSerial DEF TcDelete, TcDeleteFails, shaping
  <1>6. CASE TcFree(t)
    <2> DEFINE i == task[t].minor
               m == task[t].mac
    <2>1. i = minorOf[m] /\ i \in Minor
      BY <1>6, AdmissionAssumption DEF TcFree, SerialInv, Returns, Formed, Typed, TypeOK, TaskState, Minor
    <2>2. free[i] = 0 /\ i < next
      BY <1>2, <2>1 DEF SerialInv, Classes, TypeOK, Typed
    <2>3. /\ minorOf' = [minorOf EXCEPT ![m] = 0] /\ free' = [free EXCEPT ![i] = 1]
          /\ UNCHANGED <<next, boot>>
      BY <1>6, <2>1, <2>2 DEF TcFree, AtMostTwo, Typed, TypeOK
    <2>4. Classes'
      <3>1. \A n \in Mac : minorOf'[n] = IF n = m THEN 0 ELSE minorOf[n]
        BY <2>3 DEF Typed, TypeOK
      <3>2. \A j \in Minor : free'[j] = IF j = i THEN 1 ELSE free[j]
        BY <2>3 DEF Typed, TypeOK
      <3>3. OwnClass'
        BY <3>1 DEF SerialInv, Classes, OwnClass
      <3>4. \A n \in Mac : minorOf'[n] < next'
        BY <2>1, <2>2, <2>3, <3>1 DEF SerialInv, Classes, Minor, Typed, TypeOK
      <3>5. \A n \in Mac : minorOf'[n] # i
        BY <1>2, <2>1, <3>1, AdmissionAssumption DEF SerialInv, Classes, OwnClass, Minor
      <3>6. ASSUME NEW j \in Minor
            PROVE  /\ free'[j] <= 1
                   /\ free'[j] = 1 => j < next' /\ \A n \in Mac : minorOf'[n] # j
                   /\ j < next' => free'[j] = 1 \/ \E n \in Mac : minorOf'[n] = j
        <4>1. CASE j = i
          BY <2>2, <2>3, <3>2, <3>5, <4>1
        <4>2. CASE j # i
          <5>1. j # 0
            BY AdmissionAssumption DEF Minor
          <5>2. /\ free'[j] = free[j]
                /\ \A n \in Mac : minorOf'[n] = j <=> minorOf[n] = j
            BY <2>1, <3>1, <3>2, <4>2, <5>1
          <5>3. QED
            BY <2>3, <5>2 DEF SerialInv, Classes
        <4>3. QED
          BY <4>1, <4>2
      <3>7. QED
        BY <3>3, <3>4, <3>6 DEF Classes
    <2>5. Moves(t, AfterUnshape(t)) /\ \A n \in Mac : n # m => minorOf'[n] = minorOf[n]
      BY <1>2, <1>6, <2>3, UnshapedMoves DEF TcFree, Typed, TypeOK
    <2>6. QED
      BY <1>1, <1>2, <2>3, <2>4, <2>5, AfterUnshapeSerial
  <1>7. CASE TcAdd(t)
    <2>1. Moves(t, [task[t] EXCEPT !.pc = "enter"])
      BY <1>2, <1>7, GotoMoves DEF TcAdd, Formed
    <2>2. QED
      BY <1>1, <1>2, <1>7, <2>1, GotoSerial DEF TcAdd
  <1>8. CASE NftAddFails(t) \/ TcFails(t) \/ Enter(t)
    <2>1. /\ Moves(t, Finished(t)) /\ Finished(t).pc \in Over /\ Finished(t).mac = Null
      BY <1>8, FinishMoves DEF NftAddFails, TcFails, Throw, Enter
    <2>2. UNCHANGED <<boot, minorOf, free, next>>
      BY <1>8 DEF NftAddFails, TcFails, Enter, shaping
    <2>3. QED
      BY <1>1, <1>2, <2>1, <2>2, OnlyTaskSerial DEF Over
  <1>9. CASE Allocate(t)
    <2>1. QED
      BY <1>1, <1>9, AllocateSerial
  <1>10. QED
    BY <1>3, <1>4, <1>5, <1>6, <1>7, <1>8, <1>9 DEF TaskStep
LEMMA StartMoves ==
    ASSUME Typed, NEW t \in Worker, NEW m \in Mac,
           RevokeStart(t, m) \/ \E rt \in Router : AdmitStart(t, m, rt)
    PROVE  /\ task[t].pc = "idle" /\ MayStart(m)
           /\ \E s : Moves(t, s) /\ s.pc = "delete" /\ s.mac = m /\ s.had = reg[m]
  <1>1. CASE RevokeStart(t, m)
    <2> DEFINE s == [NoTask EXCEPT !.pc = "delete", !.op = "revoke", !.mac = m, !.had = reg[m]]
    <2>1. s.pc = "delete" /\ s.mac = m /\ s.had = reg[m]
      BY DEF NoTask
    <2>2. QED
      BY <1>1, <2>1, RevokeStartMoves DEF RevokeStart
  <1>2. ASSUME NEW rt \in Router, AdmitStart(t, m, rt)
        PROVE  /\ task[t].pc = "idle" /\ MayStart(m)
               /\ \E s : Moves(t, s) /\ s.pc = "delete" /\ s.mac = m /\ s.had = reg[m]
    <2> DEFINE s == [NoTask EXCEPT !.pc = "delete", !.mac = m, !.rt = rt, !.had = reg[m]]
    <2>1. s.pc = "delete" /\ s.mac = m /\ s.had = reg[m]
      BY DEF NoTask
    <2>2. QED
      BY <1>2, <2>1, AdmitStartMoves DEF AdmitStart
  <1>3. QED
    BY <1>1, <1>2

\* A call begins on a MAC nothing works on.
LEMMA StartSerial ==
    ASSUME SerialInv, Typed', Overlap = {}, NEW t \in Worker, NEW m \in Mac,
           RevokeStart(t, m) \/ \E rt \in Router : AdmitStart(t, m, rt),
           boot = "up", UNCHANGED <<boot, minorOf, free, next>>
    PROVE  SerialInv'
  <1> Typed
    BY DEF SerialInv
  <1>1. ~Busy(m)
    BY StartMoves DEF MayStart
  <1>2. PICK s : Moves(t, s) /\ s.mac = m /\ s.pc = "delete"
    BY StartMoves
  <1>3. task'[t] = s /\ \A u \in Worker : u # t => task'[u] = task[u]
    BY <1>2, MovesTyped
  <1>4. Alone'
    BY <1>1, <1>2, <1>3 DEF SerialInv, Alone, Busy
  <1>5. Booting' /\ Classes'
    BY ClassesSame DEF SerialInv, Booting
  <1>6. Returns'
    BY <1>2, <1>3 DEF SerialInv, Returns
  <1>7. QED
    BY <1>4, <1>5, <1>6 DEF SerialInv

LEMMA CallsServed ==
    ASSUME SerialInv, Overlap = {}, \/ \E c \in Call : HttpCall(c)
                                    \/ \E m \in Mac : \/ Sweep(m) \/ SyncRevoke(m)
                                                      \/ \E rt \in Router : SyncAdmit(m, rt)
    PROVE  boot = "up" /\ UNCHANGED <<fw, reg, ended, shaping, boot, entitled, failures>>
  BY DEF SerialInv, Booting, HttpCall, HttpAdmit, HttpRevoke, Serving, Sweep, SyncRevoke, SyncAdmit

LEMMA CallSerial ==
    ASSUME SerialInv, Overlap = {}, \/ \E c \in Call : HttpCall(c)
                                    \/ \E m \in Mac : \/ Sweep(m) \/ SyncRevoke(m)
                                                      \/ \E rt \in Router : SyncAdmit(m, rt)
    PROVE  SerialInv'
  <1>1. boot = "up" /\ UNCHANGED <<boot, minorOf, free, next>>
    BY CallsServed DEF shaping
  <1>2. Typed'
    BY CallTyped, SyncAdmitTyped DEF SerialInv
  <1>3. CASE \E t \in Worker, m \in Mac :
                 RevokeStart(t, m) \/ \E rt \in Router : AdmitStart(t, m, rt)
    BY <1>1, <1>2, <1>3, StartSerial
  <1>4. CASE UNCHANGED task
    BY <1>1, <1>2, <1>4, ClassesSame DEF SerialInv, Alone, Booting, Returns
  <1>5. Call \subseteq Worker /\ "sync" \in Worker /\ "sweep" \in Worker
    BY DEF Worker
  <1>6. QED
    BY <1>3, <1>4, <1>5 DEF HttpCall, HttpAdmit, HttpRevoke, Sweep, SyncRevoke, SyncAdmit

\* The sync pass itself touches no class.
LEMMA SyncSerial ==
    ASSUME SerialInv, SyncStart \/ SyncFetch \/ SyncFails \/ SyncList \/ SyncEnd
    PROVE  SerialInv'
  <1>1. Typed'
    BY SyncStartTyped, SyncRestTyped DEF SerialInv
  <1>2. UNCHANGED <<boot, minorOf, free, next>> /\ boot = "up"
    BY DEF SyncStart, SyncFetch, SyncFails, SyncList, SyncEnd, shaping, SerialInv, Booting
  <1>3. \A u \in Worker : /\ task'[u].pc = task[u].pc /\ task'[u].mac = task[u].mac
                          /\ task'[u].minor = task[u].minor
    <2>1. CASE SyncStart
      BY <2>1, AgedTyped DEF SyncStart, SerialInv
    <2>2. CASE SyncFetch \/ SyncFails \/ SyncList \/ SyncEnd
      BY <2>2 DEF SyncFetch, SyncFails, SyncList, SyncEnd
    <2>3. QED
      BY <2>1, <2>2
  <1>4. QED
    BY <1>1, <1>2, <1>3, ClassesSame DEF SerialInv, Alone, Booting, Returns

\* At boot no MAC has a class, so nothing is pushed on the free list.
LEMMA FreeAllNone ==
    ASSUME Typed, FreeAll, \A m \in Mac : minorOf[m] = 0, \A i \in Minor : free[i] = 0
    PROVE  \A i \in Minor : free'[i] = 0
  <1> SUFFICES ASSUME NEW i \in Minor PROVE free'[i] = 0
    OBVIOUS
  <1>1. {m \in Mac : minorOf[m] = i} = {}
    BY AdmissionAssumption DEF Minor
  <1>2. Cardinality({m \in Mac : minorOf[m] = i}) = 0
    BY <1>1, FS_EmptySet
  <1>3. free'[i] = AtMostTwo(free[i] + 0)
    BY <1>2 DEF FreeAll
  <1>4. QED
    BY <1>3 DEF AtMostTwo

LEMMA BootSerial ==
    ASSUME SerialInv, BootStep
    PROVE  SerialInv'
  <1> Typed /\ Booting /\ Classes
    BY DEF SerialInv
  <1>1. Typed'
    BY BootTyped
  <1>2. boot # "up" /\ UNCHANGED <<next, task, sync>>
    BY DEF BootStep, BootRules, BootShaping, BootClear, BootFails, shaping
  <1>3. (\A m \in Mac : minorOf'[m] = 0) /\ (\A i \in Minor : free'[i] = 0)
    <2>1. CASE BootShaping
      BY <1>2, <2>1, FreeAllNone DEF BootShaping, Booting
    <2>2. CASE BootRules \/ BootClear \/ BootFails
      BY <1>2, <2>2 DEF BootRules, BootClear, BootFails, shaping, Booting
    <2>3. QED
      BY <2>1, <2>2 DEF BootStep
  <1>4. Booting'
    BY <1>2, <1>3 DEF Booting, BootStep, BootRules, BootShaping, BootClear, BootFails
  <1>5. Classes'
    <2>1. next' = 1 /\ \A i \in Minor : ~(i < 1)
      BY <1>2, AdmissionAssumption DEF Booting, Minor
    <2>2. QED
      BY <1>3, <2>1 DEF Classes, OwnClass
  <1>6. Alone' /\ Returns'
    BY <1>2, NoTaskTyped DEF Booting, Alone, Returns, Typed, Formed, Over
  <1>7. QED
    BY <1>1, <1>4, <1>5, <1>6 DEF SerialInv

\* Nothing runs, no class is taken: at the start and after a crash.
LEMMA FreshSerial ==
    ASSUME Typed, boot = "rules", next = 1, sync.pc = "idle",
           \A t \in Worker : task[t].mac = Null,
           \A m \in Mac : minorOf[m] = 0, \A i \in Minor : free[i] = 0
    PROVE  SerialInv
  <1>1. \A i \in Minor : ~(i < 1)
    BY AdmissionAssumption DEF Minor
  <1>2. Classes
    BY <1>1 DEF Classes, OwnClass
  <1>3. QED
    BY <1>2, NoTaskTyped DEF SerialInv, Alone, Booting, Returns, Typed, Formed, Over

LEMMA CrashFields ==
    ASSUME Crash
    PROVE  /\ boot' = "rules" /\ next' = 1 /\ sync'.pc = "idle"
           /\ \A t \in Worker : task'[t].mac = Null /\ task'[t].pc \in Over
           /\ \A m \in Mac : minorOf'[m] = 0 /\ reg'[m] = Null
           /\ \A i \in Minor : free'[i] = 0
  <1>1. NoTask.mac = Null /\ NoTask.pc \in Over /\ NoSync.pc = "idle"
    BY DEF NoTask, NoSync, Over
  <1>2. \A t \in Worker : Finished(t).mac = Null /\ Finished(t).pc \in Over
    BY <1>1, NoTaskTyped DEF Finished, TaskState, Over
  <1>3. QED
    BY <1>1, <1>2 DEF Crash

LEMMA CrashSerial ==
    ASSUME SerialInv, Crash
    PROVE  SerialInv'
  <1>1. Typed'
    BY CrashTyped DEF SerialInv
  <1>2. \A i \in Minor : ~(i < 1)
    BY AdmissionAssumption DEF Minor
  <1>3. Classes'
    BY <1>2, CrashFields DEF Classes, OwnClass
  <1>4. Alone'
    BY CrashFields, NoTaskTyped DEF Alone
  <1>5. Booting'
    BY CrashFields DEF Booting
  <1>6. Returns'
    BY CrashFields DEF Returns, Over
  <1>7. QED
    BY <1>1, <1>3, <1>4, <1>5, <1>6 DEF SerialInv

LEMMA InitSerial == Init => SerialInv
  <1> SUFFICES ASSUME Init PROVE SerialInv
    OBVIOUS
  <1>1. NoTask.mac = Null /\ NoSync.pc = "idle"
    BY DEF NoTask, NoSync
  <1>2. QED
    BY <1>1, AdmissionInitTyped, FreshSerial DEF Init

LEMMA NextSerial ==
    ASSUME Overlap = {}, SerialInv, [Next]_vars
    PROVE  SerialInv'
  <1>1. CASE \E t \in Worker : TaskStep(t)
    BY <1>1, TaskStepSerial
  <1>2. CASE (\E c \in Call : HttpCall(c)) \/ (\E m \in Mac : Sweep(m))
    BY <1>2, CallSerial
  <1>3. CASE \E m \in Mac : EntitlementStarts(m) \/ EntitlementEnds(m) \/ Lapse(m) \/ TimesOut(m)
    <2>1. Typed'
      BY <1>3, WorldTyped DEF SerialInv
    <2>2. UNCHANGED <<shaping, task, sync, boot>> /\ fw' \subseteq fw
      BY <1>3 DEF EntitlementStarts, EntitlementEnds, Lapse, TimesOut
    <2>3. QED
      BY <2>1, <2>2, ClassesSame DEF SerialInv, Alone, Booting, Returns, shaping
  <1>4. CASE SyncStep
    BY <1>4, SyncSerial, CallSerial DEF SyncStep
  <1>5. CASE BootStep \/ Crash
    BY <1>5, BootSerial, CrashSerial
  <1>6. CASE UNCHANGED vars
    <2>1. Typed'
      BY <1>6, AdmissionNextTyped DEF SerialInv
    <2>2. QED
      BY <1>6, <2>1, ClassesSame DEF vars, shaping, SerialInv, Alone, Booting, Returns
  <1>7. QED
    BY <1>1, <1>2, <1>3, <1>4, <1>5, <1>6 DEF Next

\* tc.ts:15: without overlapping operations no two MACs ever share a class ID,
\* however often IDs are given back, reused, or lost in a crash.
THEOREM ClassesOwned ==
    ASSUME Overlap = {}
    PROVE  Spec => []OwnClass
  <1>1. SerialInv /\ [Next]_vars => SerialInv'
    BY NextSerial
  <1>2. SerialInv => OwnClass
    BY DEF SerialInv, Classes
  <1>3. QED
    BY <1>1, <1>2, InitSerial, PTL DEF Spec-----------------------------------------------------------------------------
(* Firewall, registry and filters agree                                    *)

\* A step of the call on m leaves every other MAC, and every other call, with
\* what it relies on.
LEMMA StepKnown ==
    ASSUME KnownInv, SerialInv', NEW t \in Worker, NEW s, Moves(t, s),
           NEW m \in Mac, m = task[t].mac, s.mac \in {m, Null}, UNCHANGED boot,
           \A n \in Mac : n # m =>
               /\ reg'[n] = reg[n] /\ minorOf'[n] = minorOf[n] /\ (n \in fw' => n \in fw)
               /\ (n \in leaked => n \in leaked') /\ (n \in bare => n \in bare')
               /\ \A rt \in Router : <<rt, minorOf[n], n>> \in filters
                                         => <<rt, minorOf[n], n>> \in filters',
           s.mac = m => Relies(s)',
           s.mac = Null => Settled(m)'
    PROVE  KnownInv'
  <1> SerialInv /\ Typed /\ TypeOK
    BY DEF KnownInv, SerialInv, Typed
  <1>1. task'[t] = s /\ \A u \in Worker : u # t => task'[u] = task[u]
    BY MovesTyped
  <1>2. boot = "up" /\ boot' = "up"
    BY UpWhileBusy
  <1>3. ASSUME NEW n \in Mac, n # m
        PROVE  /\ Settled(n) => Settled(n)' /\ (Filtered(n) => Filtered(n)')
               /\ Classless(n) => Classless(n)'
    <2>1. reg[n] # Null => reg[n].rt \in Router
      BY DEF TypeOK, Entry
    <2>2. /\ reg'[n] = reg[n] /\ minorOf'[n] = minorOf[n] /\ (n \in fw' => n \in fw)
          /\ (n \in leaked => n \in leaked') /\ (n \in bare => n \in bare')
          /\ reg[n] # Null /\ <<reg[n].rt, minorOf[n], n>> \in filters
                 => <<reg[n].rt, minorOf[n], n>> \in filters'
      BY <1>3, <2>1
    <2>3. QED
      BY <2>2 DEF Settled, Filtered, Classless, Watched
  <1>4. ASSUME NEW u \in Worker, task'[u].mac \in Mac
        PROVE  Relies(task[u])'
    <2>1. CASE u = t
      <3>1. s.mac = m /\ Relies(s)'
        BY <1>1, <1>4, <2>1, NoTaskTyped
      <3>2. QED
        BY <1>1, <2>1, <3>1 DEF Relies, Settled, Filtered, Classless, Watched
    <2>2. CASE u # t
      <3> DEFINE n == task[u].mac
      <3>1. task'[u] = task[u] /\ n \in Mac /\ n # m
        BY <1>1, <1>4, <2>2 DEF SerialInv, Alone
      <3>2. Relies(task[u])
        BY <3>1 DEF KnownInv
      <3>3. /\ Settled(n) => Settled(n)' /\ (Filtered(n) => Filtered(n)')
            /\ Classless(n) => Classless(n)'
        BY <1>3, <3>1
      <3>4. /\ reg'[n] = reg[n] /\ minorOf'[n] = minorOf[n] /\ (n \in fw' => n \in fw)
            /\ (n \in leaked => n \in leaked') /\ (n \in bare => n \in bare')
            /\ \A rt \in Router : <<rt, minorOf[n], n>> \in filters
                                      => <<rt, minorOf[n], n>> \in filters'
        BY <3>1
      <3>5. /\ task[u].pc \in {"tcAdd", "enter"} => task[u].rt \in Router
        BY DEF Typed, Formed, Over
      <3>6. QED
        BY <3>1, <3>2, <3>3, <3>4, <3>5 DEF Relies, Settled, Filtered, Classless, Watched
    <2>3. QED
      BY <2>1, <2>2
  <1>5. ASSUME NEW n \in Mac, Quiet(n)'
        PROVE  Settled(n)'
    <2>1. CASE n = m
      BY <1>1, <1>5, <2>1 DEF Quiet, Busy
    <2>2. CASE n # m
      <3>1. Quiet(n)
        BY <1>1, <1>2, <1>5, <2>2 DEF Quiet, Busy
      <3>2. QED
        BY <1>3, <2>2, <3>1 DEF KnownInv
    <2>3. QED
      BY <2>1, <2>2
  <1>6. QED
    BY <1>4, <1>5 DEF KnownInv
\* A call under way: its MAC, and what it relies on.
LEMMA CallUnderWay ==
    ASSUME KnownInv, NEW t \in Worker, TaskStep(t)
    PROVE  /\ Typed /\ SerialInv' /\ Formed(task[t]) /\ task[t] \in TaskState
           /\ task[t].mac \in Mac /\ task[t].mac # Null /\ task[t].pc \notin Over
           /\ Relies(task[t])
  <1>1. Typed /\ Formed(task[t]) /\ task[t] \in TaskState /\ SerialInv'
    BY TaskStepSerial DEF KnownInv, SerialInv, Typed, TypeOK
  <1>2. task[t].mac \in Mac /\ task[t].pc \notin Over
    BY <1>1 DEF TaskStep, NftDelete, NftDeleteFails, NftAdd, NftAddFails, UnshapeRead, TcDelete,
       TcDeleteFails, TcFree, Allocate, TcAdd, TcFails, Enter, Formed, Over
  <1>3. QED
    BY <1>1, <1>2, NoTaskTyped DEF KnownInv

\* After the delete: what revokeDevice could not close is marked.
LEMMA NftKnown ==
    ASSUME KnownInv, NEW t \in Worker, NftDelete(t) \/ NftDeleteFails(t) \/ NftAdd(t)
    PROVE  KnownInv'
  <1>1. /\ Typed /\ SerialInv' /\ Formed(task[t]) /\ task[t].mac \in Mac /\ task[t].mac # Null
        /\ Relies(task[t])
    BY CallUnderWay DEF TaskStep
  <1>2. PICK m \in Mac : m = task[t].mac
    BY <1>1
  <1>3. PICK p : Goto(t, p) /\ Moves(t, [task[t] EXCEPT !.pc = p])
    BY <1>1, NftMoves
  <1>4. PICK s : s = [task[t] EXCEPT !.pc = p]
    OBVIOUS
  <1>5. /\ s.pc = p /\ s.mac = m /\ s.op = task[t].op /\ s.rt = task[t].rt
        /\ s.had = task[t].had /\ s.minor = task[t].minor
    BY <1>1, <1>2, <1>4, GotoFields
  <1>6. UNCHANGED <<reg, minorOf, filters, boot, bare>>
    BY DEF NftDelete, NftDeleteFails, NftAdd, shaping, failures
  <1>7. CASE NftDelete(t) \/ NftDeleteFails(t)
    <2>1. /\ task[t].pc = "delete" /\ fw' \subseteq fw
          /\ s.pc = IF s.op = "admit" THEN "add" ELSE "unshape"
          /\ \A n \in Mac : n # m => (n \in leaked => n \in leaked')
      <3>1. p = IF task[t].op = "admit" THEN "add" ELSE "unshape"
        BY <1>1, <1>3, <1>7 DEF NftDelete, NftDeleteFails, Goto, Typed, TypeOK, TaskState
      <3>2. QED
        BY <1>2, <1>5, <1>7, <3>1 DEF NftDelete, NftDeleteFails, Leak
    <2>2. s.op = "revoke" => (m \in fw' => m \in leaked')
      BY <1>2, <1>5, <1>7 DEF NftDelete, NftDeleteFails, Leak
    <2>3. s.pc = "unshape" => s.op # "admit"
      BY <2>1
    <2>4. Relies(s)'
      BY <1>1, <1>2, <1>5, <1>6, <2>1, <2>2, <2>3 DEF Relies, Settled, Filtered, Classless
    <2>5. QED
      BY <1>1, <1>2, <1>3, <1>4, <1>5, <1>6, <2>1, <2>4, StepKnown
  <1>8. CASE NftAdd(t)
    <2>1. /\ task[t].pc = "add" /\ s.op = "admit" /\ fw' = fw \cup {m} /\ UNCHANGED leaked
          /\ s.pc = IF s.had # Null /\ s.had.rt # s.rt THEN "unshape" ELSE "allocate"
      <3>1. p = IF task[t].had # Null /\ task[t].had.rt # task[t].rt THEN "unshape" ELSE "allocate"
        BY <1>1, <1>3, <1>8 DEF NftAdd, Goto, Typed, TypeOK, TaskState
      <3>2. QED
        BY <1>1, <1>2, <1>5, <1>8, <3>1 DEF NftAdd, Formed, failures
    <2>2. Relies(s)'
      BY <1>1, <1>2, <1>5, <1>6, <2>1 DEF Relies, Filtered, Classless
    <2>3. QED
      BY <1>1, <1>2, <1>3, <1>4, <1>5, <1>6, <2>1, <2>2, StepKnown
  <1>9. QED
    BY <1>7, <1>8

\* admitDevice throws: the entry that was there stays.
LEMMA NftAddFailsKnown ==
    ASSUME KnownInv, NEW t \in Worker, NftAddFails(t)
    PROVE  KnownInv'
  <1>1. Typed /\ SerialInv' /\ task[t].mac \in Mac /\ Relies(task[t])
    BY CallUnderWay DEF TaskStep
  <1>2. PICK m \in Mac : m = task[t].mac
    BY <1>1
  <1>3. /\ task[t].pc = "add" /\ UNCHANGED <<reg, minorOf, filters, boot, bare>>
        /\ fw' \in {fw, fw \cup {m}} /\ leaked' = leaked \cup ({m} \cap fw')
    BY <1>2 DEF NftAddFails, Leak, shaping
  <1>4. PICK s : s = Finished(t)
    OBVIOUS
  <1>5. Moves(t, s) /\ s.mac = Null
    BY <1>1, <1>4, FinishMoves DEF NftAddFails
  <1>6. Settled(m)'
    BY <1>1, <1>2, <1>3 DEF Relies, Settled, Filtered, Classless, Watched
  <1>7. QED
    BY <1>1, <1>2, <1>3, <1>5, <1>6, NoTaskTyped, StepKnown

\* removeShapingForMac is over: no class any more, and for a revoke no entry.
LEMMA AfterUnshapeKnown ==
    ASSUME KnownInv, SerialInv', NEW t \in Worker, Unshaped(t), Relies(task[t]),
           task[t].pc \in {"unshape", "tcFree"}, task[t].mac \in Mac,
           NEW m \in Mac, m = task[t].mac, UNCHANGED <<fw, filters, boot, leaked>>,
           minorOf'[m] = 0 \/ (task[t].op = "revoke" /\ m \in bare'),
           \A n \in Mac : n # m => minorOf'[n] = minorOf[n] /\ (n \in bare => n \in bare')
    PROVE  KnownInv'
  <1> Typed
    BY DEF KnownInv, SerialInv
  <1>1. PICK s : s = AfterUnshape(t)
    OBVIOUS
  <1>2. /\ Moves(t, s)
        /\ reg' = IF task[t].op = "admit" THEN reg ELSE [reg EXCEPT ![m] = Null]
    BY <1>1, UnshapedMoves DEF Over
  <1>3. /\ task[t].op = "admit" => /\ s.pc = "allocate" /\ s.mac = m /\ s.op = "admit"
                                   /\ s.had = task[t].had
        /\ task[t].op # "admit" => s.mac = Null
    BY <1>1, AfterUnshapeFields
  <1>4. \A n \in Mac : n # m => reg'[n] = reg[n]
    BY <1>2 DEF Typed, TypeOK
  <1>5. CASE task[t].op = "admit"
    <2>1. Relies(s)'
      BY <1>2, <1>3, <1>5 DEF Relies
    <2>2. QED
      BY <1>2, <1>3, <1>4, <1>5, <2>1, NoTaskTyped, StepKnown
  <1>6. CASE task[t].op # "admit"
    <2>1. task[t].op = "revoke" /\ reg'[m] = Null
      BY <1>2, <1>6 DEF Typed, TypeOK, TaskState
    <2>2. Settled(m)'
      BY <2>1 DEF Relies, Settled, Filtered, Classless, Watched
    <2>3. QED
      BY <1>2, <1>3, <1>4, <1>6, <2>2, NoTaskTyped, StepKnown
  <1>7. QED
    BY <1>5, <1>6

LEMMA UnshapeReadKnown ==
    ASSUME KnownInv, NEW t \in Worker, UnshapeRead(t)
    PROVE  KnownInv'
  <1>1. /\ Typed /\ SerialInv' /\ task[t].mac \in Mac /\ task[t].mac # Null /\ Relies(task[t])
        /\ task[t] \in TaskState
    BY CallUnderWay DEF TaskStep
  <1>2. PICK m \in Mac : m = task[t].mac
    BY <1>1
  <1>3. task[t].pc = "unshape" /\ UNCHANGED <<fw, minorOf, filters, boot, leaked, bare>>
    BY DEF UnshapeRead, shaping, failures
  <1>4. CASE /\ Moves(t, [task[t] EXCEPT !.pc = "tcDelete", !.minor = minorOf[m]])
             /\ UNCHANGED reg
    <2>1. PICK s : s = [task[t] EXCEPT !.pc = "tcDelete", !.minor = minorOf[m]]
      OBVIOUS
    <2>2. s.pc = "tcDelete" /\ s.mac = m /\ s.op = task[t].op /\ s.had = task[t].had
      BY <1>1, <1>2, <2>1 DEF TaskState
    <2>3. Relies(s)'
      BY <1>1, <1>2, <1>3, <1>4, <2>2 DEF Relies
    <2>4. QED
      BY <1>1, <1>2, <1>3, <1>4, <2>1, <2>2, <2>3, StepKnown
  <1>5. CASE (task[t].had = Null \/ minorOf[m] = 0) /\ Unshaped(t)
    <2>1. minorOf[m] = 0 \/ (task[t].op = "revoke" /\ m \in bare)
      BY <1>1, <1>2, <1>3, <1>5 DEF Relies, Classless, TaskState
    <2>2. QED
      BY <1>1, <1>2, <1>3, <1>5, <2>1, AfterUnshapeKnown
  <1>6. QED
    BY <1>1, <1>2, <1>4, <1>5, UnshapeReadMoves

\* The filter of another MAC has another class ID.
LEMMA TcDeleteKnown ==
    ASSUME KnownInv, NEW t \in Worker, TcDelete(t) \/ TcDeleteFails(t)
    PROVE  KnownInv'
  <1>1. /\ Typed /\ SerialInv' /\ task[t].mac \in Mac /\ task[t].mac # Null /\ Relies(task[t])
        /\ Formed(task[t])
    BY CallUnderWay DEF TaskStep
  <1>2. PICK m \in Mac : m = task[t].mac
    BY <1>1
  <1>3. /\ task[t].pc = "tcDelete" /\ UNCHANGED <<fw, reg, minorOf, boot, leaked, bare>>
        /\ \/ filters' = {f \in filters : f[1] # task[t].had.rt \/ f[2] # task[t].minor}
           \/ UNCHANGED filters
    BY DEF TcDelete, TcDeleteFails, shaping, failures, marks
  <1>4. PICK s : s = [task[t] EXCEPT !.pc = "tcFree"]
    OBVIOUS
  <1>5. Moves(t, s)
    BY <1>1, <1>3, <1>4, GotoMoves DEF TcDelete, TcDeleteFails, Formed, Over
  <1>6. s.pc = "tcFree" /\ s.mac = m /\ s.op = task[t].op /\ s.had = task[t].had
    BY <1>1, <1>2, <1>4, GotoFields
  <1>7. task[t].minor = minorOf[m] /\ minorOf[m] # 0
    BY <1>1, <1>2, <1>3 DEF KnownInv, SerialInv, Returns, Formed
  <1>8. \A n \in Mac : n # m => \A rt : <<rt, minorOf[n], n>> \in filters
                                            => <<rt, minorOf[n], n>> \in filters'
    BY <1>3, <1>7 DEF KnownInv, SerialInv, Classes, OwnClass
  <1>9. Relies(s)'
    BY <1>1, <1>2, <1>3, <1>6 DEF Relies
  <1>10. QED
    BY <1>1, <1>2, <1>3, <1>5, <1>6, <1>8, <1>9, StepKnown

LEMMA TcFreeKnown ==
    ASSUME KnownInv, NEW t \in Worker, TcFree(t)
    PROVE  KnownInv'
  <1>1. /\ Typed /\ SerialInv' /\ task[t].mac \in Mac /\ Relies(task[t])
    BY CallUnderWay DEF TaskStep
  <1>2. PICK m \in Mac : m = task[t].mac
    BY <1>1
  <1>3. /\ task[t].pc = "tcFree" /\ UNCHANGED <<fw, filters, boot, leaked>> /\ Unshaped(t)
        /\ minorOf' = [minorOf EXCEPT ![m] = 0] /\ bare' = bare \ {m}
    BY <1>2 DEF TcFree
  <1>4. \A n \in Mac : minorOf'[n] = IF n = m THEN 0 ELSE minorOf[n]
    BY <1>1, <1>3 DEF Typed, TypeOK
  <1>5. QED
    BY <1>1, <1>2, <1>3, <1>4, AfterUnshapeKnown
LEMMA AllocateKnown ==
    ASSUME KnownInv, NEW t \in Worker, Allocate(t)
    PROVE  KnownInv'
  <1>1. /\ Typed /\ SerialInv' /\ task[t].mac # Null /\ Relies(task[t]) /\ task[t] \in TaskState
    BY CallUnderWay DEF TaskStep
  <1>2. PICK m \in Mac : m = task[t].mac
    BY <1>1, AllocateMoves
  <1>3. task[t].pc = "allocate" /\ UNCHANGED <<fw, reg, filters, boot>>
    BY <1>1, AllocateMoves
  <1>4. ASSUME NEW i, NEW had, NEW s, Moves(t, s), minorOf'[m] = i,
               s = [task[t] EXCEPT !.pc = "tcAdd", !.minor = i, !.kept = had],
               \A n \in Mac : n # m => minorOf'[n] = minorOf[n],
               had = TRUE => UNCHANGED minorOf /\ minorOf[m] # 0,
               had \in BOOLEAN, UNCHANGED <<leaked, bare>>
        PROVE  KnownInv'
    <2>1. /\ s.pc = "tcAdd" /\ s.mac = m /\ s.minor = i /\ s.kept = had /\ s.had = task[t].had
          /\ s.rt = task[t].rt
      BY <1>1, <1>2, <1>4 DEF TaskState
    <2>2. Relies(s)'
      BY <1>1, <1>2, <1>3, <1>4, <2>1 DEF Relies, Filtered
    <2>3. Moves(t, s) /\ \A n \in Mac : n # m =>
               /\ reg'[n] = reg[n] /\ minorOf'[n] = minorOf[n] /\ (n \in fw' => n \in fw)
               /\ (n \in leaked => n \in leaked') /\ (n \in bare => n \in bare')
               /\ \A rt \in Router : <<rt, minorOf[n], n>> \in filters
                                         => <<rt, minorOf[n], n>> \in filters'
      BY <1>3, <1>4
    <2>4. s.mac = m /\ m # Null /\ UNCHANGED boot
      BY <1>1, <1>2, <1>3, <2>1
    <2>5. QED
      BY <1>1, <1>2, <2>2, <2>3, <2>4, StepKnown
  <1>5. \/ /\ minorOf[m] # 0 /\ UNCHANGED <<minorOf, leaked, bare>>
           /\ Moves(t, [task[t] EXCEPT !.pc = "tcAdd", !.minor = minorOf[m], !.kept = TRUE])
        \/ \E i \in Minor :
              /\ minorOf' = [minorOf EXCEPT ![m] = i] /\ UNCHANGED <<leaked, bare>>
              /\ Moves(t, [task[t] EXCEPT !.pc = "tcAdd", !.minor = i, !.kept = FALSE])
        \/ minorOf[m] = 0 /\ Moves(t, Finished(t)) /\ Throw(t, FALSE) /\ UNCHANGED minorOf
    BY <1>1, <1>2, AllocateMoves DEF marks
  <1>6. CASE /\ minorOf[m] # 0 /\ UNCHANGED <<minorOf, leaked, bare>>
             /\ Moves(t, [task[t] EXCEPT !.pc = "tcAdd", !.minor = minorOf[m], !.kept = TRUE])
    BY <1>4, <1>6
  <1>7. ASSUME NEW i \in Minor, minorOf' = [minorOf EXCEPT ![m] = i], UNCHANGED <<leaked, bare>>,
               Moves(t, [task[t] EXCEPT !.pc = "tcAdd", !.minor = i, !.kept = FALSE])
        PROVE  KnownInv'
    <2>1. \A n \in Mac : minorOf'[n] = IF n = m THEN i ELSE minorOf[n]
      BY <1>1, <1>7 DEF Typed, TypeOK
    <2>2. QED
      BY <1>4, <1>7, <2>1
  <1>8. ASSUME minorOf[m] = 0, Moves(t, Finished(t)), Throw(t, FALSE), UNCHANGED minorOf
        PROVE  KnownInv'
    <2>1. PICK s : s = Finished(t)
      OBVIOUS
    <2>2. Moves(t, s) /\ s.mac = Null
      BY <1>1, <1>8, <2>1, FinishMoves DEF Throw
    <2>3. Settled(m)' /\ leaked \subseteq leaked' /\ bare \subseteq bare'
      BY <1>2, <1>3, <1>8 DEF Throw, Leak, Settled, Filtered, Classless, Watched
    <2>4. QED
      BY <1>1, <1>2, <1>3, <1>8, <2>2, <2>3, StepKnown
  <1>9. QED
    BY <1>5, <1>6, <1>7, <1>8

\* A new filter replaces one of the same class ID, which nobody else has.
LEMMA TcAddKnown ==
    ASSUME KnownInv, NEW t \in Worker, TcAdd(t)
    PROVE  KnownInv'
  <1>1. /\ Typed /\ SerialInv' /\ task[t].mac \in Mac /\ task[t].mac # Null /\ Relies(task[t])
        /\ Formed(task[t]) /\ task[t] \in TaskState
    BY CallUnderWay DEF TaskStep
  <1>2. PICK m \in Mac : m = task[t].mac
    BY <1>1
  <1>3. /\ task[t].pc = "tcAdd" /\ UNCHANGED <<fw, reg, minorOf, boot, leaked>>
        /\ filters' = IF task[t].kept THEN filters
                      ELSE {f \in filters : f[1] # task[t].rt \/ f[2] # task[t].minor}
                           \cup {<<task[t].rt, task[t].minor, m>>}
        /\ bare' = IF task[t].kept THEN bare ELSE bare \ {m}
    BY <1>2 DEF TcAdd, Steered
  <1>4. PICK s : s = [task[t] EXCEPT !.pc = "enter"]
    OBVIOUS
  <1>5. Moves(t, s)
    BY <1>1, <1>3, <1>4, GotoMoves DEF TcAdd, Formed, Over
  <1>6. /\ s.pc = "enter" /\ s.mac = m /\ s.had = task[t].had /\ s.rt = task[t].rt
        /\ s.minor = task[t].minor
    BY <1>1, <1>2, <1>4, GotoFields
  <1>7. task[t].minor = minorOf[m] /\ task[t].minor # 0
    BY <1>1, <1>2, <1>3 DEF Relies, Formed
  <1>8. \A n \in Mac : n # m => \A rt : <<rt, minorOf[n], n>> \in filters
                                            => <<rt, minorOf[n], n>> \in filters'
    BY <1>3, <1>7 DEF KnownInv, SerialInv, Classes, OwnClass
  <1>9. <<s.rt, s.minor, m>> \in filters' \/ m \in bare'
    BY <1>1, <1>2, <1>3, <1>6 DEF Relies
  <1>10. Relies(s)'
    BY <1>1, <1>2, <1>3, <1>6, <1>7, <1>9 DEF Relies
  <1>11. QED
    BY <1>1, <1>2, <1>3, <1>5, <1>6, <1>8, <1>10, StepKnown

\* admitDevice throws after the nft add.
LEMMA TcFailsKnown ==
    ASSUME KnownInv, NEW t \in Worker, TcFails(t)
    PROVE  KnownInv'
  <1>1. /\ Typed /\ SerialInv' /\ task[t].mac \in Mac /\ task[t].mac # Null /\ Relies(task[t])
        /\ Formed(task[t]) /\ task[t] \in TaskState
    BY CallUnderWay DEF TaskStep
  <1>2. PICK m \in Mac : m = task[t].mac
    BY <1>1
  <1>3. /\ task[t].pc = "tcAdd" /\ UNCHANGED <<fw, reg, minorOf, boot>>
        /\ \/ UNCHANGED filters
           \/ /\ ~task[t].kept
              /\ filters' = {f \in filters : f[1] # task[t].rt \/ f[2] # task[t].minor}
                               \cup {<<task[t].rt, task[t].minor, m>>}
        /\ leaked' = leaked \cup ({m} \cap fw)
        /\ bare' = IF task[t].kept THEN bare ELSE bare \cup {m}
    BY <1>2 DEF TcFails, Throw, Leak, Steered
  <1>4. PICK s : s = Finished(t)
    OBVIOUS
  <1>5. Moves(t, s) /\ s.mac = Null
    BY <1>1, <1>4, FinishMoves DEF TcFails, Throw
  <1>6. task[t].minor = minorOf[m] /\ task[t].minor # 0
    BY <1>1, <1>2, <1>3 DEF Relies, Formed
  <1>7. \A n \in Mac : n # m => \A rt : <<rt, minorOf[n], n>> \in filters
                                            => <<rt, minorOf[n], n>> \in filters'
    BY <1>3, <1>6 DEF KnownInv, SerialInv, Classes, OwnClass
  <1>8. Settled(m)'
    <2>1. CASE task[t].kept
      BY <1>1, <1>2, <1>3, <1>6, <2>1 DEF Relies, Settled, Filtered, Classless, Watched
    <2>2. CASE ~task[t].kept
      BY <1>3, <2>2 DEF Settled, Filtered, Classless, Watched
    <2>3. QED
      BY <2>1, <2>2
  <1>9. QED
    BY <1>1, <1>2, <1>3, <1>5, <1>7, <1>8, StepKnown

LEMMA EnterKnown ==
    ASSUME KnownInv, NEW t \in Worker, Enter(t)
    PROVE  KnownInv'
  <1>1. /\ Typed /\ SerialInv' /\ task[t].mac \in Mac /\ task[t].mac # Null /\ Relies(task[t])
        /\ Formed(task[t]) /\ task[t] \in TaskState
    BY CallUnderWay DEF TaskStep
  <1>2. PICK m \in Mac : m = task[t].mac
    BY <1>1
  <1>3. PICK at \in {"old", "new"} : reg' = [reg EXCEPT ![m] = [rt |-> task[t].rt, at |-> at]]
    BY <1>1, <1>2 DEF Enter, TaskState, Entry
  <1>4. /\ task[t].pc = "enter" /\ UNCHANGED <<fw, minorOf, filters, boot, bare>>
        /\ leaked' = leaked \ {m}
    BY <1>2 DEF Enter, shaping
  <1>5. PICK s : s = Finished(t)
    OBVIOUS
  <1>6. Moves(t, s) /\ s.mac = Null
    BY <1>1, <1>5, FinishMoves DEF Enter
  <1>7. reg'[m].rt = task[t].rt /\ \A n \in Mac : n # m => reg'[n] = reg[n]
    BY <1>1, <1>3 DEF Typed, TypeOK
  <1>8. reg'[m] # Null
    <2>1. reg'[m] = [rt |-> task[t].rt, at |-> at]
      BY <1>1, <1>3 DEF Typed, TypeOK
    <2>2. task[t].rt \in Router
      BY <1>1, <1>4 DEF Formed, Over
    <2>3. QED
      BY <2>1, <2>2, AdmissionAssumption
  <1>9. Settled(m)'
    BY <1>1, <1>2, <1>4, <1>7, <1>8 DEF Relies, Settled, Filtered, Classless, Watched
  <1>10. QED
    BY <1>1, <1>2, <1>4, <1>6, <1>7, <1>9, StepKnown

LEMMA TaskStepKnown ==
    ASSUME KnownInv, NEW t \in Worker, TaskStep(t)
    PROVE  KnownInv'
  BY NftKnown, NftAddFailsKnown, UnshapeReadKnown, TcDeleteKnown, TcFreeKnown, AllocateKnown,
     TcAddKnown, TcFailsKnown, EnterKnown DEF TaskStep

\* A step that at most closes the firewall to some.
LEMMA RestKnown ==
    ASSUME KnownInv, SerialInv', UNCHANGED <<reg, minorOf, filters, task, boot, marks>>,
           fw' \subseteq fw
    PROVE  KnownInv'
  <1>1. \A m \in Mac : Quiet(m)' => Settled(m)'
    BY DEF KnownInv, Quiet, Busy, Settled, Filtered, Classless, Watched, marks
  <1>2. ASSUME NEW u \in Worker, task'[u].mac \in Mac
        PROVE  Relies(task[u])'
    <2>1. Relies(task[u])
      BY <1>2 DEF KnownInv
    <2>2. QED
      BY <2>1 DEF Relies, Settled, Filtered, Classless, Watched, marks
  <1>3. QED
    BY <1>1, <1>2 DEF KnownInv

\* A call begins on a settled MAC.
LEMMA StartKnown ==
    ASSUME KnownInv, SerialInv', Overlap = {}, NEW t \in Worker, NEW m \in Mac,
           RevokeStart(t, m) \/ \E rt \in Router : AdmitStart(t, m, rt),
           boot = "up", UNCHANGED <<fw, reg, shaping, boot, failures>>
    PROVE  KnownInv'
  <1> Typed /\ UNCHANGED <<minorOf, filters, leaked, bare>>
    BY DEF KnownInv, SerialInv, shaping, failures
  <1>1. ~Busy(m) /\ task[t].mac = Null
    BY StartMoves DEF MayStart, Typed, Formed, Over
  <1>2. PICK s : Moves(t, s) /\ s.pc = "delete" /\ s.mac = m /\ s.had = reg[m]
    BY StartMoves
  <1>3. task'[t] = s /\ \A u \in Worker : u # t => task'[u] = task[u]
    BY <1>2, MovesTyped
  <1>4. Settled(m)
    BY <1>1 DEF KnownInv, Quiet
  <1>5. \A n \in Mac : Quiet(n)' => Settled(n)'
    <2> SUFFICES ASSUME NEW n \in Mac, Quiet(n)' PROVE Settled(n)'
      OBVIOUS
    <2>1. Quiet(n)
      BY <1>1, <1>3, NoTaskTyped DEF Quiet, Busy
    <2>2. Settled(n)
      BY <2>1 DEF KnownInv
    <2>3. QED
      BY <2>2 DEF Settled, Filtered, Classless, Watched
  <1>6. ASSUME NEW u \in Worker, task'[u].mac \in Mac
        PROVE  Relies(task[u])'
    <2>1. CASE u = t
      BY <1>2, <1>3, <1>4, <2>1 DEF Relies, Settled, Filtered, Classless, Watched
    <2>2. CASE u # t
      <3>1. task'[u] = task[u] /\ Relies(task[u])
        BY <1>3, <1>6, <2>2 DEF KnownInv
      <3>2. QED
        BY <3>1 DEF Relies, Settled, Filtered, Classless, Watched
    <2>3. QED
      BY <2>1, <2>2
  <1>7. QED
    BY <1>5, <1>6 DEF KnownInv

LEMMA CallKnown ==
    ASSUME KnownInv, Overlap = {}, \/ \E c \in Call : HttpCall(c)
                                   \/ \E m \in Mac : \/ Sweep(m) \/ SyncRevoke(m)
                                                     \/ \E rt \in Router : SyncAdmit(m, rt)
    PROVE  KnownInv'
  <1>1. boot = "up" /\ UNCHANGED <<fw, reg, shaping, boot, failures>> /\ SerialInv'
    BY CallsServed, CallSerial DEF KnownInv
  <1>2. CASE \E t \in Worker, m \in Mac :
                 RevokeStart(t, m) \/ \E rt \in Router : AdmitStart(t, m, rt)
    BY <1>1, <1>2, StartKnown
  <1>3. CASE UNCHANGED task
    BY <1>1, <1>3, RestKnown DEF shaping, failures, marks
  <1>4. Call \subseteq Worker /\ "sync" \in Worker /\ "sweep" \in Worker
    BY DEF Worker
  <1>5. QED
    BY <1>2, <1>3, <1>4 DEF HttpCall, HttpAdmit, HttpRevoke, Sweep, SyncRevoke, SyncAdmit

\* A pass ages every entry, and what calls have read of it.
LEMMA SyncStartKnown ==
    ASSUME KnownInv, SyncStart
    PROVE  KnownInv'
  <1> Typed /\ TypeOK
    BY DEF KnownInv, SerialInv, Typed
  <1>1. SerialInv'
    BY SyncSerial DEF KnownInv
  <1>2. UNCHANGED <<fw, minorOf, filters, boot, leaked, bare>>
    BY DEF SyncStart, shaping, failures
  <1>3. \A m \in Mac : /\ reg'[m] = Older(reg[m]) /\ (reg'[m] = Null <=> reg[m] = Null)
                       /\ reg[m] # Null => reg'[m].rt = reg[m].rt
    BY OlderTyped DEF SyncStart, TypeOK
  <1>4. \A u \in Worker : /\ task'[u].had = Older(task[u].had)
                          /\ task'[u].pc = task[u].pc /\ task'[u].mac = task[u].mac
                          /\ task'[u].op = task[u].op /\ task'[u].rt = task[u].rt
                          /\ task'[u].minor = task[u].minor /\ task'[u].kept = task[u].kept
    BY AgedTyped DEF SyncStart
  <1>5. \A m \in Mac : /\ Settled(m) => Settled(m)' /\ (Filtered(m) => Filtered(m)')
                       /\ Classless(m) => Classless(m)'
    BY <1>2, <1>3 DEF Settled, Filtered, Classless, Watched
  <1>6. \A m \in Mac : Quiet(m)' => Settled(m)'
    BY <1>2, <1>4, <1>5 DEF KnownInv, Quiet, Busy
  <1>7. ASSUME NEW u \in Worker, task'[u].mac \in Mac
        PROVE  Relies(task[u])'
    <2>1. PICK m \in Mac : m = task[u].mac
      BY <1>4, <1>7
    <2>2. Relies(task[u])
      BY <1>4, <1>7 DEF KnownInv
    <2>3. /\ task[u].had = reg[m] /\ task'[u].had = reg'[m] /\ task'[u].mac = m
          /\ reg'[m] = Null <=> reg[m] = Null
          /\ reg[m] # Null => reg'[m].rt = reg[m].rt
      BY <1>3, <1>4, <2>1, <2>2 DEF Relies
    <2>4. /\ Settled(m) => Settled(m)' /\ (Filtered(m) => Filtered(m)')
          /\ Classless(m) => Classless(m)'
      BY <1>5
    <2>5. PICK s, z : s = task[u] /\ z = task'[u]
      OBVIOUS
    <2>6. /\ z.pc = s.pc /\ z.mac = m /\ s.mac = m /\ z.op = s.op /\ z.rt = s.rt
          /\ z.minor = s.minor /\ z.kept = s.kept
          /\ s.had = reg[m] /\ z.had = reg'[m] /\ Relies(s)
      BY <1>4, <2>1, <2>2, <2>3, <2>5
    <2>7. Relies(z)'
      BY <1>2, <2>3, <2>4, <2>6 DEF Relies, Settled, Filtered, Classless, Watched
    <2>8. QED
      BY <2>5, <2>7 DEF Relies, Settled, Filtered, Classless, Watched
  <1>8. QED
    BY <1>1, <1>6, <1>7 DEF KnownInv

\* The bootstrap ends with an empty firewall and an empty registry.
LEMMA BootKnown ==
    ASSUME KnownInv, BootStep \/ Crash
    PROVE  KnownInv'
  <1>1. SerialInv'
    BY BootSerial, CrashSerial DEF KnownInv
  <1>2. \A u \in Worker : task'[u].mac = Null
    <2>1. CASE BootStep
      BY <2>1 DEF BootStep, BootRules, BootShaping, BootClear, BootFails, KnownInv, SerialInv, Booting
    <2>2. CASE Crash
      BY <2>2, CrashFields
    <2>3. QED
      BY <2>1, <2>2
  <1>3. ASSUME NEW m \in Mac, Quiet(m)'
        PROVE  Settled(m)'
    <2>1. BootClear
      BY <1>3, CrashFields DEF BootStep, BootRules, BootShaping, BootFails, Quiet
    <2>2. fw' = {} /\ minorOf'[m] = 0 /\ reg'[m] = Null
      BY <2>1 DEF BootClear, shaping, KnownInv, SerialInv, Booting
    <2>3. QED
      BY <2>2 DEF Settled, Filtered, Classless, Watched
  <1>4. QED
    BY <1>1, <1>2, <1>3, NoTaskTyped DEF KnownInv

LEMMA InitKnown == Init => KnownInv
  <1> SUFFICES ASSUME Init PROVE KnownInv
    OBVIOUS
  <1>1. NoTask.mac = Null
    BY DEF NoTask
  <1>2. QED
    BY <1>1, InitSerial, NoTaskTyped DEF Init, KnownInv, Quiet

LEMMA NextKnown ==
    ASSUME Overlap = {}, KnownInv, [Next]_vars
    PROVE  KnownInv'
  <1>1. CASE \E t \in Worker : TaskStep(t)
    BY <1>1, TaskStepKnown
  <1>2. CASE (\E c \in Call : HttpCall(c)) \/ (\E m \in Mac : Sweep(m))
    BY <1>2, CallKnown
  <1>3. CASE \E m \in Mac : EntitlementStarts(m) \/ EntitlementEnds(m) \/ Lapse(m) \/ TimesOut(m)
    <2>1. SerialInv'
      BY <1>3, NextSerial DEF Next, KnownInv
    <2>2. UNCHANGED <<reg, shaping, task, boot, failures>> /\ fw' \subseteq fw
      BY <1>3 DEF EntitlementStarts, EntitlementEnds, Lapse, TimesOut
    <2>3. QED
      BY <2>1, <2>2, RestKnown DEF shaping, failures, marks
  <1>4. CASE SyncStep
    <2>1. CASE SyncFetch \/ SyncFails \/ SyncList \/ SyncEnd
      <3>1. SerialInv'
        BY <2>1, SyncSerial DEF KnownInv
      <3>2. UNCHANGED <<fw, reg, shaping, task, boot, marks>>
        BY <2>1 DEF SyncFetch, SyncFails, SyncList, SyncEnd, failures, marks
      <3>3. QED
        BY <3>1, <3>2, RestKnown DEF shaping
    <2>2. QED
      BY <1>4, <2>1, SyncStartKnown, CallKnown DEF SyncStep
  <1>5. CASE BootStep \/ Crash
    BY <1>5, BootKnown
  <1>6. CASE UNCHANGED vars
    <2>1. SerialInv'
      BY <1>6, NextSerial DEF KnownInv
    <2>2. QED
      BY <1>6, <2>1, RestKnown DEF vars, shaping, failures, marks
  <1>7. QED
    BY <1>1, <1>2, <1>3, <1>4, <1>5, <1>6 DEF Next

\* Once nothing works on a MAC, what the firewall lets through is in the
\* registry and what is in the registry has its filter, but for the MACs whose
\* own last admit or revoke had a command fail or, for the filter, whose class ID
\* is still the one a failed admit left, whatever else fails and crashes: for
\* operations that do not overlap on one MAC.
THEOREM FirewallIsKnown ==
    ASSUME Overlap = {}
    PROVE  Spec => []FirewallKnown
  <1>1. KnownInv /\ [Next]_vars => KnownInv'
    BY NextKnown
  <1>2. KnownInv => FirewallKnown
    BY DEF KnownInv, FirewallKnown, Settled, Filtered, Watched
  <1>3. QED
    BY <1>1, <1>2, InitKnown, PTL DEF Spec
=============================================================================
