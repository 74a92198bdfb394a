--------------------------- MODULE VouchersProofs ---------------------------
(* Theorems of Vouchers, for any vouchers, devices, requests at once and    *)
(* crashes.  None of the properties is inductive: they hold because of what *)
(* the snapshot of a handler still guarantees when the handler acts on it.  *)
(* The last three, of handlers that do not overlap, add to VInv what such a *)
(* handler knows: it is the only one, and between its awaits the admin, the *)
(* cron, the agent and time only take devices and sessions away.            *)
EXTENDS Vouchers, FiniteSetTheorems, TLAPS

-----------------------------------------------------------------------------
(* The inductive invariant                                                 *)

Releasing == {"relDevice", "relClose", "relRevoke"}
Looking   == {"paid", "changed", "hand", "mint"}
LoggingIn == {"find", "open", "touch", "close", "create", "admit"}
Used(v)   == status[v] \notin {"NONE", "UNUSED"}

\* Whom a handler is about.
About(r) ==
    /\ rq[r].pc \notin {"idle", "done"} => rq[r].mac \in Mac
    /\ rq[r].pc \notin {"idle", "done"} \cup Looking => rq[r].v \in Voucher
    /\ rq[r].pc \in Releasing => rq[r].old[1] \in Voucher /\ rq[r].old[2] \in Mac
    /\ rq[r].pc = "probe" => rq[r].back = "slot"

\* Rows stay, so one that was found or made is there until the handler ends.
HasRow(r) ==
    rq[r].pc \in LoggingIn \cup {"activate", "expire"} => rq[r].mac \in rows[rq[r].v]

\* A handler that opens a session or admits has activated the voucher, or read
\* that it was used.
Activates(r) ==
    LET v == rq[r].v IN
    /\ rq[r].pc \in LoggingIn => Used(v)
    /\ rq[r].pc \in {"read", "probe", "slot"} \cup Releasing => status[v] # "NONE"
    /\ (rq[r].pc \in {"probe", "slot"} \/ (rq[r].pc \in Releasing /\ rq[r].back = "slot"))
          => (rq[r].first \/ Used(v))
    /\ rq[r].pc = "hand" => \A p \in rq[r].cand : status[p[1]] # "NONE"

\* While a handler that saw the voucher unused is about, the deadline has not
\* passed; once it has passed, it stays so.
InTime(r) ==
    LET v == rq[r].v IN
    /\ rq[r].first => v \in Voucher /\ deadline[v] # "past"
    /\ rq[r].late => v \in Voucher /\ deadline[v] = "past"
    /\ rq[r].pc = "activate" => rq[r].first
    /\ rq[r].pc = "expire" => rq[r].late
    /\ (rq[r].pc \in Looking \cup {"read"} \/ (rq[r].pc \in Releasing /\ rq[r].back = "read"))
          => (~rq[r].first /\ ~rq[r].late)

HandlerInv(r) == About(r) /\ HasRow(r) /\ Activates(r) /\ InTime(r)

RowsInv ==
    /\ \A v \in Voucher :
        /\ ~Used(v) => deadline[v] = "none"
        /\ status[v] = "EXPIRED" => deadline[v] = "past"
    /\ \A v \in Voucher, m \in Mac : <<v, m>> \in sync.list => m \in rows[v]
    /\ OnlineIsRecorded /\ UnusedCarriesNobody

JobInv ==
    \A j \in Job :
        /\ job[j].pc \notin {"idle", "status"} => job[j].v \in Voucher
        /\ job[j].to = "EXPIRED" => \A v \in job[j].todo : deadline[v] = "past"

VInv == TypeOK /\ (\A r \in Request : HandlerInv(r)) /\ RowsInv /\ JobInv

LEMMA VouchersInit == Init => VInv
  BY VouchersAssumption
  DEF Init, VInv, TypeOK, HandlerInv, About, HasRow, Activates, InTime, RowsInv, JobInv,
      OnlineIsRecorded, UnusedCarriesNobody, Used, NoRequest, NoJob, NoSync, RequestState,
      JobState, RequestPc, LoggingIn, Releasing, Looking, Pair, Job, Dead

-----------------------------------------------------------------------------
(* What every step but the passing of a deadline has in common             *)

Onward ==
    \A v \in Voucher :
        /\ Used(v) => Used(v)'
        /\ status[v] # "NONE" => status'[v] # "NONE"
        /\ rows[v] \subseteq rows'[v]
        /\ deadline'[v] = "past" <=> deadline[v] = "past"

\* Handler r goes on to await p, or it is over.
OthersWait(r) ==
    rq' \in [Request -> RequestState] /\ \A q \in Request : q # r => rq'[q] = rq[q]
Keeps(r, p) ==
    /\ OthersWait(r)
    /\ rq'[r].pc = p /\ rq'[r].mac = rq[r].mac /\ rq'[r].v = rq[r].v /\ rq'[r].cand = rq[r].cand
    /\ rq'[r].old = rq[r].old /\ rq'[r].back = rq[r].back /\ rq'[r].row = rq[r].row
    /\ rq'[r].first = rq[r].first /\ rq'[r].late = rq[r].late
Ends(r) == OthersWait(r) /\ rq'[r].pc = "done" /\ ~rq'[r].first /\ ~rq'[r].late

LEMMA GotoKeeps ==
    ASSUME TypeOK, NEW r \in Request, NEW p \in RequestPc, Goto(r, p)
    PROVE  Keeps(r, p)
  <1>1. rq \in [Request -> RequestState]
    BY DEF TypeOK
  <1>2. [rq[r] EXCEPT !.pc = p] \in RequestState
    BY <1>1 DEF RequestState
  <1>3. rq' \in [Request -> RequestState] /\ rq'[r] = [rq[r] EXCEPT !.pc = p]
    BY <1>1, <1>2 DEF Goto
  <1>4. \A q \in Request : q # r => rq'[q] = rq[q]
    BY <1>1 DEF Goto
  <1>5. rq[r] \in RequestState
    BY <1>1
  <1>6. QED
    BY <1>3, <1>4, <1>5 DEF Keeps, OthersWait, RequestState

LEMMA ReturnEnds ==
    ASSUME TypeOK, NEW r \in Request, Return(r)
    PROVE  Ends(r)
  <1>1. rq \in [Request -> RequestState]
    BY DEF TypeOK
  <1>2. [NoRequest EXCEPT !.pc = "done"] \in RequestState
    BY DEF RequestState, NoRequest, RequestPc, Pair
  <1>3. rq' \in [Request -> RequestState] /\ rq'[r] = [NoRequest EXCEPT !.pc = "done"]
    BY <1>1, <1>2 DEF Return
  <1>4. \A q \in Request : q # r => rq'[q] = rq[q]
    BY <1>1 DEF Return
  <1>5. QED
    BY <1>3, <1>4 DEF Ends, OthersWait, NoRequest

LEMMA EndedHolds ==
    ASSUME NEW r \in Request, Ends(r)
    PROVE  HandlerInv(r)'
  BY DEF Ends, HandlerInv, About, HasRow, Activates, InTime, LoggingIn, Releasing, Looking

\* A handler that waits is not disturbed.
LEMMA WaitingHolds ==
    ASSUME VInv, Onward, NEW q \in Request, rq'[q] = rq[q]
    PROVE  HandlerInv(q)'
  <1>1. HandlerInv(q) /\ rq[q].cand \subseteq Pair
    BY DEF VInv, TypeOK, RequestState
  <1>2. About(q)'
    BY <1>1 DEF HandlerInv, About
  <1>3. HasRow(q)'
    BY <1>1 DEF HandlerInv, About, HasRow, Onward, LoggingIn, Looking
  <1>4. Activates(q)'
    BY <1>1 DEF HandlerInv, About, Activates, Onward, Used, LoggingIn, Releasing, Looking, Pair
  <1>5. InTime(q)'
    BY <1>1 DEF HandlerInv, InTime, Onward
  <1>6. QED
    BY <1>2, <1>3, <1>4, <1>5 DEF HandlerInv

LEMMA JobsHold ==
    ASSUME VInv, Onward, UNCHANGED job
    PROVE  JobInv'
  BY DEF VInv, JobInv, Onward, TypeOK, JobState

\* A step of one handler: its own state and the rows are left to show.
LEMMA HandlerKeeps ==
    ASSUME VInv, NEW r \in Request, OthersWait(r), HandlerInv(r)',
           UNCHANGED job, Onward, TypeOK', RowsInv'
    PROVE  VInv'
  BY WaitingHolds, JobsHold DEF VInv, OthersWait

\* Revoking lets nobody through.
LEMMA RevokeCuts ==
    ASSUME TypeOK, NEW m \in Mac, Revoke(m)
    PROVE  /\ online' \in [Mac -> Voucher \cup {Null}] /\ sync' = sync
           /\ \A k \in Mac : online'[k] \in {online[k], Null}
  BY DEF TypeOK, Revoke

\* Nor does a list, or a voucher that was used, come into being by itself.
LEMMA RowsHold ==
    ASSUME VInv, Onward, UNCHANGED <<status, sync>>,
           online' \in [Mac -> Voucher \cup {Null}], \A k \in Mac : online'[k] \in {online[k], Null},
           \A v \in Voucher, m \in Mac : ~Used(v) => open'[v][m] = 0,
           \A v \in Voucher : ~Used(v) => deadline'[v] = deadline[v]
    PROVE  RowsInv'
  <1>1. RowsInv /\ TypeOK
    BY DEF VInv
  <1>2. \A v \in Voucher : Used(v)' <=> Used(v)
    BY DEF Used
  <1>3. \A v \in Voucher :
          (~Used(v) => deadline[v] = "none")' /\ (status[v] = "EXPIRED" => deadline[v] = "past")'
    BY <1>1, <1>2 DEF RowsInv, Onward
  <1>4. \A v \in Voucher, m \in Mac : <<v, m>> \in sync'.list => m \in rows'[v]
    BY <1>1 DEF RowsInv, Onward
  <1>5. OnlineIsRecorded'
    BY <1>1, VouchersAssumption DEF RowsInv, OnlineIsRecorded, Onward, TypeOK
  <1>6. UnusedCarriesNobody'
    BY <1>1, VouchersAssumption DEF RowsInv, UnusedCarriesNobody, Used
  <1>7. QED
    BY <1>3, <1>4, <1>5, <1>6 DEF RowsInv

\* Marking a row released keeps it.
LEMMA ReleaseRowKeeps ==
    ASSUME VInv, NEW r \in Request, ReleaseRow(r)
    PROVE  VInv'
  <1> TypeOK /\ HandlerInv(r) /\ RowsInv
    BY DEF VInv
  <1>1. Keeps(r, "relClose")
    BY GotoKeeps DEF ReleaseRow, RequestPc
  <1>2. Onward
    BY DEF ReleaseRow, Onward, Used, db, agent, TypeOK, HandlerInv, About, InTime, Looking, Releasing
  <1>3. TypeOK'
    BY <1>1 DEF ReleaseRow, TypeOK, Keeps, OthersWait, HandlerInv, About, Looking, Releasing, db, agent
  <1>4. HandlerInv(r)'
    BY <1>1, <1>2 DEF ReleaseRow, Keeps, HandlerInv, About, HasRow, Activates, InTime, Onward, Used,
       LoggingIn, Releasing, Looking, db, agent, TypeOK
  <1>5. RowsInv'
    BY <1>1, <1>2 DEF ReleaseRow, RowsInv, OnlineIsRecorded, UnusedCarriesNobody, Used, Onward, db, agent,
       TypeOK, HandlerInv, About, HasRow, Activates, InTime, LoggingIn, Releasing, Looking
  <1>6. OthersWait(r) /\ UNCHANGED job
    BY <1>1 DEF ReleaseRow, Keeps
  <1>7. QED
    BY <1>2, <1>3, <1>4, <1>5, <1>6, HandlerKeeps

\* Closing sessions opens none.
LEMMA ReleaseCloseKeeps ==
    ASSUME VInv, NEW r \in Request, ReleaseClose(r)
    PROVE  VInv'
  <1> TypeOK /\ HandlerInv(r) /\ RowsInv
    BY DEF VInv
  <1>1. Keeps(r, "relRevoke")
    BY GotoKeeps DEF ReleaseClose, RequestPc
  <1>2. Onward
    BY DEF ReleaseClose, CloseSessions, Onward, Used, db, agent, TypeOK, HandlerInv, About, InTime, Looking, Releasing
  <1>3. TypeOK'
    BY <1>1 DEF ReleaseClose, CloseSessions, TypeOK, Keeps, OthersWait, HandlerInv, About, Looking, Releasing, db, agent
  <1>4. HandlerInv(r)'
    BY <1>1, <1>2 DEF ReleaseClose, CloseSessions, Keeps, HandlerInv, About, HasRow, Activates, InTime, Onward, Used,
       LoggingIn, Releasing, Looking, db, agent, TypeOK
  <1>5. RowsInv'
    BY <1>1, <1>2 DEF ReleaseClose, CloseSessions, RowsInv, OnlineIsRecorded, UnusedCarriesNobody, Used, Onward, db, agent,
       TypeOK, HandlerInv, About, HasRow, Activates, InTime, LoggingIn, Releasing, Looking
  <1>6. OthersWait(r) /\ UNCHANGED job
    BY <1>1 DEF ReleaseClose, CloseSessions, Keeps
  <1>7. QED
    BY <1>2, <1>3, <1>4, <1>5, <1>6, HandlerKeeps

\* A device that is cut is not let through.
LEMMA ReleaseRevokeKeeps ==
    ASSUME VInv, NEW r \in Request, ReleaseRevoke(r)
    PROVE  VInv'
  <1> TypeOK /\ HandlerInv(r) /\ RowsInv
    BY DEF VInv
  <1>1. rq[r].back \in {"slot", "read"} /\ Keeps(r, rq[r].back)
    BY GotoKeeps DEF ReleaseRevoke, RequestPc, TypeOK, RequestState
  <1>2. rq[r].old[2] \in Mac /\ Revoke(rq[r].old[2]) /\ UNCHANGED <<db, job, restarts>>
    BY DEF ReleaseRevoke, HandlerInv, About, Releasing
  <1>3. Onward
    BY <1>2 DEF Onward, Used, db
  <1>4. TypeOK'
    BY <1>1, <1>2, RevokeCuts DEF TypeOK, Keeps, OthersWait, db
  <1>5. HandlerInv(r)'
    BY <1>1, <1>3 DEF ReleaseRevoke, Keeps, HandlerInv, About, HasRow, Activates, InTime, Onward,
       Used, LoggingIn, Releasing, Looking
  <1>6. RowsInv'
    BY <1>2, <1>3, RevokeCuts, RowsHold DEF RowsInv, UnusedCarriesNobody, Used, db
  <1>7. QED
    BY <1>1, <1>2, <1>3, <1>4, <1>5, <1>6, HandlerKeeps DEF Keeps

\* First use: the deadline set is ahead, and no other handler saw it passed.
LEMMA ActivateKeeps ==
    ASSUME VInv, NEW r \in Request, Activate(r)
    PROVE  VInv'
  <1> TypeOK /\ HandlerInv(r) /\ RowsInv
    BY DEF VInv
  <1>1. Keeps(r, "close")
    BY GotoKeeps DEF Activate, RequestPc
  <1>2. Onward
    BY DEF Activate, Onward, Used, db, agent, TypeOK, HandlerInv, About, InTime, Looking, Releasing
  <1>3. TypeOK'
    BY <1>1 DEF Activate, TypeOK, Keeps, OthersWait, HandlerInv, About, Looking, Releasing, db, agent
  <1>4. HandlerInv(r)'
    BY <1>1, <1>2 DEF Activate, Keeps, HandlerInv, About, HasRow, Activates, InTime, Onward, Used,
       LoggingIn, Releasing, Looking, db, agent, TypeOK
  <1>5. RowsInv'
    BY <1>1, <1>2 DEF Activate, RowsInv, OnlineIsRecorded, UnusedCarriesNobody, Used, Onward, db, agent,
       TypeOK, HandlerInv, About, HasRow, Activates, InTime, LoggingIn, Releasing, Looking
  <1>6. OthersWait(r) /\ UNCHANGED job
    BY <1>1 DEF Activate, Keeps
  <1>7. QED
    BY <1>2, <1>3, <1>4, <1>5, <1>6, HandlerKeeps

\* The device has its row and its voucher is used.
LEMMA ReplaceCloseKeeps ==
    ASSUME VInv, NEW r \in Request, ReplaceClose(r)
    PROVE  VInv'
  <1> TypeOK /\ HandlerInv(r) /\ RowsInv
    BY DEF VInv
  <1>1. Keeps(r, "create")
    BY GotoKeeps DEF ReplaceClose, RequestPc
  <1>2. Onward
    BY DEF ReplaceClose, CloseSessions, Onward, Used, db, agent, TypeOK, HandlerInv, About, InTime, Looking, Releasing
  <1>3. TypeOK'
    BY <1>1 DEF ReplaceClose, CloseSessions, TypeOK, Keeps, OthersWait, HandlerInv, About, Looking, Releasing, db, agent
  <1>4. HandlerInv(r)'
    BY <1>1, <1>2 DEF ReplaceClose, CloseSessions, Keeps, HandlerInv, About, HasRow, Activates, InTime, Onward, Used,
       LoggingIn, Releasing, Looking, db, agent, TypeOK
  <1>5. RowsInv'
    BY <1>1, <1>2 DEF ReplaceClose, CloseSessions, RowsInv, OnlineIsRecorded, UnusedCarriesNobody, Used, Onward, db, agent,
       TypeOK, HandlerInv, About, HasRow, Activates, InTime, LoggingIn, Releasing, Looking
  <1>6. OthersWait(r) /\ UNCHANGED job
    BY <1>1 DEF ReplaceClose, CloseSessions, Keeps
  <1>7. QED
    BY <1>2, <1>3, <1>4, <1>5, <1>6, HandlerKeeps

\* A session is opened on a used voucher only.
LEMMA ReplaceOpenKeeps ==
    ASSUME VInv, NEW r \in Request, ReplaceOpen(r)
    PROVE  VInv'
  <1> TypeOK /\ HandlerInv(r) /\ RowsInv
    BY DEF VInv
  <1>1. Keeps(r, "admit")
    BY GotoKeeps DEF ReplaceOpen, RequestPc
  <1>2. Onward
    BY DEF ReplaceOpen, OpenSession, Onward, Used, db, agent, TypeOK, HandlerInv, About, InTime, Looking, Releasing
  <1>3. TypeOK'
    BY <1>1 DEF ReplaceOpen, OpenSession, TypeOK, Keeps, OthersWait, HandlerInv, About, Looking, Releasing, db, agent
  <1>4. HandlerInv(r)'
    BY <1>1, <1>2 DEF ReplaceOpen, OpenSession, Keeps, HandlerInv, About, HasRow, Activates, InTime, Onward, Used,
       LoggingIn, Releasing, Looking, db, agent, TypeOK
  <1>5. RowsInv'
    BY <1>1, <1>2 DEF ReplaceOpen, OpenSession, RowsInv, OnlineIsRecorded, UnusedCarriesNobody, Used, Onward, db, agent,
       TypeOK, HandlerInv, About, HasRow, Activates, InTime, LoggingIn, Releasing, Looking
  <1>6. OthersWait(r) /\ UNCHANGED job
    BY <1>1 DEF ReplaceOpen, OpenSession, Keeps
  <1>7. QED
    BY <1>2, <1>3, <1>4, <1>5, <1>6, HandlerKeeps

\* A session is opened on a used voucher only.
LEMMA AutoOpenKeeps ==
    ASSUME VInv, NEW r \in Request, AutoOpen(r)
    PROVE  VInv'
  <1> TypeOK /\ HandlerInv(r) /\ RowsInv
    BY DEF VInv
  <1>1. Keeps(r, "touch")
    BY GotoKeeps DEF AutoOpen, RequestPc
  <1>2. Onward
    BY DEF AutoOpen, OpenSession, Onward, Used, db, agent, TypeOK, HandlerInv, About, InTime, Looking, Releasing
  <1>3. TypeOK'
    BY <1>1 DEF AutoOpen, OpenSession, TypeOK, Keeps, OthersWait, HandlerInv, About, Looking, Releasing, db, agent
  <1>4. HandlerInv(r)'
    BY <1>1, <1>2 DEF AutoOpen, OpenSession, Keeps, HandlerInv, About, HasRow, Activates, InTime, Onward, Used,
       LoggingIn, Releasing, Looking, db, agent, TypeOK
  <1>5. RowsInv'
    BY <1>1, <1>2 DEF AutoOpen, OpenSession, RowsInv, OnlineIsRecorded, UnusedCarriesNobody, Used, Onward, db, agent,
       TypeOK, HandlerInv, About, HasRow, Activates, InTime, LoggingIn, Releasing, Looking
  <1>6. OthersWait(r) /\ UNCHANGED job
    BY <1>1 DEF AutoOpen, OpenSession, Keeps
  <1>7. QED
    BY <1>2, <1>3, <1>4, <1>5, <1>6, HandlerKeeps

\* Being seen changes nothing else.
LEMMA AutoTouchKeeps ==
    ASSUME VInv, NEW r \in Request, AutoTouch(r)
    PROVE  VInv'
  <1> TypeOK /\ HandlerInv(r) /\ RowsInv
    BY DEF VInv
  <1>1. Keeps(r, "admit")
    BY GotoKeeps DEF AutoTouch, RequestPc
  <1>2. Onward
    BY DEF AutoTouch, Onward, Used, db, agent, TypeOK, HandlerInv, About, InTime, Looking, Releasing
  <1>3. TypeOK'
    BY <1>1 DEF AutoTouch, TypeOK, Keeps, OthersWait, HandlerInv, About, Looking, Releasing, db, agent
  <1>4. HandlerInv(r)'
    BY <1>1, <1>2 DEF AutoTouch, Keeps, HandlerInv, About, HasRow, Activates, InTime, Onward, Used,
       LoggingIn, Releasing, Looking, db, agent, TypeOK
  <1>5. RowsInv'
    BY <1>1, <1>2 DEF AutoTouch, RowsInv, OnlineIsRecorded, UnusedCarriesNobody, Used, Onward, db, agent,
       TypeOK, HandlerInv, About, HasRow, Activates, InTime, LoggingIn, Releasing, Looking
  <1>6. OthersWait(r) /\ UNCHANGED job
    BY <1>1 DEF AutoTouch, Keeps
  <1>7. QED
    BY <1>2, <1>3, <1>4, <1>5, <1>6, HandlerKeeps

\* Looking for the open session changes nothing.
LEMMA AutoFindKeeps ==
    ASSUME VInv, NEW r \in Request, AutoFind(r)
    PROVE  VInv'
  <1> TypeOK /\ HandlerInv(r) /\ RowsInv
    BY DEF VInv
  <1>1. Keeps(r, "open") \/ Keeps(r, "touch")
    BY GotoKeeps DEF AutoFind, RequestPc
  <1>2. Onward
    BY DEF AutoFind, Onward, Used, db, agent, TypeOK, HandlerInv, About, InTime, Looking, Releasing
  <1>3. TypeOK'
    BY <1>1 DEF AutoFind, TypeOK, Keeps, OthersWait, HandlerInv, About, Looking, Releasing, db, agent
  <1>4. HandlerInv(r)'
    BY <1>1, <1>2 DEF AutoFind, Keeps, HandlerInv, About, HasRow, Activates, InTime, Onward, Used,
       LoggingIn, Releasing, Looking, db, agent, TypeOK
  <1>5. RowsInv'
    BY <1>1, <1>2 DEF AutoFind, RowsInv, OnlineIsRecorded, UnusedCarriesNobody, Used, Onward, db, agent,
       TypeOK, HandlerInv, About, HasRow, Activates, InTime, LoggingIn, Releasing, Looking
  <1>6. OthersWait(r) /\ UNCHANGED job
    BY <1>1 DEF AutoFind, Keeps
  <1>7. QED
    BY <1>2, <1>3, <1>4, <1>5, <1>6, HandlerKeeps

\* The row is there when the handler goes on, and the snapshot says how.
LEMMA TakeSlotKeeps ==
    ASSUME VInv, NEW r \in Request, TakeSlot(r)
    PROVE  VInv'
  <1> TypeOK /\ HandlerInv(r) /\ RowsInv
    BY DEF VInv
  <1>1. rq[r].v \in Voucher /\ rq[r].mac \in Mac
    BY DEF TakeSlot, HandlerInv, About, Looking
  <1> DEFINE lost == rq[r].row = "none" /\ rq[r].mac \in rows[rq[r].v]
  <1>2. /\ UNCHANGED <<status, deadline, spent, blocked, open, job, agent, restarts>>
        /\ rows' \in [Voucher -> SUBSET Mac] /\ released' \in [Voucher -> SUBSET Mac]
        /\ idle' \in [Voucher -> SUBSET Mac] /\ \A v \in Voucher : rows[v] \subseteq rows'[v]
        /\ Ends(r) \/ (Keeps(r, AfterSlot(rq[r])) /\ rq[r].mac \in rows'[rq[r].v])
    <2>1. UNCHANGED <<status, deadline, spent, blocked, open, job, agent, restarts>>
      BY DEF TakeSlot
    <2>2. CASE lost
      <3>1. UNCHANGED <<rows, released, idle>> /\ Return(r)
        BY <2>2 DEF TakeSlot
      <3>2. QED
        BY <2>1, <3>1, ReturnEnds DEF TypeOK
    <2>3. CASE ~lost
      <3>1. /\ rows' = [rows EXCEPT ![rq[r].v] = @ \cup {rq[r].mac}]
            /\ idle' = [idle EXCEPT ![rq[r].v] = @ \ {rq[r].mac}]
            /\ released' \in {released, [released EXCEPT ![rq[r].v] = @ \ {rq[r].mac}]}
            /\ Goto(r, AfterSlot(rq[r]))
        BY <2>3 DEF TakeSlot
      <3>2. AfterSlot(rq[r]) \in RequestPc
        BY DEF AfterSlot, RequestPc
      <3>3. rows' \in [Voucher -> SUBSET Mac] /\ (\A v \in Voucher : rows[v] \subseteq rows'[v])
            /\ rq[r].mac \in rows'[rq[r].v]
        BY <1>1, <3>1 DEF TypeOK
      <3>4. idle' \in [Voucher -> SUBSET Mac]
        BY <1>1, <3>1 DEF TypeOK
      <3>5. released' \in [Voucher -> SUBSET Mac]
        <4>1. [released EXCEPT ![rq[r].v] = @ \ {rq[r].mac}] \in [Voucher -> SUBSET Mac]
          BY <1>1 DEF TypeOK
        <4>2. QED
          BY <3>1, <4>1 DEF TypeOK
      <3>6. QED
        BY <2>1, <3>1, <3>2, <3>3, <3>4, <3>5, GotoKeeps
    <2>4. QED
      BY <2>2, <2>3
  <1>4. Onward
    BY <1>2 DEF Onward, Used
  <1>5. TypeOK'
    BY <1>2 DEF TypeOK, Ends, Keeps, OthersWait, agent
  <1>6. HandlerInv(r)'
    <2>1. CASE Ends(r)
      BY <2>1, EndedHolds
    <2>2. CASE Keeps(r, AfterSlot(rq[r])) /\ rq[r].mac \in rows'[rq[r].v]
      <3>1. /\ rq'[r].pc = AfterSlot(rq[r]) /\ rq'[r].mac \in Mac /\ rq'[r].v \in Voucher
            /\ rq'[r].mac \in rows'[rq'[r].v]
        BY <1>1, <2>2 DEF Keeps
      <3>2. rq[r].first \/ Used(rq[r].v)
        <4>1. rq[r].pc = "slot" /\ Activates(r)
          BY DEF TakeSlot, HandlerInv
        <4>2. QED
          BY <4>1 DEF Activates
      <3>3. /\ rq'[r].first => deadline'[rq'[r].v] # "past"
            /\ rq'[r].late => deadline'[rq'[r].v] = "past"
            /\ rq'[r].first = rq[r].first /\ rq'[r].late = rq[r].late
        BY <1>2, <2>2 DEF HandlerInv, InTime, Keeps
      <3>4. /\ Used(rq[r].v) => Used(rq[r].v)'
            /\ Used(rq[r].v)' => status'[rq'[r].v] \notin {"NONE", "UNUSED"}
        BY <1>2, <2>2 DEF Used, Keeps
      <3>5. CASE rq[r].first
        <4>1. rq'[r].pc = "activate"
          BY <3>1, <3>5 DEF AfterSlot
        <4>2. QED
          BY <3>1, <3>3, <3>5, <4>1 DEF HandlerInv, About, HasRow, Activates, InTime, LoggingIn, Releasing, Looking
      <3>6. CASE ~rq[r].first /\ rq[r].late
        <4>1. rq'[r].pc = "expire"
          BY <3>1, <3>6 DEF AfterSlot
        <4>2. QED
          BY <3>1, <3>3, <3>6, <4>1 DEF HandlerInv, About, HasRow, Activates, InTime, LoggingIn, Releasing, Looking
      <3>7. CASE ~rq[r].first /\ ~rq[r].late
        <4>1. rq'[r].pc = "close"
          BY <3>1, <3>7 DEF AfterSlot
        <4>2. QED
          BY <3>1, <3>2, <3>3, <3>4, <3>7, <4>1
          DEF HandlerInv, About, HasRow, Activates, InTime, LoggingIn, Releasing, Looking, Used
      <3>8. QED
        BY <3>5, <3>6, <3>7
    <2>3. QED
      BY <1>2, <2>1, <2>2
  <1>7. RowsInv'
    BY <1>2, <1>4, RowsHold DEF RowsInv, UnusedCarriesNobody, Used, TypeOK, agent
  <1>8. QED
    BY <1>2, <1>4, <1>5, <1>6, <1>7, HandlerKeeps DEF Keeps, Ends

\* Only a snapshot past the deadline makes a handler write EXPIRED.
LEMMA ExpireKeeps ==
    ASSUME VInv, NEW r \in Request, Expire(r)
    PROVE  VInv'
  <1> TypeOK /\ HandlerInv(r) /\ RowsInv
    BY DEF VInv
  <1>1. rq[r].v \in Voucher /\ deadline[rq[r].v] = "past" /\ Ends(r)
    BY ReturnEnds DEF Expire, HandlerInv, InTime
  <1>2. /\ status' = [status EXCEPT ![rq[r].v] = "EXPIRED"]
        /\ UNCHANGED <<deadline, spent, rows, released, blocked, idle, open, job, agent, restarts>>
    BY DEF Expire
  <1>3. Onward
    BY <1>1, <1>2 DEF Onward, Used, TypeOK
  <1>4. TypeOK'
    BY <1>1, <1>2 DEF TypeOK, Ends, OthersWait, agent, Dead
  <1>5. RowsInv'
    BY <1>1, <1>2 DEF RowsInv, OnlineIsRecorded, UnusedCarriesNobody, Used, TypeOK, agent
  <1>6. QED
    BY <1>1, <1>2, <1>3, <1>4, <1>5, EndedHolds, HandlerKeeps DEF Ends

\* A device is let through on a used voucher on which it has a row.
LEMMA AdmitDeviceKeeps ==
    ASSUME VInv, NEW r \in Request, AdmitDevice(r)
    PROVE  VInv'
  <1> TypeOK /\ HandlerInv(r) /\ RowsInv
    BY DEF VInv
  <1> DEFINE v == rq[r].v
             m == rq[r].mac
  <1>1. v \in Voucher /\ m \in Mac /\ m \in rows[v] /\ Used(v) /\ Ends(r)
    BY ReturnEnds DEF AdmitDevice, HandlerInv, About, HasRow, Activates, LoggingIn, Looking
  <1>2. /\ UNCHANGED <<db, job, restarts>> /\ sync'.list = sync.list
        /\ sync' \in [pc : {"idle", "fetched"}, list : SUBSET Pair, since : SUBSET Mac]
        /\ online' \in [Mac -> Voucher \cup {Null}]
        /\ \A k \in Mac : online'[k] = online[k] \/ (k = m /\ online'[k] = v)
    <2>1. UNCHANGED <<db, job, restarts>> /\ Admit(m, v)
      BY DEF AdmitDevice
    <2>2. CASE UNCHANGED agent
      BY <2>1, <2>2 DEF TypeOK, agent
    <2>3. CASE online' = [online EXCEPT ![m] = v]
      <3>1. sync' \in {sync, [sync EXCEPT !.since = @ \cup {m}]}
        BY <2>1, <2>3 DEF Admit, agent
      <3>2. /\ sync'.list = sync.list
            /\ sync' \in [pc : {"idle", "fetched"}, list : SUBSET Pair, since : SUBSET Mac]
        <4>1. sync \in [pc : {"idle", "fetched"}, list : SUBSET Pair, since : SUBSET Mac]
          BY DEF TypeOK
        <4>2. sync.since \cup {m} \in SUBSET Mac
          BY <1>1, <4>1
        <4>3. [sync EXCEPT !.since = @ \cup {m}]
                \in [pc : {"idle", "fetched"}, list : SUBSET Pair, since : SUBSET Mac]
          BY <4>1, <4>2
        <4>4. [sync EXCEPT !.since = @ \cup {m}].list = sync.list
          BY <4>1
        <4>5. QED
          BY <3>1, <4>1, <4>3, <4>4
      <3>3. QED
        BY <1>1, <2>1, <2>3, <3>2 DEF TypeOK
    <2>4. QED
      BY <2>1, <2>2, <2>3 DEF Admit
  <1>3. Onward
    BY <1>2 DEF Onward, Used, db
  <1>4. TypeOK'
    BY <1>1, <1>2 DEF TypeOK, Ends, OthersWait, db
  <1>5. RowsInv'
    <2>1. OnlineIsRecorded'
      BY <1>1, <1>2 DEF RowsInv, OnlineIsRecorded, TypeOK, db
    <2>2. UnusedCarriesNobody'
      BY <1>1, <1>2 DEF RowsInv, UnusedCarriesNobody, Used, db
    <2>3. QED
      BY <1>2, <2>1, <2>2 DEF RowsInv, Used, db
  <1>6. QED
    BY <1>1, <1>2, <1>3, <1>4, <1>5, EndedHolds, HandlerKeeps DEF Ends

\* What changes a handler's own state only.
LEMMA QuietKeeps ==
    ASSUME VInv, NEW r \in Request, OthersWait(r), HandlerInv(r)',
           UNCHANGED <<db, job, agent, restarts>>
    PROVE  VInv'
  <1> TypeOK /\ RowsInv
    BY DEF VInv
  <1>1. Onward
    BY DEF Onward, Used, db
  <1>2. TypeOK'
    BY DEF TypeOK, OthersWait, db, agent
  <1>3. RowsInv'
    BY DEF RowsInv, OnlineIsRecorded, UnusedCarriesNobody, Used, db, agent
  <1>4. QED
    BY <1>1, <1>2, <1>3, HandlerKeeps

LEMMA EndKeeps ==
    ASSUME VInv, NEW r \in Request, Return(r), UNCHANGED <<db, job, agent, restarts>>
    PROVE  VInv'
  BY ReturnEnds, EndedHolds, QuietKeeps DEF VInv, Ends

\* A handler that is given a new state.
LEMMA SetRequest ==
    ASSUME TypeOK, NEW r \in Request, NEW s \in RequestState, rq' = [rq EXCEPT ![r] = s]
    PROVE  OthersWait(r) /\ rq'[r] = s
  BY DEF TypeOK, OthersWait

\* What a redemption decides on the snapshot it takes.
LEMMA ReadKeeps ==
    ASSUME VInv, NEW r \in Request, NEW k \in {"redeem", "auto", "free"}, NEW v \in Voucher,
           NEW m \in Mac, status[v] # "NONE", ReadVoucher(r, k, v, m)
    PROVE  VInv'
  <1> TypeOK /\ RowsInv
    BY DEF VInv
  <1> DEFINE snap(p, c, o, w) ==
            [pc |-> p, kind |-> k, mac |-> m, v |-> v, cand |-> c, old |-> o,
             back |-> "slot", first |-> status[v] = "UNUSED",
             late |-> deadline[v] = "past", row |-> w]
  <1>1. UNCHANGED <<db, job, agent, restarts>>
    BY DEF ReadVoucher
  <1>2. CASE Return(r)
    BY <1>1, <1>2, EndKeeps
  <1>3. ASSUME NEW p \in {"slot", "relDevice", "probe"}, NEW c \in SUBSET Pair,
               NEW o \in (Voucher \cup {Null}) \X (Mac \cup {Null}),
               NEW w \in {"none", "held", "released"},
               p = "relDevice" => o[1] \in Voucher /\ o[2] \in Mac,
               rq' = [rq EXCEPT ![r] = snap(p, c, o, w)]
        PROVE  VInv'
    <2>1. snap(p, c, o, w) \in RequestState
      BY DEF RequestState, RequestPc
    <2>2. OthersWait(r) /\ rq'[r] = snap(p, c, o, w)
      BY <1>3, <2>1, SetRequest
    <2>3. /\ rq'[r].pc = p /\ rq'[r].mac = m /\ rq'[r].v = v /\ rq'[r].old = o /\ rq'[r].back = "slot"
          /\ rq'[r].first = (status[v] = "UNUSED") /\ rq'[r].late = (deadline[v] = "past")
      BY <2>2
    <2>4. status' = status /\ deadline' = deadline
      BY <1>1 DEF db
    <2>5. HandlerInv(r)'
      <3>1. About(r)'
        BY <1>3, <2>3 DEF About, Releasing, Looking
      <3>2. HasRow(r)'
        BY <1>3, <2>3 DEF HasRow, LoggingIn
      <3>3. Activates(r)'
        BY <1>3, <2>3, <2>4 DEF Activates, Used, LoggingIn, Releasing
      <3>4. InTime(r)'
        BY <1>3, <2>3, <2>4 DEF InTime, RowsInv, Used, Releasing, Looking
      <3>5. QED
        BY <3>1, <3>2, <3>3, <3>4 DEF HandlerInv
    <2>6. QED
      BY <1>1, <2>2, <2>5, QuietKeeps
  <1>4. CASE ~Return(r)
    <2> DEFINE w == IF m \notin rows[v] THEN "none"
                    ELSE IF m \in rows[v] \ released[v] THEN "held" ELSE "released"
               others == Holders(v) \ {m}
    <2>1. others \subseteq Mac
      BY DEF TypeOK, Holders
    <2>2. \/ rq' = [rq EXCEPT ![r] = snap("slot", {}, <<Null, Null>>, w)]
          \/ \E d \in others : rq' = [rq EXCEPT ![r] = snap("relDevice", {}, <<v, d>>, w)]
          \/ rq' = [rq EXCEPT ![r] = snap("probe", {v} \X others, <<Null, Null>>, w)]
      BY <1>4 DEF ReadVoucher
    <2> HIDE DEF snap, w, others
    <2>a. w \in {"none", "held", "released"} /\ {} \in SUBSET Pair
          /\ <<Null, Null>> \in (Voucher \cup {Null}) \X (Mac \cup {Null})
      BY DEF w
    <2>3. CASE rq' = [rq EXCEPT ![r] = snap("slot", {}, <<Null, Null>>, w)]
      BY <1>3, <2>3, <2>a
    <2>4. ASSUME NEW d \in others, rq' = [rq EXCEPT ![r] = snap("relDevice", {}, <<v, d>>, w)]
          PROVE  VInv'
      <3>1. /\ <<v, d>> \in (Voucher \cup {Null}) \X (Mac \cup {Null})
            /\ <<v, d>>[1] \in Voucher /\ <<v, d>>[2] \in Mac
        BY <2>1
      <3>2. QED
        BY <1>3, <2>4, <2>a, <3>1
    <2>5. CASE rq' = [rq EXCEPT ![r] = snap("probe", {v} \X others, <<Null, Null>>, w)]
      <3>1. {v} \X others \in SUBSET Pair
        BY <2>1 DEF Pair
      <3>2. QED
        BY <1>3, <2>5, <2>a, <3>1
    <2>6. QED
      BY <2>2, <2>3, <2>4, <2>5
  <1>5. QED
    BY <1>2, <1>4
LEMMA RedeemKeeps ==
    ASSUME VInv, NEW r \in Request, NEW v \in Voucher, NEW m \in Mac, Redeem(r, v, m)
    PROVE  VInv'
  BY ReadKeeps DEF Redeem

LEMMA RedeemFoundKeeps ==
    ASSUME VInv, NEW r \in Request, RedeemFound(r)
    PROVE  VInv'
  <1>1. rq[r].pc = "read" /\ HandlerInv(r) /\ rq[r].kind \in {"redeem", "auto", "free"}
    BY DEF RedeemFound, VInv, TypeOK, RequestState
  <1>2. rq[r].v \in Voucher /\ rq[r].mac \in Mac /\ status[rq[r].v] # "NONE"
    BY <1>1 DEF HandlerInv, About, Activates, Looking
  <1>3. ReadVoucher(r, rq[r].kind, rq[r].v, rq[r].mac)
    BY DEF RedeemFound
  <1>4. QED
    BY <1>1, <1>2, <1>3, ReadKeeps

\* Of the holders asked about, one is released or one fewer is left.
LEMMA ProbeKeeps ==
    ASSUME VInv, NEW r \in Request, Probe(r)
    PROVE  VInv'
  <1>1. /\ rq[r].pc = "probe" /\ HandlerInv(r) /\ rq[r] \in RequestState
        /\ rq \in [Request -> RequestState] /\ UNCHANGED <<db, job, agent, restarts>>
    BY DEF Probe, VInv, TypeOK
  <1>2. /\ rq[r].v \in Voucher /\ rq[r].mac \in Mac /\ status[rq[r].v] # "NONE"
        /\ rq[r].first \/ Used(rq[r].v)
        /\ status' = status /\ deadline' = deadline
    BY <1>1 DEF HandlerInv, About, Activates, Looking, db
  <1>3. ASSUME NEW d \in rq[r].cand,
               rq' = [rq EXCEPT ![r].pc = "relDevice", ![r].old = d, ![r].cand = {}]
        PROVE  VInv'
    <2>1. d \in Pair /\ d[1] \in Voucher /\ d[2] \in Mac
      BY <1>1 DEF RequestState, Pair
    <2> DEFINE s == [rq[r] EXCEPT !.pc = "relDevice", !.old = d, !.cand = {}]
    <2>2. s \in RequestState /\ rq' = [rq EXCEPT ![r] = s]
      BY <1>1, <1>3, <2>1 DEF RequestState, RequestPc, Pair
    <2>3. OthersWait(r) /\ rq'[r] = s
      BY <2>2, SetRequest DEF VInv
    <2>4. /\ s.pc = "relDevice" /\ s.mac = rq[r].mac /\ s.v = rq[r].v /\ s.old = d
          /\ s.back = rq[r].back /\ s.first = rq[r].first /\ s.late = rq[r].late
      BY <1>1 DEF RequestState
    <2>5. rq[r].back = "slot"
      BY <1>1 DEF HandlerInv, About
    <2> HIDE DEF s
    <2>6. HandlerInv(r)'
      BY <1>1, <1>2, <2>1, <2>3, <2>4, <2>5
      DEF HandlerInv, About, HasRow, Activates, InTime, Used, LoggingIn, Releasing, Looking
    <2>7. QED
      BY <1>1, <2>3, <2>6, QuietKeeps
  <1>4. ASSUME NEW d \in rq[r].cand, rq' = [rq EXCEPT ![r].cand = @ \ {d}]
        PROVE  VInv'
    <2> DEFINE s == [rq[r] EXCEPT !.cand = @ \ {d}]
    <2>1. s \in RequestState /\ rq' = [rq EXCEPT ![r] = s]
      BY <1>1, <1>4 DEF RequestState
    <2>2. OthersWait(r) /\ rq'[r] = s
      BY <2>1, SetRequest DEF VInv
    <2>3. /\ s.pc = rq[r].pc /\ s.mac = rq[r].mac /\ s.v = rq[r].v /\ s.back = rq[r].back
          /\ s.first = rq[r].first /\ s.late = rq[r].late
      BY <1>1 DEF RequestState
    <2> HIDE DEF s
    <2>4. HandlerInv(r)'
      BY <1>1, <1>2, <2>2, <2>3
      DEF HandlerInv, About, HasRow, Activates, InTime, Used, LoggingIn, Releasing, Looking
    <2>5. QED
      BY <1>1, <2>2, <2>4, QuietKeeps
  <1>5. CASE Return(r)
    BY <1>1, <1>5, EndKeeps
  <1>6. QED
    BY <1>3, <1>4, <1>5 DEF Probe
-----------------------------------------------------------------------------
(* autoLogin, handOverChangedMac and freeConnect                           *)

\* A handler that looks for an entitlement has no snapshot yet.
LEMMA LookKeeps ==
    ASSUME VInv, NEW r \in Request, NEW s \in RequestState, rq' = [rq EXCEPT ![r] = s],
           UNCHANGED <<db, job, agent, restarts>>,
           ~s.first, ~s.late, s.mac \in Mac,
           s.pc \in Looking \cup {"find", "read", "relDevice"},
           s.pc \notin Looking => s.v \in Voucher /\ status[s.v] # "NONE",
           s.pc = "find" => Used(s.v) /\ s.mac \in rows[s.v],
           s.pc = "relDevice" => s.back = "read" /\ s.old \in Pair,
           s.pc = "hand" => \A p \in s.cand : status[p[1]] # "NONE"
    PROVE  VInv'
  <1>1. OthersWait(r) /\ rq'[r] = s
    BY SetRequest DEF VInv
  <1>2. status' = status /\ rows' = rows
    BY DEF db
  <1>3. s.pc = "relDevice" => s.old[1] \in Voucher /\ s.old[2] \in Mac
    BY DEF Pair
  <1>4. About(r)'
    BY <1>1, <1>3 DEF About, Looking, Releasing
  <1>5. HasRow(r)'
    BY <1>1, <1>2 DEF HasRow, LoggingIn, Looking
  <1>6. Activates(r)'
    BY <1>1, <1>2 DEF Activates, Used, LoggingIn, Looking, Releasing
  <1>7. InTime(r)'
    BY <1>1 DEF InTime, Looking, Releasing
  <1>8. QED
    BY <1>1, <1>4, <1>5, <1>6, <1>7, QuietKeeps DEF HandlerInv

LEMMA GotoLooking ==
    ASSUME VInv, NEW r \in Request, NEW p \in Looking \ {"hand"}, rq[r].pc \in Looking, Goto(r, p),
           UNCHANGED <<db, job, agent, restarts>>
    PROVE  VInv'
  <1> DEFINE s == [rq[r] EXCEPT !.pc = p]
  <1>1. rq[r] \in RequestState /\ HandlerInv(r)
    BY DEF VInv, TypeOK
  <1>2. s \in RequestState /\ rq' = [rq EXCEPT ![r] = s]
    BY <1>1 DEF RequestState, RequestPc, Goto, Looking
  <1>3. /\ s.pc = p /\ s.mac = rq[r].mac /\ s.first = rq[r].first /\ s.late = rq[r].late
    BY <1>1 DEF RequestState
  <1>4. rq[r].mac \in Mac /\ ~rq[r].first /\ ~rq[r].late
    BY <1>1 DEF HandlerInv, About, InTime, Looking
  <1> HIDE DEF s
  <1>5. QED
    BY <1>2, <1>3, <1>4, LookKeeps DEF Looking

LEMMA UnauthorisedKeeps ==
    ASSUME VInv, NEW r \in Request, rq[r].pc \in Looking, Unauthorised(r),
           UNCHANGED <<db, job, agent, restarts>>
    PROVE  VInv'
  <1>1. CASE Return(r)
    BY <1>1, EndKeeps
  <1>2. CASE Goto(r, "mint")
    BY <1>2, GotoLooking DEF Looking
  <1>3. QED
    BY <1>1, <1>2 DEF Unauthorised

\* A live login has a row, on a voucher that is ACTIVE.
LEMMA AutoLoginKeeps ==
    ASSUME VInv, NEW r \in Request, NEW k \in {"auto", "free"}, NEW m \in Mac, AutoLogin(r, k, m)
    PROVE  VInv'
  <1> DEFINE s(p, v) == [NoRequest EXCEPT !.pc = p, !.kind = k, !.mac = m, !.v = v]
  <1>1. UNCHANGED <<db, job, agent, restarts>>
    BY DEF AutoLogin
  <1>2. \/ \E v \in LiveOn(m) : rq' = [rq EXCEPT ![r] = s("find", v)]
        \/ rq' = [rq EXCEPT ![r] = s("paid", Null)]
    BY DEF AutoLogin
  <1>3. ASSUME NEW v \in LiveOn(m), rq' = [rq EXCEPT ![r] = s("find", v)]
        PROVE  VInv'
    <2>1. v \in Voucher /\ m \in rows[v] /\ status[v] = "ACTIVE"
      BY DEF LiveOn, Holders
    <2>2. s("find", v) \in RequestState
      BY <2>1 DEF RequestState, RequestPc, NoRequest
    <2>3. /\ s("find", v).pc = "find" /\ s("find", v).mac = m /\ s("find", v).v = v
          /\ ~s("find", v).first /\ ~s("find", v).late
      BY DEF NoRequest
    <2> HIDE DEF s
    <2>4. QED
      BY <1>1, <1>3, <2>1, <2>2, <2>3, LookKeeps DEF Looking, Used
  <1>4. CASE rq' = [rq EXCEPT ![r] = s("paid", Null)]
    <2>1. s("paid", Null) \in RequestState
      BY DEF RequestState, RequestPc, NoRequest
    <2>2. /\ s("paid", Null).pc = "paid" /\ s("paid", Null).mac = m
          /\ ~s("paid", Null).first /\ ~s("paid", Null).late
      BY DEF NoRequest
    <2> HIDE DEF s
    <2>3. QED
      BY <1>1, <1>4, <2>1, <2>2, LookKeeps DEF Looking
  <1>5. QED
    BY <1>2, <1>3, <1>4

LEMMA FindPaidKeeps ==
    ASSUME VInv, NEW r \in Request, FindPaid(r)
    PROVE  VInv'
  <1>1. /\ rq[r].pc = "paid" /\ rq[r] \in RequestState /\ HandlerInv(r)
        /\ UNCHANGED <<db, job, agent, restarts>>
    BY DEF FindPaid, VInv, TypeOK
  <1>2. ASSUME NEW v \in Voucher, status[v] = "UNUSED",
               rq' = [rq EXCEPT ![r].pc = "read", ![r].v = v]
        PROVE  VInv'
    <2> DEFINE s == [rq[r] EXCEPT !.pc = "read", !.v = v]
    <2>1. s \in RequestState /\ rq' = [rq EXCEPT ![r] = s]
      BY <1>1, <1>2 DEF RequestState, RequestPc
    <2>2. /\ s.pc = "read" /\ s.mac = rq[r].mac /\ s.v = v
          /\ s.first = rq[r].first /\ s.late = rq[r].late
      BY <1>1 DEF RequestState
    <2>3. rq[r].mac \in Mac /\ ~rq[r].first /\ ~rq[r].late
      BY <1>1 DEF HandlerInv, About, InTime, Looking
    <2> HIDE DEF s
    <2>4. QED
      BY <1>1, <1>2, <2>1, <2>2, <2>3, LookKeeps DEF Looking
  <1>3. CASE Goto(r, "changed")
    BY <1>1, <1>3, GotoLooking DEF Looking
  <1>4. QED
    BY <1>2, <1>3 DEF FindPaid

LEMMA FindChangedKeeps ==
    ASSUME VInv, NEW r \in Request, FindChanged(r)
    PROVE  VInv'
  <1>1. /\ rq[r].pc = "changed" /\ rq[r] \in RequestState /\ HandlerInv(r)
        /\ UNCHANGED <<db, job, agent, restarts>>
    BY DEF FindChanged, VInv, TypeOK
  <1> DEFINE live == {p \in Pair : /\ <<rq[r].mac, p[2]>> \in SameName /\ p[2] # rq[r].mac
                                   /\ p[2] \in Holders(p[1])
                                   /\ status[p[1]] = "ACTIVE" /\ Usable(p[1])}
  <1>2. \/ Unauthorised(r)
        \/ \E gone \in SUBSET live : rq' = [rq EXCEPT ![r].pc = "hand", ![r].cand = live \ gone]
    BY DEF FindChanged
  <1>3. CASE Unauthorised(r)
    BY <1>1, <1>3, UnauthorisedKeeps DEF Looking
  <1>4. ASSUME NEW gone \in SUBSET live,
               rq' = [rq EXCEPT ![r].pc = "hand", ![r].cand = live \ gone]
        PROVE  VInv'
    <2> DEFINE c == live \ gone
               s == [rq[r] EXCEPT !.pc = "hand", !.cand = c]
    <2>1. c \in SUBSET Pair /\ \A p \in c : status[p[1]] # "NONE"
      OBVIOUS
    <2> HIDE DEF c
    <2>2. s \in RequestState /\ rq' = [rq EXCEPT ![r] = s]
      BY <1>1, <1>4, <2>1 DEF RequestState, RequestPc, c
    <2>3. /\ s.pc = "hand" /\ s.mac = rq[r].mac /\ s.cand = c
          /\ s.first = rq[r].first /\ s.late = rq[r].late
      BY <1>1 DEF RequestState
    <2>4. rq[r].mac \in Mac /\ ~rq[r].first /\ ~rq[r].late
      BY <1>1 DEF HandlerInv, About, InTime, Looking
    <2> HIDE DEF s
    <2>5. QED
      BY <1>1, <2>1, <2>2, <2>3, <2>4, LookKeeps DEF Looking
  <1>5. QED
    BY <1>2, <1>3, <1>4

LEMMA HandOverKeeps ==
    ASSUME VInv, NEW r \in Request, HandOver(r)
    PROVE  VInv'
  <1>1. /\ rq[r].pc = "hand" /\ rq[r] \in RequestState /\ HandlerInv(r)
        /\ UNCHANGED <<db, job, agent, restarts>>
    BY DEF HandOver, VInv, TypeOK
  <1>2. /\ rq[r].mac \in Mac /\ ~rq[r].first /\ ~rq[r].late
        /\ \A p \in rq[r].cand : p \in Pair /\ status[p[1]] # "NONE"
    BY <1>1 DEF HandlerInv, About, Activates, InTime, Looking, RequestState
  <1>3. ASSUME NEW p \in rq[r].cand,
               rq' = [rq EXCEPT ![r].pc = "relDevice", ![r].old = p, ![r].v = p[1],
                                ![r].back = "read", ![r].cand = {}]
        PROVE  VInv'
    <2> DEFINE s == [rq[r] EXCEPT !.pc = "relDevice", !.old = p, !.v = p[1],
                                  !.back = "read", !.cand = {}]
    <2>1. p \in Pair /\ p[1] \in Voucher /\ p[2] \in Mac
          /\ p \in (Voucher \cup {Null}) \X (Mac \cup {Null})
      BY <1>2 DEF Pair
    <2>2. s \in RequestState /\ rq' = [rq EXCEPT ![r] = s]
      BY <1>1, <1>3, <2>1 DEF RequestState, RequestPc
    <2>3. /\ s.pc = "relDevice" /\ s.mac = rq[r].mac /\ s.v = p[1] /\ s.old = p /\ s.back = "read"
          /\ s.first = rq[r].first /\ s.late = rq[r].late
      BY <1>1 DEF RequestState
    <2> HIDE DEF s
    <2>4. QED
      BY <1>1, <1>2, <2>1, <2>2, <2>3, LookKeeps DEF Looking
  <1>4. ASSUME NEW p \in rq[r].cand, rq' = [rq EXCEPT ![r].cand = @ \ {p}]
        PROVE  VInv'
    <2> DEFINE s == [rq[r] EXCEPT !.cand = @ \ {p}]
    <2>1. s \in RequestState /\ rq' = [rq EXCEPT ![r] = s]
      BY <1>1, <1>4 DEF RequestState
    <2>2. /\ s.pc = "hand" /\ s.mac = rq[r].mac /\ s.cand \subseteq rq[r].cand
          /\ s.first = rq[r].first /\ s.late = rq[r].late
      BY <1>1 DEF RequestState
    <2> HIDE DEF s
    <2>3. QED
      BY <1>1, <1>2, <2>1, <2>2, LookKeeps DEF Looking
  <1>5. CASE Unauthorised(r)
    BY <1>1, <1>5, UnauthorisedKeeps DEF Looking
  <1>6. QED
    BY <1>3, <1>4, <1>5 DEF HandOver
\* A new voucher carries nobody, and nobody had heard of it.
LEMMA BirthKeeps ==
    ASSUME VInv, NEW v \in Voucher, status[v] = "NONE",
           status' = [status EXCEPT ![v] = "UNUSED"],
           UNCHANGED <<deadline, spent, rows, released, blocked, idle, open, job, agent, restarts>>
    PROVE  /\ Onward /\ RowsInv'
           /\ rq' \in [Request -> RequestState] => TypeOK'
           /\ status'[v] # "NONE"
  <1> TypeOK /\ RowsInv
    BY DEF VInv
  <1>1. Onward /\ status'[v] # "NONE"
    BY DEF Onward, Used, TypeOK
  <1>2. \A w \in Voucher : Used(w)' <=> Used(w)
    BY DEF Used, TypeOK
  <1>3. RowsInv'
    BY <1>2 DEF RowsInv, OnlineIsRecorded, UnusedCarriesNobody, Used, TypeOK, agent
  <1>4. rq' \in [Request -> RequestState] => TypeOK'
    BY DEF TypeOK, agent
  <1>5. QED
    BY <1>1, <1>3, <1>4

LEMMA MintKeeps ==
    ASSUME VInv, NEW r \in Request, Mint(r)
    PROVE  VInv'
  <1>1. rq[r].pc = "mint" /\ rq[r] \in RequestState /\ HandlerInv(r)
    BY DEF Mint, VInv, TypeOK
  <1>2. PICK v \in FreeVoucher :
            /\ status[v] = "NONE"
            /\ status' = [status EXCEPT ![v] = "UNUSED"]
            /\ rq' = [rq EXCEPT ![r].pc = "read", ![r].v = v]
    BY DEF Mint
  <1>3. v \in Voucher
    BY VouchersAssumption
  <1>4. UNCHANGED <<deadline, spent, rows, released, blocked, idle, open, job, agent, restarts>>
    BY DEF Mint
  <1> DEFINE s == [rq[r] EXCEPT !.pc = "read", !.v = v]
  <1>5. s \in RequestState /\ rq' = [rq EXCEPT ![r] = s]
    BY <1>1, <1>2, <1>3 DEF RequestState, RequestPc
  <1>6. /\ s.pc = "read" /\ s.mac = rq[r].mac /\ s.v = v
        /\ s.first = rq[r].first /\ s.late = rq[r].late
    BY <1>1 DEF RequestState
  <1>7. rq[r].mac \in Mac /\ ~rq[r].first /\ ~rq[r].late
    BY <1>1 DEF HandlerInv, About, InTime, Looking
  <1> HIDE DEF s
  <1>8. OthersWait(r) /\ rq'[r] = s
    BY <1>5, SetRequest DEF VInv
  <1>9. Onward /\ RowsInv' /\ TypeOK' /\ status'[v] # "NONE"
    BY <1>2, <1>3, <1>4, <1>8, BirthKeeps DEF OthersWait
  <1>10. HandlerInv(r)'
    BY <1>3, <1>6, <1>7, <1>8, <1>9
    DEF HandlerInv, About, HasRow, Activates, InTime, LoggingIn, Looking, Releasing
  <1>11. QED
    BY <1>4, <1>8, <1>9, <1>10, HandlerKeeps

LEMMA RequestKeeps ==
    ASSUME VInv, NEW r \in Request, RequestStart(r) \/ RequestStep(r)
    PROVE  VInv'
  <1>1. CASE RequestStart(r)
    BY <1>1, RedeemKeeps, AutoLoginKeeps DEF RequestStart
  <1>2. CASE RequestStep(r)
    BY <1>2, RedeemFoundKeeps, ProbeKeeps, ReleaseRowKeeps, ReleaseCloseKeeps, ReleaseRevokeKeeps,
       TakeSlotKeeps, ActivateKeeps, ExpireKeeps, ReplaceCloseKeeps, ReplaceOpenKeeps,
       AdmitDeviceKeeps, AutoFindKeeps, AutoOpenKeeps, AutoTouchKeeps, FindPaidKeeps,
       FindChangedKeeps, HandOverKeeps, MintKeeps DEF RequestStep
  <1>3. QED
    BY <1>1, <1>2

-----------------------------------------------------------------------------
(* The admin's operations and the cron                                     *)

\* Handlers wait.
LEMMA OthersKeep ==
    ASSUME VInv, Onward, UNCHANGED rq, TypeOK', RowsInv', JobInv'
    PROVE  VInv'
  <1>1. \A q \in Request : rq'[q] = rq[q]
    OBVIOUS
  <1>2. QED
    BY <1>1, WaitingHolds DEF VInv

\* A job that is given a new state.
JobSound(s) ==
    /\ s \in JobState
    /\ s.pc \notin {"idle", "status"} => s.v \in Voucher
    /\ s.to = "EXPIRED" => \A v \in s.todo : deadline[v] = "past"

LEMMA JobKeeps ==
    ASSUME VInv, Onward, NEW j \in Job, NEW s, JobSound(s), job' = [job EXCEPT ![j] = s]
    PROVE  JobInv' /\ job' \in [Job -> JobState]
  <1>1. job \in [Job -> JobState] /\ JobInv
    BY DEF VInv, TypeOK
  <1>2. job'[j] = s /\ \A k \in Job : k # j => job'[k] = job[k]
    BY <1>1
  <1>3. job' \in [Job -> JobState]
    BY <1>1 DEF JobSound
  <1>4. ASSUME NEW k \in Job
        PROVE  /\ job'[k].pc \notin {"idle", "status"} => job'[k].v \in Voucher
               /\ job'[k].to = "EXPIRED" => \A v \in job'[k].todo : deadline'[v] = "past"
    <2>1. job'[k] \in JobState
      BY <1>3
    <2>2. CASE k = j
      BY <1>2, <2>1, <2>2 DEF JobSound, Onward, JobState
    <2>3. CASE k # j
      BY <1>1, <1>2, <2>1, <2>3 DEF JobInv, Onward, JobState
    <2>4. QED
      BY <2>2, <2>3
  <1>5. QED
    BY <1>3, <1>4 DEF JobInv

\* What changes a job's own state only.
LEMMA QuietJobKeeps ==
    ASSUME VInv, NEW j \in Job, NEW s, JobSound(s), job' = [job EXCEPT ![j] = s],
           UNCHANGED <<db, rq, agent, restarts>>
    PROVE  VInv'
  <1> TypeOK /\ RowsInv
    BY DEF VInv
  <1>1. Onward
    BY DEF Onward, Used, db
  <1>2. JobInv' /\ job' \in [Job -> JobState]
    BY <1>1, JobKeeps
  <1>3. TypeOK'
    BY <1>2 DEF TypeOK, db, agent
  <1>4. RowsInv'
    BY DEF RowsInv, OnlineIsRecorded, UnusedCarriesNobody, Used, db, agent
  <1>5. QED
    BY <1>1, <1>2, <1>3, <1>4, OthersKeep

LEMMA DevicesTyped ==
    ASSUME TypeOK, NEW found
    PROVE  Devices(found) \in [Voucher -> SUBSET Mac]
  BY DEF TypeOK, Devices

LEMMA NoJobSound == JobSound(NoJob)
  BY DEF JobSound, NoJob, JobState, Dead

LEMMA SuspendKeeps ==
    ASSUME VInv, NEW v \in Voucher, Suspend(v)
    PROVE  VInv'
  <1> DEFINE s == [NoJob EXCEPT !.pc = "status", !.to = "SUSPENDED", !.todo = {v}, !.macs = Devices({v})]
  <1>1. JobSound(s)
    BY DevicesTyped DEF JobSound, NoJob, JobState, Dead, VInv
  <1>2. QED
    BY <1>1, QuietJobKeeps DEF Suspend, Job

\* The cron expires what it read past its deadline, which it then still is.
LEMMA SweepExpiredKeeps ==
    ASSUME VInv, SweepExpired
    PROVE  VInv'
  <1> DEFINE overdue == {v \in Voucher : status[v] = "ACTIVE" /\ deadline[v] = "past"}
             s == [NoJob EXCEPT !.pc = "status", !.to = "EXPIRED", !.todo = overdue,
                                !.macs = Devices(overdue)]
  <1>1. JobSound(s)
    BY DevicesTyped DEF JobSound, NoJob, JobState, Dead, VInv
  <1>2. QED
    BY <1>1, QuietJobKeeps DEF SweepExpired, Job

LEMMA SweepDepletedKeeps ==
    ASSUME VInv, SweepDepleted
    PROVE  VInv'
  <1> DEFINE over == {v \in Voucher : status[v] = "ACTIVE" /\ v \in spent}
             s == [NoJob EXCEPT !.pc = "status", !.to = "DEPLETED", !.todo = over,
                                !.macs = Devices(over)]
  <1>1. JobSound(s)
    BY DevicesTyped DEF JobSound, NoJob, JobState, Dead, VInv
  <1>2. QED
    BY <1>1, QuietJobKeeps DEF SweepDepleted, Job

\* Closing sessions, whatever else a job does, opens none.
LEMMA ClosingKeeps ==
    ASSUME VInv, NEW j \in Job, NEW s, JobSound(s), job' = [job EXCEPT ![j] = s],
           open' \in [Voucher -> [Mac -> Nat]],
           \A v \in Voucher, m \in Mac : open'[v][m] \in {0, open[v][m]},
           UNCHANGED <<status, deadline, spent, rows, released, blocked, idle, rq, agent, restarts>>
    PROVE  VInv'
  <1> TypeOK /\ RowsInv
    BY DEF VInv
  <1>1. Onward
    BY DEF Onward, Used
  <1>2. JobInv' /\ job' \in [Job -> JobState]
    BY <1>1, JobKeeps
  <1>3. TypeOK'
    BY <1>2 DEF TypeOK, agent
  <1>4. RowsInv'
    BY DEF RowsInv, OnlineIsRecorded, UnusedCarriesNobody, Used, agent
  <1>5. QED
    BY <1>1, <1>2, <1>3, <1>4, OthersKeep

LEMMA SweepOrphansKeeps ==
    ASSUME VInv, SweepOrphans
    PROVE  VInv'
  <1>1. open \in [Voucher -> [Mac -> Nat]]
    BY DEF VInv, TypeOK
  <1>2. /\ open' \in [Voucher -> [Mac -> Nat]]
        /\ \A v \in Voucher, m \in Mac : open'[v][m] \in {0, open[v][m]}
    BY <1>1 DEF SweepOrphans
  <1>3. QED
    BY <1>2, NoJobSound, ClosingKeeps DEF SweepOrphans, Job

\* What a job becomes keeps what its next step needs.
LEMMA RetireStatusKeeps ==
    ASSUME VInv, NEW j \in Job, RetireStatus(j)
    PROVE  VInv'
  <1> TypeOK /\ RowsInv /\ JobInv /\ job[j] \in JobState
    BY DEF VInv, TypeOK
  <1>1. PICK v \in job[j].todo :
            /\ status' = [status EXCEPT ![v] = job[j].to]
            /\ job' = [job EXCEPT ![j].pc = "close", ![j].v = v, ![j].todo = @ \ {v}]
    BY DEF RetireStatus
  <1>2. /\ v \in Voucher /\ job[j].to \in Dead
        /\ UNCHANGED <<deadline, spent, rows, released, blocked, idle, open, rq, agent, restarts>>
        /\ job[j].to = "EXPIRED" => \A w \in job[j].todo : deadline[w] = "past"
    BY DEF RetireStatus, JobState, JobInv
  <1> DEFINE s == [job[j] EXCEPT !.pc = "close", !.v = v, !.todo = @ \ {v}]
  <1>3. job' = [job EXCEPT ![j] = s]
    BY <1>1 DEF TypeOK
  <1>4. JobSound(s)
    BY <1>2 DEF JobSound, JobState
  <1>5. Onward
    BY <1>1, <1>2 DEF Onward, Used, TypeOK, Dead
  <1> HIDE DEF s
  <1>6. JobInv' /\ job' \in [Job -> JobState]
    BY <1>3, <1>4, <1>5, JobKeeps
  <1>7. TypeOK'
    BY <1>1, <1>2, <1>6 DEF TypeOK, agent
  <1>8. RowsInv'
    <2>1. \A w \in Voucher : status'[w] = status[w] \/ (w = v /\ status'[w] \in Dead)
      BY <1>1, <1>2 DEF TypeOK
    <2>2. status'[v] = job[j].to
      BY <1>1, <1>2 DEF TypeOK
    <2>3. \A w \in Voucher : /\ ~Used(w)' => deadline'[w] = "none"
                             /\ status'[w] = "EXPIRED" => deadline'[w] = "past"
      BY <1>1, <1>2, <2>1, <2>2 DEF RowsInv, Used, Dead
    <2>4. OnlineIsRecorded'
      BY <1>2 DEF RowsInv, OnlineIsRecorded, agent
    <2>5. UnusedCarriesNobody'
      BY <1>2, <2>1 DEF RowsInv, UnusedCarriesNobody, agent, Dead
    <2>6. QED
      BY <1>2, <2>3, <2>4, <2>5 DEF RowsInv, agent
  <1>9. QED
    BY <1>2, <1>5, <1>6, <1>7, <1>8, OthersKeep

LEMMA RetireCloseKeeps ==
    ASSUME VInv, NEW j \in Job, RetireClose(j)
    PROVE  VInv'
  <1> TypeOK /\ JobInv /\ job[j] \in JobState
    BY DEF VInv, TypeOK
  <1>1. /\ job[j].pc = "close" /\ open' = [open EXCEPT ![job[j].v] = [m \in Mac |-> 0]]
        /\ job' = [job EXCEPT ![j].pc = "revoke"]
        /\ UNCHANGED <<status, deadline, spent, rows, released, blocked, idle, rq, agent, restarts>>
    BY DEF RetireClose
  <1> DEFINE s == [job[j] EXCEPT !.pc = "revoke"]
  <1>2. job' = [job EXCEPT ![j] = s]
    BY <1>1 DEF TypeOK
  <1>3. JobSound(s)
    BY <1>1 DEF JobSound, JobState, JobInv
  <1>4. /\ open' \in [Voucher -> [Mac -> Nat]]
        /\ \A v \in Voucher, m \in Mac : open'[v][m] \in {0, open[v][m]}
    BY <1>1 DEF TypeOK
  <1> HIDE DEF s
  <1>5. QED
    BY <1>1, <1>2, <1>3, <1>4, ClosingKeeps
\* Cutting a device, whatever else a job does, lets nobody through.
LEMMA CuttingKeeps ==
    ASSUME VInv, NEW j \in Job, NEW s, JobSound(s), job' = [job EXCEPT ![j] = s],
           NEW m \in Mac, Revoke(m), UNCHANGED <<db, rq, restarts>>
    PROVE  VInv'
  <1> TypeOK /\ RowsInv
    BY DEF VInv
  <1>1. Onward
    BY DEF Onward, Used, db
  <1>2. JobInv' /\ job' \in [Job -> JobState]
    BY <1>1, JobKeeps
  <1>3. TypeOK'
    BY <1>2, RevokeCuts DEF TypeOK, db
  <1>4. RowsInv'
    BY <1>1, RevokeCuts, RowsHold DEF RowsInv, UnusedCarriesNobody, Used, db
  <1>5. QED
    BY <1>1, <1>2, <1>3, <1>4, OthersKeep

LEMMA RetireRevokeKeeps ==
    ASSUME VInv, NEW j \in Job, RetireRevoke(j)
    PROVE  VInv'
  <1> JobInv /\ job[j] \in JobState /\ job \in [Job -> JobState]
    BY DEF VInv, TypeOK
  <1>1. job[j].pc = "revoke" /\ job[j].v \in Voucher /\ UNCHANGED <<db, rq, restarts>>
    BY DEF RetireRevoke, JobInv
  <1>2. PICK m \in job[j].macs[job[j].v] :
            Revoke(m) /\ job' = [job EXCEPT ![j].macs[job[j].v] = @ \ {m}]
    BY DEF RetireRevoke
  <1>3. m \in Mac
    BY <1>1, <1>2 DEF JobState
  <1> DEFINE ms == [job[j].macs EXCEPT ![job[j].v] = @ \ {m}]
             s == [job[j] EXCEPT !.macs = ms]
  <1>4. job' = [job EXCEPT ![j] = s]
    BY <1>2
  <1>5. ms \in [Voucher -> SUBSET Mac]
    BY DEF JobState
  <1> HIDE DEF ms
  <1>6. JobSound(s)
    BY <1>1, <1>5 DEF JobSound, JobState, JobInv
  <1> HIDE DEF s
  <1>7. QED
    BY <1>1, <1>2, <1>3, <1>4, <1>6, CuttingKeeps

LEMMA RetireNextKeeps ==
    ASSUME VInv, NEW j \in Job, RetireNext(j)
    PROVE  VInv'
  <1> JobInv /\ job[j] \in JobState /\ job \in [Job -> JobState]
    BY DEF VInv, TypeOK
  <1> DEFINE s == IF j = "admin" THEN NoJob ELSE [job[j] EXCEPT !.pc = "status", !.v = Null]
  <1>1. job' = [job EXCEPT ![j] = s] /\ UNCHANGED <<db, rq, agent, restarts>>
    BY DEF RetireNext
  <1>2. JobSound(s)
    BY NoJobSound DEF JobSound, JobState, JobInv
  <1> HIDE DEF s
  <1>3. QED
    BY <1>1, <1>2, QuietJobKeeps

\* The flag says nothing of sessions and entries.
LEMMA FlagKeeps ==
    ASSUME VInv, NEW j \in Job, NEW s, JobSound(s), job' = [job EXCEPT ![j] = s],
           blocked' \in [Voucher -> SUBSET Mac],
           UNCHANGED <<status, deadline, spent, rows, released, idle, open, rq, agent, restarts>>
    PROVE  VInv'
  <1> TypeOK /\ RowsInv
    BY DEF VInv
  <1>1. Onward
    BY DEF Onward, Used
  <1>2. JobInv' /\ job' \in [Job -> JobState]
    BY <1>1, JobKeeps
  <1>3. TypeOK'
    BY <1>2 DEF TypeOK, agent
  <1>4. RowsInv'
    BY DEF RowsInv, OnlineIsRecorded, UnusedCarriesNobody, Used, agent
  <1>5. QED
    BY <1>1, <1>2, <1>3, <1>4, OthersKeep

LEMMA BlockKeeps ==
    ASSUME VInv, NEW v \in Voucher, NEW m \in Mac, Block(v, m)
    PROVE  VInv'
  <1> DEFINE ms == [NoJob.macs EXCEPT ![v] = {m}]
             s == [NoJob EXCEPT !.pc = "blkRevoke", !.v = v, !.macs = ms]
  <1>1. ms \in [Voucher -> SUBSET Mac]
    BY DEF NoJob
  <1>2. job' = [job EXCEPT !["admin"] = s]
    BY DEF Block
  <1> HIDE DEF ms
  <1>3. JobSound(s)
    BY <1>1 DEF JobSound, NoJob, JobState, Dead
  <1>4. blocked' \in [Voucher -> SUBSET Mac]
    BY DEF Block, VInv, TypeOK
  <1> HIDE DEF s
  <1>5. QED
    BY <1>2, <1>3, <1>4, FlagKeeps DEF Block, Job

LEMMA UnblockKeeps ==
    ASSUME VInv, NEW v \in Voucher, NEW m \in Mac, Unblock(v, m)
    PROVE  VInv'
  <1> JobInv /\ job["admin"] \in JobState /\ job \in [Job -> JobState]
    BY DEF VInv, TypeOK, Job
  <1>1. job' = [job EXCEPT !["admin"] = job["admin"]]
    BY DEF Unblock
  <1>2. JobSound(job["admin"])
    BY DEF JobSound, JobInv, Job
  <1>3. blocked' \in [Voucher -> SUBSET Mac]
    BY DEF Unblock, VInv, TypeOK
  <1>4. QED
    BY <1>1, <1>2, <1>3, FlagKeeps DEF Unblock, Job

LEMMA BlockRevokeKeeps ==
    ASSUME VInv, BlockRevoke
    PROVE  VInv'
  <1> JobInv /\ job["admin"] \in JobState /\ job \in [Job -> JobState]
    BY DEF VInv, TypeOK, Job
  <1>1. job["admin"].pc = "blkRevoke" /\ job["admin"].v \in Voucher
    BY DEF BlockRevoke, JobInv, Job
  <1>2. PICK m \in job["admin"].macs[job["admin"].v] : Revoke(m)
    BY DEF BlockRevoke
  <1>3. m \in Mac
    BY <1>1, <1>2 DEF JobState
  <1> DEFINE s == [job["admin"] EXCEPT !.pc = "blkClose"]
  <1>4. job' = [job EXCEPT !["admin"] = s] /\ UNCHANGED <<db, rq, restarts>>
    BY DEF BlockRevoke
  <1>5. JobSound(s)
    BY <1>1 DEF JobSound, JobState, JobInv, Job
  <1> HIDE DEF s
  <1>6. QED
    BY <1>2, <1>3, <1>4, <1>5, CuttingKeeps DEF Job

LEMMA BlockCloseKeeps ==
    ASSUME VInv, BlockClose
    PROVE  VInv'
  <1> JobInv /\ job["admin"] \in JobState /\ open \in [Voucher -> [Mac -> Nat]]
    BY DEF VInv, TypeOK, Job
  <1>1. job["admin"].pc = "blkClose" /\ job["admin"].v \in Voucher
    BY DEF BlockClose, JobInv, Job
  <1>2. PICK m \in job["admin"].macs[job["admin"].v] : CloseSessions(job["admin"].v, m)
    BY DEF BlockClose
  <1>3. m \in Mac
    BY <1>1, <1>2 DEF JobState
  <1>4. /\ open' \in [Voucher -> [Mac -> Nat]]
        /\ \A v \in Voucher, d \in Mac : open'[v][d] \in {0, open[v][d]}
    BY <1>1, <1>2, <1>3 DEF CloseSessions
  <1>5. QED
    BY <1>4, NoJobSound, ClosingKeeps DEF BlockClose, Job

LEMMA JobStepKeeps ==
    ASSUME VInv, SweepStep \/ AdminStart \/ AdminStep
    PROVE  VInv'
  <1>1. ASSUME NEW j \in Job, Retire(j)
        PROVE  VInv'
    BY <1>1, RetireStatusKeeps, RetireCloseKeeps, RetireRevokeKeeps, RetireNextKeeps DEF Retire
  <1>2. CASE SweepStep
    BY <1>1, <1>2, SweepExpiredKeeps, SweepDepletedKeeps, SweepOrphansKeeps DEF SweepStep, Job
  <1>3. CASE AdminStart
    BY <1>3, SuspendKeeps, BlockKeeps, UnblockKeeps DEF AdminStart
  <1>4. CASE AdminStep
    BY <1>1, <1>4, BlockRevokeKeeps, BlockCloseKeeps DEF AdminStep, Job
  <1>5. QED
    BY <1>2, <1>3, <1>4

-----------------------------------------------------------------------------
(* Time, traffic, the agent on its own and crashes                         *)

LEMMA IssueKeeps ==
    ASSUME VInv, NEW v \in Voucher, Issue(v)
    PROVE  VInv'
  <1>1. /\ Onward /\ RowsInv' /\ TypeOK' /\ UNCHANGED <<rq, job>>
    BY BirthKeeps DEF Issue, VInv, TypeOK
  <1>2. QED
    BY <1>1, JobsHold, OthersKeep

\* The only step that is not onward: no handler relies on this deadline.
LEMMA DeadlinePassesKeeps ==
    ASSUME VInv, NEW v \in Voucher, DeadlinePasses(v)
    PROVE  VInv'
  <1> TypeOK /\ RowsInv /\ JobInv /\ \A r \in Request : HandlerInv(r)
    BY DEF VInv
  <1>1. /\ deadline[v] = "ahead" /\ \A r \in Request : ~(rq[r].v = v /\ rq[r].first)
        /\ deadline' = [deadline EXCEPT ![v] = "past"]
        /\ UNCHANGED <<status, spent, rows, released, blocked, idle, open, rq, job, agent, restarts>>
    BY DEF DeadlinePasses
  <1>2. \A w \in Voucher : deadline'[w] = IF w = v THEN "past" ELSE deadline[w]
    BY <1>1 DEF TypeOK
  <1>3. TypeOK'
    BY <1>1 DEF TypeOK, agent
  <1>4. ASSUME NEW r \in Request
        PROVE  HandlerInv(r)'
    <2>1. About(r)' /\ HasRow(r)' /\ Activates(r)'
      BY <1>1 DEF HandlerInv, About, HasRow, Activates, Used
    <2>2. InTime(r)'
      BY <1>1, <1>2 DEF HandlerInv, InTime
    <2>3. QED
      BY <2>1, <2>2 DEF HandlerInv
  <1>5. RowsInv'
    <2>1. \A w \in Voucher : /\ ~Used(w)' => deadline'[w] = "none"
                             /\ status'[w] = "EXPIRED" => deadline'[w] = "past"
      BY <1>1, <1>2 DEF RowsInv, Used
    <2>2. OnlineIsRecorded' /\ UnusedCarriesNobody'
      BY <1>1 DEF RowsInv, OnlineIsRecorded, UnusedCarriesNobody, agent
    <2>3. QED
      BY <1>1, <2>1, <2>2 DEF RowsInv, agent
  <1>6. JobInv'
    BY <1>1, <1>2 DEF JobInv, TypeOK, JobState
  <1>7. QED
    BY <1>3, <1>4, <1>5, <1>6 DEF VInv

LEMMA SeenKeeps ==
    ASSUME VInv, NEW v \in Voucher, NEW m \in Mac, GoIdle(v, m) \/ Traffic(v, m)
    PROVE  VInv'
  <1> TypeOK /\ RowsInv
    BY DEF VInv
  <1>1. /\ idle' \in [Voucher -> SUBSET Mac] /\ spent' \in SUBSET Voucher
        /\ UNCHANGED <<status, deadline, rows, released, blocked, open, rq, job, agent, restarts>>
    <2>1. CASE GoIdle(v, m)
      BY <2>1 DEF GoIdle, TypeOK
    <2>2. CASE Traffic(v, m)
      <3>1. spent \cup ({v} \cap Capped) \in SUBSET Voucher
        BY DEF TypeOK
      <3>2. spent' \in SUBSET Voucher
        BY <2>2, <3>1 DEF Traffic, TypeOK
      <3>3. idle' \in [Voucher -> SUBSET Mac]
        BY <2>2 DEF Traffic, TypeOK
      <3>4. QED
        BY <2>2, <3>2, <3>3 DEF Traffic
    <2>3. QED
      BY <2>1, <2>2
  <1>2. Onward
    BY <1>1 DEF Onward, Used
  <1>3. TypeOK'
    BY <1>1 DEF TypeOK, agent
  <1>4. RowsInv'
    BY <1>1 DEF RowsInv, OnlineIsRecorded, UnusedCarriesNobody, Used, agent
  <1>5. QED
    BY <1>1, <1>2, <1>3, <1>4, JobsHold, OthersKeep

\* Steps of the agent: the database stays.
LEMMA AgentKeeps ==
    ASSUME VInv, UNCHANGED <<db, rq, job>>, TypeOK', OnlineIsRecorded',
           \A v \in Voucher, m \in Mac : <<v, m>> \in sync'.list => m \in rows[v] /\ Used(v),
           \A m \in Mac : online'[m] # Null => Used(online'[m])
    PROVE  VInv'
  <1> TypeOK /\ RowsInv
    BY DEF VInv
  <1>1. Onward
    BY DEF Onward, Used, db
  <1>2. UnusedCarriesNobody'
    BY VouchersAssumption DEF RowsInv, UnusedCarriesNobody, Used, db
  <1>3. RowsInv'
    BY <1>2 DEF RowsInv, Used, db
  <1>4. QED
    BY <1>1, <1>3, JobsHold, OthersKeep

\* What is let through already is on a used voucher.
LEMMA OnlineIsUsed ==
    ASSUME VInv
    PROVE  /\ \A m \in Mac : online[m] # Null => online[m] \in Voucher /\ Used(online[m])
           /\ \A v \in Voucher, m \in Mac : <<v, m>> \in sync.list => m \in rows[v] /\ Used(v)
  BY DEF VInv, TypeOK, RowsInv, UnusedCarriesNobody, Used

LEMMA EntryTimeoutKeeps ==
    ASSUME VInv, NEW m \in Mac, EntryTimeout(m)
    PROVE  VInv'
  <1> TypeOK /\ RowsInv
    BY DEF VInv
  <1>1. online' = [online EXCEPT ![m] = Null] /\ UNCHANGED <<db, rq, job, sync, restarts>>
    BY DEF EntryTimeout
  <1>2. TypeOK'
    BY <1>1 DEF TypeOK, db
  <1>3. \A k \in Mac : online'[k] \in {online[k], Null}
    BY <1>1 DEF TypeOK
  <1>4. OnlineIsRecorded'
    BY <1>1, <1>3 DEF RowsInv, OnlineIsRecorded, db
  <1>5. QED
    BY <1>1, <1>2, <1>3, <1>4, OnlineIsUsed, AgentKeeps

\* The API lists a device only with a row, on an ACTIVE voucher.
LEMMA SyncFetchKeeps ==
    ASSUME VInv, SyncFetch
    PROVE  VInv'
  <1> TypeOK /\ RowsInv
    BY DEF VInv
  <1>1. /\ sync' = [pc |-> "fetched", list |-> Entitled, since |-> {}]
        /\ UNCHANGED <<db, rq, job, online, restarts>>
    BY DEF SyncFetch
  <1>2. TypeOK'
    BY <1>1 DEF TypeOK, db, Entitled
  <1>3. \A v \in Voucher, m \in Mac : <<v, m>> \in sync'.list => m \in rows[v] /\ Used(v)
    BY <1>1 DEF Entitled, Holders, Used
  <1>4. OnlineIsRecorded'
    BY <1>1 DEF RowsInv, OnlineIsRecorded, db
  <1>5. QED
    BY <1>1, <1>2, <1>3, <1>4, OnlineIsUsed, AgentKeeps

\* The list is old when it is applied, but rows stay and used stays used.
LEMMA SyncApplyKeeps ==
    ASSUME VInv, SyncApply
    PROVE  VInv'
  <1> TypeOK /\ RowsInv
    BY DEF VInv
  <1>1. /\ online' \in [Mac -> Voucher \cup {Null}] /\ sync' = NoSync
        /\ \A m \in Mac : online'[m] \in SyncOutcome(m, {v \in Voucher : <<v, m>> \in sync.list})
        /\ UNCHANGED <<db, rq, job, restarts>>
    BY DEF SyncApply
  <1>2. TypeOK'
    BY <1>1 DEF TypeOK, db, NoSync
  <1>3. ASSUME NEW m \in Mac
        PROVE  \/ online'[m] \in {online[m], Null}
               \/ online'[m] \in Voucher /\ <<online'[m], m>> \in sync.list
    BY <1>1 DEF SyncOutcome
  <1>4. \A v \in Voucher, m \in Mac : <<v, m>> \in sync'.list => m \in rows[v] /\ Used(v)
    BY <1>1 DEF NoSync
  <1>5. OnlineIsRecorded'
    BY <1>1, <1>3 DEF RowsInv, OnlineIsRecorded, db
  <1>6. \A m \in Mac : online'[m] # Null => Used(online'[m])
    BY <1>3, OnlineIsUsed
  <1>7. QED
    BY <1>1, <1>2, <1>4, <1>5, <1>6, AgentKeeps

LEMMA AgentRestartKeeps ==
    ASSUME VInv, AgentRestart
    PROVE  VInv'
  <1>1. /\ online' = [m \in Mac |-> Null] /\ sync' = NoSync /\ restarts' = restarts + 1
        /\ UNCHANGED <<db, rq, job>>
    BY DEF AgentRestart
  <1>2. TypeOK'
    BY <1>1 DEF VInv, TypeOK, db, NoSync
  <1>3. OnlineIsRecorded'
    BY <1>1 DEF OnlineIsRecorded
  <1>4. QED
    BY <1>1, <1>2, <1>3, AgentKeeps DEF NoSync

\* A crash of the API leaves no handler that relied on anything.
LEMMA ApiRestartKeeps ==
    ASSUME VInv, ApiRestart
    PROVE  VInv'
  <1> TypeOK /\ RowsInv
    BY DEF VInv
  <1>1. /\ restarts' = restarts + 1 /\ job' = [j \in Job |-> NoJob] /\ UNCHANGED <<db, agent>>
        /\ rq' = [r \in Request |-> IF rq[r].pc = "idle" THEN NoRequest
                                    ELSE [NoRequest EXCEPT !.pc = "done"]]
    BY DEF ApiRestart
  <1>2. NoRequest \in RequestState /\ [NoRequest EXCEPT !.pc = "done"] \in RequestState
    BY DEF RequestState, NoRequest, RequestPc
  <1>3. NoJob \in JobState
    BY DEF NoJob, JobState, Dead
  <1>4. TypeOK'
    BY <1>1, <1>2, <1>3 DEF TypeOK, db, agent
  <1>5. ASSUME NEW r \in Request
        PROVE  rq'[r].pc \in {"idle", "done"} /\ ~rq'[r].first /\ ~rq'[r].late
    BY <1>1 DEF NoRequest
  <1>6. \A r \in Request : HandlerInv(r)'
    BY <1>5 DEF HandlerInv, About, HasRow, Activates, InTime, LoggingIn, Releasing, Looking
  <1>7. RowsInv'
    BY <1>1 DEF RowsInv, OnlineIsRecorded, UnusedCarriesNobody, Used, db, agent
  <1>8. JobInv'
    BY <1>1 DEF JobInv, NoJob
  <1>9. QED
    BY <1>4, <1>6, <1>7, <1>8 DEF VInv

-----------------------------------------------------------------------------
(* The theorems                                                            *)

LEMMA VouchersNext == VInv /\ [Next]_vars => VInv'
  <1> SUFFICES ASSUME VInv, [Next]_vars PROVE VInv'
    OBVIOUS
  <1>1. CASE \E r \in Request : RequestStart(r) \/ RequestStep(r)
    BY <1>1, RequestKeeps
  <1>2. CASE SweepStep \/ AdminStart \/ AdminStep
    BY <1>2, JobStepKeeps
  <1>3. CASE AgentStep
    BY <1>3, SyncFetchKeeps, SyncApplyKeeps, EntryTimeoutKeeps DEF AgentStep
  <1>4. CASE World
    BY <1>4, IssueKeeps, DeadlinePassesKeeps, SeenKeeps, ApiRestartKeeps, AgentRestartKeeps
    DEF World
  <1>5. CASE UNCHANGED vars
    BY <1>5 DEF vars, db, agent, VInv, TypeOK, HandlerInv, About, HasRow, Activates, InTime,
       RowsInv, JobInv, OnlineIsRecorded, UnusedCarriesNobody, Used
  <1>6. QED
    BY <1>1, <1>2, <1>3, <1>4, <1>5 DEF Next

\* The invariant of the handlers, the rows and the jobs holds throughout.
THEOREM VouchersInvariance == Spec => []VInv
  <1>1. QED
    BY VouchersInit, VouchersNext, PTL DEF Spec

\* Every row, handler and agent entry keeps its shape.
THEOREM VouchersTyped == Spec => []TypeOK
  <1>1. VInv => TypeOK
    BY DEF VInv
  <1>2. QED
    BY <1>1, VouchersInvariance, PTL

\* A voucher nobody has activated carries nobody, for any number of requests at
\* once: redeem activates before it opens a session, and what was activated is
\* never UNUSED again.
THEOREM UnusedIsEmpty == Spec => []UnusedCarriesNobody
  <1>1. VInv => UnusedCarriesNobody
    BY DEF VInv, RowsInv
  <1>2. QED
    BY <1>1, VouchersInvariance, PTL

\* Whoever the agent lets through has a Device row: rows stay, and both the
\* handlers and an old list of the sync name devices that had one.
THEOREM LetThroughIsRecorded == Spec => []OnlineIsRecorded
  <1>1. VInv => OnlineIsRecorded
    BY DEF VInv, RowsInv
  <1>2. QED
    BY <1>1, VouchersInvariance, PTL

\* What the cron expired is not brought back: a handler that would activate saw
\* the voucher unused, and then its deadline has not passed.
THEOREM ExpiredForGood == Spec => ExpiredStaysExpired
  <1> DEFINE Stays == \A v \in Voucher : status[v] = "EXPIRED" => status'[v] \in Dead
  <1>1. ASSUME VInv, [Next]_vars
        PROVE  Stays
    <2>1. TypeOK /\ RowsInv /\ \A r \in Request : HandlerInv(r)
      BY <1>1 DEF VInv
    <2>2. CASE UNCHANGED status
      BY <2>2 DEF Dead
    <2>3. ASSUME NEW r \in Request, Activate(r)
          PROVE  Stays
      <3>1. rq[r].first /\ rq[r].v \in Voucher /\ deadline[rq[r].v] # "past"
        BY <2>1, <2>3 DEF Activate, HandlerInv, InTime
      <3>2. status[rq[r].v] # "EXPIRED"
        BY <2>1, <3>1 DEF RowsInv
      <3>3. QED
        BY <2>1, <2>3, <3>2 DEF Activate, TypeOK, Dead
    <2>4. ASSUME NEW r \in Request, Expire(r)
          PROVE  Stays
      BY <2>1, <2>4 DEF Expire, TypeOK, Dead
    <2>5. ASSUME NEW r \in Request, Mint(r)
          PROVE  Stays
      BY <2>1, <2>5 DEF Mint, TypeOK, Dead
    <2>6. ASSUME NEW v \in Voucher, Issue(v)
          PROVE  Stays
      BY <2>1, <2>6 DEF Issue, TypeOK, Dead
    <2>7. ASSUME NEW j \in Job, RetireStatus(j)
          PROVE  Stays
      <3>1. PICK w \in job[j].todo : status' = [status EXCEPT ![w] = job[j].to]
        BY <2>7 DEF RetireStatus
      <3>2. job[j].to \in Dead
        BY <2>1 DEF TypeOK, JobState
      <3>3. QED
        BY <2>1, <3>1, <3>2 DEF TypeOK, Dead
    <2>8. ASSUME NEW r \in Request, RequestStart(r) \/ RequestStep(r)
          PROVE  UNCHANGED status \/ Activate(r) \/ Expire(r) \/ Mint(r)
      <3>1. CASE RequestStart(r)
        BY <3>1 DEF RequestStart, Redeem, AutoLogin, ReadVoucher, db
      <3>2. CASE RequestStep(r)
        BY <3>2 DEF RequestStep, RedeemFound, ReadVoucher, Probe, ReleaseRow, ReleaseClose,
           ReleaseRevoke, TakeSlot, ReplaceClose, ReplaceOpen, AdmitDevice, AutoFind, AutoOpen,
           AutoTouch, FindPaid, FindChanged, HandOver, db
      <3>3. QED
        BY <2>8, <3>1, <3>2
    <2>9. CASE SweepStep \/ AdminStart \/ AdminStep
      <3>1. UNCHANGED status \/ \E j \in Job : RetireStatus(j)
        BY <2>9 DEF SweepStep, AdminStart, AdminStep, SweepExpired, SweepDepleted, SweepOrphans,
           Suspend, Block, Unblock, BlockRevoke, BlockClose, Retire, RetireClose, RetireRevoke,
           RetireNext, Job, db
      <3>2. QED
        BY <2>2, <2>7, <3>1
    <2>10. CASE AgentStep
      BY <2>2, <2>10 DEF AgentStep, SyncFetch, SyncApply, EntryTimeout, db
    <2>11. CASE World
      BY <2>2, <2>6, <2>11 DEF World, DeadlinePasses, GoIdle, Traffic, ApiRestart, AgentRestart, db
    <2>12. CASE UNCHANGED vars
      BY <2>2, <2>12 DEF vars, db
    <2>13. QED
      BY <1>1, <2>2, <2>3, <2>4, <2>5, <2>8, <2>9, <2>10, <2>11, <2>12 DEF Next
  <1>2. VInv /\ [Next]_vars => [Stays]_vars
    BY <1>1
  <1>3. QED
    BY <1>2, VouchersInvariance, PTL DEF Spec, ExpiredStaysExpired

-----------------------------------------------------------------------------
(* One handler at a time                                                   *)

Running(r) == rq[r].pc \notin {"idle", "done"}
OneAtATime == \A q, r \in Request : Running(q) /\ Running(r) => q = r

\* The handler that steps is the only one.
Only(r) == \A q \in Request : q # r => ~Running(q)

LEMMA NobodyElse ==
    ASSUME OneAtATime, NEW r \in Request, Running(r) \/ (MaxAtOnce = 1 /\ Arrives(r))
    PROVE  Only(r)
  <1>1. CASE Running(r)
    BY <1>1 DEF OneAtATime, Only
  <1>2. CASE MaxAtOnce = 1 /\ Arrives(r)
    <2> SUFFICES ASSUME NEW q \in Request, Running(q) PROVE FALSE
      BY DEF Only
    <2>1. {p \in Request : rq[p].pc \notin {"idle", "done"}} = {q}
      BY DEF OneAtATime, Running
    <2>2. Cardinality({q}) = 1
      BY FS_Singleton
    <2>3. QED
      BY <1>2, <2>1, <2>2 DEF Arrives
  <1>3. QED
    BY <1>1, <1>2

LEMMA StepRuns ==
    ASSUME NEW r \in Request, RequestStep(r)
    PROVE  Running(r)
  BY DEF RequestStep, RedeemFound, Probe, ReleaseRow, ReleaseClose, ReleaseRevoke, TakeSlot,
     Activate, Expire, ReplaceClose, ReplaceOpen, AdmitDevice, AutoFind, AutoOpen, AutoTouch,
     FindPaid, FindChanged, HandOver, Mint, Running

LEMMA StartArrives ==
    ASSUME NEW r \in Request, RequestStart(r)
    PROVE  Arrives(r)
  BY DEF RequestStart, Redeem, AutoLogin

\* Only the state of the handler that steps changes.
LEMMA OthersStay ==
    ASSUME TypeOK, NEW r \in Request, RequestStep(r) \/ RequestStart(r)
    PROVE  \A q \in Request : q # r => rq'[q] = rq[q]
  <1>1. rq \in [Request -> RequestState]
    BY DEF TypeOK
  <1>2. ASSUME NEW k, NEW v, NEW m, ReadVoucher(r, k, v, m)
        PROVE  \A q \in Request : q # r => rq'[q] = rq[q]
    BY <1>1, <1>2 DEF ReadVoucher, Return
  <1>3. CASE RedeemFound(r) \/ \E v \in Voucher, m \in Mac : Redeem(r, v, m)
    BY <1>2, <1>3 DEF RedeemFound, Redeem
  <1>4. CASE \/ ReleaseRow(r) \/ ReleaseClose(r) \/ ReleaseRevoke(r) \/ TakeSlot(r) \/ Activate(r)
             \/ Expire(r) \/ ReplaceClose(r) \/ ReplaceOpen(r) \/ AdmitDevice(r) \/ AutoFind(r)
             \/ AutoOpen(r) \/ AutoTouch(r)
    <2>1. (\E p : Goto(r, p)) \/ Return(r)
      BY <1>4 DEF ReleaseRow, ReleaseClose, ReleaseRevoke, TakeSlot, Activate, Expire,
         ReplaceClose, ReplaceOpen, AdmitDevice, AutoFind, AutoOpen, AutoTouch
    <2>2. QED
      BY <1>1, <2>1 DEF Goto, Return
  <1>5. CASE \E k \in {"auto", "free"}, m \in Mac : AutoLogin(r, k, m)
    BY <1>1, <1>5 DEF AutoLogin
  <1>6. CASE Probe(r) \/ FindPaid(r) \/ FindChanged(r) \/ HandOver(r) \/ Mint(r)
    BY <1>1, <1>6 DEF Probe, FindPaid, FindChanged, HandOver, Mint, Unauthorised, Goto, Return
  <1>7. QED
    BY <1>3, <1>4, <1>5, <1>6 DEF RequestStep, RequestStart

LEMMA HandlerAlone ==
    ASSUME TypeOK, MaxAtOnce = 1, OneAtATime, NEW r \in Request, RequestStep(r) \/ RequestStart(r)
    PROVE  /\ OneAtATime'
           /\ \A q \in Request : q # r => rq'[q] = rq[q] /\ rq'[q].pc \in {"idle", "done"}
  <1>1. Only(r)
    BY NobodyElse, StepRuns, StartArrives
  <1>2. QED
    BY <1>1, OthersStay DEF Only, OneAtATime, Running

\* What the admin, the cron, the agent, time and crashes do to the rows.
Outside == SweepStep \/ AdminStart \/ AdminStep \/ AgentStep \/ World \/ UNCHANGED vars

LEMMA OutsideSteps ==
    [Next]_vars => Outside \/ \E r \in Request : RequestStep(r) \/ RequestStart(r)
  BY DEF Next, Outside

RowsStand ==
    /\ UNCHANGED <<rows, released>>
    /\ \A v \in Voucher, m \in Mac : open'[v][m] \in {open[v][m], 0}
    /\ "unblock" \notin AdminOps => \A v \in Voucher : blocked[v] \subseteq blocked'[v]
    /\ \A v \in Voucher :
          /\ status'[v] = "ACTIVE" => status[v] = "ACTIVE"
          /\ status'[v] = "NONE" => status[v] = "NONE"
          /\ status'[v] = "UNUSED" => status[v] = "UNUSED" \/ v \notin FreeVoucher
    /\ spent \subseteq spent'
    /\ \A v \in Voucher : deadline[v] = "past" => deadline'[v] = "past"

LEMMA SameRows ==
    ASSUME UNCHANGED <<status, deadline, spent, rows, released, blocked, open>>
    PROVE  RowsStand
  BY DEF RowsStand

LEMMA JobRows ==
    ASSUME VInv, SweepStep \/ AdminStep \/ AdminStart
    PROVE  RowsStand /\ rq' = rq
  <1> TypeOK /\ JobInv
    BY DEF VInv
  <1>1. rq' = rq /\ UNCHANGED <<deadline, spent, rows, released>>
    BY DEF SweepStep, AdminStep, AdminStart, Retire, SweepExpired, SweepDepleted, SweepOrphans,
       RetireStatus, RetireClose, RetireRevoke, RetireNext, Suspend, Block, Unblock, BlockRevoke,
       BlockClose, db
  <1>2. \A v \in Voucher, m \in Mac : open'[v][m] \in {open[v][m], 0}
    <2>1. CASE SweepOrphans
      BY <2>1 DEF SweepOrphans, TypeOK
    <2>2. ASSUME NEW j \in Job, RetireClose(j)
          PROVE  \A v \in Voucher, m \in Mac : open'[v][m] \in {open[v][m], 0}
      <3>1. job[j].v \in Voucher
        BY <2>2 DEF RetireClose, JobInv
      <3>2. QED
        BY <2>2, <3>1 DEF RetireClose, TypeOK
    <2>3. CASE BlockClose
      <3>1. job["admin"].v \in Voucher
        BY <2>3 DEF BlockClose, JobInv, Job
      <3>2. PICK m : open' = [open EXCEPT ![job["admin"].v][m] = 0]
        BY <2>3 DEF BlockClose, CloseSessions
      <3>3. QED
        BY <3>1, <3>2 DEF TypeOK
    <2>4. CASE UNCHANGED open
      BY <2>4
    <2>5. QED
      BY <2>1, <2>2, <2>3, <2>4
      DEF SweepStep, AdminStep, AdminStart, Retire, SweepExpired, SweepDepleted,
          RetireStatus, RetireRevoke, RetireNext, Suspend, Block, Unblock, BlockRevoke, db, Job
  <1>3. "unblock" \notin AdminOps => \A v \in Voucher : blocked[v] \subseteq blocked'[v]
    <2>1. ASSUME NEW v \in Voucher, NEW m \in Mac, Block(v, m)
          PROVE  \A w \in Voucher : blocked[w] \subseteq blocked'[w]
      BY <2>1 DEF Block, TypeOK
    <2>2. QED
      BY <2>1
      DEF SweepStep, AdminStep, AdminStart, Retire, SweepExpired, SweepDepleted, SweepOrphans,
          RetireStatus, RetireClose, RetireRevoke, RetireNext, Suspend, Unblock, BlockRevoke,
          BlockClose, db
  <1>4. \A v \in Voucher : status'[v] = status[v] \/ status'[v] \in Dead
    <2>1. ASSUME NEW j \in Job, RetireStatus(j)
          PROVE  \A v \in Voucher : status'[v] = status[v] \/ status'[v] \in Dead
      BY <2>1 DEF RetireStatus, TypeOK, JobState
    <2>2. QED
      BY <2>1
      DEF SweepStep, AdminStep, AdminStart, Retire, SweepExpired, SweepDepleted, SweepOrphans,
          RetireClose, RetireRevoke, RetireNext, Suspend, Block, Unblock, BlockRevoke,
          BlockClose, db, Job
  <1>5. \A v \in Voucher : status'[v] \notin {"ACTIVE", "NONE", "UNUSED"} \/ status'[v] = status[v]
    BY <1>4 DEF Dead
  <1>6. QED
    BY <1>1, <1>2, <1>3, <1>5 DEF RowsStand

LEMMA WorldRows ==
    ASSUME VInv, AgentStep \/ World \/ UNCHANGED vars
    PROVE  RowsStand /\ (rq' = rq \/ \A r \in Request : ~Running(r)')
  <1> TypeOK
    BY DEF VInv
  <1>1. CASE AgentStep \/ AgentRestart \/ UNCHANGED vars
    BY <1>1, SameRows DEF AgentStep, SyncFetch, SyncApply, EntryTimeout, AgentRestart, vars, db
  <1>2. CASE ApiRestart
    <2>1. \A r \in Request : ~Running(r)'
      BY <1>2 DEF ApiRestart, Running, NoRequest
    <2>2. QED
      BY <1>2, <2>1, SameRows DEF ApiRestart, db
  <1>3. ASSUME NEW v \in Voucher, Issue(v)
        PROVE  RowsStand /\ rq' = rq
    <2>1. \A w \in Voucher : status'[w] = IF w = v THEN "UNUSED" ELSE status[w]
      BY <1>3 DEF Issue, TypeOK
    <2>2. QED
      BY <1>3, <2>1 DEF Issue, RowsStand
  <1>4. ASSUME NEW v \in Voucher, DeadlinePasses(v)
        PROVE  RowsStand /\ rq' = rq
    <2>1. \A w \in Voucher : deadline'[w] = IF w = v THEN "past" ELSE deadline[w]
      BY <1>4 DEF DeadlinePasses, TypeOK
    <2>2. QED
      BY <1>4, <2>1 DEF DeadlinePasses, RowsStand
  <1>5. ASSUME NEW v \in Voucher, NEW m \in Mac, GoIdle(v, m) \/ Traffic(v, m)
        PROVE  RowsStand /\ rq' = rq
    BY <1>5 DEF GoIdle, Traffic, RowsStand
  <1>6. QED
    BY <1>1, <1>2, <1>3, <1>4, <1>5 DEF World

LEMMA OutsideRows ==
    ASSUME VInv, Outside
    PROVE  RowsStand /\ (rq' = rq \/ \A r \in Request : ~Running(r)')
  BY JobRows, WorldRows DEF Outside

LEMMA OutsideAlone ==
    ASSUME VInv, OneAtATime, Outside
    PROVE  OneAtATime'
  BY OutsideRows DEF OneAtATime, Running

LEMMA InitAlone == Init => OneAtATime
  BY DEF Init, OneAtATime, Running, NoRequest

-----------------------------------------------------------------------------
(* One open session                                                        *)

\* A handler about to open a session found none, or closed what there was.
NoneOpen(r) == rq[r].pc \in {"create", "open"} => open[rq[r].v][rq[r].mac] = 0

SessionInv == VInv /\ OneAtATime /\ OneOpenSession /\ \A r \in Request : NoneOpen(r)

LEMMA SessionOutside ==
    ASSUME SessionInv, Outside
    PROVE  SessionInv'
  <1>1. VInv' /\ OneAtATime'
    BY VouchersNext, OutsideAlone DEF SessionInv, Outside, Next
  <1>2. RowsStand /\ (rq' = rq \/ \A r \in Request : ~Running(r)')
    BY OutsideRows DEF SessionInv
  <1>3. OneOpenSession'
    BY <1>2 DEF SessionInv, OneOpenSession, RowsStand
  <1>4. ASSUME NEW r \in Request PROVE NoneOpen(r)'
    <2>1. rq[r].pc \in {"create", "open"} => rq[r].v \in Voucher /\ rq[r].mac \in Mac
      BY DEF SessionInv, VInv, HandlerInv, About, Looking
    <2>2. QED
      BY <1>2, <2>1 DEF SessionInv, NoneOpen, RowsStand, Running
  <1>5. QED
    BY <1>1, <1>3, <1>4 DEF SessionInv
-----------------------------------------------------------------------------
(* Where each await leaves a handler                                       *)

LEMMA GotoThere ==
    ASSUME TypeOK, NEW r \in Request, NEW p, Goto(r, p)
    PROVE  /\ rq'[r].pc = p /\ rq'[r].mac = rq[r].mac /\ rq'[r].v = rq[r].v
           /\ rq'[r].cand = rq[r].cand /\ rq'[r].old = rq[r].old /\ rq'[r].back = rq[r].back
           /\ rq'[r].first = rq[r].first
  <1>1. rq \in [Request -> RequestState] /\ rq[r] \in RequestState
    BY DEF TypeOK
  <1>2. rq'[r] = [rq[r] EXCEPT !.pc = p]
    BY <1>1 DEF Goto
  <1>3. QED
    BY <1>1, <1>2 DEF RequestState

LEMMA ReturnThere ==
    ASSUME TypeOK, NEW r \in Request, Return(r)
    PROVE  rq'[r].pc = "done"
  BY DEF TypeOK, Return, NoRequest

\* A handler is given the state s.
LEMMA SetThere ==
    ASSUME TypeOK, NEW r \in Request, NEW s, rq' = [rq EXCEPT ![r] = s]
    PROVE  rq'[r] = s
  BY DEF TypeOK

Room(v, S) == Cardinality(Holders(v) \ S) < Limit[v]
Bound(m, v) == m \in rows[v] \ released[v]

\* What the snapshot of a redemption finds.
LEMMA ReadThere ==
    ASSUME TypeOK, NEW r \in Request, NEW k, NEW v \in Voucher, NEW m, ReadVoucher(r, k, v, m)
    PROVE  /\ UNCHANGED db
           /\ \/ rq'[r].pc = "done"
              \/ /\ rq'[r].mac = m /\ rq'[r].v = v /\ rq'[r].back = "slot"
                 /\ rq'[r].first = (status[v] = "UNUSED")
                 /\ m \notin blocked[v]
                 /\ \/ rq'[r].pc = "slot" /\ (Bound(m, v) \/ Room(v, {m}))
                    \/ /\ rq'[r].pc = "relDevice" /\ ~Bound(m, v) /\ rq'[r].old[1] = v
                       /\ rq'[r].old[2] \in Holders(v)
                    \/ /\ rq'[r].pc = "probe" /\ ~Bound(m, v)
                       /\ \A d \in rq'[r].cand : d[1] = v /\ d[2] \in Holders(v)
  <1> DEFINE others == Holders(v) \ {m}
             held == Bound(m, v)
             snap(p, c, o) ==
                 [pc |-> p, kind |-> k, mac |-> m, v |-> v, cand |-> c, old |-> o,
                  back |-> "slot", first |-> status[v] = "UNUSED",
                  late |-> deadline[v] = "past",
                  row |-> IF m \notin rows[v] THEN "none"
                          ELSE IF held THEN "held" ELSE "released"]
  <1>1. UNCHANGED db
    BY DEF ReadVoucher
  <1>2. \/ Return(r)
        \/ /\ m \notin blocked[v]
           /\ \/ (held \/ ~(Cardinality(others) >= Limit[v]))
                 /\ rq' = [rq EXCEPT ![r] = snap("slot", {}, <<Null, Null>>)]
              \/ ~held /\ \E d \in others : rq' = [rq EXCEPT ![r] = snap("relDevice", {}, <<v, d>>)]
              \/ ~held /\ rq' = [rq EXCEPT ![r] = snap("probe", {v} \X others, <<Null, Null>>)]
    BY DEF ReadVoucher, Bound
  <1>3. \A p, c, o : /\ snap(p, c, o).pc = p /\ snap(p, c, o).mac = m /\ snap(p, c, o).v = v
                     /\ snap(p, c, o).cand = c /\ snap(p, c, o).old = o
                     /\ snap(p, c, o).back = "slot"
                     /\ snap(p, c, o).first = (status[v] = "UNUSED")
    OBVIOUS
  <1> HIDE DEF snap
  <1>4. CASE Return(r)
    BY <1>1, <1>4, ReturnThere
  <1>5. CASE /\ m \notin blocked[v] /\ (held \/ ~(Cardinality(others) >= Limit[v]))
             /\ rq' = [rq EXCEPT ![r] = snap("slot", {}, <<Null, Null>>)]
    <2>1. rq'[r] = snap("slot", {}, <<Null, Null>>)
      BY <1>5, SetThere
    <2>2. held \/ Room(v, {m})
      <3>1. IsFiniteSet(others)
        <4>1. others \in SUBSET Mac
          BY DEF Holders, TypeOK
        <4>2. QED
          BY <4>1, FS_Subset, VouchersAssumption
      <3>2. Cardinality(others) \in Nat /\ Limit[v] \in Nat
        BY <3>1, FS_CardinalityType, VouchersAssumption
      <3>3. QED
        BY <1>5, <3>2 DEF Room
    <2>3. QED
      BY <1>1, <1>3, <1>5, <2>1, <2>2
  <1>6. ASSUME m \notin blocked[v], ~held, NEW d \in others,
               rq' = [rq EXCEPT ![r] = snap("relDevice", {}, <<v, d>>)]
        PROVE  /\ rq'[r].pc = "relDevice" /\ rq'[r].mac = m /\ rq'[r].v = v
               /\ rq'[r].back = "slot" /\ rq'[r].first = (status[v] = "UNUSED")
               /\ rq'[r].old[1] = v /\ rq'[r].old[2] \in Holders(v)
    <2>1. rq'[r] = snap("relDevice", {}, <<v, d>>)
      BY <1>6, SetThere
    <2>2. QED
      BY <1>3, <2>1
  <1>7. ASSUME m \notin blocked[v], ~held,
               rq' = [rq EXCEPT ![r] = snap("probe", {v} \X others, <<Null, Null>>)]
        PROVE  /\ rq'[r].pc = "probe" /\ rq'[r].mac = m /\ rq'[r].v = v
               /\ rq'[r].back = "slot" /\ rq'[r].first = (status[v] = "UNUSED")
               /\ \A d \in rq'[r].cand : d[1] = v /\ d[2] \in Holders(v)
    <2>1. rq'[r] = snap("probe", {v} \X others, <<Null, Null>>)
      BY <1>7, SetThere
    <2>2. QED
      BY <1>3, <2>1
  <1>8. QED
    BY <1>1, <1>2, <1>4, <1>5, <1>6, <1>7

LEMMA ProbeThere ==
    ASSUME TypeOK, NEW r \in Request, Probe(r)
    PROVE  /\ UNCHANGED db /\ rq[r].pc = "probe"
           /\ \/ rq'[r].pc = "done"
              \/ /\ rq'[r].mac = rq[r].mac /\ rq'[r].v = rq[r].v /\ rq'[r].back = rq[r].back
                 /\ rq'[r].first = rq[r].first
                 /\ \/ rq'[r].pc = "relDevice" /\ rq'[r].old \in rq[r].cand
                    \/ rq'[r].pc = "probe" /\ rq'[r].cand \subseteq rq[r].cand
  <1>1. rq \in [Request -> RequestState] /\ rq[r] \in RequestState
    BY DEF TypeOK
  <1>2. UNCHANGED db /\ rq[r].pc = "probe"
    BY DEF Probe
  <1>3. PICK d \in rq[r].cand :
            \/ rq'[r] = [rq[r] EXCEPT !.pc = "relDevice", !.old = d, !.cand = {}]
            \/ Return(r)
            \/ rq'[r] = [rq[r] EXCEPT !.cand = @ \ {d}]
    BY <1>1 DEF Probe
  <1>4. CASE rq'[r] = [rq[r] EXCEPT !.pc = "relDevice", !.old = d, !.cand = {}]
    BY <1>1, <1>2, <1>4 DEF RequestState
  <1>5. CASE rq'[r] = [rq[r] EXCEPT !.cand = @ \ {d}]
    BY <1>1, <1>2, <1>5 DEF RequestState
  <1>6. QED
    BY <1>2, <1>3, <1>4, <1>5, ReturnThere

LEMMA UnauthorisedThere ==
    ASSUME TypeOK, NEW r \in Request, Unauthorised(r)
    PROVE  \/ rq'[r].pc = "done"
           \/ rq'[r].pc = "mint" /\ rq'[r].mac = rq[r].mac /\ rq'[r].first = rq[r].first
  BY GotoThere, ReturnThere DEF Unauthorised

LEMMA AutoLoginThere ==
    ASSUME TypeOK, NEW r \in Request, NEW k, NEW m, AutoLogin(r, k, m)
    PROVE  /\ UNCHANGED db /\ rq'[r].mac = m /\ ~rq'[r].first
           /\ \/ rq'[r].pc = "find" /\ rq'[r].v \in LiveOn(m)
              \/ rq'[r].pc = "paid" /\ LiveOn(m) = {}
  <1> DEFINE s(p, v) == [NoRequest EXCEPT !.pc = p, !.kind = k, !.mac = m, !.v = v]
  <1>1. UNCHANGED db
    BY DEF AutoLogin
  <1>2. \/ \E v \in LiveOn(m) : rq' = [rq EXCEPT ![r] = s("find", v)]
        \/ LiveOn(m) = {} /\ rq' = [rq EXCEPT ![r] = s("paid", Null)]
    BY DEF AutoLogin
  <1>3. \A p, v : s(p, v).pc = p /\ s(p, v).mac = m /\ s(p, v).v = v /\ ~s(p, v).first
    BY DEF NoRequest
  <1> HIDE DEF s
  <1>4. QED
    BY <1>1, <1>2, <1>3, SetThere

LEMMA FindPaidThere ==
    ASSUME TypeOK, NEW r \in Request, FindPaid(r)
    PROVE  /\ UNCHANGED db /\ rq[r].pc = "paid" /\ rq'[r].mac = rq[r].mac
           /\ rq'[r].first = rq[r].first
           /\ \/ rq'[r].pc = "read" /\ rq'[r].v \in Voucher /\ Payer[rq'[r].v] = rq[r].mac
              \/ rq'[r].pc = "changed"
  <1>1. rq \in [Request -> RequestState] /\ rq[r] \in RequestState
    BY DEF TypeOK
  <1>2. UNCHANGED db /\ rq[r].pc = "paid"
    BY DEF FindPaid
  <1>3. CASE Goto(r, "changed")
    BY <1>2, <1>3, GotoThere
  <1>4. ASSUME NEW v \in Voucher, Payer[v] = rq[r].mac, rq' = [rq EXCEPT ![r].pc = "read", ![r].v = v]
        PROVE  /\ rq'[r].pc = "read" /\ rq'[r].v = v /\ rq'[r].mac = rq[r].mac
               /\ rq'[r].first = rq[r].first
    <2>1. rq'[r] = [rq[r] EXCEPT !.pc = "read", !.v = v]
      BY <1>1, <1>4
    <2>2. QED
      BY <1>1, <2>1 DEF RequestState
  <1>5. QED
    BY <1>2, <1>3, <1>4 DEF FindPaid

LEMMA FindChangedThere ==
    ASSUME TypeOK, NEW r \in Request, FindChanged(r)
    PROVE  /\ UNCHANGED db /\ rq[r].pc = "changed"
           /\ \/ rq'[r].pc = "done"
              \/ /\ rq'[r].mac = rq[r].mac /\ rq'[r].first = rq[r].first
                 /\ \/ rq'[r].pc = "mint"
                    \/ rq'[r].pc = "hand" /\ \A p \in rq'[r].cand : status[p[1]] = "ACTIVE"
  <1>1. rq \in [Request -> RequestState] /\ rq[r] \in RequestState
    BY DEF TypeOK
  <1>2. UNCHANGED db /\ rq[r].pc = "changed"
    BY DEF FindChanged
  <1> DEFINE live == {p \in Pair : /\ <<rq[r].mac, p[2]>> \in SameName /\ p[2] # rq[r].mac
                                   /\ p[2] \in Holders(p[1])
                                   /\ status[p[1]] = "ACTIVE" /\ Usable(p[1])}
  <1>3. \/ Unauthorised(r)
        \/ \E gone \in SUBSET live : rq' = [rq EXCEPT ![r].pc = "hand", ![r].cand = live \ gone]
    BY DEF FindChanged
  <1>4. \A p \in live : status[p[1]] = "ACTIVE"
    OBVIOUS
  <1> HIDE DEF live
  <1>5. ASSUME NEW gone \in SUBSET live,
               rq' = [rq EXCEPT ![r].pc = "hand", ![r].cand = live \ gone]
        PROVE  /\ rq'[r].pc = "hand" /\ rq'[r].mac = rq[r].mac /\ rq'[r].first = rq[r].first
               /\ \A p \in rq'[r].cand : status[p[1]] = "ACTIVE"
    <2>1. rq'[r] = [rq[r] EXCEPT !.pc = "hand", !.cand = live \ gone]
      BY <1>1, <1>5
    <2>2. /\ rq'[r].pc = "hand" /\ rq'[r].cand = live \ gone /\ rq'[r].mac = rq[r].mac
          /\ rq'[r].first = rq[r].first
      BY <1>1, <2>1 DEF RequestState
    <2>3. QED
      BY <1>4, <2>2
  <1>6. CASE Unauthorised(r)
    BY <1>2, <1>6, UnauthorisedThere
  <1>7. QED
    BY <1>2, <1>3, <1>5, <1>6

LEMMA HandOverThere ==
    ASSUME TypeOK, NEW r \in Request, HandOver(r)
    PROVE  /\ UNCHANGED db /\ rq[r].pc = "hand"
           /\ \/ rq'[r].pc = "done"
              \/ /\ rq'[r].mac = rq[r].mac /\ rq'[r].first = rq[r].first
                 /\ \/ rq'[r].pc = "mint"
                    \/ rq'[r].pc = "hand" /\ rq'[r].cand \subseteq rq[r].cand
                    \/ /\ rq'[r].pc = "relDevice" /\ rq'[r].back = "read"
                       /\ \E p \in rq[r].cand : rq'[r].old = p /\ rq'[r].v = p[1]
  <1>1. rq \in [Request -> RequestState] /\ rq[r] \in RequestState
    BY DEF TypeOK
  <1>2. UNCHANGED db /\ rq[r].pc = "hand"
    BY DEF HandOver
  <1>3. PICK p \in rq[r].cand :
            \/ rq'[r] = [rq[r] EXCEPT !.pc = "relDevice", !.old = p, !.v = p[1],
                                      !.back = "read", !.cand = {}]
            \/ Unauthorised(r)
            \/ rq'[r] = [rq[r] EXCEPT !.cand = @ \ {p}]
    BY <1>1 DEF HandOver
  <1>4. CASE rq'[r] = [rq[r] EXCEPT !.pc = "relDevice", !.old = p, !.v = p[1],
                                    !.back = "read", !.cand = {}]
    BY <1>1, <1>2, <1>4 DEF RequestState
  <1>5. CASE rq'[r] = [rq[r] EXCEPT !.cand = @ \ {p}]
    BY <1>1, <1>2, <1>5 DEF RequestState
  <1>6. QED
    BY <1>2, <1>3, <1>4, <1>5, UnauthorisedThere

LEMMA MintThere ==
    ASSUME TypeOK, NEW r \in Request, Mint(r)
    PROVE  /\ rq[r].pc = "mint" /\ rq'[r].pc = "read" /\ rq'[r].mac = rq[r].mac
           /\ rq'[r].first = rq[r].first
           /\ rq'[r].v \in FreeVoucher /\ status[rq'[r].v] = "NONE"
           /\ status' = [status EXCEPT ![rq'[r].v] = "UNUSED"]
           /\ UNCHANGED <<deadline, spent, rows, released, blocked, open>>
  <1>1. rq \in [Request -> RequestState] /\ rq[r] \in RequestState
    BY DEF TypeOK
  <1>2. rq[r].pc = "mint" /\ UNCHANGED <<deadline, spent, rows, released, blocked, open>>
    BY DEF Mint
  <1>3. PICK v \in FreeVoucher :
            /\ status[v] = "NONE" /\ status' = [status EXCEPT ![v] = "UNUSED"]
            /\ rq'[r] = [rq[r] EXCEPT !.pc = "read", !.v = v]
    BY <1>1 DEF Mint
  <1>4. /\ rq'[r].pc = "read" /\ rq'[r].v = v /\ rq'[r].mac = rq[r].mac
        /\ rq'[r].first = rq[r].first
    BY <1>1, <1>3 DEF RequestState
  <1>5. QED
    BY <1>2, <1>3, <1>4

LEMMA ReleaseRevokeThere ==
    ASSUME TypeOK, NEW r \in Request, ReleaseRevoke(r)
    PROVE  /\ UNCHANGED db /\ rq[r].pc = "relRevoke" /\ rq'[r].pc = rq[r].back
           /\ rq[r].back \in {"slot", "read"}
           /\ rq'[r].mac = rq[r].mac /\ rq'[r].v = rq[r].v /\ rq'[r].back = rq[r].back
           /\ rq'[r].first = rq[r].first
  <1>1. rq[r] \in RequestState
    BY DEF TypeOK
  <1>2. rq[r].back \in {"slot", "read"}
    BY <1>1 DEF RequestState
  <1>3. QED
    BY <1>2, GotoThere DEF ReleaseRevoke

\* The slot is lost to another row, or the row is there and not released.
LEMMA TakeSlotThere ==
    ASSUME VInv, NEW r \in Request, TakeSlot(r)
    PROVE  LET v == rq[r].v  m == rq[r].mac
           IN  /\ rq[r].pc = "slot" /\ v \in Voucher /\ m \in Mac
               /\ UNCHANGED <<status, deadline, spent, blocked, open>>
               /\ \/ rq'[r].pc = "done" /\ UNCHANGED <<rows, released>>
                  \/ /\ rq'[r].pc \in {"activate", "expire", "close"}
                     /\ rq'[r].mac = m /\ rq'[r].v = v /\ rq'[r].first = rq[r].first
                     /\ \A w \in Voucher : rows'[w] = IF w = v THEN rows[w] \cup {m} ELSE rows[w]
                     /\ \A w \in Voucher : /\ released'[w] \subseteq released[w]
                                           /\ released[w] \subseteq released'[w] \cup {m}
                                           /\ w # v => released'[w] = released[w]
  <1> DEFINE v == rq[r].v
             m == rq[r].mac
  <1> TypeOK
    BY DEF VInv
  <1>1. /\ rq[r].pc = "slot" /\ v \in Voucher /\ m \in Mac
        /\ UNCHANGED <<status, deadline, spent, blocked, open>>
    BY DEF TakeSlot, VInv, HandlerInv, About, Looking
  <1>2. \/ Return(r) /\ UNCHANGED <<rows, released>>
        \/ /\ rows' = [rows EXCEPT ![v] = @ \cup {m}]
           /\ released' \in {released, [released EXCEPT ![v] = @ \ {m}]}
           /\ Goto(r, AfterSlot(rq[r]))
    BY DEF TakeSlot
  <1>3. CASE Return(r) /\ UNCHANGED <<rows, released>>
    BY <1>1, <1>3, ReturnThere
  <1>4. CASE /\ rows' = [rows EXCEPT ![v] = @ \cup {m}]
             /\ released' \in {released, [released EXCEPT ![v] = @ \ {m}]}
             /\ Goto(r, AfterSlot(rq[r]))
    <2>1. AfterSlot(rq[r]) \in {"activate", "expire", "close"}
      BY DEF AfterSlot
    <2>2. /\ rq'[r].pc = AfterSlot(rq[r]) /\ rq'[r].mac = m /\ rq'[r].v = v
          /\ rq'[r].first = rq[r].first
      BY <1>4, GotoThere
    <2>3. \A w \in Voucher : rows'[w] = IF w = v THEN rows[w] \cup {m} ELSE rows[w]
      BY <1>1, <1>4 DEF TypeOK
    <2>4. \A w \in Voucher : /\ released'[w] \subseteq released[w]
                             /\ released[w] \subseteq released'[w] \cup {m}
                             /\ w # v => released'[w] = released[w]
      BY <1>1, <1>4 DEF TypeOK
    <2>5. QED
      BY <1>1, <2>1, <2>2, <2>3, <2>4
  <1>5. QED
    BY <1>2, <1>3, <1>4
\* Steps that open and close nothing, and do not lead to opening a session.
LEMMA NoSessionStep ==
    ASSUME VInv, NEW r \in Request,
           \/ RequestStart(r)
           \/ RedeemFound(r) \/ Probe(r) \/ ReleaseRow(r) \/ ReleaseRevoke(r) \/ TakeSlot(r)
           \/ Activate(r) \/ Expire(r) \/ AdmitDevice(r) \/ AutoTouch(r) \/ FindPaid(r)
           \/ FindChanged(r) \/ HandOver(r) \/ Mint(r)
    PROVE  UNCHANGED open /\ rq'[r].pc \notin {"create", "open"}
  <1> TypeOK
    BY DEF VInv
  <1>1. ASSUME NEW k, NEW v \in Voucher, NEW m, ReadVoucher(r, k, v, m)
        PROVE  UNCHANGED open /\ rq'[r].pc \notin {"create", "open"}
    BY <1>1, ReadThere DEF db
  <1>2. CASE RedeemFound(r) \/ \E v \in Voucher, m \in Mac : Redeem(r, v, m)
    BY <1>1, <1>2 DEF RedeemFound, Redeem, VInv, HandlerInv, About, Looking
  <1>3. CASE ReleaseRow(r) \/ Activate(r) \/ AutoTouch(r)
    <2>1. UNCHANGED open /\ \E p \in {"relClose", "close", "admit"} : Goto(r, p)
      BY <1>3 DEF ReleaseRow, Activate, AutoTouch
    <2>2. QED
      BY <2>1, GotoThere
  <1>4. CASE ReleaseRevoke(r)
    BY <1>4, ReleaseRevokeThere DEF db
  <1>5. CASE TakeSlot(r)
    BY <1>5, TakeSlotThere
  <1>6. CASE Expire(r) \/ AdmitDevice(r)
    BY <1>6, ReturnThere DEF Expire, AdmitDevice, db
  <1>7. CASE \E k \in {"auto", "free"}, m \in Mac : AutoLogin(r, k, m)
    BY <1>7, AutoLoginThere DEF db
  <1>8. CASE FindChanged(r)
    BY <1>8, FindChangedThere DEF db
  <1>9. CASE HandOver(r)
    BY <1>9, HandOverThere DEF db
  <1>10. CASE Probe(r)
    BY <1>10, ProbeThere DEF db
  <1>11. CASE FindPaid(r)
    BY <1>11, FindPaidThere DEF db
  <1>12. CASE Mint(r)
    BY <1>12, MintThere
  <1>13. QED
    BY <1>2, <1>3, <1>4, <1>5, <1>6, <1>7, <1>8, <1>9, <1>10, <1>11, <1>12 DEF RequestStart

LEMMA SessionRequest ==
    ASSUME SessionInv, MaxAtOnce = 1, NEW r \in Request, RequestStep(r) \/ RequestStart(r)
    PROVE  SessionInv'
  <1> VInv /\ TypeOK /\ HandlerInv(r)
    BY DEF SessionInv, VInv
  <1>1. VInv'
    BY VouchersNext DEF Next
  <1>2. /\ OneAtATime'
        /\ \A q \in Request : q # r => rq'[q] = rq[q] /\ rq'[q].pc \in {"idle", "done"}
    BY HandlerAlone DEF SessionInv
  <1>3. SUFFICES OneOpenSession' /\ NoneOpen(r)'
    BY <1>1, <1>2 DEF SessionInv, NoneOpen
  <1>4. CASE UNCHANGED open /\ rq'[r].pc \notin {"create", "open"}
    BY <1>4 DEF SessionInv, OneOpenSession, NoneOpen
  <1>5. CASE ReleaseClose(r) \/ ReplaceClose(r)
    <2>1. PICK v \in Voucher, m \in Mac :
              /\ open' = [open EXCEPT ![v][m] = 0]
              /\ ReplaceClose(r) => v = rq[r].v /\ m = rq[r].mac
      BY <1>5 DEF ReleaseClose, ReplaceClose, CloseSessions, HandlerInv, About, Releasing, Looking
    <2>2. \A w \in Voucher, n \in Mac : open'[w][n] = IF w = v /\ n = m THEN 0 ELSE open[w][n]
      BY <2>1 DEF TypeOK
    <2>3. OneOpenSession'
      BY <2>2 DEF SessionInv, OneOpenSession
    <2>4. \/ rq'[r].pc = "relRevoke"
          \/ ReplaceClose(r) /\ rq'[r].v = rq[r].v /\ rq'[r].mac = rq[r].mac
      BY <1>5, GotoKeeps DEF ReleaseClose, ReplaceClose, RequestPc, Keeps
    <2>5. NoneOpen(r)'
      BY <2>1, <2>2, <2>4 DEF NoneOpen
    <2>6. QED
      BY <2>3, <2>5
  <1>6. CASE ReplaceOpen(r) \/ AutoOpen(r)
    <2>1. /\ rq[r].v \in Voucher /\ rq[r].mac \in Mac /\ open[rq[r].v][rq[r].mac] = 0
          /\ open' = [open EXCEPT ![rq[r].v][rq[r].mac] = @ + 1]
      BY <1>6 DEF ReplaceOpen, AutoOpen, OpenSession, HandlerInv, About, Looking, SessionInv, NoneOpen
    <2>2. \A w \in Voucher, n \in Mac :
              open'[w][n] = IF w = rq[r].v /\ n = rq[r].mac THEN 1 ELSE open[w][n]
      BY <2>1 DEF TypeOK
    <2>3. rq'[r].pc \in {"admit", "touch"}
      BY <1>6, GotoThere DEF ReplaceOpen, AutoOpen
    <2>4. QED
      BY <2>2, <2>3 DEF SessionInv, OneOpenSession, NoneOpen
  <1>7. CASE AutoFind(r)
    <2>1. PICK p \in {"open", "touch"} :
              Goto(r, p) /\ (p = "open" => open[rq[r].v][rq[r].mac] = 0) /\ UNCHANGED open
      BY <1>7 DEF AutoFind, db
    <2>2. Keeps(r, p)
      BY <2>1, GotoKeeps DEF RequestPc
    <2>3. QED
      BY <2>1, <2>2 DEF Keeps, SessionInv, OneOpenSession, NoneOpen
  <1>8. QED
    BY <1>4, <1>5, <1>6, <1>7, NoSessionStep DEF RequestStep

\* vouchers.service.ts:177: with one handler at a time a device never has two
\* open sessions on a voucher, whatever the admin and the cron do meanwhile and
\* wherever a crash leaves a handler.
THEOREM SessionsDoNotStack ==
    ASSUME MaxAtOnce = 1
    PROVE  Spec => []OneOpenSession
  <1>1. Init => SessionInv
    BY VouchersInit, InitAlone DEF Init, SessionInv, OneOpenSession, NoneOpen, NoRequest
  <1>2. SessionInv /\ [Next]_vars => SessionInv'
    BY SessionOutside, SessionRequest, OutsideSteps
  <1>3. SessionInv => OneOpenSession
    BY DEF SessionInv
  <1>4. QED
    BY <1>1, <1>2, <1>3, PTL DEF Spec-----------------------------------------------------------------------------
(* The device limit                                                        *)

LEMMA Fewer ==
    ASSUME NEW A \in SUBSET Mac, NEW B \in SUBSET A
    PROVE  Cardinality(A) \in Nat /\ Cardinality(B) \in Nat /\ Cardinality(B) <= Cardinality(A)
  <1>1. IsFiniteSet(A)
    BY FS_Subset, VouchersAssumption
  <1>2. IsFiniteSet(B) /\ Cardinality(B) <= Cardinality(A)
    BY <1>1, FS_Subset
  <1>3. QED
    BY <1>1, <1>2, FS_CardinalityType

LEMMA OneLess ==
    ASSUME NEW A \in SUBSET Mac, NEW d \in A, NEW B \in SUBSET (A \ {d})
    PROVE  Cardinality(B) < Cardinality(A)
  <1>1. IsFiniteSet(A) /\ Cardinality(A) \in Nat
    BY Fewer, FS_Subset, VouchersAssumption
  <1>2. Cardinality(A \ {d}) = Cardinality(A) - 1
    BY <1>1, FS_RemoveElement
  <1>3. Cardinality(B) <= Cardinality(A \ {d}) /\ Cardinality(B) \in Nat
    BY Fewer
  <1>4. QED
    BY <1>1, <1>2, <1>3

LEMMA OneMore ==
    ASSUME NEW A \in SUBSET Mac, NEW m \in Mac, NEW B \in SUBSET Mac, B \ {m} \subseteq A
    PROVE  Cardinality(B) <= Cardinality(A) + 1
  <1>1. B \ {m} \in SUBSET A /\ IsFiniteSet(B) /\ Cardinality(B) \in Nat
    BY Fewer, FS_Subset, VouchersAssumption
  <1>2. Cardinality(B \ {m}) <= Cardinality(A) /\ Cardinality(A) \in Nat
        /\ Cardinality(B \ {m}) \in Nat
    BY <1>1, Fewer
  <1>3. CASE m \in B
    <2>1. Cardinality(B \ {m}) = Cardinality(B) - 1
      BY <1>1, <1>3, FS_RemoveElement
    <2>2. QED
      BY <1>1, <1>2, <2>1
  <1>4. CASE m \notin B
    <2>1. B \ {m} = B
      BY <1>4
    <2>2. QED
      BY <1>2, <2>1
  <1>5. QED
    BY <1>3, <1>4

LEMMA HoldersTyped ==
    ASSUME TypeOK, NEW v \in Voucher
    PROVE  Holders(v) \in SUBSET Mac /\ Cardinality(Holders(v)) \in Nat /\ Limit[v] \in Nat
  <1>1. Holders(v) \in SUBSET Mac
    BY DEF TypeOK, Holders
  <1>2. QED
    BY <1>1, Fewer, VouchersAssumption

\* Room stays room while holders only go.
LEMMA RoomStays ==
    ASSUME TypeOK, NEW v \in Voucher, NEW S, NEW T, Holders(v)' \ T \subseteq Holders(v) \ S,
           Cardinality(Holders(v) \ S) < Limit[v]
    PROVE  Cardinality(Holders(v)' \ T) < Limit[v]
  <1>1. Holders(v) \ S \in SUBSET Mac /\ Limit[v] \in Nat
    BY HoldersTyped
  <1>2. QED
    BY <1>1, Fewer

\* While a handler is on its way to the slot there is room for its device, or
\* the device has the slot; while it is to release a holder, there would be.
MakesRoom(r) ==
    LET v == rq[r].v  m == rq[r].mac IN
    /\ (rq[r].pc = "slot" \/ (rq[r].pc \in {"relClose", "relRevoke"} /\ rq[r].back = "slot"))
          => Bound(m, v) \/ Room(v, {m})
    /\ (rq[r].pc = "relDevice" /\ rq[r].back = "slot")
          => rq[r].old[1] = v /\ Room(v, {m, rq[r].old[2]})
    /\ rq[r].pc = "probe" => \A d \in rq[r].cand : d[1] = v /\ Room(v, {m, d[2]})

LimitInv == VInv /\ OneAtATime /\ WithinLimit /\ \A r \in Request : MakesRoom(r)

\* A handler that waits keeps what it found while holders only go.
LEMMA RoomWaits ==
    ASSUME LimitInv, NEW r \in Request, rq'[r] = rq[r], UNCHANGED <<rows, released>>,
           \A v \in Voucher : Holders(v)' \subseteq Holders(v)
    PROVE  MakesRoom(r)'
  <1> TypeOK /\ MakesRoom(r) /\ About(r)
    BY DEF LimitInv, VInv, HandlerInv
  <1>1. CASE rq[r].pc \in {"slot", "probe"} \cup Releasing
    <2>1. rq[r].v \in Voucher
      BY <1>1 DEF About, Releasing, Looking
    <2>2. ASSUME NEW S, Cardinality(Holders(rq[r].v) \ S) < Limit[rq[r].v]
          PROVE  Cardinality(Holders(rq[r].v)' \ S) < Limit[rq[r].v]
      <3>1. PICK v \in Voucher : v = rq[r].v
        BY <2>1
      <3>2. Holders(v)' \ S \subseteq Holders(v) \ S
        OBVIOUS
      <3>3. Cardinality(Holders(v)' \ S) < Limit[v]
        BY <2>2, <3>1, <3>2, RoomStays
      <3>4. QED
        BY <3>1, <3>3 DEF Holders
    <2>3. QED
      BY <2>2 DEF MakesRoom, Room, Bound, Holders
  <1>2. CASE rq[r].pc \notin {"slot", "probe"} \cup Releasing
    BY <1>2 DEF MakesRoom, Releasing
  <1>3. QED
    BY <1>1, <1>2
LEMMA LimitOutside ==
    ASSUME LimitInv, "unblock" \notin AdminOps, Outside
    PROVE  LimitInv'
  <1> TypeOK
    BY DEF LimitInv, VInv
  <1>1. VInv' /\ OneAtATime'
    BY VouchersNext, OutsideAlone DEF LimitInv, Outside, Next
  <1>2. RowsStand /\ (rq' = rq \/ \A r \in Request : ~Running(r)')
    BY OutsideRows DEF LimitInv
  <1>3. \A v \in Voucher : Holders(v)' \subseteq Holders(v)
    BY <1>2 DEF RowsStand, Holders
  <1>4. ASSUME NEW v \in Voucher PROVE Cardinality(Holders(v)') <= Limit[v]
    <2>1. Cardinality(Holders(v)') <= Cardinality(Holders(v)) /\ Cardinality(Holders(v)') \in Nat
      BY <1>3, HoldersTyped, Fewer
    <2>2. QED
      BY <2>1, HoldersTyped DEF LimitInv, WithinLimit
  <1>5. ASSUME NEW r \in Request PROVE MakesRoom(r)'
    <2>1. CASE rq' = rq
      BY <1>2, <1>3, <2>1, RoomWaits DEF RowsStand
    <2>2. CASE ~Running(r)'
      BY <2>2 DEF MakesRoom, Running
    <2>3. QED
      BY <1>2, <2>1, <2>2
  <1>6. QED
    BY <1>1, <1>4, <1>5 DEF LimitInv, WithinLimit

\* A step that leaves the rows alone, seen from the handler that takes it.
LEMMA LimitQuiet ==
    ASSUME LimitInv, UNCHANGED <<rows, released, blocked>>
    PROVE  WithinLimit' /\ \A v \in Voucher : Holders(v)' = Holders(v)
  BY DEF LimitInv, WithinLimit, Holders

\* The snapshot: the device has a slot, or there is room once one is released.
LEMMA ReadMakesRoom ==
    ASSUME LimitInv, NEW r \in Request, NEW k, NEW v \in Voucher, NEW m, ReadVoucher(r, k, v, m)
    PROVE  WithinLimit' /\ MakesRoom(r)'
  <1> TypeOK
    BY DEF LimitInv, VInv
  <1>1. UNCHANGED db
    BY ReadThere
  <1>2. WithinLimit' /\ rows' = rows /\ released' = released /\ blocked' = blocked
    BY <1>1, LimitQuiet DEF db
  <1>3. ASSUME NEW d \in Holders(v) PROVE Room(v, {m, d})
    <2>1. Holders(v) \ {m, d} \in SUBSET (Holders(v) \ {d})
      OBVIOUS
    <2>2. Cardinality(Holders(v) \ {m, d}) < Cardinality(Holders(v))
      BY <2>1, HoldersTyped, OneLess
    <2>3. Holders(v) \ {m, d} \in SUBSET Mac
      BY HoldersTyped
    <2>4. QED
      BY <2>2, <2>3, HoldersTyped, Fewer DEF LimitInv, WithinLimit, Room
  <1>4. CASE rq'[r].pc = "done"
    BY <1>2, <1>4 DEF MakesRoom
  <1>5. CASE /\ rq'[r].pc = "slot" /\ rq'[r].mac = m /\ rq'[r].v = v
             /\ Bound(m, v) \/ Room(v, {m})
    BY <1>2, <1>5 DEF MakesRoom, Bound, Room, Holders
  <1>6. CASE /\ rq'[r].pc = "relDevice" /\ rq'[r].mac = m /\ rq'[r].v = v
             /\ rq'[r].old[1] = v /\ rq'[r].old[2] \in Holders(v)
    BY <1>2, <1>3, <1>6 DEF MakesRoom, Room, Holders
  <1>7. CASE /\ rq'[r].pc = "probe" /\ rq'[r].mac = m /\ rq'[r].v = v
             /\ \A d \in rq'[r].cand : d[1] = v /\ d[2] \in Holders(v)
    BY <1>2, <1>3, <1>7 DEF MakesRoom, Room, Holders
  <1>8. \/ rq'[r].pc = "done"
        \/ /\ rq'[r].mac = m /\ rq'[r].v = v /\ rq'[r].back = "slot"
           /\ rq'[r].first = (status[v] = "UNUSED")
           /\ m \notin blocked[v]
           /\ \/ rq'[r].pc = "slot" /\ (Bound(m, v) \/ Room(v, {m}))
              \/ /\ rq'[r].pc = "relDevice" /\ ~Bound(m, v) /\ rq'[r].old[1] = v
                 /\ rq'[r].old[2] \in Holders(v)
              \/ /\ rq'[r].pc = "probe" /\ ~Bound(m, v)
                 /\ \A d \in rq'[r].cand : d[1] = v /\ d[2] \in Holders(v)
    BY ReadThere
  <1>9. MakesRoom(r)'
    BY <1>4, <1>5, <1>6, <1>7, <1>8
  <1>10. QED
    BY <1>2, <1>9

LEMMA ProbeMakesRoom ==
    ASSUME LimitInv, NEW r \in Request, Probe(r)
    PROVE  WithinLimit' /\ MakesRoom(r)'
  <1> TypeOK /\ MakesRoom(r)
    BY DEF LimitInv, VInv
  <1>1. UNCHANGED db /\ rq[r].pc = "probe"
    BY ProbeThere
  <1>2. WithinLimit' /\ rows' = rows /\ released' = released /\ blocked' = blocked
    BY <1>1, LimitQuiet DEF db
  <1>3. \A d \in rq[r].cand : d[1] = rq[r].v /\ Room(rq[r].v, {rq[r].mac, d[2]})
    BY <1>1 DEF MakesRoom
  <1>4. CASE rq'[r].pc = "done"
    BY <1>2, <1>4 DEF MakesRoom
  <1>5. CASE /\ rq'[r].mac = rq[r].mac /\ rq'[r].v = rq[r].v
             /\ \/ rq'[r].pc = "relDevice" /\ rq'[r].old \in rq[r].cand
                \/ rq'[r].pc = "probe" /\ rq'[r].cand \subseteq rq[r].cand
    BY <1>2, <1>3, <1>5 DEF MakesRoom, Room, Holders
  <1>6. QED
    BY <1>4, <1>5, ProbeThere

\* Releasing the holder makes the room.
LEMMA ReleaseRowMakesRoom ==
    ASSUME LimitInv, NEW r \in Request, ReleaseRow(r)
    PROVE  WithinLimit' /\ MakesRoom(r)'
  <1> TypeOK /\ MakesRoom(r) /\ About(r)
    BY DEF LimitInv, VInv, HandlerInv
  <1>1. /\ rq[r].pc = "relDevice" /\ Goto(r, "relClose")
        /\ released' = [released EXCEPT ![rq[r].old[1]] = @ \cup {rq[r].old[2]}]
        /\ UNCHANGED <<rows, blocked>>
    BY DEF ReleaseRow
  <1>2. rq[r].old[1] \in Voucher /\ rq[r].v \in Voucher
    BY <1>1 DEF About, Releasing, Looking
  <1>3. \A v \in Voucher : Holders(v)' =
            IF v = rq[r].old[1] THEN Holders(v) \ {rq[r].old[2]} ELSE Holders(v)
    BY <1>1, <1>2 DEF Holders, TypeOK
  <1>4. ASSUME NEW v \in Voucher PROVE Cardinality(Holders(v)') <= Limit[v]
    <2>1. Cardinality(Holders(v)') <= Cardinality(Holders(v)) /\ Cardinality(Holders(v)') \in Nat
      BY <1>3, HoldersTyped, Fewer
    <2>2. QED
      BY <2>1, HoldersTyped DEF LimitInv, WithinLimit
  <1>5. /\ rq'[r].pc = "relClose" /\ rq'[r].mac = rq[r].mac /\ rq'[r].v = rq[r].v
        /\ rq'[r].back = rq[r].back
    BY <1>1, GotoThere
  <1>6. ASSUME rq[r].back = "slot"
        PROVE  Cardinality(Holders(rq[r].v)' \ {rq[r].mac}) < Limit[rq[r].v]
    <2>1. PICK v \in Voucher : v = rq[r].v
      BY <1>2
    <2>2. rq[r].old[1] = v /\ Cardinality(Holders(v) \ {rq[r].mac, rq[r].old[2]}) < Limit[v]
      BY <1>1, <1>6, <2>1 DEF MakesRoom, Room
    <2>3. Holders(v)' \ {rq[r].mac} = Holders(v) \ {rq[r].mac, rq[r].old[2]}
      BY <1>3, <2>2
    <2>4. QED
      BY <1>5, <2>1, <2>2, <2>3 DEF Holders
  <1>7. MakesRoom(r)'
    BY <1>5, <1>6 DEF MakesRoom, Room, Holders
  <1>8. QED
    BY <1>4, <1>7 DEF WithinLimit

\* Taking the slot fills the room there was, or changes nothing.
LEMMA TakeSlotFits ==
    ASSUME LimitInv, NEW r \in Request, TakeSlot(r)
    PROVE  WithinLimit' /\ MakesRoom(r)'
  <1> VInv /\ TypeOK /\ VInv' /\ TypeOK' /\ MakesRoom(r)
    BY VouchersNext DEF LimitInv, VInv, Next, RequestStep
  <1> DEFINE m == rq[r].mac
  <1>1. PICK v \in Voucher : v = rq[r].v
    BY TakeSlotThere
  <1>2. rq[r].pc = "slot" /\ m \in Mac /\ blocked' = blocked
    BY TakeSlotThere
  <1>3. CASE rq'[r].pc = "done" /\ UNCHANGED <<rows, released>>
    BY <1>2, <1>3, LimitQuiet DEF MakesRoom
  <1>4. CASE /\ rq'[r].pc \in {"activate", "expire", "close"}
             /\ \A w \in Voucher : rows'[w] = IF w = v THEN rows[w] \cup {m} ELSE rows[w]
             /\ \A w \in Voucher : /\ released'[w] \subseteq released[w]
                                   /\ released[w] \subseteq released'[w] \cup {m}
                                   /\ w # v => released'[w] = released[w]
    <2>1. \A w \in Voucher : w # v => Holders(w)' = Holders(w)
      BY <1>2, <1>4 DEF Holders
    <2>2. Cardinality(Holders(v)') <= Limit[v]
      <3>1. Holders(v)' \in SUBSET Mac
        BY DEF TypeOK, Holders
      <3>2. CASE Bound(m, v)
        <4>1. Holders(v)' \in SUBSET Holders(v)
          BY <1>2, <1>4, <3>2 DEF Holders, Bound
        <4>2. QED
          BY <4>1, HoldersTyped, Fewer DEF LimitInv, WithinLimit
      <3>3. CASE Cardinality(Holders(v) \ {m}) < Limit[v]
        <4>1. Holders(v)' \ {m} \subseteq Holders(v) \ {m}
          BY <1>2, <1>4 DEF Holders
        <4>2. Holders(v) \ {m} \in SUBSET Mac /\ Cardinality(Holders(v) \ {m}) \in Nat
          BY HoldersTyped, Fewer
        <4>3. Cardinality(Holders(v)') <= Cardinality(Holders(v) \ {m}) + 1
          BY <1>2, <3>1, <4>1, <4>2, OneMore
        <4>4. Cardinality(Holders(v)') \in Nat /\ Limit[v] \in Nat
          BY <3>1, HoldersTyped, Fewer
        <4>5. QED
          BY <3>3, <4>2, <4>3, <4>4
      <3>4. QED
        BY <1>1, <1>2, <3>2, <3>3 DEF MakesRoom, Room
    <2>3. QED
      BY <1>4, <2>1, <2>2 DEF LimitInv, WithinLimit, MakesRoom
  <1>5. QED
    BY <1>1, <1>3, <1>4, TakeSlotThere

\* Between the release and the slot the room stays.
LEMMA ReleaseKeepsRoom ==
    ASSUME LimitInv, NEW r \in Request, ReleaseClose(r) \/ ReleaseRevoke(r)
    PROVE  WithinLimit' /\ MakesRoom(r)'
  <1> TypeOK /\ MakesRoom(r)
    BY DEF LimitInv, VInv
  <1>1. rows' = rows /\ released' = released /\ blocked' = blocked
    BY DEF ReleaseClose, ReleaseRevoke, db
  <1>2. WithinLimit'
    BY <1>1, LimitQuiet
  <1>3. /\ rq[r].pc \in {"relClose", "relRevoke"}
        /\ rq'[r].mac = rq[r].mac /\ rq'[r].v = rq[r].v /\ rq'[r].back = rq[r].back
        /\ rq'[r].pc = "relRevoke" \/ (rq'[r].pc = rq[r].back /\ rq[r].back \in {"slot", "read"})
    <2>1. CASE ReleaseClose(r)
      BY <2>1, GotoThere DEF ReleaseClose
    <2>2. CASE ReleaseRevoke(r)
      BY <2>2, ReleaseRevokeThere
    <2>3. QED
      BY <2>1, <2>2
  <1>4. MakesRoom(r)'
    BY <1>1, <1>3 DEF MakesRoom, Room, Bound, Holders
  <1>5. QED
    BY <1>2, <1>4
\* No other step of a handler touches the holders or leads to the slot.
LEMMA ElsewhereFits ==
    ASSUME LimitInv, NEW r \in Request,
           \/ Activate(r) \/ Expire(r) \/ ReplaceClose(r) \/ ReplaceOpen(r) \/ AdmitDevice(r)
           \/ AutoFind(r) \/ AutoOpen(r) \/ AutoTouch(r)
           \/ FindPaid(r) \/ FindChanged(r) \/ HandOver(r) \/ Mint(r)
           \/ \E k \in {"auto", "free"}, m \in Mac : AutoLogin(r, k, m)
    PROVE  WithinLimit' /\ MakesRoom(r)'
  <1> TypeOK
    BY DEF LimitInv, VInv
  <1> SUFFICES /\ rows' = rows /\ released' = released /\ blocked' = blocked
               /\ \/ rq'[r].pc \notin {"slot", "probe"} \cup Releasing
                  \/ rq'[r].pc = "relDevice" /\ rq'[r].back = "read"
    BY LimitQuiet DEF MakesRoom, Releasing
  <1>1. CASE \/ Activate(r) \/ ReplaceClose(r) \/ ReplaceOpen(r)
             \/ AutoFind(r) \/ AutoOpen(r) \/ AutoTouch(r)
    <2>1. /\ \E p \in {"close", "create", "admit", "open", "touch"} : Goto(r, p)
          /\ rows' = rows /\ released' = released /\ blocked' = blocked
      BY <1>1 DEF Activate, ReplaceClose, ReplaceOpen, AutoFind, AutoOpen, AutoTouch, db
    <2>2. rq'[r].pc \in {"close", "create", "admit", "open", "touch"}
      BY <2>1, GotoThere
    <2>3. QED
      BY <2>1, <2>2 DEF Releasing
  <1>2. CASE Expire(r) \/ AdmitDevice(r)
    <2>1. Return(r) /\ rows' = rows /\ released' = released /\ blocked' = blocked
      BY <1>2 DEF Expire, AdmitDevice, db
    <2>2. QED
      BY <2>1, ReturnThere DEF Releasing
  <1>3. CASE FindPaid(r)
    BY <1>3, FindPaidThere DEF Releasing, db
  <1>4. CASE FindChanged(r)
    BY <1>4, FindChangedThere DEF Releasing, db
  <1>5. CASE HandOver(r)
    BY <1>5, HandOverThere DEF Releasing, db
  <1>6. CASE Mint(r)
    BY <1>6, MintThere DEF Releasing
  <1>7. CASE \E k \in {"auto", "free"}, m \in Mac : AutoLogin(r, k, m)
    BY <1>7, AutoLoginThere DEF Releasing, db
  <1>8. QED
    BY <1>1, <1>2, <1>3, <1>4, <1>5, <1>6, <1>7

LEMMA LimitRequest ==
    ASSUME LimitInv, MaxAtOnce = 1, NEW r \in Request, RequestStep(r) \/ RequestStart(r)
    PROVE  LimitInv'
  <1> VInv /\ TypeOK /\ About(r)
    BY DEF LimitInv, VInv, HandlerInv
  <1>1. VInv'
    BY VouchersNext DEF Next
  <1>2. /\ OneAtATime'
        /\ \A q \in Request : q # r => rq'[q].pc \in {"idle", "done"}
    BY HandlerAlone DEF LimitInv
  <1>3. \A q \in Request : q # r => MakesRoom(q)'
    BY <1>2 DEF MakesRoom
  <1>4. SUFFICES WithinLimit' /\ MakesRoom(r)'
    BY <1>1, <1>2, <1>3 DEF LimitInv
  <1>5. CASE RedeemFound(r) \/ \E v \in Voucher, m \in Mac : Redeem(r, v, m)
    BY <1>5, ReadMakesRoom DEF RedeemFound, Redeem, About, Looking
  <1>6. CASE Probe(r) \/ ReleaseRow(r) \/ ReleaseClose(r) \/ ReleaseRevoke(r) \/ TakeSlot(r)
    BY <1>6, ProbeMakesRoom, ReleaseRowMakesRoom, ReleaseKeepsRoom, TakeSlotFits
  <1>7. QED
    BY <1>5, <1>6, ElsewhereFits DEF RequestStep, RequestStart

LEMMA LimitInit == Init => LimitInv
  <1> SUFFICES ASSUME Init PROVE LimitInv
    OBVIOUS
  <1>1. WithinLimit
    <2> SUFFICES ASSUME NEW v \in Voucher PROVE Cardinality(Holders(v)) <= Limit[v]
      BY DEF WithinLimit
    <2>1. Holders(v) = {}
      BY DEF Init, Holders
    <2>2. Limit[v] \in Nat
      BY VouchersAssumption
    <2>3. QED
      BY <2>1, <2>2, FS_EmptySet
  <1>2. \A r \in Request : MakesRoom(r)
    BY DEF Init, MakesRoom, NoRequest
  <1>3. QED
    BY <1>1, <1>2, VouchersInit, InitAlone DEF LimitInv

\* ARCHITECTURE.md section 4: with one handler at a time, and no device taken
\* off the block list, a voucher never has more than deviceLimit devices.
THEOREM DeviceLimitHolds ==
    ASSUME MaxAtOnce = 1, "unblock" \notin AdminOps
    PROVE  Spec => []WithinLimit
  <1>1. LimitInv /\ [Next]_vars => LimitInv'
    BY LimitOutside, LimitRequest, OutsideSteps
  <1>2. LimitInv => WithinLimit
    BY DEF LimitInv
  <1>3. QED
    BY <1>1, <1>2, LimitInit, PTL DEF Spec-----------------------------------------------------------------------------
(* One free voucher                                                        *)

\* What the free vouchers are: only freeConnect makes and redeems them.
FreeAreFree ==
    /\ Typed \cap FreeVoucher = {}
    /\ \A v \in FreeVoucher : Payer[v] \notin Mac

Live(v, m) == m \in Holders(v) /\ status[v] = "ACTIVE" /\ Usable(v)

\* On its way to a slot, a handler knows of no other live free voucher of its
\* device, and the one it activates has no other device.
Redeeming == {"probe", "slot", "activate"} \cup Releasing
OnlyOne(r) ==
    LET v == rq[r].v  m == rq[r].mac IN
    /\ rq[r].pc \in Looking => \A w \in FreeVoucher : ~Live(w, m)
    /\ rq[r].pc \in Redeeming \cup {"read"} /\ v \in FreeVoucher
          => \A w \in FreeVoucher : Live(w, m) => w = v
    /\ rq[r].pc \in Redeeming /\ rq[r].first /\ v \in FreeVoucher => rows[v] \subseteq {m}
    /\ rq[r].pc = "hand" => \A p \in rq[r].cand : p[1] \in FreeVoucher => Used(p[1])
    /\ rq[r].pc \in Releasing /\ rq[r].back = "read" /\ v \in FreeVoucher => Used(v)
    /\ rq[r].pc = "read" /\ v \in FreeVoucher /\ status[v] = "UNUSED" => rows[v] = {}

FreeRows ==
    /\ \A m \in Mac, v, w \in FreeVoucher : Live(v, m) /\ Live(w, m) => v = w
    /\ \A v \in FreeVoucher : status[v] = "NONE" => rows[v] = {}

FreeInv == VInv /\ OneAtATime /\ FreeRows /\ \A r \in Request : OnlyOne(r)

\* Free vouchers lose devices and gain none.
Fades ==
    /\ \A w \in FreeVoucher, m \in Mac : Live(w, m)' => Live(w, m)
    /\ \A w \in FreeVoucher : rows'[w] = rows[w] /\ (status'[w] = "NONE" => status[w] = "NONE")

LEMMA FreeRowsFade ==
    ASSUME FreeRows, Fades
    PROVE  FreeRows'
  <1>1. \A m \in Mac, v, w \in FreeVoucher : Live(v, m)' /\ Live(w, m)' => v = w
    BY DEF FreeRows, Fades
  <1>2. \A v \in FreeVoucher : status'[v] = "NONE" => rows'[v] = {}
    BY DEF FreeRows, Fades
  <1>3. QED
    BY <1>1, <1>2 DEF FreeRows

LEMMA StandingFades ==
    ASSUME RowsStand, "unblock" \notin AdminOps
    PROVE  Fades
  <1> USE VouchersAssumption
  <1>1. \A w \in FreeVoucher : w \in Voucher
    OBVIOUS
  <1>2. ASSUME NEW w \in FreeVoucher, NEW m \in Mac, Live(w, m)'
        PROVE  Live(w, m)
    BY <1>1, <1>2 DEF RowsStand, Live, Holders, Usable
  <1>3. QED
    BY <1>1, <1>2 DEF RowsStand, Fades

LEMMA FreeOutside ==
    ASSUME FreeInv, "unblock" \notin AdminOps, Outside
    PROVE  FreeInv'
  <1> VInv /\ TypeOK
    BY DEF FreeInv, VInv
  <1>1. VInv' /\ OneAtATime'
    BY VouchersNext, OutsideAlone DEF FreeInv, Outside, Next
  <1>2. RowsStand /\ (rq' = rq \/ \A r \in Request : ~Running(r)')
    BY OutsideRows
  <1>3. Fades
    BY <1>2, StandingFades
  <1>4. FreeRows'
    BY <1>3, FreeRowsFade DEF FreeInv
  <1>5. \A w \in FreeVoucher : w \in Voucher /\ (Used(w) => Used(w)')
                               /\ (status'[w] = "UNUSED" => status[w] = "UNUSED")
    BY <1>2, VouchersAssumption DEF RowsStand, Used
  <1>6. ASSUME NEW r \in Request PROVE OnlyOne(r)'
    <2>1. CASE rq' = rq
      <3>1. OnlyOne(r) /\ (rq[r].pc \in Redeeming \cup Looking \cup {"read"} => rq[r].mac \in Mac)
        BY DEF FreeInv, VInv, HandlerInv, About, Redeeming, Looking, Releasing
      <3>2. QED
        BY <1>3, <1>5, <2>1, <3>1 DEF OnlyOne, Fades, Used
    <2>2. CASE ~Running(r)'
      BY <2>2 DEF OnlyOne, Running, Redeeming, Looking, Releasing
    <2>3. QED
      BY <1>2, <2>1, <2>2
  <1>7. QED
    BY <1>1, <1>4, <1>6 DEF FreeInv

LEMMA FreeQuiet ==
    ASSUME UNCHANGED <<status, deadline, spent, rows, released, blocked>>
    PROVE  Fades /\ \A w, m : Live(w, m)' <=> Live(w, m)
  BY DEF Fades, Live, Holders, Usable
LEMMA ReadOnlyOne ==
    ASSUME FreeInv, NEW r \in Request, NEW k, NEW v \in Voucher, NEW m,
           ReadVoucher(r, k, v, m),
           v \notin FreeVoucher \/ (rq[r].pc = "read" /\ v = rq[r].v /\ m = rq[r].mac)
    PROVE  FreeRows' /\ OnlyOne(r)'
  <1> VInv /\ TypeOK /\ OnlyOne(r) /\ About(r) /\ FreeRows
    BY DEF FreeInv, VInv, HandlerInv
  <1>2. /\ UNCHANGED db
        /\ \/ rq'[r].pc = "done"
           \/ /\ rq'[r].mac = m /\ rq'[r].v = v /\ rq'[r].back = "slot"
              /\ rq'[r].first = (status[v] = "UNUSED")
              /\ rq'[r].pc \in {"slot", "relDevice", "probe"}
    <2>1. UNCHANGED db
      BY ReadThere
    <2>2. \/ rq'[r].pc = "done"
          \/ /\ rq'[r].mac = m /\ rq'[r].v = v /\ rq'[r].back = "slot"
             /\ rq'[r].first = (status[v] = "UNUSED")
             /\ m \notin blocked[v]
             /\ \/ rq'[r].pc = "slot" /\ (Bound(m, v) \/ Room(v, {m}))
                \/ /\ rq'[r].pc = "relDevice" /\ ~Bound(m, v) /\ rq'[r].old[1] = v
                   /\ rq'[r].old[2] \in Holders(v)
                \/ /\ rq'[r].pc = "probe" /\ ~Bound(m, v)
                   /\ \A d \in rq'[r].cand : d[1] = v /\ d[2] \in Holders(v)
      BY ReadThere
    <2>3. QED
      BY <2>1, <2>2
  <1>3. Fades /\ \A w, n : Live(w, n)' <=> Live(w, n)
    BY <1>2, FreeQuiet DEF db
  <1>4. FreeRows'
    BY <1>3, FreeRowsFade
  <1>5. CASE v \notin FreeVoucher
    BY <1>2, <1>4, <1>5 DEF OnlyOne, Redeeming, Releasing, Looking
  <1>6. CASE v \in FreeVoucher
    <2>1. /\ \A w \in FreeVoucher : Live(w, m)' => w = v
          /\ status[v] = "UNUSED" => rows[v] = {}
      BY <1>3, <1>6 DEF OnlyOne
    <2>2. rows' = rows
      BY <1>2 DEF db
    <2>3. QED
      BY <1>2, <1>4, <2>1, <2>2 DEF OnlyOne, Redeeming, Releasing, Looking
  <1>7. QED
    BY <1>5, <1>6

\* Up to the slot a handler stays with its voucher and device.
LEMMA ReleaseOnlyOne ==
    ASSUME FreeInv, NEW r \in Request,
           Probe(r) \/ ReleaseRow(r) \/ ReleaseClose(r) \/ ReleaseRevoke(r)
    PROVE  FreeRows' /\ OnlyOne(r)'
  <1> VInv /\ TypeOK /\ OnlyOne(r) /\ About(r) /\ FreeRows
    BY DEF FreeInv, VInv, HandlerInv
  <1>1. Fades /\ rows' = rows /\ status' = status
    <2>1. CASE ReleaseRow(r)
      <3>1. /\ rq[r].old[1] \in Voucher /\ UNCHANGED <<status, deadline, spent, rows, blocked>>
            /\ released' = [released EXCEPT ![rq[r].old[1]] = @ \cup {rq[r].old[2]}]
        BY <2>1 DEF ReleaseRow, About, Releasing
      <3>2. \A w \in Voucher : released[w] \subseteq released'[w]
        BY <3>1 DEF TypeOK
      <3>3. \A w \in FreeVoucher : w \in Voucher
        BY VouchersAssumption
      <3>4. QED
        BY <3>1, <3>2, <3>3 DEF Fades, Live, Holders, Usable
    <2>2. CASE Probe(r) \/ ReleaseClose(r) \/ ReleaseRevoke(r)
      <3>1. UNCHANGED <<status, deadline, spent, rows, released, blocked>>
        BY <2>2, ProbeThere DEF ReleaseClose, ReleaseRevoke, db
      <3>2. QED
        BY <3>1, FreeQuiet
    <2>3. QED
      BY <2>1, <2>2
  <1>2. FreeRows'
    BY <1>1, FreeRowsFade
  <1>3. \/ rq'[r].pc = "done"
        \/ /\ rq[r].pc \in Redeeming /\ rq'[r].pc \in (Redeeming \ {"activate"}) \cup {"read"}
           /\ rq'[r].mac = rq[r].mac /\ rq'[r].v = rq[r].v /\ rq'[r].back = rq[r].back
           /\ rq'[r].first = rq[r].first
           /\ rq'[r].pc = "read" => rq[r].pc \in Releasing /\ rq[r].back = "read"
           /\ rq[r].pc \in Releasing \/ rq[r].back = "slot"
    <2>1. CASE Probe(r)
      <3>1. rq[r].pc = "probe" /\ rq[r].back = "slot"
        BY <2>1, ProbeThere DEF About
      <3>2. \/ rq'[r].pc = "done"
            \/ /\ rq'[r].mac = rq[r].mac /\ rq'[r].v = rq[r].v /\ rq'[r].back = rq[r].back
               /\ rq'[r].first = rq[r].first
               /\ \/ rq'[r].pc = "relDevice" /\ rq'[r].old \in rq[r].cand
                  \/ rq'[r].pc = "probe" /\ rq'[r].cand \subseteq rq[r].cand
        BY <2>1, ProbeThere
      <3>3. QED
        BY <3>1, <3>2 DEF Redeeming, Releasing
    <2>2. CASE ReleaseRow(r) \/ ReleaseClose(r)
      <3>1. PICK p \in {"relClose", "relRevoke"} : Goto(r, p)
        BY <2>2 DEF ReleaseRow, ReleaseClose
      <3>2. rq[r].pc \in Releasing
        BY <2>2 DEF ReleaseRow, ReleaseClose, Releasing
      <3>3. /\ rq'[r].pc = p /\ rq'[r].mac = rq[r].mac /\ rq'[r].v = rq[r].v
            /\ rq'[r].back = rq[r].back /\ rq'[r].first = rq[r].first
        BY <3>1, GotoThere
      <3>4. QED
        BY <3>2, <3>3 DEF Redeeming, Releasing
    <2>3. CASE ReleaseRevoke(r)
      BY <2>3, ReleaseRevokeThere DEF Redeeming, Releasing
    <2>4. QED
      BY <2>1, <2>2, <2>3
  <1>4. CASE rq'[r].pc = "done"
    BY <1>2, <1>4 DEF OnlyOne, Redeeming, Releasing, Looking
  <1>5. CASE /\ rq[r].pc \in Redeeming /\ rq'[r].pc \in (Redeeming \ {"activate"}) \cup {"read"}
             /\ rq'[r].mac = rq[r].mac /\ rq'[r].v = rq[r].v /\ rq'[r].back = rq[r].back
             /\ rq'[r].first = rq[r].first
             /\ rq'[r].pc = "read" => rq[r].pc \in Releasing /\ rq[r].back = "read"
             /\ rq[r].pc \in Releasing \/ rq[r].back = "slot"
    <2>1. rq[r].mac \in Mac
      BY <1>5 DEF About, Redeeming, Releasing
    <2>2. \A w \in FreeVoucher : (Live(w, rq[r].mac) /\ rq[r].v \in FreeVoucher) => w = rq[r].v
      BY <1>5 DEF OnlyOne
    <2>3. rq'[r].pc \notin Looking /\ rq'[r].pc # "hand"
      BY <1>5 DEF Redeeming, Releasing, Looking
    <2>4. QED
      BY <1>1, <1>2, <1>5, <2>1, <2>2, <2>3 DEF OnlyOne, Fades, Used
  <1>6. QED
    BY <1>3, <1>4, <1>5
\* Looking for an entitlement, a handler found no live login of its device.
LEMMA LookOnlyOne ==
    ASSUME FreeInv, FreeAreFree, NEW r \in Request,
           FindPaid(r) \/ FindChanged(r) \/ HandOver(r)
    PROVE  FreeRows' /\ OnlyOne(r)'
  <1> VInv /\ TypeOK /\ OnlyOne(r) /\ About(r) /\ InTime(r) /\ FreeRows
    BY DEF FreeInv, VInv, HandlerInv
  <1>1. UNCHANGED db
    BY FindPaidThere, FindChangedThere, HandOverThere
  <1>2. Fades /\ (\A w, n : Live(w, n)' <=> Live(w, n)) /\ status' = status
    BY <1>1, FreeQuiet DEF db
  <1>3. FreeRows'
    BY <1>2, FreeRowsFade
  <1>4. /\ rq[r].pc \in Looking /\ rq[r].mac \in Mac /\ ~rq[r].first
        /\ \A w \in FreeVoucher : ~Live(w, rq[r].mac)
    BY DEF FindPaid, FindChanged, HandOver, Looking, About, InTime, OnlyOne
  <1>5. CASE rq'[r].pc = "done"
    BY <1>3, <1>5 DEF OnlyOne, Redeeming, Releasing, Looking
  <1>6. CASE /\ rq'[r].pc \in {"changed", "mint"} /\ rq'[r].mac = rq[r].mac
    BY <1>2, <1>3, <1>4, <1>6 DEF OnlyOne, Redeeming, Releasing, Looking
  <1>7. CASE /\ rq'[r].pc = "read" /\ rq'[r].v \notin FreeVoucher
    BY <1>3, <1>7 DEF OnlyOne, Redeeming, Releasing, Looking
  <1>8. CASE /\ rq'[r].pc = "hand" /\ rq'[r].mac = rq[r].mac
             /\ \A p \in rq'[r].cand : p[1] \in FreeVoucher => Used(p[1])
    <2>1. \A p \in rq'[r].cand : p[1] \in FreeVoucher => status'[p[1]] \notin {"NONE", "UNUSED"}
      BY <1>2, <1>8 DEF Used
    <2>2. QED
      BY <1>2, <1>3, <1>4, <1>8, <2>1 DEF OnlyOne, Redeeming, Releasing, Looking, Used
  <1>9. CASE /\ rq'[r].pc = "relDevice" /\ rq'[r].mac = rq[r].mac /\ ~rq'[r].first
             /\ rq'[r].v \in FreeVoucher => status[rq'[r].v] \notin {"NONE", "UNUSED"}
    BY <1>2, <1>3, <1>4, <1>9 DEF OnlyOne, Redeeming, Releasing, Looking, Used
  <1>10. CASE FindPaid(r)
    <2>1. \/ rq'[r].pc = "read" /\ rq'[r].v \in Voucher /\ Payer[rq'[r].v] = rq[r].mac
          \/ rq'[r].pc = "changed" /\ rq'[r].mac = rq[r].mac
      BY <1>10, FindPaidThere
    <2>2. QED
      BY <1>4, <1>6, <1>7, <2>1 DEF FreeAreFree
  <1>11. CASE FindChanged(r)
    <2>1. \/ rq'[r].pc = "done"
          \/ rq'[r].mac = rq[r].mac /\ rq'[r].pc = "mint"
          \/ /\ rq'[r].mac = rq[r].mac /\ rq'[r].pc = "hand"
             /\ \A p \in rq'[r].cand : status[p[1]] = "ACTIVE"
      BY <1>11, FindChangedThere
    <2>2. QED
      BY <1>5, <1>6, <1>8, <2>1 DEF Used
  <1>12. CASE HandOver(r)
    <2>1. rq[r].pc = "hand" /\ \A p \in rq[r].cand : p[1] \in FreeVoucher => Used(p[1])
      BY <1>12 DEF HandOver, OnlyOne
    <2>2. \/ rq'[r].pc = "done"
          \/ rq'[r].mac = rq[r].mac /\ rq'[r].pc = "mint"
          \/ rq'[r].mac = rq[r].mac /\ rq'[r].pc = "hand" /\ rq'[r].cand \subseteq rq[r].cand
          \/ /\ rq'[r].mac = rq[r].mac /\ rq'[r].first = rq[r].first /\ rq'[r].pc = "relDevice"
             /\ \E p \in rq[r].cand : rq'[r].v = p[1]
      BY <1>12, HandOverThere
    <2>3. QED
      BY <1>4, <1>5, <1>6, <1>8, <1>9, <2>1, <2>2 DEF Used
  <1>13. QED
    BY <1>10, <1>11, <1>12

\* autoLogin goes looking only when nothing live was found.
LEMMA AutoLoginOnlyOne ==
    ASSUME FreeInv, NEW r \in Request, NEW k, NEW m, AutoLogin(r, k, m)
    PROVE  FreeRows' /\ OnlyOne(r)'
  <1> VInv /\ TypeOK /\ FreeRows
    BY DEF FreeInv, VInv
  <1>1. /\ UNCHANGED db /\ rq'[r].mac = m
        /\ \/ rq'[r].pc = "find"
           \/ rq'[r].pc = "paid" /\ LiveOn(m) = {}
    BY AutoLoginThere
  <1>2. Fades /\ \A w, n : Live(w, n)' <=> Live(w, n)
    BY <1>1, FreeQuiet DEF db
  <1>3. FreeRows'
    BY <1>2, FreeRowsFade
  <1>4. CASE rq'[r].pc = "find"
    BY <1>3, <1>4 DEF OnlyOne, Redeeming, Releasing, Looking
  <1>5. CASE rq'[r].pc = "paid" /\ LiveOn(m) = {}
    <2>1. \A w \in FreeVoucher : ~Live(w, m)
      BY <1>5, VouchersAssumption DEF LiveOn, Live
    <2>2. QED
      BY <1>1, <1>2, <1>3, <1>5, <2>1 DEF OnlyOne, Redeeming, Releasing, Looking
  <1>6. QED
    BY <1>1, <1>4, <1>5

\* freeConnect's new voucher has nobody on it.
LEMMA MintOnlyOne ==
    ASSUME FreeInv, NEW r \in Request, Mint(r)
    PROVE  FreeRows' /\ OnlyOne(r)'
  <1> VInv /\ TypeOK /\ OnlyOne(r) /\ FreeRows
    BY DEF FreeInv, VInv
  <1>1. /\ rq[r].pc = "mint" /\ rq'[r].pc = "read" /\ rq'[r].mac = rq[r].mac
        /\ UNCHANGED <<deadline, spent, rows, released, blocked>>
    BY MintThere
  <1>2. PICK v \in FreeVoucher : /\ rq'[r].v = v /\ status[v] = "NONE"
                                 /\ status' = [status EXCEPT ![v] = "UNUSED"]
    BY MintThere
  <1>3. \A w \in Voucher : status'[w] = IF w = v THEN "UNUSED" ELSE status[w]
    BY <1>2 DEF TypeOK
  <1>4. Fades
    BY <1>1, <1>3, VouchersAssumption DEF Fades, Live, Holders, Usable
  <1>5. FreeRows'
    BY <1>4, FreeRowsFade
  <1>6. rows'[v] = {} /\ \A w \in FreeVoucher : ~Live(w, rq[r].mac)
    BY <1>1, <1>2 DEF FreeRows, OnlyOne, Looking
  <1>7. rq[r].mac \in Mac
    BY <1>1 DEF FreeInv, VInv, HandlerInv, About
  <1>8. OnlyOne(r)'
    BY <1>1, <1>2, <1>4, <1>6, <1>7 DEF OnlyOne, Fades, Redeeming, Releasing, Looking
  <1>9. QED
    BY <1>5, <1>8

\* A handler puts only its own device on its voucher, or makes it live there.
LEMMA GainsOnlyOne ==
    ASSUME FreeInv, NEW r \in Request, NEW v \in FreeVoucher, NEW m \in Mac,
           \A w \in FreeVoucher : Live(w, m) => w = v,
           \A w \in FreeVoucher, n \in Mac : Live(w, n)' => Live(w, n) \/ (w = v /\ n = m),
           \A w \in FreeVoucher : /\ status'[w] = "NONE" => status[w] = "NONE"
                                  /\ rows'[w] = rows[w] \/ status[w] # "NONE"
    PROVE  FreeRows' /\ \A w \in FreeVoucher : Live(w, m)' => w = v
  <1>1. FreeRows
    BY DEF FreeInv
  <1>2. \A n \in Mac, w, u \in FreeVoucher : Live(w, n)' /\ Live(u, n)' => w = u
    BY <1>1 DEF FreeRows
  <1>3. \A w \in FreeVoucher : status'[w] = "NONE" => rows'[w] = {}
    BY <1>1 DEF FreeRows
  <1>4. QED
    BY <1>2, <1>3 DEF FreeRows
LEMMA TakeSlotOnlyOne ==
    ASSUME FreeInv, NEW r \in Request, TakeSlot(r)
    PROVE  FreeRows' /\ OnlyOne(r)'
  <1> VInv /\ TypeOK /\ OnlyOne(r) /\ FreeRows /\ HandlerInv(r)
    BY DEF FreeInv, VInv
  <1>1. PICK v \in Voucher, m \in Mac : v = rq[r].v /\ m = rq[r].mac
    BY TakeSlotThere
  <1>2. /\ rq[r].pc = "slot" /\ UNCHANGED <<status, deadline, spent, blocked>>
        /\ \/ rq'[r].pc = "done" /\ UNCHANGED <<rows, released>>
           \/ /\ rq'[r].pc \in {"activate", "expire", "close"}
              /\ rq'[r].mac = m /\ rq'[r].v = v /\ rq'[r].first = rq[r].first
              /\ \A w \in Voucher : rows'[w] = IF w = v THEN rows[w] \cup {m} ELSE rows[w]
              /\ \A w \in Voucher : /\ released'[w] \subseteq released[w]
                                    /\ released[w] \subseteq released'[w] \cup {m}
                                    /\ w # v => released'[w] = released[w]
    BY <1>1, TakeSlotThere
  <1>3. status[v] # "NONE"
    BY <1>1, <1>2 DEF HandlerInv, Activates
  <1>4. CASE rq'[r].pc = "done" /\ UNCHANGED <<rows, released>>
    <2>1. Fades
      BY <1>2, <1>4, FreeQuiet
    <2>2. QED
      BY <1>4, <2>1, FreeRowsFade DEF OnlyOne, Redeeming, Releasing, Looking
  <1>5. CASE /\ rq'[r].pc \in {"activate", "expire", "close"}
             /\ rq'[r].mac = m /\ rq'[r].v = v /\ rq'[r].first = rq[r].first
             /\ \A w \in Voucher : rows'[w] = IF w = v THEN rows[w] \cup {m} ELSE rows[w]
             /\ \A w \in Voucher : /\ released'[w] \subseteq released[w]
                                   /\ released[w] \subseteq released'[w] \cup {m}
                                   /\ w # v => released'[w] = released[w]
    <2>1. \A w \in Voucher, n \in Mac : Live(w, n)' => Live(w, n) \/ (w = v /\ n = m)
      <3>1. ASSUME NEW w \in Voucher, NEW n \in Mac, n \in Holders(w)'
            PROVE  n \in Holders(w) \/ (w = v /\ n = m)
        <4>1. n \in rows'[w] /\ n \notin blocked[w] /\ n \notin released'[w]
          BY <1>2, <3>1 DEF Holders
        <4>2. n \in rows[w] \/ (w = v /\ n = m)
          <5>1. CASE w = v
            <6>1. rows'[w] = rows[w] \cup {m}
              BY <1>5, <5>1
            <6>2. QED
              BY <4>1, <5>1, <6>1
          <5>2. CASE w # v
            <6>1. rows'[w] = rows[w]
              BY <1>5, <5>2
            <6>2. QED
              BY <4>1, <6>1
          <5>3. QED
            BY <5>1, <5>2
        <4>3. n \notin released[w] \/ (w = v /\ n = m)
          BY <1>5, <4>1
        <4>4. QED
          BY <4>1, <4>2, <4>3 DEF Holders
      <3>2. QED
        BY <1>2, <3>1 DEF Live, Usable
    <2>2. \A w \in FreeVoucher : w \in Voucher
      BY VouchersAssumption
    <2>3. CASE v \notin FreeVoucher
      <3>1. Fades
        BY <1>2, <1>5, <2>1, <2>2, <2>3 DEF Fades
      <3>2. FreeRows'
        BY <3>1, FreeRowsFade
      <3>3. QED
        BY <1>5, <2>3, <3>2 DEF OnlyOne, Redeeming, Releasing, Looking
    <2>4. CASE v \in FreeVoucher
      <3>1. \A w \in FreeVoucher : Live(w, m) => w = v
        BY <1>1, <1>2, <2>4 DEF OnlyOne, Redeeming
      <3>2. \A w \in FreeVoucher : /\ status'[w] = "NONE" => status[w] = "NONE"
                                   /\ rows'[w] = rows[w] \/ status[w] # "NONE"
        BY <1>2, <1>3, <1>5, <2>2
      <3>3. FreeRows' /\ \A w \in FreeVoucher : Live(w, m)' => w = v
        BY <2>1, <2>2, <2>4, <3>1, <3>2, GainsOnlyOne
      <3>4. rq[r].first => rows'[v] \subseteq {m}
        BY <1>1, <1>2, <1>5, <2>4 DEF OnlyOne, Redeeming
      <3>5. QED
        BY <1>5, <3>3, <3>4 DEF OnlyOne, Redeeming, Releasing, Looking
    <2>5. QED
      BY <2>3, <2>4
  <1>6. QED
    BY <1>2, <1>4, <1>5

LEMMA ActivateOnlyOne ==
    ASSUME FreeInv, NEW r \in Request, Activate(r)
    PROVE  FreeRows' /\ OnlyOne(r)'
  <1> VInv /\ TypeOK /\ OnlyOne(r) /\ FreeRows /\ HandlerInv(r)
    BY DEF FreeInv, VInv
  <1>1. /\ rq[r].pc = "activate" /\ rq[r].first /\ rq[r].v \in Voucher /\ rq[r].mac \in Mac
        /\ UNCHANGED <<spent, rows, released, blocked>> /\ Goto(r, "close")
    BY DEF Activate, HandlerInv, About, InTime, Looking
  <1>2. PICK v \in Voucher, m \in Mac : v = rq[r].v /\ m = rq[r].mac
    BY <1>1
  <1>3. \A w \in Voucher : /\ status'[w] = IF w = v THEN "ACTIVE" ELSE status[w]
                           /\ w # v => deadline'[w] = deadline[w]
    BY <1>2 DEF Activate, TypeOK
  <1>4. rq'[r].pc = "close"
    BY <1>1, GotoThere
  <1>5. OnlyOne(r)'
    BY <1>4 DEF OnlyOne, Redeeming, Releasing, Looking
  <1>6. \A w \in Voucher, n \in Mac : Live(w, n)' => Live(w, n) \/ (w = v /\ n \in rows[w])
    BY <1>1, <1>3 DEF Live, Holders, Usable
  <1>7. \A w \in FreeVoucher : w \in Voucher
    BY VouchersAssumption
  <1>8. CASE v \notin FreeVoucher
    <2>1. Fades
      BY <1>1, <1>3, <1>6, <1>7, <1>8 DEF Fades
    <2>2. QED
      BY <1>5, <2>1, FreeRowsFade
  <1>9. CASE v \in FreeVoucher
    <2>1. rows[v] \subseteq {m} /\ \A w \in FreeVoucher : Live(w, m) => w = v
      BY <1>1, <1>2, <1>9 DEF OnlyOne, Redeeming
    <2>2. \A w \in FreeVoucher, n \in Mac : Live(w, n)' => Live(w, n) \/ (w = v /\ n = m)
      BY <1>6, <1>7, <2>1
    <2>3. \A w \in FreeVoucher : /\ status'[w] = "NONE" => status[w] = "NONE"
                                 /\ rows'[w] = rows[w] \/ status[w] # "NONE"
      BY <1>1, <1>3, <1>7
    <2>4. FreeRows'
      BY <1>9, <2>1, <2>2, <2>3, GainsOnlyOne
    <2>5. QED
      BY <1>5, <2>4
  <1>10. QED
    BY <1>8, <1>9

LEMMA LastOnlyOne ==
    ASSUME FreeInv, NEW r \in Request,
           \/ Expire(r) \/ ReplaceClose(r) \/ ReplaceOpen(r) \/ AdmitDevice(r)
           \/ AutoFind(r) \/ AutoOpen(r) \/ AutoTouch(r)
    PROVE  FreeRows' /\ OnlyOne(r)'
  <1> VInv /\ TypeOK /\ FreeRows /\ HandlerInv(r)
    BY DEF FreeInv, VInv
  <1>1. rq'[r].pc \in {"done", "close", "create", "admit", "open", "touch"}
    <2>1. Return(r) \/ \E p \in {"close", "create", "admit", "open", "touch"} : Goto(r, p)
      BY DEF Expire, ReplaceClose, ReplaceOpen, AdmitDevice, AutoFind, AutoOpen, AutoTouch
    <2>2. QED
      BY <2>1, ReturnThere, GotoThere
  <1>2. OnlyOne(r)'
    BY <1>1 DEF OnlyOne, Redeeming, Releasing, Looking
  <1>3. Fades
    <2>1. CASE Expire(r)
      <3>1. /\ rq[r].v \in Voucher /\ status' = [status EXCEPT ![rq[r].v] = "EXPIRED"]
            /\ UNCHANGED <<deadline, spent, rows, released, blocked>>
        BY <2>1 DEF Expire, HandlerInv, About, Looking
      <3>2. \A w \in Voucher : status'[w] \in {status[w], "EXPIRED"}
        BY <3>1 DEF TypeOK
      <3>3. \A w \in FreeVoucher : w \in Voucher
        BY VouchersAssumption
      <3>4. QED
        BY <3>1, <3>2, <3>3 DEF Fades, Live, Holders, Usable
    <2>2. CASE \/ ReplaceClose(r) \/ ReplaceOpen(r) \/ AdmitDevice(r)
               \/ AutoFind(r) \/ AutoOpen(r) \/ AutoTouch(r)
      <3>1. UNCHANGED <<status, deadline, spent, rows, released, blocked>>
        BY <2>2 DEF ReplaceClose, ReplaceOpen, AdmitDevice, AutoFind, AutoOpen, AutoTouch, db
      <3>2. QED
        BY <3>1, FreeQuiet
    <2>3. QED
      BY <2>1, <2>2
  <1>4. QED
    BY <1>2, <1>3, FreeRowsFade

LEMMA FreeRequest ==
    ASSUME FreeInv, FreeAreFree, MaxAtOnce = 1, NEW r \in Request, RequestStep(r) \/ RequestStart(r)
    PROVE  FreeInv'
  <1> VInv /\ TypeOK /\ About(r)
    BY DEF FreeInv, VInv, HandlerInv
  <1>1. VInv'
    BY VouchersNext DEF Next
  <1>2. /\ OneAtATime'
        /\ \A q \in Request : q # r => rq'[q].pc \in {"idle", "done"}
    BY HandlerAlone DEF FreeInv
  <1>3. \A q \in Request : q # r => OnlyOne(q)'
    BY <1>2 DEF OnlyOne, Redeeming, Releasing, Looking
  <1>4. SUFFICES FreeRows' /\ OnlyOne(r)'
    BY <1>1, <1>2, <1>3 DEF FreeInv
  <1>5. CASE RedeemFound(r)
    BY <1>5, ReadOnlyOne DEF RedeemFound, About, Looking
  <1>6. CASE \E v \in Voucher, m \in Mac : Redeem(r, v, m)
    BY <1>6, ReadOnlyOne DEF Redeem, FreeAreFree
  <1>7. CASE \E k \in {"auto", "free"}, m \in Mac : AutoLogin(r, k, m)
    BY <1>7, AutoLoginOnlyOne
  <1>8. QED
    BY <1>5, <1>6, <1>7, ReleaseOnlyOne, LookOnlyOne, MintOnlyOne, TakeSlotOnlyOne,
       ActivateOnlyOne, LastOnlyOne DEF RequestStep, RequestStart

LEMMA FreeInit == Init => FreeInv
  <1> SUFFICES ASSUME Init PROVE FreeInv
    OBVIOUS
  <1>1. FreeRows
    BY VouchersAssumption DEF Init, FreeRows, Live, Holders
  <1>2. \A r \in Request : OnlyOne(r)
    BY DEF Init, OnlyOne, NoRequest, Redeeming, Releasing, Looking
  <1>3. QED
    BY <1>1, <1>2, VouchersInit, InitAlone DEF FreeInv

LEMMA FreeInvCounts == FreeInv => OneFreeVoucher
  <1> SUFFICES ASSUME FreeInv, NEW m \in Mac
               PROVE  Cardinality({v \in FreeVoucher :
                          m \in Holders(v) /\ status[v] = "ACTIVE" /\ Usable(v)}) <= 1
    BY DEF OneFreeVoucher
  <1> DEFINE live == {v \in FreeVoucher : m \in Holders(v) /\ status[v] = "ACTIVE" /\ Usable(v)}
  <1>1. \A v, w \in live : v = w
    BY DEF FreeInv, FreeRows, Live
  <1>2. CASE live = {}
    BY <1>2, FS_EmptySet
  <1>3. CASE live # {}
    <2> HIDE DEF live
    <2>1. PICK v : live = {v}
      BY <1>1, <1>3
    <2>2. Cardinality(live) = 1
      BY <2>1, FS_Singleton
    <2>3. QED
      BY <2>2 DEF live
  <1>4. QED
    BY <1>2, <1>3

\* vouchers.service.ts:211: with one handler at a time, no free voucher typed in
\* or paid for, and no device taken off the block list, a device is never on
\* two live free vouchers.
THEOREM OneFreeVoucherEach ==
    ASSUME MaxAtOnce = 1, "unblock" \notin AdminOps, FreeAreFree
    PROVE  Spec => []OneFreeVoucher
  <1>1. FreeInv /\ [Next]_vars => FreeInv'
    BY FreeOutside, FreeRequest, OutsideSteps
  <1>2. QED
    BY <1>1, FreeInit, FreeInvCounts, PTL DEF Spec
=============================================================================
