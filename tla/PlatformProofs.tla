-------------------------- MODULE PlatformProofs --------------------------
(* Theorems of MCPlatform, which runs the components side by side.  What    *)
(* holds of each was proved of its own next-state relation, which every     *)
(* step of the platform takes or leaves alone.                              *)
EXTENDS MCPlatform, ServerProofs, AgentProofs, TLAPS

-----------------------------------------------------------------------------
\* Metering.

LEMMA PlatformMeters ==
    ASSUME g1 \in Sampler, PlatformNext
    PROVE  MeterNext \/ UNCHANGED meterVars
<1>1. CASE RunReports
  BY <1>1 DEF RunReports, MeterNext
<1>2. CASE RunTicks
  BY <1>2 DEF RunTicks, MeterNext, LoopStep
<1>3. CASE ~RunReports /\ ~RunTicks
  BY <1>3 DEF PlatformNext, RunAccounting, RunRouterAlerts, RunAgentAlerts, RunLoginAlerts, RunOtherAlerts,
    RunAdminPages, RunLookups, RunApps, RunBooks, RunBridge, RunConsole, RunFees,
    RunHostPower, RunHostBattery, RunHostNet, RunHostRest, RunWatcher, RunIsPresent,
    RunNetwork, RunStamps, RunPage, RunRecovery, OthersStay
<1> QED
  BY <1>1, <1>2, <1>3

\* Whatever the number of overlapping reports, of admissions and of bytes:
\* bytes are charged once unless an entry was replaced or shared while it was
\* sampled, and split across apps once while every reading worked
\* (index.ts's report loop, usage.ts's ticks).
THEOREM BytesAreCountedOnce ==
    ASSUME g1 \in Sampler
    PROVE  Spec => []BytesCountOnce
<1>1. Init => MeterInv
  BY MeterInitially DEF Init
<1>2. MeterInv /\ [PlatformNext]_vars => MeterInv'
  <2> SUFFICES ASSUME MeterInv, [PlatformNext]_vars PROVE MeterInv'
    OBVIOUS
  <2>1. MeterNext \/ UNCHANGED meterVars
    BY PlatformMeters DEF vars
  <2> QED
    BY <2>1, MeterStep, MeterStays
<1>3. MeterInv => BytesCountOnce
  BY MeterSafe
<1> QED
  BY <1>1, <1>2, <1>3, PTL DEF Spec

-----------------------------------------------------------------------------
\* Leases.

LEMMA PlatformProbes ==
    ASSUME PlatformNext
    PROVE  ProbeNext \/ UNCHANGED probeVars
<1>1. CASE RunWatcher
  <2>1. WatchNext
    BY <1>1 DEF RunWatcher
  <2> QED
    BY <2>1 DEF WatchNext, WatchStep, Scan, SkipLease, Offer, ApiServes, OfferAnswered, OfferFails, ScanEnds,
       RecheckDue, TakeLease, Entitle, EntitlementEnds
<1>2. CASE RunIsPresent
  BY <1>2 DEF RunIsPresent
<1>3. CASE ~RunWatcher /\ ~RunIsPresent
  <2>1. UNCHANGED leaseVars
    BY <1>3 DEF PlatformNext, RunAccounting, RunRouterAlerts, RunAgentAlerts, RunLoginAlerts, RunOtherAlerts,
      RunAdminPages, RunLookups, RunApps, RunBooks, RunBridge, RunConsole, RunFees,
      RunHostPower, RunHostBattery, RunHostNet, RunHostRest, RunReports, RunTicks,
      RunNetwork, RunStamps, RunPage, RunRecovery, OthersStay
  <2> QED
    BY <2>1 DEF leaseVars
<1> QED
  BY <1>1, <1>2, <1>3

LEMMA PlatformWatches ==
    ASSUME PlatformNext
    PROVE  \/ WatchNext
           \/ UNCHANGED watchVars /\ (ProbeNext \/ UNCHANGED seen)
<1>1. CASE RunWatcher
  BY <1>1 DEF RunWatcher
<1>2. CASE RunIsPresent
  <2>1. ProbeNext
    BY <1>2 DEF RunIsPresent
  <2>2. UNCHANGED watchVars
    BY <2>1 DEF ProbeNext, ProbeStart, ProbeForgets, ProbePings, ProbeLooks, ProbeGivesUp, ProbeAnswered, Roam
  <2> QED
    BY <2>1, <2>2
<1>3. CASE ~RunWatcher /\ ~RunIsPresent
  <2>1. UNCHANGED leaseVars
    BY <1>3 DEF PlatformNext, RunAccounting, RunRouterAlerts, RunAgentAlerts, RunLoginAlerts, RunOtherAlerts,
      RunAdminPages, RunLookups, RunApps, RunBooks, RunBridge, RunConsole, RunFees,
      RunHostPower, RunHostBattery, RunHostNet, RunHostRest, RunReports, RunTicks,
      RunNetwork, RunStamps, RunPage, RunRecovery, OthersStay
  <2> QED
    BY <2>1 DEF leaseVars, probeVars
<1> QED
  BY <1>1, <1>2, <1>3

LEMMA WatchTyped ==
    ASSUME Leasing
    PROVE  /\ LeasesInit => WatchTypes
           /\ WatchTypes /\ (PlatformNext \/ UNCHANGED leaseVars) => WatchTypes'
<1>1. LeasesInit => WatchTypes
  BY WatchInitially
<1>2. ASSUME WatchTypes, UNCHANGED watchVars PROVE LeasedTyped'
  BY <1>2 DEF WatchTypes, LeasedTyped, watchVars
<1>3. ASSUME WatchTypes, ProbeNext PROVE seen' \in BOOLEAN
  BY <1>3 DEF ProbeNext, ProbeStart, ProbeForgets, ProbePings, ProbeLooks, ProbeGivesUp, ProbeAnswered, Roam, WatchTypes
<1>4. ASSUME WatchTypes, WatchNext PROVE WatchTypes'
  <2>1. UNCHANGED seen
    BY <1>4 DEF WatchNext, WatchStep, Scan, SkipLease, Offer, ApiServes, OfferAnswered, OfferFails, ScanEnds,
       RecheckDue, TakeLease, Entitle, EntitlementEnds, probeVars
  <2> QED
    BY <1>4, <2>1, WatchStepTyped DEF WatchTypes
<1>5. ASSUME WatchTypes, UNCHANGED watchVars, ProbeNext \/ UNCHANGED seen PROVE WatchTypes'
  BY <1>2, <1>3, <1>5 DEF WatchTypes
<1> QED
  BY <1>1, <1>4, <1>5, PlatformWatches DEF leaseVars, probeVars

-----------------------------------------------------------------------------
\* Network.

LEMMA PlatformNetworks ==
    ASSUME PlatformNext
    PROVE  NetworkNext \/ UNCHANGED netVars
<1>1. CASE RunNetwork
  BY <1>1 DEF RunNetwork, NetworkNext
<1>2. CASE RunStamps
  BY <1>2 DEF RunStamps, NetworkNext
<1>3. CASE ~RunNetwork /\ ~RunStamps
  BY <1>3 DEF PlatformNext, RunAccounting, RunRouterAlerts, RunAgentAlerts, RunLoginAlerts, RunOtherAlerts,
    RunAdminPages, RunLookups, RunApps, RunBooks, RunBridge, RunConsole, RunFees,
    RunHostPower, RunHostBattery, RunHostNet, RunHostRest, RunWatcher, RunIsPresent, RunReports, RunTicks,
    RunPage, RunRecovery, OthersStay
<1> QED
  BY <1>1, <1>2, <1>3

\* However routers and clients come and go and the configuration is edited, a
\* router the probe stamps as online stands behind something it heard of
\* (network-status.ts, network.service.ts's inferPresence), where the chain
\* configured is the one wired; and isPresent (arp.ts) says yes only of a
\* device that was there while it looked.
THEOREM PresenceHolds ==
    ASSUME Wiring, None \notin Address, None \notin Device
    PROVE  Spec => []PresenceIsReal
<1> DEFINE Inv == FreshInv /\ SoundInv
<1>1. Init => Inv
  BY FreshInitially, SoundInitially DEF Init
<1>2. Inv /\ [PlatformNext]_vars => Inv'
  <2> SUFFICES ASSUME Inv, [PlatformNext]_vars PROVE Inv'
    OBVIOUS
  <2>1. ProbeNext \/ UNCHANGED probeVars
    BY PlatformProbes DEF vars, leaseVars
  <2>2. FreshInv'
    BY <2>1, FreshStep, FreshStays
  <2>3. NetworkNext \/ UNCHANGED netVars
    BY PlatformNetworks DEF vars
  <2>4. SoundInv'
    BY <2>3, SoundStep, SoundStays
  <2> QED
    BY <2>2, <2>4
<1>3. Inv => PresenceIsReal
  BY DEF FreshInv, SeenOnce, SoundInv, PresenceIsFresh, PresenceIsReal
<1> QED
  BY <1>1, <1>2, <1>3, PTL DEF Spec

-----------------------------------------------------------------------------
\* Fees.

LEMMA PlatformCharges ==
    ASSUME PlatformNext
    PROVE  [FeesNext]_feesVars
<1>1. CASE RunFees
  BY <1>1 DEF RunFees
<1>2. CASE ~RunFees
  BY <1>2 DEF PlatformNext, RunAccounting, RunRouterAlerts, RunAgentAlerts, RunLoginAlerts, RunOtherAlerts,
    RunAdminPages, RunLookups, RunApps, RunBooks, RunBridge, RunConsole,
    RunHostPower, RunHostBattery, RunHostNet, RunHostRest, RunWatcher, RunIsPresent, RunReports, RunTicks,
    RunNetwork, RunStamps, RunPage, RunRecovery, OthersStay
<1> QED
  BY <1>1, <1>2

\* Whatever schedules are saved: the amount the page offers can be paid out, and
\* the table of tiers (feeTiers of withdrawal-fees.ts) tells of every amount
\* the fee that is charged for it.
THEOREM FeesAreTold == Spec => []FeesAgree
<1>1. Init => FeesInv
  BY FeesInvInitially DEF Init
<1>2. FeesInv /\ [PlatformNext]_vars => FeesInv'
  BY PlatformCharges, FeesInvStep DEF vars
<1>3. FeesInv => FeesAgree
  <2> SUFFICES ASSUME FeesInv PROVE FeesAgree
    OBVIOUS
  <2>1. OfferFits
    BY FoundFits DEF FeesInv
  <2>2. TiersTellTheFee
    BY TiersTell DEF FeesInv, FInv, FeesTypeOK
  <2> QED
    BY <2>1, <2>2 DEF FeesAgree
<1> QED
  BY <1>1, <1>2, <1>3, PTL DEF Spec

-----------------------------------------------------------------------------
\* Books.

LEMMA PlatformBooks ==
    ASSUME PlatformNext
    PROVE  BooksNext \/ UNCHANGED booksVars
<1>1. CASE RunBooks
  BY <1>1 DEF RunBooks
<1>2. CASE ~RunBooks
  BY <1>2 DEF PlatformNext, RunAccounting, RunRouterAlerts, RunAgentAlerts, RunLoginAlerts, RunOtherAlerts,
    RunAdminPages, RunLookups, RunApps, RunBridge, RunConsole, RunFees,
    RunHostPower, RunHostBattery, RunHostNet, RunHostRest, RunWatcher, RunIsPresent, RunReports, RunTicks,
    RunNetwork, RunStamps, RunPage, RunRecovery, OthersStay
<1> QED
  BY <1>1, <1>2

\* Whatever the day's length and the time zone, and however many days are asked
\* for: todayUgx and summary of earnings.service.ts and summary of
\* ledger.service.ts count exactly the sales of the local days they are for, and
\* a withdrawal's fee on one day.
THEOREM BooksAreOne ==
    ASSUME Calendar
    PROVE  Spec => []BooksAgree
<1>1. Init => BooksDated
  BY BooksInitially DEF Init
<1>2. BooksDated /\ [PlatformNext]_vars => BooksDated'
  <2> SUFFICES ASSUME BooksDated, [PlatformNext]_vars PROVE BooksDated'
    OBVIOUS
  <2>1. BooksNext \/ UNCHANGED booksVars
    BY PlatformBooks DEF vars
  <2> QED
    BY <2>1, BooksStep, BooksStay
<1>3. BooksDated => BooksAgree
  BY BooksSafe DEF BooksAgree
<1> QED
  BY <1>1, <1>2, <1>3, PTL DEF Spec

-----------------------------------------------------------------------------
\* Alerts.

LEMMA PlatformAlerts ==
    ASSUME PlatformNext
    PROVE  AlertsNext \/ UNCHANGED alertsVars
<1>1. CASE RunRouterAlerts \/ RunAgentAlerts \/ RunLoginAlerts \/ RunOtherAlerts
  BY <1>1 DEF RunRouterAlerts, RunAgentAlerts, RunLoginAlerts, RunOtherAlerts, AlertsNext
<1>2. CASE ~(RunRouterAlerts \/ RunAgentAlerts \/ RunLoginAlerts \/ RunOtherAlerts)
  BY <1>2 DEF PlatformNext, RunAccounting, RunAdminPages, RunLookups, RunApps, RunBooks, RunBridge,
    RunConsole, RunFees, RunHostPower, RunHostBattery, RunHostNet, RunHostRest, RunWatcher, RunIsPresent,
    RunReports, RunTicks, RunNetwork, RunStamps, RunPage, RunRecovery, OthersStay
<1> QED
  BY <1>1, <1>2

\* However many failed logins are announced at once, and whatever succeeds, ages,
\* is suppressed or fails between the look for a recent event and its storing
\* in AlertsService.notify: while the failed logins of an address are over the
\* limit their alert is stored, under way or was lost for a reason that is kept.
THEOREM GuessingIsKnown ==
    ASSUME Named, FailedLogins \in Nat \ {0}
    PROVE  Spec => []GuessingIsTold
<1>1. Init => GuessInv
  BY GuessInitially DEF Init
<1>2. GuessInv /\ [PlatformNext]_vars => GuessInv'
  <2> SUFFICES ASSUME GuessInv, [PlatformNext]_vars PROVE GuessInv'
    OBVIOUS
  <2>1. AlertsNext \/ UNCHANGED alertsVars
    BY PlatformAlerts DEF vars
  <2> QED
    BY <2>1, GuessStep, GuessStays
<1>3. GuessInv => GuessingIsTold
  BY DEF GuessInv
<1> QED
  BY <1>1, <1>2, <1>3, PTL DEF Spec

-----------------------------------------------------------------------------
\* Bridge.

LEMMA PlatformBridges ==
    ASSUME PlatformNext
    PROVE  BridgeNext \/ UNCHANGED bridgeVars
<1>1. CASE RunBridge
  BY <1>1 DEF RunBridge
<1>2. CASE ~RunBridge
  BY <1>2 DEF PlatformNext, RunAccounting, RunRouterAlerts, RunAgentAlerts, RunLoginAlerts, RunOtherAlerts,
    RunAdminPages, RunLookups, RunApps, RunBooks, RunConsole, RunFees,
    RunHostPower, RunHostBattery, RunHostNet, RunHostRest, RunWatcher, RunIsPresent, RunReports, RunTicks,
    RunNetwork, RunStamps, RunPage, RunRecovery, OthersStay
<1> QED
  BY <1>1, <1>2

\* For any conversations, turns, folders, sessions and crashes: claude-bridge.mjs
\* starts an agent only on a session of the folder and the engine of its run, or
\* on one that is gone, and pendingLogin is the login started last or none.
THEOREM SessionsAreOwn ==
    ASSUME Bridge
    PROVE  Spec => []OwnSessionOwnLogin
<1> DEFINE I == TurnsInv /\ LoginInv
<1>1. Init => I
  BY TurnsInitially, LoginInitially DEF Init
<1>2. I /\ [PlatformNext]_vars => I'
  <2> SUFFICES ASSUME I, [PlatformNext]_vars PROVE I'
    OBVIOUS
  <2>1. BridgeNext \/ UNCHANGED bridgeVars
    BY PlatformBridges DEF vars
  <2> QED
    BY <2>1, TurnsStep, LoginStep, BridgeStays DEF LoginInv
<1>3. I => OwnSessionOwnLogin
  BY DEF TurnsInv, LoginInv, OwnSessionOwnLogin
<1> QED
  BY <1>1, <1>2, <1>3, PTL DEF Spec

-----------------------------------------------------------------------------
\* Console.

LEMMA PlatformEdits ==
    ASSUME PlatformNext
    PROVE  ConsoleNext \/ UNCHANGED consoleVars
<1>1. CASE RunConsole
  BY <1>1 DEF RunConsole
<1>2. CASE ~RunConsole
  BY <1>2 DEF PlatformNext, RunAccounting, RunRouterAlerts, RunAgentAlerts, RunLoginAlerts, RunOtherAlerts,
    RunAdminPages, RunLookups, RunApps, RunBooks, RunBridge, RunFees,
    RunHostPower, RunHostBattery, RunHostNet, RunHostRest, RunWatcher, RunIsPresent, RunReports, RunTicks,
    RunNetwork, RunStamps, RunPage, RunRecovery, OthersStay
<1> QED
  BY <1>1, <1>2

\* For any number of requests under way, channels and changes: a request of
\* packages.service.ts or output-channels.service.ts that nothing overlapped
\* leaves the package with the limits of its kind and the one channel it asked
\* for active, whatever overlapping ones left before.
THEOREM LoneEditsSettle == Spec => LoneEditSettles
<1> DEFINE Settled(e) ==
             job'[e].pc = "idle" /\ job[e].lone =>
               /\ job[e].pc = "set" /\ job[e].want \in channels => active' = {job[e].want}
               /\ job[e].pc = "update" /\ package # Deleted => LimitsFit(package')
<1>1. Init => ConsoleInv
  BY ConsoleInitially DEF Init
<1>2. ConsoleInv /\ [PlatformNext]_vars => ConsoleInv' /\ [\A e \in Underway : Settled(e)]_consoleVars
  <2> SUFFICES ASSUME ConsoleInv, [PlatformNext]_vars
               PROVE  ConsoleInv' /\ [\A e \in Underway : Settled(e)]_consoleVars
    OBVIOUS
  <2>1. ConsoleNext \/ UNCHANGED consoleVars
    BY PlatformEdits DEF vars
  <2>2. CASE ConsoleNext
    BY <2>2, ConsoleStep, LoneSettles
  <2>3. CASE UNCHANGED consoleVars
    BY <2>3, ConsoleStays
  <2> QED
    BY <2>1, <2>2, <2>3
<1> QED
  BY <1>1, <1>2, PTL DEF Spec, LoneEditSettles

-----------------------------------------------------------------------------
\* Accounting.

LEMMA PlatformAccounts ==
    ASSUME PlatformNext
    PROVE  AccountingNext \/ UNCHANGED acctVars
<1>1. CASE RunAccounting
  BY <1>1 DEF RunAccounting
<1>2. CASE ~RunAccounting
  BY <1>2 DEF PlatformNext, RunConsole, RunRouterAlerts, RunAgentAlerts, RunLoginAlerts, RunOtherAlerts,
    RunAdminPages, RunLookups, RunApps, RunBooks, RunBridge, RunFees,
    RunHostPower, RunHostBattery, RunHostNet, RunHostRest, RunWatcher, RunIsPresent, RunReports, RunTicks,
    RunNetwork, RunStamps, RunPage, RunRecovery, OthersStay
<1> QED
  BY <1>1, <1>2

-----------------------------------------------------------------------------
\* AppUsage.

LEMMA PlatformApps ==
    ASSUME PlatformNext
    PROVE  AppNext \/ UNCHANGED appVars
<1>1. CASE RunLookups \/ RunApps
  BY <1>1 DEF RunLookups, RunApps, AppNext
<1>2. CASE ~(RunLookups \/ RunApps)
  BY <1>2 DEF PlatformNext, RunConsole, RunAccounting, RunRouterAlerts, RunAgentAlerts, RunLoginAlerts,
    RunOtherAlerts, RunAdminPages, RunBooks, RunBridge, RunFees,
    RunHostPower, RunHostBattery, RunHostNet, RunHostRest, RunWatcher, RunIsPresent, RunReports, RunTicks,
    RunNetwork, RunStamps, RunPage, RunRecovery, OthersStay
<1> QED
  BY <1>1, <1>2

\* For any sessions, reports, sites and flows, any lengths of the log and of
\* its limit: a voucher has the bytes its sessions have but for those still on
\* their way in sessions.service.ts, and the hourly table every byte of the
\* apps' counter that was posted (of the class's, where no app was listed) but
\* for those; where the API died no voucher has more than its sessions.  What
\* dns-log.ts has read of the log it remembers, and the parts of a tick of
\* usage.ts add up to what that tick has billed, which is not what the report
\* loop charges.
THEOREM UsageIsAccounted ==
    ASSUME Metered, Logging, Splitting
    PROVE  Spec => []UsageAccounted
<1> DEFINE Inv == AcctInv /\ LogInv /\ FlowInv
<1>1. Init => Inv
  BY AcctInitially, LogInitially, FlowInitially DEF Init
<1>2. Inv /\ [PlatformNext]_vars => Inv'
  <2> SUFFICES ASSUME AcctInv, LogInv, FlowInv, [PlatformNext]_vars
               PROVE  AcctInv' /\ LogInv' /\ FlowInv'
    OBVIOUS
  <2>1. AccountingNext \/ UNCHANGED acctVars
    BY PlatformAccounts DEF vars
  <2>2. AcctInv'
    BY <2>1, AcctStep, AcctStays
  <2>3. AppNext \/ UNCHANGED appVars
    BY PlatformApps DEF vars
  <2>4. CASE AppNext
    BY <2>2, <2>4, AppStep
  <2>5. CASE UNCHANGED appVars
    <3>1. UNCHANGED <<lookupVars, starts>> /\ UNCHANGED flowVars
      BY <2>5 DEF appVars
    <3> QED
      BY <2>2, <3>1, LogSame, FlowSame
  <2> QED
    BY <2>3, <2>4, <2>5
<1>3. Inv => UsageAccounted
  BY Rounds DEF AcctInv, LogInv, FlowInv, UsageAccounted
<1> QED
  BY <1>1, <1>2, <1>3, PTL DEF Spec

-----------------------------------------------------------------------------
\* Admin.

LEMMA PlatformShows ==
    ASSUME PlatformNext
    PROVE  AdminNext \/ UNCHANGED adminVars
<1>1. CASE RunAdminPages
  BY <1>1 DEF RunAdminPages
<1>2. CASE ~RunAdminPages
  BY <1>2 DEF PlatformNext, RunConsole, RunAccounting, RunRouterAlerts, RunAgentAlerts, RunLoginAlerts,
    RunOtherAlerts, RunLookups, RunApps, RunBooks, RunBridge, RunFees,
    RunHostPower, RunHostBattery, RunHostNet, RunHostRest, RunWatcher, RunIsPresent, RunReports, RunTicks,
    RunNetwork, RunStamps, RunPage, RunRecovery, OthersStay
<1> QED
  BY <1>1, <1>2

-----------------------------------------------------------------------------
\* HostHealth.

LEMMA PlatformHosts ==
    ASSUME PlatformNext
    PROVE  HealthNext \/ UNCHANGED healthVars
<1>1. CASE RunHostPower \/ RunHostBattery \/ RunHostNet \/ RunHostRest
  BY <1>1 DEF RunHostPower, RunHostBattery, RunHostNet, RunHostRest, HealthNext
<1>2. CASE ~(RunHostPower \/ RunHostBattery \/ RunHostNet \/ RunHostRest)
  BY <1>2 DEF PlatformNext, RunConsole, RunAccounting, RunRouterAlerts, RunAgentAlerts, RunLoginAlerts,
    RunOtherAlerts, RunAdminPages, RunLookups, RunApps, RunBooks, RunBridge, RunFees,
    RunWatcher, RunIsPresent, RunReports, RunTicks,
    RunNetwork, RunStamps, RunPage, RunRecovery, OthersStay
<1> QED
  BY <1>1, <1>2

-----------------------------------------------------------------------------
\* Portal.

LEMMA PlatformServes ==
    ASSUME PlatformNext
    PROVE  PortalNext \/ UNCHANGED portalVars
<1>1. CASE RunPage \/ RunRecovery
  BY <1>1 DEF RunPage, RunRecovery, PortalNext
<1>2. CASE ~(RunPage \/ RunRecovery)
  BY <1>2 DEF PlatformNext, RunAccounting, RunRouterAlerts, RunAgentAlerts, RunLoginAlerts, RunOtherAlerts,
    RunAdminPages, RunLookups, RunApps, RunBooks, RunBridge, RunConsole, RunFees,
    RunHostPower, RunHostBattery, RunHostNet, RunHostRest, RunWatcher, RunIsPresent, RunReports, RunTicks,
    RunNetwork, RunStamps, OthersStay
<1> QED
  BY <1>1, <1>2

\* However often codes are sent, typed, checked, forgotten and expire, and
\* however many requests and confirmations are under way: none of the recovery
\* codes of portal.service.ts opens two vouchers.
THEOREM CodesOpenOnce == Spec => []CodeOpensOnce
<1>1. Init => CodeInv
  BY CodesInitial DEF Init
<1>2. CodeInv /\ [PlatformNext]_vars => CodeInv'
  BY PlatformServes, CodesStep DEF vars
<1>3. CodeInv => CodeOpensOnce
  BY DEF CodeInv, OpenedOnce, CodeOpensOnce
<1> QED
  BY <1>1, <1>2, <1>3, PTL DEF Spec

-----------------------------------------------------------------------------
\* All components.  Init starts all of them, so the types of all hold, of
\* whichever of them moves.
PlatformTypes ==
    /\ part \in Parts
    /\ AcctInv /\ AdminTypes /\ AlertsTypes /\ LogInv /\ FlowInv /\ BooksTypes /\ BridgeTypes
    /\ ConsoleTypes /\ FeesInv /\ HealthTypes /\ FreshInv /\ WatchTypes /\ MeterTypes /\ NetTypes
    /\ PortalTypeOK
\* What the components assume of their constants, and the parts there are.
PlatformConstants ==
    /\ Metered /\ Paged /\ Alerting /\ Logging /\ Splitting /\ Bookable /\ Bridge /\ Hosted
    /\ Leasing /\ Entering /\ Editable
    /\ {MaxChanges, MaxCrashes} \subseteq Nat /\ g1 \in Sampler
    /\ Parts \subseteq {"usage", "routers", "agent", "login", "other", "admin", "lookups", "apps", "books",
                        "claude", "console", "fees", "power", "battery", "net", "rest", "watch", "probe",
                        "charge", "split", "network", "stamps", "page", "recovery"}

LEMMA PlatformTypesInitially ==
    ASSUME PlatformConstants, Init
    PROVE  PlatformTypes
<1>1. /\ part \in Parts
      /\ AccountingInit /\ AdminInit /\ AlertsInit /\ AppInit /\ BooksInit /\ BridgeInit /\ ConsoleInit
      /\ FeesInit /\ HealthInit /\ LeasesInit /\ MeterInit /\ NetworkInit /\ PortalInit
  BY DEF Init
<1>2. AcctInv /\ AdminTypes /\ AlertsTypes /\ LogInv /\ FlowInv
  BY <1>1, AcctInitially, AdminInitially, AlertsInitially, LogInitially, FlowInitially DEF PlatformConstants
<1>3. BooksTypes /\ BridgeTypes /\ ConsoleTypes
  BY <1>1, BooksTyped, BridgesTyped, ConsolesTyped DEF PlatformConstants
<1>4. FeesInv /\ HealthTypes /\ FreshInv /\ WatchTypes
  BY <1>1, FeesInvInitially, HealthInitially, FreshInitially, WatchTyped DEF PlatformConstants
<1>5. MeterTypes
  BY <1>1, MetersTyped DEF PlatformConstants
<1>6. NetTypes
  BY <1>1, NetsTyped DEF PlatformConstants
<1>7. PortalTypeOK
  BY <1>1, PortalInitially, PortalIsTyped
<1> QED
  BY <1>1, <1>2, <1>3, <1>4, <1>5, <1>6, <1>7 DEF PlatformTypes

LEMMA PlatformTypesStep ==
    ASSUME PlatformConstants, PlatformTypes, [PlatformNext]_vars
    PROVE  PlatformTypes'
<1>1. part' \in Parts
  BY DEF PlatformTypes, vars, PlatformNext, RunAccounting, RunRouterAlerts, RunAgentAlerts, RunLoginAlerts,
    RunOtherAlerts, RunAdminPages, RunLookups, RunApps, RunBooks, RunBridge, RunConsole, RunFees,
    RunHostPower, RunHostBattery, RunHostNet, RunHostRest, RunWatcher, RunIsPresent, RunReports, RunTicks,
    RunNetwork, RunStamps, RunPage, RunRecovery, OthersStay
<1>2. AcctInv'
  <2>1. AccountingNext \/ UNCHANGED acctVars
    BY PlatformAccounts DEF vars
  <2> QED
    BY <2>1, AcctStep, AcctStays DEF PlatformTypes, PlatformConstants
<1>3. AdminTypes'
  <2>1. AdminNext \/ UNCHANGED adminVars
    BY PlatformShows DEF vars
  <2> QED
    BY <2>1, AdminStep, AdminStays DEF PlatformTypes, PlatformConstants
<1>4. AlertsTypes'
  <2>1. AlertsNext \/ UNCHANGED alertsVars
    BY PlatformAlerts DEF vars
  <2> QED
    BY <2>1, AlertsStepTyped, AlertsStayTyped DEF PlatformTypes, PlatformConstants
<1>5. LogInv' /\ FlowInv'
  <2>1. AppNext \/ UNCHANGED appVars
    BY PlatformApps DEF vars
  <2>2. CASE AppNext
    BY <2>2, AppStep DEF PlatformTypes, PlatformConstants
  <2>3. CASE UNCHANGED appVars
    <3>1. UNCHANGED <<lookupVars, starts>> /\ UNCHANGED flowVars
      BY <2>3 DEF appVars
    <3> QED
      BY <3>1, LogSame, FlowSame DEF PlatformTypes
  <2> QED
    BY <2>1, <2>2, <2>3
<1>6. BooksTypes'
  <2>1. BooksNext \/ UNCHANGED booksVars
    BY PlatformBooks DEF vars
  <2> QED
    BY <2>1, BooksTyped DEF PlatformTypes, PlatformConstants
<1>7. BridgeTypes'
  <2>1. BridgeNext \/ UNCHANGED bridgeVars
    BY PlatformBridges DEF vars
  <2> QED
    BY <2>1, BridgesTyped DEF PlatformTypes, PlatformConstants
<1>8. ConsoleTypes'
  <2>1. ConsoleNext \/ UNCHANGED consoleVars
    BY PlatformEdits DEF vars
  <2> QED
    BY <2>1, ConsolesTyped DEF PlatformTypes, PlatformConstants
<1>9. FeesInv'
  <2>1. [FeesNext]_feesVars
    BY PlatformCharges DEF vars
  <2> QED
    BY <2>1, FeesInvStep DEF PlatformTypes
<1>10. HealthTypes'
  <2>1. HealthNext \/ UNCHANGED healthVars
    BY PlatformHosts DEF vars
  <2> QED
    BY <2>1, HealthKeeps, HealthStays DEF PlatformTypes, PlatformConstants
<1>11. FreshInv'
  <2>1. ProbeNext \/ UNCHANGED probeVars
    BY PlatformProbes DEF vars, leaseVars
  <2>2. None \notin Address /\ None \notin Device
    BY DEF PlatformConstants, Leasing
  <2> QED
    BY <2>1, <2>2, FreshStep, FreshStays DEF PlatformTypes
<1>12. WatchTypes'
  <2>1. PlatformNext \/ UNCHANGED leaseVars
    BY DEF vars
  <2> QED
    BY <2>1, WatchTyped DEF PlatformTypes, PlatformConstants
<1>13. MeterTypes'
  <2>1. MeterNext \/ UNCHANGED meterVars
    BY PlatformMeters DEF vars, PlatformConstants
  <2> QED
    BY <2>1, MetersTyped DEF PlatformTypes, PlatformConstants
<1>14. NetTypes'
  <2>1. NetworkNext \/ UNCHANGED netVars
    BY PlatformNetworks DEF vars
  <2> QED
    BY <2>1, NetsTyped DEF PlatformTypes, PlatformConstants
<1>15. PortalTypeOK'
  <2>1. PortalNext \/ UNCHANGED portalVars
    BY PlatformServes DEF vars
  <2> QED
    BY <2>1, PortalStepTyped, PortalStays DEF PlatformTypes
<1> QED
  BY <1>1, <1>2, <1>3, <1>4, <1>5, <1>6, <1>7, <1>8, <1>9, <1>10, <1>11, <1>12, <1>13, <1>14, <1>15
  DEF PlatformTypes

LEMMA PlatformIsTyped ==
    ASSUME PlatformConstants, PlatformTypes
    PROVE  TypeOK
<1>1. AccountingTypeOK /\ AlertsTypeOK /\ AdminTypeOK /\ AppTypeOK
  BY AlertsAreTyped, AppsAreTyped DEF PlatformTypes, PlatformConstants, AcctInv, AdminTypes
<1>2. BooksTypeOK /\ BridgeTypeOK /\ ConsoleTypeOK
  BY BooksAreTyped, BridgesAreTyped, ConsolesAreTyped DEF PlatformTypes, PlatformConstants
<1>3. FeesTypeOK /\ HealthTypeOK /\ LeasesTypeOK
  BY LeasesAreTyped DEF PlatformTypes, FeesInv, FInv, HealthTypes
<1>4. MeterTypeOK /\ NetworkTypeOK /\ PortalTypeOK
  BY MetersAreTyped, NetsAreTyped DEF PlatformTypes, PlatformConstants
<1> QED
  BY <1>1, <1>2, <1>3, <1>4 DEF PlatformTypes, PlatformConstants, TypeOK

\* Of any number of sessions, calls, routers, logins, payments, conversations,
\* editors, devices, sites and purchases, and with any limits: each component's
\* state is of its type after any steps, with what its type does not say but
\* every step relies on: no alert without its subject goes out, a scan that has
\* ended waits for no answer, and a turn of the Claude bridge waits in one queue,
\* that of its conversation, once (alerts.service.ts, lease-watcher.ts,
\* scripts/claude-bridge.mjs).
THEOREM PlatformTyped ==
    ASSUME PlatformConstants
    PROVE  Spec => []TypeOK
<1>1. Init => PlatformTypes
  BY PlatformTypesInitially
<1>2. PlatformTypes /\ [PlatformNext]_vars => PlatformTypes'
  BY PlatformTypesStep
<1>3. PlatformTypes => TypeOK
  BY PlatformIsTyped
<1> QED
  BY <1>1, <1>2, <1>3, PTL DEF Spec
=============================================================================
