----------------------------- MODULE MCPlatform -----------------------------
(* Small instances of the components around the core, for TLC.  They share  *)
(* no variables: what one needs of another it has as an assumption about    *)
(* its environment.  So nothing is gained by interleaving them, and a run   *)
(* checks several side by side: part is chosen in the initial state and     *)
(* says which component moves, and which of its hazards.                    *)
EXTENDS Accounting, AdminPages, Alerts, AppUsage, Books, ClaudeBridge, Console, Fees,
        HostHealth, Leases, Metering, Network, Portal, TLC

CONSTANTS Parts,
          f1, f2, s1, s2,     \* folders and sessions of the Claude bridge
          o1, o2, v1, v2,     \* WiFi sessions and their vouchers
          r1, r2,             \* routers, the second behind the first
          g1                  \* a run of the report loop

VARIABLE part

\* Values of constants that a configuration file cannot write.
InputsC == [do : {"new", "login", "code", "ask"}]
           \cup [do : {"cd"}, to : {f2}] \cup [do : {"pick"}, to : {s1}]
CodeOfC == (o1 :> v1) @@ (o2 :> v1)
UplinkC == (r1 :> None) @@ (r2 :> r1)
SchedulesC == [min : {1, 3}, max : {3, 9}, band : {0, 2, 4}, base : {2}, step : {0, 1, 3}]

-----------------------------------------------------------------------------
\* Components that do not move start in one state only.
AtRest ==
    /\ part = "routers" \/ beating = Watched
    /\ part = "agent" \/ agentUp
    /\ part = "page" \/ ~covered
    /\ part = "fees" \/ (schedule = (CHOOSE s \in Schedules : ValidSchedule(s)) /\ available = 0)
    /\ part = "console" \/ (~sold /\ active = {})

Init ==
    /\ part \in Parts
    /\ AccountingInit /\ AdminInit /\ AlertsInit /\ AppInit /\ BooksInit
    /\ BridgeInit /\ ConsoleInit /\ FeesInit /\ HealthInit /\ LeasesInit
    /\ MeterInit /\ NetworkInit /\ PortalInit
    /\ AtRest

OthersStay(moves) ==
    /\ UNCHANGED part
    /\ IF moves = "Accounting" THEN TRUE ELSE UNCHANGED acctVars
    /\ IF moves = "AdminPages" THEN TRUE ELSE UNCHANGED adminVars
    /\ IF moves = "Alerts" THEN TRUE ELSE UNCHANGED alertsVars
    /\ IF moves = "AppUsage" THEN TRUE ELSE UNCHANGED appVars
    /\ IF moves = "Books" THEN TRUE ELSE UNCHANGED booksVars
    /\ IF moves = "ClaudeBridge" THEN TRUE ELSE UNCHANGED bridgeVars
    /\ IF moves = "Console" THEN TRUE ELSE UNCHANGED consoleVars
    /\ IF moves = "Fees" THEN TRUE ELSE UNCHANGED feesVars
    /\ IF moves = "HostHealth" THEN TRUE ELSE UNCHANGED healthVars
    /\ IF moves = "Leases" THEN TRUE ELSE UNCHANGED leaseVars
    /\ IF moves = "Metering" THEN TRUE ELSE UNCHANGED meterVars
    /\ IF moves = "Network" THEN TRUE ELSE UNCHANGED netVars
    /\ IF moves = "Portal" THEN TRUE ELSE UNCHANGED portalVars

RunAccounting == part = "usage" /\ AccountingNext /\ OthersStay("Accounting")
\* What becomes of their SMS matters to the monitor in part "other" only.
RunRouterAlerts ==
    part = "routers" /\ (RoutersNext \/ AlertsRestart) /\ UNCHANGED smsFailed /\ OthersStay("Alerts")
RunAgentAlerts ==
    part = "agent" /\ (AgentNext \/ AlertsRestart) /\ UNCHANGED smsFailed /\ OthersStay("Alerts")
RunLoginAlerts == part = "login" /\ (LoginNext \/ AlertsRestart) /\ OthersStay("Alerts")
RunOtherAlerts == part = "other" /\ (OtherNext \/ AlertsRestart) /\ OthersStay("Alerts")
RunAdminPages == part = "admin" /\ AdminNext /\ OthersStay("AdminPages")
RunLookups == part = "lookups" /\ (LookupStep \/ AppAgentRestart) /\ OthersStay("AppUsage")
RunApps == part = "apps" /\ (FlowStep \/ AppAgentRestart) /\ OthersStay("AppUsage")
RunBooks == part = "books" /\ BooksNext /\ OthersStay("Books")
RunBridge == part = "claude" /\ BridgeNext /\ OthersStay("ClaudeBridge")
RunConsole == part = "console" /\ ConsoleNext /\ OthersStay("Console")
RunFees == part = "fees" /\ FeesNext /\ OthersStay("Fees")
RunHostPower ==
    /\ part = "power"
    /\ HealthStep \/ WorldTurns(MainsTurn) \/ WorldTurns(ApiTurns)
    /\ OthersStay("HostHealth")
RunHostBattery ==
    /\ part = "battery"
    /\ HealthStep \/ WorldTurns(MainsTurn) \/ WorldTurns(ChargeTurns)
    /\ OthersStay("HostHealth")
RunHostNet ==
    /\ part = "net"
    /\ HealthStep \/ WorldTurns(NetTurns) \/ WorldTurns(ApiTurns)
    /\ OthersStay("HostHealth")
RunHostRest ==
    /\ part = "rest"
    /\ HealthStep \/ WorldTurns(GatewayTurns) \/ Announce
    /\ OthersStay("HostHealth")
RunWatcher == part = "watch" /\ WatchNext /\ OthersStay("Leases")
RunIsPresent == part = "probe" /\ ProbeNext /\ OthersStay("Leases")
RunReports == part = "charge" /\ (Traffic \/ AdmissionStep \/ LoopStep) /\ OthersStay("Metering")
\* The ticks with one run of the report loop, which empties what they collect.
RunTicks ==
    /\ part = "split"
    /\ Traffic \/ AdmissionStep \/ SampleStart(g1) \/ SampleEnd(g1) \/ TickStep
    /\ OthersStay("Metering")
RunNetwork == part = "network" /\ (LanStep \/ ProbeStep \/ ConfigStep) /\ OthersStay("Network")
RunStamps == part = "stamps" /\ (ProbeStep \/ StampStep \/ ConfigStep) /\ OthersStay("Network")
RunPage == part = "page" /\ PageNext /\ OthersStay("Portal")
RunRecovery == part = "recovery" /\ RecoveryNext /\ OthersStay("Portal")

PlatformNext ==
    \/ RunAccounting \/ RunRouterAlerts \/ RunAgentAlerts \/ RunLoginAlerts \/ RunOtherAlerts
    \/ RunAdminPages \/ RunLookups \/ RunApps \/ RunBooks \/ RunBridge \/ RunConsole \/ RunFees
    \/ RunHostPower \/ RunHostBattery \/ RunHostNet \/ RunHostRest
    \/ RunWatcher \/ RunIsPresent \/ RunReports \/ RunTicks
    \/ RunNetwork \/ RunStamps \/ RunPage \/ RunRecovery
vars == <<part, acctVars, adminVars, alertsVars, appVars, booksVars, bridgeVars,
          consoleVars, feesVars, healthVars, leaseVars, meterVars, netVars, portalVars>>

\* What the programs' own schedules guarantee: timers and crons come round and
\* awaited calls return.  The crons of the API run each one at a time.
CronStep ==
    \/ part = "routers" /\ (MonitorStep \/ NoticeStep("routers"))
    \/ part = "agent" /\ (AgentStep \/ NoticeStep("agent"))
HostCheckStep == part \in {"power", "battery", "net", "rest"} /\ CheckStep
Fairness ==
    /\ WF_alertsVars(CronStep) /\ WF_healthVars(HostCheckStep)
    /\ WF_leaseVars(part = "watch" /\ Scan) /\ WF_leaseVars(part = "watch" /\ WatchStep)
    /\ \A d \in Device : WF_leaseVars(part = "watch" /\ RecheckDue(d))
    /\ \A k \in Tick : WF_portalVars(part = "page" /\ PollStep(k))
    /\ \A c \in Call : WF_adminVars(part = "admin" /\ CallStep(c))
    /\ WF_adminVars(part = "admin" /\ \E c \in Call : TimerFires(c))
Spec == Init /\ [][PlatformNext]_vars
FairSpec == Spec /\ Fairness

-----------------------------------------------------------------------------
TypeOK ==
    /\ part \in Parts
    /\ CASE part = "usage" -> AccountingTypeOK
         [] part \in {"routers", "agent", "login", "other"} -> AlertsTypeOK
         [] part = "admin" -> AdminTypeOK
         [] part \in {"lookups", "apps"} -> AppTypeOK
         [] part = "books" -> BooksTypeOK
         [] part = "claude" -> BridgeTypeOK
         [] part = "console" -> ConsoleTypeOK
         [] part = "fees" -> FeesTypeOK
         [] part \in {"power", "battery", "net", "rest"} -> HealthTypeOK
         [] part \in {"watch", "probe"} -> LeasesTypeOK
         [] part \in {"charge", "split"} -> MeterTypeOK
         [] part \in {"network", "stamps"} -> NetworkTypeOK
         [] part \in {"page", "recovery"} -> PortalTypeOK

\* Each states what the modules named there state, of the part that moves.

\* Alerts, HostHealth: an outage that lasts is told in the end.
OutagesTold == RouterOutageTold /\ AgentOutageTold /\ HostOutageTold
\* Network, Leases: who is taken to be up or there was so while it was looked.
PresenceIsReal ==
    /\ part \in {"network", "stamps"} => PresenceIsSound
    /\ part = "probe" => PresenceIsFresh
\* Fees: the page's offer can be paid out, and the table tells the fee.
FeesAgree == part = "fees" => OfferFits /\ TiersTellTheFee
\* Books: the dashboard, the earnings and the finance page find the same.
BooksAgree == part = "books" => LedgersAgree
\* Accounting, AppUsage: the bytes of a report arrive at the voucher and at the
\* hourly table, each as its own counter has them; the parts of a tick add up
\* to what that tick has counted, split across the apps the lookups tell.
UsageAccounted ==
    /\ part = "usage" => UsageAddsUp
    /\ part = "apps" => AppsAddUp
    /\ part = "lookups" => LookupsRead
=============================================================================
