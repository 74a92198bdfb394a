------------------------------- MODULE Alerts -------------------------------
(* Alerts in the API: AlertsService.notify with the messenger and the SMS   *)
(* log, the monitors' crons, the failed-login counter of AuthService, and   *)
(* the alerts the agent posts.  A notice runs through notify one awaited    *)
(* call at a time; the crons wait for theirs, everybody else does not.      *)
EXTENDS Naturals, FiniteSets, Option

CONSTANTS Watched,
          Login,           \* notices that failed logins may have under way at once
          AgentFailures,   \* AGENT_FAILURES_BEFORE_ALERT
          FailedLogins,    \* FAILED_LOGINS_BEFORE_ALERT
          DbFaults,        \* whether a query of notify may fail
          MaxApiRestarts

VARIABLES beating,    \* routers with a heartbeat in the last three minutes
          agentUp,    \* the agent answers isHealthy
          known,      \* routerOnline: TRUE, FALSE or None for never looked at
          pass,       \* the rest of a checkRouters pass: what it read of the routers to come
          failures, downAlerted, agentPc,   \* checkAgent
          wrong,      \* failed logins of the last 15 minutes
          note,       \* notices under way, by who raised them
          recent,     \* keys with an event younger than their cooldown
          smsFailed,  \* a FAILED SmsLog row of the last 10 minutes
          last,       \* the newest event about each subject
          excused,    \* subjects whose last change raised no event, and why not
          apiRestarts
routerVars == <<beating, known, pass>>
checkVars == <<agentUp, failures, downAlerted, agentPc>>
eventVars == <<recent, last, excused>>
alertsVars == <<routerVars, checkVars, wrong, note, eventVars, smsFailed, apiRestarts>>

\* Who raises notices.  The crons are faster than their periods, so each runs
\* one at a time.  Notices that nothing else depends on share "other".
Raiser == {"routers", "agent", "other"} \cup Login
Subject == Watched \cup {"agent", "login", "other"}
Key == [about : Subject, word : {"bad", "info"}]
Quiet == [pc |-> "idle", about |-> None, word |-> None, keyed |-> FALSE]

AlertsInit ==
    /\ beating \in SUBSET Watched /\ agentUp \in BOOLEAN
    /\ known = [r \in Watched |-> None] /\ pass = [r \in Watched |-> None]
    /\ failures = 0 /\ downAlerted = FALSE /\ agentPc = "idle" /\ wrong = 0
    /\ note = [p \in Raiser |-> Quiet]
    /\ recent = {} /\ smsFailed = FALSE
    /\ last = [s \in Subject |-> None] /\ excused = {}
    /\ apiRestarts = 0

-----------------------------------------------------------------------------
\* notify

\* Recoveries carry no key; everything else is suppressed within its cooldown.
Raise(p, s, w, keyed) ==
    /\ note[p].pc = "idle"
    /\ note' = [note EXCEPT ![p] = [pc |-> IF keyed THEN "find" ELSE "create",
                                    about |-> s, word |-> w, keyed |-> keyed]]
KeyOf(n) == [about |-> n.about, word |-> n.word]
\* Whose change goes untold without n: the notice of a login that succeeded
\* says nothing of the failed ones.
Tells(n) == IF n.about = "login" /\ n.word = "info" THEN {} ELSE {n.about}

FindRecent(p) ==
    /\ note[p].pc = "find"
    /\ IF KeyOf(note[p]) \in recent
       THEN /\ note' = [note EXCEPT ![p] = Quiet]
            /\ excused' = excused \cup Tells(note[p])
       ELSE /\ note' = [note EXCEPT ![p].pc = "create"]
            /\ UNCHANGED excused
    /\ UNCHANGED <<routerVars, checkVars, wrong, recent, smsFailed, last, apiRestarts>>

CreateEvent(p) ==
    LET n == note[p] IN
    /\ n.pc = "create"
    /\ note' = [note EXCEPT ![p].pc = "deliver"]
    /\ last' = [last EXCEPT ![n.about] = n.word]
    /\ excused' = excused \ Tells(n)
    /\ recent' = IF n.keyed THEN recent \cup {KeyOf(n)} ELSE recent
    /\ UNCHANGED <<routerVars, checkVars, wrong, smsFailed, apiRestarts>>

\* What becomes of a message handed to the WhatsApp hub or to EGO SMS, whose
\* calls do not throw; EGO also answers 200 when it refused.
SendUpdate == {"taken", "refused", "no answer"}
EgoSend == {"OK", "Failed", "no answer"}

\* sendNow logs the outcome of an SMS; no cron calls retryFailed, so a row that
\* failed stays so.
SendNow(outcome) == smsFailed \/ outcome # "OK"

\* MessengerService.send: WhatsApp, then SMS, as far as the recipient has them.
Send(channels) ==
    {IF "sms" \notin channels \/ ("whatsapp" \in channels /\ wa = "taken")
     THEN smsFailed ELSE SendNow(ego) : wa \in SendUpdate, ego \in EgoSend}
Sent == UNION {Send(channels) : channels \in SUBSET {"whatsapp", "sms"}}

\* notifyRecipients, and the deliveries are stored; nobody may want to know.
Deliver(p) ==
    /\ note[p].pc = "deliver"
    /\ note' = [note EXCEPT ![p] = Quiet]
    /\ smsFailed' \in Sent
    /\ UNCHANGED <<routerVars, checkVars, wrong, eventVars, apiRestarts>>

\* The dashboard's test alert and messages to customers go the same way.
SendOther ==
    /\ smsFailed' \in Sent
    /\ UNCHANGED <<routerVars, checkVars, wrong, note, eventVars, apiRestarts>>

\* A query fails: the error is logged and the notice is gone.
LoseNotice(p) ==
    /\ DbFaults /\ note[p].pc \in {"find", "create"}
    /\ note' = [note EXCEPT ![p] = Quiet]
    /\ excused' = excused \cup Tells(note[p])
    /\ UNCHANGED <<routerVars, checkVars, wrong, recent, smsFailed, last, apiRestarts>>

\* Failed logins count for 15 minutes and their alert's cooldown is an hour:
\* it ends with failures that count only if their alert was suppressed.
CooldownEnds(k) ==
    /\ k \in recent /\ recent' = recent \ {k}
    /\ k = [about |-> "login", word |-> "bad"] => wrong < FailedLogins \/ "login" \in excused
    /\ UNCHANGED <<routerVars, checkVars, wrong, note, smsFailed, last, excused, apiRestarts>>

-----------------------------------------------------------------------------
\* The monitors

CheckRouters ==
    /\ note["routers"].pc = "idle" /\ \A r \in Watched : pass[r] = None
    /\ pass' = [r \in Watched |-> r \in beating]
    /\ UNCHANGED <<beating, checkVars, known, wrong, note, eventVars, smsFailed, apiRestarts>>

\* The first look at a router only records its state.
LookAt(r) ==
    LET before == known[r] IN
    /\ note["routers"].pc = "idle" /\ pass[r] # None
    /\ known' = [known EXCEPT ![r] = pass[r]]
    /\ pass' = [pass EXCEPT ![r] = None]
    /\ IF before \in {None, pass[r]}
       THEN /\ excused' = IF before = None THEN excused \cup {r} ELSE excused
            /\ UNCHANGED note
       ELSE /\ Raise("routers", r, IF pass[r] THEN "info" ELSE "bad", ~pass[r])
            /\ UNCHANGED excused
    /\ UNCHANGED <<beating, checkVars, wrong, recent, smsFailed, last, apiRestarts>>

CheckAgent ==
    /\ agentPc = "idle" /\ note["agent"].pc = "idle"
    /\ \/ /\ agentUp /\ downAlerted
          /\ Raise("agent", "agent", "info", FALSE)
          /\ agentPc' = "recovered"
          /\ UNCHANGED <<failures, downAlerted>>
       \/ /\ agentUp /\ ~downAlerted
          /\ failures' = 0
          /\ UNCHANGED <<note, agentPc, downAlerted>>
       \/ /\ ~agentUp
          /\ failures' = IF failures < AgentFailures THEN failures + 1 ELSE failures
          /\ IF failures' >= AgentFailures /\ ~downAlerted
             THEN /\ downAlerted' = TRUE
                  /\ Raise("agent", "agent", "bad", TRUE)
             ELSE UNCHANGED <<note, downAlerted>>
          /\ UNCHANGED agentPc
    /\ UNCHANGED <<routerVars, agentUp, wrong, eventVars, smsFailed, apiRestarts>>

\* Mutant: the recovery leaves the outage marked as alerted.
AgentRecoveredOnce ==
    /\ agentPc = "recovered" /\ note["agent"].pc = "idle"
    /\ agentPc' = "idle" /\ failures' = 0
    /\ UNCHANGED <<routerVars, agentUp, downAlerted, wrong, note, eventVars, smsFailed, apiRestarts>>

AgentRecovered ==
    /\ agentPc = "recovered" /\ note["agent"].pc = "idle"
    /\ agentPc' = "idle" /\ failures' = 0 /\ downAlerted' = FALSE
    /\ UNCHANGED <<routerVars, agentUp, wrong, note, eventVars, smsFailed, apiRestarts>>

CheckSmsFailures ==
    /\ smsFailed
    /\ Raise("other", "other", "bad", TRUE)
    /\ \E more \in BOOLEAN : smsFailed' = more    \* whether the rows are still recent
    /\ UNCHANGED <<routerVars, checkVars, wrong, eventVars, apiRestarts>>

DailySummary ==
    /\ Raise("other", "other", "info", TRUE)
    /\ UNCHANGED <<routerVars, checkVars, wrong, eventVars, smsFailed, apiRestarts>>

\* The agent's POST /alert is answered before it is delivered.
HostAlert ==
    /\ Raise("other", "other", "bad", TRUE)
    /\ UNCHANGED <<routerVars, checkVars, wrong, eventVars, smsFailed, apiRestarts>>

-----------------------------------------------------------------------------
\* Logins, for one address

\* Mutant: the alert is due above the limit, not at it.
LoginFailsUnseen ==
    /\ wrong' = IF wrong < FailedLogins THEN wrong + 1 ELSE wrong
    /\ IF wrong' > FailedLogins THEN \E p \in Login : Raise(p, "login", "bad", TRUE)
       ELSE UNCHANGED note
    /\ UNCHANGED <<routerVars, checkVars, eventVars, smsFailed, apiRestarts>>

LoginFails ==
    /\ wrong' = IF wrong < FailedLogins THEN wrong + 1 ELSE wrong
    /\ IF wrong' >= FailedLogins THEN \E p \in Login : Raise(p, "login", "bad", TRUE)
       ELSE UNCHANGED note
    /\ UNCHANGED <<routerVars, checkVars, eventVars, smsFailed, apiRestarts>>

LoginSucceeds ==
    /\ wrong' = 0
    /\ \E p \in Login : Raise(p, "login", "info", TRUE)
    /\ UNCHANGED <<routerVars, checkVars, eventVars, smsFailed, apiRestarts>>

\* The attempts of 15 minutes ago no longer count, nor do those of an address
\* that a thousand others pushed out of the map.
WrongAge ==
    /\ wrong > 0 /\ wrong' = wrong - 1
    /\ UNCHANGED <<routerVars, checkVars, note, eventVars, smsFailed, apiRestarts>>

-----------------------------------------------------------------------------
\* Heartbeats begin and stop, the agent comes and goes, the API restarts.
Beat(r) ==
    /\ beating' = IF r \in beating THEN beating \ {r} ELSE beating \cup {r}
    /\ UNCHANGED <<checkVars, known, pass, wrong, note, eventVars, smsFailed, apiRestarts>>
AgentTurns ==
    /\ agentUp' = ~agentUp
    /\ UNCHANGED <<routerVars, failures, downAlerted, agentPc, wrong, note, eventVars, smsFailed, apiRestarts>>
AlertsRestart ==
    /\ apiRestarts < MaxApiRestarts /\ apiRestarts' = apiRestarts + 1
    /\ known' = [r \in Watched |-> None] /\ pass' = [r \in Watched |-> None]
    /\ failures' = 0 /\ downAlerted' = FALSE /\ agentPc' = "idle" /\ wrong' = 0
    /\ excused' = excused \cup UNION {Tells(note[p]) : p \in {q \in Raiser : note[q].pc \in {"find", "create"}}}
    /\ note' = [p \in Raiser |-> Quiet]
    /\ UNCHANGED <<beating, agentUp, recent, smsFailed, last>>

NoticeStep(p) == FindRecent(p) \/ CreateEvent(p) \/ Deliver(p)
MonitorStep == CheckRouters \/ (\E r \in Watched : LookAt(r))
AgentStep == CheckAgent \/ AgentRecovered

\* Everything that concerns one group of raisers; the groups share no keys.
Notices(P, about) ==
    \/ \E p \in P : NoticeStep(p) \/ LoseNotice(p)
    \/ \E k \in Key : k.about \in about /\ CooldownEnds(k)
RoutersNext == MonitorStep \/ (\E r \in Watched : Beat(r)) \/ Notices({"routers"}, Watched)
AgentNext == AgentStep \/ AgentTurns \/ Notices({"agent"}, {"agent"})
LoginNext == LoginFails \/ LoginSucceeds \/ WrongAge \/ Notices(Login, {"login"})
OtherNext == CheckSmsFailures \/ DailySummary \/ HostAlert \/ SendOther \/ Notices({"other"}, {"other"})

AlertsNext == RoutersNext \/ AgentNext \/ LoginNext \/ OtherNext \/ AlertsRestart
-----------------------------------------------------------------------------
AlertsTypeOK ==
    /\ beating \subseteq Watched /\ agentUp \in BOOLEAN
    /\ {known, pass} \subseteq [Watched -> Maybe(BOOLEAN)]
    /\ failures \in 0..AgentFailures /\ downAlerted \in BOOLEAN /\ agentPc \in {"idle", "recovered"}
    /\ wrong \in 0..FailedLogins
    /\ note \in [Raiser -> [pc : {"idle", "find", "create", "deliver"}, about : Maybe(Subject),
                            word : Maybe({"bad", "info"}), keyed : BOOLEAN]]
    /\ recent \subseteq Key /\ smsFailed \in BOOLEAN
    /\ last \in [Subject -> Maybe({"bad", "info"})] /\ excused \subseteq Subject
    /\ apiRestarts \in 0..MaxApiRestarts

\* While failed logins of an address are over the limit, their alert has been
\* stored within its cooldown or is under way, unless it was suppressed or a
\* query failed: a successful login in between, attempts that age and the hour
\* of the cooldown may not lose it.
GuessingIsTold ==
    wrong >= FailedLogins =>
      \/ [about |-> "login", word |-> "bad"] \in recent
      \/ "login" \in excused
      \/ \E p \in Login : note[p].pc \in {"find", "create"} /\ note[p].word = "bad"

\* When a router or the agent stays away, the newest event about it says so in
\* the end, unless the change was suppressed by its cooldown, a query failed or
\* the API had just been restarted.  A recovery that is announced late may not
\* have the last word.
RouterOutageTold == \A r \in Watched : <>[](r \notin beating) => <>[](last[r] = "bad" \/ r \in excused)
AgentOutageTold == <>[](~agentUp) => <>[](last["agent"] = "bad" \/ "agent" \in excused)
=============================================================================
