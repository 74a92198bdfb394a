----------------------------- MODULE HostHealth -----------------------------
(* host-health.ts and alerts.ts of the network agent: one check after the   *)
(* other of what only the gateway machine can see, and the way an alert     *)
(* takes, through the API or, when that is down, straight to WhatsApp.      *)
(* A check cannot overlap another one (`checking`), and nothing else        *)
(* touches what it remembers, so reading, alerting and remembering one      *)
(* thing is one step.                                                       *)
EXTENDS Naturals, FiniteSets, FiniteSetsExt, Option

CONSTANTS NetFailures,     \* INTERNET_FAILURES_BEFORE_ALERT
          ApiFailures,     \* API_FAILURES_BEFORE_ALERT
          Charge,          \* battery levels in percent
          MaxAgentRestarts

VARIABLES mains, charge, net, api, diskLow, hot,   \* how things are
          at,                                      \* where the check is
          power, netUp, netFails, apiFails,        \* what it remembers
          warned,    \* battery levels raised so far
          cool,      \* keys in their cooldown at the API
          direct,    \* and those of messages sent directly
          told,      \* the last word on each topic that the API has stored or
                     \* WhatsApp has taken
          hushed,   \* topics whose last change made no word go out
          announced, agentRestarts
worldVars == <<mains, charge, net, api, diskLow, hot>>
wordVars == <<cool, direct, told, hushed>>
healthVars == <<worldVars, at, power, netUp, netFails, apiFails, warned, wordVars,
                announced, agentRestarts>>

Topic == {"power", "battery", "net", "api", "disk", "heat", "start"}
\* An alert: its topic, its dedupeKey (a topic and a number) or None, its
\* severity, whether it is bad news.
Alert(topic, key, severity, bad) == [topic |-> topic, key |-> key, severity |-> severity, bad |-> bad]

HealthInit ==
    /\ mains = TRUE /\ charge = 100 /\ net = TRUE /\ api = TRUE
    /\ diskLow = FALSE /\ hot = FALSE
    /\ at = "power" /\ power = None /\ netUp = TRUE /\ netFails = 0 /\ apiFails = 0
    /\ warned = {} /\ cool = {} /\ direct = {}
    /\ told = [t \in Topic |-> None] /\ hushed = {}
    /\ announced = FALSE /\ agentRestarts = 0

-----------------------------------------------------------------------------
Out(a) == /\ told' = [told EXCEPT ![a.topic] = a.bad]
          /\ hushed' = hushed \ {a.topic}
Silent(a) == /\ hushed' = hushed \cup {a.topic}
             /\ UNCHANGED told
\* Only what is urgent goes out directly, under a cooldown of its own.  It
\* begins before the post, whose failure is logged and no more: a post that is
\* lost, or has no route out, silences its key like one that arrived.
SendDirect(a) ==
    /\ IF a.severity = "CRITICAL" /\ a.key \notin direct
       THEN direct' = direct \cup {a.key} /\ (Out(a) \/ Silent(a))
       ELSE UNCHANGED direct /\ Silent(a)
    /\ UNCHANGED cool
\* The API suppresses a key in its cooldown; recoveries have no key.
RaiseAlert(a) ==
    IF ~api THEN SendDirect(a)
    ELSE /\ IF a.key \in cool THEN Silent(a) /\ UNCHANGED cool
            ELSE Out(a) /\ cool' = cool \cup ({a.key} \ {None})
         /\ UNCHANGED direct
NoAlert == UNCHANGED wordVars

-----------------------------------------------------------------------------
CheckPower ==
    /\ at = "power" /\ at' = "battery"
    /\ IF power \in {None, mains}
       THEN IF power = None /\ ~mains
            THEN Silent(Alert("power", None, "INFO", TRUE)) /\ UNCHANGED <<cool, direct>>
            ELSE NoAlert
       ELSE RaiseAlert(IF mains THEN Alert("power", None, "INFO", FALSE)
                       ELSE Alert("power", <<"power", 0>>, "CRITICAL", TRUE))
    /\ power' = mains
    /\ UNCHANGED <<worldVars, netUp, netFails, apiFails, warned, announced, agentRestarts>>

\* The levels are tried from 30 down; the first that the charge does not exceed
\* is raised, and no other.
CheckBattery ==
    LET hits == {n \in {30, 15, 7} : charge <= n}
        level == Max(hits)
    IN /\ at = "battery" /\ at' = "net"
       /\ IF power = FALSE /\ hits # {}
          THEN /\ warned' = warned \cup {level}
               /\ RaiseAlert(Alert("battery", <<"battery", level>>, IF level = 30 THEN "WARNING" ELSE "CRITICAL", TRUE))
          ELSE NoAlert /\ UNCHANGED warned
       /\ UNCHANGED <<worldVars, power, netUp, netFails, apiFails, announced, agentRestarts>>

CheckInternet ==
    /\ at = "net" /\ at' = "api"
    /\ IF net
       THEN /\ IF netUp THEN NoAlert ELSE RaiseAlert(Alert("net", None, "INFO", FALSE))
            /\ netUp' = TRUE /\ netFails' = 0
       ELSE /\ netFails' = IF netFails < NetFailures THEN netFails + 1 ELSE netFails
            /\ netUp' = (netUp /\ netFails' < NetFailures)
            /\ IF netUp /\ ~netUp' THEN RaiseAlert(Alert("net", <<"net", 0>>, "CRITICAL", TRUE))
               ELSE NoAlert
    /\ UNCHANGED <<worldVars, power, apiFails, warned, announced, agentRestarts>>

\* The outage is announced once, when the count reaches the limit exactly;
\* the model stops counting one above it.
CheckApi ==
    /\ at = "api" /\ at' = "disk"
    /\ IF api
       THEN /\ IF apiFails >= ApiFailures THEN RaiseAlert(Alert("api", None, "INFO", FALSE)) ELSE NoAlert
            /\ apiFails' = 0
       ELSE /\ apiFails' = IF apiFails > ApiFailures THEN apiFails ELSE apiFails + 1
            /\ IF apiFails' = ApiFailures /\ apiFails < ApiFailures
               THEN SendDirect(Alert("api", <<"api", 0>>, "CRITICAL", TRUE)) ELSE NoAlert
    /\ UNCHANGED <<worldVars, power, netUp, netFails, warned, announced, agentRestarts>>

CheckDisk ==
    /\ at = "disk" /\ at' = "heat"
    /\ IF diskLow THEN RaiseAlert(Alert("disk", <<"disk", 0>>, "WARNING", TRUE)) ELSE NoAlert
    /\ UNCHANGED <<worldVars, power, netUp, netFails, apiFails, warned, announced, agentRestarts>>

CheckHeat ==
    /\ at = "heat" /\ at' = "power"
    /\ IF hot THEN RaiseAlert(Alert("heat", <<"heat", 0>>, "WARNING", TRUE)) ELSE NoAlert
    /\ UNCHANGED <<worldVars, power, netUp, netFails, apiFails, warned, announced, agentRestarts>>

\* announceStartup, after the first sync with the API that worked.
Announce ==
    /\ ~announced /\ api /\ announced' = TRUE
    /\ \E rebooted \in BOOLEAN :
         RaiseAlert(IF rebooted THEN Alert("start", <<"start", 1>>, "WARNING", FALSE)
                    ELSE Alert("start", <<"start", 0>>, "INFO", FALSE))
    /\ UNCHANGED <<worldVars, at, power, netUp, netFails, apiFails, warned, agentRestarts>>

-----------------------------------------------------------------------------
MainsTurn == /\ mains' = ~mains
             /\ UNCHANGED <<charge, net, api, diskLow, hot>>
ChargeTurns == /\ charge' \in Charge
               /\ UNCHANGED <<mains, net, api, diskLow, hot>>
NetTurns == /\ net' = ~net
            /\ UNCHANGED <<mains, charge, api, diskLow, hot>>
ApiTurns == /\ api' = ~api
            /\ UNCHANGED <<mains, charge, net, diskLow, hot>>
GatewayTurns == /\ diskLow' \in BOOLEAN /\ hot' \in BOOLEAN
                /\ UNCHANGED <<mains, charge, net, api>>
WorldTurns(step) ==
    /\ step
    /\ UNCHANGED <<at, power, netUp, netFails, apiFails, warned, wordVars, announced, agentRestarts>>

KeyCools(k) ==
    /\ \/ k \in cool /\ cool' = cool \ {k} /\ UNCHANGED direct
       \/ k \in direct /\ direct' = direct \ {k} /\ UNCHANGED cool
    /\ UNCHANGED <<worldVars, at, power, netUp, netFails, apiFails, warned, told, hushed,
                   announced, agentRestarts>>

AgentRestart ==
    /\ agentRestarts < MaxAgentRestarts /\ agentRestarts' = agentRestarts + 1
    /\ at' = "power" /\ power' = None /\ netUp' = TRUE /\ netFails' = 0 /\ apiFails' = 0
    /\ direct' = {} /\ announced' = FALSE
    /\ UNCHANGED <<worldVars, warned, cool, told, hushed>>

CheckStep == CheckPower \/ CheckBattery \/ CheckInternet \/ CheckApi \/ CheckDisk \/ CheckHeat
HealthStep == CheckStep \/ (\E k \in cool \cup direct : KeyCools(k)) \/ AgentRestart
HealthNext ==
    \/ HealthStep \/ Announce
    \/ WorldTurns(MainsTurn) \/ WorldTurns(ChargeTurns) \/ WorldTurns(NetTurns)
    \/ WorldTurns(ApiTurns) \/ WorldTurns(GatewayTurns)
-----------------------------------------------------------------------------
HealthTypeOK ==
    /\ {mains, net, api, diskLow, hot, netUp, announced} \subseteq BOOLEAN /\ charge \in Charge \cup {100}
    /\ at \in {"power", "battery", "net", "api", "disk", "heat"} /\ power \in Maybe(BOOLEAN)
    /\ netFails \in 0..NetFailures /\ apiFails \in 0..ApiFailures + 1
    /\ warned \subseteq {30, 15, 7} /\ {None} \cap (cool \cup direct) = {}
    /\ told \in [Topic -> Maybe(BOOLEAN)] /\ hushed \subseteq Topic
    /\ agentRestarts \in 0..MaxAgentRestarts

\* When mains power, the internet or the API stays away, the last word on it
\* that was stored or taken is the bad one, unless that change was hushed: by a
\* cooldown, by the API being down at the moment of a notice that is not urgent,
\* by a direct post that did not arrive (nothing repeats it: an outage of the
\* API is announced once, that of the internet when it begins), or by a start
\* of the agent in the middle of it.
HostOutageTold ==
    /\ <>[](~mains) => <>[](told["power"] = TRUE \/ "power" \in hushed)
    /\ <>[](~net) => <>[](told["net"] = TRUE \/ "net" \in hushed)
    /\ <>[](~api) => <>[](told["api"] = TRUE \/ "api" \in hushed)
=============================================================================
