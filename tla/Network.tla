------------------------------- MODULE Network -------------------------------
(* Which routers are up.  Routers are chained behind the gateway on one flat *)
(* LAN per segment; only the first of a segment, its root, is connected to  *)
(* the gateway itself.  The API has the agent ping everything it knows and  *)
(* read the kernel's neighbour table (network-status.ts), infers from that  *)
(* and from the configured chain who is up (network.service.ts), and stamps *)
(* those rows (routers.service.ts shows the stamp's age).                   *)
EXTENDS Naturals, FiniteSets, Option

CONSTANTS Router, Client,
          Uplink,        \* what each router is plugged into: a router, or None for the roots
          Addressed,     \* routers whose row has an address that answers
          MaxEdits       \* changes of the configuration

VARIABLES on,        \* routers with power
          place,     \* the router each client is on, or None
          neighbor,  \* the entry of each address: "REACHABLE", "STALE" or None
          rows,      \* routers the API knows
          parent,    \* parentRouterId
          stamp,     \* routers whose lastSeenAt is within three minutes
          probe,     \* [pc, parent, rows, todo, answered, presence, proof]
          proof,     \* the routers that led to an address when its entry was last confirmed
          edits
netVars == <<on, place, neighbor, rows, parent, stamp, probe, proof, edits>>

Node == Router \cup Client
Root == {r \in Router : Uplink[r] = None}
At == Node \X Root       \* the address of a node in a segment

\* r and everything above it, given who is above whom.
Chain(r, above) ==
    LET up[n \in 0..Cardinality(Router)] ==
          IF n = 0 THEN {r} ELSE up[n - 1] \cup ({above[x] : x \in up[n - 1]} \ {None})
    IN up[Cardinality(Router)]
\* What a packet to x passes, and whether it gets there.
Path(x) == IF x \in Router THEN Chain(x, Uplink)
           ELSE IF place[x] = None THEN {} ELSE Chain(place[x], Uplink)
Segment(x) == CHOOSE g \in Root : g \in Path(x)
Reached(x) == Path(x) # {} /\ Path(x) \subseteq on /\ (x \in Router => x \in Addressed)

NoProbing == [pc |-> "idle", rows |-> {}, parent |-> [r \in Router |-> None], todo |-> {},
              answered |-> {}, presence |-> {}, proof |-> {}]

NetworkInit ==
    /\ on = Router /\ place = [c \in Client |-> None]
    /\ neighbor = [a \in At |-> None] /\ proof = [a \in At |-> {}]
    /\ rows = Router /\ parent = Uplink
    /\ stamp = {}
    /\ probe = NoProbing /\ edits = 0

-----------------------------------------------------------------------------
\* The LAN and the kernel

PowerTurns(r) ==
    /\ on' = IF r \in on THEN on \ {r} ELSE on \cup {r}
    /\ UNCHANGED <<place, neighbor, rows, parent, stamp, probe, proof, edits>>
Wander(c, r) ==
    /\ r # place[c] /\ place' = [place EXCEPT ![c] = r]
    /\ UNCHANGED <<on, neighbor, rows, parent, stamp, probe, proof, edits>>

Confirmed(x) ==
    /\ neighbor' = [neighbor EXCEPT ![<<x, Segment(x)>>] = "REACHABLE"]
    /\ proof' = [proof EXCEPT ![<<x, Segment(x)>>] = Path(x)]
\* Traffic confirms an entry; unconfirmed it becomes stale and goes.
Talks(x) ==
    /\ Reached(x) /\ Confirmed(x)
    /\ UNCHANGED <<on, place, rows, parent, stamp, probe, edits>>
EntryAges(a) ==
    /\ neighbor[a] # None
    /\ neighbor' = [neighbor EXCEPT ![a] = IF @ = "REACHABLE" THEN "STALE" ELSE None]
    /\ proof' = [proof EXCEPT ![a] = {}]
    /\ UNCHANGED <<on, place, rows, parent, stamp, probe, edits>>

-----------------------------------------------------------------------------
\* The probe

\* The rows are loaded and their addresses, the leases and the neighbours
\* known so far are to be pinged, whatever became of them.
ProbeBegins(known) ==
    /\ probe.pc = "idle" /\ known \subseteq (Client \cup (rows \cap Addressed)) \X Root
    /\ probe' = [NoProbing EXCEPT !.pc = "ping", !.rows = rows, !.parent = parent, !.todo = known]
    /\ UNCHANGED <<on, place, neighbor, rows, parent, stamp, proof, edits>>
\* A phone asleep does not answer a ping.
Ping(a, answers) ==
    /\ probe.pc = "ping" /\ a \in probe.todo
    /\ answers => Reached(a[1]) /\ a[2] = Segment(a[1])
    /\ probe' = [probe EXCEPT !.todo = @ \ {a},
                              !.answered = IF answers THEN @ \cup {a} ELSE @,
                              !.proof = IF answers THEN @ \cup Path(a[1]) ELSE @]
    /\ IF answers THEN Confirmed(a[1]) ELSE UNCHANGED <<neighbor, proof>>
    /\ UNCHANGED <<on, place, rows, parent, stamp, edits>>

Online(a) == a \in probe.answered \/ neighbor[a] = "REACHABLE"
\* neighborByMac: of a client's entries the last one read counts.
LastRead == {last \in [Client -> Root] :
               \A c \in Client, g \in Root : neighbor[c, g] # None => neighbor[c, last[c]] # None}
\* clientDevices: what is online and not a router.
Clients(last) == {c \in Client : neighbor[c, last[c]] # None /\ Online(<<c, last[c]>>)}
\* inferPresence: routers that answer; roots of segments with clients; and
\* everything above them as configured.
Proven(last) == {r \in probe.rows \cap Addressed : \E g \in Root : Online(<<r, g>>)}
                \cup (probe.rows \cap {last[c] : c \in Clients(last)})
Inferred(last) == UNION {Chain(r, probe.parent) : r \in Proven(last)}
ProbeInfers(last) ==
    /\ probe.pc = "ping" /\ probe.todo = {}
    /\ probe' = [probe EXCEPT !.pc = "save", !.presence = Inferred(last),
                              !.proof = @ \cup UNION {proof[a] : a \in At}]
    /\ UNCHANGED <<on, place, neighbor, rows, parent, stamp, proof, edits>>
ProbeSaves ==
    /\ probe.pc = "save"
    /\ stamp' = stamp \cup (probe.presence \cap rows)
    /\ probe' = NoProbing
    /\ UNCHANGED <<on, place, neighbor, rows, parent, proof, edits>>

\* The agent's heartbeat for a root whose interface has carrier.
HeartBeat(g) ==
    /\ g \in Root \cap on \cap rows /\ stamp' = stamp \cup {g}
    /\ UNCHANGED <<on, place, neighbor, rows, parent, probe, proof, edits>>
StampAges(r) ==
    /\ r \in stamp /\ stamp' = stamp \ {r}
    /\ UNCHANGED <<on, place, neighbor, rows, parent, probe, proof, edits>>

-----------------------------------------------------------------------------
\* The configuration

Edit == edits < MaxEdits /\ edits' = edits + 1
\* Any other router may be the parent, one below it too.
SetParent(r, p) ==
    /\ Edit /\ r \in rows /\ p \in Maybe(rows) /\ p # r
    /\ parent' = [parent EXCEPT ![r] = p]
    /\ UNCHANGED <<on, place, neighbor, rows, stamp, probe, proof>>
CreateRouter(r, p) ==
    /\ Edit /\ r \notin rows /\ p \in Maybe(rows)
    /\ rows' = rows \cup {r} /\ parent' = [parent EXCEPT ![r] = p]
    /\ UNCHANGED <<on, place, neighbor, stamp, probe, proof>>
RemoveRouter(r) ==
    /\ Edit /\ r \in rows /\ rows' = rows \ {r}
    /\ parent' = [x \in Router |-> IF parent[x] = r \/ x = r THEN None ELSE parent[x]]
    /\ stamp' = stamp \ {r}
    /\ UNCHANGED <<on, place, neighbor, probe, proof>>

LanStep ==
    \/ \E r \in Router : PowerTurns(r)
    \/ \E c \in Client, r \in Maybe(Router) : Wander(c, r)
    \/ \E x \in Node : Talks(x)
    \/ \E a \in At : EntryAges(a)
ProbeStep ==
    \/ \E known \in SUBSET At : ProbeBegins(known)
    \/ \E a \in At, answers \in BOOLEAN : Ping(a, answers)
    \/ \E last \in LastRead : ProbeInfers(last)
    \/ ProbeSaves
StampStep == \E r \in Router : HeartBeat(r) \/ StampAges(r)
ConfigStep ==
    \/ \E r \in Router : RemoveRouter(r)
    \/ \E r \in Router, p \in Maybe(Router) : SetParent(r, p) \/ CreateRouter(r, p)
NetworkNext == LanStep \/ ProbeStep \/ StampStep \/ ConfigStep
-----------------------------------------------------------------------------
NetworkTypeOK ==
    /\ on \subseteq Router /\ place \in [Client -> Maybe(Router)]
    /\ neighbor \in [At -> Maybe({"REACHABLE", "STALE"})]
    /\ rows \subseteq Router /\ parent \in [Router -> Maybe(Router)]
    /\ stamp \subseteq rows /\ edits \in 0..MaxEdits

\* A router the probe stamps as online had power when something that proves it
\* was last heard of: it answered, or somebody behind it did, or is in the
\* neighbour table as confirmed.  That holds however routers and clients come
\* and go, but only where the configured chain is the one that is wired.
AsWired(p) == \A r \in Router : p[r] \in {Uplink[r], None}
PresenceIsSound ==
    probe.pc = "save" /\ AsWired(probe.parent) => probe.presence \subseteq probe.proof
=============================================================================
