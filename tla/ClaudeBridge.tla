---------------------------- MODULE ClaudeBridge ----------------------------
(* scripts/claude-bridge.mjs, which runs Claude Code or Codex for WhatsApp  *)
(* conversations, and the API's side of a turn, whatsapp-claude.service.ts. *)
(* A turn is queued behind the other turns of its conversation; it either   *)
(* answers at once (menus, project and session choices), signs Claude in,   *)
(* or runs the agent, which takes long.  Sessions live in three places: in  *)
(* memory, in the state file, and in the agent's own store, which others    *)
(* may clean up.                                                            *)
EXTENDS Naturals, Sequences, FiniteSets, Option

CONSTANTS Conv,         \* WhatsApp conversations
          Turn,         \* messages of the owner
          Inputs,       \* what a message may ask for, see Input
          Engine,       \* subset of {"claude", "codex"}
          Folder, Home, \* project folders and the default one
          Sid,          \* session ids
          Gone,         \* a session its store no longer has
          MaxCrashes

VARIABLES conv,     \* memory: [cwd, sid, engine] per conversation
          file,     \* the state file, as loadSessions would read it
          store,    \* the agents' sessions: [cwd, engine] by id, None, or Gone
          queue,    \* turns waiting or at work, per conversation
          turn,     \* what the bridge and the API know of a turn
          login,    \* `claude auth login` processes, in the order of their start
          pending,  \* pendingLogin, an index of login or 0
          crashes
bridgeVars == <<conv, file, store, queue, turn, login, pending, crashes>>

Input == [do : {"menu", "new", "login", "code", "ask"}]
         \cup [do : {"cd"}, to : Folder \cup {None}] \cup [do : {"pick"}, to : Sid]
Fresh == [cwd |-> Home, sid |-> None, engine |-> None]
Ready == [pc |-> "idle", conv |-> None, engine |-> None, input |-> None,
          from |-> None, sid |-> None, login |-> 0, late |-> FALSE, api |-> "idle", reply |-> None]

BridgeInit ==
    /\ conv = [c \in Conv |-> Fresh] /\ file = conv
    /\ store = [s \in Sid |-> None]
    /\ queue = [c \in Conv |-> <<>>]
    /\ turn = [t \in Turn |-> Ready]
    /\ login = <<>> /\ pending = 0 /\ crashes = 0

Busy(t) == turn[t].pc \in {"queued", "run", "link", "code"}
First(t) == Busy(t) /\ Head(queue[turn[t].conv]) = t

\* WhatsAppClaudeService.handle posts the turn; the bridge queues it.
Post(t, c, e, i) ==
    /\ turn[t].api = "idle"
    /\ turn' = [turn EXCEPT ![t] = [Ready EXCEPT !.pc = "queued", !.conv = c, !.engine = e,
                                                 !.input = i, !.api = "waiting"]]
    /\ queue' = [queue EXCEPT ![c] = Append(@, t)]
    /\ UNCHANGED <<conv, file, store, login, pending, crashes>>

\* The answer reaches the owner unless the API has given up waiting.
Answered(f, t, r) ==
    [f EXCEPT ![t].pc = "answered", ![t].reply = r,
              ![t].api = IF @ = "waiting" THEN "replied" ELSE @]
\* Mutant: the answered turn stays at the head of its conversation's queue.
AnswerOnly(t, r) == turn' = Answered(turn, t, r) /\ UNCHANGED queue

\* The bridge answers t and takes the next turn of the conversation.
Answer(t, r) ==
    /\ turn' = Answered(turn, t, r)
    /\ queue' = [queue EXCEPT ![turn[t].conv] = Tail(@)]

\* An engine's id cannot be resumed by the other engine.
Switched(c, e) ==
    IF c.engine = e THEN c
    ELSE [c EXCEPT !.engine = e, !.sid = IF c.engine # None \/ e = "codex" THEN None ELSE @]
SessionsFor(c) == {s \in Sid : store[s] = [cwd |-> c.cwd, engine |-> c.engine]}

\* saveSessions after the conversation became c; nothing is written when
\* neither the engine nor the command changed it.
Saved(t, c, write) ==
    /\ conv' = [conv EXCEPT ![turn[t].conv] = c]
    /\ file' = IF write THEN conv' ELSE file

\* handle up to its first await, for the commands that answer at once.
Command(t) ==
    LET i == turn[t].input
        c0 == conv[turn[t].conv]
        c == Switched(c0, turn[t].engine)
    IN /\ First(t) /\ turn[t].pc = "queued"
       /\ \/ /\ \/ i.do = "menu"
                \/ i.do = "login" /\ c.engine = "codex"
                \/ i.do = "code" /\ pending = 0
                \/ i.do = "cd" /\ i.to = None
                \/ i.do = "pick" /\ i.to \notin SessionsFor(c)
             /\ Saved(t, c, c # c0)
          \/ i.do = "new" /\ Saved(t, [c EXCEPT !.sid = None], TRUE)
          \/ /\ i.do = "cd" /\ i.to # None
             /\ Saved(t, [c EXCEPT !.cwd = i.to, !.sid = None], TRUE)
          \/ i.do = "pick" /\ i.to \in SessionsFor(c) /\ Saved(t, [c EXCEPT !.sid = i.to], TRUE)
       /\ Answer(t, "menu")
       /\ UNCHANGED <<store, login, pending, crashes>>

\* startLogin kills the login under way; its process closes some time later.
StartLogin(t) ==
    LET c == Switched(conv[turn[t].conv], turn[t].engine) IN
    /\ First(t) /\ turn[t].pc = "queued"
    /\ turn[t].input.do = "login" /\ c.engine = "claude"
    /\ Saved(t, c, c # conv[turn[t].conv])
    /\ login' = Append(login, "open") /\ pending' = Len(login')
    /\ turn' = [turn EXCEPT ![t].pc = "link", ![t].login = Len(login')]
    /\ UNCHANGED <<store, queue, crashes>>

\* The link, or nothing within 30 s.
LinkKnown(t) ==
    /\ turn[t].pc = "link"
    /\ Answer(t, "link")
    /\ UNCHANGED <<conv, file, store, login, pending, crashes>>

\* finishLogin writes the code to the waiting process ...
SendCode(t) ==
    LET c == Switched(conv[turn[t].conv], turn[t].engine) IN
    /\ First(t) /\ turn[t].pc = "queued"
    /\ turn[t].input.do = "code" /\ pending # 0
    /\ Saved(t, c, c # conv[turn[t].conv])
    /\ turn' = [turn EXCEPT ![t].pc = "code", ![t].login = pending]
    /\ UNCHANGED <<store, queue, login, pending, crashes>>

\* ... and waits 60 s for it to end.
CodeDone(t) ==
    /\ turn[t].pc = "code"
    /\ Answer(t, "code")
    /\ UNCHANGED <<conv, file, store, login, pending, crashes>>

\* Mutant: whichever login closes, the bridge forgets the pending one.
NonePending(l) == 0

\* A login process ends: signed in, killed by a newer one, or after 15 min.
StillPending(l) == IF pending = l THEN 0 ELSE pending
LoginCloses(l) ==
    /\ login[l] = "open"
    /\ login' = [login EXCEPT ![l] = "closed"]
    /\ pending' = StillPending(l)
    /\ UNCHANGED <<conv, file, store, queue, turn, crashes>>

\* A request for the agent: it runs in the conversation's folder, resuming
\* its session.
Run(t) ==
    LET c == Switched(conv[turn[t].conv], turn[t].engine) IN
    /\ First(t) /\ turn[t].pc = "queued" /\ turn[t].input.do = "ask"
    /\ Saved(t, c, c # conv[turn[t].conv])
    /\ turn' = [turn EXCEPT ![t].pc = "run", ![t].from = c.sid, ![t].sid = c.sid]
    /\ UNCHANGED <<store, queue, login, pending, crashes>>

(* What runClaude and runCodex resolve to.  matches says that the error     *)
(* fits the pattern of handle's retry: Claude's own stop message does,      *)
(* because it says "session"; Codex's does not.  When Claude was stopped    *)
(* but left text, a run without a session takes the text and the id of the  *)
(* transcript that changed last in the folder, whoever wrote it.            *)
Result(kind, s, matches) == [kind |-> kind, sid |-> s, matches |-> matches]
Results(t) ==
    LET e == turn[t].engine
        s == turn[t].sid
        here == [cwd |-> conv[turn[t].conv].cwd, engine |-> e]
        ids == IF s # None THEN {s} ELSE {n \in Sid : store[n] = None}
        newest == {turn[x].sid : x \in {y \in Turn : turn[y].pc = "run"}}
    IN IF s # None /\ store[s] = Gone THEN {Result("gone", None, TRUE)}
       ELSE {Result("text", n, FALSE) : n \in ids}
            \cup {Result("error", n, FALSE) : n \in ids \cup {None}}
            \cup {Result("stopped", None, e = "claude")}
            \cup {Result("text", n, FALSE) :
                     n \in {m \in newest \ {None} : s = None /\ e = "claude" /\ store[m] = here}}

Retry(t, r) == r.kind # "text" /\ conv[turn[t].conv].sid # None /\ r.matches

\* The child closed.  The retry forgets the session but does not save that.
RunEnds(t, r) ==
    LET c == turn[t].conv
        behind == {x \in Turn : x # t /\ turn[x].pc = "queued" /\ turn[x].conv = c}
        waited == [x \in Turn |-> [turn[x] EXCEPT !.late = @ \/ x \in behind]]
    IN /\ turn[t].pc = "run"
       /\ store' = IF r.sid = None THEN store
                   ELSE [store EXCEPT ![r.sid] = [cwd |-> conv[c].cwd, engine |-> turn[t].engine]]
       /\ IF Retry(t, r)
          THEN /\ conv' = [conv EXCEPT ![c].sid = None]
               /\ turn' = [waited EXCEPT ![t].sid = None, ![t].late = TRUE]
               /\ UNCHANGED <<file, queue>>
          ELSE /\ Saved(t, IF r.sid = None THEN conv[c] ELSE [conv[c] EXCEPT !.sid = r.sid], r.sid # None)
               /\ turn' = Answered(waited, t, r.kind)
               /\ queue' = [queue EXCEPT ![c] = Tail(@)]
       /\ UNCHANGED <<login, pending, crashes>>

\* The API waits 65 minutes, longer than one run but not than two.
GiveUp(t) ==
    /\ turn[t].api = "waiting" /\ turn[t].late
    /\ turn' = [turn EXCEPT ![t].api = "unreached"]
    /\ UNCHANGED <<conv, file, store, queue, login, pending, crashes>>

\* A session is deleted behind the bridge's back.
CleanUp(s) ==
    /\ store[s] \notin {None, Gone}
    /\ store' = [store EXCEPT ![s] = Gone]
    /\ UNCHANGED <<conv, file, queue, turn, login, pending, crashes>>

\* The bridge dies with its children and is started again; an interrupted
\* write leaves a file that loadSessions cannot parse.
Crash(torn) ==
    /\ crashes < MaxCrashes /\ crashes' = crashes + 1
    /\ torn => \E t \in Turn : First(t) /\ turn[t].pc \in {"queued", "run"}
    /\ file' = IF torn THEN [c \in Conv |-> Fresh] ELSE file
    /\ conv' = file'
    /\ queue' = [c \in Conv |-> <<>>]
    /\ turn' = [t \in Turn |->
                  IF ~Busy(t) THEN turn[t]
                  ELSE [turn[t] EXCEPT !.pc = "answered",
                                       !.api = IF @ = "waiting" THEN "unreached" ELSE @]]
    /\ login' = [l \in DOMAIN login |-> "closed"] /\ pending' = 0
    /\ UNCHANGED store

TurnStep(t) == \/ Command(t) \/ StartLogin(t) \/ LinkKnown(t) \/ SendCode(t) \/ CodeDone(t) \/ Run(t)
               \/ \E r \in Results(t) : RunEnds(t, r)
BridgeNext ==
    \/ \E t \in Turn, c \in Conv, e \in Engine, i \in Inputs : Post(t, c, e, i)
    \/ \E t \in Turn : TurnStep(t) \/ GiveUp(t)
    \/ \E l \in DOMAIN login : LoginCloses(l)
    \/ \E s \in Sid : CleanUp(s)
    \/ \E torn \in BOOLEAN : Crash(torn)
-----------------------------------------------------------------------------
BridgeTypeOK ==
    /\ {conv, file} \subseteq [Conv -> [cwd : Folder, sid : Maybe(Sid), engine : Maybe(Engine)]]
    /\ \A s \in Sid : store[s] \in {None, Gone} \cup [cwd : Folder, engine : Engine]
    /\ \A c \in Conv : \A n \in DOMAIN queue[c] : Busy(queue[c][n]) /\ turn[queue[c][n]].conv = c
    /\ \A t \in Turn : turn[t].pc \in {"idle", "queued", "run", "link", "code", "answered"}
    /\ \A l \in DOMAIN login : login[l] \in {"open", "closed"}
    /\ pending \in 0..Len(login) /\ crashes \in 0..MaxCrashes

\* An agent is never started on a session of the other engine or of another
\* folder: the session it resumes has gone, or belongs to the folder and the
\* engine of its run.  Project and session choices, engine switches, crashes
\* with an older state file and borrowed transcripts all change one of these
\* while other turns wait.
Here(t) == [cwd |-> conv[turn[t].conv].cwd, engine |-> turn[t].engine]
ResumesOwn ==
    \A t \in Turn : turn[t].pc = "run" /\ turn[t].sid # None => store[turn[t].sid] \in {Gone, Here(t)}

\* A sign-in code goes to the login process started last, while that waits for
\* one: a killed login that closes late does not take the new one with it.
LoginIsLatest ==
    pending = IF login # <<>> /\ login[Len(login)] = "open" THEN Len(login) ELSE 0
OwnSessionOwnLogin == ResumesOwn /\ LoginIsLatest
=============================================================================
