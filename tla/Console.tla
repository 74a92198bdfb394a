------------------------------- MODULE Console -------------------------------
(* What admins change in the dashboard, where two of them may do so at once: *)
(* packages (packages.service.ts), the active output channel (output-       *)
(* channels.service.ts) and each other's accounts (admin-users.service.ts,  *)
(* jwt.strategy.ts).  Every handler reads first and writes later; the       *)
(* database isolates statements, not handlers.                              *)
EXTENDS Naturals, FiniteSets, Option

CONSTANTS Editor,    \* requests that may be under way at once
          Channel, Admin,
          MaxChanges

VARIABLES package,   \* one package: its limitType and limits
          sold,      \* whether it has vouchers or payments
          active,    \* channels with isActive
          channels,  \* those that exist
          staff,     \* active admin accounts
          job,       \* a request: [pc, lone, ...], lone until another one overlaps it
          changes
consoleVars == <<package, sold, active, channels, staff, job, changes>>

Kinds == {"DURATION", "DATA_CAP", "DURATION_AND_DATA_CAP"}
Timed(k) == k # "DATA_CAP"
Capped(k) == k # "DURATION"
Deleted == [kind |-> None, time |-> None, cap |-> None, shown |-> FALSE]

ConsoleInit ==
    /\ package = [kind |-> "DURATION", time |-> 60, cap |-> None, shown |-> TRUE]
    /\ sold \in BOOLEAN
    /\ channels = Channel /\ active \in {{c} : c \in Channel} \cup {{}}
    /\ staff = Admin
    /\ job = [e \in Editor |-> [pc |-> "idle"]] /\ changes = 0

Underway == {e \in Editor : job[e].pc # "idle"}
Lone == Underway = {}
Begins(e, j) ==
    /\ e \notin Underway /\ changes < MaxChanges /\ changes' = changes + 1
    /\ job' = [f \in Editor |-> IF f = e THEN j
                              ELSE IF f \in Underway THEN [job[f] EXCEPT !.lone = FALSE] ELSE job[f]]
Ends(e) == job' = [job EXCEPT ![e] = [pc |-> "idle"]]

-----------------------------------------------------------------------------
\* Packages.  A request names the fields it changes; None leaves one alone.

Asked == [kind : Maybe(Kinds), time : Maybe({60}), cap : Maybe({100})]
Or(a, b) == IF a = None THEN b ELSE a
Merged(asked, p) == [kind |-> Or(asked.kind, p.kind), time |-> Or(asked.time, p.time), cap |-> Or(asked.cap, p.cap)]

\* normalizeLimits refuses a limit that is missing and clears the others.
AllGiven(w) == (Timed(w.kind) => w.time # None) /\ (Capped(w.kind) => w.cap # None)
\* Mutant: limits that the kind does not have are kept.
AllLimits(w) == [time |-> w.time, cap |-> w.cap]

Limits(w) == [time |-> IF Timed(w.kind) THEN w.time ELSE None,
              cap |-> IF Capped(w.kind) THEN w.cap ELSE None]
ReadPackage(e, asked) ==
    /\ package # Deleted
    /\ AllGiven(Merged(asked, package))
    /\ Begins(e, [pc |-> "update", kind |-> asked.kind, limits |-> Limits(Merged(asked, package)),
                   lone |-> Lone])
    /\ UNCHANGED <<package, sold, active, channels, staff>>
WritePackage(e) ==
    /\ job[e].pc = "update"
    /\ package' = IF package = Deleted THEN package
                  ELSE [kind |-> Or(job[e].kind, package.kind), time |-> job[e].limits.time,
                        cap |-> job[e].limits.cap, shown |-> package.shown]
    /\ Ends(e)
    /\ UNCHANGED <<sold, active, channels, staff, changes>>

\* remove counts what was sold; the rows that were, keep it from being deleted.
CountSold(e) ==
    /\ package # Deleted
    /\ Begins(e, [pc |-> "remove", unsold |-> ~sold, lone |-> Lone])
    /\ UNCHANGED <<package, sold, active, channels, staff>>
DropPackage(e) ==
    /\ job[e].pc = "remove"
    /\ package' = IF package = Deleted THEN package
                  ELSE IF job[e].unsold THEN (IF sold THEN package ELSE Deleted)
                  ELSE [package EXCEPT !.shown = FALSE]
    /\ Ends(e)
    /\ UNCHANGED <<sold, active, channels, staff, changes>>
Sell == /\ ~sold /\ package # Deleted /\ sold' = TRUE
        /\ UNCHANGED <<package, active, channels, staff, job, changes>>

-----------------------------------------------------------------------------
\* setActive: two statements in one transaction.  The first clears the rows it
\* sees as active, the second sets one; each sees what is committed when it
\* begins and waits for rows that another transaction has written.

Locked(e, rows) == \E f \in Editor \ {e} : job[f].pc = "set" /\ job[f].cleared \cap rows # {}
FindChannel(e, c) ==
    /\ c \in channels
    /\ Begins(e, [pc |-> "look", want |-> c, lone |-> Lone])
    /\ UNCHANGED <<package, sold, active, channels, staff>>
SeeActive(e) ==
    /\ job[e].pc = "look"
    /\ job' = [job EXCEPT ![e] = [pc |-> "clear", want |-> @.want, seen |-> active, lone |-> @.lone]]
    /\ UNCHANGED <<package, sold, active, channels, staff, changes>>
ClearActive(e) ==
    /\ job[e].pc = "clear" /\ ~Locked(e, job[e].seen)
    /\ job' = [job EXCEPT ![e] = [pc |-> "set", want |-> @.want, cleared |-> @.seen \cap active, lone |-> @.lone]]
    /\ UNCHANGED <<package, sold, active, channels, staff, changes>>
\* The row may be gone; then, as when the database breaks a deadlock, nothing
\* of the transaction remains.
SetActive(e) ==
    /\ job[e].pc = "set"
    /\ IF job[e].want \in channels
       THEN ~Locked(e, {job[e].want}) /\ active' = (active \ job[e].cleared) \cup {job[e].want}
       ELSE UNCHANGED active
    /\ Ends(e)
    /\ UNCHANGED <<package, sold, channels, staff, changes>>
RemoveChannel(c) ==
    /\ c \in channels /\ \A e \in Editor : job[e].pc = "set" => c \notin job[e].cleared
    /\ changes < MaxChanges /\ changes' = changes + 1
    /\ channels' = channels \ {c} /\ active' = active \ {c}
    /\ UNCHANGED <<package, sold, staff, job>>

-----------------------------------------------------------------------------
\* Accounts: nobody deactivates the own one.  A token issued before stays
\* valid: it is not looked up again.
SetStaff(by, a, on) ==
    /\ changes < MaxChanges /\ changes' = changes + 1
    /\ by # a \/ on
    /\ staff' = IF on THEN staff \cup {a} ELSE staff \ {a}
    /\ UNCHANGED <<package, sold, active, channels, job>>

EditorStep(e) == WritePackage(e) \/ DropPackage(e) \/ SeeActive(e) \/ ClearActive(e) \/ SetActive(e)
ConsoleNext ==
    \/ \E e \in Editor : \/ EditorStep(e) \/ CountSold(e)
                         \/ \E asked \in Asked : ReadPackage(e, asked)
                         \/ \E c \in Channel : FindChannel(e, c)
    \/ Sell
    \/ \E c \in Channel : RemoveChannel(c)
    \/ \E by, a \in Admin, on \in BOOLEAN : SetStaff(by, a, on)
-----------------------------------------------------------------------------
ConsoleTypeOK ==
    /\ package = Deleted \/ package \in [kind : Kinds, time : Maybe({60}), cap : Maybe({100}), shown : BOOLEAN]
    /\ channels \subseteq Channel /\ staff \subseteq Admin /\ active \subseteq channels
    /\ \A e \in Editor : job[e].pc \in {"idle", "update", "remove", "look", "clear", "set"}
    /\ changes \in 0..MaxChanges

\* A request that no other one overlaps leaves the settings right, whatever
\* overlapping ones left before it: of the channels only the one it asked for is
\* live ("only one output channel is active at a time"), and a package has the
\* limits of its kind.  A duration left on a DATA_CAP package would make its
\* vouchers expire, a missing cap would make them unlimited.
LimitsFit(p) == (p.time # None) = Timed(p.kind) /\ (p.cap # None) = Capped(p.kind)
LoneEditSettles ==
    [][\A e \in Underway : job'[e].pc = "idle" /\ job[e].lone =>
          /\ job[e].pc = "set" /\ job[e].want \in channels => active' = {job[e].want}
          /\ job[e].pc = "update" /\ package # Deleted => LimitsFit(package')]_consoleVars
=============================================================================
