----------------------------- MODULE AdminPages -----------------------------
(* The pages of the web app for the staff (apps/web): what they load, when   *)
(* they load it again, and what they show when answers overtake each other   *)
(* or fail.  The server's data is a version number, which every change made  *)
(* to it raises; one page is open at a time.                                 *)
EXTENDS Naturals, FiniteSets, Option

CONSTANTS Call,          \* calls of the page that may be under way at once
          Period,        \* periods or filters a page can be set to
          FirstPeriod,   \* what it is set to when it is opened
          MaxData,       \* changes of the data
          MaxLost        \* calls that fail

VARIABLES route,     \* the page that is open, or None for the login page
          range,     \* what it is set to
          hidden,    \* whether the tab is in the background
          data,
          call,      \* [pc, kind, range, seen]
          loaded,    \* what the page shows: [range, seen], or None
          expired,   \* whether the server takes the token no more
          lost
adminVars == <<route, range, hidden, data, call, loaded, expired, lost>>

-----------------------------------------------------------------------------
\* What a page does: whether its load depends on a period or filter, how its
\* timer goes on, and whether what is changed on it loads it again.
Kind(ranged, timed, edits) == [ranged |-> ranged, timed |-> timed, edits |-> edits]

DashboardPage == Kind(FALSE, "always", "none")
NetworkPage == Kind(FALSE, "always", "none")
UsagePage == Kind(TRUE, "visible", "none")
AlertsPage == Kind(FALSE, "visible", "reload")
WithdrawalsPage == Kind(FALSE, "visible", "reload")
FinancePage == Kind(TRUE, "never", "reload")
VouchersPage == Kind(TRUE, "never", "reload")
PaymentsPage == Kind(TRUE, "never", "none")
PackagesPage == Kind(FALSE, "never", "reload")
RoutersPage == Kind(FALSE, "never", "reload")   \* but the selected router's users
ChannelsPage == Kind(FALSE, "never", "reload")
AdminsPage == Kind(FALSE, "never", "reload")
SettingsPage == Kind(FALSE, "never", "keep")
CustomersPage == Kind(FALSE, "never", "none")
Page == {DashboardPage, NetworkPage, UsagePage, AlertsPage, WithdrawalsPage, FinancePage,
         VouchersPage, PaymentsPage, PackagesPage, RoutersPage, ChannelsPage, AdminsPage,
         SettingsPage, CustomersPage}

NoCall == [pc |-> "idle", kind |-> "load", range |-> None, seen |-> 0]
AskedFor(kind, r) == [NoCall EXCEPT !.pc = "asked", !.kind = kind, !.range = r]

AdminInit ==
    /\ route = None /\ range = FirstPeriod /\ hidden = FALSE /\ data = 0
    /\ call = [c \in Call |-> NoCall] /\ loaded = None /\ expired = FALSE /\ lost = 0

-----------------------------------------------------------------------------
\* A render's functions know the range of that render.  A call takes a free slot.
StartCall(c, kind, r) ==
    /\ call[c].pc = "idle" /\ c = CHOOSE d \in Call : call[d].pc = "idle"
    /\ call' = [call EXCEPT ![c] = AskedFor(kind, r)]

\* useEffect when a page is opened; what the last one was waiting for is gone.
OpenRoute(p, c) ==
    /\ route \notin {None, p} /\ c = CHOOSE d \in Call : TRUE
    /\ route' = p /\ range' = FirstPeriod /\ loaded' = None
    /\ call' = [d \in Call |-> IF d = c THEN AskedFor("load", range') ELSE NoCall]
    /\ UNCHANGED <<hidden, data, expired, lost>>
\* Logging in leads to the dashboard.
SignIn(c) ==
    /\ route = None /\ route' = DashboardPage /\ expired' = FALSE
    /\ range' = FirstPeriod /\ StartCall(c, "load", FirstPeriod)
    /\ UNCHANGED <<hidden, data, loaded, lost>>
LeavesApp ==
    /\ route' = None /\ loaded' = None
    /\ call' = [c \in Call |-> NoCall]
SignOut == route # None /\ LeavesApp /\ UNCHANGED <<range, hidden, data, expired, lost>>

\* A new range is loaded at once, whatever the last one is waiting for.
ChooseRange(r, c) ==
    /\ route # None /\ route.ranged /\ r # range
    /\ range' = r /\ StartCall(c, "load", r)
    /\ UNCHANGED <<route, hidden, data, loaded, expired, lost>>

Ticks == route # None /\ (route.timed = "always" \/ (route.timed = "visible" /\ ~hidden))
\* Mutant: the timer goes on with the load of the first render.
TimerFiresStale(c) ==
    /\ Ticks /\ StartCall(c, "load", FirstPeriod)
    /\ UNCHANGED <<route, range, hidden, data, loaded, expired, lost>>

\* The timer is set up again when the load changes with the range.
TimerFires(c) ==
    /\ Ticks /\ StartCall(c, "load", range)
    /\ UNCHANGED <<route, range, hidden, data, loaded, expired, lost>>

\* Something is changed on the page.
EditPage(c) ==
    /\ route # None /\ route.edits # "none" /\ data < MaxData
    /\ StartCall(c, "edit", range)
    /\ UNCHANGED <<route, range, hidden, data, loaded, expired, lost>>

\* The server takes the call; a change that somebody else made in between is
\* not lost.
Served(c) ==
    /\ call[c].pc = "asked" /\ ~expired
    /\ data' = IF call[c].kind = "edit" /\ data < MaxData THEN data + 1 ELSE data
    /\ call' = [call EXCEPT ![c].pc = "answered", ![c].seen = data']
    /\ UNCHANGED <<route, range, hidden, loaded, expired, lost>>
\* The answer of a load is shown, whichever load it is of; after a change the
\* page loads what it was set to when the change was made.
CallAnswered(c) ==
    /\ call[c].pc = "answered"
    /\ IF call[c].kind = "load"
       THEN /\ loaded' = [range |-> call[c].range, seen |-> call[c].seen]
            /\ call' = [call EXCEPT ![c] = NoCall]
       ELSE /\ call' = [call EXCEPT ![c] =
                          IF route.edits = "reload" THEN AskedFor("load", @.range) ELSE NoCall]
            /\ UNCHANGED loaded
    /\ UNCHANGED <<route, range, hidden, data, expired, lost>>
\* The page keeps what it shows.
CallFails(c) ==
    /\ call[c].pc # "idle" /\ lost < MaxLost /\ lost' = lost + 1
    /\ call' = [call EXCEPT ![c] = NoCall]
    /\ UNCHANGED <<route, range, hidden, data, loaded, expired>>
\* request: 401 forgets the token and leads to the login page.
CallRefused(c) ==
    /\ call[c].pc = "asked" /\ expired /\ LeavesApp
    /\ UNCHANGED <<range, hidden, data, expired, lost>>

CallStep(c) == Served(c) \/ CallAnswered(c) \/ CallRefused(c)
OthersEdit ==
    /\ data < MaxData /\ data' = data + 1
    /\ UNCHANGED <<route, range, hidden, call, loaded, expired, lost>>
TabTurns == hidden' = ~hidden /\ UNCHANGED <<route, range, data, call, loaded, expired, lost>>
TokenExpires ==
    /\ route # None /\ ~expired /\ expired' = TRUE
    /\ UNCHANGED <<route, range, hidden, data, call, loaded, lost>>

AdminNext ==
    \/ \E c \in Call : \/ CallStep(c) \/ CallFails(c) \/ TimerFires(c) \/ EditPage(c) \/ SignIn(c)
                       \/ \E r \in Period : ChooseRange(r, c)
                       \/ \E p \in Page : OpenRoute(p, c)
    \/ SignOut \/ OthersEdit \/ TabTurns \/ TokenExpires
-----------------------------------------------------------------------------
AdminTypeOK ==
    /\ route \in Maybe(Page) /\ range \in Period /\ {hidden, expired} \subseteq BOOLEAN
    /\ data \in 0..MaxData /\ lost \in 0..MaxLost
    /\ call \in [Call -> [pc : {"idle", "asked", "answered"}, kind : {"load", "edit"},
                          range : Maybe(Period), seen : 0..MaxData]]
    /\ loaded # None => loaded \in [range : Period, seen : 0..MaxData]

\* A page with a timer that stays open shows in the end the data there is for
\* the range it is set to, in whatever order its calls are answered: a late
\* answer for another range, or from before a change, does not stay.  Pages
\* without a timer do not have this.
PageIsCurrent ==
    <>[]Ticks /\ <>[][FALSE]_<<route, range, data>> => <>[](loaded = [range |-> range, seen |-> data])
=============================================================================
