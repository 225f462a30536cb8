------------------------------- MODULE Sessions -------------------------------
(***************************************************************************)
(* The sessions of one user in one browser: the tabs of the console, the   *)
(* pair of tokens they share through localStorage, the requests they have  *)
(* in flight, and the server, which renews a pair against its refresh      *)
(* token in several statements.  A tab that is answered 401 renews the     *)
(* pair once for all its requests (refreshPromise of api.ts), sends them   *)
(* again, and gives the session up when that fails; tabs know nothing of   *)
(* each other's renewals.                                                  *)
(***************************************************************************)
EXTENDS Naturals, FiniteSets

CONSTANTS
    Tabs,
    Calls,     \* requests the pages send, each once
    TabOf,     \* the tab of each
    Coded,     \* those that want a TOTP code and have none valid (Require2FA,
               \* Confirm2FA, Disable2FA)
    Flights,   \* renewals under way, heard of or not
    MaxLogins, \* bound: logins
    MaxEvents  \* bound: sign-outs, Logouts, expiries, deactivations and lost answers

ASSUME CallsOfTabs == Tabs # {} /\ TabOf \in [Calls -> Tabs] /\ Coded \subseteq Calls
ASSUME FiniteCalls == IsFiniteSet(Calls)
ASSUME BoundsNatural == MaxLogins \in Nat /\ MaxEvents \in Nat

\* A request starts at most one renewal: there is a pair for each.
Pairs == 1..(MaxLogins + Cardinality(Calls))

VARIABLES
    access,    \* per pair: none, live, expired, blacklisted
    refresh,   \* per pair: none, live, revoked
    login,     \* per pair: the pair of the login it descends from
    active,    \* users.is_active
    store,     \* the pair in localStorage, 0 if none
    call,      \* per request: its state, the pair it carries
    flight,    \* per renewal: state, tab, pair presented, pair issued
    forks,     \* history: per login, renewals that found their token live while
               \* another renewal had found it live too
    survivor,  \* history: a renewal was under way when Logout ran
    ended,     \* history: Logout ran since the last login
    excused,   \* history: something happened that may end a session by design
    events     \* history: such events so far

tokens == <<access, refresh, login>>
ghosts == <<forks, survivor, ended, excused, events>>
vars == <<tokens, active, store, call, flight, ghosts>>

AnyTab == CHOOSE t \in Tabs : TRUE
Unsent == [at |-> "unsent", pair |-> 0]
Done == [Unsent EXCEPT !.at = "done"]
IdleFlight == [at |-> "idle", tab |-> AnyTab, old |-> 0, new |-> 0, heard |-> FALSE]

Issued == {n \in Pairs : access[n] # "none"}
Fresh == Cardinality(Issued) + 1

Init ==
    /\ access = [n \in Pairs |-> "none"]
    /\ refresh = [n \in Pairs |-> "none"]
    /\ login = [n \in Pairs |-> 0]
    /\ active = TRUE /\ store = 0
    /\ call = [c \in Calls |-> Unsent]
    /\ flight = [f \in Flights |-> IdleFlight]
    /\ forks = [n \in Pairs |-> 0]
    /\ survivor = FALSE /\ ended = FALSE /\ excused = FALSE
    /\ events = 0

-----------------------------------------------------------------------------
(* The user and the administrators. *)

Event == events < MaxEvents /\ events' = events + 1

Issue(n, from) ==
    /\ n \in Pairs
    /\ access' = [access EXCEPT ![n] = "live"]
    /\ refresh' = [refresh EXCEPT ![n] = "live"]
    /\ login' = [login EXCEPT ![n] = from]

\* What an earlier session may still bring down on a new one: an answer that
\* clears the tokens, whosever they are.
Leftovers ==
    \/ \E f \in Flights : flight[f].at # "idle"
    \/ \E c \in Calls : call[c].at \in {"resent", "lost"}

\* Login, from a browser that holds no token: a pair of its own.
Login ==
    /\ store = 0 /\ active /\ Cardinality({n \in Pairs : login[n] = n}) < MaxLogins
    /\ Issue(Fresh, Fresh)
    /\ store' = Fresh
    /\ ended' = FALSE /\ survivor' = FALSE
    /\ excused' = Leftovers
    /\ UNCHANGED <<active, call, flight, forks, events>>

\* The sidebar's sign-out forgets the pair and tells nobody: the server keeps
\* the refresh token live, requests in flight go on.
SignOut ==
    /\ store # 0 /\ Event
    /\ store' = 0
    /\ UNCHANGED <<tokens, active, call, flight, forks, survivor, ended, excused>>

LogoutHere ==
    /\ store # 0 /\ access[store] = "live" /\ active
    /\ refresh' = [refresh EXCEPT ![store] = "revoked"]
    /\ access' = [access EXCEPT ![store] = "blacklisted"]
    /\ ended' = TRUE /\ excused' = TRUE /\ Event
    /\ survivor' = \E f \in Flights : flight[f].at \in {"matched", "revoked"}
    /\ UNCHANGED <<login, active, store, call, flight, forks>>

\* Logout, which the client offers and no page calls: every refresh token of the
\* user is revoked, the access token presented is blacklisted.
Logout ==
    /\ store # 0 /\ access[store] = "live" /\ active
    /\ refresh' = [n \in Pairs |-> IF refresh[n] = "live" THEN "revoked" ELSE refresh[n]]
    /\ access' = [access EXCEPT ![store] = "blacklisted"]
    /\ ended' = TRUE /\ excused' = TRUE /\ Event
    /\ survivor' = \E f \in Flights : flight[f].at \in {"matched", "revoked"}
    /\ UNCHANGED <<login, active, store, call, flight, forks>>

\* An access token lives for hours: it does not expire while the requests its
\* renewal sent again are under way.
ExpireAccess(n) ==
    /\ access[n] = "live" /\ Event
    /\ \A f \in Flights : flight[f].new # n
    /\ \A c \in Calls : call[c].at = "resent" => call[c].pair # n
    /\ access' = [access EXCEPT ![n] = "expired"]
    /\ UNCHANGED <<refresh, login, active, store, call, flight, forks, survivor, ended, excused>>

\* An administrator deactivates the account.
Deactivate ==
    /\ active /\ Event
    /\ active' = FALSE /\ excused' = TRUE
    /\ UNCHANGED <<tokens, store, call, flight, forks, survivor, ended>>

-----------------------------------------------------------------------------
(* Requests. *)

\* req: the token of the moment goes with the request.  A page was opened by a
\* login, though another tab may have signed out since.
Send(c) ==
    /\ call[c].at = "unsent" /\ Issued # {}
    /\ call' = [call EXCEPT ![c] = [at |-> "sent", pair |-> store]]
    /\ UNCHANGED <<tokens, active, store, flight, ghosts>>

\* Auth, RequireActiveUser and the check of a code: 401, or an answer that is
\* not a 401 (a deactivated account is refused with 403).
Accepted(c) == call[c].pair # 0 /\ access[call[c].pair] = "live" /\ (active => c \notin Coded)

\* An answer other than 401 is the page's business.
Serve(c) ==
    /\ call[c].at = "sent"
    /\ call' = [call EXCEPT ![c] = IF Accepted(c) THEN Done ELSE [@ EXCEPT !.at = "denied", !.pair = 0]]
    /\ UNCHANGED <<tokens, active, store, flight, ghosts>>

ServeAgain(c) ==
    /\ call[c].at = "resent"
    /\ call' = [call EXCEPT ![c] = IF Accepted(c) THEN Done ELSE [@ EXCEPT !.at = "lost", !.pair = 0]]
    /\ UNCHANGED <<tokens, active, store, flight, ghosts>>

Open(c) == call[c].at \notin {"unsent", "done"}

\* auth.clear() and window.location = "/login": the tab is loaded afresh, its
\* requests and what waits on its renewal are gone, the server's work is not.
GiveUp(t) ==
    /\ store' = 0
    /\ call' = [c \in Calls |-> IF Open(c) /\ TabOf[c] = t THEN Done ELSE call[c]]

Unheard(t) == [f \in Flights |-> IF flight[f].tab = t THEN [flight[f] EXCEPT !.heard = FALSE]
                                                     ELSE flight[f]]
PromiseOf(t) == {f \in Flights : flight[f].at # "idle" /\ flight[f].tab = t /\ flight[f].heard}

RenewEach(c, f) ==
    /\ call[c].at = "denied" /\ store # 0 /\ flight[f].at = "idle"
    /\ call' = [call EXCEPT ![c].at = "waiting"]
    /\ flight' = [flight EXCEPT ![f] = [at |-> "sent", tab |-> TabOf[c], old |-> store,
                                        new |-> 0, heard |-> TRUE]]
    /\ excused' = (\/ excused \/ c \in Coded
                   \/ \E g \in Flights : flight[g].at # "idle" /\ flight[g].tab # TabOf[c])
    /\ UNCHANGED <<tokens, active, store, forks, survivor, ended, events>>

\* 401, and a refresh token in localStorage: the request waits on the tab's
\* renewal, which it starts if there is none.
Renew(c, f) ==
    LET t == TabOf[c] IN
    /\ call[c].at = "denied" /\ store # 0
    /\ call' = [call EXCEPT ![c].at = "waiting"]
    /\ IF PromiseOf(t) = {}
       THEN /\ flight[f].at = "idle"
            /\ flight' = [flight EXCEPT ![f] = [at |-> "sent", tab |-> t, old |-> store,
                                                new |-> 0, heard |-> TRUE]]
       ELSE UNCHANGED flight
    /\ excused' = (\/ excused \/ c \in Coded
                   \/ \E g \in Flights : flight[g].at # "idle" /\ flight[g].tab # t)
    /\ UNCHANGED <<tokens, active, store, forks, survivor, ended, events>>

\* 401 with no refresh token, or again after a renewal: the session is given up.
Refused(c) ==
    /\ call[c].at = "lost" \/ (call[c].at = "denied" /\ store = 0)
    /\ GiveUp(TabOf[c])
    /\ flight' = Unheard(TabOf[c])
    /\ UNCHANGED <<tokens, active, ghosts>>

-----------------------------------------------------------------------------
(* The handler RefreshToken, one statement at a time. *)

Refuse(f) == flight' = [flight EXCEPT ![f].at = "refused"]

\* The token is looked for among those not revoked.
Match(f) ==
    LET n == flight[f].old
        rivals == {g \in Flights \ {f} : flight[g].old = n /\ flight[g].at = "matched"} IN
    /\ flight[f].at = "sent"
    /\ IF refresh[n] = "live"
       THEN /\ flight' = [flight EXCEPT ![f].at = "matched"]
            /\ forks' = [forks EXCEPT ![login[n]] = @ + (IF rivals = {} THEN 0 ELSE 1)]
       ELSE Refuse(f) /\ UNCHANGED forks
    /\ UNCHANGED <<tokens, active, store, call, survivor, ended, excused, events>>

RevokeNothing(f) ==
    /\ flight[f].at = "matched"
    /\ flight' = [flight EXCEPT ![f].at = "revoked"]
    /\ UNCHANGED <<tokens, active, store, call, ghosts>>

\* It is revoked, whatever happened to it since.
Revoke(f) ==
    /\ flight[f].at = "matched"
    /\ refresh' = [refresh EXCEPT ![flight[f].old] = "revoked"]
    /\ flight' = [flight EXCEPT ![f].at = "revoked"]
    /\ UNCHANGED <<access, login, active, store, call, ghosts>>

\* The account is checked, a pair is issued.
IssuePair(f) ==
    /\ flight[f].at = "revoked"
    /\ IF active
       THEN /\ Issue(Fresh, login[flight[f].old])
            /\ flight' = [flight EXCEPT ![f].at = "issued", ![f].new = Fresh]
       ELSE Refuse(f) /\ UNCHANGED tokens
    /\ UNCHANGED <<active, store, call, ghosts>>

Over(f) == flight' = [flight EXCEPT ![f] = IdleFlight]
Waiting(t) == {c \in Calls : TabOf[c] = t /\ call[c].at = "waiting"}

RenewedForNobody(f) ==
    /\ flight[f].at = "issued" /\ flight[f].heard
    /\ store' = flight[f].new
    /\ Over(f)
    /\ UNCHANGED <<tokens, active, call, ghosts>>

\* The new pair arrives: it is stored, whoever signed out meanwhile, and the
\* tab's waiting requests are sent again with it.
Renewed(f) ==
    LET r == flight[f] IN
    /\ r.at = "issued" /\ r.heard
    /\ store' = r.new
    /\ call' = [c \in Calls |-> IF c \in Waiting(r.tab) THEN [call[c] EXCEPT !.at = "resent", !.pair = r.new]
                                ELSE call[c]]
    /\ Over(f)
    /\ UNCHANGED <<tokens, active, ghosts>>

\* A refusal arrives: doRefresh clears the tokens, the waiting requests keep
\* their 401 and the tab gives up.
NotRenewed(f) ==
    /\ flight[f].at = "refused" /\ flight[f].heard
    /\ GiveUp(flight[f].tab)
    /\ Over(f)
    /\ UNCHANGED <<tokens, active, ghosts>>

\* The answer is lost on the way, which doRefresh takes for a refusal.
LoseRenewal(f) ==
    /\ flight[f].at \in {"sent", "issued"} /\ flight[f].heard /\ Event
    /\ excused' = TRUE
    /\ GiveUp(flight[f].tab)
    /\ Over(f)
    /\ UNCHANGED <<tokens, active, forks, survivor, ended>>

\* Nobody is there to hear the answer.
Unanswered(f) ==
    /\ flight[f].at \in {"issued", "refused"} /\ ~flight[f].heard
    /\ Over(f)
    /\ UNCHANGED <<tokens, active, store, call, ghosts>>

-----------------------------------------------------------------------------
FlightStep(f) ==
    Match(f) \/ Revoke(f) \/ IssuePair(f) \/ Renewed(f) \/ NotRenewed(f) \/ Unanswered(f)

CallStep(c) == Serve(c) \/ ServeAgain(c) \/ Refused(c) \/ \E f \in Flights : Renew(c, f)

Next ==
    \/ Login \/ SignOut \/ Logout \/ Deactivate
    \/ \E n \in Pairs : ExpireAccess(n)
    \/ \E c \in Calls : Send(c) \/ CallStep(c)
    \/ \E f \in Flights : FlightStep(f) \/ LoseRenewal(f)

Spec == Init /\ [][Next]_vars

\* The server answers what it received and the browser runs its callbacks.
Fairness ==
    /\ WF_vars(\E c \in Calls : CallStep(c))
    /\ WF_vars(\E f \in Flights : FlightStep(f))

FairSpec == Spec /\ Fairness

-----------------------------------------------------------------------------
\* A renewal replaces a refresh token: of one login at most one is live, and one
\* more for each renewal that found its token live between another's search and
\* revocation of it (RefreshToken reads and revokes in two statements).
OneLivePerLogin ==
    \A n \in Pairs : login[n] = n =>
        Cardinality({m \in Pairs : login[m] = n /\ refresh[m] = "live"}) <= 1 + forks[n]

\* After Logout no refresh token is live, unless a renewal was under way.
LogoutIsFinal == (ended /\ ~survivor) => \A n \in Pairs : refresh[n] # "live"

\* However its requests, their 401s and its renewals interleave, one tab never
\* loses a session it did not sign out of: only a deactivation, a Logout, a
\* refused code, a lost answer or a renewal by another tab at the same time do.
LiveSessionKept == [][store # 0 /\ store' = 0 => SignOut \/ excused']_vars

\* Every request ends, those that waited on a renewal included.
RequestsSettle ==
    (\E c \in Calls : Open(c)) ~> (\A c \in Calls : ~Open(c))
=============================================================================
