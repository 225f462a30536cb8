-------------------------------- MODULE Gates --------------------------------
(***************************************************************************)
(* Which console a browser shows.  The pages never ask the server: they    *)
(* choose from what the last login and the KYB page left in localStorage,  *)
(* a token, a role and a tenant status, and redirect one another.  The     *)
(* tenant's status changes under them; the KYB page learns of it by        *)
(* requests whose answers may come late and in any order.                  *)
(***************************************************************************)
EXTENDS Naturals

CONSTANTS
    Reads,      \* status requests of the KYB page in flight at once
    MaxChanges, \* bound: changes of the tenant's status
    MaxMoves    \* bound: logins, sign-outs, expiries and addresses opened by hand

VARIABLES
    status,  \* the tenant's status, at the server
    user,    \* who is signed in, as the server knows it: none, super_admin, tenant
    token,   \* localStorage: is there a token
    role,    \* localStorage: masspay_role
    stored,  \* localStorage: masspay_tenant_status
    url,     \* the page the browser is at
    shown,   \* FALSE while the page's layout has not decided yet
    copy,    \* the status the KYB page shows
    reads,   \* the KYB page's requests in flight
    spent    \* history: changes and moves so far

storage == <<token, role, stored>>
place == <<url, shown>>
vars == <<status, user, storage, place, copy, reads, spent>>

Statuses == {"prospect", "kyb_pending", "active", "suspended"}
Urls == {"/", "/login", "/admin", "/dashboard", "/kyb"}
NoRead == [at |-> "idle", live |-> FALSE, status |-> "none"]
NewRead == [NoRead EXCEPT !.at = "sent", !.live = TRUE]

Init ==
    /\ status = "kyb_pending" /\ user = "none"
    /\ token = FALSE /\ role = "none" /\ stored = "none"
    /\ url = "/" /\ shown = FALSE
    /\ copy = "none" /\ reads = [r \in Reads |-> NoRead]
    /\ spent = [change |-> 0, move |-> 0]

Move == spent.move < MaxMoves /\ spent' = [spent EXCEPT !.move = @ + 1]
GoTo(u) == url' = u /\ shown' = FALSE

\* Leaving the KYB page inside the application: its requests go on without it.
Detached == [r \in Reads |-> [reads[r] EXCEPT !.live = FALSE]]

\* The decisions and resubmissions of Onboarding.
ChangeStatus(st) ==
    /\ st # status /\ spent.change < MaxChanges
    /\ status' = st
    /\ spent' = [spent EXCEPT !.change = @ + 1]
    /\ UNCHANGED <<user, storage, place, copy, reads>>

-----------------------------------------------------------------------------
(* The user. *)

LoginKeepsRole(who) ==
    /\ url = "/login" /\ shown /\ Move
    /\ user' = who /\ token' = TRUE /\ role' = IF role = "none" THEN who ELSE role
    /\ stored' = IF who = "tenant" THEN status ELSE "none"
    /\ GoTo(IF who = "super_admin" THEN "/admin"
            ELSE IF status # "active" THEN "/kyb" ELSE "/dashboard")
    /\ UNCHANGED <<status, copy, reads>>

\* handleLogin stores the answer's token, role and tenant status, and follows them.
Login(who) ==
    /\ url = "/login" /\ shown /\ Move
    /\ user' = who /\ token' = TRUE /\ role' = who
    /\ stored' = IF who = "tenant" THEN status ELSE "none"
    /\ GoTo(IF who = "super_admin" THEN "/admin"
            ELSE IF status # "active" THEN "/kyb" ELSE "/dashboard")
    /\ UNCHANGED <<status, copy, reads>>

\* Sign-out: the sidebar of the consoles and the button of the KYB page forget
\* everything they stored.
Logout ==
    /\ url \in {"/admin", "/dashboard", "/kyb"} /\ shown /\ Move
    /\ user' = "none" /\ token' = FALSE /\ role' = "none" /\ stored' = "none"
    /\ GoTo("/login")
    /\ reads' = Detached
    /\ UNCHANGED <<status, copy>>

\* A session that ends under a page: api.ts removes the tokens only, and loads
\* the login page afresh.
Expire ==
    /\ url \in {"/admin", "/dashboard", "/kyb"} /\ shown /\ Move
    /\ user' = "none" /\ token' = FALSE
    /\ GoTo("/login")
    /\ reads' = [r \in Reads |-> NoRead] /\ copy' = "none"
    /\ UNCHANGED <<status, role, stored>>

\* An address typed, a bookmark, a reload: what was in flight is abandoned.
Visit(u) ==
    /\ Move
    /\ GoTo(u)
    /\ reads' = [r \in Reads |-> NoRead] /\ copy' = "none"
    /\ UNCHANGED <<status, user, storage>>

-----------------------------------------------------------------------------
(* The layouts, each deciding once when it mounts. *)

Decide(to) == url' = to /\ shown' = (to = url) /\ UNCHANGED <<status, user, storage, copy, reads, spent>>

Home ==
    /\ url = "/" /\ ~shown
    /\ Decide(IF ~token THEN "/login" ELSE IF role = "super_admin" THEN "/admin" ELSE "/dashboard")

LoginPageSkipped ==
    url = "/login" /\ ~shown /\ Decide(IF role # "none" THEN "/" ELSE "/login")

\* The login page asks for nothing, not even whether there is a token.
LoginPage == url = "/login" /\ ~shown /\ Decide("/login")

AdminLayout ==
    /\ url = "/admin" /\ ~shown
    /\ Decide(IF ~token THEN "/login" ELSE IF role # "super_admin" THEN "/dashboard" ELSE "/admin")

DashboardLayout ==
    /\ url = "/dashboard" /\ ~shown
    /\ Decide(IF ~token THEN "/login"
              ELSE IF role = "super_admin" THEN "/admin"
              ELSE IF stored \notin {"none", "active"} THEN "/kyb" ELSE "/dashboard")

KYBLayout ==
    /\ url = "/kyb" /\ ~shown /\ (~token \/ role = "super_admin")
    /\ Decide(IF ~token THEN "/login" ELSE "/admin")

\* The KYB page asks for the dossier when it mounts.
KYBPage(r) ==
    /\ url = "/kyb" /\ ~shown /\ token /\ role # "super_admin"
    /\ reads[r].at = "idle"
    /\ reads' = [reads EXCEPT ![r] = NewRead]
    /\ copy' = "none" /\ shown' = TRUE
    /\ UNCHANGED <<status, user, storage, url, spent>>

-----------------------------------------------------------------------------
(* The KYB page. *)

\* The interval of 30 s, or the button Rafraîchir: only while it shows kyb_pending.
Poll(r) ==
    /\ url = "/kyb" /\ shown /\ copy = "kyb_pending" /\ reads[r].at = "idle"
    /\ reads' = [reads EXCEPT ![r] = NewRead]
    /\ UNCHANGED <<status, user, storage, place, copy, spent>>

\* A submission, by which a prospect is pending again; then load.
Submit(r) ==
    /\ url = "/kyb" /\ shown /\ copy \in {"prospect", "kyb_pending"} /\ reads[r].at = "idle"
    /\ status # "suspended"
    /\ status' = IF status = "prospect" THEN "kyb_pending" ELSE status
    /\ reads' = [reads EXCEPT ![r] = NewRead]
    /\ UNCHANGED <<user, storage, place, copy, spent>>

\* GetMyKYBStatus, which TenantGuard lets through in every status.
AnswerStatus(r) ==
    /\ reads[r].at = "sent"
    /\ reads' = [reads EXCEPT ![r].at = "read", ![r].status = status]
    /\ UNCHANGED <<status, user, storage, place, copy, spent>>

ApplyStatusUnstored(r) ==
    LET a == reads[r] IN
    /\ a.at = "read"
    /\ copy' = IF a.live THEN a.status ELSE copy
    /\ IF a.status = "active"
       THEN GoTo("/dashboard") /\ reads' = [Detached EXCEPT ![r] = NoRead]
       ELSE UNCHANGED place /\ reads' = [reads EXCEPT ![r] = NoRead]
    /\ UNCHANGED <<status, user, storage, spent>>

\* The end of load: the copy, localStorage and, once active, the dashboard.  The
\* answer to a page that was left still does all but the copy.
ApplyStatus(r) ==
    LET a == reads[r] IN
    /\ a.at = "read"
    /\ stored' = a.status
    /\ copy' = IF a.live THEN a.status ELSE copy
    /\ IF a.status = "active"
       THEN GoTo("/dashboard") /\ reads' = [Detached EXCEPT ![r] = NoRead]
       ELSE UNCHANGED place /\ reads' = [reads EXCEPT ![r] = NoRead]
    /\ UNCHANGED <<status, user, token, role, spent>>

-----------------------------------------------------------------------------
Layout == Home \/ LoginPage \/ AdminLayout \/ DashboardLayout \/ KYBLayout \/ \E r \in Reads : KYBPage(r)

Next ==
    \/ \E st \in Statuses : ChangeStatus(st)
    \/ \E who \in {"super_admin", "tenant"} : Login(who)
    \/ Logout \/ Expire \/ \E u \in Urls : Visit(u)
    \/ Layout
    \/ \E r \in Reads : Poll(r) \/ Submit(r) \/ AnswerStatus(r) \/ ApplyStatus(r)

Spec == Init /\ [][Next]_vars

\* Effects run, the timer fires, the server answers; the user is free.
Fairness ==
    /\ WF_vars(Layout)
    /\ WF_vars(\E r \in Reads : Poll(r))
    /\ \A r \in Reads : WF_vars(AnswerStatus(r)) /\ WF_vars(ApplyStatus(r))

FairSpec == Spec /\ Fairness

-----------------------------------------------------------------------------
\* What an expired session leaves in localStorage opens no console to the next
\* user: the console shown is the one of the user the server knows.
ConsoleMatchesUser ==
    (shown /\ token)
    => /\ url = "/admin" => user = "super_admin"
       /\ url \in {"/dashboard", "/kyb"} => user = "tenant"

\* The redirects of the layouts come to an end, whatever is in localStorage.
RedirectsSettle == ~shown ~> shown

\* A tenant who waits on the KYB page, or is on the way to the dashboard, sees
\* the dashboard once activated for good, unless it goes back to the login page:
\* the poll finds out, and a late answer that makes the gate bounce does so only
\* once.  Excepted is an answer read before the tenant was pending again, after
\* which the page no longer polls.
TenantWaits ==
    /\ token /\ role = "tenant"
    /\ \/ url = "/dashboard" /\ ~shown
       \/ url = "/kyb" /\ (~shown \/ copy = "kyb_pending")
    /\ \A r \in Reads : reads[r].at = "read" => reads[r].status \in {"kyb_pending", "active"}
ActivatedTenantGetsIn ==
    [](TenantWaits /\ [](status = "active") => <>(url = "/login" \/ (url = "/dashboard" /\ shown)))
=============================================================================
