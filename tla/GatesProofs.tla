----------------------------- MODULE GatesProofs -----------------------------
(***************************************************************************)
(* Proofs about Gates, for any number of requests, moves and changes: the  *)
(* variables keep their types and the console shown is the user's.         *)
(***************************************************************************)
EXTENDS Gates, TLAPS

Read == [at : {"idle", "sent", "read"}, live : BOOLEAN, status : Statuses \cup {"none"}]

\* Type correctness.
GatesTypeOK ==
    /\ status \in Statuses /\ stored \in Statuses \cup {"none"} /\ copy \in Statuses \cup {"none"}
    /\ user \in {"none", "super_admin", "tenant"} /\ role \in {"none", "super_admin", "tenant"}
    /\ token \in BOOLEAN /\ url \in Urls /\ shown \in BOOLEAN
    /\ reads \in [Reads -> Read]

\* The role is the user's while there is a token, and a layout that shows its page
\* has found the role it wants.
Admitted ==
    /\ token => role = user /\ user # "none"
    /\ (shown /\ token) => /\ url = "/admin" => role = "super_admin"
                           /\ url \in {"/dashboard", "/kyb"} => role = "tenant"

-----------------------------------------------------------------------------
\* An idle and a new request are well typed.
LEMMA ReadType == NoRead \in Read /\ NewRead \in Read
BY DEF NoRead, NewRead, Read, Statuses

\* Requests that go on without their page are requests.
LEMMA DetachedType == ASSUME GatesTypeOK PROVE Detached \in [Reads -> Read]
BY DEF GatesTypeOK, Detached, Read

\* Initially the variables have their types.
LEMMA InitType == Init => GatesTypeOK
BY ReadType DEF Init, GatesTypeOK, Statuses, Urls

\* A layout's decision keeps them.
LEMMA LayoutKeepsType == ASSUME GatesTypeOK, Layout PROVE GatesTypeOK'
<1>1. ASSUME NEW to \in Urls, Decide(to) PROVE GatesTypeOK'
  BY <1>1 DEF Decide, GatesTypeOK, storage
<1>2. CASE Home \/ LoginPage \/ AdminLayout \/ DashboardLayout \/ KYBLayout
  <2>1. \E to \in Urls : Decide(to)
    BY <1>2 DEF Home, LoginPage, AdminLayout, DashboardLayout, KYBLayout, Urls
  <2> QED BY <1>1, <2>1
<1>3. CASE \E r \in Reads : KYBPage(r)
  <2>1. reads' \in [Reads -> Read]
    BY <1>3, ReadType DEF KYBPage, GatesTypeOK
  <2> QED BY <1>3, <2>1 DEF KYBPage, GatesTypeOK, storage
<1> QED BY <1>2, <1>3 DEF Layout

\* So do the requests of the KYB page and their answers.
LEMMA PageKeepsType ==
    ASSUME GatesTypeOK, NEW r \in Reads, Poll(r) \/ Submit(r) \/ AnswerStatus(r) \/ ApplyStatus(r)
    PROVE  GatesTypeOK'
<1>1. CASE Poll(r)
  BY <1>1, ReadType DEF Poll, GatesTypeOK, storage, place
<1>2. CASE Submit(r)
  BY <1>2, ReadType DEF Submit, GatesTypeOK, storage, place, Statuses
<1>3. CASE AnswerStatus(r)
  <2>1. reads' \in [Reads -> Read]
    BY <1>3 DEF AnswerStatus, GatesTypeOK, Read
  <2> QED BY <1>3, <2>1 DEF AnswerStatus, GatesTypeOK, storage, place
<1>4. CASE ApplyStatus(r)
  <2>1. reads' \in [Reads -> Read]
    BY <1>4, ReadType, DetachedType DEF ApplyStatus, GatesTypeOK
  <2>2. reads[r].status \in Statuses \cup {"none"}
    BY DEF GatesTypeOK, Read
  <2> QED BY <1>4, <2>1, <2>2 DEF ApplyStatus, GatesTypeOK, GoTo, place, Urls
<1> QED BY <1>1, <1>2, <1>3, <1>4

\* And everything the user and the administrator do.
LEMMA NextKeepsType == ASSUME GatesTypeOK, [Next]_vars PROVE GatesTypeOK'
<1>1. CASE \E st \in Statuses : ChangeStatus(st)
  BY <1>1 DEF ChangeStatus, GatesTypeOK, storage, place
<1>2. CASE \E who \in {"super_admin", "tenant"} : Login(who)
  BY <1>2 DEF Login, GoTo, GatesTypeOK, Urls
<1>3. CASE Logout
  BY <1>3, DetachedType DEF Logout, GoTo, GatesTypeOK, Urls
<1>4. CASE Expire
  BY <1>4, ReadType DEF Expire, GoTo, GatesTypeOK, Urls
<1>5. CASE \E u \in Urls : Visit(u)
  BY <1>5, ReadType DEF Visit, GoTo, GatesTypeOK, storage
<1>6. CASE UNCHANGED vars
  BY <1>6 DEF vars, storage, place, GatesTypeOK
<1> QED BY <1>1, <1>2, <1>3, <1>4, <1>5, <1>6, LayoutKeepsType, PageKeepsType DEF Next

\* Whatever the statuses read late, localStorage, the page and the requests are
\* well formed.
THEOREM GatesTypes == Spec => []GatesTypeOK
BY InitType, NextKeepsType, PTL DEF Spec

-----------------------------------------------------------------------------
\* A layout shows its page to the role it asks for, and the login page to all.
LEMMA LayoutAdmits == ASSUME GatesTypeOK, Admitted, Layout PROVE Admitted'
<1>1. CASE Home
  BY <1>1 DEF Home, Decide, Admitted, storage
<1>2. CASE LoginPage
  BY <1>2 DEF LoginPage, Decide, Admitted, storage
<1>3. CASE AdminLayout
  BY <1>3 DEF AdminLayout, Decide, Admitted, storage
<1>4. CASE DashboardLayout
  BY <1>4 DEF DashboardLayout, Decide, Admitted, storage, GatesTypeOK
<1>5. CASE KYBLayout
  BY <1>5 DEF KYBLayout, Decide, Admitted, storage
<1>6. CASE \E r \in Reads : KYBPage(r)
  BY <1>6 DEF KYBPage, Admitted, storage, GatesTypeOK
<1> QED BY <1>1, <1>2, <1>3, <1>4, <1>5, <1>6 DEF Layout

\* No other step shows a page; only a login sets the token, with its role.
LEMMA NextAdmits == ASSUME GatesTypeOK, Admitted, [Next]_vars PROVE Admitted'
<1>1. CASE \E st \in Statuses : ChangeStatus(st)
  BY <1>1 DEF ChangeStatus, Admitted, storage, place
<1>2. CASE \E who \in {"super_admin", "tenant"} : Login(who)
  BY <1>2 DEF Login, GoTo, Admitted
<1>3. CASE Logout \/ Expire
  BY <1>3 DEF Logout, Expire, GoTo, Admitted
<1>4. CASE \E u \in Urls : Visit(u)
  BY <1>4 DEF Visit, GoTo, Admitted, storage
<1>5. ASSUME NEW r \in Reads, Poll(r) \/ Submit(r) \/ AnswerStatus(r) PROVE Admitted'
  BY <1>5 DEF Poll, Submit, AnswerStatus, Admitted, storage, place
<1>6. ASSUME NEW r \in Reads, ApplyStatus(r) PROVE Admitted'
  BY <1>6 DEF ApplyStatus, GoTo, Admitted, place
<1>7. CASE UNCHANGED vars
  BY <1>7 DEF vars, storage, place, Admitted
<1> QED BY <1>1, <1>2, <1>3, <1>4, <1>5, <1>6, <1>7, LayoutAdmits DEF Next

\* The console shown is the one of the user the server knows, whatever an expired
\* session left behind and whichever answers come late.
THEOREM ConsoleIsTheUsers == Spec => []ConsoleMatchesUser
<1>1. Init => Admitted
  BY DEF Init, Admitted
<1>2. GatesTypeOK /\ Admitted /\ [Next]_vars => Admitted'
  BY NextAdmits
<1>3. Admitted => ConsoleMatchesUser
  BY DEF Admitted, ConsoleMatchesUser
<1> QED BY <1>1, <1>2, <1>3, GatesTypes, PTL DEF Spec
=============================================================================
