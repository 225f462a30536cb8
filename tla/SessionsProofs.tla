---------------------------- MODULE SessionsProofs ----------------------------
(***************************************************************************)
(* Proofs about Sessions, for any tabs, requests, logins and renewals: the *)
(* variables keep their types, a Logout nothing outran is final, a login   *)
(* has one live refresh token and one more for each renewal that ran into  *)
(* another, and one tab never loses a session it did not sign out of.      *)
(***************************************************************************)
EXTENDS Sessions, FiniteSetTheorems, TLAPS

CallRow ==
    [at : {"unsent", "sent", "denied", "waiting", "resent", "lost", "done"}, pair : Pairs \cup {0}]

FlightRow ==
    [at : {"idle", "sent", "matched", "revoked", "issued", "refused"},
     tab : Tabs, old : Pairs \cup {0}, new : Pairs \cup {0}, heard : BOOLEAN]

\* Type correctness; a renewal under way presents a pair that was issued.
SessionsTypeOK ==
    /\ access \in [Pairs -> {"none", "live", "expired", "blacklisted"}]
    /\ refresh \in [Pairs -> {"none", "live", "revoked"}]
    /\ login \in [Pairs -> Pairs \cup {0}]
    /\ active \in BOOLEAN /\ store \in Pairs \cup {0}
    /\ call \in [Calls -> CallRow]
    /\ flight \in [Flights -> FlightRow]
    /\ \A f \in Flights : flight[f].at # "idle" => flight[f].old \in Pairs

-----------------------------------------------------------------------------
(* What the steps do to the requests and the renewals.                     *)

USE CallsOfTabs

\* The rows the steps write.
LEMMA RowTypes == Unsent \in CallRow /\ Done \in CallRow /\ IdleFlight \in FlightRow
<1>1. AnyTab \in Tabs
  BY DEF AnyTab
<1> QED BY <1>1 DEF Unsent, Done, IdleFlight, CallRow, FlightRow

\* A tab that gives up keeps the types of the requests.
LEMMA GiveUpType ==
    ASSUME SessionsTypeOK, NEW t, GiveUp(t)
    PROVE  store' = 0 /\ call' \in [Calls -> CallRow]
BY RowTypes DEF GiveUp, SessionsTypeOK

\* The renewals after a step: well typed, and about pairs.
Renewals == flight' \in [Flights -> FlightRow] /\ \A f \in Flights : flight'[f].at # "idle" => flight'[f].old \in Pairs

\* A renewal that is over.
LEMMA OverType == ASSUME SessionsTypeOK, NEW f \in Flights, Over(f) PROVE Renewals
<1>1. \A g \in Flights : flight'[g] \in FlightRow /\ (flight'[g].at # "idle" => flight'[g].old \in Pairs)
  BY RowTypes DEF Over, SessionsTypeOK, IdleFlight
<1> QED BY <1>1 DEF Over, SessionsTypeOK, Renewals

\* A renewal that moves on, with or without a new pair.
LEMMA OnwardType ==
    ASSUME SessionsTypeOK, NEW f \in Flights, flight[f].at # "idle",
           NEW at \in {"matched", "revoked", "issued", "refused"}, NEW new \in Pairs,
           \/ flight' = [flight EXCEPT ![f].at = at]
           \/ flight' = [flight EXCEPT ![f].at = at, ![f].new = new]
    PROVE  Renewals
<1>1. ASSUME NEW g \in Flights
      PROVE  flight'[g] \in FlightRow /\ (flight'[g].at # "idle" => flight'[g].old \in Pairs)
  <2>1. flight[g] \in FlightRow /\ (flight[g].at # "idle" => flight[g].old \in Pairs)
    BY DEF SessionsTypeOK
  <2>2. CASE g # f
    BY <2>1, <2>2 DEF SessionsTypeOK
  <2>3. CASE g = f /\ flight'[g] = [flight[g] EXCEPT !.at = at]
    BY <2>1, <2>3 DEF FlightRow
  <2>4. CASE g = f /\ flight'[g] = [flight[g] EXCEPT !.at = at, !.new = new]
    BY <2>1, <2>4 DEF FlightRow
  <2> QED BY <2>2, <2>3, <2>4 DEF SessionsTypeOK
<1> QED BY <1>1 DEF Renewals, SessionsTypeOK

\* A pair that is issued.
LEMMA IssueType ==
    ASSUME SessionsTypeOK, NEW n, NEW from \in Pairs \cup {0}, Issue(n, from)
    PROVE  /\ n \in Pairs
           /\ access' \in [Pairs -> {"none", "live", "expired", "blacklisted"}]
           /\ refresh' \in [Pairs -> {"none", "live", "revoked"}]
           /\ login' \in [Pairs -> Pairs \cup {0}]
BY DEF Issue, SessionsTypeOK

-----------------------------------------------------------------------------
(* Types.                                                                  *)

\* Initially the variables have their types.
LEMMA InitType == Init => SessionsTypeOK
<1> SUFFICES ASSUME Init PROVE SessionsTypeOK
  OBVIOUS
<1>1. \A f \in Flights : flight[f].at = "idle"
  BY DEF Init, IdleFlight
<1>2. call \in [Calls -> CallRow] /\ flight \in [Flights -> FlightRow]
  BY RowTypes DEF Init
<1> QED BY <1>1, <1>2 DEF Init, SessionsTypeOK

\* What the user and the administrators do keeps them.
LEMMA PeopleKeepTypes ==
    ASSUME SessionsTypeOK,
           Login \/ SignOut \/ Logout \/ Deactivate \/ \E n \in Pairs : ExpireAccess(n)
    PROVE  SessionsTypeOK'
<1>1. CASE Login
  BY <1>1, IssueType DEF Login, Issue, SessionsTypeOK
<1>2. CASE SignOut
  BY <1>2 DEF SignOut, SessionsTypeOK, tokens
<1>3. CASE Logout
  BY <1>3 DEF Logout, SessionsTypeOK
<1>4. CASE Deactivate
  BY <1>4 DEF Deactivate, SessionsTypeOK, tokens
<1>5. CASE \E n \in Pairs : ExpireAccess(n)
  BY <1>5 DEF ExpireAccess, SessionsTypeOK
<1> QED BY <1>1, <1>2, <1>3, <1>4, <1>5

\* So do requests sent, served and served again.
LEMMA CallsKeepTypes ==
    ASSUME SessionsTypeOK, NEW c \in Calls, Send(c) \/ Serve(c) \/ ServeAgain(c)
    PROVE  SessionsTypeOK'
<1>1. call[c] \in CallRow /\ store \in Pairs \cup {0}
  BY DEF SessionsTypeOK
<1>2. \E row \in CallRow : call' = [call EXCEPT ![c] = row]
  <2>1. CASE Send(c)
    <3>1. [at |-> "sent", pair |-> store] \in CallRow
      BY <1>1 DEF CallRow
    <3> QED BY <2>1, <3>1 DEF Send
  <2>2. CASE Serve(c)
    <3>1. [call[c] EXCEPT !.at = "denied", !.pair = 0] \in CallRow
      BY <1>1 DEF CallRow
    <3> QED BY <2>2, <3>1, RowTypes DEF Serve
  <2>3. CASE ServeAgain(c)
    <3>1. [call[c] EXCEPT !.at = "lost", !.pair = 0] \in CallRow
      BY <1>1 DEF CallRow
    <3> QED BY <2>3, <3>1, RowTypes DEF ServeAgain
  <2> QED BY <2>1, <2>2, <2>3
<1>3. call' \in [Calls -> CallRow]
  BY <1>2 DEF SessionsTypeOK
<1>4. UNCHANGED <<tokens, active, store, flight>>
  BY DEF Send, Serve, ServeAgain
<1> QED BY <1>3, <1>4 DEF SessionsTypeOK, tokens

\* A 401: a renewal asked for, or the session given up.
LEMMA DenialsKeepTypes ==
    ASSUME SessionsTypeOK, NEW c \in Calls, Refused(c) \/ \E f \in Flights : Renew(c, f)
    PROVE  SessionsTypeOK'
<1>1. CASE Refused(c)
  <2>1. store' = 0 /\ call' \in [Calls -> CallRow]
    BY <1>1, GiveUpType DEF Refused
  <2>2. ASSUME NEW g \in Flights
        PROVE  flight'[g] \in FlightRow /\ (flight'[g].at # "idle" => flight'[g].old \in Pairs)
    <3>1. flight[g] \in FlightRow /\ (flight[g].at # "idle" => flight[g].old \in Pairs)
      BY DEF SessionsTypeOK
    <3>2. flight'[g] = flight[g] \/ flight'[g] = [flight[g] EXCEPT !.heard = FALSE]
      BY <1>1 DEF Refused, Unheard
    <3> QED BY <3>1, <3>2 DEF FlightRow
  <2>3. flight' \in [Flights -> FlightRow]
    BY <1>1, <2>2 DEF Refused, Unheard
  <2> QED BY <1>1, <2>1, <2>2, <2>3 DEF Refused, SessionsTypeOK, tokens
<1>2. ASSUME NEW f \in Flights, Renew(c, f) PROVE SessionsTypeOK'
  <2> DEFINE new == [at |-> "sent", tab |-> TabOf[c], old |-> store, new |-> 0, heard |-> TRUE]
  <2>1. store \in Pairs
    BY <1>2 DEF Renew, SessionsTypeOK
  <2>2. new \in FlightRow /\ new.at # "idle" /\ new.old \in Pairs
    BY <2>1 DEF FlightRow
  <2>3. Renewals
    <3>1. flight' = flight \/ flight' = [flight EXCEPT ![f] = new]
      BY <1>2 DEF Renew
    <3> HIDE DEF new
    <3> QED BY <2>2, <3>1 DEF SessionsTypeOK, Renewals
  <2>4. call' \in [Calls -> CallRow]
    <3>1. [call[c] EXCEPT !.at = "waiting"] \in CallRow
      BY DEF SessionsTypeOK, CallRow
    <3> QED BY <1>2, <3>1 DEF Renew, SessionsTypeOK
  <2> QED BY <1>2, <2>3, <2>4 DEF Renew, SessionsTypeOK, tokens, Renewals
<1> QED BY <1>1, <1>2

\* The statements of RefreshToken.
LEMMA RefreshKeepsTypes ==
    ASSUME SessionsTypeOK, NEW f \in Flights, Match(f) \/ Revoke(f) \/ IssuePair(f)
    PROVE  SessionsTypeOK'
<1>1. flight[f] \in FlightRow /\ (flight[f].at # "idle" => flight[f].old \in Pairs)
  BY DEF SessionsTypeOK
<1>2. CASE Match(f)
  <2>1. Renewals
    BY <1>1, <1>2, OnwardType DEF Match, Refuse
  <2> QED BY <1>2, <2>1 DEF Match, SessionsTypeOK, tokens, Renewals
<1>3. CASE Revoke(f)
  <2>1. Renewals
    BY <1>1, <1>3, OnwardType DEF Revoke
  <2>2. refresh' \in [Pairs -> {"none", "live", "revoked"}]
    BY <1>3 DEF Revoke, SessionsTypeOK
  <2> QED BY <1>3, <2>1, <2>2 DEF Revoke, SessionsTypeOK, Renewals
<1>4. CASE IssuePair(f)
  <2>1. flight[f].at # "idle" /\ login[flight[f].old] \in Pairs \cup {0}
    BY <1>1, <1>4 DEF IssuePair, SessionsTypeOK
  <2>2. CASE active
    <3>1. Issue(Fresh, login[flight[f].old])
      BY <1>4, <2>2 DEF IssuePair
    <3>2. /\ Fresh \in Pairs
          /\ access' \in [Pairs -> {"none", "live", "expired", "blacklisted"}]
          /\ refresh' \in [Pairs -> {"none", "live", "revoked"}]
          /\ login' \in [Pairs -> Pairs \cup {0}]
      BY <2>1, <3>1, IssueType
    <3>3. flight' = [flight EXCEPT ![f].at = "issued", ![f].new = Fresh]
      BY <1>4, <2>2 DEF IssuePair
    <3>4. Renewals
      BY <2>1, <3>2, <3>3, OnwardType
    <3> QED BY <1>4, <3>2, <3>4 DEF IssuePair, SessionsTypeOK, Renewals
  <2>3. CASE ~active
    <3>1. Renewals
      BY <1>1, <1>4, <2>1, <2>3, OnwardType DEF IssuePair, Refuse
    <3> QED BY <1>4, <2>3, <3>1 DEF IssuePair, SessionsTypeOK, tokens, Renewals
  <2> QED BY <2>2, <2>3
<1> QED BY <1>2, <1>3, <1>4

\* And the answers, heard or not.
LEMMA AnswersKeepTypes ==
    ASSUME SessionsTypeOK, NEW f \in Flights,
           Renewed(f) \/ NotRenewed(f) \/ LoseRenewal(f) \/ Unanswered(f)
    PROVE  SessionsTypeOK'
<1>1. Renewals
  BY OverType DEF Renewed, NotRenewed, LoseRenewal, Unanswered
<1>2. CASE Renewed(f)
  <2>1. flight[f].new \in Pairs \cup {0}
    BY DEF SessionsTypeOK, FlightRow
  <2>2. \A c \in Calls : call'[c] \in CallRow
    <3> TAKE c \in Calls
    <3>1. call[c] \in CallRow
      BY DEF SessionsTypeOK
    <3>2. call'[c] = call[c] \/ call'[c] = [call[c] EXCEPT !.at = "resent", !.pair = flight[f].new]
      BY <1>2 DEF Renewed
    <3> QED BY <2>1, <3>1, <3>2 DEF CallRow
  <2>3. call' \in [Calls -> CallRow]
    BY <1>2, <2>2 DEF Renewed
  <2> QED BY <1>1, <1>2, <2>1, <2>3 DEF Renewed, SessionsTypeOK, tokens, Renewals
<1>3. CASE NotRenewed(f) \/ LoseRenewal(f)
  <2>1. store' = 0 /\ call' \in [Calls -> CallRow]
    BY <1>3, GiveUpType DEF NotRenewed, LoseRenewal
  <2> QED BY <1>1, <1>3, <2>1 DEF NotRenewed, LoseRenewal, SessionsTypeOK, tokens, Renewals
<1>4. CASE Unanswered(f)
  BY <1>1, <1>4 DEF Unanswered, SessionsTypeOK, tokens, Renewals
<1> QED BY <1>2, <1>3, <1>4

\* Every step keeps the types.
LEMMA NextKeepsTypes == ASSUME SessionsTypeOK, [Next]_vars PROVE SessionsTypeOK'
<1>1. CASE UNCHANGED vars
  BY <1>1 DEF vars, tokens, SessionsTypeOK
<1> QED BY <1>1, PeopleKeepTypes, CallsKeepTypes, DenialsKeepTypes, RefreshKeepsTypes, AnswersKeepTypes
        DEF Next, CallStep, FlightStep

\* However tabs, requests, renewals and deactivations interleave, tokens, requests
\* and renewals are well formed.
THEOREM SessionsTypes == Spec => []SessionsTypeOK
BY InitType, NextKeepsTypes, PTL DEF Spec

-----------------------------------------------------------------------------
(* Logout.                                                                 *)

\* After a Logout nothing outran, no refresh token is live and no renewal has one
\* left to exchange.
Final ==
    (ended /\ ~survivor) => /\ \A n \in Pairs : refresh[n] # "live"
                            /\ \A f \in Flights : flight[f].at \notin {"matched", "revoked"}

\* A step that issues nothing and finds nothing live.
Calm ==
    /\ UNCHANGED <<ended, survivor, refresh, login, forks, Issued>>
    /\ \A f \in Flights :
          flight[f].at \in {"matched", "revoked"} \/ flight'[f].at \in {"matched", "revoked"}
             => flight'[f].at = flight[f].at /\ flight'[f].old = flight[f].old

\* Such a step keeps a Logout final.
LEMMA CalmKeepsFinal == ASSUME Final, Calm PROVE Final'
BY DEF Final, Calm

\* The browser's steps are calm.
LEMMA BrowserCalm ==
    ASSUME SessionsTypeOK,
           \/ SignOut \/ Deactivate \/ \E n \in Pairs : ExpireAccess(n)
           \/ \E c \in Calls : \/ Send(c) \/ Serve(c) \/ ServeAgain(c) \/ Refused(c)
                               \/ \E f \in Flights : Renew(c, f)
           \/ \E f \in Flights : Renewed(f) \/ NotRenewed(f) \/ LoseRenewal(f) \/ Unanswered(f)
           \/ UNCHANGED vars
    PROVE  Calm
<1>1. CASE SignOut \/ Deactivate \/ \E n \in Pairs : ExpireAccess(n)
  BY <1>1 DEF SignOut, Deactivate, ExpireAccess, Calm, tokens, Issued, SessionsTypeOK
<1>2. CASE \E c \in Calls : Send(c) \/ Serve(c) \/ ServeAgain(c)
  BY <1>2 DEF Send, Serve, ServeAgain, Calm, tokens, ghosts, Issued
<1>3. ASSUME NEW c \in Calls, Refused(c) PROVE Calm
  <2>1. \A g \in Flights : flight'[g].at = flight[g].at /\ flight'[g].old = flight[g].old
    BY <1>3 DEF Refused, Unheard, SessionsTypeOK, FlightRow
  <2> QED BY <1>3, <2>1 DEF Refused, Calm, tokens, ghosts, Issued
<1>4. ASSUME NEW c \in Calls, NEW f \in Flights, Renew(c, f) PROVE Calm
  <2>1. \A g \in Flights : \/ flight'[g] = flight[g]
                           \/ flight[g].at = "idle" /\ flight'[g].at = "sent"
    BY <1>4 DEF Renew, SessionsTypeOK
  <2> QED BY <1>4, <2>1 DEF Renew, Calm, tokens, Issued
<1>5. ASSUME NEW f \in Flights, Renewed(f) \/ NotRenewed(f) \/ LoseRenewal(f) \/ Unanswered(f) PROVE Calm
  <2>1. Over(f)
    BY <1>5 DEF Renewed, NotRenewed, LoseRenewal, Unanswered
  <2>2. \A g \in Flights : flight'[g] = flight[g] \/ (g = f /\ flight'[g].at = "idle")
    BY <2>1 DEF Over, IdleFlight, SessionsTypeOK
  <2>3. flight[f].at \notin {"matched", "revoked"}
    BY <1>5 DEF Renewed, NotRenewed, LoseRenewal, Unanswered
  <2> QED BY <1>5, <2>2, <2>3
          DEF Renewed, NotRenewed, LoseRenewal, Unanswered, Calm, tokens, ghosts, Issued
<1>6. CASE UNCHANGED vars
  BY <1>6 DEF vars, tokens, ghosts, Calm, Issued
<1> QED BY <1>1, <1>2, <1>3, <1>4, <1>5, <1>6

\* A renewal that finds no live token is refused.
LEMMA RefusalCalm ==
    ASSUME SessionsTypeOK, NEW f \in Flights, Match(f), refresh[flight[f].old] # "live"
    PROVE  Calm
<1>1. \A g \in Flights : \/ flight'[g] = flight[g]
                         \/ flight[g].at = "sent" /\ flight'[g].at = "refused"
  BY DEF Match, Refuse, SessionsTypeOK, FlightRow
<1> QED BY <1>1 DEF Match, Calm, tokens, Issued

\* Looking for the token keeps a Logout final.
LEMMA MatchKeepsFinal == ASSUME SessionsTypeOK, Final, NEW f \in Flights, Match(f) PROVE Final'
<1>1. flight[f].old \in Pairs
  BY DEF Match, SessionsTypeOK
<1>2. CASE refresh[flight[f].old] = "live"
  BY <1>1, <1>2 DEF Match, Final, tokens
<1>3. CASE refresh[flight[f].old] # "live"
  <2>1. Calm
    BY <1>3, RefusalCalm
  <2> QED BY <2>1, CalmKeepsFinal
<1> QED BY <1>2, <1>3

\* Every step keeps a Logout final.
LEMMA NextKeepsFinal == ASSUME SessionsTypeOK, Final, [Next]_vars PROVE Final'
<1>1. CASE Login
  BY <1>1 DEF Login, Final
<1>2. CASE Logout
  BY <1>2 DEF Logout, Final
<1>3. CASE \E f \in Flights : Match(f)
  BY <1>3, MatchKeepsFinal
<1>4. CASE \E f \in Flights : Revoke(f) \/ IssuePair(f)
  <2>1. PICK f \in Flights : flight[f].at \in {"matched", "revoked"} /\ (Revoke(f) \/ IssuePair(f))
    BY <1>4 DEF Revoke, IssuePair
  <2>2. ended' = ended /\ survivor' = survivor
    BY <2>1 DEF Revoke, IssuePair, ghosts
  <2> QED BY <2>1, <2>2 DEF Final
<1>5. CASE ~(Login \/ Logout \/ \E f \in Flights : Match(f) \/ Revoke(f) \/ IssuePair(f))
  <2>1. Calm
    BY <1>5, BrowserCalm DEF Next, CallStep, FlightStep
  <2> QED BY <2>1, CalmKeepsFinal
<1> QED BY <1>1, <1>2, <1>3, <1>4, <1>5

\* After Logout no refresh token of the user is live, unless a renewal had already
\* found one live: the handler revokes them in one statement, RefreshToken looks,
\* revokes and issues in three.
THEOREM LogoutEnds == Spec => []LogoutIsFinal
<1>1. Init => Final
  BY DEF Init, Final
<1>2. SessionsTypeOK /\ Final /\ [Next]_vars => Final'
  BY NextKeepsFinal
<1>3. Final => LogoutIsFinal
  BY DEF Final, LogoutIsFinal
<1> QED BY <1>1, <1>2, <1>3, SessionsTypes, PTL DEF Spec

-----------------------------------------------------------------------------
(* One live refresh token for each login.                                  *)

\* The renewals that have found their token live and not issued a pair yet.
Pending(n) == {f \in Flights : flight[f].at \in {"matched", "revoked"} /\ login[flight[f].old] = n}

\* The live tokens that no such renewal is about to revoke.
Unclaimed(n) ==
    {m \in Pairs : /\ login[m] = n /\ refresh[m] = "live"
                   /\ \A f \in Flights : ~ (flight[f].at = "matched" /\ flight[f].old = m)}

Within(U, P, k) ==
    IsFiniteSet(U) /\ IsFiniteSet(P) /\ Cardinality(U) + Cardinality(P) <= 1 + k

\* A login has as many unclaimed tokens and pending renewals as it had forks, and one.
Bounded == \A n \in Pairs : Within(Unclaimed(n), Pending(n), forks[n])

\* Pairs are issued in order, and everything that names one names an issued one.
Known ==
    /\ \E k \in Nat : Issued = 1..k
    /\ store \in Issued \cup {0}
    /\ \A m \in Pairs : IF m \in Issued THEN login[m] \in Issued
                                        ELSE login[m] = 0 /\ refresh[m] # "live"
    /\ \A f \in Flights : flight[f].at # "idle" => flight[f].old \in Issued
    /\ \A f \in Flights : flight[f].at = "issued" => flight[f].new \in Issued
    /\ forks \in [Pairs -> Nat]

\* Pair 0 stands for none.
LEMMA PairsPositive == 0 \notin Pairs
BY DEF Pairs

\* Tokens and renewals may become fewer within the same bound.
LEMMA WithinShrinks ==
    ASSUME NEW U, NEW P, NEW k \in Nat, Within(U, P, k),
           NEW U2 \in SUBSET U, NEW P2 \in SUBSET P
    PROVE  Within(U2, P2, k)
<1>1. Cardinality(U) \in Nat /\ Cardinality(P) \in Nat
  BY FS_CardinalityType DEF Within
<1>2. /\ IsFiniteSet(U2) /\ Cardinality(U2) <= Cardinality(U) /\ Cardinality(U2) \in Nat
      /\ IsFiniteSet(P2) /\ Cardinality(P2) <= Cardinality(P) /\ Cardinality(P2) \in Nat
  BY FS_Subset, FS_CardinalityType DEF Within
<1> QED BY <1>1, <1>2 DEF Within

\* A renewal that claims a token takes its place in the count.
LEMMA WithinClaims ==
    ASSUME NEW U, NEW P, NEW k \in Nat, Within(U, P, k), NEW u \in U, NEW f
    PROVE  Within(U \ {u}, P \cup {f}, k)
<1>1. Cardinality(U) \in Nat /\ Cardinality(P) \in Nat
  BY FS_CardinalityType DEF Within
<1>2. IsFiniteSet(U \ {u}) /\ Cardinality(U \ {u}) = Cardinality(U) - 1
  BY FS_RemoveElement DEF Within
<1>3. IsFiniteSet(P \cup {f}) /\ Cardinality(P \cup {f}) <= Cardinality(P) + 1
  <2>1. /\ IsFiniteSet(P \cup {f})
        /\ Cardinality(P \cup {f}) = IF f \in P THEN Cardinality(P) ELSE Cardinality(P) + 1
    BY FS_AddElement, Zenon DEF Within
  <2> QED BY <1>1, <2>1
<1>4. /\ Cardinality(U \ {u}) \in Nat /\ Cardinality(P \cup {f}) \in Nat
  BY <1>2, <1>3, FS_CardinalityType
<1> QED BY <1>1, <1>2, <1>3, <1>4 DEF Within

\* A pair that is issued takes the place of the renewal that issued it.
LEMMA WithinIssues ==
    ASSUME NEW U, NEW P, NEW k \in Nat, Within(U, P, k), NEW f \in P, NEW u
    PROVE  Within(U \cup {u}, P \ {f}, k)
<1>1. Within(P, U, k)
  <2>1. Cardinality(U) \in Nat /\ Cardinality(P) \in Nat
    BY FS_CardinalityType DEF Within
  <2> QED BY <2>1 DEF Within
<1>2. Within(P \ {f}, U \cup {u}, k)
  BY <1>1, WithinClaims
<1>3. Cardinality(U \cup {u}) \in Nat /\ Cardinality(P \ {f}) \in Nat
  BY <1>2, FS_CardinalityType DEF Within
<1> QED BY <1>2, <1>3 DEF Within

\* A renewal that forks the login is one more, and so is the bound.
LEMMA WithinForks ==
    ASSUME NEW U, NEW P, NEW k \in Nat, Within(U, P, k), NEW f
    PROVE  Within(U, P \cup {f}, k + 1)
<1>1. Cardinality(U) \in Nat /\ Cardinality(P) \in Nat
  BY FS_CardinalityType DEF Within
<1>2. /\ IsFiniteSet(P \cup {f}) /\ Cardinality(P \cup {f}) <= Cardinality(P) + 1
      /\ Cardinality(P \cup {f}) \in Nat
  <2>1. /\ IsFiniteSet(P \cup {f})
        /\ Cardinality(P \cup {f}) = IF f \in P THEN Cardinality(P) ELSE Cardinality(P) + 1
    BY FS_AddElement, Zenon DEF Within
  <2> QED BY <1>1, <2>1
<1> QED BY <1>1, <1>2 DEF Within

\* A pair that is issued is a new one.
LEMMA IssueKnown ==
    ASSUME SessionsTypeOK, Known, NEW from, Issue(Fresh, from), from \in Issued \cup {Fresh}
    PROVE  /\ Fresh \in Pairs \ Issued /\ Issued' = Issued \cup {Fresh}
           /\ \E k \in Nat : Issued' = 1..k
           /\ \A m \in Pairs : IF m \in Issued' THEN login'[m] \in Issued'
                                                ELSE login'[m] = 0 /\ refresh'[m] # "live"
<1>1. PICK k \in Nat : Issued = 1..k
  BY DEF Known
<1>2. Fresh = k + 1
  <2>1. Cardinality(1..k) = IF 1 > k THEN 0 ELSE k - 1 + 1
    BY FS_Interval
  <2> QED BY <1>1, <2>1 DEF Fresh
<1>3. Fresh \in Pairs \ Issued /\ Issued \subseteq Pairs
  BY <1>1, <1>2 DEF Issue, Issued
<1>4. \A m \in Pairs : access'[m] = IF m = Fresh THEN "live" ELSE access[m]
  BY <1>3 DEF Issue, SessionsTypeOK
<1>5. Issued' = Issued \cup {Fresh}
  BY <1>3, <1>4 DEF Issued
<1>6. Issued' = 1..(k + 1)
  BY <1>1, <1>2, <1>5
<1>7. ASSUME NEW m \in Pairs
      PROVE  IF m \in Issued' THEN login'[m] \in Issued' ELSE login'[m] = 0 /\ refresh'[m] # "live"
  <2>1. CASE m = Fresh
    BY <1>3, <1>5, <2>1 DEF Issue, SessionsTypeOK
  <2>2. CASE m # Fresh
    <3>1. login'[m] = login[m] /\ refresh'[m] = refresh[m]
      BY <1>3, <2>2 DEF Issue, SessionsTypeOK
    <3> QED BY <1>5, <2>2, <3>1 DEF Known
  <2> QED BY <2>1, <2>2
<1>8. k + 1 \in Nat
  BY <1>1
<1> QED BY <1>3, <1>5, <1>6, <1>7, <1>8

\* A calm step names no pair but those it finds.
LEMMA CalmKeepsKnown ==
    ASSUME SessionsTypeOK, Known, Calm, store' \in Issued \cup {0},
           \A f \in Flights : flight'[f].at # "idle" =>
              /\ flight'[f].old \in Issued
              /\ flight'[f].at = "issued" => flight'[f].new \in Issued
    PROVE  Known'
BY DEF Known, Calm

\* The browser's steps.
LEMMA BrowserKeepsKnown ==
    ASSUME SessionsTypeOK, Known,
           \/ SignOut \/ Deactivate \/ \E n \in Pairs : ExpireAccess(n)
           \/ \E c \in Calls : \/ Send(c) \/ Serve(c) \/ ServeAgain(c) \/ Refused(c)
                               \/ \E f \in Flights : Renew(c, f)
           \/ \E f \in Flights : Renewed(f) \/ NotRenewed(f) \/ LoseRenewal(f) \/ Unanswered(f)
           \/ UNCHANGED vars
    PROVE  Known'
<1>1. Calm
  BY BrowserCalm
<1> DEFINE Kept == /\ store' \in Issued \cup {0}
                   /\ \A f \in Flights : flight'[f].at # "idle" =>
                         /\ flight'[f].old \in Issued
                         /\ flight'[f].at = "issued" => flight'[f].new \in Issued
<1>2. ASSUME SignOut \/ Deactivate \/ \E n \in Pairs : ExpireAccess(n) PROVE Kept
  BY <1>2 DEF SignOut, Deactivate, ExpireAccess, Known
<1>3. ASSUME \E c \in Calls : Send(c) \/ Serve(c) \/ ServeAgain(c) PROVE Kept
  BY <1>3 DEF Send, Serve, ServeAgain, Known
<1>4. ASSUME NEW c \in Calls, Refused(c) PROVE Kept
  <2>1. \A g \in Flights : /\ flight'[g].at = flight[g].at /\ flight'[g].old = flight[g].old
                           /\ flight'[g].new = flight[g].new
    BY <1>4 DEF Refused, Unheard, SessionsTypeOK, FlightRow
  <2> QED BY <1>4, <2>1 DEF Refused, GiveUp, Known
<1>5. ASSUME NEW c \in Calls, NEW f \in Flights, Renew(c, f) PROVE Kept
  <2>1. \A g \in Flights : \/ flight'[g] = flight[g]
                           \/ flight'[g].at = "sent" /\ flight'[g].old = store
    BY <1>5 DEF Renew, SessionsTypeOK
  <2>2. store \in Issued /\ store' = store
    BY <1>5 DEF Renew, Known
  <2> QED BY <2>1, <2>2 DEF Known
<1>6. ASSUME NEW f \in Flights, Renewed(f) \/ NotRenewed(f) \/ LoseRenewal(f) \/ Unanswered(f) PROVE Kept
  <2>1. Over(f)
    BY <1>6 DEF Renewed, NotRenewed, LoseRenewal, Unanswered
  <2>2. \A g \in Flights : flight'[g] = flight[g] \/ flight'[g].at = "idle"
    BY <2>1 DEF Over, IdleFlight, SessionsTypeOK
  <2>3. store' \in Issued \cup {0}
    <3>1. store' \in {store, 0} \/ (flight[f].at = "issued" /\ store' = flight[f].new)
      BY <1>6 DEF Renewed, NotRenewed, LoseRenewal, Unanswered, GiveUp
    <3> QED BY <3>1 DEF Known
  <2> QED BY <2>2, <2>3 DEF Known
<1>7. ASSUME UNCHANGED vars PROVE Kept
  BY <1>7 DEF vars, Known
<1>8. Kept
  BY <1>2, <1>3, <1>4, <1>5, <1>6, <1>7
<1> QED BY <1>1, <1>8, CalmKeepsKnown

\* Pairs stay known.
LEMMA NextKeepsKnown == ASSUME SessionsTypeOK, Known, [Next]_vars PROVE Known'
<1>1. CASE Login
  <2>1. Issue(Fresh, Fresh)
    BY <1>1 DEF Login
  <2> QED BY <1>1, <2>1, IssueKnown DEF Login, Known
<1>2. CASE Logout
  <2>1. Issued' = Issued
    BY <1>2 DEF Logout, Issued, SessionsTypeOK
  <2> QED BY <1>2, <2>1 DEF Logout, Known, SessionsTypeOK
<1>3. ASSUME NEW f \in Flights, Match(f) PROVE Known'
  <2>1. \A g \in Flights : /\ flight'[g].old = flight[g].old
                           /\ flight[g].at = "idle" => flight'[g].at = "idle"
                           /\ flight'[g].at = "issued" => flight'[g] = flight[g]
    BY <1>3 DEF Match, Refuse, SessionsTypeOK, FlightRow
  <2>2. UNCHANGED <<Issued, store, login, refresh>>
    BY <1>3 DEF Match, tokens, Issued
  <2>3. forks' \in [Pairs -> Nat]
    BY <1>3 DEF Match, Known
  <2> QED BY <2>1, <2>2, <2>3 DEF Known
<1>4. ASSUME NEW f \in Flights, Revoke(f) PROVE Known'
  <2>1. \A g \in Flights : /\ flight'[g].old = flight[g].old
                           /\ flight[g].at = "idle" => flight'[g].at = "idle"
                           /\ flight'[g].at = "issued" => flight'[g] = flight[g]
    BY <1>4 DEF Revoke, SessionsTypeOK, FlightRow
  <2>2. UNCHANGED <<Issued, store, login, forks>>
    BY <1>4 DEF Revoke, ghosts, Issued
  <2>3. \A m \in Pairs : refresh'[m] = "live" => refresh[m] = "live"
    BY <1>4 DEF Revoke, SessionsTypeOK
  <2> QED BY <2>1, <2>2, <2>3 DEF Known
<1>5. ASSUME NEW f \in Flights, IssuePair(f), active PROVE Known'
  <2>1. flight[f].old \in Pairs /\ login[flight[f].old] \in Issued
    BY <1>5 DEF IssuePair, Known, SessionsTypeOK, Issued
  <2>2. Issue(Fresh, login[flight[f].old])
    BY <1>5 DEF IssuePair
  <2>3. \A g \in Flights : /\ flight'[g].old = flight[g].old
                           /\ flight[g].at = "idle" => flight'[g].at = "idle"
                           /\ flight'[g].at = "issued" => flight'[g] = flight[g] \/ flight'[g].new = Fresh
    BY <1>5 DEF IssuePair, SessionsTypeOK, FlightRow
  <2>4. UNCHANGED <<store, forks>>
    BY <1>5 DEF IssuePair, ghosts
  <2>5. /\ Fresh \in Pairs \ Issued /\ Issued' = Issued \cup {Fresh}
        /\ \E k \in Nat : Issued' = 1..k
        /\ \A m \in Pairs : IF m \in Issued' THEN login'[m] \in Issued'
                                             ELSE login'[m] = 0 /\ refresh'[m] # "live"
    BY <2>1, <2>2, IssueKnown
  <2> QED BY <2>3, <2>4, <2>5 DEF Known
<1>6. ASSUME NEW f \in Flights, IssuePair(f), ~active PROVE Known'
  <2>1. \A g \in Flights : /\ flight'[g].old = flight[g].old
                           /\ flight[g].at = "idle" => flight'[g].at = "idle"
                           /\ flight'[g].at = "issued" => flight'[g] = flight[g]
    BY <1>6 DEF IssuePair, Refuse, SessionsTypeOK, FlightRow
  <2>2. UNCHANGED <<Issued, store, login, forks, refresh>>
    BY <1>6 DEF IssuePair, ghosts, tokens, Issued
  <2> QED BY <2>1, <2>2 DEF Known
<1>7. CASE ~(Login \/ Logout \/ \E f \in Flights : Match(f) \/ Revoke(f) \/ IssuePair(f))
  BY <1>7, BrowserKeepsKnown DEF Next, CallStep, FlightStep
<1> QED BY <1>1, <1>2, <1>3, <1>4, <1>5, <1>6, <1>7

\* What the next state needs, login by login.
LEMMA BoundedNext ==
    ASSUME \A n \in Pairs : \E U, P : /\ Unclaimed(n)' \subseteq U /\ Pending(n)' \subseteq P
                                      /\ forks'[n] \in Nat /\ Within(U, P, forks'[n])
    PROVE  Bounded'
<1>1. ASSUME NEW n \in Pairs
      PROVE  /\ IsFiniteSet(Unclaimed(n)') /\ IsFiniteSet(Pending(n)')
             /\ Cardinality(Unclaimed(n)') + Cardinality(Pending(n)') <= 1 + forks'[n]
  <2>1. PICK U, P : /\ Unclaimed(n)' \subseteq U /\ Pending(n)' \subseteq P
                    /\ forks'[n] \in Nat /\ Within(U, P, forks'[n])
    OBVIOUS
  <2>2. PICK U2 \in SUBSET U, P2 \in SUBSET P : U2 = Unclaimed(n)' /\ P2 = Pending(n)'
    BY <2>1
  <2>3. PICK k \in Nat : k = forks'[n]
    BY <2>1
  <2>4. Within(U2, P2, k)
    BY <2>1, <2>3, WithinShrinks
  <2> QED BY <2>2, <2>3, <2>4 DEF Within
<1> QED BY <1>1 DEF Bounded, Within

\* A calm step leaves the claims as they are.
LEMMA CalmKeepsBounded == ASSUME Known, Bounded, Calm PROVE Bounded'
<1> SUFFICES ASSUME NEW n \in Pairs
             PROVE  \E U, P : /\ Unclaimed(n)' \subseteq U /\ Pending(n)' \subseteq P
                              /\ forks'[n] \in Nat /\ Within(U, P, forks'[n])
  BY BoundedNext
<1>1. Unclaimed(n)' \subseteq Unclaimed(n)
  BY DEF Calm, Unclaimed
<1>2. Pending(n)' \subseteq Pending(n)
  BY DEF Calm, Pending
<1>3. forks'[n] \in Nat /\ Within(Unclaimed(n), Pending(n), forks'[n])
  BY DEF Calm, Known, Bounded
<1> QED BY <1>1, <1>2, <1>3

\* Login starts a ledger of its own.
LEMMA LoginKeepsBounded == ASSUME SessionsTypeOK, Known, Bounded, Login PROVE Bounded'
<1> SUFFICES ASSUME NEW n \in Pairs
             PROVE  \E U, P : /\ Unclaimed(n)' \subseteq U /\ Pending(n)' \subseteq P
                              /\ forks'[n] \in Nat /\ Within(U, P, forks'[n])
  BY BoundedNext
<1>1. Fresh \in Pairs \ Issued /\ forks' = forks /\ flight' = flight
  BY IssueKnown DEF Login
<1>2. \A m \in Pairs : /\ login'[m] = IF m = Fresh THEN Fresh ELSE login[m]
                       /\ refresh'[m] = IF m = Fresh THEN "live" ELSE refresh[m]
  BY <1>1 DEF Login, Issue, SessionsTypeOK
<1>3. \A m \in Pairs : login[m] # Fresh
  <2>1. Fresh # 0
    BY <1>1 DEF Pairs
  <2> QED BY <1>1, <2>1 DEF Known
<1>4. \A f \in Flights : flight[f].at # "idle" => flight[f].old \in Pairs \ {Fresh}
  BY <1>1 DEF Known, SessionsTypeOK
<1>5. forks[n] \in Nat /\ Within(Unclaimed(n), Pending(n), forks[n])
  BY DEF Known, Bounded
<1>6. CASE n = Fresh
  <2>1. Pending(n)' = {}
    BY <1>1, <1>2, <1>3, <1>4, <1>6 DEF Pending
  <2>2. Unclaimed(n)' \subseteq {Fresh}
    BY <1>1, <1>2, <1>3, <1>6 DEF Unclaimed
  <2>3. Within({Fresh}, {}, forks[n])
    <3>1. IsFiniteSet({Fresh}) /\ Cardinality({Fresh}) = 1
      BY FS_Singleton
    <3>2. IsFiniteSet({}) /\ Cardinality({}) = 0
      BY FS_EmptySet
    <3> QED BY <1>5, <3>1, <3>2 DEF Within
  <2> QED BY <1>1, <1>5, <2>1, <2>2, <2>3
<1>7. CASE n # Fresh
  <2>1. Pending(n)' \subseteq Pending(n)
    BY <1>1, <1>2, <1>4, <1>7 DEF Pending
  <2>2. Unclaimed(n)' \subseteq Unclaimed(n)
    BY <1>1, <1>2, <1>7 DEF Unclaimed
  <2> QED BY <1>1, <1>5, <2>1, <2>2
<1> QED BY <1>6, <1>7

\* Logout revokes, and nothing else.
LEMMA LogoutKeepsBounded == ASSUME SessionsTypeOK, Known, Bounded, Logout PROVE Bounded'
<1> SUFFICES ASSUME NEW n \in Pairs
             PROVE  \E U, P : /\ Unclaimed(n)' \subseteq U /\ Pending(n)' \subseteq P
                              /\ forks'[n] \in Nat /\ Within(U, P, forks'[n])
  BY BoundedNext
<1>1. UNCHANGED <<flight, login, forks>> /\ \A m \in Pairs : refresh'[m] = "live" => refresh[m] = "live"
  BY DEF Logout, SessionsTypeOK
<1>2. Unclaimed(n)' \subseteq Unclaimed(n) /\ Pending(n)' \subseteq Pending(n)
  BY <1>1 DEF Unclaimed, Pending
<1> QED BY <1>1, <1>2 DEF Known, Bounded

\* A renewal claims its token, or forks.
LEMMA MatchKeepsBounded ==
    ASSUME SessionsTypeOK, Known, Bounded, NEW f \in Flights, Match(f)
    PROVE  Bounded'
<1> DEFINE old == flight[f].old
           root == login[old]
<1>1. flight[f].at = "sent" /\ old \in Pairs /\ UNCHANGED <<login, refresh>>
  BY DEF Match, SessionsTypeOK, tokens
<1>2. CASE refresh[old] # "live"
  BY <1>2, RefusalCalm, CalmKeepsBounded
<1>3. CASE refresh[old] = "live"
  <2> SUFFICES ASSUME NEW n \in Pairs
               PROVE  \E U, P : /\ Unclaimed(n)' \subseteq U /\ Pending(n)' \subseteq P
                                /\ forks'[n] \in Nat /\ Within(U, P, forks'[n])
    BY BoundedNext
  <2>1. /\ flight' = [flight EXCEPT ![f].at = "matched"]
        /\ \A g \in Flights : /\ flight'[g].old = flight[g].old
                              /\ flight'[g].at = IF g = f THEN "matched" ELSE flight[g].at
    BY <1>3 DEF Match, SessionsTypeOK, FlightRow
  <2>2. forks[n] \in Nat /\ Within(Unclaimed(n), Pending(n), forks[n])
    BY DEF Known, Bounded
  <2>3. root \in Pairs
    BY <1>1, <1>3 DEF Known, Issued
  <2>4. Unclaimed(n)' \subseteq Unclaimed(n) \ {old}
    BY <1>1, <2>1 DEF Unclaimed
  <2>5. CASE n # root
    <3>1. Pending(n)' \subseteq Pending(n)
      BY <1>1, <2>1, <2>5 DEF Pending
    <3>2. forks'[n] = forks[n]
      BY <1>3, <2>5 DEF Match, Known
    <3> QED BY <2>2, <2>4, <3>1, <3>2
  <2>6. CASE n = root
    <3>1. Pending(n)' \subseteq Pending(n) \cup {f}
      BY <1>1, <2>1 DEF Pending
    <3>2. CASE \E g \in Flights \ {f} : flight[g].old = old /\ flight[g].at = "matched"
      <4>1. forks'[n] = forks[n] + 1
        BY <1>3, <2>3, <2>6, <3>2 DEF Match, Known
      <4>2. Within(Unclaimed(n), Pending(n) \cup {f}, forks[n] + 1)
        BY <2>2, WithinForks
      <4> QED BY <2>2, <2>4, <3>1, <4>1, <4>2
    <3>3. CASE ~ \E g \in Flights \ {f} : flight[g].old = old /\ flight[g].at = "matched"
      <4>1. forks'[n] = forks[n]
        <5>1. {g \in Flights \ {f} : flight[g].old = old /\ flight[g].at = "matched"} = {}
          BY <3>3
        <5>2. forks' = [forks EXCEPT ![root] = @ + 0]
          BY <1>3, <5>1 DEF Match
        <5> QED BY <2>2, <5>2 DEF Known
      <4>2. old \in Unclaimed(n)
        BY <1>1, <1>3, <2>6, <3>3 DEF Unclaimed
      <4>3. Within(Unclaimed(n) \ {old}, Pending(n) \cup {f}, forks[n])
        BY <2>2, <4>2, WithinClaims
      <4> QED BY <2>2, <2>4, <3>1, <4>1, <4>3
    <3> QED BY <3>2, <3>3
  <2> QED BY <2>5, <2>6
<1> QED BY <1>2, <1>3

\* Revoking the token claimed changes neither count.
LEMMA RevokeKeepsBounded ==
    ASSUME SessionsTypeOK, Known, Bounded, NEW f \in Flights, Revoke(f)
    PROVE  Bounded'
<1> SUFFICES ASSUME NEW n \in Pairs
             PROVE  \E U, P : /\ Unclaimed(n)' \subseteq U /\ Pending(n)' \subseteq P
                              /\ forks'[n] \in Nat /\ Within(U, P, forks'[n])
  BY BoundedNext
<1>1. /\ flight[f].at = "matched" /\ UNCHANGED <<login, forks>>
      /\ \A g \in Flights : /\ flight'[g].old = flight[g].old
                            /\ flight'[g].at = IF g = f THEN "revoked" ELSE flight[g].at
  BY DEF Revoke, SessionsTypeOK, FlightRow, ghosts
<1>2. \A m \in Pairs : refresh'[m] = "live" => refresh[m] = "live" /\ m # flight[f].old
  BY DEF Revoke, SessionsTypeOK
<1>3. Unclaimed(n)' \subseteq Unclaimed(n)
  BY <1>1, <1>2 DEF Unclaimed
<1>4. Pending(n)' \subseteq Pending(n)
  BY <1>1 DEF Pending
<1> QED BY <1>1, <1>3, <1>4 DEF Known, Bounded

\* A renewal that issues a pair, or is refused at the last moment, claims no more.
LEMMA IssueKeepsBounded ==
    ASSUME SessionsTypeOK, Known, Bounded, NEW f \in Flights, IssuePair(f)
    PROVE  Bounded'
<1> SUFFICES ASSUME NEW n \in Pairs
             PROVE  \E U, P : /\ Unclaimed(n)' \subseteq U /\ Pending(n)' \subseteq P
                              /\ forks'[n] \in Nat /\ Within(U, P, forks'[n])
  BY BoundedNext
<1>1. /\ flight[f].at = "revoked" /\ UNCHANGED forks /\ flight[f].old \in Pairs
      /\ \A g \in Flights : /\ flight'[g].old = flight[g].old
                            /\ flight'[g].at = IF g = f THEN IF active THEN "issued" ELSE "refused"
                                                        ELSE flight[g].at
  BY DEF IssuePair, Refuse, SessionsTypeOK, FlightRow, ghosts
<1>2. forks[n] \in Nat /\ Within(Unclaimed(n), Pending(n), forks[n])
  BY DEF Known, Bounded
<1>3. CASE ~active
  <2>1. UNCHANGED <<login, refresh>>
    BY <1>3 DEF IssuePair, tokens
  <2>2. Unclaimed(n)' \subseteq Unclaimed(n) /\ Pending(n)' \subseteq Pending(n)
    BY <1>1, <1>3, <2>1 DEF Unclaimed, Pending
  <2> QED BY <1>1, <1>2, <2>2
<1>4. CASE active
  <2> DEFINE root == login[flight[f].old]
  <2>1. Issue(Fresh, root) /\ root \in Issued
    BY <1>1, <1>4 DEF IssuePair, Known, Issued
  <2>2. Fresh \in Pairs \ Issued
    BY <2>1, IssueKnown
  <2>3. \A m \in Pairs : /\ login'[m] = IF m = Fresh THEN root ELSE login[m]
                         /\ refresh'[m] = IF m = Fresh THEN "live" ELSE refresh[m]
    BY <2>1, <2>2 DEF Issue, SessionsTypeOK
  <2>4. \A g \in Flights : flight[g].at # "idle" => flight[g].old \in Pairs \ {Fresh}
    BY <2>2 DEF Known, SessionsTypeOK
  <2>5. Pending(n)' \subseteq Pending(n) \ {f}
    BY <1>1, <1>4, <2>3, <2>4 DEF Pending
  <2>6. CASE n = root
    <3>1. f \in Pending(n)
      BY <1>1, <2>6 DEF Pending
    <3>2. Unclaimed(n)' \subseteq Unclaimed(n) \cup {Fresh}
      BY <1>1, <1>4, <2>3 DEF Unclaimed
    <3>3. Within(Unclaimed(n) \cup {Fresh}, Pending(n) \ {f}, forks[n])
      BY <1>2, <3>1, WithinIssues
    <3> QED BY <1>1, <1>2, <2>5, <3>2, <3>3
  <2>7. CASE n # root
    <3>1. Unclaimed(n)' \subseteq Unclaimed(n)
      BY <1>1, <1>4, <2>3, <2>7 DEF Unclaimed
    <3> QED BY <1>1, <1>2, <2>5, <3>1
  <2> QED BY <2>6, <2>7
<1> QED BY <1>3, <1>4

\* No step of a login's renewals lets it exceed the bound.
LEMMA NextKeepsBounded == ASSUME SessionsTypeOK, Known, Bounded, [Next]_vars PROVE Bounded'
<1>1. CASE Login \/ Logout \/ \E f \in Flights : Match(f) \/ Revoke(f) \/ IssuePair(f)
  BY <1>1, LoginKeepsBounded, LogoutKeepsBounded, MatchKeepsBounded, RevokeKeepsBounded, IssueKeepsBounded
<1>2. CASE ~(Login \/ Logout \/ \E f \in Flights : Match(f) \/ Revoke(f) \/ IssuePair(f))
  <2>1. Calm
    BY <1>2, BrowserCalm DEF Next, CallStep, FlightStep
  <2> QED BY <2>1, CalmKeepsBounded
<1> QED BY <1>1, <1>2

\* The live tokens of a login are those nobody claims and those a pending renewal
\* is about to revoke, each by one at least.
LEMMA BoundedIsOneLive == ASSUME SessionsTypeOK, Known, Bounded PROVE OneLivePerLogin
<1> SUFFICES ASSUME NEW n \in Pairs
             PROVE  Cardinality({m \in Pairs : login[m] = n /\ refresh[m] = "live"}) <= 1 + forks[n]
  BY DEF OneLivePerLogin
<1> DEFINE L == {m \in Pairs : login[m] = n /\ refresh[m] = "live"}
           U == Unclaimed(n)
           P == Pending(n)
           C == {flight[f].old : f \in P}
<1>1. forks[n] \in Nat /\ IsFiniteSet(U) /\ IsFiniteSet(P) /\ Cardinality(U) + Cardinality(P) <= 1 + forks[n]
  BY DEF Known, Bounded, Within
<1>2. IsFiniteSet(C) /\ Cardinality(C) <= Cardinality(P)
  <2> DEFINE pick == [f \in P |-> flight[f].old]
  <2>1. pick \in Surjection(P, C)
    BY DEF Surjection
  <2> QED BY <1>1, <2>1, FS_Surjection
<1>3. L \subseteq U \cup C
  BY DEF Unclaimed, Pending
<1>4. /\ IsFiniteSet(U \cup C) /\ IsFiniteSet(U \cap C)
      /\ Cardinality(U \cup C) = Cardinality(U) + Cardinality(C) - Cardinality(U \cap C)
  BY <1>1, <1>2, FS_Union, FS_Intersection
<1>5. IsFiniteSet(L) /\ Cardinality(L) <= Cardinality(U \cup C)
  BY <1>3, <1>4, FS_Subset
<1>6. /\ Cardinality(U) \in Nat /\ Cardinality(C) \in Nat /\ Cardinality(U \cap C) \in Nat
      /\ Cardinality(U \cup C) \in Nat /\ Cardinality(L) \in Nat /\ Cardinality(P) \in Nat
  BY <1>1, <1>2, <1>4, <1>5, FS_CardinalityType
<1>7. Cardinality(L) <= 1 + forks[n]
  <2> HIDE DEF L, U, P, C
  <2> QED BY <1>1, <1>2, <1>4, <1>5, <1>6
<1> QED BY <1>7

\* Pairs are known and claims bounded, always.
LEMMA PairsKnown == Spec => [](Known /\ Bounded)
<1>1. Init => Known /\ Bounded
  <2> SUFFICES ASSUME Init PROVE Known /\ Bounded
    OBVIOUS
  <2>1. Issued = {} /\ \A f \in Flights : flight[f].at = "idle"
    BY DEF Init, Issued, IdleFlight
  <2>2. Issued = 1..0
    BY <2>1
  <2>3. Known
    BY <2>1, <2>2 DEF Init, Known
  <2>4. \A n \in Pairs : Unclaimed(n) = {} /\ Pending(n) = {} /\ forks[n] = 0
    BY <2>1 DEF Init, Unclaimed, Pending
  <2>5. Bounded
    BY <2>4, FS_EmptySet DEF Bounded, Within
  <2> QED BY <2>3, <2>5
<1>2. SessionsTypeOK /\ Known /\ Bounded /\ [Next]_vars => Known' /\ Bounded'
  BY NextKeepsKnown, NextKeepsBounded
<1> QED BY <1>1, <1>2, SessionsTypes, PTL DEF Spec

\* A renewal replaces the refresh token it presents: a login has one live token, and
\* one more only for a renewal that searched for it between another's search and
\* revocation, however tabs, sign-outs and lost answers interleave (handlers.go,
\* RefreshToken).
THEOREM OneTokenPerLogin == Spec => []OneLivePerLogin
<1>1. SessionsTypeOK /\ Known /\ Bounded => OneLivePerLogin
  BY BoundedIsOneLive
<1> QED BY <1>1, SessionsTypes, PairsKnown, PTL

-----------------------------------------------------------------------------
(* One tab keeps its session.                                              *)

Busy(f) == flight[f].at # "idle"

\* A request that waits is waiting on a renewal of its tab, which it will hear of.
WaitersHeard ==
    \A c \in Calls : call[c].at = "waiting" =>
        \E f \in Flights : Busy(f) /\ flight[f].heard /\ flight[f].tab = TabOf[c]

\* One renewal at a time, ...
Alone == \A f, g \in Flights : Busy(f) /\ Busy(g) => f = g

\* ... which will be heard of while there is a session; without one the stored
\* refresh token can be exchanged, ...
StoreGood ==
    store # 0 => /\ (\A f \in Flights : ~ Busy(f)) => refresh[store] = "live"
                 /\ \A f \in Flights : Busy(f) => flight[f].heard

\* ... the renewal succeeds, ...
FlightsGood ==
    \A f \in Flights : Busy(f) /\ flight[f].heard =>
        /\ flight[f].at # "refused"
        /\ flight[f].at = "sent" => refresh[flight[f].old] = "live"
        /\ flight[f].at = "issued" => /\ access[flight[f].new] = "live"
                                      /\ refresh[flight[f].new] = "live"

\* ... and the requests it has sent again are accepted.
CallsGood ==
    \A c \in Calls :
        /\ call[c].at # "lost"
        /\ call[c].at = "waiting" => c \notin Coded
        /\ call[c].at = "resent" =>
              c \notin Coded /\ call[c].pair # 0 /\ access[call[c].pair] = "live"

Sound == active /\ Alone /\ StoreGood /\ FlightsGood /\ CallsGood

\* So it is until something happens that ends a session by design.
Undisturbed == excused \/ Sound

\* Waiting requests and renewals heard of are left alone, or both end.
LEMMA WaitersKept ==
    ASSUME WaitersHeard,
           \A c \in Calls : call'[c].at = "waiting" =>
              /\ call[c].at = "waiting"
              /\ \A f \in Flights : flight[f].tab = TabOf[c] /\ Busy(f) /\ flight[f].heard =>
                    flight'[f].at # "idle" /\ flight'[f].heard /\ flight'[f].tab = flight[f].tab
    PROVE  WaitersHeard'
BY DEF WaitersHeard, Busy

\* A request sent, or answered: it does not wait.
LEMMA ServedCall ==
    ASSUME SessionsTypeOK, NEW c \in Calls, Send(c) \/ Serve(c) \/ ServeAgain(c)
    PROVE  /\ \A d \in Calls \ {c} : call'[d] = call[d]
           /\ call'[c].at \in {"sent", "denied", "lost", "done"}
<1>1. CASE Send(c)
  BY <1>1 DEF Send, SessionsTypeOK
<1>2. CASE Serve(c)
  <2>1. call' = [call EXCEPT ![c] = IF Accepted(c) THEN Done
                                    ELSE [call[c] EXCEPT !.at = "denied", !.pair = 0]]
    BY <1>2 DEF Serve
  <2>2. [call[c] EXCEPT !.at = "denied", !.pair = 0].at = "denied" /\ Done.at = "done"
    BY DEF SessionsTypeOK, CallRow, Done, Unsent
  <2> QED BY <2>1, <2>2 DEF SessionsTypeOK
<1>3. CASE ServeAgain(c)
  <2>1. call' = [call EXCEPT ![c] = IF Accepted(c) THEN Done
                                    ELSE [call[c] EXCEPT !.at = "lost", !.pair = 0]]
    BY <1>3 DEF ServeAgain
  <2>2. [call[c] EXCEPT !.at = "lost", !.pair = 0].at = "lost" /\ Done.at = "done"
    BY DEF SessionsTypeOK, CallRow, Done, Unsent
  <2> QED BY <1>3, <2>1, <2>2 DEF SessionsTypeOK
<1> QED BY <1>1, <1>2, <1>3

\* Waiting requests stay with their renewal.
LEMMA NextKeepsWaiters == ASSUME SessionsTypeOK, WaitersHeard, [Next]_vars PROVE WaitersHeard'
<1>1. ASSUME \/ Login \/ SignOut \/ Logout \/ Deactivate \/ \E n \in Pairs : ExpireAccess(n)
             \/ UNCHANGED vars
      PROVE  WaitersHeard'
  BY <1>1 DEF Login, SignOut, Logout, Deactivate, ExpireAccess, vars, WaitersHeard, Busy
<1>2. ASSUME NEW c \in Calls, Send(c) \/ Serve(c) \/ ServeAgain(c) PROVE WaitersHeard'
  <2>1. \A d \in Calls : call'[d] = call[d] \/ call'[d].at # "waiting"
    BY <1>2, ServedCall
  <2>2. flight' = flight
    BY <1>2 DEF Send, Serve, ServeAgain
  <2> QED BY <2>1, <2>2 DEF WaitersHeard, Busy
<1>3. ASSUME NEW c \in Calls, Refused(c) PROVE WaitersHeard'
  <2>1. \A d \in Calls : call'[d].at = "waiting" => call[d].at = "waiting" /\ TabOf[d] # TabOf[c]
    BY <1>3 DEF Refused, GiveUp, Open, Done, Unsent
  <2>2. \A f \in Flights : flight[f].tab # TabOf[c] => flight'[f] = flight[f]
    BY <1>3 DEF Refused, Unheard
  <2> QED BY <2>1, <2>2, WaitersKept DEF Busy
<1>4. ASSUME NEW c \in Calls, NEW f \in Flights, Renew(c, f) PROVE WaitersHeard'
  <2>1. \A d \in Calls \ {c} : call'[d] = call[d]
    BY <1>4 DEF Renew
  <2>2. CASE PromiseOf(TabOf[c]) = {}
    <3>1. /\ flight[f].at = "idle"
          /\ flight' = [flight EXCEPT ![f] = [at |-> "sent", tab |-> TabOf[c], old |-> store,
                                              new |-> 0, heard |-> TRUE]]
      BY <1>4, <2>2 DEF Renew
    <3>2. /\ flight'[f].at # "idle" /\ flight'[f].heard /\ flight'[f].tab = TabOf[c]
          /\ \A g \in Flights \ {f} : flight'[g] = flight[g]
      BY <3>1 DEF SessionsTypeOK
    <3> QED BY <2>1, <3>1, <3>2 DEF WaitersHeard, Busy
  <2>3. CASE PromiseOf(TabOf[c]) # {}
    <3>1. flight' = flight
      BY <1>4, <2>3 DEF Renew
    <3>2. \E g \in Flights : Busy(g) /\ flight[g].heard /\ flight[g].tab = TabOf[c]
      BY <2>3 DEF PromiseOf, Busy
    <3> QED BY <2>1, <3>1, <3>2 DEF WaitersHeard, Busy
  <2> QED BY <2>2, <2>3
<1>5. ASSUME NEW f \in Flights, Match(f) \/ Revoke(f) \/ IssuePair(f) PROVE WaitersHeard'
  <2>1. call' = call
    BY <1>5 DEF Match, Revoke, IssuePair
  <2>2. flight[f].at # "idle"
    BY <1>5 DEF Match, Revoke, IssuePair
  <2>3. \A g \in Flights : /\ flight[g].at # "idle" => flight'[g].at # "idle"
                           /\ flight'[g].heard = flight[g].heard /\ flight'[g].tab = flight[g].tab
    BY <1>5 DEF Match, Revoke, IssuePair, Refuse, SessionsTypeOK, FlightRow
  <2> QED BY <2>1, <2>3 DEF WaitersHeard, Busy
<1>6. ASSUME NEW f \in Flights, Renewed(f) \/ NotRenewed(f) \/ LoseRenewal(f) PROVE WaitersHeard'
  <2>1. \A d \in Calls : call'[d].at = "waiting" => call[d].at = "waiting" /\ TabOf[d] # flight[f].tab
    <3>1. CASE Renewed(f)
      BY <3>1 DEF Renewed, Waiting, SessionsTypeOK, CallRow
    <3>2. CASE NotRenewed(f) \/ LoseRenewal(f)
      BY <3>2 DEF NotRenewed, LoseRenewal, GiveUp, Open, Done, Unsent
    <3> QED BY <1>6, <3>1, <3>2
  <2>2. \A g \in Flights \ {f} : flight'[g] = flight[g]
    BY <1>6 DEF Renewed, NotRenewed, LoseRenewal, Over, SessionsTypeOK
  <2> QED BY <2>1, <2>2, WaitersKept DEF Busy
<1>7. ASSUME NEW f \in Flights, Unanswered(f) PROVE WaitersHeard'
  <2>1. /\ call' = call /\ ~ flight[f].heard
        /\ \A g \in Flights \ {f} : flight'[g] = flight[g]
    BY <1>7 DEF Unanswered, Over, SessionsTypeOK
  <2> QED BY <2>1 DEF WaitersHeard, Busy
<1> QED BY <1>1, <1>2, <1>3, <1>4, <1>5, <1>6, <1>7 DEF Next, CallStep, FlightStep

-----------------------------------------------------------------------------
\* What people do: a login that finds nothing under way, a sign-out, an expiry.
LEMMA PeopleKeepSound ==
    ASSUME SessionsTypeOK, Known, WaitersHeard, Undisturbed, ~ excused',
           Login \/ SignOut \/ Logout \/ Deactivate \/ \E n \in Pairs : ExpireAccess(n)
    PROVE  Sound'
<1>1. CASE Login
  <2>1. Fresh \in Pairs /\ refresh'[Fresh] = "live" /\ store' = Fresh
    BY <1>1, IssueKnown DEF Login, Issue, SessionsTypeOK
  <2>2. /\ active' /\ call' = call /\ flight' = flight
        /\ \A f \in Flights : ~ Busy(f)
        /\ \A c \in Calls : call[c].at \notin {"resent", "lost"}
    BY <1>1 DEF Login, Leftovers, Busy
  <2>3. \A c \in Calls : call[c].at # "waiting"
    BY <2>2 DEF WaitersHeard
  <2> QED BY <2>1, <2>2, <2>3 DEF Sound, Alone, StoreGood, FlightsGood, CallsGood, Busy
<1>2. CASE SignOut
  BY <1>2 DEF SignOut, Undisturbed, Sound, Alone, StoreGood, FlightsGood, CallsGood, Busy, tokens
<1>3. CASE Logout \/ Deactivate
  BY <1>3 DEF Logout, Deactivate
<1>4. ASSUME NEW n \in Pairs, ExpireAccess(n) PROVE Sound'
  <2>1. Sound /\ UNCHANGED <<refresh, active, store, call, flight>>
    BY <1>4 DEF ExpireAccess, Undisturbed
  <2>2. /\ \A m \in Pairs : m # n => access'[m] = access[m]
        /\ \A f \in Flights : flight[f].new # n
        /\ \A c \in Calls : call[c].at = "resent" => call[c].pair # n
    BY <1>4 DEF ExpireAccess, SessionsTypeOK
  <2>3. /\ \A f \in Flights : flight[f].at = "issued" => flight[f].new \in Pairs
        /\ \A c \in Calls : call[c].pair \in Pairs \cup {0}
    BY DEF Known, Issued, SessionsTypeOK, CallRow
  <2> QED BY <2>1, <2>2, <2>3 DEF Sound, Alone, StoreGood, FlightsGood, CallsGood, Busy
<1> QED BY <1>1, <1>2, <1>3, <1>4

\* Requests sent, served, and refused with nothing to renew.
LEMMA CallsKeepSound ==
    ASSUME SessionsTypeOK, Sound, NEW c \in Calls,
           Send(c) \/ Serve(c) \/ ServeAgain(c) \/ Refused(c)
    PROVE  Sound'
<1>1. CASE Send(c) \/ Serve(c)
  <2>1. \A d \in Calls : call'[d] = call[d] \/ call'[d].at \in {"sent", "denied", "done"}
    <3>1. Serve(c) => call'[c].at # "lost"
      <4>1. [call[c] EXCEPT !.at = "denied", !.pair = 0].at = "denied" /\ Done.at = "done"
        BY DEF SessionsTypeOK, CallRow, Done, Unsent
      <4> QED BY <4>1 DEF Serve, SessionsTypeOK
    <3>2. Send(c) => call'[c].at # "lost"
      BY DEF Send, SessionsTypeOK
    <3> QED BY <1>1, <3>1, <3>2, ServedCall
  <2>2. UNCHANGED <<access, refresh, active, store, flight>>
    BY <1>1 DEF Send, Serve, tokens
  <2> QED BY <2>1, <2>2 DEF Sound, Alone, StoreGood, FlightsGood, CallsGood, Busy
<1>2. CASE ServeAgain(c)
  <2>1. Accepted(c)
    BY <1>2 DEF ServeAgain, Sound, CallsGood, Accepted
  <2>2. \A d \in Calls : call'[d] = call[d] \/ call'[d].at = "done"
    BY <1>2, <2>1 DEF ServeAgain, Done, Unsent, SessionsTypeOK
  <2>3. UNCHANGED <<access, refresh, active, store, flight>>
    BY <1>2 DEF ServeAgain, tokens
  <2> QED BY <2>2, <2>3 DEF Sound, Alone, StoreGood, FlightsGood, CallsGood, Busy
<1>3. CASE Refused(c)
  <2>1. store' = 0 /\ UNCHANGED <<access, refresh, active>>
    BY <1>3 DEF Refused, GiveUp, tokens
  <2>2. \A d \in Calls : call'[d] = call[d] \/ call'[d].at = "done"
    BY <1>3 DEF Refused, GiveUp, Done, Unsent
  <2>3. \A f \in Flights : /\ flight'[f].at = flight[f].at /\ flight'[f].old = flight[f].old
                           /\ flight'[f].new = flight[f].new
                           /\ flight'[f].heard => flight[f].heard
    BY <1>3 DEF Refused, Unheard, SessionsTypeOK, FlightRow
  <2> QED BY <2>1, <2>2, <2>3 DEF Sound, Alone, StoreGood, FlightsGood, CallsGood, Busy
<1> QED BY <1>1, <1>2, <1>3

\* A renewal starts, or is shared.
LEMMA RenewKeepsSound ==
    ASSUME SessionsTypeOK, Sound, NEW c \in Calls, NEW f \in Flights, Renew(c, f), ~ excused'
    PROVE  Sound'
<1>1. /\ c \notin Coded /\ store # 0 /\ UNCHANGED <<access, refresh, active, store>>
      /\ \A g \in Flights : flight[g].at # "idle" => flight[g].tab = TabOf[c]
  BY DEF Renew, tokens
<1>2. /\ call'[c].at = "waiting" /\ \A d \in Calls \ {c} : call'[d] = call[d]
  BY DEF Renew, SessionsTypeOK, CallRow
<1>3. CallsGood'
  BY <1>1, <1>2 DEF Sound, CallsGood
<1>4. CASE PromiseOf(TabOf[c]) # {}
  <2>1. flight' = flight
    BY <1>4 DEF Renew
  <2> QED BY <1>1, <1>3, <2>1 DEF Sound, Alone, StoreGood, FlightsGood, Busy
<1>5. CASE PromiseOf(TabOf[c]) = {}
  <2>1. \A g \in Flights : ~ Busy(g)
    BY <1>1, <1>5 DEF PromiseOf, Sound, StoreGood, Busy
  <2>2. refresh[store] = "live"
    BY <1>1, <2>1 DEF Sound, StoreGood
  <2>3. flight' = [flight EXCEPT ![f] = [at |-> "sent", tab |-> TabOf[c], old |-> store,
                                         new |-> 0, heard |-> TRUE]]
    BY <1>5 DEF Renew
  <2>4. /\ flight'[f].at = "sent" /\ flight'[f].old = store /\ flight'[f].heard
        /\ \A g \in Flights \ {f} : flight'[g].at = "idle"
    BY <2>1, <2>3 DEF SessionsTypeOK, Busy
  <2> QED BY <1>1, <1>3, <2>2, <2>4 DEF Sound, Alone, StoreGood, FlightsGood, Busy
<1> QED BY <1>4, <1>5

\* The renewal of the session proceeds.
LEMMA RefreshKeepsSound ==
    ASSUME SessionsTypeOK, Known, Sound, NEW f \in Flights, Match(f) \/ Revoke(f) \/ IssuePair(f)
    PROVE  Sound'
<1>1. Busy(f) /\ \A g \in Flights \ {f} : ~ Busy(g)
  BY DEF Match, Revoke, IssuePair, Sound, Alone, Busy
<1>2. UNCHANGED <<store, call, active>>
  BY DEF Match, Revoke, IssuePair
<1>3. /\ \A g \in Flights \ {f} : flight'[g] = flight[g]
      /\ flight'[f].at # "idle" /\ flight'[f].heard = flight[f].heard
  BY DEF Match, Revoke, IssuePair, Refuse, SessionsTypeOK, FlightRow
<1>4. Alone'
  BY <1>1, <1>3 DEF Alone, Busy
<1>5. StoreGood'
  BY <1>1, <1>2, <1>3 DEF Sound, StoreGood, Busy
<1>6. CallsGood'
  <2>1. \A m \in Pairs : access[m] = "live" => access'[m] = "live"
    BY DEF Match, Revoke, IssuePair, Issue, tokens, SessionsTypeOK
  <2>2. \A d \in Calls : call[d].pair \in Pairs \cup {0}
    BY DEF SessionsTypeOK, CallRow
  <2> QED BY <1>2, <2>1, <2>2 DEF Sound, CallsGood
<1>7. FlightsGood'
  <2>1. CASE Match(f)
    <3>1. flight[f].heard => flight'[f].at = "matched"
      BY <2>1 DEF Match, Sound, FlightsGood, Busy, SessionsTypeOK, FlightRow
    <3> QED BY <1>1, <1>3, <3>1 DEF FlightsGood, Busy
  <2>2. CASE Revoke(f)
    <3>1. flight'[f].at = "revoked"
      BY <2>2 DEF Revoke, SessionsTypeOK, FlightRow
    <3> QED BY <1>1, <1>3, <3>1 DEF FlightsGood, Busy
  <2>3. CASE IssuePair(f)
    <3>1. Issue(Fresh, login[flight[f].old])
      BY <2>3 DEF IssuePair, Sound
    <3>2. Fresh \in Pairs /\ access'[Fresh] = "live" /\ refresh'[Fresh] = "live"
      BY <3>1 DEF Issue, SessionsTypeOK
    <3>3. flight'[f].at = "issued" /\ flight'[f].new = Fresh
      BY <2>3 DEF IssuePair, Sound, SessionsTypeOK, FlightRow
    <3> QED BY <1>1, <1>3, <3>2, <3>3 DEF FlightsGood, Busy
  <2> QED BY <2>1, <2>2, <2>3
<1> QED BY <1>2, <1>4, <1>5, <1>6, <1>7 DEF Sound

\* Its answer arrives, or reaches nobody.
LEMMA AnswersKeepSound ==
    ASSUME SessionsTypeOK, Known, Sound, NEW f \in Flights, Renewed(f) \/ NotRenewed(f) \/ Unanswered(f)
    PROVE  Sound'
<1>1. Busy(f) /\ \A g \in Flights \ {f} : ~ Busy(g)
  BY DEF Renewed, NotRenewed, Unanswered, Sound, Alone, Busy
<1>2. \A g \in Flights : flight'[g].at = "idle"
  <2>1. Over(f)
    BY DEF Renewed, NotRenewed, Unanswered
  <2> QED BY <1>1, <2>1 DEF Over, IdleFlight, SessionsTypeOK, Busy
<1>3. UNCHANGED <<access, refresh, active>>
  BY DEF Renewed, NotRenewed, Unanswered, tokens
<1>4. ~ NotRenewed(f)
  BY <1>1 DEF NotRenewed, Sound, FlightsGood
<1>5. CASE Renewed(f)
  <2>1. /\ flight[f].new \in Pairs /\ access[flight[f].new] = "live"
        /\ refresh[flight[f].new] = "live"
    BY <1>1, <1>5 DEF Renewed, Sound, FlightsGood, Known, Issued
  <2>2. store' = flight[f].new /\ flight[f].new # 0
    BY <1>5, <2>1, PairsPositive DEF Renewed
  <2>3. \A d \in Calls :
           \/ call'[d] = call[d] /\ call[d].at # "waiting"
           \/ call'[d] = call[d] /\ call[d].at = "waiting"
           \/ /\ call[d].at = "waiting" /\ call'[d].at = "resent"
              /\ call'[d].pair = flight[f].new
    BY <1>5 DEF Renewed, Waiting, SessionsTypeOK, CallRow
  <2>4. CallsGood'
    BY <1>3, <2>1, <2>2, <2>3 DEF Sound, CallsGood
  <2> QED BY <1>2, <1>3, <2>1, <2>2, <2>4 DEF Sound, Alone, StoreGood, FlightsGood, Busy
<1>6. CASE Unanswered(f)
  <2>1. store = 0 /\ store' = 0 /\ call' = call
    BY <1>1, <1>6 DEF Unanswered, Sound, StoreGood
  <2> QED BY <1>2, <1>3, <2>1 DEF Sound, Alone, StoreGood, FlightsGood, CallsGood, Busy
<1> QED BY <1>4, <1>5, <1>6

\* So nothing disturbs the session unseen.
LEMMA NextKeepsUndisturbed ==
    ASSUME SessionsTypeOK, Known, WaitersHeard, Undisturbed, [Next]_vars
    PROVE  Undisturbed'
<1> SUFFICES ASSUME ~ excused' PROVE Sound'
  BY DEF Undisturbed
<1>1. CASE Login \/ SignOut \/ Logout \/ Deactivate \/ \E n \in Pairs : ExpireAccess(n)
  BY <1>1, PeopleKeepSound
<1>2. ASSUME NEW f \in Flights, LoseRenewal(f) PROVE FALSE
  BY <1>2 DEF LoseRenewal
<1>3. CASE ~ (Login \/ SignOut \/ Logout \/ Deactivate \/ \E n \in Pairs : ExpireAccess(n))
  <2>1. excused => excused'
    BY <1>2, <1>3 DEF Next, CallStep, FlightStep, Send, Serve, ServeAgain, Refused, Renew, Match, Revoke,
          IssuePair, Renewed, NotRenewed, Unanswered, ghosts, vars
  <2>2. Sound
    BY <2>1 DEF Undisturbed
  <2>3. CASE UNCHANGED vars
    BY <2>2, <2>3 DEF vars, tokens, Sound, Alone, StoreGood, FlightsGood, CallsGood, Busy
  <2> QED BY <1>2, <1>3, <2>2, <2>3, CallsKeepSound, RenewKeepsSound, RefreshKeepsSound, AnswersKeepSound
          DEF Next, CallStep, FlightStep
<1> QED BY <1>1, <1>3

\* However its requests, their 401s and its renewals interleave, one tab does not
\* lose a session it did not sign out of (api.ts, refreshPromise and the retry of
\* req): the pair it stored stays exchangeable, and a request sent again with the
\* new pair is accepted.
THEOREM SessionAlwaysKept == Spec => LiveSessionKept
<1>1. Init => WaitersHeard /\ Undisturbed
  BY DEF Init, WaitersHeard, Undisturbed, Sound, Alone, StoreGood, FlightsGood, CallsGood, Busy,
         Unsent, IdleFlight
<1>2. SessionsTypeOK /\ Known /\ WaitersHeard /\ Undisturbed /\ [Next]_vars
        => WaitersHeard' /\ Undisturbed'
  BY NextKeepsWaiters, NextKeepsUndisturbed
<1>3. ASSUME SessionsTypeOK, Known, Undisturbed, [Next]_vars, store # 0, store' = 0, ~ SignOut
      PROVE  excused'
  <2>1. \/ \E c \in Calls : Refused(c)
        \/ \E f \in Flights : Renewed(f) \/ NotRenewed(f) \/ LoseRenewal(f)
        \/ Login
    BY <1>3 DEF Next, CallStep, FlightStep, Logout, Deactivate, ExpireAccess, Send, Serve, ServeAgain,
         Renew, Match, Revoke, IssuePair, Unanswered, vars
  <2>2. ASSUME NEW c \in Calls, Refused(c) PROVE excused'
    BY <1>3, <2>2 DEF Refused, Undisturbed, Sound, CallsGood, ghosts
  <2>3. ASSUME NEW f \in Flights, Renewed(f) PROVE FALSE
    <3>1. flight[f].new \in Pairs /\ store' = flight[f].new
      BY <1>3, <2>3 DEF Renewed, Known, Issued
    <3> QED BY <1>3, <3>1, PairsPositive
  <2>4. ASSUME NEW f \in Flights, NotRenewed(f) PROVE excused'
    BY <1>3, <2>4 DEF NotRenewed, Undisturbed, Sound, FlightsGood, Busy, ghosts
  <2>5. ASSUME NEW f \in Flights, LoseRenewal(f) PROVE excused'
    BY <2>5 DEF LoseRenewal
  <2> QED BY <1>3, <2>1, <2>2, <2>3, <2>4, <2>5 DEF Login
<1>4. SessionsTypeOK /\ Known /\ Undisturbed /\ [Next]_vars
        => [store # 0 /\ store' = 0 => SignOut \/ excused']_vars
  BY <1>3
<1> QED BY <1>1, <1>2, <1>4, SessionsTypes, PairsKnown, PTL DEF Spec, LiveSessionKept
=============================================================================
