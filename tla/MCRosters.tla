------------------------------- MODULE MCRosters -------------------------------
(***************************************************************************)
(* The instance of Rosters for TLC: the administrators' page, the tenant's  *)
(* own list and the administrator's page of that tenant.                   *)
(***************************************************************************)
EXTENDS Rosters, TLC

CONSTANTS a1, a2, u1, u2, u3, p1, team, file, f1, f2

Styles == p1 :> "patch" @@ team :> "answer" @@ file :> "reload"
Operators == p1 :> a1 @@ team :> u1 @@ file :> a1
================================================================================
