------------------------------ MODULE MCSessions ------------------------------
(***************************************************************************)
(* The instance of Sessions for TLC: two requests of one tab, one of       *)
(* another.                                                                *)
(***************************************************************************)
EXTENDS Sessions, TLC

CONSTANTS t1, t2, c1, c2, c3, f1, f2

TabsOfCalls == c1 :> t1 @@ c2 :> t1 @@ c3 :> t2
=============================================================================
