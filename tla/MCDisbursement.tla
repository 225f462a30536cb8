--------------------------- MODULE MCDisbursement ---------------------------
(***************************************************************************)
(* Instances of Disbursement for TLC.  Batch b1 has two items, one per     *)
(* operator, and a provision of exactly the approval threshold; b2 has a   *)
(* single item.  The commission rate, one tenth, makes the rounding show:  *)
(* 205 francs carry 20, divided into 9 and 11.                             *)
(***************************************************************************)
EXTENDS Disbursement, TLC

CONSTANTS b1, b2, i1, i2, i3, u1, u2, w1, w2, s1, s2

OneItemsOf == b1 :> <<i1, i2>>
OneAmounts == i1 :> 101 @@ i2 :> 104
OneOperators == i1 :> "orange" @@ i2 :> "moov"

SmallItemsOf == b2 :> <<i3>>
SmallAmounts == i3 :> 102
SmallOperators == i3 :> "moov"
=============================================================================
