------------------------- MODULE MCCommissionSplit --------------------------
(***************************************************************************)
(* All batches of up to four items with amounts that divide each other     *)
(* badly, under no commission, 0.5 %, 1.5 %, a third and more than the     *)
(* whole.                                                                  *)
(***************************************************************************)
EXTENDS CommissionSplit

MCAmounts == {100, 101, 107, 250, 333}
MCRates   == {<<0, 1>>, <<5, 1000>>, <<15, 1000>>, <<1, 3>>, <<3, 2>>}
=============================================================================
