------------------------------ MODULE MCWallet ------------------------------
(***************************************************************************)
(* Small wallets for TLC: two tenants, a batch of two items (one of them   *)
(* too small to carry commission) and a batch of one for the first         *)
(* tenant, so that reservations compete for one balance; a recharge of     *)
(* each tenant shares the yearly counter.                                  *)
(***************************************************************************)
EXTENDS Wallet, TLC

CONSTANTS t1, t2, b1, b2, i1, i2, i3, x1, x2, x3

MCTenantOf   == b1 :> t1 @@ b2 :> t1
MCItemsOf    == b1 :> {i1, i2} @@ b2 :> {i3}
MCAmount     == i1 :> 103 @@ i2 :> 100 @@ i3 :> 150
MCCommission == i1 :> 1 @@ i2 :> 0 @@ i3 :> 1
MCProvision  == b1 :> 204 @@ b2 :> 151
MCDeposits   == {300}

\* Transactions are interchangeable.
TxSymmetry == Permutations(Txs)
=============================================================================
