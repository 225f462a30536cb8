---------------------------- MODULE WalletLedger ----------------------------
(***************************************************************************)
(* What WalletService keeps: every operation of the wallet is computed     *)
(* from a row that was once committed, saves all of it in one step and     *)
(* leaves its audit row behind.  As long as no two operations of a tenant  *)
(* overlapped that row is the current one; after that it may be any former *)
(* one, since no read of wallet.go locks anything.  The module Wallet      *)
(* shows the transactions of wallet.go to implement this.                  *)
(***************************************************************************)
EXTENDS WalletRows, FiniteSets

CONSTANTS Tenants, Batches, Items,
          TenantOf,       \* the tenant of a batch
          ItemsOf,        \* the set of items of a batch
          Amount,         \* the amount of an item
          Commission,     \* the commission allocated to an item
          Provision,      \* the amount Create reserves for a batch
          Deposits        \* the amounts of recharges

VARIABLES wallet,     \* the wallet row of each tenant
          ledger,     \* the audit rows, in commit order
          hold,       \* what happened to the provision of each item
          deposited,  \* history: what each tenant has paid in
          former,     \* history: the rows each wallet has had
          raced       \* history: the tenants two of whose operations overlapped

ledgerVars == <<wallet, ledger, hold, deposited, former, raced>>

AuditRow == [tenant : Tenants, type : WalletOps, amount : Int,
             before : Int, after : Int, ref : Nat]

HoldStates == {"absent", "held", "settling", "charged", "refunded"}

BatchOf(i) == CHOOSE b \in Batches : i \in ItemsOf[b]

\* batch_items.batch_id: an item is in one batch.
ConstantAssumption ==
    /\ IsFiniteSet(Items)
    /\ TenantOf \in [Batches -> Tenants]
    /\ ItemsOf \in [Batches -> SUBSET Items]
    /\ \A i \in Items : \E b \in Batches : i \in ItemsOf[b]
    /\ \A b, c \in Batches : b # c => ItemsOf[b] \cap ItemsOf[c] = {}
    /\ Amount \in [Items -> Nat \ {0}] /\ Commission \in [Items -> Nat]
    /\ Provision \in [Batches -> Nat]
    /\ Deposits \subseteq Nat \ {0}

ASSUME LedgerAssumption == ConstantAssumption

Init ==
    /\ wallet = [t \in Tenants |-> NewWallet]
    /\ ledger = << >>
    /\ hold = [i \in Items |-> "absent"]
    /\ deposited = [t \in Tenants |-> 0]
    /\ former = [t \in Tenants |-> {NewWallet}]
    /\ raced = {}

\* The rows an operation of this tenant may start from.
Bases(t) == IF t \in raced THEN former[t] ELSE {wallet[t]}

Post(op, t, base, amount, commission, ref) ==
    LET new == PostedRow(op, base, amount, commission) IN
    /\ wallet' = [wallet EXCEPT ![t] = new]
    /\ former' = [former EXCEPT ![t] = @ \cup {new}]
    /\ ledger' = ledger \o AuditRows(op, base, amount, commission, t, ref)
    /\ UNCHANGED raced

Deposit(t, base, a) ==
    /\ \E ref \in 1..(Len(ledger) + 1) : Post("recharge", t, base, a, 0, ref)
    /\ deposited' = [deposited EXCEPT ![t] = @ + a]
    /\ UNCHANGED hold

Hold(b, base) ==
    /\ \A i \in ItemsOf[b] : hold[i] = "absent"
    /\ Sufficient(base, Provision[b])
    /\ Post("reserve", TenantOf[b], base, Provision[b], 0, 0)
    /\ hold' = [i \in Items |-> IF i \in ItemsOf[b] THEN "held" ELSE hold[i]]
    /\ UNCHANGED deposited

Settle(i, base, op, outcome) ==
    /\ hold[i] = "held"
    /\ Post(op, TenantOf[BatchOf(i)], base, Amount[i], Commission[i], 0)
    /\ hold' = [hold EXCEPT ![i] = outcome]
    /\ UNCHANGED deposited

Overlap(t) ==
    /\ raced' = raced \cup {t}
    /\ UNCHANGED <<wallet, ledger, hold, deposited, former>>

Next ==
    \E t \in Tenants :
        \/ Overlap(t)
        \/ \E base \in Bases(t) :
              \/ \E a \in Deposits : Deposit(t, base, a)
              \/ \E b \in Batches : TenantOf[b] = t /\ Hold(b, base)
              \/ \E i \in Items :
                    /\ TenantOf[BatchOf(i)] = t
                    /\ \/ Settle(i, base, "charge", "charged")
                       \/ Settle(i, base, "refund", "refunded")

Spec == Init /\ [][Next]_ledgerVars
=============================================================================
