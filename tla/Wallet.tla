------------------------------- MODULE Wallet -------------------------------
(***************************************************************************)
(* WalletService (internal/services/wallet.go) as PostgreSQL runs it: each *)
(* operation is a database transaction of several statements, and the      *)
(* transactions of concurrent requests and workers interleave between      *)
(* them.  Recharge counts the year's recharges, then reads the wallet row, *)
(* then saves the whole row with its audit row; Reserve and SettleItem     *)
(* read, then save.  Isolation is READ COMMITTED and the read locks        *)
(* nothing: the option "gorm:query_option" the code sets for it is one of  *)
(* GORM v1, which the GORM of go.mod (v1.25) does not read.                *)
(***************************************************************************)
EXTENDS WalletLedger, Functions

CONSTANTS Txs,            \* the concurrent database transactions
          NoOp,           \* no operation
          MaxRecharges    \* bound: recharges begun or recorded

\* Create reserves what its items will take: the shares of the commission add up
\* to it (module CommissionSplit).
ASSUME ProvisionAssumption ==
    \A b \in Batches :
        Provision[b] = SumFunction([i \in ItemsOf[b] |-> Amount[i] + Commission[i]])

VARIABLES pc,      \* where each transaction stands
          req,     \* the operation it runs, with its arguments
          row      \* the copy of the wallet row it read

txVars == <<pc, req, row>>
vars   == <<wallet, ledger, hold, deposited, former, raced, pc, req, row>>

Request == [op : WalletOps, tenant : Tenants, on : Tenants \cup Batches \cup Items,
            amount : Nat, commission : Nat, ref : Nat]

WalletTypeOK ==
    /\ wallet \in [Tenants -> WalletRow]
    /\ ledger \in Seq(AuditRow)
    /\ hold \in [Items -> HoldStates]
    /\ deposited \in [Tenants -> Nat]
    /\ former \in [Tenants -> SUBSET WalletRow]
    /\ raced \subseteq Tenants
    /\ pc \in [Txs -> {"idle", "begun", "loaded"}]
    /\ req \in [Txs -> Request \cup {NoOp}]
    /\ \A p \in Txs : pc[p] # "idle" => req[p] \in Request
    /\ row \in [Txs -> WalletRow]

WalletInit ==
    /\ Init
    /\ pc = [p \in Txs |-> "idle"]
    /\ req = [p \in Txs |-> NoOp]
    /\ row = [p \in Txs |-> NewWallet]

-----------------------------------------------------------------------------
Recharges == {k \in DOMAIN ledger : ledger[k].type = "recharge"}

Recharging == {p \in Txs : pc[p] # "idle" /\ req[p].op = "recharge"}

Begin(p, r) ==
    /\ pc[p] = "idle"
    /\ pc' = [pc EXCEPT ![p] = "begun"]
    /\ req' = [req EXCEPT ![p] = r]
    /\ UNCHANGED <<wallet, ledger, deposited, former, raced, row>>

\* Recharge, first statement: count the recharges committed so far, over all
\* tenants, and number the new one after them.
BeginRecharge(p, t, a) ==
    /\ Cardinality(Recharges) + Cardinality(Recharging) < MaxRecharges
    /\ Begin(p, [op |-> "recharge", tenant |-> t, on |-> t, amount |-> a,
                 commission |-> 0, ref |-> Cardinality(Recharges) + 1])
    /\ UNCHANGED hold

\* Create has inserted the batch and its items and calls Reserve.
BeginReserve(p, b) ==
    /\ \A i \in ItemsOf[b] : hold[i] = "absent"
    /\ \A q \in Txs : pc[q] # "idle" => req[q].on # b
    /\ Begin(p, [op |-> "reserve", tenant |-> TenantOf[b], on |-> b,
                 amount |-> Provision[b], commission |-> 0, ref |-> 0])
    /\ UNCHANGED hold

BeginSettleAgain(p, i, op) ==
    /\ hold[i] = "held"
    /\ Begin(p, [op |-> op, tenant |-> TenantOf[BatchOf(i)], on |-> i,
                 amount |-> Amount[i], commission |-> Commission[i], ref |-> 0])
    /\ UNCHANGED hold

\* A worker settles an item; it calls SettleItem once, whatever comes of it.
BeginSettle(p, i, op) ==
    /\ hold[i] = "held"
    /\ Begin(p, [op |-> op, tenant |-> TenantOf[BatchOf(i)], on |-> i,
                 amount |-> Amount[i], commission |-> Commission[i], ref |-> 0])
    /\ hold' = [hold EXCEPT ![i] = "settling"]

\* The transactions of a tenant that have read its row and not ended.
Readers(t) == {q \in Txs : pc[q] = "loaded" /\ req[q].tenant = t}

\* The read of the wallet row.
LoadRow(p) ==
    LET t == req[p].tenant IN
    /\ pc[p] = "begun"
    /\ row' = [row EXCEPT ![p] = wallet[t]]
    /\ pc' = [pc EXCEPT ![p] = "loaded"]
    /\ raced' = IF Readers(t) = {} THEN raced ELSE raced \cup {t}
    /\ UNCHANGED <<wallet, ledger, hold, deposited, former, req>>

\* The transaction ends, by commit or rollback.
End(p) ==
    /\ pc' = [pc EXCEPT ![p] = "idle"]
    /\ req' = [req EXCEPT ![p] = NoOp]
    /\ row' = [row EXCEPT ![p] = NewWallet]
    /\ UNCHANGED raced

\* Save of the whole row computed from the copy, the audit row, the commit.
CommitRow(p) ==
    LET r   == req[p]
        new == PostedRow(r.op, row[p], r.amount, r.commission)
    IN
    /\ pc[p] = "loaded"
    /\ r.op = "reserve" => Sufficient(row[p], r.amount)
    /\ wallet' = [wallet EXCEPT ![r.tenant] = new]
    /\ former' = [former EXCEPT ![r.tenant] = @ \cup {new}]
    /\ ledger' = ledger \o AuditRows(r.op, row[p], r.amount, r.commission,
                                     r.tenant, r.ref)
    /\ deposited' = IF r.op = "recharge"
                      THEN [deposited EXCEPT ![r.tenant] = @ + r.amount]
                      ELSE deposited
    /\ hold' = CASE r.op = "reserve" ->
                      [i \in Items |-> IF i \in ItemsOf[r.on] THEN "held" ELSE hold[i]]
                 [] r.op = "charge" -> [hold EXCEPT ![r.on] = "charged"]
                 [] r.op = "refund" -> [hold EXCEPT ![r.on] = "refunded"]
                 [] OTHER -> hold
    /\ End(p)

\* A statement fails, Reserve finds too little, the connection or the process
\* dies: nothing of the transaction stays.
Rollback(p) ==
    /\ pc[p] # "idle"
    /\ End(p)
    /\ UNCHANGED <<wallet, ledger, hold, deposited, former>>

WalletNext ==
    \E p \in Txs :
        \/ \E t \in Tenants, a \in Deposits : BeginRecharge(p, t, a)
        \/ \E b \in Batches : BeginReserve(p, b)
        \/ \E i \in Items, op \in {"charge", "refund"} : BeginSettle(p, i, op)
        \/ LoadRow(p)
        \/ CommitRow(p)
        \/ Rollback(p)

WalletSpec == WalletInit /\ [][WalletNext]_vars

-----------------------------------------------------------------------------
(* What holds whatever overlaps.                                           *)

\* The test of Reserve (wallet.go:103) is made on a copy; the balance it
\* protects never becomes negative all the same.
NoOverdraft == \A t \in Tenants : wallet[t].available >= 0

\* Overlapping transactions may lose money, by saving over each other
\* (wallet.go:64-72, 98-112, 138-173), but they never create any: no wallet
\* accounts for more than its tenant has paid in.
MoneyNeverCreated == \A t \in Tenants : Holdings(wallet[t]) <= deposited[t]

\* The sum of F over the items of a tenant that are in one of these states.
SumHeld(t, states, F(_)) ==
    LET mine == {i \in Items : TenantOf[BatchOf(i)] = t /\ hold[i] \in states}
    IN  SumFunction([i \in mine |-> F(i)])

Both(i) == Amount[i] + Commission[i]
Net(i)  == Amount[i]
Fee(i)  == Commission[i]

\* A settlement saved over by another is missing from the historical totals
\* (wallet.go:146-149, 168-173), but none is ever in them twice, and no item that
\* was not settled, or was settled otherwise.
TotalsNeverOverstated ==
    \A t \in Tenants :
        /\ wallet[t].totalDebited    <= SumHeld(t, {"charged"}, Net)
        /\ wallet[t].totalCommission <= SumHeld(t, {"charged"}, Fee)
        /\ wallet[t].totalRefunded   <= SumHeld(t, {"refunded"}, Both)

\* The audit trail of a tenant may fork, where two operations read one row, but
\* has no gap: each audit row begins at a balance that an earlier one ended at,
\* and so does the balance of the row (wallet.go:69-88, 108-128, 146-188).
TrailHasNoGap ==
    LET Ends(t, n) == {0} \cup {ledger[j].after :
                                  j \in {k \in 1..(n - 1) : ledger[k].tenant = t}}
    IN  /\ \A k \in DOMAIN ledger : ledger[k].before \in Ends(ledger[k].tenant, k)
        /\ \A t \in Tenants : wallet[t].available \in Ends(t, Len(ledger) + 1)

-----------------------------------------------------------------------------
(* What holds of a wallet whose operations took turns: no two of them were *)
(* between their read and their end at the same time.                      *)

\* Every franc paid in is available, blocked, paid out or earned; the blocked
\* balance and the historical totals are, at every moment, the sums over the
\* items of what their reservation became (wallet.go:44-192).
BooksMatchHolds ==
    \A t \in Tenants \ raced :
        /\ Holdings(wallet[t])       = deposited[t]
        /\ wallet[t].reserved        = SumHeld(t, {"held", "settling"}, Both)
        /\ wallet[t].totalDebited    = SumHeld(t, {"charged"}, Net)
        /\ wallet[t].totalCommission = SumHeld(t, {"charged"}, Fee)
        /\ wallet[t].totalRefunded   = SumHeld(t, {"refunded"}, Both)

\* The audit rows of a tenant explain its balance: each begins where the one
\* before it ended, and the last ends at the balance of the row
\* (BalanceBefore and BalanceAfter, wallet.go:76-88, 116-128, 154-188).
LedgerExplainsBalance ==
    \A t \in Tenants \ raced :
        LET now       == Len(ledger) + 1
            Mine(k)   == k \in {0, now} \/ ledger[k].tenant = t
            After(k)  == IF k = 0 THEN 0 ELSE ledger[k].after
            Before(k) == IF k = now THEN wallet[t].available ELSE ledger[k].before
        IN  \A k \in 1..now : \A j \in 0..(k - 1) :
               Mine(j) /\ Mine(k) /\ (\A m \in (j + 1)..(k - 1) : ~Mine(m))
                  => Before(k) = After(j)

\* The transactions implement the operations of WalletLedger: one step each, on
\* the current row unless the tenant's operations overlapped, on a former one
\* otherwise.
Ledger == INSTANCE WalletLedger WITH
    hold <- [i \in Items |-> IF hold[i] = "settling" THEN "held" ELSE hold[i]]

LedgerKept == Ledger!Spec

-----------------------------------------------------------------------------
(* What a comment says of the program and its steps refute.                *)

\* wallet.go:63 says the read locks the row against races on the balance: every
\* franc paid in would be available, blocked, paid out or earned, whatever
\* overlaps.
Conservation == \A t \in Tenants : Holdings(wallet[t]) = deposited[t]
=============================================================================
