----------------------------- MODULE WalletRows -----------------------------
(***************************************************************************)
(* The wallet row of a tenant and what each operation of WalletService     *)
(* (internal/services/wallet.go) writes into it, with the audit rows       *)
(* (WalletTransaction) it appends.  No state here: the modules Wallet and  *)
(* WalletLedger decide when these are applied, and to which copy.          *)
(***************************************************************************)
EXTENDS Integers, Sequences

\* models.Wallet: the liquid balance, the blocked balance and the three
\* historical totals, in FCFA.
WalletRow == [available : Int, reserved : Int, totalDebited : Int,
              totalCommission : Int, totalRefunded : Int]

\* GetOrCreate: a wallet starts with every amount at its default, zero.
NewWallet == [available |-> 0, reserved |-> 0, totalDebited |-> 0,
              totalCommission |-> 0, totalRefunded |-> 0]

\* The operations that write the row.  SettleItem is two of them: "charge" for
\* success = true, "refund" for success = false.
WalletOps == {"recharge", "reserve", "charge", "refund"}

\* The row with these changes of its five amounts.
MovedRow(w, available, reserved, debited, commission, refunded) ==
    [available       |-> w.available + available,
     reserved        |-> w.reserved + reserved,
     totalDebited    |-> w.totalDebited + debited,
     totalCommission |-> w.totalCommission + commission,
     totalRefunded   |-> w.totalRefunded + refunded]

RechargedRow(w, amount) == MovedRow(w, amount, 0, 0, 0, 0)

SufficientWithBlocked(w, amount) == w.available + w.reserved >= amount

\* Reserve's only business check, on the row it read.
Sufficient(w, amount) == w.available >= amount

ReservedRow(w, amount) == MovedRow(w, -amount, amount, 0, 0, 0)

ChargedRowKeepsFee(w, amount, commission) ==
    MovedRow(w, 0, -amount, amount, commission, 0)

\* A paid item: amount and commission leave the blocked balance.
ChargedRow(w, amount, commission) ==
    MovedRow(w, 0, -(amount + commission), amount, commission, 0)

\* A failed item: amount and commission go back to the liquid balance.
RefundedRow(w, total) == MovedRow(w, total, -total, 0, 0, total)

\* The row an operation saves, from the row it read.
PostedRow(op, w, amount, commission) ==
    CASE op = "recharge" -> RechargedRow(w, amount)
      [] op = "reserve"  -> ReservedRow(w, amount)
      [] op = "charge"   -> ChargedRow(w, amount, commission)
      [] op = "refund"   -> RefundedRow(w, amount + commission)

AuditFrom(op, balance, amount, commission, tenant, ref) ==
    LET Entry(delta, after) ==
          <<[tenant |-> tenant, type |-> op, amount |-> delta,
             before |-> balance, after |-> after, ref |-> ref]>>
    IN  CASE op = "recharge" -> Entry(amount, balance + amount)
          [] op = "reserve"  -> Entry(-amount, balance - amount)
          [] op = "charge"   -> IF commission > 0 THEN Entry(-commission, balance)
                                                 ELSE << >>
          [] op = "refund"   -> Entry(amount + commission,
                                      balance + (amount + commission))

AuditRowsAfterwards(op, w, amount, commission, tenant, ref) ==
    AuditFrom(op, PostedRow(op, w, amount, commission).available,
            amount, commission, tenant, ref)

\* The audit rows the same transaction inserts: one per operation, none for a
\* paid item without commission.  A commission row repeats the liquid balance
\* on both sides, because that balance does not move.
AuditRows(op, w, amount, commission, tenant, ref) ==
    AuditFrom(op, w.available, amount, commission, tenant, ref)

\* Everything the tenant ever paid in is in one of these four places.
Holdings(w) == w.available + w.reserved + w.totalDebited + w.totalCommission
=============================================================================
