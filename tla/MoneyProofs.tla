---------------------------- MODULE MoneyProofs -----------------------------
(***************************************************************************)
(* Proofs about the money.  The wallet transactions, for any number of     *)
(* tenants, batches, items, recharges and concurrent transactions, which   *)
(* lock nothing: types, no overdraft and no money created; the claims of   *)
(* the transactions under way; the refinement of WalletLedger; the totals, *)
(* as bounds and, of a tenant whose operations took turns, as the sums of  *)
(* its items; the audit rows, without a gap and, under turns, as a chain.  *)
(* Then the commission of a batch (CommissionSplit): the division gives    *)
(* every item a natural number, loses nothing, and is fair.                *)
(***************************************************************************)
EXTENDS Wallet, CommissionSplit, MoneyLemmas, SequenceTheorems

USE LedgerAssumption

\* A transaction computes from a row that its tenant has had.
CopiesKnown == \A p \in Txs : pc[p] = "loaded" => row[p] \in former[req[p].tenant]

\* As long as the operations of a tenant take turns, that row is the current one.
TurnsFresh ==
    \A p \in Txs : pc[p] = "loaded" /\ req[p].tenant \notin raced =>
        /\ row[p] = wallet[req[p].tenant]
        /\ \A q \in Txs : pc[q] = "loaded" /\ req[q].tenant = req[p].tenant => q = p

\* What no operation can break is said of every row a tenant has had, since any
\* of them may be computed from again.
FormerSound ==
    \A t \in Tenants :
        /\ wallet[t] \in former[t]
        /\ \A w \in former[t] : w.available >= 0 /\ Holdings(w) <= deposited[t]

IInv == WalletTypeOK /\ CopiesKnown /\ TurnsFresh /\ FormerSound

\* Every item belongs to one of the batches.
LEMMA BatchOfType == \A i \in Items : BatchOf(i) \in Batches
BY DEF BatchOf, ConstantAssumption

\* The strengthened invariant holds of the initial state.
LEMMA InitIInv == WalletInit => IInv
<1>1. NewWallet \in WalletRow /\ NewWallet.available = 0 /\ Holdings(NewWallet) = 0
  BY DEF NewWallet, WalletRow, Holdings
<1> QED BY <1>1, EmptySeq DEF WalletInit, Init, IInv, WalletTypeOK, CopiesKnown, TurnsFresh,
                              FormerSound, HoldStates

\* Starting a transaction touches no row and no copy.
LEMMA BeginStep ==
    ASSUME IInv, NEW p \in Txs, NEW r \in Request, Begin(p, r),
           hold' \in [Items -> HoldStates]
    PROVE  IInv'
<1>1. WalletTypeOK'
  BY DEF Begin, IInv, WalletTypeOK
<1>2. /\ UNCHANGED <<wallet, former, raced, row, deposited>>
      /\ \A q \in Txs : pc'[q] = "loaded" => pc[q] = "loaded" /\ req'[q] = req[q]
  BY DEF Begin, IInv, WalletTypeOK
<1>3. CopiesKnown' /\ TurnsFresh' /\ FormerSound'
  BY <1>2 DEF IInv, CopiesKnown, TurnsFresh, FormerSound
<1> QED BY <1>1, <1>3 DEF IInv

\* The number of recharges recorded is a natural number.
LEMMA RechargesFinite == WalletTypeOK => Cardinality(Recharges) \in Nat
<1> SUFFICES ASSUME WalletTypeOK PROVE Cardinality(Recharges) \in Nat
  OBVIOUS
<1>1. IsFiniteSet(1..Len(ledger))
  BY FS_Interval, LenProperties DEF WalletTypeOK
<1>2. Recharges \subseteq 1..Len(ledger)
  BY LenProperties DEF WalletTypeOK, Recharges
<1>3. IsFiniteSet(Recharges)
  BY <1>1, <1>2, FS_Subset
<1> QED BY <1>3, FS_CardinalityType

\* What an operation appends to the audit table are audit rows.
LEMMA AuditRowsType ==
    ASSUME NEW op \in WalletOps, NEW w \in WalletRow, NEW a \in Nat, NEW c \in Nat,
           NEW t \in Tenants, NEW ref \in Nat
    PROVE  AuditRows(op, w, a, c, t, ref) \in Seq(AuditRow)
<1> DEFINE E(delta, after) == [tenant |-> t, type |-> op, amount |-> delta,
                               before |-> w.available, after |-> after, ref |-> ref]
<1>1. \A delta, after \in Int : E(delta, after) \in AuditRow
  BY DEF AuditRow, WalletRow
<1>2. \A delta, after \in Int : <<E(delta, after)>> \in Seq(AuditRow)
  BY <1>1
<1>3. w.available \in Int /\ << >> \in Seq(AuditRow)
  BY DEF WalletRow
<1> HIDE DEF E
<1>4. AuditRows(op, w, a, c, t, ref) \in
        {<<E(a, w.available + a)>>, <<E(-a, w.available - a)>>,
         <<E(-c, w.available)>>, << >>, <<E(a + c, w.available + (a + c))>>}
  BY DEF AuditRows, AuditFrom, WalletOps, E
<1>5. /\ a \in Int /\ -a \in Int /\ -c \in Int /\ a + c \in Int
      /\ w.available + a \in Int /\ w.available - a \in Int
      /\ w.available + (a + c) \in Int
  BY <1>3
<1>6. /\ <<E(a, w.available + a)>> \in Seq(AuditRow)
      /\ <<E(-a, w.available - a)>> \in Seq(AuditRow)
      /\ <<E(-c, w.available)>> \in Seq(AuditRow)
      /\ <<E(a + c, w.available + (a + c))>> \in Seq(AuditRow)
  BY <1>2, <1>3, <1>5, Zenon
<1> QED BY <1>3, <1>4, <1>6, Zenon

\* The end of a transaction: p is idle again.
LEMMA EndStep ==
    ASSUME WalletTypeOK, NEW p \in Txs, End(p)
    PROVE  /\ pc' \in [Txs -> {"idle", "begun", "loaded"}]
           /\ req' \in [Txs -> Request \cup {NoOp}]
           /\ \A q \in Txs : pc'[q] # "idle" => req'[q] \in Request
           /\ row' \in [Txs -> WalletRow]
           /\ raced' = raced
           /\ \A q \in Txs : pc'[q] = "loaded" =>
                 q # p /\ pc[q] = "loaded" /\ req'[q] = req[q] /\ row'[q] = row[q]
<1>1. NewWallet \in WalletRow
  BY DEF NewWallet, WalletRow
<1> QED BY <1>1 DEF End, WalletTypeOK

\* A read takes the current row; if another transaction of the tenant has read
\* and not ended, the tenant's operations no longer take turns.
LEMMA LoadStep ==
    ASSUME IInv, NEW p \in Txs, LoadRow(p)
    PROVE  IInv'
<1> DEFINE t == req[p].tenant
<1>1. req[p] \in Request /\ t \in Tenants /\ wallet[t] \in WalletRow
  BY DEF IInv, WalletTypeOK, LoadRow, Request
<1>2. WalletTypeOK'
  BY <1>1 DEF IInv, WalletTypeOK, LoadRow
<1>3. /\ UNCHANGED <<wallet, former, deposited, req>>
      /\ row' = [row EXCEPT ![p] = wallet[t]] /\ pc' = [pc EXCEPT ![p] = "loaded"]
      /\ raced' = IF Readers(t) = {} THEN raced ELSE raced \cup {t}
      /\ pc[p] = "begun"
  BY DEF LoadRow
<1>4. /\ pc'[p] = "loaded" /\ row'[p] = wallet[t]
      /\ \A q \in Txs \ {p} : pc'[q] = pc[q] /\ row'[q] = row[q]
  BY <1>3 DEF IInv, WalletTypeOK
<1>5. CopiesKnown'
  BY <1>1, <1>3, <1>4 DEF IInv, CopiesKnown, FormerSound
<1>6. TurnsFresh'
  <2> SUFFICES ASSUME NEW x \in Txs, pc'[x] = "loaded", req[x].tenant \notin raced'
               PROVE  /\ row'[x] = wallet[req[x].tenant]
                      /\ \A q \in Txs : pc'[q] = "loaded" /\ req[q].tenant = req[x].tenant => q = x
    BY <1>3 DEF TurnsFresh
  <2>1. raced \subseteq raced' /\ (t \notin raced' => Readers(t) = {})
    BY <1>3
  <2>2. t \notin raced' => \A q \in Txs : pc[q] = "loaded" => req[q].tenant # t
    BY <2>1 DEF Readers
  <2> HIDE DEF t
  <2>3. CASE x = p
    <3>1. t = req[x].tenant
      BY <2>3 DEF t
    <3> QED BY <1>4, <2>2, <2>3, <3>1
  <2>4. CASE x # p
    <3>1. pc[x] = "loaded" /\ row'[x] = row[x] /\ req[x].tenant \notin raced
      BY <1>4, <2>1, <2>4
    <3>2. /\ row[x] = wallet[req[x].tenant]
          /\ \A q \in Txs : pc[q] = "loaded" /\ req[q].tenant = req[x].tenant => q = x
      BY <3>1 DEF IInv, TurnsFresh
    <3>3. req[p].tenant # req[x].tenant
      BY <2>2, <3>1 DEF t
    <3> QED BY <1>4, <3>1, <3>2, <3>3
  <2> QED BY <2>3, <2>4
<1>7. FormerSound'
  BY <1>3 DEF IInv, FormerSound
<1> QED BY <1>2, <1>5, <1>6, <1>7 DEF IInv

\* A rollback leaves nothing behind.
LEMMA RollbackStep ==
    ASSUME IInv, NEW p \in Txs, Rollback(p)
    PROVE  IInv'
<1>1. WalletTypeOK /\ End(p) /\ UNCHANGED <<wallet, ledger, hold, deposited, former>>
  BY DEF IInv, Rollback
<1>2. WalletTypeOK'
  BY <1>1, EndStep DEF WalletTypeOK
<1>3. CopiesKnown' /\ TurnsFresh' /\ FormerSound'
  BY <1>1, EndStep DEF IInv, CopiesKnown, TurnsFresh, FormerSound
<1> QED BY <1>2, <1>3 DEF IInv

\* The row a transaction saves and the audit rows it inserts with it.
Saved(p) == PostedRow(req[p].op, row[p], req[p].amount, req[p].commission)

Audited(p) ==
    AuditRows(req[p].op, row[p], req[p].amount, req[p].commission, req[p].tenant, req[p].ref)

\* What a transaction that commits starts from and writes.
LEMMA CommitWrites ==
    ASSUME IInv, NEW p \in Txs, CommitRow(p)
    PROVE  /\ req[p] \in Request /\ req[p].tenant \in Tenants /\ req[p].op \in WalletOps
           /\ req[p].amount \in Nat /\ req[p].commission \in Nat /\ req[p].ref \in Nat
           /\ row[p] \in WalletRow /\ row[p] \in former[req[p].tenant]
           /\ Saved(p) \in WalletRow /\ Audited(p) \in Seq(AuditRow)
           /\ req[p].tenant \notin raced => row[p] = wallet[req[p].tenant]
           /\ wallet' = [wallet EXCEPT ![req[p].tenant] = Saved(p)]
           /\ former' = [former EXCEPT ![req[p].tenant] = @ \cup {Saved(p)}]
           /\ ledger' = ledger \o Audited(p)
           /\ End(p)
<1>1. /\ pc[p] = "loaded"
      /\ wallet' = [wallet EXCEPT ![req[p].tenant] = Saved(p)]
      /\ former' = [former EXCEPT ![req[p].tenant] = @ \cup {Saved(p)}]
      /\ ledger' = ledger \o Audited(p)
      /\ End(p)
  BY DEF CommitRow, Saved, Audited
<1>2. /\ req[p] \in Request /\ req[p].tenant \in Tenants /\ req[p].op \in WalletOps
      /\ req[p].amount \in Nat /\ req[p].commission \in Nat /\ req[p].ref \in Nat
      /\ row[p] \in WalletRow /\ row[p] \in former[req[p].tenant]
      /\ req[p].tenant \notin raced => row[p] = wallet[req[p].tenant]
  BY <1>1 DEF IInv, WalletTypeOK, CopiesKnown, TurnsFresh, Request
<1>3. Saved(p) \in WalletRow
  BY <1>2, HoldingsPosted DEF Saved
<1>4. Audited(p) \in Seq(AuditRow)
  BY <1>2, AuditRowsType DEF Audited
<1> QED BY <1>1, <1>2, <1>3, <1>4

\* A commit computes from a row the tenant has had, and no row says more than was
\* paid in by then.
LEMMA CommitStep ==
    ASSUME IInv, NEW p \in Txs, CommitRow(p)
    PROVE  IInv'
<1> DEFINE r == req[p]
           t == r.tenant
           new == Saved(p)
<1>1. /\ t \in Tenants /\ r.op \in WalletOps /\ r.amount \in Nat /\ r.commission \in Nat
      /\ row[p] \in WalletRow /\ row[p] \in former[t] /\ new \in WalletRow
      /\ wallet' = [wallet EXCEPT ![t] = new] /\ former' = [former EXCEPT ![t] = @ \cup {new}]
      /\ ledger' = ledger \o Audited(p) /\ Audited(p) \in Seq(AuditRow) /\ End(p)
  BY CommitWrites
<1>2. /\ deposited' = IF r.op = "recharge"
                        THEN [deposited EXCEPT ![t] = @ + r.amount] ELSE deposited
      /\ r.op = "reserve" => Sufficient(row[p], r.amount)
      /\ pc[p] = "loaded"
  BY DEF CommitRow
<1>3. /\ wallet \in [Tenants -> WalletRow] /\ former \in [Tenants -> SUBSET WalletRow]
      /\ deposited \in [Tenants -> Nat] /\ ledger \in Seq(AuditRow)
  BY DEF IInv, WalletTypeOK
<1>4. /\ new.available >= 0
      /\ Holdings(new) = Holdings(row[p]) + (IF r.op = "recharge" THEN r.amount ELSE 0)
      /\ Holdings(row[p]) <= deposited[t]
  <2>1. row[p].available >= 0 /\ Holdings(row[p]) <= deposited[t]
    BY <1>1 DEF IInv, FormerSound
  <2> QED BY <1>1, <1>2, <2>1, HoldingsPosted DEF Saved
<1>5. \A q \in Txs : pc'[q] = "loaded" =>
         q # p /\ pc[q] = "loaded" /\ req'[q] = req[q] /\ row'[q] = row[q]
  BY <1>1, EndStep DEF IInv
<1>6. WalletTypeOK'
  <2>1. ledger' \in Seq(AuditRow)
    BY <1>1, <1>3, ConcatProperties
  <2>2. wallet' \in [Tenants -> WalletRow] /\ former' \in [Tenants -> SUBSET WalletRow]
    BY <1>1, <1>3
  <2>3. deposited' \in [Tenants -> Nat]
    BY <1>1, <1>2, <1>3
  <2>4. hold' \in [Items -> HoldStates]
    BY DEF CommitRow, IInv, WalletTypeOK, HoldStates
  <2> QED BY <1>1, <2>1, <2>2, <2>3, <2>4, EndStep DEF IInv, WalletTypeOK
<1> HIDE DEF new
<1>7. CopiesKnown'
  <2>1. \A u \in Tenants : former[u] \subseteq former'[u]
    BY <1>1, <1>3
  <2>2. \A q \in Txs : pc[q] = "loaded" => req[q].tenant \in Tenants
    BY DEF IInv, WalletTypeOK, Request
  <2> QED BY <1>5, <2>1, <2>2 DEF IInv, CopiesKnown
<1>8. TurnsFresh'
  <2> SUFFICES ASSUME NEW q \in Txs, pc'[q] = "loaded", req'[q].tenant \notin raced'
               PROVE  /\ row'[q] = wallet'[req'[q].tenant]
                      /\ \A x \in Txs : pc'[x] = "loaded" /\ req'[x].tenant = req'[q].tenant => x = q
    BY DEF TurnsFresh
  <2>1. /\ q # p /\ pc[q] = "loaded" /\ req'[q] = req[q] /\ row'[q] = row[q]
        /\ raced' = raced
    BY <1>1, <1>5, EndStep DEF IInv
  <2>2. /\ row[q] = wallet[req[q].tenant]
        /\ \A x \in Txs : pc[x] = "loaded" /\ req[x].tenant = req[q].tenant => x = q
    BY <2>1 DEF IInv, TurnsFresh
  <2>3. req[q].tenant # t
    BY <1>2, <2>1, <2>2
  <2>4. wallet'[req[q].tenant] = wallet[req[q].tenant]
    BY <1>1, <1>3, <2>3
  <2> QED BY <1>5, <2>1, <2>2, <2>4
<1>9. FormerSound'
  <2> SUFFICES ASSUME NEW u \in Tenants
               PROVE  /\ wallet'[u] \in former'[u]
                      /\ \A w \in former'[u] : w.available >= 0 /\ Holdings(w) <= deposited'[u]
    BY DEF FormerSound, Holdings
  <2>0. /\ wallet[u] \in former[u]
        /\ \A w \in former[u] : w.available >= 0 /\ Holdings(w) <= deposited[u]
    BY DEF IInv, FormerSound
  <2>1. /\ wallet'[u] = IF u = t THEN new ELSE wallet[u]
        /\ former'[u] = IF u = t THEN former[u] \cup {new} ELSE former[u]
        /\ deposited'[u] = IF u = t /\ r.op = "recharge" THEN deposited[u] + r.amount
                           ELSE deposited[u]
    BY <1>1, <1>2, <1>3
  <2>2. \A w \in WalletRow : Holdings(w) \in Int
    BY DEF WalletRow, Holdings
  <2>3. former[u] \subseteq WalletRow /\ deposited[u] \in Nat /\ r.amount \in Nat
    BY <1>1, <1>3
  <2> HIDE DEF r, t
  <2>4. \A w \in former[u] : Holdings(w) <= deposited'[u]
    BY <2>0, <2>1, <2>2, <2>3
  <2>5. u = t => Holdings(new) <= deposited'[u]
    BY <1>1, <1>4, <2>1, <2>2, <2>3
  <2> QED BY <1>4, <2>0, <2>1, <2>4, <2>5
<1> QED BY <1>6, <1>7, <1>8, <1>9 DEF IInv

\* Every step keeps the strengthened invariant.
LEMMA NextStep == IInv /\ [WalletNext]_vars => IInv'
<1> SUFFICES ASSUME IInv, [WalletNext]_vars PROVE IInv'
  OBVIOUS
<1>1. CASE UNCHANGED vars
  BY <1>1 DEF vars, IInv, WalletTypeOK, CopiesKnown, TurnsFresh, FormerSound
<1>2. ASSUME NEW p \in Txs, NEW t \in Tenants, NEW a \in Deposits,
             BeginRecharge(p, t, a)
      PROVE  IInv'
  <2>1. [op |-> "recharge", tenant |-> t, on |-> t, amount |-> a,
         commission |-> 0, ref |-> Cardinality(Recharges) + 1] \in Request
    BY RechargesFinite DEF IInv, Request, WalletOps, ConstantAssumption
  <2> QED BY <1>2, <2>1, BeginStep DEF BeginRecharge, IInv, WalletTypeOK
<1>3. ASSUME NEW p \in Txs, NEW b \in Batches, BeginReserve(p, b)
      PROVE  IInv'
  <2>1. [op |-> "reserve", tenant |-> TenantOf[b], on |-> b, amount |-> Provision[b],
         commission |-> 0, ref |-> 0] \in Request
    BY DEF Request, WalletOps, ConstantAssumption
  <2> QED BY <1>3, <2>1, BeginStep DEF BeginReserve, IInv, WalletTypeOK
<1>4. ASSUME NEW p \in Txs, NEW i \in Items, NEW op \in {"charge", "refund"},
             BeginSettle(p, i, op)
      PROVE  IInv'
  <2>1. [op |-> op, tenant |-> TenantOf[BatchOf(i)], on |-> i, amount |-> Amount[i],
         commission |-> Commission[i], ref |-> 0] \in Request
    BY BatchOfType DEF Request, WalletOps, ConstantAssumption
  <2> QED BY <1>4, <2>1, BeginStep DEF BeginSettle, IInv, WalletTypeOK, HoldStates
<1> QED BY <1>1, <1>2, <1>3, <1>4, LoadStep, CommitStep, RollbackStep DEF WalletNext

\* The strengthened invariant holds in every state.
LEMMA IInvHolds == WalletSpec => []IInv
BY InitIInv, NextStep, PTL DEF WalletSpec

\* Every variable of the wallet transactions keeps its type, however they overlap
\* (wallet.go:44-192).
THEOREM WalletTypes == WalletSpec => []WalletTypeOK
<1>1. IInv => WalletTypeOK
  BY DEF IInv
<1> QED BY <1>1, IInvHolds, PTL

\* The copy Reserve tests is a row its tenant has had, and of those none is
\* negative: however many transactions overlap, the liquid balance stays at or
\* above zero (wallet.go:96-114).
THEOREM NoOverdraftHolds == WalletSpec => []NoOverdraft
<1>1. IInv => NoOverdraft
  BY DEF IInv, FormerSound, NoOverdraft
<1> QED BY <1>1, IInvHolds, PTL

\* However many transactions overlap and save over each other, no wallet accounts
\* for more than its tenant has paid in (wallet.go:64-72, 98-112, 138-173).
THEOREM MoneyNeverCreatedHolds == WalletSpec => []MoneyNeverCreated
<1>1. IInv => MoneyNeverCreated
  BY DEF IInv, FormerSound, MoneyNeverCreated
<1> QED BY <1>1, IInvHolds, PTL

-----------------------------------------------------------------------------
(* What a transaction under way is entitled to.                            *)

\* A recharge carries a deposit and a number of the ledger or the next one; a
\* reservation, the provision of a batch none of whose items is provisioned; a
\* settlement, the shares of an item that no other settlement has.
Claim(p) ==
    LET r == req[p] IN
    /\ r.op = "recharge" =>
          r.amount \in Deposits /\ r.commission = 0 /\ r.ref \in 1..(Len(ledger) + 1)
    /\ r.op = "reserve" =>
          /\ r.on \in Batches /\ r.tenant = TenantOf[r.on] /\ r.amount = Provision[r.on]
          /\ r.commission = 0 /\ r.ref = 0
          /\ \A i \in ItemsOf[r.on] : hold[i] = "absent"
    /\ r.op \in {"charge", "refund"} =>
          /\ r.on \in Items /\ r.tenant = TenantOf[BatchOf(r.on)] /\ r.ref = 0
          /\ r.amount = Amount[r.on] /\ r.commission = Commission[r.on]
          /\ hold[r.on] = "settling"

Settling(p) == pc[p] # "idle" /\ req[p].op \in {"charge", "refund"}
Reserving(p) == pc[p] # "idle" /\ req[p].op = "reserve"

Claims ==
    /\ \A p \in Txs : pc[p] # "idle" => Claim(p)
    /\ \A p, q \in Txs : p # q /\ req[p].on = req[q].on
          => ~(Settling(p) /\ Settling(q)) /\ ~(Reserving(p) /\ Reserving(q))

\* No transaction is under way at the start.
LEMMA InitClaims == WalletInit => Claims
BY DEF WalletInit, Init, Claims, Settling, Reserving

\* The recharges are among the rows of the ledger.
LEMMA RechargesBound == WalletTypeOK => Cardinality(Recharges) + 1 \in 1..(Len(ledger) + 1)
<1> SUFFICES ASSUME WalletTypeOK PROVE Cardinality(Recharges) + 1 \in 1..(Len(ledger) + 1)
  OBVIOUS
<1>1. Len(ledger) \in Nat /\ DOMAIN ledger = 1..Len(ledger)
  BY LenProperties DEF WalletTypeOK
<1>2. IsFiniteSet(1..Len(ledger)) /\ Cardinality(1..Len(ledger)) = Len(ledger)
  <2>1. \A n \in Nat : IsFiniteSet(1..n) /\ Cardinality(1..n) = n
    <3>1. ASSUME NEW n \in Nat PROVE IsFiniteSet(1..n) /\ Cardinality(1..n) = n
      <4>1. 1 \in Int /\ n \in Int /\ n - 1 + 1 = n
        OBVIOUS
      <4>2. n = 0 \/ ~(1 > n)
        OBVIOUS
      <4> QED BY <4>1, <4>2, FS_Interval
    <3> QED BY <3>1
  <2> QED BY <1>1, <2>1
<1>3. Recharges \subseteq 1..Len(ledger)
  BY <1>1 DEF Recharges
<1>4. Cardinality(Recharges) <= Len(ledger)
  BY <1>2, <1>3, FS_Subset
<1>5. Cardinality(Recharges) \in Nat
  BY RechargesFinite
<1> QED BY <1>1, <1>4, <1>5

\* A transaction that begins with a claim of its own leaves the other claims.
LEMMA BeginClaims ==
    ASSUME IInv, Claims, NEW p \in Txs, NEW r \in Request, Begin(p, r), Claim(p)',
           \A q \in Txs \ {p} : pc[q] # "idle" /\ Claim(q) => Claim(q)',
           \A q \in Txs \ {p} : req[q].on = r.on =>
               /\ ~(Settling(q) /\ r.op \in {"charge", "refund"})
               /\ ~(Reserving(q) /\ r.op = "reserve")
    PROVE  Claims'
<1>1. /\ pc' = [pc EXCEPT ![p] = "begun"] /\ req' = [req EXCEPT ![p] = r]
      /\ pc \in [Txs -> {"idle", "begun", "loaded"}] /\ req \in [Txs -> Request \cup {NoOp}]
  BY DEF Begin, IInv, WalletTypeOK
<1>2. \A q \in Txs \ {p} : pc'[q] = pc[q] /\ req'[q] = req[q]
  BY <1>1
<1>3. pc'[p] = "begun" /\ req'[p] = r
  BY <1>1
<1>4. \A q \in Txs : pc'[q] # "idle" => Claim(q)'
  BY <1>2 DEF Claims
<1>5. \A q \in Txs \ {p} : (Settling(q)' <=> Settling(q)) /\ (Reserving(q)' <=> Reserving(q))
  BY <1>2 DEF Settling, Reserving
<1>6. /\ Settling(p)' <=> r.op \in {"charge", "refund"}
      /\ Reserving(p)' <=> r.op = "reserve"
  BY <1>3 DEF Settling, Reserving
<1> QED BY <1>2, <1>3, <1>4, <1>5, <1>6 DEF Claims

\* A transaction that ends leaves the claims of the others, if it leaves their
\* items and only lengthens the ledger.
LEMMA EndClaims ==
    ASSUME IInv, Claims, NEW p \in Txs, End(p),
           \A q \in Txs \ {p} : pc[q] # "idle" /\ Claim(q) /\ req'[q] = req[q] => Claim(q)'
    PROVE  Claims'
<1>1. /\ pc' = [pc EXCEPT ![p] = "idle"] /\ req' = [req EXCEPT ![p] = NoOp]
      /\ pc \in [Txs -> {"idle", "begun", "loaded"}] /\ req \in [Txs -> Request \cup {NoOp}]
  BY DEF End, IInv, WalletTypeOK
<1>2. \A q \in Txs \ {p} : pc'[q] = pc[q] /\ req'[q] = req[q]
  BY <1>1
<1>3. pc'[p] = "idle"
  BY <1>1
<1>4. \A q \in Txs : pc'[q] # "idle" => Claim(q)'
  BY <1>2, <1>3 DEF Claims
<1>5. \A q \in Txs \ {p} : (Settling(q)' <=> Settling(q)) /\ (Reserving(q)' <=> Reserving(q))
  BY <1>2 DEF Settling, Reserving
<1>6. ~Settling(p)' /\ ~Reserving(p)'
  BY <1>3 DEF Settling, Reserving
<1> QED BY <1>2, <1>4, <1>5, <1>6 DEF Claims

\* A claim does not outlive its items: what changes an item under way is its own
\* transaction.
LEMMA ClaimKept ==
    ASSUME IInv, NEW q \in Txs, pc[q] # "idle", Claim(q), req'[q] = req[q],
           ledger' \in Seq(AuditRow), Len(ledger') >= Len(ledger),
           req[q].op = "reserve" =>
               \A i \in ItemsOf[req[q].on] : hold[i] = "absent" => hold'[i] = "absent",
           req[q].op \in {"charge", "refund"} =>
               (hold[req[q].on] = "settling" => hold'[req[q].on] = "settling")
    PROVE  Claim(q)'
<1>1. /\ Len(ledger) \in Nat /\ Len(ledger') \in Nat
      /\ 1..(Len(ledger) + 1) \subseteq 1..(Len(ledger') + 1)
  BY LenProperties DEF IInv, WalletTypeOK
<1>2. req[q].op = "reserve" => ItemsOf[req[q].on] = ItemsOf[req'[q].on]
  BY DEF Claim
<1> QED BY <1>1, <1>2 DEF Claim

\* Every step keeps the claims.
LEMMA ClaimsStep == IInv /\ IInv' /\ Claims /\ [WalletNext]_vars => Claims'
<1> SUFFICES ASSUME IInv, IInv', Claims, [WalletNext]_vars PROVE Claims'
  OBVIOUS
<1>0. ledger \in Seq(AuditRow) /\ ledger' \in Seq(AuditRow) /\ hold \in [Items -> HoldStates]
  BY DEF IInv, WalletTypeOK
<1>1. CASE UNCHANGED vars
  BY <1>1 DEF vars, Claims, Claim, Settling, Reserving
<1>2. ASSUME NEW p \in Txs, NEW t \in Tenants, NEW a \in Deposits, BeginRecharge(p, t, a)
      PROVE  Claims'
  <2> DEFINE r == [op |-> "recharge", tenant |-> t, on |-> t, amount |-> a,
                   commission |-> 0, ref |-> Cardinality(Recharges) + 1]
  <2>1. r \in Request /\ Begin(p, r) /\ UNCHANGED <<ledger, hold>>
    BY <1>2, RechargesFinite DEF BeginRecharge, Begin, IInv, Request, WalletOps, ConstantAssumption
  <2>2. req'[p] = r
    BY <2>1 DEF Begin, IInv, WalletTypeOK
  <2>3. Claim(p)'
    BY <2>1, <2>2, RechargesBound DEF Claim, IInv
  <2>4. \A q \in Txs \ {p} : pc[q] # "idle" /\ Claim(q) => Claim(q)'
    BY <2>1 DEF Claim, Begin, IInv, WalletTypeOK
  <2> QED BY <2>1, <2>3, <2>4, BeginClaims
<1>3. ASSUME NEW p \in Txs, NEW b \in Batches, BeginReserve(p, b)
      PROVE  Claims'
  <2> DEFINE r == [op |-> "reserve", tenant |-> TenantOf[b], on |-> b,
                   amount |-> Provision[b], commission |-> 0, ref |-> 0]
  <2>1. r \in Request /\ Begin(p, r) /\ UNCHANGED <<ledger, hold>>
    BY <1>3 DEF BeginReserve, Begin, Request, WalletOps, ConstantAssumption
  <2>2. req'[p] = r
    BY <2>1 DEF Begin, IInv, WalletTypeOK
  <2>3. Claim(p)'
    BY <1>3, <2>1, <2>2 DEF Claim, BeginReserve
  <2>4. \A q \in Txs \ {p} : pc[q] # "idle" /\ Claim(q) => Claim(q)'
    BY <2>1 DEF Claim, Begin, IInv, WalletTypeOK
  <2>5. \A q \in Txs \ {p} : pc[q] # "idle" => req[q].on # b
    BY <1>3 DEF BeginReserve
  <2> QED BY <2>1, <2>3, <2>4, <2>5, BeginClaims DEF Reserving
<1>4. ASSUME NEW p \in Txs, NEW i \in Items, NEW op \in {"charge", "refund"},
             BeginSettle(p, i, op)
      PROVE  Claims'
  <2> DEFINE r == [op |-> op, tenant |-> TenantOf[BatchOf(i)], on |-> i,
                   amount |-> Amount[i], commission |-> Commission[i], ref |-> 0]
  <2>1. /\ r \in Request /\ Begin(p, r) /\ hold[i] = "held" /\ UNCHANGED ledger
        /\ hold' = [hold EXCEPT ![i] = "settling"]
    BY <1>4, BatchOfType DEF BeginSettle, Begin, Request, WalletOps, ConstantAssumption
  <2>2. req'[p] = r /\ \A q \in Txs \ {p} : req'[q] = req[q]
    BY <2>1 DEF Begin, IInv, WalletTypeOK
  <2>3. hold'[i] = "settling" /\ \A j \in Items : hold[j] # "held" => hold'[j] = hold[j]
    BY <1>0, <2>1
  <2>4. Claim(p)'
    BY <2>2, <2>3 DEF Claim
  <2>5. ASSUME NEW q \in Txs \ {p}, pc[q] # "idle", Claim(q) PROVE Claim(q)'
    <3>1. req[q].op = "reserve" => ItemsOf[req[q].on] \subseteq Items
      BY <2>5 DEF Claim, ConstantAssumption
    <3>2. req[q].op \in {"charge", "refund"} => req[q].on \in Items
      BY <2>5 DEF Claim
    <3>3. Len(ledger') >= Len(ledger)
      BY <1>0, <2>1, LenProperties
    <3> QED BY <1>0, <2>2, <2>3, <2>5, <3>1, <3>2, <3>3, ClaimKept
  <2>6. \A q \in Txs \ {p} : Settling(q) => req[q].on # i
    BY <2>1 DEF Claims, Claim, Settling
  <2> QED BY <2>1, <2>4, <2>5, <2>6, BeginClaims
<1>5. ASSUME NEW p \in Txs, LoadRow(p) PROVE Claims'
  <2>1. /\ req' = req /\ hold' = hold /\ ledger' = ledger
        /\ \A q \in Txs : pc'[q] # "idle" <=> pc[q] # "idle"
    BY <1>5 DEF LoadRow, IInv, WalletTypeOK
  <2> QED BY <2>1 DEF Claims, Claim, Settling, Reserving
<1>6. ASSUME NEW p \in Txs, Rollback(p) PROVE Claims'
  <2>1. End(p) /\ UNCHANGED <<hold, ledger>>
    BY <1>6 DEF Rollback
  <2>2. \A q \in Txs \ {p} : pc[q] # "idle" /\ Claim(q) /\ req'[q] = req[q] => Claim(q)'
    BY <2>1 DEF Claim
  <2> QED BY <2>1, <2>2, EndClaims
<1>7. ASSUME NEW p \in Txs, CommitRow(p) PROVE Claims'
  <2> DEFINE r == req[p]
  <2>1. End(p) /\ pc[p] # "idle" /\ Claim(p) /\ r \in Request
    BY <1>7 DEF CommitRow, Claims, IInv, WalletTypeOK
  <2>2. Len(ledger') >= Len(ledger)
    <3>1. row[p] \in WalletRow /\ r.op \in WalletOps /\ r.amount \in Nat
          /\ r.commission \in Nat /\ r.tenant \in Tenants /\ r.ref \in Nat
      BY <2>1 DEF IInv, WalletTypeOK, Request
    <3>2. AuditRows(r.op, row[p], r.amount, r.commission, r.tenant, r.ref) \in Seq(AuditRow)
      BY <3>1, AuditRowsType
    <3>3. ledger' = ledger \o AuditRows(r.op, row[p], r.amount, r.commission, r.tenant, r.ref)
      BY <1>7 DEF CommitRow
    <3> QED BY <1>0, <3>2, <3>3, ConcatProperties, LenProperties
  <2>3. ASSUME NEW q \in Txs \ {p}, pc[q] # "idle", Claim(q), req'[q] = req[q] PROVE Claim(q)'
    <3> DEFINE s == req[q]
    <3>0. s.op \in WalletOps
      BY <2>3 DEF IInv, WalletTypeOK, Request
    <3>1. CASE r.op = "recharge"
      <4>1. hold' = hold
        BY <1>7, <3>1 DEF CommitRow
      <4> QED BY <1>0, <2>2, <2>3, <4>1, ClaimKept
    <3>2. CASE r.op = "reserve"
      <4>1. r.on \in Batches /\ \A i \in ItemsOf[r.on] : hold[i] = "absent"
        BY <2>1, <3>2 DEF Claim
      <4>2. hold' = [i \in Items |-> IF i \in ItemsOf[r.on] THEN "held" ELSE hold[i]]
        BY <1>7, <3>2 DEF CommitRow
      <4>3. s.op = "reserve" => s.on \in Batches /\ s.on # r.on
                                /\ ItemsOf[s.on] \cap ItemsOf[r.on] = {}
                                /\ ItemsOf[s.on] \subseteq Items
        BY <2>1, <2>3, <3>2, <4>1 DEF Claims, Claim, Reserving, ConstantAssumption
      <4>4. s.op \in {"charge", "refund"} => s.on \in Items
        BY <2>3 DEF Claim
      <4> QED BY <1>0, <2>2, <2>3, <4>1, <4>2, <4>3, <4>4, ClaimKept
    <3>3. CASE r.op \in {"charge", "refund"}
      <4>1. r.on \in Items /\ hold[r.on] = "settling"
        BY <2>1, <3>3 DEF Claim
      <4>2. \E o \in {"charged", "refunded"} : hold' = [hold EXCEPT ![r.on] = o]
        BY <1>7, <3>3 DEF CommitRow
      <4>3. s.op \in {"charge", "refund"} => s.on \in Items /\ s.on # r.on
        BY <2>1, <2>3, <3>3 DEF Claims, Claim, Settling
      <4>4. s.op = "reserve" => ItemsOf[s.on] \subseteq Items
        BY <2>3 DEF Claim, ConstantAssumption
      <4> QED BY <1>0, <2>2, <2>3, <4>1, <4>2, <4>3, <4>4, ClaimKept
    <3> QED BY <2>1, <3>1, <3>2, <3>3 DEF Request, WalletOps
  <2> QED BY <2>1, <2>3, EndClaims
<1> QED BY <1>1, <1>2, <1>3, <1>4, <1>5, <1>6, <1>7 DEF WalletNext

\* The claims hold in every state.
LEMMA ClaimsHold == WalletSpec => []Claims
<1>1. IInv /\ IInv' /\ Claims /\ [WalletNext]_vars => Claims'
  BY ClaimsStep
<1> QED BY InitClaims, IInvHolds, <1>1, PTL DEF WalletSpec

-----------------------------------------------------------------------------
(* The transactions implement the one-step operations of WalletLedger.  The *)
(* instance has its own copy of the operators of the wallet row.            *)

\* The copies compute what the originals do.
LEMMA SameRows ==
    ASSUME NEW op, NEW w, NEW a, NEW c, NEW t, NEW ref
    PROVE  /\ Ledger!PostedRow(op, w, a, c) = PostedRow(op, w, a, c)
           /\ Ledger!AuditRows(op, w, a, c, t, ref) = AuditRows(op, w, a, c, t, ref)
           /\ Ledger!Sufficient(w, a) <=> Sufficient(w, a)
BY DEF Ledger!PostedRow, Ledger!RechargedRow, Ledger!ReservedRow, Ledger!ChargedRow,
       Ledger!RefundedRow, Ledger!MovedRow, PostedRow, RechargedRow, ReservedRow,
       ChargedRow, RefundedRow, MovedRow, Ledger!AuditRows, Ledger!AuditFrom, AuditRows, AuditFrom,
       Ledger!Sufficient, Sufficient

\* What the ledger takes for the state of the items.
Abstract(h) == [i \in Items |-> IF h[i] = "settling" THEN "held" ELSE h[i]]

\* The start of the transactions is the start of the ledger.
LEMMA InitRefines == WalletInit => Ledger!Init
BY DEF WalletInit, Init, Ledger!Init, NewWallet, Ledger!NewWallet

\* The step of the ledger that a commit is: the operation, on the row read.
LEMMA CommitRefines ==
    ASSUME IInv, Claims, NEW p \in Txs, CommitRow(p)
    PROVE  Ledger!Next
<1> DEFINE r == req[p]
           t == r.tenant
<1>0. hold \in [Items -> HoldStates] /\ deposited \in [Tenants -> Nat]
  BY DEF IInv, WalletTypeOK
<1>1. r \in Request /\ t \in Tenants /\ r.op \in WalletOps /\ Claim(p)
  BY CommitWrites DEF CommitRow, Claims
<1>2. PICK base \in Ledger!Bases(t) : base = row[p]
  BY CommitWrites DEF Ledger!Bases
<1>3. Ledger!Post(r.op, t, base, r.amount, r.commission, r.ref)
  <2>1. /\ Ledger!PostedRow(r.op, base, r.amount, r.commission) = Saved(p)
        /\ Ledger!AuditRows(r.op, base, r.amount, r.commission, t, r.ref) = Audited(p)
    BY <1>2, SameRows DEF Saved, Audited
  <2>2. /\ wallet' = [wallet EXCEPT ![t] = Saved(p)]
        /\ former' = [former EXCEPT ![t] = @ \cup {Saved(p)}]
        /\ ledger' = ledger \o Audited(p) /\ raced' = raced
    BY CommitWrites, EndStep DEF IInv
  <2> HIDE DEF r, t
  <2> QED BY <2>1, <2>2 DEF Ledger!Post
<1>4. CASE r.op = "recharge"
  <2>1. /\ r.amount \in Deposits /\ r.commission = 0 /\ r.ref \in 1..(Len(ledger) + 1)
    BY <1>1, <1>4 DEF Claim
  <2>2. deposited' = [deposited EXCEPT ![t] = @ + r.amount] /\ hold' = hold
    BY <1>4 DEF CommitRow
  <2>3. Ledger!Deposit(t, base, r.amount)
    BY <1>3, <1>4, <2>1, <2>2 DEF Ledger!Deposit
  <2> QED BY <1>1, <1>2, <2>1, <2>3 DEF Ledger!Next
<1>5. CASE r.op = "reserve"
  <2>0. PICK b \in Batches : b = r.on
    BY <1>1, <1>5 DEF Claim
  <2>1. /\ t = TenantOf[b] /\ r.amount = Provision[b]
        /\ r.commission = 0 /\ r.ref = 0 /\ ItemsOf[b] \subseteq Items
        /\ \A i \in ItemsOf[b] : hold[i] = "absent"
    BY <1>1, <1>5, <2>0 DEF Claim, ConstantAssumption
  <2>2. /\ deposited' = deposited
        /\ hold' = [i \in Items |-> IF i \in ItemsOf[b] THEN "held" ELSE hold[i]]
        /\ Sufficient(base, r.amount)
    BY <1>1, <1>2, <1>5, <2>0 DEF CommitRow
  <2>3. Abstract(hold') = [i \in Items |-> IF i \in ItemsOf[b] THEN "held"
                                           ELSE Abstract(hold)[i]]
    BY <2>2 DEF Abstract
  <2>4. \A i \in ItemsOf[b] : Abstract(hold)[i] = "absent"
    BY <2>1 DEF Abstract
  <2>5. Ledger!Sufficient(base, Provision[b])
    BY <2>1, <2>2, SameRows
  <2>6. Ledger!Post("reserve", TenantOf[b], base, Provision[b], 0, 0)
    BY <1>3, <1>5, <2>1
  <2>7. Ledger!Hold(b, base)
    BY <2>2, <2>3, <2>4, <2>5, <2>6 DEF Ledger!Hold, Abstract
  <2> QED BY <1>1, <2>1, <2>7 DEF Ledger!Next
<1>6. CASE r.op \in {"charge", "refund"}
  <2>0. PICK i \in Items : i = r.on
    BY <1>1, <1>6 DEF Claim
  <2>1. /\ t = TenantOf[BatchOf(i)] /\ r.amount = Amount[i]
        /\ r.commission = Commission[i] /\ r.ref = 0 /\ hold[i] = "settling"
    BY <1>1, <1>6, <2>0 DEF Claim
  <2>2. Ledger!BatchOf(i) = BatchOf(i) /\ Abstract(hold)[i] = "held"
    BY <2>1 DEF Ledger!BatchOf, BatchOf, Abstract
  <2>3. Ledger!Post(r.op, TenantOf[Ledger!BatchOf(i)], base, Amount[i], Commission[i], 0)
    BY <1>3, <2>1, <2>2
  <2>4. CASE r.op = "charge"
    <3>1. deposited' = deposited /\ hold' = [hold EXCEPT ![i] = "charged"]
      BY <2>0, <2>4 DEF CommitRow
    <3>2. Abstract(hold') = [Abstract(hold) EXCEPT ![i] = "charged"]
      BY <1>0, <3>1 DEF Abstract
    <3>3. Ledger!Settle(i, base, "charge", "charged")
      BY <2>2, <2>3, <2>4, <3>1, <3>2 DEF Ledger!Settle, Abstract
    <3> QED BY <1>1, <1>2, <2>1, <2>2, <3>3 DEF Ledger!Next
  <2>5. CASE r.op = "refund"
    <3>1. deposited' = deposited /\ hold' = [hold EXCEPT ![i] = "refunded"]
      BY <2>0, <2>5 DEF CommitRow
    <3>2. Abstract(hold') = [Abstract(hold) EXCEPT ![i] = "refunded"]
      BY <1>0, <3>1 DEF Abstract
    <3>3. Ledger!Settle(i, base, "refund", "refunded")
      BY <2>2, <2>3, <2>5, <3>1, <3>2 DEF Ledger!Settle, Abstract
    <3> QED BY <1>1, <1>2, <2>1, <2>2, <3>3 DEF Ledger!Next
  <2> QED BY <1>6, <2>4, <2>5
<1> QED BY <1>1, <1>4, <1>5, <1>6 DEF WalletOps

\* A read that meets another under way is the overlap of the ledger; every other
\* step but a commit leaves the ledger as it is.
LEMMA StepRefines ==
    IInv /\ Claims /\ [WalletNext]_vars => [Ledger!Next]_(Ledger!ledgerVars)
<1> SUFFICES ASSUME IInv, Claims, [WalletNext]_vars
             PROVE  Ledger!Next \/ UNCHANGED Ledger!ledgerVars
  OBVIOUS
<1>0. hold \in [Items -> HoldStates]
  BY DEF IInv, WalletTypeOK
<1>1. CASE UNCHANGED vars
  BY <1>1 DEF vars, Ledger!ledgerVars
<1>2. ASSUME NEW p \in Txs, NEW t \in Tenants, NEW a \in Deposits, BeginRecharge(p, t, a)
      PROVE  UNCHANGED Ledger!ledgerVars
  BY <1>2 DEF BeginRecharge, Begin, Ledger!ledgerVars
<1>3. ASSUME NEW p \in Txs, NEW b \in Batches, BeginReserve(p, b)
      PROVE  UNCHANGED Ledger!ledgerVars
  BY <1>3 DEF BeginReserve, Begin, Ledger!ledgerVars
<1>4. ASSUME NEW p \in Txs, NEW i \in Items, NEW op \in {"charge", "refund"},
             BeginSettle(p, i, op)
      PROVE  UNCHANGED Ledger!ledgerVars
  <2>1. hold[i] = "held" /\ hold' = [hold EXCEPT ![i] = "settling"]
        /\ UNCHANGED <<wallet, ledger, deposited, former, raced>>
    BY <1>4 DEF BeginSettle, Begin
  <2>2. Abstract(hold') = Abstract(hold)
    BY <1>0, <2>1 DEF Abstract
  <2> QED BY <2>1, <2>2 DEF Ledger!ledgerVars, Abstract
<1>5. ASSUME NEW p \in Txs, LoadRow(p)
      PROVE  Ledger!Next \/ UNCHANGED Ledger!ledgerVars
  <2> DEFINE t == req[p].tenant
  <2>1. t \in Tenants
    BY <1>5 DEF LoadRow, IInv, WalletTypeOK, Request
  <2>2. raced' = raced \/ raced' = raced \cup {t}
    BY <1>5 DEF LoadRow
  <2>3. UNCHANGED <<wallet, ledger, hold, deposited, former>>
    BY <1>5 DEF LoadRow
  <2> HIDE DEF t
  <2>4. CASE raced' = raced
    BY <2>3, <2>4 DEF Ledger!ledgerVars
  <2>5. CASE raced' = raced \cup {t}
    <3>1. Ledger!Overlap(t)
      BY <2>3, <2>5 DEF Ledger!Overlap
    <3> QED BY <2>1, <3>1 DEF Ledger!Next
  <2> QED BY <2>2, <2>4, <2>5
<1>6. ASSUME NEW p \in Txs, Rollback(p) PROVE UNCHANGED Ledger!ledgerVars
  BY <1>6 DEF Rollback, End, Ledger!ledgerVars
<1> QED BY <1>1, <1>2, <1>3, <1>4, <1>5, <1>6, CommitRefines DEF WalletNext

\* The transactions of wallet.go, however they interleave, show the rest of the
\* program nothing but whole operations: on the current row as long as those of
\* the tenant took turns, on one it has had after that (wallet.go:44-192).
THEOREM LedgerAlwaysKept == WalletSpec => LedgerKept
<1>1. IInv /\ Claims /\ [WalletNext]_vars => [Ledger!Next]_(Ledger!ledgerVars)
  BY StepRefines
<1> QED BY InitRefines, IInvHolds, ClaimsHold, <1>1, PTL
        DEF WalletSpec, LedgerKept, Ledger!Spec

-----------------------------------------------------------------------------
(* The totals of the row against the sums over the items.                  *)

BothOf == [i \in Items |-> Amount[i] + Commission[i]]

Mine(t, states) == {i \in Items : TenantOf[BatchOf(i)] = t /\ hold[i] \in states}

HeldSum(t)     == SumFunctionOnSet(BothOf, Mine(t, {"held", "settling"}))
PaidSum(t)     == SumFunctionOnSet(Amount, Mine(t, {"charged"}))
FeeSum(t)      == SumFunctionOnSet(Commission, Mine(t, {"charged"}))
RefundedSum(t) == SumFunctionOnSet(BothOf, Mine(t, {"refunded"}))

Books(t) ==
    /\ Holdings(wallet[t])       = deposited[t]
    /\ wallet[t].reserved        = HeldSum(t)
    /\ wallet[t].totalDebited    = PaidSum(t)
    /\ wallet[t].totalCommission = FeeSum(t)
    /\ wallet[t].totalRefunded   = RefundedSum(t)

Bounded(t) ==
    \A w \in former[t] :
        /\ w.totalDebited    <= PaidSum(t)
        /\ w.totalCommission <= FeeSum(t)
        /\ w.totalRefunded   <= RefundedSum(t)

\* The sums are over finite sets of items, of natural numbers.
LEMMA MineFinite ==
    /\ \A t \in Tenants : \A states : Mine(t, states) \subseteq Items
    /\ \A S \in SUBSET Items : IsFiniteSet(S)
    /\ \A i \in Items : BothOf[i] \in Nat /\ Amount[i] \in Nat /\ Commission[i] \in Nat
    /\ \A i \in Items : BothOf[i] = Amount[i] + Commission[i]
BY FS_Subset DEF Mine, BothOf, ConstantAssumption

\* Each sum is a natural number, before and after a step.
LEMMA SumsNat ==
    ASSUME NEW t \in Tenants
    PROVE  /\ HeldSum(t) \in Nat /\ PaidSum(t) \in Nat
           /\ FeeSum(t) \in Nat /\ RefundedSum(t) \in Nat
           /\ HeldSum(t)' \in Nat /\ PaidSum(t)' \in Nat
           /\ FeeSum(t)' \in Nat /\ RefundedSum(t)' \in Nat
<1>1. ASSUME NEW S \in SUBSET Items
      PROVE  /\ SumFunctionOnSet(BothOf, S) \in Nat /\ SumFunctionOnSet(Amount, S) \in Nat
             /\ SumFunctionOnSet(Commission, S) \in Nat
  <2>1. /\ IsFiniteSet(S)
        /\ \A i \in S : BothOf[i] \in Nat /\ Amount[i] \in Nat /\ Commission[i] \in Nat
    BY MineFinite
  <2> QED BY <2>1, SumType
<1>2. \A states : Mine(t, states) \in SUBSET Items /\ Mine(t, states)' \in SUBSET Items
  BY DEF Mine
<1> QED BY <1>1, <1>2 DEF HeldSum, PaidSum, FeeSum, RefundedSum

\* The sums of the properties are these.
LEMMA SumsForm ==
    ASSUME NEW t \in Tenants
    PROVE  /\ SumHeld(t, {"held", "settling"}, Both) = HeldSum(t)
           /\ SumHeld(t, {"charged"}, Net) = PaidSum(t)
           /\ SumHeld(t, {"charged"}, Fee) = FeeSum(t)
           /\ SumHeld(t, {"refunded"}, Both) = RefundedSum(t)
<1>1. ASSUME NEW S \in SUBSET Items
      PROVE  /\ SumFunction([i \in S |-> Amount[i] + Commission[i]]) = SumFunctionOnSet(BothOf, S)
             /\ SumFunction([i \in S |-> Amount[i]]) = SumFunctionOnSet(Amount, S)
             /\ SumFunction([i \in S |-> Commission[i]]) = SumFunctionOnSet(Commission, S)
  <2>1. IsFiniteSet(S) /\ \A i \in S : BothOf[i] = Amount[i] + Commission[i]
    BY MineFinite
  <2>2. SumFunction([i \in S |-> Amount[i] + Commission[i]]) = SumFunctionOnSet(BothOf, S)
    <3> DEFINE g == [i \in S |-> Amount[i] + Commission[i]]
    <3>1. DOMAIN g = S /\ \A i \in DOMAIN g : g[i] = BothOf[i]
      BY <2>1
    <3> HIDE DEF g
    <3>2. SumFunction(g) = SumFunctionOnSet(BothOf, DOMAIN g)
      BY <2>1, <3>1, SumOfValues
    <3> QED BY <3>1, <3>2 DEF g
  <2>3. SumFunction([i \in S |-> Amount[i]]) = SumFunctionOnSet(Amount, S)
    <3> DEFINE g == [i \in S |-> Amount[i]]
    <3>1. DOMAIN g = S /\ \A i \in DOMAIN g : g[i] = Amount[i]
      OBVIOUS
    <3> HIDE DEF g
    <3>2. SumFunction(g) = SumFunctionOnSet(Amount, DOMAIN g)
      BY <2>1, <3>1, SumOfValues
    <3> QED BY <3>1, <3>2 DEF g
  <2>4. SumFunction([i \in S |-> Commission[i]]) = SumFunctionOnSet(Commission, S)
    <3> DEFINE g == [i \in S |-> Commission[i]]
    <3>1. DOMAIN g = S /\ \A i \in DOMAIN g : g[i] = Commission[i]
      OBVIOUS
    <3> HIDE DEF g
    <3>2. SumFunction(g) = SumFunctionOnSet(Commission, DOMAIN g)
      BY <2>1, <3>1, SumOfValues
    <3> QED BY <3>1, <3>2 DEF g
  <2> QED BY <2>2, <2>3, <2>4
<1>2. \A states : Mine(t, states) \in SUBSET Items
  BY MineFinite
<1>3. /\ SumHeld(t, {"held", "settling"}, Both) =
            SumFunction([i \in Mine(t, {"held", "settling"}) |-> Amount[i] + Commission[i]])
      /\ SumHeld(t, {"charged"}, Net) = SumFunction([i \in Mine(t, {"charged"}) |-> Amount[i]])
      /\ SumHeld(t, {"charged"}, Fee) =
            SumFunction([i \in Mine(t, {"charged"}) |-> Commission[i]])
      /\ SumHeld(t, {"refunded"}, Both) =
            SumFunction([i \in Mine(t, {"refunded"}) |-> Amount[i] + Commission[i]])
  BY DEF SumHeld, Mine, Both, Net, Fee
<1> QED BY <1>1, <1>2, <1>3 DEF HeldSum, PaidSum, FeeSum, RefundedSum

\* The books of the property, tenant by tenant.
LEMMA BooksForm == BooksMatchHolds <=> \A t \in Tenants \ raced : Books(t)
BY SumsForm DEF BooksMatchHolds, Books

\* The bounds of the property hold of the current row, since it is one of them.
LEMMA BoundsForm == FormerSound /\ (\A t \in Tenants : Bounded(t)) => TotalsNeverOverstated
BY SumsForm DEF FormerSound, TotalsNeverOverstated, Bounded

\* The items of a batch are the batch's, and no other's.
LEMMA BatchOfItem == \A b \in Batches : \A i \in ItemsOf[b] : i \in Items /\ BatchOf(i) = b
BY DEF BatchOf, ConstantAssumption

\* Nothing is provisioned at the start.
LEMMA InitBooks == WalletInit => \A t \in Tenants : Books(t) /\ Bounded(t)
<1> SUFFICES ASSUME WalletInit, NEW t \in Tenants PROVE Books(t) /\ Bounded(t)
  OBVIOUS
<1>1. /\ Mine(t, {"held", "settling"}) = {} /\ Mine(t, {"charged"}) = {}
      /\ Mine(t, {"refunded"}) = {}
  BY DEF WalletInit, Init, Mine
<1>2. wallet[t] = NewWallet /\ former[t] = {NewWallet} /\ deposited[t] = 0
  BY DEF WalletInit, Init
<1>3. /\ SumFunctionOnSet(BothOf, {}) = 0 /\ SumFunctionOnSet(Amount, {}) = 0
      /\ SumFunctionOnSet(Commission, {}) = 0
  BY SumType, FS_EmptySet
<1>4. HeldSum(t) = 0 /\ PaidSum(t) = 0 /\ FeeSum(t) = 0 /\ RefundedSum(t) = 0
  BY <1>1, <1>3 DEF HeldSum, PaidSum, FeeSum, RefundedSum
<1> QED BY <1>2, <1>4 DEF Books, Bounded, NewWallet, Holdings

\* What a commit adds to the row it read, its items add to the sums: each total of
\* the saved row differs from the copy's by what the sum of its tenant moves by.
Moves(p, u) ==
    /\ Saved(p).reserved - row[p].reserved               = HeldSum(u)' - HeldSum(u)
    /\ Saved(p).totalDebited - row[p].totalDebited       = PaidSum(u)' - PaidSum(u)
    /\ Saved(p).totalCommission - row[p].totalCommission = FeeSum(u)' - FeeSum(u)
    /\ Saved(p).totalRefunded - row[p].totalRefunded     = RefundedSum(u)' - RefundedSum(u)

Stay(u) == UNCHANGED <<HeldSum(u), PaidSum(u), FeeSum(u), RefundedSum(u)>>

\* How the saved row differs from the copy.
LEMMA SavedFields ==
    ASSUME IInv, NEW p \in Txs, CommitRow(p),
           NEW a, a = req[p].amount, NEW c, c = req[p].commission
    PROVE  /\ row[p] \in WalletRow /\ a \in Nat /\ c \in Nat
           /\ req[p].op = "recharge" =>
                 /\ Saved(p).reserved = row[p].reserved
                 /\ Saved(p).totalDebited = row[p].totalDebited
                 /\ Saved(p).totalCommission = row[p].totalCommission
                 /\ Saved(p).totalRefunded = row[p].totalRefunded
           /\ req[p].op = "reserve" =>
                 /\ Saved(p).reserved = row[p].reserved + a
                 /\ Saved(p).totalDebited = row[p].totalDebited
                 /\ Saved(p).totalCommission = row[p].totalCommission
                 /\ Saved(p).totalRefunded = row[p].totalRefunded
           /\ req[p].op = "charge" =>
                 /\ Saved(p).reserved = row[p].reserved - (a + c)
                 /\ Saved(p).totalDebited = row[p].totalDebited + a
                 /\ Saved(p).totalCommission = row[p].totalCommission + c
                 /\ Saved(p).totalRefunded = row[p].totalRefunded
           /\ req[p].op = "refund" =>
                 /\ Saved(p).reserved = row[p].reserved - (a + c)
                 /\ Saved(p).totalDebited = row[p].totalDebited
                 /\ Saved(p).totalCommission = row[p].totalCommission
                 /\ Saved(p).totalRefunded = row[p].totalRefunded + (a + c)
<1> DEFINE w == row[p]  op == req[p].op  new == Saved(p)
<1>1. w \in WalletRow /\ op \in WalletOps /\ a \in Nat /\ c \in Nat
  BY CommitWrites
<1>2. new = PostedRow(op, w, a, c)
  BY DEF Saved
<1> HIDE DEF w, op, new
<1>3. /\ op = "recharge" =>
            /\ new.reserved = w.reserved /\ new.totalDebited = w.totalDebited
            /\ new.totalCommission = w.totalCommission /\ new.totalRefunded = w.totalRefunded
      /\ op = "reserve" =>
            /\ new.reserved = w.reserved + a /\ new.totalDebited = w.totalDebited
            /\ new.totalCommission = w.totalCommission /\ new.totalRefunded = w.totalRefunded
      /\ op = "charge" =>
            /\ new.reserved = w.reserved - (a + c) /\ new.totalDebited = w.totalDebited + a
            /\ new.totalCommission = w.totalCommission + c
            /\ new.totalRefunded = w.totalRefunded
      /\ op = "refund" =>
            /\ new.reserved = w.reserved - (a + c) /\ new.totalDebited = w.totalDebited
            /\ new.totalCommission = w.totalCommission
            /\ new.totalRefunded = w.totalRefunded + (a + c)
  BY <1>1, <1>2, PostedFields
<1> QED BY <1>1, <1>3 DEF w, op, new

\* A recharge touches neither the totals nor the items.
LEMMA RechargeMoves ==
    ASSUME IInv, NEW p \in Txs, CommitRow(p), req[p].op = "recharge", NEW u \in Tenants
    PROVE  Moves(p, u) /\ Stay(u)
<1>1. Stay(u)
  <2>1. hold' = hold
    BY DEF CommitRow
  <2> QED BY <2>1 DEF Stay, HeldSum, PaidSum, FeeSum, RefundedSum, Mine
<1>2. /\ HeldSum(u) \in Nat /\ PaidSum(u) \in Nat /\ FeeSum(u) \in Nat
      /\ RefundedSum(u) \in Nat
  BY SumsNat
<1>3. /\ Saved(p).reserved = row[p].reserved /\ Saved(p).totalDebited = row[p].totalDebited
      /\ Saved(p).totalCommission = row[p].totalCommission
      /\ Saved(p).totalRefunded = row[p].totalRefunded /\ row[p] \in WalletRow
  BY SavedFields
<1> QED BY <1>1, <1>2, <1>3 DEF Moves, Stay, WalletRow

\* A reservation provisions the items of its batch.
LEMMA ReserveMoves ==
    ASSUME IInv, Claims, NEW p \in Txs, CommitRow(p), req[p].op = "reserve", NEW u \in Tenants
    PROVE  IF u = req[p].tenant THEN Moves(p, u) ELSE Stay(u)
<1> DEFINE H == Mine(u, {"held", "settling"})
           C == Mine(u, {"charged"})
           R == Mine(u, {"refunded"})
<1>1. Claim(p)
  BY DEF CommitRow, Claims
<1>2. PICK b \in Batches : b = req[p].on
  BY <1>1 DEF Claim
<1>3. /\ req[p].tenant = TenantOf[b] /\ req[p].amount = Provision[b]
      /\ \A i \in ItemsOf[b] : hold[i] = "absent"
  BY <1>1, <1>2 DEF Claim
<1>4. hold' = [i \in Items |-> IF i \in ItemsOf[b] THEN "held" ELSE hold[i]]
  BY <1>2 DEF CommitRow
<1>5. /\ H' = H \cup (IF u = req[p].tenant THEN ItemsOf[b] ELSE {}) /\ C' = C /\ R' = R
      /\ H \cap ItemsOf[b] = {}
  BY <1>3, <1>4, BatchOfItem DEF Mine
<1>6. PaidSum(u)' = PaidSum(u) /\ FeeSum(u)' = FeeSum(u) /\ RefundedSum(u)' = RefundedSum(u)
  BY <1>5 DEF PaidSum, FeeSum, RefundedSum
<1>7. CASE u # req[p].tenant
  <2>1. H' = H
    BY <1>5, <1>7
  <2> QED BY <1>6, <1>7, <2>1 DEF Stay, HeldSum
<1>8. CASE u = req[p].tenant
  <2>1. SumFunctionOnSet(BothOf, H \cup ItemsOf[b]) =
           SumFunctionOnSet(BothOf, H) + SumFunctionOnSet(BothOf, ItemsOf[b])
    <3>1. /\ ItemsOf[b] \subseteq Items /\ H \subseteq Items
          /\ IsFiniteSet(ItemsOf[b]) /\ IsFiniteSet(H)
          /\ \A i \in H \cup ItemsOf[b] : BothOf[i] \in Int
      BY MineFinite, BatchOfItem
    <3> HIDE DEF H
    <3> QED BY <1>5, <3>1, SumUnion
  <2>2. SumFunctionOnSet(BothOf, ItemsOf[b]) = Provision[b]
    <3> DEFINE g == [i \in ItemsOf[b] |-> Amount[i] + Commission[i]]
    <3>1. DOMAIN g = ItemsOf[b] /\ \A i \in DOMAIN g : g[i] = BothOf[i]
      BY BatchOfItem, MineFinite
    <3>2. Provision[b] = SumFunction(g)
      BY ProvisionAssumption
    <3>3. IsFiniteSet(ItemsOf[b])
      BY MineFinite, BatchOfItem
    <3> HIDE DEF g
    <3> QED BY <3>1, <3>2, <3>3, SumOfValues
  <2>3. HeldSum(u)' = HeldSum(u) + Provision[b]
    BY <1>5, <1>8, <2>1, <2>2 DEF HeldSum
  <2>4. /\ Saved(p).reserved = row[p].reserved + Provision[b]
        /\ Saved(p).totalDebited = row[p].totalDebited
        /\ Saved(p).totalCommission = row[p].totalCommission
        /\ Saved(p).totalRefunded = row[p].totalRefunded
        /\ row[p] \in WalletRow /\ Provision[b] \in Nat
    BY <1>3, SavedFields DEF ConstantAssumption
  <2>5. /\ HeldSum(u) \in Nat /\ PaidSum(u) \in Nat /\ FeeSum(u) \in Nat
        /\ RefundedSum(u) \in Nat
    BY SumsNat
  <2>6. /\ row[p].reserved \in Int /\ row[p].totalDebited \in Int
        /\ row[p].totalCommission \in Int /\ row[p].totalRefunded \in Int
    BY <2>4 DEF WalletRow
  <2> QED BY <1>6, <1>8, <2>3, <2>4, <2>5, <2>6 DEF Moves
<1> QED BY <1>7, <1>8

\* A settlement takes its item out of the blocked sum and into that of its outcome.
LEMMA SettleMoves ==
    ASSUME IInv, Claims, NEW p \in Txs, CommitRow(p), req[p].op \in {"charge", "refund"},
           NEW u \in Tenants
    PROVE  IF u = req[p].tenant THEN Moves(p, u) ELSE Stay(u)
<1> DEFINE H == Mine(u, {"held", "settling"})
           C == Mine(u, {"charged"})
           R == Mine(u, {"refunded"})
<1>0. hold \in [Items -> HoldStates] /\ Claim(p)
  BY DEF CommitRow, Claims, IInv, WalletTypeOK
<1>1. PICK i \in Items : i = req[p].on
  BY <1>0 DEF Claim
<1>2. /\ req[p].tenant = TenantOf[BatchOf(i)] /\ req[p].amount = Amount[i]
      /\ req[p].commission = Commission[i] /\ hold[i] = "settling"
  BY <1>0, <1>1 DEF Claim
<1>3. hold' = [hold EXCEPT ![i] = IF req[p].op = "charge" THEN "charged" ELSE "refunded"]
  BY <1>1 DEF CommitRow
<1>4. CASE u # req[p].tenant
  <2>1. H' = H /\ C' = C /\ R' = R
    BY <1>0, <1>2, <1>3, <1>4 DEF Mine
  <2> QED BY <1>4, <2>1 DEF Stay, HeldSum, PaidSum, FeeSum, RefundedSum
<1>5. CASE u = req[p].tenant
  <2>1. /\ H' = H \ {i} /\ i \in H /\ i \notin C /\ i \notin R
        /\ C' = IF req[p].op = "charge" THEN C \cup {i} ELSE C
        /\ R' = IF req[p].op = "charge" THEN R ELSE R \cup {i}
    BY <1>0, <1>2, <1>3, <1>5 DEF Mine
  <2>2. /\ IsFiniteSet(H) /\ IsFiniteSet(C) /\ IsFiniteSet(R)
        /\ H \subseteq Items /\ C \subseteq Items /\ R \subseteq Items
        /\ \A j \in Items : BothOf[j] \in Int /\ Amount[j] \in Int /\ Commission[j] \in Int
        /\ BothOf[i] = Amount[i] + Commission[i]
    BY MineFinite
  <2> HIDE DEF H, C, R
  <2>3. SumFunctionOnSet(BothOf, H) = BothOf[i] + SumFunctionOnSet(BothOf, H \ {i})
    BY <2>1, <2>2, SumRemove
  <2>4. /\ SumFunctionOnSet(Amount, C \cup {i}) = Amount[i] + SumFunctionOnSet(Amount, C)
        /\ SumFunctionOnSet(Commission, C \cup {i}) =
              Commission[i] + SumFunctionOnSet(Commission, C)
    BY <2>1, <2>2, SumInsert
  <2>5. SumFunctionOnSet(BothOf, R \cup {i}) = BothOf[i] + SumFunctionOnSet(BothOf, R)
    BY <2>1, <2>2, SumInsert
  <2>6. /\ HeldSum(u) = BothOf[i] + HeldSum(u)'
        /\ PaidSum(u)' = PaidSum(u) + (IF req[p].op = "charge" THEN Amount[i] ELSE 0)
        /\ FeeSum(u)' = FeeSum(u) + (IF req[p].op = "charge" THEN Commission[i] ELSE 0)
        /\ RefundedSum(u)' = RefundedSum(u) + (IF req[p].op = "charge" THEN 0 ELSE BothOf[i])
    <3>1. /\ HeldSum(u) = SumFunctionOnSet(BothOf, H) /\ PaidSum(u) = SumFunctionOnSet(Amount, C)
          /\ FeeSum(u) = SumFunctionOnSet(Commission, C)
          /\ RefundedSum(u) = SumFunctionOnSet(BothOf, R)
      BY DEF HeldSum, PaidSum, FeeSum, RefundedSum, H, C, R
    <3>2. /\ HeldSum(u)' = SumFunctionOnSet(BothOf, H')
          /\ PaidSum(u)' = SumFunctionOnSet(Amount, C')
          /\ FeeSum(u)' = SumFunctionOnSet(Commission, C')
          /\ RefundedSum(u)' = SumFunctionOnSet(BothOf, R')
      BY DEF HeldSum, PaidSum, FeeSum, RefundedSum, H, C, R
    <3>3. /\ PaidSum(u) \in Nat /\ FeeSum(u) \in Nat /\ RefundedSum(u) \in Nat
      BY SumsNat
    <3> QED BY <2>1, <2>2, <2>3, <2>4, <2>5, <3>1, <3>2, <3>3
  <2>7. /\ Saved(p).reserved = row[p].reserved - BothOf[i]
        /\ Saved(p).totalDebited =
              row[p].totalDebited + (IF req[p].op = "charge" THEN Amount[i] ELSE 0)
        /\ Saved(p).totalCommission =
              row[p].totalCommission + (IF req[p].op = "charge" THEN Commission[i] ELSE 0)
        /\ Saved(p).totalRefunded =
              row[p].totalRefunded + (IF req[p].op = "charge" THEN 0 ELSE BothOf[i])
        /\ row[p] \in WalletRow
    <3>1. row[p] \in WalletRow
      BY SavedFields
    <3>2. CASE req[p].op = "charge"
      <4>1. /\ Saved(p).reserved = row[p].reserved - (Amount[i] + Commission[i])
            /\ Saved(p).totalDebited = row[p].totalDebited + Amount[i]
            /\ Saved(p).totalCommission = row[p].totalCommission + Commission[i]
            /\ Saved(p).totalRefunded = row[p].totalRefunded
        BY <1>2, <3>2, SavedFields
      <4> QED BY <2>2, <3>1, <3>2, <4>1 DEF WalletRow
    <3>3. CASE req[p].op = "refund"
      <4>1. /\ Saved(p).reserved = row[p].reserved - (Amount[i] + Commission[i])
            /\ Saved(p).totalDebited = row[p].totalDebited
            /\ Saved(p).totalCommission = row[p].totalCommission
            /\ Saved(p).totalRefunded = row[p].totalRefunded + (Amount[i] + Commission[i])
        BY <1>2, <3>3, SavedFields
      <4> QED BY <2>2, <3>1, <3>3, <4>1 DEF WalletRow
    <3> QED BY <3>2, <3>3
  <2>8. /\ HeldSum(u) \in Nat /\ PaidSum(u) \in Nat /\ FeeSum(u) \in Nat
        /\ RefundedSum(u) \in Nat
    BY SumsNat
  <2>9. /\ row[p].reserved \in Int /\ row[p].totalDebited \in Int
        /\ row[p].totalCommission \in Int /\ row[p].totalRefunded \in Int
    BY <2>7 DEF WalletRow
  <2>10. HeldSum(u)' = HeldSum(u) - BothOf[i] /\ BothOf[i] \in Int
    <3>1. HeldSum(u)' \in Int
      <4>1. H' \subseteq Items /\ IsFiniteSet(H')
        BY <2>1, <2>2, MineFinite
      <4>2. SumFunctionOnSet(BothOf, H') \in Int
        BY <2>2, <4>1, SumType
      <4> QED BY <4>2 DEF HeldSum, H
    <3> QED BY <2>2, <2>6, <2>8, <3>1
  <2> QED BY <1>5, <2>2, <2>6, <2>7, <2>8, <2>9, <2>10 DEF Moves
<1> QED BY <1>4, <1>5

\* Each operation moves its tenant's sums as it moves the row, and no other's.
LEMMA CommitMoves ==
    ASSUME IInv, Claims, NEW p \in Txs, CommitRow(p), NEW u \in Tenants
    PROVE  IF u = req[p].tenant THEN Moves(p, u) ELSE Stay(u)
<1>1. req[p].op \in WalletOps
  BY CommitWrites
<1> QED BY <1>1, RechargeMoves, ReserveMoves, SettleMoves DEF WalletOps

\* No settlement is ever taken out of the historical sums.
LEMMA SumsGrow ==
    ASSUME IInv, Claims, NEW p \in Txs, CommitRow(p), NEW t \in Tenants, Moves(p, t)
    PROVE  /\ PaidSum(t)' >= PaidSum(t) /\ FeeSum(t)' >= FeeSum(t)
           /\ RefundedSum(t)' >= RefundedSum(t)
<1>1. req[p].op \in WalletOps /\ row[p] \in WalletRow
  BY CommitWrites
<1>2. /\ PaidSum(t) \in Nat /\ FeeSum(t) \in Nat /\ RefundedSum(t) \in Nat
      /\ PaidSum(t)' \in Nat /\ FeeSum(t)' \in Nat /\ RefundedSum(t)' \in Nat
  BY SumsNat
<1>3. /\ Saved(p).totalDebited - row[p].totalDebited >= 0
      /\ Saved(p).totalCommission - row[p].totalCommission >= 0
      /\ Saved(p).totalRefunded - row[p].totalRefunded >= 0
  BY <1>1, SavedFields DEF WalletOps, WalletRow
<1> QED BY <1>2, <1>3 DEF Moves

\* A commit keeps the bounds: whatever row it starts from, a total grows by no more
\* than the items it settles.
LEMMA CommitBounds ==
    ASSUME IInv, Claims, NEW p \in Txs, CommitRow(p), NEW u \in Tenants, Bounded(u)
    PROVE  Bounded(u)'
<1> DEFINE t == req[p].tenant
<1>1. /\ t \in Tenants /\ row[p] \in former[t] /\ row[p] \in WalletRow /\ Saved(p) \in WalletRow
      /\ former' = [former EXCEPT ![t] = @ \cup {Saved(p)}]
      /\ former \in [Tenants -> SUBSET WalletRow]
  BY CommitWrites DEF IInv, WalletTypeOK
<1>2. CASE u # t
  <2>1. Stay(u) /\ former'[u] = former[u]
    BY <1>1, <1>2, CommitMoves
  <2> QED BY <2>1 DEF Stay, Bounded
<1>3. CASE u = t
  <2>1. Moves(p, u) /\ former'[u] = former[u] \cup {Saved(p)}
    BY <1>1, <1>3, CommitMoves
  <2>2. /\ PaidSum(u)' >= PaidSum(u) /\ FeeSum(u)' >= FeeSum(u)
        /\ RefundedSum(u)' >= RefundedSum(u)
    BY <2>1, SumsGrow
  <2>3. /\ PaidSum(u) \in Nat /\ FeeSum(u) \in Nat /\ RefundedSum(u) \in Nat
        /\ PaidSum(u)' \in Nat /\ FeeSum(u)' \in Nat /\ RefundedSum(u)' \in Nat
    BY SumsNat
  <2>4. \A w \in WalletRow : /\ w.totalDebited \in Int /\ w.totalCommission \in Int
                             /\ w.totalRefunded \in Int
    BY DEF WalletRow
  <2>5. former[u] \subseteq WalletRow /\ row[p] \in former[u]
    BY <1>1, <1>3
  <2> HIDE DEF t
  <2>6. ASSUME NEW w \in former[u]
        PROVE  /\ w.totalDebited <= PaidSum(u)' /\ w.totalCommission <= FeeSum(u)'
               /\ w.totalRefunded <= RefundedSum(u)'
    <3>1. /\ w.totalDebited <= PaidSum(u) /\ w.totalCommission <= FeeSum(u)
          /\ w.totalRefunded <= RefundedSum(u)
      BY DEF Bounded
    <3> QED BY <2>2, <2>3, <2>4, <2>5, <3>1
  <2>7. /\ Saved(p).totalDebited <= PaidSum(u)' /\ Saved(p).totalCommission <= FeeSum(u)'
        /\ Saved(p).totalRefunded <= RefundedSum(u)'
    <3>1. /\ row[p].totalDebited <= PaidSum(u) /\ row[p].totalCommission <= FeeSum(u)
          /\ row[p].totalRefunded <= RefundedSum(u)
      BY <2>5 DEF Bounded
    <3> QED BY <1>1, <2>1, <2>3, <2>4, <3>1 DEF Moves
  <2> QED BY <2>1, <2>6, <2>7 DEF Bounded
<1> QED BY <1>2, <1>3

\* As long as the operations of a tenant take turns, a commit keeps its books: it
\* starts from the current row.
LEMMA CommitBooks ==
    ASSUME IInv, Claims, NEW p \in Txs, CommitRow(p), NEW u \in Tenants \ raced, Books(u)
    PROVE  Books(u)'
<1> DEFINE t == req[p].tenant
<1>1. /\ t \in Tenants /\ row[p] \in WalletRow /\ Saved(p) \in WalletRow
      /\ t \notin raced => row[p] = wallet[t]
      /\ wallet' = [wallet EXCEPT ![t] = Saved(p)]
      /\ wallet \in [Tenants -> WalletRow] /\ deposited \in [Tenants -> Nat]
      /\ req[p].amount \in Nat
  BY CommitWrites DEF IInv, WalletTypeOK
<1>2. deposited' = IF req[p].op = "recharge"
                     THEN [deposited EXCEPT ![t] = @ + req[p].amount] ELSE deposited
  BY DEF CommitRow
<1>3. CASE u # t
  <2>1. Stay(u) /\ wallet'[u] = wallet[u] /\ deposited'[u] = deposited[u]
    BY <1>1, <1>2, <1>3, CommitMoves
  <2> QED BY <2>1 DEF Stay, Books, Holdings
<1>4. CASE u = t
  <2>1. Moves(p, u) /\ wallet'[u] = Saved(p) /\ row[p] = wallet[u]
    BY <1>1, <1>4, CommitMoves
  <2>2. Holdings(Saved(p)) =
           Holdings(row[p]) + (IF req[p].op = "recharge" THEN req[p].amount ELSE 0)
    <3>1. req[p].op \in WalletOps /\ req[p].amount \in Nat /\ req[p].commission \in Nat
          /\ row[p] \in WalletRow
      BY CommitWrites
    <3> QED BY <3>1, HoldingsPosted DEF Saved
  <2>3. Holdings(wallet'[u]) = deposited'[u]
    <3>1. Holdings(wallet[u]) = deposited[u] /\ deposited[u] \in Nat
      BY <1>1 DEF Books
    <3>2. deposited'[u] = IF req[p].op = "recharge" THEN deposited[u] + req[p].amount
                          ELSE deposited[u]
      BY <1>1, <1>2, <1>4
    <3> QED BY <1>1, <2>1, <2>2, <3>1, <3>2
  <2>4. /\ HeldSum(u)' \in Nat /\ PaidSum(u)' \in Nat /\ FeeSum(u)' \in Nat
        /\ RefundedSum(u)' \in Nat
    BY SumsNat
  <2>5. /\ wallet[u].reserved = HeldSum(u) /\ wallet[u].totalDebited = PaidSum(u)
        /\ wallet[u].totalCommission = FeeSum(u) /\ wallet[u].totalRefunded = RefundedSum(u)
    BY DEF Books
  <2>6. \A w \in WalletRow : /\ w.totalDebited \in Int /\ w.totalCommission \in Int
                             /\ w.totalRefunded \in Int /\ w.reserved \in Int
    BY DEF WalletRow
  <2>7. /\ Saved(p).reserved = HeldSum(u)' /\ Saved(p).totalDebited = PaidSum(u)'
        /\ Saved(p).totalCommission = FeeSum(u)' /\ Saved(p).totalRefunded = RefundedSum(u)'
    BY <1>1, <2>1, <2>4, <2>5, <2>6 DEF Moves
  <2>8. Books(u)' <=> /\ Holdings(wallet'[u]) = deposited'[u]
                      /\ wallet'[u].reserved = HeldSum(u)'
                      /\ wallet'[u].totalDebited = PaidSum(u)'
                      /\ wallet'[u].totalCommission = FeeSum(u)'
                      /\ wallet'[u].totalRefunded = RefundedSum(u)'
    BY DEF Books, Holdings
  <2> QED BY <2>1, <2>3, <2>7, <2>8
<1> QED BY <1>3, <1>4

\* Between commits the totals and the items stand still, but for an item that a
\* worker begins to settle.
LEMMA SumsStand ==
    ASSUME IInv, [WalletNext]_vars, \A p \in Txs : ~CommitRow(p)
    PROVE  /\ UNCHANGED <<wallet, former, deposited>> /\ raced \subseteq raced'
           /\ \A u \in Tenants : Stay(u)
<1>0. hold \in [Items -> HoldStates]
  BY DEF IInv, WalletTypeOK
<1>1. CASE UNCHANGED hold
  <2>1. \A u \in Tenants : Stay(u)
    BY <1>1 DEF Stay, HeldSum, PaidSum, FeeSum, RefundedSum, Mine
  <2>2. UNCHANGED <<wallet, former, deposited>> /\ raced \subseteq raced'
    BY DEF WalletNext, vars, BeginRecharge, BeginReserve, BeginSettle, Begin, LoadRow,
           Rollback, End
  <2> QED BY <2>1, <2>2
<1>2. ASSUME NEW p \in Txs, NEW i \in Items, NEW op \in {"charge", "refund"},
             BeginSettle(p, i, op)
      PROVE  /\ UNCHANGED <<wallet, former, deposited>> /\ raced \subseteq raced'
             /\ \A u \in Tenants : Stay(u)
  <2>1. hold[i] = "held" /\ hold' = [hold EXCEPT ![i] = "settling"]
        /\ UNCHANGED <<wallet, former, deposited, raced>>
    BY <1>2 DEF BeginSettle, Begin
  <2>2. \A u \in Tenants : /\ Mine(u, {"held", "settling"})' = Mine(u, {"held", "settling"})
                           /\ Mine(u, {"charged"})' = Mine(u, {"charged"})
                           /\ Mine(u, {"refunded"})' = Mine(u, {"refunded"})
    BY <1>0, <2>1 DEF Mine
  <2> QED BY <2>1, <2>2 DEF Stay, HeldSum, PaidSum, FeeSum, RefundedSum
<1>3. UNCHANGED hold \/ \E p \in Txs, i \in Items, op \in {"charge", "refund"} :
                           BeginSettle(p, i, op)
  BY DEF WalletNext, vars, BeginRecharge, BeginReserve, LoadRow, Rollback
<1> QED BY <1>1, <1>2, <1>3

\* Every step keeps the bounds, and the books of the tenants whose operations have
\* taken turns.
LEMMA BooksStep ==
    ASSUME IInv, Claims, [WalletNext]_vars, NEW u \in Tenants
    PROVE  /\ Bounded(u) => Bounded(u)'
           /\ u \notin raced' /\ (u \notin raced => Books(u)) => Books(u)'
<1>1. CASE \A p \in Txs : ~CommitRow(p)
  <2>1. UNCHANGED <<wallet, former, deposited>> /\ raced \subseteq raced' /\ Stay(u)
    BY <1>1, SumsStand
  <2> QED BY <2>1 DEF Stay, Books, Bounded, Holdings
<1>2. ASSUME NEW p \in Txs, CommitRow(p)
      PROVE  /\ Bounded(u) => Bounded(u)'
             /\ u \notin raced' /\ (u \notin raced => Books(u)) => Books(u)'
  <2>1. raced' = raced
    BY <1>2 DEF CommitRow, End
  <2> QED BY <1>2, <2>1, CommitBounds, CommitBooks
<1> QED BY <1>1, <1>2

\* Whatever overlaps, the historical totals count every settlement at most once
\* and nothing else (wallet.go:146-149, 168-173).
THEOREM TotalsNeverOverstatedHolds == WalletSpec => []TotalsNeverOverstated
<1> DEFINE AllBounded == \A t \in Tenants : Bounded(t)
<1>1. WalletInit => AllBounded
  BY InitBooks
<1>2. IInv /\ Claims /\ AllBounded /\ [WalletNext]_vars => AllBounded'
  BY BooksStep
<1>3. IInv /\ AllBounded => TotalsNeverOverstated
  BY BoundsForm DEF IInv
<1> HIDE DEF AllBounded
<1> QED BY IInvHolds, ClaimsHold, <1>1, <1>2, <1>3, PTL DEF WalletSpec

\* Whatever the tenants, batches and amounts: of a tenant whose operations took
\* turns, every franc paid in is accounted for, and the blocked balance and the
\* totals are the sums of its items (wallet.go:44-192).
THEOREM BooksAlwaysMatch == WalletSpec => []BooksMatchHolds
<1>1. IInv /\ Claims /\ BooksMatchHolds /\ [WalletNext]_vars => BooksMatchHolds'
  <2>1. BooksMatchHolds' <=> (\A t \in Tenants \ raced : Books(t))'
    BY BooksForm, PTL
  <2> SUFFICES ASSUME IInv, Claims, BooksMatchHolds, [WalletNext]_vars
               PROVE  (\A t \in Tenants \ raced : Books(t))'
    BY <2>1
  <2>2. \A t \in Tenants \ raced : Books(t)
    BY BooksForm
  <2>3. \A t \in Tenants : t \notin raced' => Books(t)'
    BY <2>2, BooksStep
  <2> QED BY <2>3
<1>2. WalletInit => BooksMatchHolds
  BY InitBooks, BooksForm
<1> QED BY IInvHolds, ClaimsHold, <1>1, <1>2, PTL DEF WalletSpec

-----------------------------------------------------------------------------
(* The audit rows explain the balance.                                     *)

\* An operation writes one audit row, between the balance it read and the one it
\* saves, or none and saves the balance it read.
LEMMA AuditRowsExplain ==
    ASSUME NEW op \in WalletOps, NEW w \in WalletRow, NEW a \in Nat, NEW c \in Nat,
           NEW t \in Tenants, NEW ref \in Nat
    PROVE  \/ /\ AuditRows(op, w, a, c, t, ref) = << >>
              /\ PostedRow(op, w, a, c).available = w.available
           \/ \E e \in AuditRow :
                 /\ AuditRows(op, w, a, c, t, ref) = <<e>>
                 /\ e.tenant = t /\ e.before = w.available
                 /\ e.after = PostedRow(op, w, a, c).available
<1> DEFINE E(delta, after) == [tenant |-> t, type |-> op, amount |-> delta,
                               before |-> w.available, after |-> after, ref |-> ref]
<1>1. w.available \in Int
  BY DEF WalletRow
<1>2. ASSUME NEW delta \in Int, NEW after \in Int
      PROVE  /\ E(delta, after) \in AuditRow /\ E(delta, after).tenant = t
             /\ E(delta, after).before = w.available /\ E(delta, after).after = after
  BY <1>1 DEF AuditRow
<1>3. CASE op = "recharge"
  <2>1. PostedRow(op, w, a, c) = MovedRow(w, a, 0, 0, 0, 0)
    BY <1>3 DEF PostedRow, RechargedRow
  <2>2. AuditRows(op, w, a, c, t, ref) = <<E(a, w.available + a)>>
    BY <1>3 DEF AuditRows, AuditFrom
  <2> HIDE DEF E
  <2> QED BY <1>1, <1>2, <2>1, <2>2, MovedRowFields
<1>4. CASE op = "reserve"
  <2>1. PostedRow(op, w, a, c) = MovedRow(w, -a, a, 0, 0, 0)
    BY <1>4 DEF PostedRow, ReservedRow
  <2>2. AuditRows(op, w, a, c, t, ref) = <<E(-a, w.available - a)>>
    BY <1>4 DEF AuditRows, AuditFrom
  <2>3. MovedRow(w, -a, a, 0, 0, 0).available = w.available - a
    BY MovedRowFields, <1>1
  <2> HIDE DEF E
  <2> QED BY <1>1, <1>2, <2>1, <2>2, <2>3
<1>5. CASE op = "charge"
  <2>1. PostedRow(op, w, a, c) = MovedRow(w, 0, -(a + c), a, c, 0)
    BY <1>5 DEF PostedRow, ChargedRow
  <2>2. AuditRows(op, w, a, c, t, ref) \in {<<E(-c, w.available)>>, << >>}
    BY <1>5 DEF AuditRows, AuditFrom
  <2>3. MovedRow(w, 0, -(a + c), a, c, 0).available = w.available
    BY MovedRowFields, <1>1
  <2> HIDE DEF E
  <2> QED BY <1>1, <1>2, <2>1, <2>2, <2>3
<1>6. CASE op = "refund"
  <2>1. PostedRow(op, w, a, c) = MovedRow(w, a + c, -(a + c), 0, 0, a + c)
    BY <1>6 DEF PostedRow, RefundedRow
  <2>2. AuditRows(op, w, a, c, t, ref) = <<E(a + c, w.available + (a + c))>>
    BY <1>6 DEF AuditRows, AuditFrom
  <2>3. MovedRow(w, a + c, -(a + c), 0, 0, a + c).available = w.available + (a + c)
    BY MovedRowFields
  <2> HIDE DEF E
  <2> QED BY <1>1, <1>2, <2>1, <2>2, <2>3
<1> QED BY <1>3, <1>4, <1>5, <1>6 DEF WalletOps

\* The chain of one tenant: rows of a ledger l up to a balance b.
Explains(l, t, b) ==
    LET now       == Len(l) + 1
        Own(k)    == k \in {0, now} \/ l[k].tenant = t
        After(k)  == IF k = 0 THEN 0 ELSE l[k].after
        Before(k) == IF k = now THEN b ELSE l[k].before
    IN  \A k \in 1..now : \A j \in 0..(k - 1) :
           Own(j) /\ Own(k) /\ (\A m \in (j + 1)..(k - 1) : ~Own(m))
              => Before(k) = After(j)

\* The same, with the two ends of the n rows told apart.
Chain(l, t, b, n) ==
    \A k \in 1..(n + 1) : \A j \in 0..(k - 1) :
        /\ j = 0 \/ l[j].tenant = t
        /\ k = n + 1 \/ l[k].tenant = t
        /\ \A m \in (j + 1)..(k - 1) : l[m].tenant # t
        => (IF k = n + 1 THEN b ELSE l[k].before) = (IF j = 0 THEN 0 ELSE l[j].after)

\* Both say the same of a sequence.
LEMMA ExplainsForm ==
    ASSUME NEW l \in Seq(AuditRow), NEW t \in Tenants, NEW b, NEW n \in Nat, n = Len(l)
    PROVE  Explains(l, t, b) <=> Chain(l, t, b, n)
<1>1. ASSUME NEW k \in 1..(n + 1), NEW j \in 0..(k - 1)
      PROVE  /\ j \in {0, n + 1} <=> j = 0
             /\ k \in {0, n + 1} <=> k = n + 1
             /\ \A m \in (j + 1)..(k - 1) : m # 0 /\ m # n + 1
  <2>1. j \in {0, n + 1} <=> j = 0
    OBVIOUS
  <2>2. k \in {0, n + 1} <=> k = n + 1
    OBVIOUS
  <2>3. \A m \in (j + 1)..(k - 1) : m # 0 /\ m # n + 1
    OBVIOUS
  <2> QED BY <2>1, <2>2, <2>3
<1> DEFINE now == n + 1
           Own(k) == k \in {0, now} \/ l[k].tenant = t
           After(k) == IF k = 0 THEN 0 ELSE l[k].after
           Before(k) == IF k = now THEN b ELSE l[k].before
           Left(k, j) == Own(j) /\ Own(k) /\ (\A m \in (j + 1)..(k - 1) : ~Own(m))
                            => Before(k) = After(j)
           Right(k, j) ==
              /\ j = 0 \/ l[j].tenant = t
              /\ k = now \/ l[k].tenant = t
              /\ \A m \in (j + 1)..(k - 1) : l[m].tenant # t
              => (IF k = now THEN b ELSE l[k].before) = (IF j = 0 THEN 0 ELSE l[j].after)
<1>2. ASSUME NEW k \in 1..now, NEW j \in 0..(k - 1)
      PROVE  Left(k, j) <=> Right(k, j)
  <2>1. /\ Own(j) <=> (j = 0 \/ l[j].tenant = t)
        /\ Own(k) <=> (k = now \/ l[k].tenant = t)
    BY <1>1
  <2>2. \A m \in (j + 1)..(k - 1) : Own(m) <=> l[m].tenant = t
    BY <1>1
  <2> HIDE DEF Own
  <2> QED BY <2>1, <2>2
<1>3. Explains(l, t, b) <=> \A k \in 1..now : \A j \in 0..(k - 1) : Left(k, j)
  BY DEF Explains
<1>4. Chain(l, t, b, n) <=> \A k \in 1..now : \A j \in 0..(k - 1) : Right(k, j)
  BY DEF Chain
<1> HIDE DEF now, Left, Right
<1> QED BY <1>2, <1>3, <1>4

\* A row of the tenant that starts at its balance moves the end of its chain, and
\* a row of another tenant leaves it.
LEMMA ChainLonger ==
    ASSUME NEW l \in Seq(AuditRow), NEW t \in Tenants, NEW b \in Int, NEW e \in AuditRow,
           e.tenant = t => e.before = b, Explains(l, t, b)
    PROVE  Explains(l \o <<e>>, t, IF e.tenant = t THEN e.after ELSE b)
<1> DEFINE n  == Len(l)
           l2 == l \o <<e>>
           b2 == IF e.tenant = t THEN e.after ELSE b
<1>1. /\ n \in Nat /\ n = Len(l) /\ l2 \in Seq(AuditRow) /\ Len(l2) = n + 1
      /\ l2[n + 1] = e /\ \A k \in 1..n : l2[k] = l[k]
  BY LenProperties, ConcatProperties
<1> HIDE DEF n, l2
<1>2. Chain(l, t, b, n)
  BY <1>1, ExplainsForm
<1>3. Chain(l2, t, b2, n + 1)
  <2> SUFFICES ASSUME NEW k \in 1..(n + 2), NEW j \in 0..(k - 1),
                      j = 0 \/ l2[j].tenant = t, k = n + 2 \/ l2[k].tenant = t,
                      \A m \in (j + 1)..(k - 1) : l2[m].tenant # t
               PROVE  (IF k = n + 2 THEN b2 ELSE l2[k].before)
                        = (IF j = 0 THEN 0 ELSE l2[j].after)
    <3>1. (n + 1) + 1 = n + 2
      BY <1>1
    <3> QED BY <3>1 DEF Chain
  <2>1. CASE j = n + 1
    <3>1. k = n + 2 /\ e.tenant = t
      BY <1>1, <2>1
    <3> QED BY <1>1, <2>1, <3>1
  <2>2. CASE j # n + 1
    <3>1. j \in 0..n /\ (k = n + 2 => n + 1 \in (j + 1)..(k - 1))
      BY <1>1, <2>2
    <3>2. k = n + 2 => e.tenant # t
      BY <1>1, <3>1
    <3> DEFINE k1 == IF k = n + 2 THEN n + 1 ELSE k
    <3>3. k1 \in 1..(n + 1) /\ j \in 0..(k1 - 1)
      BY <1>1, <3>1
    <3>4. j = 0 \/ l[j].tenant = t
      BY <1>1, <3>1
    <3>5. k1 = n + 1 \/ l[k1].tenant = t
      BY <1>1
    <3>6. \A m \in (j + 1)..(k1 - 1) : l[m].tenant # t
      BY <1>1, <3>1
    <3>7. (IF k1 = n + 1 THEN b ELSE l[k1].before) = (IF j = 0 THEN 0 ELSE l[j].after)
      <4> HIDE DEF k1
      <4> QED BY <1>2, <3>3, <3>4, <3>5, <3>6 DEF Chain
    <3>8. j # 0 => l2[j] = l[j]
      BY <1>1, <3>1
    <3>9. (IF k = n + 2 THEN b2 ELSE l2[k].before) = (IF k1 = n + 1 THEN b ELSE l[k1].before)
      <4>1. CASE k = n + 2
        BY <1>1, <3>2, <4>1
      <4>2. CASE k = n + 1
        <5>1. l2[k] = e /\ e.tenant = t /\ k1 = n + 1 /\ k # n + 2
          BY <1>1, <4>2
        <5> QED BY <5>1
      <4>3. CASE k \in 1..n
        <5>1. l2[k] = l[k] /\ k1 = k /\ k # n + 1 /\ k # n + 2
          BY <1>1, <4>3
        <5> QED BY <5>1
      <4> QED BY <1>1, <4>1, <4>2, <4>3
    <3> QED BY <3>7, <3>8, <3>9
  <2> QED BY <2>1, <2>2
<1>4. Explains(l2, t, b2)
  BY <1>1, <1>3, ExplainsForm
<1> QED BY <1>4 DEF l2

\* What a commit does to the audit rows and the balance of its tenant: one row that
\* begins at the balance of the copy and ends at the one saved, or none and that
\* balance again.
LEMMA CommitAudits ==
    ASSUME IInv, NEW p \in Txs, CommitRow(p)
    PROVE  \/ Audited(p) = << >> /\ Saved(p).available = row[p].available
           \/ \E e \in AuditRow :
                 /\ Audited(p) = <<e>> /\ e.tenant = req[p].tenant
                 /\ e.before = row[p].available /\ e.after = Saved(p).available
<1>1. /\ req[p].op \in WalletOps /\ row[p] \in WalletRow /\ req[p].amount \in Nat
      /\ req[p].commission \in Nat /\ req[p].tenant \in Tenants /\ req[p].ref \in Nat
  BY CommitWrites
<1> QED BY <1>1, AuditRowsExplain DEF Audited, Saved

\* Only a commit moves a balance or writes an audit row.
LEMMA OnlyCommitsWrite ==
    ASSUME [WalletNext]_vars, \A p \in Txs : ~CommitRow(p)
    PROVE  UNCHANGED <<wallet, ledger, former>> /\ raced \subseteq raced'
BY DEF WalletNext, vars, BeginRecharge, BeginReserve, BeginSettle, Begin, LoadRow,
       Rollback, End

\* Every step keeps the chains of the tenants whose operations have taken turns.
LEMMA LedgerStep ==
    ASSUME IInv, [WalletNext]_vars, NEW u \in Tenants, u \notin raced',
           u \notin raced => Explains(ledger, u, wallet[u].available)
    PROVE  Explains(ledger', u, wallet'[u].available)
<1>1. CASE \A p \in Txs : ~CommitRow(p)
  BY <1>1, OnlyCommitsWrite
<1>2. ASSUME NEW p \in Txs, CommitRow(p) PROVE Explains(ledger', u, wallet'[u].available)
  <2> DEFINE t == req[p].tenant
             new == Saved(p)
  <2>0. raced' = raced
    BY <1>2 DEF CommitRow, End
  <2>1. Explains(ledger, u, wallet[u].available) /\ u \notin raced
    BY <2>0
  <2>2. /\ t \in Tenants /\ ledger \in Seq(AuditRow) /\ wallet[u].available \in Int
        /\ u = t => row[p] = wallet[u]
        /\ wallet \in [Tenants -> WalletRow]
        /\ wallet' = [wallet EXCEPT ![t] = new] /\ ledger' = ledger \o Audited(p)
    <3>1. /\ t \in Tenants /\ (t \notin raced => row[p] = wallet[t])
          /\ wallet' = [wallet EXCEPT ![t] = new] /\ ledger' = ledger \o Audited(p)
      BY <1>2, CommitWrites
    <3>2. ledger \in Seq(AuditRow) /\ wallet \in [Tenants -> WalletRow]
      BY DEF IInv, WalletTypeOK
    <3>3. wallet[u].available \in Int
      BY <3>2 DEF WalletRow
    <3> HIDE DEF t, new
    <3> QED BY <2>1, <3>1, <3>2, <3>3
  <2>3. wallet'[u] = IF u = t THEN new ELSE wallet[u]
    BY <2>2
  <2>4. CASE Audited(p) = << >> /\ Saved(p).available = row[p].available
    <3>1. ledger' = ledger
      BY <2>2, <2>4, ConcatEmptySeq
    <3>2. wallet'[u].available = wallet[u].available
      BY <2>2, <2>3, <2>4
    <3> QED BY <2>1, <3>1, <3>2
  <2>5. ASSUME NEW e \in AuditRow, Audited(p) = <<e>>, e.tenant = t,
               e.before = row[p].available, e.after = new.available
        PROVE  Explains(ledger', u, wallet'[u].available)
    <3> HIDE DEF t, new
    <3>1. Explains(ledger \o <<e>>, u, IF e.tenant = u THEN e.after ELSE wallet[u].available)
      BY <2>1, <2>2, <2>5, ChainLonger
    <3>2. wallet'[u].available = IF e.tenant = u THEN e.after ELSE wallet[u].available
      BY <2>3, <2>5
    <3> QED BY <2>2, <2>5, <3>1, <3>2
  <2> QED BY <1>2, <2>4, <2>5, CommitAudits
<1> QED BY <1>1, <1>2

\* The property, tenant by tenant.
LEMMA LedgerForm ==
    LedgerExplainsBalance
      <=> \A t \in Tenants \ raced : Explains(ledger, t, wallet[t].available)
BY DEF LedgerExplainsBalance, Explains

\* However the operations of the other tenants interleave, the audit rows of one
\* whose own took turns follow each other up to its balance (wallet.go:76-188).
THEOREM LedgerAlwaysExplains == WalletSpec => []LedgerExplainsBalance
<1>1. IInv /\ LedgerExplainsBalance /\ [WalletNext]_vars => LedgerExplainsBalance'
  <2> SUFFICES ASSUME IInv, LedgerExplainsBalance, [WalletNext]_vars
               PROVE  LedgerExplainsBalance'
    OBVIOUS
  <2>1. \A t \in Tenants \ raced : Explains(ledger, t, wallet[t].available)
    BY LedgerForm
  <2>2. \A t \in Tenants : t \notin raced' => Explains(ledger', t, wallet'[t].available)
    BY <2>1, LedgerStep
  <2> QED BY <2>2 DEF LedgerExplainsBalance, Explains
<1>2. WalletInit => LedgerExplainsBalance
  BY DEF WalletInit, Init, LedgerExplainsBalance, NewWallet
<1> QED BY IInvHolds, <1>1, <1>2, PTL DEF WalletSpec

-----------------------------------------------------------------------------
(* The audit trail has no gap, whatever overlaps.                          *)

\* The balances at which the rows of a tenant before the n-th end.
EndsOf(l, t, n) ==
    {0} \cup {l[j].after : j \in {k \in 1..(n - 1) : l[k].tenant = t}}

NoGap ==
    /\ \A k \in 1..Len(ledger) :
          ledger[k].before \in EndsOf(ledger, ledger[k].tenant, k)
    /\ \A t \in Tenants : \A w \in former[t] :
          w.available \in EndsOf(ledger, t, Len(ledger) + 1)

\* It is said of every former row, since any of them may be continued.
LEMMA NoGapForm == IInv /\ NoGap => TrailHasNoGap
<1> SUFFICES ASSUME IInv, NoGap PROVE TrailHasNoGap
  OBVIOUS
<1>1. DOMAIN ledger = 1..Len(ledger)
  BY LenProperties DEF IInv, WalletTypeOK
<1>2. \A t \in Tenants : wallet[t] \in former[t]
  BY DEF IInv, FormerSound
<1> QED BY <1>1, <1>2 DEF NoGap, EndsOf, TrailHasNoGap

\* Every step keeps the trail without a gap.
LEMMA NoGapStep == IInv /\ NoGap /\ [WalletNext]_vars => NoGap'
<1> SUFFICES ASSUME IInv, NoGap, [WalletNext]_vars PROVE NoGap'
  OBVIOUS
<1>1. CASE \A p \in Txs : ~CommitRow(p)
  BY <1>1, OnlyCommitsWrite DEF NoGap
<1>2. ASSUME NEW p \in Txs, CommitRow(p) PROVE NoGap'
  <2> DEFINE t == req[p].tenant
             n == Len(ledger)
  <2>1. /\ t \in Tenants /\ ledger \in Seq(AuditRow) /\ n \in Nat
        /\ row[p] \in former[t] /\ former \in [Tenants -> SUBSET WalletRow]
        /\ former' = [former EXCEPT ![t] = @ \cup {Saved(p)}]
        /\ ledger' = ledger \o Audited(p)
    BY <1>2, CommitWrites, LenProperties DEF IInv, WalletTypeOK
  <2>2. \A u \in Tenants : former'[u] = IF u = t THEN former[u] \cup {Saved(p)} ELSE former[u]
    BY <2>1
  <2>3. row[p].available \in EndsOf(ledger, t, n + 1)
    BY <2>1 DEF NoGap
  <2> HIDE DEF t
  <2>4. CASE Audited(p) = << >> /\ Saved(p).available = row[p].available
    <3>1. ledger' = ledger
      BY <2>1, <2>4, ConcatEmptySeq
    <3> QED BY <2>2, <2>3, <2>4, <3>1 DEF NoGap
  <2>5. ASSUME NEW e \in AuditRow, Audited(p) = <<e>>, e.tenant = t,
               e.before = row[p].available, e.after = Saved(p).available
        PROVE  NoGap'
    <3>0. PICK l2 : l2 = ledger' /\ l2 = ledger \o <<e>> /\ n = Len(ledger)
      BY <2>1, <2>5
    <3> HIDE DEF n
    <3>1. /\ \A u : \A k \in 1..(n + 1) : EndsOf(l2, u, k) = EndsOf(ledger, u, k)
          /\ \A u : EndsOf(ledger, u, n + 1) \subseteq EndsOf(l2, u, n + 2)
          /\ e.after \in EndsOf(l2, t, n + 2)
          /\ Len(l2) = n + 1 /\ l2[n + 1] = e /\ \A k \in 1..n : l2[k] = ledger[k]
      <4>1. /\ Len(l2) = n + 1 /\ l2[n + 1] = e /\ \A k \in 1..n : l2[k] = ledger[k]
        BY <2>1, <2>5, <3>0, LenProperties, ConcatProperties
      <4>2. ASSUME NEW u, NEW k \in 1..(n + 1)
            PROVE  EndsOf(l2, u, k) = EndsOf(ledger, u, k)
        <5>1. \A j \in 1..(k - 1) : l2[j] = ledger[j]
          BY <2>1, <4>1
        <5> QED BY <5>1 DEF EndsOf
      <4>3. ASSUME NEW u PROVE EndsOf(ledger, u, n + 1) \subseteq EndsOf(l2, u, n + 2)
        <5>1. \A j \in 1..((n + 1) - 1) : l2[j] = ledger[j] /\ j \in 1..((n + 2) - 1)
          BY <2>1, <4>1
        <5> QED BY <5>1 DEF EndsOf
      <4>4. e.after \in EndsOf(l2, t, n + 2)
        <5>1. n + 1 \in 1..((n + 2) - 1)
          BY <2>1
        <5> QED BY <2>5, <4>1, <5>1 DEF EndsOf
      <4> QED BY <4>1, <4>2, <4>3, <4>4
    <3>2. \A k \in 1..Len(l2) : l2[k].before \in EndsOf(l2, l2[k].tenant, k)
      <4> SUFFICES ASSUME NEW k \in 1..(n + 1)
                   PROVE  l2[k].before \in EndsOf(l2, l2[k].tenant, k)
        BY <3>1
      <4>1. CASE k = n + 1
        BY <2>1, <2>3, <2>5, <3>1, <4>1
      <4>2. CASE k \in 1..n
        <5>1. ledger[k].before \in EndsOf(ledger, ledger[k].tenant, k)
          BY <3>0, <4>2 DEF NoGap
        <5> QED BY <3>1, <4>2, <5>1
      <4> QED BY <2>1, <4>1, <4>2
    <3>3. \A u \in Tenants : \A w \in former'[u] :
             w.available \in EndsOf(l2, u, Len(l2) + 1)
      <4> SUFFICES ASSUME NEW u \in Tenants, NEW w \in former'[u]
                   PROVE  w.available \in EndsOf(l2, u, n + 2)
        <5>1. Len(l2) + 1 = n + 2
          BY <2>1, <3>1
        <5> QED BY <5>1
      <4>1. CASE w \in former[u]
        <5>1. w.available \in EndsOf(ledger, u, n + 1)
          BY <3>0, <4>1 DEF NoGap
        <5> QED BY <3>1, <5>1
      <4>2. CASE w \notin former[u]
        <5>1. u = t /\ w = Saved(p)
          BY <2>2, <4>2
        <5> QED BY <2>5, <3>1, <5>1
      <4> QED BY <4>1, <4>2
    <3> QED BY <3>0, <3>2, <3>3 DEF NoGap
  <2> QED BY <1>2, <2>4, <2>5, CommitAudits DEF t
<1> QED BY <1>1, <1>2

\* Overlapping operations may fork the audit trail, never break it: each row begins
\* where an earlier one of its tenant ended (wallet.go:69-88, 108-128, 146-188).
THEOREM TrailNeverBroken == WalletSpec => []TrailHasNoGap
<1>1. WalletInit => NoGap
  BY EmptySeq, LenProperties DEF WalletInit, Init, NoGap, EndsOf, NewWallet
<1>2. IInv /\ NoGap /\ [WalletNext]_vars => NoGap'
  BY NoGapStep
<1>3. IInv /\ NoGap => TrailHasNoGap
  BY NoGapForm
<1> QED BY IInvHolds, <1>1, <1>2, <1>3, PTL DEF WalletSpec

-----------------------------------------------------------------------------
(* The division of a commission, for any amounts, rate and number of items. *)

\* While the loop divides, an item is left for it: what remains goes to the last.
LoopInv ==
    /\ SplitTypeOK
    /\ Len(amounts) > 0
    /\ NothingLost
    /\ phase = "adding"   => allocated = 0 /\ shares = << >>
    /\ phase = "dividing" => next <= Len(amounts)

\* The loop invariant holds before the first item is added.
LEMMA InitLoopInv == SplitInit => LoopInv
<1> SUFFICES ASSUME SplitInit PROVE LoopInv
  OBVIOUS
<1>1. PICK n \in 1..MaxItems : amounts \in [1..n -> Amounts]
  BY DEF SplitInit
<1>2. amounts \in Seq(Amounts) /\ Len(amounts) \in Nat \ {0}
  BY <1>1, SplitAssumption DEF SplitParameters
<1> QED BY <1>2, EmptySeq DEF SplitInit, LoopInv, SplitTypeOK, NothingLost

\* The amount of the item the loop is at is a natural number.
LEMMA AmountType ==
    ASSUME SplitTypeOK, next <= Len(amounts)
    PROVE  amounts[next] \in Nat
<1>1. amounts \in Seq(Amounts) /\ next \in 1..Len(amounts)
  BY LenProperties DEF SplitTypeOK
<1>2. amounts[next] \in Amounts
  BY <1>1, ElementOfSeq
<1> QED BY <1>2, SplitAssumption DEF SplitParameters

\* Adding an item to the total divides nothing yet.
LEMMA AddItemStep == LoopInv /\ AddItem => LoopInv'
<1> SUFFICES ASSUME LoopInv, AddItem PROVE LoopInv'
  OBVIOUS
<1>1. amounts[next] \in Nat
  BY AmountType DEF LoopInv, AddItem
<1> QED BY <1>1 DEF LoopInv, SplitTypeOK, NothingLost, AddItem

\* Once taken, all of the commission remains to be divided.
LEMMA TakeCommissionStep == LoopInv /\ TakeCommission => LoopInv'
<1> SUFFICES ASSUME LoopInv, TakeCommission PROVE LoopInv'
  OBVIOUS
<1>1. commission' \in Nat
  BY BatchCommissionType, SplitAssumption
     DEF LoopInv, SplitTypeOK, TakeCommission, SplitParameters
<1> QED BY <1>1 DEF LoopInv, SplitTypeOK, NothingLost, TakeCommission

\* What a share takes from the rest it adds to the sum; the last leaves no rest.
LEMMA AllocateNextStep == LoopInv /\ AllocateNext => LoopInv'
<1> SUFFICES ASSUME LoopInv, AllocateNext PROVE LoopInv'
  OBVIOUS
<1> DEFINE share == AllocateItemCommission(total, commission, amounts[next], remaining,
                                           next = Len(amounts))
<1>1. amounts[next] \in Nat
  BY AmountType DEF LoopInv, AllocateNext
<1>2. share \in 0..remaining /\ (next = Len(amounts) => share = remaining)
  <2>1. total \in Nat /\ commission \in Nat /\ remaining \in Nat
    BY DEF LoopInv, SplitTypeOK
  <2>2. PICK last \in BOOLEAN : last <=> (next = Len(amounts))
    OBVIOUS
  <2>3. share = AllocateItemCommission(total, commission, amounts[next], remaining, last)
    BY <2>2 DEF AllocateItemCommission
  <2> DEFINE s == AllocateItemCommission(total, commission, amounts[next], remaining, last)
  <2>4. s \in 0..remaining /\ (last => s = remaining)
    <3> DEFINE amount == amounts[next]
    <3>1. amount \in Nat
      BY <1>1
    <3> HIDE DEF amount
    <3>2. LET x == AllocateItemCommission(total, commission, amount, remaining, last)
          IN  x \in 0..remaining /\ (last => x = remaining)
      BY <2>1, <3>1, AllocateBounds, Zenon
    <3> QED BY <3>2 DEF amount
  <2> HIDE DEF share
  <2>5. share \in 0..remaining /\ (last => share = remaining)
    BY <2>3, <2>4, Zenon
  <2> QED BY <2>2, <2>5
<1>3. /\ phase = "dividing" /\ next <= Len(amounts)
      /\ shares' = Append(shares, share)
      /\ remaining' = remaining - share
      /\ allocated' = allocated + share
      /\ next' = next + 1
      /\ phase' = IF next = Len(amounts) THEN "done" ELSE phase
      /\ UNCHANGED <<amounts, rate, total, commission>>
  BY DEF AllocateNext
<1> HIDE DEF share
<1>4. shares' \in Seq(Nat)
  BY <1>2, <1>3, AppendProperties DEF LoopInv, SplitTypeOK
<1> QED BY <1>2, <1>3, <1>4 DEF LoopInv, SplitTypeOK, NothingLost

\* The loop invariant is one.
LEMMA LoopInvHolds == SplitSpec => []LoopInv
<1>1. LoopInv /\ UNCHANGED splitVars => LoopInv'
  BY DEF LoopInv, SplitTypeOK, NothingLost, splitVars
<1>2. LoopInv /\ [SplitNext]_splitVars => LoopInv'
  BY <1>1, AddItemStep, TakeCommissionStep, AllocateNextStep DEF SplitNext
<1> QED BY InitLoopInv, <1>2, PTL DEF SplitSpec

\* Every variable of the two loops keeps its type, the naturals of the money
\* among them (batch.go:77-101, 226-273).
THEOREM SplitTypes == SplitSpec => []SplitTypeOK
<1>1. LoopInv => SplitTypeOK
  BY DEF LoopInv
<1> QED BY <1>1, LoopInvHolds, PTL

\* For every batch and every rate, the commissions of the jobs add up to the
\* commission of the batch, although each is rounded down (batch.go:226-273).
THEOREM CommissionIsExact == SplitSpec => []NothingLost
<1>1. LoopInv => NothingLost
  BY DEF LoopInv
<1> QED BY <1>1, LoopInvHolds, PTL

-----------------------------------------------------------------------------
(* The shares.  The sums of the loops are over the first items: the amounts *)
(* added so far, the shares given so far.                                   *)

Ends == Len(amounts)

Fair(k) == IF k < Ends THEN shares[k] = Floor(k) ELSE shares[k] - Floor(k) \in 0..(Ends - 1)

FairInv ==
    /\ total = SumFunctionOnSet(amounts, 1..(IF phase = "adding" THEN next - 1 ELSE Ends))
    /\ Len(shares) = IF phase = "adding" THEN 0 ELSE next - 1
    /\ allocated = SumFunctionOnSet(shares, 1..Len(shares))
    /\ \A k \in 1..Len(shares) : Fair(k)

\* The amounts of the request are positive numbers.
LEMMA AmountsPositive ==
    ASSUME LoopInv
    PROVE  /\ Ends \in Nat \ {0} /\ next \in 1..(Ends + 1)
           /\ \A k \in 1..Ends : amounts[k] \in Nat \ {0}
<1>1. amounts \in Seq(Amounts) /\ Len(amounts) > 0 /\ next \in 1..(Len(amounts) + 1)
  BY DEF LoopInv, SplitTypeOK
<1>2. \A k \in 1..Len(amounts) : amounts[k] \in Amounts
  BY <1>1, ElementOfSeq
<1>3. Ends \in Nat \ {0} /\ next \in 1..(Ends + 1)
  BY <1>1, LenProperties DEF Ends
<1>4. Amounts \subseteq Nat \ {0}
  BY SplitAssumption DEF SplitParameters
<1> QED BY <1>2, <1>3, <1>4 DEF Ends

\* Nothing is added or given at the start.
LEMMA InitFair == SplitInit => FairInv
<1> SUFFICES ASSUME SplitInit PROVE FairInv
  OBVIOUS
<1>1. 1..0 = {} /\ 1 - 1 = 0 /\ Len(shares) = 0
  BY DEF SplitInit
<1>2. SumFunctionOnSet(amounts, {}) = 0 /\ SumFunctionOnSet(shares, {}) = 0
  BY SumType, FS_EmptySet
<1> QED BY <1>1, <1>2 DEF SplitInit, FairInv

\* One amount more in the total.
LEMMA AddItemFair == LoopInv /\ FairInv /\ AddItem => FairInv'
<1> SUFFICES ASSUME LoopInv, FairInv, AddItem PROVE FairInv'
  OBVIOUS
<1>1. /\ phase = "adding" /\ phase' = phase /\ next \in 1..Ends /\ next' = next + 1
      /\ total' = total + amounts[next] /\ UNCHANGED <<amounts, shares, allocated, commission>>
  BY AmountsPositive DEF AddItem, Ends
<1>2. Ends \in Nat /\ \A k \in 1..Ends : amounts[k] \in Int
  BY AmountsPositive
<1>3. SumFunctionOnSet(amounts, 1..next) = amounts[next] + SumFunctionOnSet(amounts, 1..(next - 1))
  BY <1>1, <1>2, SumOfFirst
<1>4. total \in Int /\ amounts[next] \in Int /\ next' - 1 = next /\ Ends' = Ends
  BY <1>1, <1>2 DEF LoopInv, SplitTypeOK, Ends
<1>5. total = SumFunctionOnSet(amounts, 1..(next - 1)) /\ Len(shares) = 0
  BY <1>1 DEF FairInv
<1>6. total' = SumFunctionOnSet(amounts', 1..(next' - 1))
  BY <1>1, <1>3, <1>4, <1>5
<1>7. \A k \in 1..Len(shares') : Fair(k)'
  BY <1>1, <1>5
<1> QED BY <1>1, <1>5, <1>6, <1>7 DEF FairInv

\* The total of all the amounts, when the commission is taken on it.
LEMMA TakeCommissionFair == LoopInv /\ FairInv /\ TakeCommission => FairInv'
<1> SUFFICES ASSUME LoopInv, FairInv, TakeCommission PROVE FairInv'
  OBVIOUS
<1>1. /\ phase = "adding" /\ phase' = "dividing" /\ next > Ends /\ next' = 1
      /\ UNCHANGED <<amounts, shares, allocated, total>>
  BY DEF TakeCommission, Ends
<1>2. next - 1 = Ends /\ Ends' = Ends
  BY <1>1, AmountsPositive DEF Ends
<1> QED BY <1>1, <1>2 DEF FairInv

\* The next share, between what the others left and what is its due.
LEMMA AllocateNextFair == LoopInv /\ LoopInv' /\ FairInv /\ AllocateNext => FairInv'
<1> SUFFICES ASSUME LoopInv, LoopInv', FairInv, AllocateNext PROVE FairInv'
  OBVIOUS
<1> DEFINE n == Ends
           f == [k \in 1..n |-> Floor(k)]
           share == AllocateItemCommission(total, commission, amounts[next], remaining,
                                           next = Len(amounts))
<1>1. /\ phase = "dividing" /\ phase' # "adding" /\ next' = next + 1
      /\ shares' = Append(shares, share) /\ allocated' = allocated + share
      /\ UNCHANGED <<amounts, total, commission>>
  BY DEF AllocateNext
<1>2. /\ n \in Nat \ {0} /\ next \in 1..n /\ n = Len(amounts)
      /\ \A k \in 1..n : amounts[k] \in Nat \ {0}
  BY AmountsPositive DEF AllocateNext, Ends
<1>3. /\ total = SumFunctionOnSet(amounts, 1..n) /\ Len(shares) = next - 1
      /\ allocated = SumFunctionOnSet(shares, 1..(next - 1))
      /\ \A k \in 1..(next - 1) : Fair(k)
  BY <1>1 DEF FairInv
<1>4. /\ commission \in Nat /\ remaining \in Nat /\ allocated \in Nat /\ shares \in Seq(Nat)
      /\ allocated + remaining = commission /\ share \in Int /\ shares' \in Seq(Nat)
  <2>1. remaining \in Nat /\ remaining' \in Nat /\ remaining' = remaining - share
        /\ allocated' = allocated + share /\ allocated \in Nat
    BY DEF LoopInv, SplitTypeOK, AllocateNext
  <2>2. /\ commission \in Nat /\ shares \in Seq(Nat) /\ shares' \in Seq(Nat)
        /\ allocated + remaining = commission
    BY <1>1 DEF LoopInv, SplitTypeOK, NothingLost
  <2>3. share \in Int
    <3>1. shares' = Append(shares, share) /\ Len(shares') = Len(shares) + 1
          /\ shares'[Len(shares) + 1] = share /\ Len(shares) + 1 \in 1..Len(shares')
      BY <1>1, <2>2, LenProperties, AppendProperties
    <3> HIDE DEF share
    <3>2. shares'[Len(shares) + 1] \in Nat
      BY <2>2, <3>1, ElementOfSeq
    <3> QED BY <3>1, <3>2
  <2> QED BY <2>1, <2>2, <2>3
<1>5. \A k \in 1..n : f[k] = (amounts[k] * commission) \div total
  BY DEF Floor
<1> HIDE DEF f, n, share
<1>6. /\ \A k \in 1..n : f[k] \in Nat
      /\ \A k \in 1..(n - 1) :
            AllocateItemCommission(total, commission, amounts[k],
                                   commission - SumFunctionOnSet(f, 1..(k - 1)), FALSE) = f[k]
      /\ commission - SumFunctionOnSet(f, 1..(n - 1)) - f[n] \in 0..(n - 1)
  <2>0. total \in Nat \ {0}
    BY <1>2, <1>3, TotalPositive
  <2>1. PICK A \in Nat \ {0}, C \in Nat : A = total /\ C = commission
    BY <1>4, <2>0
  <2>2. PICK a : a = amounts
    OBVIOUS
  <2>3. n \in Nat \ {0} /\ Division(n, a, f, A, C)
    BY <1>2, <1>3, <1>5, <2>1, <2>2 DEF Division
  <2>4. Divided(n, a, f, A, C)
    BY <2>3, SharesFit
  <2> QED BY <2>1, <2>2, <2>4 DEF Divided, PartOf
<1>7. remaining = commission - SumFunctionOnSet(f, 1..(next - 1))
  <2>1. \A k \in 1..(next - 1) : shares[k] = f[k]
    BY <1>2, <1>3 DEF Fair, f, n
  <2>2. next - 1 \in Int /\ 1 \in Int
    BY <1>2
  <2>3. IsFiniteSet(1..(next - 1))
    BY <2>2, FS_Interval
  <2>4. allocated = SumFunctionOnSet(f, 1..(next - 1))
    BY <1>3, <2>1, <2>3, SumCongruent
  <2> QED BY <1>4, <2>4
<1> DEFINE rest(m) == commission - SumFunctionOnSet(f, 1..(m - 1))
<1>8a. ASSUME next < n PROVE share = f[next]
  <2>1. next \in 1..(n - 1) /\ next # Len(amounts)
    BY <1>2, <1>8a
  <2>2. share = AllocateItemCommission(total, commission, amounts[next], rest(next), FALSE)
    BY <1>7, <2>1 DEF share, AllocateItemCommission
  <2> HIDE DEF rest
  <2>3. \A k \in 1..(n - 1) :
          AllocateItemCommission(total, commission, amounts[k], rest(k), FALSE) = f[k]
    BY <1>6 DEF rest
  <2> QED BY <2>1, <2>2, <2>3
<1>8b. ASSUME next = n PROVE share - f[next] \in 0..(n - 1)
  <2>1. share = rest(next)
    BY <1>2, <1>7, <1>8b DEF share, AllocateItemCommission
  <2>2. rest(n) - f[n] \in 0..(n - 1)
    BY <1>6
  <2> HIDE DEF rest
  <2> QED BY <1>8b, <2>1, <2>2
<1>8. /\ next < n => share = f[next]
      /\ next = n => share - f[next] \in 0..(n - 1)
  BY <1>8a, <1>8b
<1>9. /\ Len(shares') = next /\ shares'[next] = share
      /\ \A k \in 1..(next - 1) : shares'[k] = shares[k]
      /\ \A k \in 1..next : shares'[k] \in Int
  <2>1. /\ Len(shares') = Len(shares) + 1 /\ shares'[Len(shares) + 1] = share
        /\ \A k \in 1..Len(shares) : shares'[k] = shares[k]
    BY <1>1, <1>4, AppendProperties
  <2>2. Len(shares) + 1 = next
    BY <1>2, <1>3
  <2>3. \A k \in 1..Len(shares) : shares[k] \in Int
    BY <1>3, <1>4, ElementOfSeq
  <2>4. \A k \in 1..next : k \in 1..Len(shares) \/ k = Len(shares) + 1
    BY <1>2, <2>2
  <2> QED BY <1>3, <1>4, <2>1, <2>2, <2>3, <2>4
<1>10. \A k \in 1..Len(shares') : Fair(k)'
  <2> SUFFICES ASSUME NEW k \in 1..next PROVE Fair(k)'
    BY <1>9
  <2>1. /\ Floor(k)' = Floor(k) /\ Ends' = Ends /\ n = Ends /\ f[k] = Floor(k)
    BY <1>1, <1>2 DEF Floor, Ends, n, f
  <2>2. CASE k = next
    <3>1. /\ next < n => shares'[k] = Floor(k)'
          /\ next = n => shares'[k] - Floor(k)' \in 0..(n - 1)
      BY <1>8, <1>9, <2>1, <2>2
    <3>2. IF k < n THEN shares'[k] = Floor(k)' ELSE shares'[k] - Floor(k)' \in 0..(n - 1)
      BY <1>2, <2>2, <3>1
    <3>3. Ends' = n
      BY <2>1
    <3> QED BY <3>2, <3>3 DEF Fair
  <2>3. CASE k \in 1..(next - 1)
    BY <1>3, <1>9, <2>1, <2>3 DEF Fair
  <2> QED BY <1>2, <2>2, <2>3
<1>11. allocated' = SumFunctionOnSet(shares', 1..next)
  <2>1. next \in Nat /\ \A k \in 1..next : shares'[k] \in Int
    BY <1>2, <1>9
  <2>2. \A m \in 1..next : SumFunctionOnSet(shares', 1..m)
                             = shares'[m] + SumFunctionOnSet(shares', 1..(m - 1))
    BY <2>1, SumOfFirst
  <2>3. next \in 1..next /\ next - 1 \in Int /\ 1 \in Int
    BY <1>2
  <2>4. IsFiniteSet(1..(next - 1))
    BY <2>3, FS_Interval
  <2>5. SumFunctionOnSet(shares', 1..(next - 1)) = SumFunctionOnSet(shares, 1..(next - 1))
    BY <1>9, <2>4, SumCongruent
  <2>6. SumFunctionOnSet(shares', 1..next) = share + SumFunctionOnSet(shares, 1..(next - 1))
    BY <1>9, <2>2, <2>3, <2>5
  <2>7. allocated' = allocated + share /\ allocated = SumFunctionOnSet(shares, 1..(next - 1))
    BY <1>1, <1>3
  <2>8. share \in Int /\ allocated \in Int
    BY <1>4, <1>9, <2>1, <2>3
  <2> HIDE DEF share
  <2> QED BY <2>6, <2>7, <2>8
<1>12. Ends' = n /\ next' - 1 = next
  BY <1>1, <1>2 DEF n, Ends
<1> QED BY <1>1, <1>3, <1>9, <1>10, <1>11, <1>12 DEF FairInv

\* For any amounts, any rate and any number of items: every item but the last
\* gets its proportional share of the commission rounded down, without the cap
\* ever cutting it, and the last one less than one franc per item more
\* (batch.go:226-235, 260-273).
THEOREM SharesAlwaysFair == SplitSpec => []SharesAreFair
<1>1. LoopInv /\ LoopInv' /\ FairInv /\ [SplitNext]_splitVars => FairInv'
  <2>1. FairInv /\ UNCHANGED splitVars => FairInv'
    BY DEF FairInv, Fair, Floor, Ends, splitVars
  <2> QED BY <2>1, AddItemFair, TakeCommissionFair, AllocateNextFair DEF SplitNext
<1>2. LoopInv /\ FairInv => SharesAreFair
  <2> SUFFICES ASSUME LoopInv, FairInv PROVE SharesAreFair
    OBVIOUS
  <2>1. DOMAIN shares = 1..Len(shares)
    BY LenProperties DEF LoopInv, SplitTypeOK
  <2> QED BY <2>1 DEF FairInv, Fair, Ends, SharesAreFair, SumFunction
<1> QED BY InitFair, LoopInvHolds, <1>1, <1>2, PTL DEF SplitSpec
=============================================================================
