CONSTANTS
    t1 = t1  t2 = t2  b1 = b1  b2 = b2  i1 = i1  i2 = i2  i3 = i3
    x1 = x1  x2 = x2  x3 = x3  NoOp = NoOp
    Tenants = {t1, t2}
    Batches = {b1, b2}
    Items = {i1, i2, i3}
    TenantOf <- MCTenantOf
    ItemsOf <- MCItemsOf
    Amount <- MCAmount
    Commission <- MCCommission
    Provision <- MCProvision
    Deposits <- MCDeposits
    Txs = {x1, x2}
    MaxRecharges = 2
SPECIFICATION WalletSpec
CHECK_DEADLOCK FALSE
SYMMETRY TxSymmetry
INVARIANTS
    NoOverdraft
    
    TotalsNeverOverstated
    TrailHasNoGap
    BooksMatchHolds
    LedgerExplainsBalance
PROPERTIES
    LedgerKept
