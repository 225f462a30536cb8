CONSTANTS
    b1 = b1  b2 = b2  i1 = i1  i2 = i2  i3 = i3
    u1 = u1  u2 = u2  w1 = w1  w2 = w2  s1 = s1  s2 = s2
    NoUser = NoUser  NoBatch = NoBatch  NoJob = NoJob
    Batches = {b2}
    Items = {i3}
    ItemsOf <- SmallItemsOf
    Amount <- SmallAmounts
    OperatorOf <- SmallOperators
    Users = {u1, u2}
    Admins = {u1, u2}
    Workers = {w1}
    Sessions = {s1, s2}
    Threshold = 112
    Limit = 300
    RateNum = 1
    RateDen = 10
    MaxRetries = 2
    FaultKinds = {"worker", "enqueue", "scheduler", "crash"}
    MaxFaults = 1
SPECIFICATION Spec
CHECK_DEADLOCK FALSE
INVARIANTS
    TypeOK
    ClosedIffCounted
    FourEyes
