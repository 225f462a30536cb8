CONSTANTS
    b1 = b1  b2 = b2  i1 = i1  i2 = i2  i3 = i3
    u1 = u1  u2 = u2  w1 = w1  w2 = w2  s1 = s1  s2 = s2
    NoUser = NoUser  NoBatch = NoBatch  NoJob = NoJob
    Batches = {b1}
    Items = {i1, i2}
    ItemsOf <- OneItemsOf
    Amount <- OneAmounts
    OperatorOf <- OneOperators
    Users = {u1, u2}
    Admins = {u1}
    Workers = {w1, w2}
    Sessions = {s1}
    Threshold = 225
    Limit = 300
    RateNum = 1
    RateDen = 10
    MaxRetries = 3
    FaultKinds = {"worker", "enqueue"}
    MaxFaults = 2
SPECIFICATION FairSpec
CHECK_DEADLOCK FALSE
INVARIANTS
    SettledWithinProvision
    CountersMatchItems
    OneLiveJob
    RetryBudget
PROPERTIES
    PayoutKept
    FinalIsFinal
    ProcessingEnds
    ClosedIsNotified
