CONSTANTS
    r1 = r1  r2 = r2
    Reads = {r1, r2}
    MaxChanges = 3
    MaxMoves = 4
SPECIFICATION FairSpec
CHECK_DEADLOCK FALSE
INVARIANTS
    ConsoleMatchesUser
PROPERTIES
    RedirectsSettle
    ActivatedTenantGetsIn
