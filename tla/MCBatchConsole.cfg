CONSTANTS
    b1 = b1  f1 = f1  v1 = v1
    Directory = {b1}
    Flows = {f1}
    Views = {v1}
    Unit = 1000
    PageRate = 15
    Rate = 15
    Threshold = 2000
    Limit = 2500
    Fund = 2030
    Top = 1030
    MaxExtras = 2
    MaxEdits = 1
    MaxPresses = 2
    MaxLooks = 2
    MaxEvents = 1
SPECIFICATION FairSpec
CHECK_DEADLOCK FALSE
INVARIANTS
    PaidOncePerPress
    DoneIsTrue
    LaunchedOnce
PROPERTIES
    SufficientUnlessSpent
    PressEnds
