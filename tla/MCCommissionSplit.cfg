CONSTANTS
    Amounts <- MCAmounts
    Rates <- MCRates
    MaxItems = 4
SPECIFICATION SplitSpec
CHECK_DEADLOCK FALSE
INVARIANTS
    NothingLost
    SharesAreFair
