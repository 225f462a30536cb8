CONSTANTS
    io = io  im = im
    Items = {io, im}
    OperatorOf <- Operators
    MaxRetries = 3
SPECIFICATION Spec
CHECK_DEADLOCK FALSE
INVARIANTS
    PaidOncePerReply
    SuccessIsPaid
    RefundedIfRefused
