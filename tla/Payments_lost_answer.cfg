SPECIFICATION FairSpec
CONSTANTS
    Payment = {p1}
    Hook = {}
    Batch = 1
    Lossy = {p1}
    MaxRestarts = 0
    Null = Null
PROPERTIES PollFindsEveryPayment
CHECK_DEADLOCK FALSE
