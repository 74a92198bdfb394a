SPECIFICATION FairSpec
CONSTANTS
    Null = Null
    Withdrawal = {w1, w2}
    Admin = {a1, a2}
    SuperAdmin = {a1}
    Hook = {h1}
    Amount = {1}
    Batch = 2
    MaxEarned = 1
    MaxRestarts = 1
INVARIANTS TypeOK NoOverdraft SentOnce PaidStaysHeld SuccessIsPaid
PROPERTIES ImplementsPayout Settled
CHECK_DEADLOCK FALSE
