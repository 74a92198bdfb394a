SPECIFICATION FairSpec
CONSTANTS
    Payment = {p1, p2}
    Hook = {h1}
    Batch = 2
    Lossy = {p2}
    MaxRestarts = 1
    Null = Null
INVARIANTS TypeOK IssuedOnce VoucherIsPaid SaleIsBooked
PROPERTIES PaidGetsVoucher
CHECK_DEADLOCK FALSE
