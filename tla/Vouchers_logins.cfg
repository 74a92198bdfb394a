SPECIFICATION FairSpec
CONSTANTS
    m1 = m1  m2 = m2  v1 = v1  v2 = v2
    Null = Null
    Voucher = {v1, v2, v3}
    Mac = {m1, m2}
    Request = {r1, r2}
    Typed = {v1}
    FreeVoucher = {v2, v3}
    Timed = {v1}
    Capped = {}
    Limit <- LimitOne
    MaxAtOnce = 1
    Payer <- OnePaid
    SameName <- OnePhone
    Kinds = {"auto", "free"}
    AdminOps = {"block"}
    Loops = {"traffic"}
    MaxRestarts = 1
INVARIANTS WithinLimit OneOpenSession OneFreeVoucher
PROPERTIES LoginMoves
CHECK_DEADLOCK FALSE
