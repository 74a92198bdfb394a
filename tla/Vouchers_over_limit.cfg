SPECIFICATION Spec
CONSTANTS
    m1 = m1  m2 = m2  v1 = v1  v2 = v2
    Null = Null
    Voucher = {v1}
    Mac = {m1, m2}
    Request = {r1, r2}
    FreeVoucher = {}
    Timed = {v1}
    Capped = {}
    Limit <- LimitOne
    MaxAtOnce = 2
    Payer <- NobodyPaid
    SameName <- AllDiffer
    Typed = {v1}
    Kinds = {}
    AdminOps = {}
    Loops = {}
    MaxRestarts = 0
SYMMETRY RequestSymmetry
INVARIANTS WithinLimit
CHECK_DEADLOCK FALSE
