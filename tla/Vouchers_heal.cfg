SPECIFICATION FairSpec
CONSTANTS
    m1 = m1  m2 = m2  v1 = v1  v2 = v2
    Null = Null
    Voucher = {v1, v2}
    Mac = {m1}
    Request = {r1, r2}
    FreeVoucher = {}
    Timed = {v1}
    Capped = {}
    Limit <- LimitOne
    MaxAtOnce = 2
    Payer <- NobodyPaid
    SameName <- AllDiffer
    Typed = {v1, v2}
    Kinds = {}
    AdminOps = {}
    Loops = {"cron", "sync"}
    MaxRestarts = 1
PROPERTIES OrphansClose SyncedInTheEnd
