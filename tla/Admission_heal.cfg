SPECIFICATION FairSpec
CONSTANTS
    Mac = {m1}
    Router = {rt1, rt2}
    Call = {c1, c2}
    Last = 1
    Overlap = {}
    Faults = {"crash", "fetch", "boot", "nft", "shape"}
    MaxFaults = 2
    Null = Null
INVARIANTS FirewallKnown
PROPERTIES SyncedInTheEnd
