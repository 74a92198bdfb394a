SPECIFICATION FairSpec
CONSTANTS
    Mac = {m1}
    Router = {rt1}
    Call = {c1, c2}
    Last = 1
    Overlap = {"calls"}
    Faults = {}
    MaxFaults = 0
    Null = Null
PROPERTIES CutInTheEnd
