SPECIFICATION Spec
CONSTANTS
    Mac = {m1, m2}
    Router = {rt1}
    Call = {c1}
    Last = 2
    Overlap = {}
    Faults = {"crash", "boot", "shape"}
    MaxFaults = 1
    Null = Null
SYMMETRY Symmetry
INVARIANTS TypeOK OwnClass
