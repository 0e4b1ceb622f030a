\* Two CLIs at once, each may be killed or see its migration fail
SPECIFICATION Spec
CONSTANTS
    Procs = {p1, p2}
    N = 2
    Idempotent = {1}
    Stamps = {s1}
    NoStamp = NoStamp
    SameSecond = TRUE
    CanFake = TRUE
    MaxKills = 1
    MaxFails = 1
SYMMETRY ProcSymmetry
INVARIANTS TypeOK RecordedImpliesRan InOrder
