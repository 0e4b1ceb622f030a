\* One CLI, run again and again through exceptions, kills and repairs
SPECIFICATION FairSpec
CONSTANTS
    Procs = {p1}
    N = 3
    Idempotent = {2}
    Stamps = {s1, s2, s3, s4}
    NoStamp = NoStamp
    SameSecond = FALSE
    CanFake = TRUE
    MaxKills = 1
    MaxFails = 2
INVARIANTS FailedWaitsForRepair MarkerNamesCleanSnapshot
PROPERTIES AppliedOnce ImplementsLedger EventuallyAllRecorded
