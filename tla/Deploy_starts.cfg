\* Installs, ups, downs and repins; core 2 pinned by an unreadable tag, core 3 decides about its index
SPECIFICATION FairSpec
CONSTANTS
    Cores = {1, 2, 3}
    Elastics = {1, 2}
    Unreadable = {2}
    Deciding = {3}
    MaxRepins = 2
    MaxFaults = 2
INVARIANTS TypeOK GuardHolds IndexMatchesAfterRetry RecordedIsDeployed
PROPERTY EventuallyRecorded
