\* Two backups at a time, a migration, restores, one cut off anywhere; three seconds
SPECIFICATION Spec
CONSTANTS
    Procs = {p1, p2}
    Databases = {1}
    Migrations = 1
    MaxClock = 2
    MaxOverlaps = 1
    MaxKeep = 1
    MaxFaults = 1
SYMMETRY ProcSymmetry
CONSTRAINT Apart
INVARIANTS TypeOK RestoredIsMigrated ManifestTruthful
PROPERTY NewestCompleteKept
