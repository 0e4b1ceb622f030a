\* One CLI, any sequence of commands, steps cut off. MaxMints is never reached.
SPECIFICATION FairSpec
CONSTANTS
    Procs = {p1}
    Commands = {"token", "rotate", "secret", "up", "down"}
    MaxRotations = 2
    MaxMints = 8
    MaxFaults = 2
    CanGlitch = TRUE
INVARIANTS TypeOK SuccessMeansAuthenticated OrphansBounded
PROPERTIES EngineRecovers
