\* Two CLIs at once, steps cut off
SPECIFICATION Spec
CONSTANTS
    Procs = {p1, p2}
    Commands = {"rotate", "secret", "up", "down"}
    MaxRotations = 2
    MaxMints = 4
    MaxFaults = 1
    CanGlitch = TRUE
SYMMETRY ProcSymmetry
INVARIANTS TokenOnDiskIsLive EngineKeyNotRevoked
