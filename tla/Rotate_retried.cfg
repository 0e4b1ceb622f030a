\* The JWT pair with each of the other kinds of secrets, two interruptions.
SPECIFICATION Spec
CONSTANTS
    Values = {1, 2, 3, 4, 5, 6}
    Absent = Absent
    Torn = Torn
    Directory = Directory
    Databases = {"cms", "engine"}
    Scenarios = {{"jwt", "cms"}, {"jwt", "engine"}, {"jwt", "client"}, {"jwt", "tls"}}
    MaxFaults = 2
INVARIANTS TypeOK OthersAgree RotationComplete UpServes MixedPairTakesTwo
PROPERTY Recovers
