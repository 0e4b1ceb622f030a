\* One interruption of `rotate db-password`.
SPECIFICATION Spec
CONSTANTS
    Values = {1, 2, 3, 4, 5, 6}
    Absent = Absent
    Torn = Torn
    Directory = Directory
    Databases = {"cms", "engine"}
    Scenarios = {{"jwt", "cms"}}
    MaxFaults = 1
INVARIANT MismatchNoticed
