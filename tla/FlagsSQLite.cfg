CONSTANTS
    Keys = {k1}
    Nobody = Nobody
    MaxCommits = 2
    MaxFaults = 0
SPECIFICATION Spec
INVARIANT UpToOneSecond
CHECK_DEADLOCK FALSE
