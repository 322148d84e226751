SPECIFICATION Spec
CONSTANTS
    Tasks = {t1}
    Owner = Owner
    Stoppers = {}
    MaxStarts = 1
INVARIANT EveryStopDrains
CHECK_DEADLOCK FALSE
