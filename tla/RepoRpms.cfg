SPECIFICATION Spec
CONSTANTS
    File = {1, 2, 3, 4}
    KeepRpms = 3
    KeepCount = 1
    MaxTime = 10
CHECK_DEADLOCK FALSE
INVARIANTS
    TypeOK
    LatestServed
