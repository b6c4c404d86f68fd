CONSTANTS
    Build = {b1, b2}
    Linked = {b1, b2}
    Rpm = {r1}
    Handler = {h1}
    KeepCounts = {1}
    KeepRpms = 1
    MaxTime = 2
    MaxCrashes = 0
    Faults = {}
    Overlaps = {}
    NoRepo = NoRepo
    NoDir = NoDir
    Torn = Torn
    Mixed = Mixed
    b1 = b1
    b2 = b2
    r1 = r1
    h1 = h1
SPECIFICATION Spec
INVARIANT SnapshotsComplete
CHECK_DEADLOCK FALSE
