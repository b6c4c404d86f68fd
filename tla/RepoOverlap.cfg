CONSTANTS
    Build = {b1, b2, b3}
    Linked = {}
    Rpm = {r1}
    Handler = {h1}
    KeepCounts = {2}
    KeepRpms = 1
    MaxTime = 3
    MaxCrashes = 0
    Faults = {}
    Overlaps = {{"publish", "generate"}, {"publish", "rollback"}}
    NoRepo = NoRepo
    NoDir = NoDir
    Torn = Torn
    Mixed = Mixed
    b1 = b1
    b2 = b2
    b3 = b3
    r1 = r1
    h1 = h1
SPECIFICATION Spec
PROPERTY HistoryKept
CHECK_DEADLOCK FALSE
