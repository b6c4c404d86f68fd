CONSTANTS
    Build = {b1, b2, b3, b4}
    Linked = {}
    Rpm = {r1, r2}
    Handler = {h1, h2}
    KeepCounts = {1, 2}
    KeepRpms = 1
    MaxTime = 4
    MaxCrashes = 0
    Faults = {"restore"}
    Overlaps = {{"rollback"}}
    NoRepo = NoRepo
    NoDir = NoDir
    Torn = Torn
    Mixed = Mixed
    b1 = b1
    b2 = b2
    b3 = b3
    b4 = b4
    r1 = r1
    r2 = r2
    h1 = h1
    h2 = h2
SPECIFICATION Spec
INVARIANT TypeOK
INVARIANT WorkDirsRemoved
PROPERTY ImplementsHistory
SYMMETRY Symmetry
CHECK_DEADLOCK FALSE
