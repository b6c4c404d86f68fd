CONSTANTS
    Build = {b1, b2}
    Linked = {b1}
    Rpm = {r1}
    Handler = {h1}
    KeepCounts = {1}
    KeepRpms = 1
    MaxTime = 2
    MaxCrashes = 1
    Faults = {"wipe", "preserve", "history", "backup", "remove", "swap", "prune", "trim", "sweep", "restore", "undo", "rejoin", "clean"}
    Overlaps = {{"publish", "generate"}}
    NoRepo = NoRepo
    NoDir = NoDir
    Torn = Torn
    Mixed = Mixed
    b1 = b1
    b2 = b2
    r1 = r1
    h1 = h1
SPECIFICATION Spec
INVARIANT PublishedIsOwn
PROPERTY RollbackLosesNothing
CHECK_DEADLOCK FALSE
