SPECIFICATION FairSpec
CONSTANTS
    Loop = loop
    Request = {r1}
    r1 = r1
    MaxRelease = 2
CHECK_DEADLOCK FALSE
INVARIANTS
    TypeOK
    BuildsOnlyNew
PROPERTIES
    LatestRecorded
    LatestBuilt
