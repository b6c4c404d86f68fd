CONSTANTS
    Client = {i1}
    Request = {r1, r2}
    Solution = {s1}
    Threshold = 2
    Block = 3
    EntryTTL = 4
    ChallengeTTL = 2
    Slack = 1
    Solved = {p1}
    Garbled = Garbled
    Payload <- Payloads
    Decode <- Decoding
    Bad = Bad
    Empty = Empty
    Nobody = Nobody
    Missing = Missing
    Word <- Words
    Given <- Files
    MaxGenerated = 2
    MaxMigrations = 2
    Cuts = {2}
    SaveFaults = {"open", "write", "migrate"}
    i1 = i1
    r1 = r1
    r2 = r2
    s1 = s1
    p1 = p1
SPECIFICATION Spec
INVARIANTS
    TypeOK
    SecretsSurvive
    MigratedOnce
    WaitIsEnough
    PayloadOnce
SYMMETRY Symmetry
CHECK_DEADLOCK FALSE
