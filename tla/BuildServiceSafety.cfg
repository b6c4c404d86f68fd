SPECIFICATION Spec
CONSTANTS
    Product = {p1, p2}
    Build = {b1, b2}
    Name = {caddy, nginx}
    Client = {c1, c2}
    MaxCancels = 1
    Faults = {"kill", "update"}
    MaxFaults = 1
    None = None
SYMMETRY Symmetry
CHECK_DEADLOCK FALSE
INVARIANTS
    TypeOK
    OnePipelinePerProduct
    OneActiveRow
    ActiveRowIsDriven
    NotifyTruthful
    LogOpenWhileUsed
PROPERTIES
    CancelReachesBuild
    StagingTakenOnlyByOwner
