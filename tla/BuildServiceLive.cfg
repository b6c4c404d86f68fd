SPECIFICATION HangingSpec
CONSTANTS
    Product = {p1}
    Build = {b1, b2}
    Name = {caddy}
    Client = {c1}
    MaxCancels = 1
    Faults = {}
    MaxFaults = 0
    None = None
CHECK_DEADLOCK FALSE
PROPERTIES
    CancelReleases
    BusyProductFreed
    AnnouncedUnlessCancelled
    ImplementsLifecycle
