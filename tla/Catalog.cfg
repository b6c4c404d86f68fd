CONSTANTS
    Key = {f, g}
    Own = {g}
    Client = {c1, c2}
    Product = {p1}
    MaxRows = 2
    Faults = {"list", "look", "insert", "drop", "delete", "resolve"}
    None = None
    f = f
    g = g
    c1 = c1
    c2 = c2
    p1 = p1
SPECIFICATION Spec
INVARIANTS
    TypeOK
    TableIsKeyring
    SignsWhileListed
SYMMETRY Symmetry
CHECK_DEADLOCK FALSE
