SPECIFICATION Spec
CONSTANTS
    Conns = {c1, c2}
    None = None
    MAX_CLIENTS = 1
    MaxSent = 1
INVARIANTS
    ClosesItsOwn
CHECK_DEADLOCK FALSE
