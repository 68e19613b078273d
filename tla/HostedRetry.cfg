\* a accepts what b submits; writes may fail, and a may try again.
SPECIFICATION Spec
CONSTANTS
    a = a
    b = b
    a1 = a1
    a2 = a2
    b1 = b1
    Rigs = {a, b}
    None = None
    Free = Free
    NoBranch = NoBranch
    Sessions = {a1, b1}
    Owner <- OwnerOf
    History <- ClaimedOnly
    Ops = {"done", "accept-upstream"}
    Faults = {"write"}
    MaxRequests = 3
INVARIANTS
    AcceptedIsStamped
CHECK_DEADLOCK FALSE
