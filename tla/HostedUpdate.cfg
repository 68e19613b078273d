\* An update of an open item that the fork has, nothing failing.
SPECIFICATION Spec
CONSTANTS
    a = a
    b = b
    a1 = a1
    a2 = a2
    b1 = b1
    Rigs = {a, b}
    None = None
    Free = Free
    NoBranch = NoBranch
    Sessions = {a1}
    Owner <- OwnerOf
    History <- PostedOnly
    Ops = {"update"}
    Faults = {}
    MaxRequests = 1
INVARIANTS
    UpdateIsKept
CHECK_DEADLOCK FALSE
