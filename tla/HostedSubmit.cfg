\* SubmitPR between the two halves of a cleanup.
SPECIFICATION Spec
CONSTANTS
    a = a
    b = b
    a1 = a1
    a2 = a2
    b1 = b1
    Rigs = {a, b}
    None = None
    Free = Free
    NoBranch = NoBranch
    Sessions = {a1, a2}
    Owner <- OwnerOf
    History <- PostedOnly
    Ops = {"claim", "discard", "submit-pr"}
    Faults = {}
    MaxRequests = 3
PROPERTIES
    NotErasedWhileOffered
CHECK_DEADLOCK FALSE
