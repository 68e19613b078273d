\* Two requests of one rig at a time, and any read, write or call of DoltHub may fail;
\* a second request is also the retry of a first that failed.
SPECIFICATION FairSpec
CONSTANTS
    a = a
    b = b
    a1 = a1
    a2 = a2
    b1 = b1
    Rigs = {a, b}
    None = None
    Free = Free
    NoBranch = NoBranch
    Sessions = {a1, a2}
    Owner <- OwnerOf
    History <- PostedAndSubmitted
    Ops = {"post", "update", "claim", "unclaim", "done", "accept",
           "reject", "close", "delete", "accept-upstream", "close-upstream", "discard"}
    Faults = {"read", "write", "pr"}
    MaxRequests = 2
INVARIANTS
    OneWriter
PROPERTIES
    EveryMutationAnswered
CHECK_DEADLOCK FALSE
