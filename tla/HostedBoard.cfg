\* Two rigs, three requests in all, every operation, any merge, forks taken at any
\* time since before the item was posted; and two requests of one rig at a time.
SPECIFICATION MCSpec
CONSTANTS
    a = a
    b = b
    a1 = a1
    a2 = a2
    b1 = b1
    Rigs = {a, b}
    None = None
    Free = Free
    NoBranch = NoBranch
    Sessions = {a1, a2, b1}
    Owner <- OwnerOf
    History <- FromPostToReview
    Ops = {"post", "update", "claim", "unclaim", "done", "accept",
           "reject", "close", "delete", "accept-upstream", "close-upstream", "discard", "submit-pr"}
    Faults = {}
    MaxRequests = 3
INVARIANTS
    StampsAreLinked
    CompletionsMatchClaim
PROPERTIES
    NotErasedWhileOffered
    BoardSpec
CHECK_DEADLOCK FALSE
