\* One branch, one merge whose push fails because of somebody else's commit, one sync.
SPECIFICATION ReviewSpec
CONSTANTS
    Reviewers = {v1}
    Elsewhere = {o1}
    NoCopy = NoCopy
    MaxChanges = 1
    MaxReviewFaults = 1
    MaxVerdicts = 1
    MaxShells = 2
INVARIANT SyncRetriesThePush
CHECK_DEADLOCK FALSE
