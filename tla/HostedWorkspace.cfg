\* Two requests and a change, a request or a change beside a bootstrap or connect,
\* a request and two changes; a request beside a change or a bootstrap with a reconnect.
\* One new pull request upstream, two pending caches.
SPECIFICATION MCSpec
CONSTANTS
    Serves = {r1, r2}
    Boots = {w1}
    Changes = {m1, m2}
    r1 = r1
    r2 = r2
    w1 = w1
    m1 = m1
    m2 = m2
    Nobody = Nobody
    MaxListing = 1
    MaxRecord = 2
    MaxCaches = 2
INVARIANTS
    AnsweredChangesShow
    StopIsFinal
PROPERTIES
    ListingsMoveForward
    EveryWorkspaceRequestEnds
CHECK_DEADLOCK FALSE
