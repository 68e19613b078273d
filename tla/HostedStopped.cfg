\* Where a cold read of a stopped cache is answered with nothing.
SPECIFICATION MCSpec
CONSTANTS
    Serves = {r1, r2}
    Boots = {w1}
    Changes = {m1, m2}
    r1 = r1
    r2 = r2
    w1 = w1
    m1 = m1
    m2 = m2
    Nobody = Nobody
    MaxListing = 1
    MaxRecord = 2
    MaxCaches = 2
INVARIANT ColdReadsRefresh
CHECK_DEADLOCK FALSE
