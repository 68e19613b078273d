\* Six parts, each with the smallest casts in which its races happen.
SPECIFICATION MCSpec
CONSTANTS
    Asks = {a1, a2}
    Connects = {n1}
    MaxSubjects = 2
    MaxSessions = 1
    Absent = Absent
    LastHalf = 2
    b1 = b1
    b2 = b2
    q1 = q1
    q2 = q2
    q3 = q3
    here = here
    there = there
    Branches = {b1, b2}
    Requests = {q1, q2, q3}
    Others = {o1}
    Casts <- MCCasts
    Modes = {"pr", "wild-west"}
    None = None
    MaxSyncs = 1
    MaxCommandFaults = 1
    Orgs = {g1, g2}
    Commands <- MCCommands
    Missing = Missing
    MaxCommands = 3
    MaxStepFaults = 2
    Clients = {k1}
    rate = 2
    burst = 3
    interval = 3
    CutOff = 6
    NoBucket = NoBucket
    MaxTicks = 9
    Items = {i1, i2}
    Nil = Nil
    Slots = {m1, m2}
    MaxKeys = 6
    Lookups = {f1}
    Scans = {l1}
    Writes = {w1}
    Pulls = {k1, k2}
    Heads = {h1}
    Uncached = Uncached
    prCacheTTL = 1
    LastTime = 4
    openPull = k1
INVARIANTS
    ActsForItsSubject
    YoungSessionsReturn
    AcknowledgedIsKept
    MainMirrorsUpstream
    ConfiguredIsRegistered
    RetryHeals
    RateIsKept
    NothingLongClosed
    OwnWritesShow
    ActsOnWhatWasShown
    NeverStuck
    UnconfirmedOnlyInPRMode
CHECK_DEADLOCK FALSE
