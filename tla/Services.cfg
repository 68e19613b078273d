\* Two redemptions and two patches of one subject; copies of two signed calls; three
\* data keys in a cache of two; two rigs and two scripts about one item; two mutations
\* and a GET of the pages of two names of one upstream; two review commands about one
\* branch; two requests of each kind of listing.
SPECIFICATION MCSpec
CONSTANTS
    Subjects = {s1}
    Tokens = {t1, t2}
    Redeems = {r1, r2}
    Patches = {p1, p2}
    u1 = u1
    u2 = u2
    g = g
    x = x
    Approved <- OneOrBoth
    Asks <- EachKind
    Upstreams = {u1, u2}
    Rigs = {g}
    Configs = {x}
    None = None
    TTL = 1
    MaxTime = 1
    Calls = {c1, c2}
    Copies = {1, 2}
    Skew = 1
    Drift = 1
    LastTick = 2
    Envelopes = {e1, e2, e3}
    Decrypts = {d1, d2}
    Buffers = {1, 2, 3, 4, 5, 6}
    Zero = Zero
    MaxEntries = 2
    v1 = v1
    Handles = {v1, v2}
    Admins = {v2}
    NoRig = NoRig
    Gone = Gone
    MaxWrites = 2
    MaxBadReads = 1
    UpstreamNames = {hop, wasteland}
    Alias = hop
    Proper = wasteland
    Viewers = {v1}
    Anon = anon
    WantedIDs = {i1}
    Filters = {all}
    Gets = {g1}
    Edits = {m1, m2}
    NoPage = NoPage
    MaxCommits = 2
    Reviewers = {v1, v2}
    Elsewhere = {o1}
    NoCopy = NoCopy
    MaxChanges = 2
    MaxReviewFaults = 1
    MaxVerdicts = 2
    MaxShells = 2
    Requesters = {q1, q2}
    Refreshers = {f1, f2}
    NoListing = NoListing
    FreshFor = 1
    MaxHub = 1
    LastMoment = 1
INVARIANTS
    NoneWaitsForever
    RedeemedOnce
    AdmittedOnceWhileValid
    OpensWithItsKey
    OfferedIsAccepted
    ListAndDetailAgree
    StoredPagesAreWhole
    AcknowledgedIsShown
    PresentedWhole
    AnswersMoveForward
    StoppedIsQuiet
PROPERTIES
    StoreSpec
    OnlyDeleteRemoves
CHECK_DEADLOCK FALSE
