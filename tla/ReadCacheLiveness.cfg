\* One key under two mutations and two fetches at a time, without symmetry: retries
\* behind overtaken fetches, and the answer every request is owed.
SPECIFICATION FairSpec
CONSTANTS
    Keys = {k1}
    Readers = {r1, r2}
    Writers = {w1}
    Calls = {c1, c2}
    None = None
    MaxAge = 0
    MaxEntries = 1
    MaxVersion = 2
    MaxNow = 1
PROPERTIES
    EveryRequestAnswered
CHECK_DEADLOCK FALSE
