\* Every interleaving of two GET handlers, one mutation handler and the
\* detached fetches over two keys, in a cache with room for one entry.
SPECIFICATION Spec
CONSTANTS
    Keys = {k1, k2}
    Readers = {r1, r2}
    Writers = {w1}
    Calls = {c1, c2}
    None = None
    MaxAge = 0
    MaxEntries = 1
    MaxVersion = 1
    MaxNow = 1
SYMMETRY Symmetry
INVARIANTS
    NothingStaleCached
    OneLiveFetch
    BoundedSize
PROPERTIES
    ReadThroughSpec
CHECK_DEADLOCK FALSE
