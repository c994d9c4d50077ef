\* Two keys and four acquire calls.
CONSTANTS
    Keys = {k1, k2}
    Calls = {c1, c2, c3, c4}
    None = None
SPECIFICATION FairSpec
INVARIANTS
    TypeOK
    LockInv
PROPERTIES
    OrderKept
    ImplementsLock
    PriorityServed
    PlainServed
