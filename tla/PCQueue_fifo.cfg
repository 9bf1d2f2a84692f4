CONSTANTS
    Pushers = {p1}
    Poppers = {c1, c2}
    Capacity = 2
    Elems = {a, b}
    None = None
    NoThread = NoThread
SPECIFICATION FairSpec
INVARIANTS TypeOK LockOwnership RingConsistent
PROPERTIES ImplementsFIFO SizeLockReleased
