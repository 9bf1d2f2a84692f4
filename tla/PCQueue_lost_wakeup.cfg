CONSTANTS
    Pushers = {p1}
    Poppers = {c1}
    Capacity = 1
    Elems = {a}
    None = None
    NoThread = NoThread
SPECIFICATION FairSpec
PROPERTY NobodySleepsInVain
