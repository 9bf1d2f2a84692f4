CONSTANTS
    p1 = p1
    p2 = p2
    p3 = p3
    s1 = s1
    c1 = c1
    c2 = c2
    c3 = c3
    c4 = c4
    c5 = c5
    d1 = d1
    d2 = d2
    l1 = l1
    f = f
    g = g
    empty = empty
    x = x
    y = y
    Workers = {w1, w2}
    Publishers = {}
    Subscribers = {}
    Creators = {}
    Deleters = {d1, d2}
    Listers = {l1}
    BoxOf <- AsksFor
    Script <- NoMessages
    InitialBoxes <- BoxF
    SpuriousWakeups = FALSE
    Mortal = {d2, l1}
    Interruptible = TRUE
    BOX_COUNT_MAX = 2
    INODE_TABLE_SIZE = 2
    DATA_BLOCKS = 2
    BLOCK_SIZE = 4
    MAX_OPEN_FILES = 3
    MAX_DIR_ENTRIES = 2
    PipeCapacity = 1
    SizeModulus = 64
    FileNames = {f, g}
    LongNames = {}
    InvalidNames = {empty}
    Bytes = {x, y, NUL}
    NUL = NUL
    Junk = Junk
    Nobody = Nobody
SPECIFICATION FairSpec
PROPERTIES  InterruptEndsBroker
CHECK_DEADLOCK FALSE
