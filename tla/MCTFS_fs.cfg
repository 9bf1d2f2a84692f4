CONSTANTS
    Threads = {t1, t2}
    Nobody = Nobody
    INODE_TABLE_SIZE = 3
    DATA_BLOCKS = 3
    BLOCK_SIZE = 2
    MAX_OPEN_FILES = 2
    MAX_DIR_ENTRIES = 2
    SizeModulus = 64
    f = f
    g = g
    s = s
    long = long
    FileNames = {f, g, s}
    LongNames = {long}
    Data = Data
    Closed = Closed
    InitialFiles <- FileF
    MaxCalls = 5
    Calls <- AllCalls
    CallersRace = FALSE
SPECIFICATION Spec
VIEW LiveView
INVARIANTS TypeOK LinksCounted BlocksOwned OpenFilesExist NoNullTarget
PROPERTIES ImplementsNamespace CallsReturn
CHECK_DEADLOCK FALSE
