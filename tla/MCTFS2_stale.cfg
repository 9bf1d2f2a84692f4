CONSTANTS
    INODE_TABLE_SIZE = 3
    DATA_BLOCKS = 3
    BLOCK_SIZE = 2
    MAX_OPEN_FILES = 2
    MAX_DIR_ENTRIES = 2
    SizeModulus = 64
    FileNames = {f, g}
    LongNames = {long}
    InvalidNames = {invalid}
    Bytes = {x}
    Junk = Junk
    MaxLen = 2
    CallModes = {{"APPEND"}, {"CREAT"}, {"CREAT", "TRUNC"}}
    NoFile = NoFile
    Closed = Closed
    UnlinkOpen = TRUE
    TruncOpen = TRUE
SPECIFICATION Spec
SYMMETRY Symmetry
VIEW TablesView
INVARIANTS RootKept TypeOK BlocksOwned DirectoryConsistent
CHECK_DEADLOCK FALSE
