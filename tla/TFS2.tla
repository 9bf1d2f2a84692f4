------------------------------- MODULE TFS2 -------------------------------
(***************************************************************************)
(* The file system inside the broker, src/fs2: inode table, root directory, *)
(* data blocks and open-file table.  Every tfs_* function runs from its      *)
(* first to its last line under g_library_mutex, so each is one step; its    *)
(* result is the parameter ret.  There are no links: a file is a name of     *)
(* the root directory.                                                       *)
(*                                                                           *)
(* freeinode_ts, free_blocks and free_open_file_entries are the sets of the  *)
(* indices marked FREE.  fs_data is one array, as in the code: an offset     *)
(* past the end of a block lands in the next one.  The root directory's own  *)
(* block, ROOT_BLOCK, is the variable dir.                                   *)
(***************************************************************************)
EXTENDS Integers, Sequences

CONSTANTS INODE_TABLE_SIZE, DATA_BLOCKS, BLOCK_SIZE, MAX_OPEN_FILES,
          MAX_DIR_ENTRIES,
          SizeModulus,     \* 2^w for the width w of size_t
          FileNames,       \* path names a directory entry can hold
          LongNames,       \* path names longer than MAX_FILE_NAME - 1
          InvalidNames,    \* names valid_pathname refuses
          Bytes,
          Junk             \* a byte of fs_data no write has reached yet

ASSUME SizesAssumption ==
    /\ INODE_TABLE_SIZE \in Nat \ {0} /\ DATA_BLOCKS \in Nat \ {0}
    /\ BLOCK_SIZE \in Nat \ {0} /\ MAX_OPEN_FILES \in Nat /\ MAX_DIR_ENTRIES \in Nat
    /\ SizeModulus \in Nat /\ SizeModulus > 2 * DATA_BLOCKS * BLOCK_SIZE
ASSUME NamesAssumption ==
    /\ FileNames \cap LongNames = {}
    /\ (FileNames \cup LongNames) \cap InvalidNames = {}
ASSUME BytesAssumption == Junk \notin Bytes

VARIABLES inode_table, freeinode_ts, dir, free_blocks, fs_data,
          open_file_table, free_open_file_entries,
          fault    \* "none", or why the process is gone

fs == <<inode_table, freeinode_ts, dir, free_blocks, fs_data,
        open_file_table, free_open_file_entries, fault>>

ROOT_DIR_INUM == 0
ROOT_BLOCK == 0
Inodes == 0..INODE_TABLE_SIZE - 1
Blocks == 0..DATA_BLOCKS - 1
Handles == 0..MAX_OPEN_FILES - 1
Slots == 0..MAX_DIR_ENTRIES - 1
Arena == BLOCK_SIZE..DATA_BLOCKS * BLOCK_SIZE - 1   \* fs_data after the root's block

AllNames == FileNames \cup LongNames \cup InvalidNames
NoName == "no name"
Modes == SUBSET {"CREAT", "TRUNC", "APPEND"}

\* the linear searches for a free inode, block, handle or entry take the first
First(S) == CHOOSE i \in S : \A j \in S : i <= j

\* mutant: tfs_init does not mark the root's inode TAKEN
TakenInodes_no_root(files) == 1..Len(files)

TakenInodes(files) == 0..Len(files)

\* tfs_init, then the creation of some files: the root directory is inode 0 and
\* block 0, the files, still empty, are the inodes and entries that follow
FSInitWith(files) ==
    /\ inode_table = [i \in Inodes |->
          IF i = ROOT_DIR_INUM THEN [i_size |-> BLOCK_SIZE, i_data_block |-> ROOT_BLOCK]
          ELSE [i_size |-> 0, i_data_block |-> -1]]
    /\ freeinode_ts = Inodes \ TakenInodes(files)
    /\ dir = [s \in Slots |->
          IF s < Len(files) THEN [d_name |-> files[s + 1], d_inumber |-> s + 1]
          ELSE [d_name |-> NoName, d_inumber |-> -1]]
    /\ free_blocks = Blocks \ {ROOT_BLOCK}
    /\ fs_data = [a \in Arena |-> Junk]
    /\ open_file_table = [h \in Handles |-> [of_inumber |-> 0, of_offset |-> 0]]
    /\ free_open_file_entries = Handles
    /\ fault = "none"

Entries(name) == {s \in Slots : dir[s].d_inumber # -1 /\ dir[s].d_name = name}
find_in_dir(name) == IF Entries(name) = {} THEN -1 ELSE dir[First(Entries(name))].d_inumber
FreeSlots == {s \in Slots : dir[s].d_inumber = -1}

-----------------------------------------------------------------------------
(* tfs_open *)

add_to_open_file_table(inum, offset, ret) ==
    \/ /\ free_open_file_entries = {}
       /\ ret = -1
       /\ UNCHANGED <<open_file_table, free_open_file_entries>>
    \/ /\ free_open_file_entries # {}
       /\ ret = First(free_open_file_entries)
       /\ open_file_table' = [open_file_table EXCEPT
                                ![ret] = [of_inumber |-> inum, of_offset |-> offset]]
       /\ free_open_file_entries' = free_open_file_entries \ {ret}

\* mutant: truncation returns the block and keeps the size
OpenExisting_keeps_size(name, mode, ret) ==
    LET inum == find_in_dir(name)
        inode == inode_table[inum]
    IN  /\ inum # -1
        /\ free_blocks' = IF "TRUNC" \in mode /\ inode.i_size > 0
                          THEN free_blocks \cup {inode.i_data_block} ELSE free_blocks
        /\ add_to_open_file_table(inum, IF "APPEND" \in mode THEN inode.i_size ELSE 0, ret)
        /\ UNCHANGED <<inode_table, freeinode_ts, dir, fs_data, fault>>

OpenExisting(name, mode, ret) ==
    LET inum == find_in_dir(name)
        inode == inode_table[inum]
        size == IF "TRUNC" \in mode THEN 0 ELSE inode.i_size
    IN  /\ inum # -1
        /\ inode_table' = [inode_table EXCEPT ![inum].i_size = size]
        /\ free_blocks' = IF size # inode.i_size THEN free_blocks \cup {inode.i_data_block}
                          ELSE free_blocks
        /\ add_to_open_file_table(inum, IF "APPEND" \in mode THEN size ELSE 0, ret)
        /\ UNCHANGED <<freeinode_ts, dir, fs_data, fault>>

\* mutant: a reused inode keeps the size and block of the file it was
InitialInode_stale(inum) == inode_table[inum]

\* inode_create(T_FILE): an empty file without a block
InitialInode(inum) == [i_size |-> 0, i_data_block |-> -1]

\* inode_create(T_FILE), then add_dir_entry, which inode_delete undoes on failure
OpenCreate(name, ret) ==
    LET inum == First(freeinode_ts)
        slot == First(FreeSlots)
    IN  /\ freeinode_ts # {}
        /\ inode_table' = [inode_table EXCEPT ![inum] = InitialInode(inum)]
        /\ \/ /\ name \in LongNames \/ FreeSlots = {}
              /\ ret = -1
              /\ UNCHANGED <<freeinode_ts, dir, open_file_table, free_open_file_entries>>
           \/ /\ name \in FileNames /\ FreeSlots # {}
              /\ freeinode_ts' = freeinode_ts \ {inum}
              /\ dir' = [dir EXCEPT ![slot] = [d_name |-> name, d_inumber |-> inum]]
              /\ add_to_open_file_table(inum, 0, ret)
        /\ UNCHANGED <<free_blocks, fs_data, fault>>

tfs_open(name, mode, ret) ==
    \/ /\ name \in InvalidNames
       /\ ret = -1
       /\ UNCHANGED fs
    \/ /\ name \notin InvalidNames
       /\ \/ OpenExisting(name, mode, ret)
          \/ /\ find_in_dir(name) = -1
             /\ "CREAT" \in mode
             /\ OpenCreate(name, ret)
          \/ /\ find_in_dir(name) = -1
             /\ "CREAT" \notin mode \/ freeinode_ts = {}
             /\ ret = -1
             /\ UNCHANGED fs

-----------------------------------------------------------------------------
(* tfs_close, tfs_unlink *)

\* get_open_file_entry finds the handle open
IsOpenHandle(fd) == fd \in Handles \ free_open_file_entries

tfs_close(fd, ret) ==
    \/ /\ ~IsOpenHandle(fd)
       /\ ret = -1
       /\ UNCHANGED fs
    \/ /\ IsOpenHandle(fd)
       /\ ret = 0
       /\ free_open_file_entries' = free_open_file_entries \cup {fd}
       /\ UNCHANGED <<inode_table, freeinode_ts, dir, free_blocks, fs_data,
                      open_file_table, fault>>

\* mutant: the data block is not freed
inode_delete_keeps_block(inum) ==
    /\ freeinode_ts' = freeinode_ts \cup {inum}
    /\ UNCHANGED free_blocks

\* inode_delete leaves the fields of the inode as they are
inode_delete(inum) ==
    /\ free_blocks' = IF inode_table[inum].i_size > 0
                      THEN free_blocks \cup {inode_table[inum].i_data_block}
                      ELSE free_blocks
    /\ freeinode_ts' = freeinode_ts \cup {inum}

\* mutant: the directory entry stays
clear_dir_entry_none(name) == UNCHANGED dir

clear_dir_entry(name) ==
    dir' = [dir EXCEPT ![First(Entries(name))] = [d_name |-> NoName, d_inumber |-> -1]]

\* unlinks open files too: their handles keep the inumber
tfs_unlink(name, ret) ==
    LET inum == find_in_dir(name) IN
    \/ /\ name \in InvalidNames \/ inum = -1
       /\ ret = -1
       /\ UNCHANGED fs
    \/ /\ name \notin InvalidNames
       /\ inum # -1
       /\ inode_delete(inum)
       /\ clear_dir_entry(name)
       /\ ret = 0
       /\ UNCHANGED <<inode_table, fs_data, open_file_table, free_open_file_entries, fault>>

-----------------------------------------------------------------------------
(* tfs_write, tfs_read *)

\* the process ends: an ALWAYS_ASSERT fails, or memcpy runs out of fs_data
Dies(why) == /\ fault' = why
             /\ UNCHANGED <<inode_table, freeinode_ts, dir, free_blocks, fs_data,
                            open_file_table, free_open_file_entries>>

Address(block, offset) == block * BLOCK_SIZE + offset

\* mutant: the size of the file does not count the offset of the write
WriteBytes_short_size(fd, inum, bnum, offset, data, n) ==
    LET at == Address(bnum, offset) IN
    /\ fs_data' = [a \in Arena |-> IF a \in at..at + n - 1 THEN data[a - at + 1]
                                   ELSE fs_data[a]]
    /\ open_file_table' = [open_file_table EXCEPT ![fd].of_offset = offset + n]
    /\ inode_table' = [inode_table EXCEPT ![inum] =
            [i_size |-> IF n > @.i_size THEN n ELSE @.i_size, i_data_block |-> bnum]]

WriteBytes(fd, inum, bnum, offset, data, n) ==
    LET at == Address(bnum, offset) IN
    /\ fs_data' = [a \in Arena |-> IF a \in at..at + n - 1 THEN data[a - at + 1]
                                   ELSE fs_data[a]]
    /\ open_file_table' = [open_file_table EXCEPT ![fd].of_offset = offset + n]
    /\ inode_table' = [inode_table EXCEPT ![inum] =
            [i_size |-> IF offset + n > @.i_size THEN offset + n ELSE @.i_size,
             i_data_block |-> bnum]]

\* mutant: the size of a block is ignored
ToWrite_unbounded(offset, len) == len

\* a file is one block: what does not fit is not written
ToWrite(offset, len) == IF len + offset > BLOCK_SIZE THEN (BLOCK_SIZE - offset) % SizeModulus
                        ELSE len

tfs_write(fd, data, ret) ==
    LET inum == open_file_table[fd].of_inumber
        offset == open_file_table[fd].of_offset
        inode == inode_table[inum]
        to_write == ToWrite(offset, Len(data))
    IN
    \/ /\ ~IsOpenHandle(fd)
       /\ ret = -1
       /\ UNCHANGED fs
    \/ /\ IsOpenHandle(fd)
       /\ to_write = 0
       /\ ret = 0
       /\ UNCHANGED fs
    \/ /\ IsOpenHandle(fd)
       /\ to_write > 0 /\ inode.i_size = 0 /\ free_blocks = {}
       /\ ret = -1
       /\ UNCHANGED fs
    \/ /\ IsOpenHandle(fd)
       /\ offset > BLOCK_SIZE                \* to_write has wrapped around
       /\ inode.i_size = 0 => free_blocks # {}
       /\ ret = -1
       /\ Dies("overrun")
    \/ /\ IsOpenHandle(fd)
       /\ offset <= BLOCK_SIZE /\ to_write > 0
       /\ inode.i_size = 0 => free_blocks # {}
       /\ LET bnum == IF inode.i_size = 0 THEN First(free_blocks) ELSE inode.i_data_block
          IN  /\ free_blocks' = IF inode.i_size = 0 THEN free_blocks \ {bnum} ELSE free_blocks
              /\ WriteBytes(fd, inum, bnum, offset, data, to_write)
       /\ ret = to_write
       /\ UNCHANGED <<freeinode_ts, dir, free_open_file_entries, fault>>

\* i_size - of_offset is unsigned: an offset past the end makes it huge
ToRead(fd, len) ==
    LET left == (inode_table[open_file_table[fd].of_inumber].i_size
                    - open_file_table[fd].of_offset) % SizeModulus
    IN  IF left > len THEN len ELSE left

tfs_read(fd, len, ret, buffer) ==
    LET bnum == inode_table[open_file_table[fd].of_inumber].i_data_block
        to_read == ToRead(fd, len)
        at == Address(bnum, open_file_table[fd].of_offset)
    IN
    \/ /\ ~IsOpenHandle(fd)
       /\ ret = -1 /\ buffer = <<>>
       /\ UNCHANGED fs
    \/ /\ IsOpenHandle(fd)
       /\ to_read = 0
       /\ ret = 0 /\ buffer = <<>>
       /\ UNCHANGED fs
    \/ /\ IsOpenHandle(fd)
       /\ to_read > 0
       /\ bnum \notin Blocks \/ at + to_read - 1 \notin Arena
       /\ ret = -1 /\ buffer = <<>>
       /\ Dies(IF bnum \notin Blocks THEN "assert" ELSE "overrun")
    \/ /\ IsOpenHandle(fd)
       /\ to_read > 0 /\ bnum \in Blocks /\ at + to_read - 1 \in Arena
       /\ ret = to_read
       /\ buffer = [i \in 1..to_read |-> fs_data[at + i - 1]]
       /\ open_file_table' = [open_file_table EXCEPT ![fd].of_offset = @ + to_read]
       /\ UNCHANGED <<inode_table, freeinode_ts, dir, free_blocks, fs_data,
                      free_open_file_entries, fault>>

-----------------------------------------------------------------------------
(* What the tables owe each other, whoever makes the calls *)

(* Every index kept in the state is an index of its table, however the       *)
(* handles, inodes and blocks have been reused.                              *)
TablesTyped ==
    /\ inode_table \in [Inodes -> [i_size : 0..BLOCK_SIZE, i_data_block : Blocks \cup {-1}]]
    /\ freeinode_ts \subseteq Inodes \ {ROOT_DIR_INUM}
    /\ dir \in [Slots -> [d_name : FileNames \cup {NoName}, d_inumber : Inodes \cup {-1}]]
    /\ free_blocks \subseteq Blocks \ {ROOT_BLOCK}
    /\ fs_data \in [Arena -> Bytes \cup {Junk}]
    /\ open_file_table \in [Handles -> [of_inumber : Inodes, of_offset : Nat]]
    /\ free_open_file_entries \subseteq Handles

Live == {i \in Inodes \ freeinode_ts : inode_table[i].i_size > 0}

(* A block belongs to at most one live inode and is not FREE while it does,  *)
(* whatever stale handles are used: no two files share a block.              *)
BlocksOwned ==
    /\ \A i \in Inodes : inode_table[i].i_size > 0 => inode_table[i].i_data_block \in Blocks
    /\ \A i \in Live : inode_table[i].i_data_block \notin free_blocks
    /\ \A i, j \in Live : i # j => inode_table[i].i_data_block # inode_table[j].i_data_block

(* The root directory and the inode table agree: the inodes that are TAKEN   *)
(* are the root's and those of exactly one entry each, and no name appears   *)
(* twice.  inode_delete's assertion "inode already freed" rests on it.       *)
DirectoryConsistent ==
    /\ \A s \in Slots : dir[s].d_inumber # -1 =>
          /\ dir[s].d_inumber \in Inodes \ (freeinode_ts \cup {ROOT_DIR_INUM})
          /\ dir[s].d_name \in FileNames
    /\ \A s, t \in Slots : s # t /\ dir[s].d_inumber # -1 /\ dir[t].d_inumber # -1 =>
          dir[s].d_inumber # dir[t].d_inumber /\ dir[s].d_name # dir[t].d_name
    /\ \A i \in Inodes \ (freeinode_ts \cup {ROOT_DIR_INUM}) :
          \E s \in Slots : dir[s].d_inumber = i

(* The root directory keeps its inode and its block, although inode_create    *)
(* and the writes through stale handles overwrite inodes.                    *)
RootKept == inode_table[ROOT_DIR_INUM] = [i_size |-> BLOCK_SIZE, i_data_block |-> ROOT_BLOCK]

(* An open handle names a file that exists, which tfs_unlink never checks:    *)
(* inode_delete frees the inode whatever handles refer to it.                *)
HandlesLive == \A h \in Handles \ free_open_file_entries :
    open_file_table[h].of_inumber \in Inodes \ (freeinode_ts \cup {ROOT_DIR_INUM})

(* The offset of an open handle is a position of its file, which a            *)
(* truncation through another handle never checks: the unsigned differences   *)
(* of tfs_write and tfs_read rest on it.                                      *)
OffsetsInFile == \A h \in Handles \ free_open_file_entries :
    open_file_table[h].of_offset <= inode_table[open_file_table[h].of_inumber].i_size

(* No block leaks: a block that is not FREE holds the root directory or the  *)
(* data of a live file.                                                      *)
NoBlockLeak == \A b \in Blocks \ free_blocks : \E i \in Live : inode_table[i].i_data_block = b
=============================================================================
