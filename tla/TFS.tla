-------------------------------- MODULE TFS --------------------------------
(***************************************************************************)
(* The file system of src/fs, shared by threads: hard and symbolic links,   *)
(* a read-write lock per inode (the root's guards the directory), a mutex   *)
(* per open-file entry and a read-write lock on the open-file table.        *)
(*                                                                           *)
(* A step begins where a thread takes one of these locks, or works under     *)
(* one, and includes the unlocks that follow.  inode_table_rwl and           *)
(* free_blocks_rwl are held for one allocation or deletion and are part of   *)
(* its step.  freeinode_ts, free_blocks and free_open_file_entries are the   *)
(* sets of the indices marked FREE.  Of a file's contents only the size is   *)
(* kept; a symbolic link's block keeps the name it holds.                    *)
(***************************************************************************)
EXTENDS Integers, Sequences, FiniteSets

CONSTANTS Threads, Nobody,
          INODE_TABLE_SIZE, DATA_BLOCKS, BLOCK_SIZE, MAX_OPEN_FILES, MAX_DIR_ENTRIES,
          SizeModulus,     \* 2^w for the width w of size_t
          FileNames,       \* path names a directory entry can hold
          LongNames,       \* path names longer than MAX_FILE_NAME - 1
          Data,            \* what a block holds that is no path name
          Closed,          \* a handle that is not open
          InitialFiles,    \* empty files that were created before the run
          Calls,           \* the calls the threads make
          MaxCalls,        \* how many they make together
          CallersRace      \* whether they make conflicting calls at the same time

Inodes == 0..INODE_TABLE_SIZE - 1
Blocks == 0..DATA_BLOCKS - 1
Handles == 0..MAX_OPEN_FILES - 1
Slots == 0..MAX_DIR_ENTRIES - 1
ROOT_DIR_INUM == 0
ROOT_BLOCK == 0
Names == FileNames \cup LongNames
NoName == "no name"
NoHandle == -1

CallsOf(op) == {c \in Calls : c.op = op}

ASSUME SizesAssumption ==
    /\ INODE_TABLE_SIZE \in Nat \ {0} /\ DATA_BLOCKS \in Nat \ {0}
    /\ BLOCK_SIZE \in Nat \ {0} /\ MAX_OPEN_FILES \in Nat /\ MAX_DIR_ENTRIES \in Nat \ {0}
    /\ SizeModulus \in Nat /\ SizeModulus > 2 * DATA_BLOCKS * BLOCK_SIZE
ASSUME NamesAssumption == /\ FileNames \cap LongNames = {}
                          /\ Data \notin Names /\ NoName \notin Names
                          /\ Closed \notin Inodes
ASSUME CallersAssumption == /\ CallersRace \in BOOLEAN /\ MaxCalls \in Nat
                            /\ Nobody \notin Threads
ASSUME FilesAssumption == /\ InitialFiles \in Seq(FileNames)
                          /\ Len(InitialFiles) < INODE_TABLE_SIZE
                          /\ Len(InitialFiles) <= MAX_DIR_ENTRIES
                          /\ \A i, j \in 1..Len(InitialFiles) :
                                InitialFiles[i] = InitialFiles[j] => i = j
\* the parameters of each function of operations.h; copies open with TRUNC and CREAT
ASSUME CallsAssumption == \A c \in Calls :
    \/ c \in [op : {"open"}, name : Names, mode : SUBSET {"CREAT", "TRUNC", "APPEND"}]
    \/ c \in [op : {"copy"}, name : Names, mode : {{"TRUNC", "CREAT"}}, len : Nat]
    \/ c \in [op : {"link", "sym_link"}, target : Names, name : Names]
    \/ c \in [op : {"unlink"}, name : Names]
    \/ c \in [op : {"close"}, fd : Int]
    \/ c \in [op : {"read", "write"}, fd : Int, len : Nat]
\* no symbolic link to a symbolic link: tfs_open follows a cycle of them for ever
ASSUME NoLinkChains == \A c, d \in CallsOf("sym_link") : c.target # d.name

VARIABLES inode_table, freeinode_ts, dir, free_blocks, fs_data,
          open_file_table, free_open_file_entries,
          inode_rwl, entry_lock, open_file_table_rwl,    \* the owner of each lock
          calls,           \* how many calls were made
          pc, loc,         \* of each thread: where it is, its local variables
          fault            \* "none", or why the process is gone

inodes == <<inode_table, freeinode_ts>>
blocks == <<free_blocks, fs_data>>
handles == <<open_file_table, free_open_file_entries>>
locks == <<inode_rwl, entry_lock, open_file_table_rwl>>
vars == <<inodes, dir, blocks, handles, locks, calls, pc, loc, fault>>

NoCall == [op |-> "none"]
NoLocals == [call |-> NoCall, name |-> NoName, fd |-> NoHandle, inum |-> -1, offset |-> 0]

\* inode_create's new inode: no block yet, and for a link none of its size ever used
NewInode(type) == [i_node_type |-> type, i_links_count |-> 1, i_size |-> 0,
                   i_data_block |-> -1]
RootInode == [i_node_type |-> "T_DIRECTORY", i_links_count |-> 1, i_size |-> BLOCK_SIZE,
              i_data_block |-> ROOT_BLOCK]

\* tfs_init, then some creations: the root directory is inode 0 and block 0 (which is
\* dir here), the files are the inodes and entries that follow
Init ==
    /\ inode_table = [i \in Inodes |-> IF i = ROOT_DIR_INUM THEN RootInode
                                       ELSE NewInode("T_FILE")]
    /\ freeinode_ts = Inodes \ 0..Len(InitialFiles)
    /\ dir = [s \in Slots |->
          IF s < Len(InitialFiles) THEN [d_name |-> InitialFiles[s + 1], d_inumber |-> s + 1]
          ELSE [d_name |-> NoName, d_inumber |-> -1]]
    /\ free_blocks = Blocks \ {ROOT_BLOCK}
    /\ fs_data = [b \in Blocks |-> Data]
    /\ open_file_table = [h \in Handles |-> [of_inumber |-> 0, of_offset |-> 0]]
    /\ free_open_file_entries = Handles
    /\ inode_rwl = [i \in Inodes |-> Nobody]
    /\ entry_lock = [h \in Handles |-> Nobody]
    /\ open_file_table_rwl = Nobody
    /\ calls = 0
    /\ pc = [t \in Threads |-> "idle"]
    /\ loc = [t \in Threads |-> NoLocals]
    /\ fault = "none"

-----------------------------------------------------------------------------
(* state.c *)

\* the searches for a free inode, block, handle or entry take the first
First(S) == CHOOSE i \in S : \A j \in S : i <= j

EntriesOf(name) == {s \in Slots : dir[s].d_inumber # -1 /\ dir[s].d_name = name}
find_in_dir(name) == IF EntriesOf(name) = {} THEN -1
                     ELSE dir[First(EntriesOf(name))].d_inumber

FreeSlots == {s \in Slots : dir[s].d_inumber = -1}
RoomFor(name) == name \in FileNames /\ FreeSlots # {}
add_dir_entry(name, inum) ==
    dir' = [dir EXCEPT ![First(FreeSlots)] = [d_name |-> name, d_inumber |-> inum]]

clear_dir_entry(name) ==
    dir' = [dir EXCEPT ![First(EntriesOf(name))] = [d_name |-> NoName, d_inumber |-> -1]]

\* the entry of an open handle (get_open_file_entry, without any lock)
IsOpenHandle(fd) == fd \in Handles \ free_open_file_entries

\* mutant: the search skips the first entry
is_in_open_file_table_from_1(inum) == \E h \in Handles \ (free_open_file_entries \cup {0}) :
                                         open_file_table[h].of_inumber = inum

is_in_open_file_table(inum) == \E h \in Handles \ free_open_file_entries :
                                  open_file_table[h].of_inumber = inum

\* only a size above 0 gives the block back: the block of a link is lost
inode_delete(inum) ==
    /\ freeinode_ts' = freeinode_ts \cup {inum}
    /\ free_blocks' = IF inode_table[inum].i_size > 0 /\ inum \notin freeinode_ts
                      THEN free_blocks \cup {inode_table[inum].i_data_block}
                      ELSE free_blocks

-----------------------------------------------------------------------------
(* The callers *)

\* the names an open of name may look up: its own and the target it may be a link to
LooksUp(name) == {name} \cup {c.target : c \in {d \in CallsOf("sym_link") : d.name = name}}

Opens(c) == c.op \in {"open", "copy"}
Uses(c) == c.op \in {"close", "read", "write"}

\* a file is not unlinked while it is being opened
OpenVersusUnlink(c, d) == Opens(c) /\ d.op = "unlink" /\ d.name \in LooksUp(c.name)

\* a handle is used after the call that opens it, and closed after all other uses
UseVersusClose(c, t) == /\ Uses(c) /\ loc[t].fd = c.fd
                        /\ ~({c.op, loc[t].call.op} \subseteq {"read", "write"})

Conflicts(c, t) == \/ OpenVersusUnlink(c, loc[t].call) \/ OpenVersusUnlink(loc[t].call, c)
                   \/ UseVersusClose(c, t)

\* where a call first takes a lock
FirstStep(c) == CASE Opens(c) -> "o_lookup"
                  [] c.op = "sym_link" -> "y_lookup"
                  [] c.op = "link" -> "k_lookup"
                  [] c.op = "unlink" -> "u_lookup"
                  [] c.op = "close" -> "c_remove"
                  [] c.op = "write" -> "w_entry"
                  [] c.op = "read" -> "r_entry"

\* A call that is refused before its first lock (a closed handle, an invalid name, an
\* external file above BLOCK_SIZE) returns -1 and is no step.
Call(t, c) == /\ pc[t] = "idle" /\ calls < MaxCalls
              /\ calls' = calls + 1
              /\ Uses(c) => IsOpenHandle(c.fd)
              /\ c.op = "copy" => c.len <= BLOCK_SIZE
              /\ CallersRace \/ \A u \in Threads : pc[u] # "idle" => ~Conflicts(c, u)
              /\ pc' = [pc EXCEPT ![t] = FirstStep(c)]
              /\ loc' = [loc EXCEPT ![t] =
                    [NoLocals EXCEPT !.call = c,
                                     !.name = IF Uses(c) THEN NoName ELSE c.name,
                                     !.fd = IF Uses(c) THEN c.fd ELSE NoHandle]]
              /\ UNCHANGED <<inodes, dir, blocks, handles, locks, fault>>

-----------------------------------------------------------------------------
Goto(t, to) == pc' = [pc EXCEPT ![t] = to]

Return(t) == /\ pc' = [pc EXCEPT ![t] = "idle"]
             /\ loc' = [loc EXCEPT ![t] = NoLocals]

Free(i) == inode_rwl[i] = Nobody
LockInode(t, i) == Free(i) /\ inode_rwl' = [inode_rwl EXCEPT ![i] = t]
UnlockInodes(S) == inode_rwl' = [i \in Inodes |-> IF i \in S THEN Nobody ELSE inode_rwl[i]]

\* the process ends: a NULL pointer is followed, or a copy leaves fs_data
Dies(why) == /\ fault' = why
             /\ UNCHANGED <<inodes, dir, blocks, handles, locks, pc, loc>>

(* tfs_open *)

\* mutant: the root's lock is given back before the file is created
O_Lookup_unlocked(t) ==
    LET inum == find_in_dir(loc[t].name) IN
    /\ pc[t] = "o_lookup"
    /\ Free(ROOT_DIR_INUM)
    /\ \/ /\ inum # -1 \/ "CREAT" \in loc[t].call.mode
          /\ Goto(t, IF inum # -1 THEN "o_inode" ELSE "o_create")
          /\ loc' = [loc EXCEPT ![t].inum = inum]
       \/ /\ inum = -1 /\ "CREAT" \notin loc[t].call.mode
          /\ Return(t)
    /\ UNCHANGED <<inodes, dir, blocks, handles, locks, fault>>

\* under the root's lock, which a file that exists does not need any more
O_Lookup(t) ==
    LET name == loc[t].name
        inum == find_in_dir(name)
    IN
    /\ pc[t] = "o_lookup"
    /\ \/ /\ inum # -1
          /\ Free(ROOT_DIR_INUM)
          /\ Goto(t, "o_inode")
          /\ loc' = [loc EXCEPT ![t].inum = inum]
          /\ UNCHANGED inode_rwl
       \/ /\ inum = -1 /\ "CREAT" \in loc[t].call.mode
          /\ LockInode(t, ROOT_DIR_INUM)
          /\ Goto(t, "o_create")
          /\ UNCHANGED loc
       \/ /\ inum = -1 /\ "CREAT" \notin loc[t].call.mode
          /\ name \in Names => Free(ROOT_DIR_INUM)     \* else valid_pathname refuses it
          /\ Return(t)
          /\ UNCHANGED inode_rwl
    /\ UNCHANGED <<inodes, dir, blocks, handles, entry_lock, open_file_table_rwl, fault>>

\* inode_create also initialises the inode's lock, whoever holds it
O_Create(t) ==
    LET inum == First(freeinode_ts) IN
    /\ pc[t] = "o_create"
    /\ \/ /\ freeinode_ts = {}
          /\ Return(t)
          /\ UnlockInodes({ROOT_DIR_INUM})
          /\ UNCHANGED <<inodes, dir>>
       \/ /\ freeinode_ts # {}
          /\ inode_table' = [inode_table EXCEPT ![inum] = NewInode("T_FILE")]
          /\ UnlockInodes({ROOT_DIR_INUM, inum})
          /\ \/ /\ RoomFor(loc[t].name)
                /\ freeinode_ts' = freeinode_ts \ {inum}
                /\ add_dir_entry(loc[t].name, inum)
                /\ Goto(t, "o_add")
                /\ loc' = [loc EXCEPT ![t].inum = inum, ![t].offset = 0]
             \/ /\ ~RoomFor(loc[t].name)
                /\ Return(t)
                /\ UNCHANGED <<freeinode_ts, dir>>
    /\ UNCHANGED <<blocks, handles, entry_lock, open_file_table_rwl, fault>>

\* the inode of a file that exists: a link is followed, a file truncated
O_Inode(t) ==
    LET inum == loc[t].inum
        mode == loc[t].call.mode
        inode == inode_table[inum]
        link == inode.i_node_type = "T_LINK"
        trunc == "TRUNC" \in mode /\ inode.i_size > 0
    IN
    /\ pc[t] = "o_inode"
    /\ Free(inum)
    /\ \/ /\ link /\ "CREAT" \in mode
          /\ Return(t)
          /\ UNCHANGED <<inode_rwl, fault>>
       \/ /\ link /\ "CREAT" \notin mode
          /\ IF inode.i_data_block = -1 THEN Dies("NULL")
             ELSE /\ Goto(t, "o_lookup")
                  /\ loc' = [loc EXCEPT ![t].name = fs_data[inode.i_data_block]]
                  /\ UNCHANGED <<inode_rwl, fault>>
       \/ /\ ~link /\ trunc
          /\ LockInode(t, inum)
          /\ Goto(t, "o_trunc")
          /\ UNCHANGED <<loc, fault>>
       \/ /\ ~link /\ ~trunc
          /\ Goto(t, "o_add")
          /\ loc' = [loc EXCEPT ![t].offset = IF "APPEND" \in mode THEN inode.i_size ELSE 0]
          /\ UNCHANGED <<inode_rwl, fault>>
    /\ UNCHANGED <<inodes, dir, blocks, handles, entry_lock, open_file_table_rwl>>

\* mutant: the block is given back and the size kept
O_Trunc_keeps_size(t) ==
    /\ pc[t] = "o_trunc"
    /\ free_blocks' = free_blocks \cup {inode_table[loc[t].inum].i_data_block}
    /\ UnlockInodes({loc[t].inum})
    /\ Goto(t, "o_add")
    /\ UNCHANGED <<inodes, dir, fs_data, handles, entry_lock, open_file_table_rwl, loc, fault>>

O_Trunc(t) ==
    LET inum == loc[t].inum IN
    /\ pc[t] = "o_trunc"
    /\ free_blocks' = free_blocks \cup {inode_table[inum].i_data_block}
    /\ inode_table' = [inode_table EXCEPT ![inum].i_size = 0]
    /\ UnlockInodes({inum})
    /\ Goto(t, "o_add")
    /\ loc' = [loc EXCEPT ![t].offset = 0]
    /\ UNCHANGED <<freeinode_ts, dir, fs_data, handles, entry_lock, open_file_table_rwl,
                   fault>>

\* add_to_open_file_table: the handle is TAKEN, its entry locked in the next step
O_Add(t) ==
    /\ pc[t] = "o_add"
    /\ open_file_table_rwl = Nobody
    /\ \/ /\ free_open_file_entries = {}
          /\ Return(t)
          /\ UNCHANGED <<free_open_file_entries, open_file_table_rwl>>
       \/ /\ free_open_file_entries # {}
          /\ LET fd == First(free_open_file_entries) IN
             /\ free_open_file_entries' = free_open_file_entries \ {fd}
             /\ loc' = [loc EXCEPT ![t].fd = fd]
          /\ open_file_table_rwl' = t
          /\ Goto(t, "o_entry")
    /\ UNCHANGED <<inodes, dir, blocks, open_file_table, inode_rwl, entry_lock, fault>>

\* tfs_copy_from_external_fs goes on to its tfs_write
O_Entry(t) ==
    /\ pc[t] = "o_entry"
    /\ entry_lock[loc[t].fd] = Nobody
    /\ open_file_table' = [open_file_table EXCEPT
          ![loc[t].fd] = [of_inumber |-> loc[t].inum, of_offset |-> loc[t].offset]]
    /\ open_file_table_rwl' = Nobody
    /\ \/ /\ loc[t].call.op = "copy"
          /\ Goto(t, "w_get")
          /\ UNCHANGED loc
       \/ /\ loc[t].call.op = "open"
          /\ Return(t)
    /\ UNCHANGED <<inodes, dir, blocks, free_open_file_entries, inode_rwl, entry_lock, fault>>

-----------------------------------------------------------------------------
(* tfs_sym_link, tfs_link *)

\* both: the target exists and the new name does not
MayLink(c) == find_in_dir(c.target) # -1 /\ find_in_dir(c.name) = -1

Lookup(t, from, to) ==
    /\ pc[t] = from
    /\ \/ /\ MayLink(loc[t].call)
          /\ LockInode(t, ROOT_DIR_INUM)
          /\ Goto(t, to)
          /\ loc' = [loc EXCEPT ![t].inum = find_in_dir(loc[t].call.target)]
       \/ /\ ~MayLink(loc[t].call)
          /\ Free(ROOT_DIR_INUM)
          /\ Return(t)
          /\ UNCHANGED inode_rwl
    /\ UNCHANGED <<inodes, dir, blocks, handles, entry_lock, open_file_table_rwl, fault>>

Y_Lookup(t) == Lookup(t, "y_lookup", "y_create")
K_Lookup(t) == Lookup(t, "k_lookup", "k_inode")

Y_Create(t) ==
    LET inum == First(freeinode_ts) IN
    /\ pc[t] = "y_create"
    /\ \/ /\ freeinode_ts = {}
          /\ Return(t)
          /\ UnlockInodes({ROOT_DIR_INUM})
          /\ UNCHANGED inodes
       \/ /\ freeinode_ts # {}
          /\ inode_table' = [inode_table EXCEPT ![inum] = NewInode("T_LINK")]
          /\ freeinode_ts' = freeinode_ts \ {inum}
          /\ UnlockInodes({inum})
          /\ Goto(t, "y_block")
          /\ loc' = [loc EXCEPT ![t].inum = inum]
    /\ UNCHANGED <<dir, blocks, handles, entry_lock, open_file_table_rwl, fault>>

\* mutant: the new block is not entered in the link's inode
Y_Block_unset(t) ==
    LET bnum == First(free_blocks) IN
    /\ pc[t] = "y_block"
    /\ free_blocks # {} /\ RoomFor(loc[t].name)
    /\ free_blocks' = free_blocks \ {bnum}
    /\ fs_data' = [fs_data EXCEPT ![bnum] = loc[t].call.target]
    /\ add_dir_entry(loc[t].name, loc[t].inum)
    /\ UnlockInodes({ROOT_DIR_INUM})
    /\ Return(t)
    /\ UNCHANGED <<inodes, handles, entry_lock, open_file_table_rwl, fault>>

\* the block with the target's name stays TAKEN when the directory is full
Y_Block(t) ==
    LET inum == loc[t].inum
        bnum == First(free_blocks)
    IN
    /\ pc[t] = "y_block"
    /\ \/ /\ free_blocks = {}
          /\ inode_delete(inum)
          /\ UNCHANGED <<inode_table, dir, fs_data>>
       \/ /\ free_blocks # {}
          /\ free_blocks' = free_blocks \ {bnum}
          /\ fs_data' = [fs_data EXCEPT ![bnum] = loc[t].call.target]
          /\ inode_table' = [inode_table EXCEPT ![inum].i_data_block = bnum]
          /\ \/ /\ RoomFor(loc[t].name)
                /\ add_dir_entry(loc[t].name, inum)
                /\ UNCHANGED freeinode_ts
             \/ /\ ~RoomFor(loc[t].name)
                /\ freeinode_ts' = freeinode_ts \cup {inum}
                /\ UNCHANGED dir
    /\ UnlockInodes({ROOT_DIR_INUM})
    /\ Return(t)
    /\ UNCHANGED <<handles, entry_lock, open_file_table_rwl, fault>>

\* under the target's lock; a link or a full directory makes it fail
K_Inode(t) ==
    LET inum == loc[t].inum
        done == inode_table[inum].i_node_type # "T_LINK" /\ RoomFor(loc[t].name)
    IN
    /\ pc[t] = "k_inode"
    /\ Free(inum)
    /\ \/ /\ done
          /\ add_dir_entry(loc[t].name, inum)
          /\ inode_table' = [inode_table EXCEPT ![inum].i_links_count = @ + 1]
       \/ /\ ~done
          /\ UNCHANGED <<dir, inode_table>>
    /\ UnlockInodes({ROOT_DIR_INUM})
    /\ Return(t)
    /\ UNCHANGED <<freeinode_ts, blocks, handles, entry_lock, open_file_table_rwl, fault>>

-----------------------------------------------------------------------------
(* tfs_unlink *)

U_Lookup(t) ==
    LET inum == find_in_dir(loc[t].name) IN
    /\ pc[t] = "u_lookup"
    /\ \/ /\ inum = -1
          /\ Free(ROOT_DIR_INUM)
          /\ Return(t)
          /\ UNCHANGED inode_rwl
       \/ /\ inum # -1
          /\ LockInode(t, ROOT_DIR_INUM)
          /\ Goto(t, "u_open")
          /\ loc' = [loc EXCEPT ![t].inum = inum]
    /\ UNCHANGED <<inodes, dir, blocks, handles, entry_lock, open_file_table_rwl, fault>>

\* mutant: only the last name of an open file is kept
U_Open_last_name(t) ==
    LET inum == loc[t].inum
        refused == inode_table[inum].i_links_count = 1 /\ is_in_open_file_table(inum)
    IN
    /\ pc[t] = "u_open"
    /\ open_file_table_rwl = Nobody
    /\ \/ /\ refused
          /\ UnlockInodes({ROOT_DIR_INUM})
          /\ Return(t)
          /\ UNCHANGED dir
       \/ /\ ~refused
          /\ clear_dir_entry(loc[t].name)
          /\ Goto(t, "u_inode")
          /\ UNCHANGED <<inode_rwl, loc>>
    /\ UNCHANGED <<inodes, blocks, handles, entry_lock, open_file_table_rwl, fault>>

\* mutant: the refusal leaves the root locked
U_Open_keeps_root(t) ==
    LET refused == is_in_open_file_table(loc[t].inum) IN
    /\ pc[t] = "u_open"
    /\ open_file_table_rwl = Nobody
    /\ \/ /\ refused
          /\ Return(t)
          /\ UNCHANGED dir
       \/ /\ ~refused
          /\ clear_dir_entry(loc[t].name)
          /\ Goto(t, "u_inode")
          /\ UNCHANGED loc
    /\ UNCHANGED <<inodes, blocks, handles, locks, fault>>

\* is_in_open_file_table waits for the table's lock; links are never open
U_Open(t) ==
    LET inum == loc[t].inum
        link == inode_table[inum].i_node_type = "T_LINK"
        refused == ~link /\ is_in_open_file_table(inum)
    IN
    /\ pc[t] = "u_open"
    /\ link \/ open_file_table_rwl = Nobody
    /\ \/ /\ refused
          /\ UnlockInodes({ROOT_DIR_INUM})
          /\ Return(t)
          /\ UNCHANGED dir
       \/ /\ ~refused
          /\ clear_dir_entry(loc[t].name)
          /\ Goto(t, "u_inode")
          /\ UNCHANGED <<inode_rwl, loc>>
    /\ UNCHANGED <<inodes, blocks, handles, entry_lock, open_file_table_rwl, fault>>

U_Inode(t) ==
    LET inum == loc[t].inum IN
    /\ pc[t] = "u_inode"
    /\ \/ /\ inode_table[inum].i_links_count = 1
          /\ LockInode(t, inum)
          /\ Goto(t, "u_delete")
          /\ UNCHANGED <<inode_table, loc>>
       \/ /\ inode_table[inum].i_links_count # 1
          /\ Free(inum)
          /\ inode_table' = [inode_table EXCEPT ![inum].i_links_count = @ - 1]
          /\ UnlockInodes({ROOT_DIR_INUM})
          /\ Return(t)
    /\ UNCHANGED <<freeinode_ts, dir, blocks, handles, entry_lock, open_file_table_rwl, fault>>

\* an inode that is FREE already makes it return with the inode locked
U_Delete(t) ==
    LET inum == loc[t].inum IN
    /\ pc[t] = "u_delete"
    /\ inode_delete(inum)
    /\ UnlockInodes(IF inum \in freeinode_ts THEN {ROOT_DIR_INUM} ELSE {ROOT_DIR_INUM, inum})
    /\ Return(t)
    /\ UNCHANGED <<inode_table, dir, fs_data, handles, entry_lock, open_file_table_rwl, fault>>

-----------------------------------------------------------------------------
(* tfs_close, tfs_write, tfs_read *)

\* remove_from_open_file_table
C_Remove(t) ==
    /\ pc[t] = "c_remove"
    /\ open_file_table_rwl = Nobody
    /\ free_open_file_entries' = free_open_file_entries \cup {loc[t].fd}
    /\ Return(t)
    /\ UNCHANGED <<inodes, dir, blocks, open_file_table, locks, fault>>

\* the end of a tfs_write: tfs_copy_from_external_fs closes the handle, also after -1
WriteReturns(t) ==
    \/ /\ loc[t].call.op = "copy"
       /\ IF IsOpenHandle(loc[t].fd) THEN Goto(t, "c_remove") /\ UNCHANGED loc
          ELSE Return(t)
    \/ /\ loc[t].call.op = "write"
       /\ Return(t)

\* tfs_copy_from_external_fs has its handle; tfs_write looks whether it is open
W_Get(t) ==
    /\ pc[t] = "w_get"
    /\ IF IsOpenHandle(loc[t].fd) THEN Goto(t, "w_entry") /\ UNCHANGED loc ELSE Return(t)
    /\ UNCHANGED <<inodes, dir, blocks, handles, locks, fault>>

LockEntry(t, from, to) ==
    /\ pc[t] = from
    /\ entry_lock[loc[t].fd] = Nobody
    /\ entry_lock' = [entry_lock EXCEPT ![loc[t].fd] = t]
    /\ Goto(t, to)
    /\ UNCHANGED <<inodes, dir, blocks, handles, inode_rwl, open_file_table_rwl, loc, fault>>

UnlockEntry(t) == entry_lock' = [entry_lock EXCEPT ![loc[t].fd] = Nobody]

W_Entry(t) == LockEntry(t, "w_entry", "w_inode")
R_Entry(t) == LockEntry(t, "r_entry", "r_copy")

\* mutant: the size of a block is ignored
ToWrite_unbounded(offset, len) == len

\* a file is one block: what does not fit is not written
ToWrite(offset, len) == IF len + offset > BLOCK_SIZE THEN (BLOCK_SIZE - offset) % SizeModulus
                        ELSE len

W_Inode(t) ==
    LET entry == open_file_table[loc[t].fd] IN
    /\ pc[t] = "w_inode"
    /\ \/ /\ ToWrite(entry.of_offset, loc[t].call.len) = 0
          /\ Free(entry.of_inumber)
          /\ UnlockEntry(t)
          /\ WriteReturns(t)
          /\ UNCHANGED inode_rwl
       \/ /\ ToWrite(entry.of_offset, loc[t].call.len) > 0
          /\ LockInode(t, entry.of_inumber)
          /\ Goto(t, "w_copy")
          /\ UNCHANGED <<entry_lock, loc>>
    /\ UNCHANGED <<inodes, dir, blocks, handles, open_file_table_rwl, fault>>

\* memcpy writes into the block, and the offset and the size follow
WriteBlock(fd, inum, bnum, offset, n) ==
    /\ fs_data' = [fs_data EXCEPT ![bnum] = Data]
    /\ open_file_table' = [open_file_table EXCEPT ![fd].of_offset = offset + n]
    /\ inode_table' = [inode_table EXCEPT
          ![inum].i_data_block = bnum,
          ![inum].i_size = IF offset + n > @ THEN offset + n ELSE @]

\* an empty file gets a block; an offset past the end of it has made to_write huge
W_Copy(t) ==
    LET fd == loc[t].fd
        offset == open_file_table[fd].of_offset
        inum == open_file_table[fd].of_inumber
        empty == inode_table[inum].i_size = 0
        bnum == IF empty THEN First(free_blocks) ELSE inode_table[inum].i_data_block
    IN
    /\ pc[t] = "w_copy"
    /\ \/ /\ empty /\ free_blocks = {}
          /\ UnlockInodes({inum}) /\ UnlockEntry(t)
          /\ WriteReturns(t)
          /\ UNCHANGED <<inode_table, blocks, open_file_table, fault>>
       \/ /\ offset > BLOCK_SIZE /\ (empty => free_blocks # {})
          /\ Dies("overrun")
       \/ /\ offset <= BLOCK_SIZE /\ (empty => free_blocks # {})
          /\ WriteBlock(fd, inum, bnum, offset, ToWrite(offset, loc[t].call.len))
          /\ free_blocks' = IF empty THEN free_blocks \ {bnum} ELSE free_blocks
          /\ UnlockInodes({inum}) /\ UnlockEntry(t)
          /\ WriteReturns(t)
          /\ UNCHANGED fault
    /\ UNCHANGED <<freeinode_ts, dir, free_open_file_entries, open_file_table_rwl>>

\* i_size - of_offset is unsigned: an offset past the end makes it huge
ToRead(entry, len) ==
    LET left == (inode_table[entry.of_inumber].i_size - entry.of_offset) % SizeModulus
    IN  IF left > len THEN len ELSE left

\* under the inode's read lock; the copy may run out of fs_data
R_Copy(t) ==
    LET fd == loc[t].fd
        entry == open_file_table[fd]
        bnum == inode_table[entry.of_inumber].i_data_block
        to_read == IF bnum = -1 THEN 0 ELSE ToRead(entry, loc[t].call.len)
    IN
    /\ pc[t] = "r_copy"
    /\ Free(entry.of_inumber)
    /\ \/ /\ bnum * BLOCK_SIZE + entry.of_offset + to_read > DATA_BLOCKS * BLOCK_SIZE
          /\ Dies("overrun")
       \/ /\ bnum * BLOCK_SIZE + entry.of_offset + to_read <= DATA_BLOCKS * BLOCK_SIZE
          /\ open_file_table' = [open_file_table EXCEPT ![fd].of_offset = @ + to_read]
          /\ UnlockEntry(t)
          /\ Return(t)
          /\ UNCHANGED fault
    /\ UNCHANGED <<inodes, dir, blocks, free_open_file_entries, inode_rwl,
                   open_file_table_rwl>>

-----------------------------------------------------------------------------
Step(t) == /\ fault = "none"
           /\ UNCHANGED calls
           /\ \/ O_Lookup(t) \/ O_Create(t) \/ O_Inode(t) \/ O_Trunc(t) \/ O_Add(t)
              \/ O_Entry(t) \/ Y_Lookup(t) \/ Y_Create(t) \/ Y_Block(t) \/ K_Lookup(t)
              \/ K_Inode(t) \/ U_Lookup(t) \/ U_Open(t) \/ U_Inode(t) \/ U_Delete(t)
              \/ C_Remove(t) \/ W_Get(t) \/ W_Entry(t) \/ W_Inode(t) \/ W_Copy(t)
              \/ R_Entry(t) \/ R_Copy(t)

Next == \/ \E t \in Threads, c \in Calls : fault = "none" /\ Call(t, c)
        \/ \E t \in Threads : Step(t)

(* The process goes on while some thread can: as the calls are finitely      *)
(* many, no more is needed for each to end.  Nobody has to call.             *)
Spec == Init /\ [][Next]_vars /\ WF_vars(\E t \in Threads : Step(t))

-----------------------------------------------------------------------------
(* Properties *)

StepPCs == {"idle", "o_lookup", "o_create", "o_inode", "o_trunc", "o_add", "o_entry",
            "y_lookup", "y_create", "y_block", "k_lookup", "k_inode", "u_lookup", "u_open",
            "u_inode", "u_delete", "c_remove", "w_get", "w_entry", "w_inode", "w_copy",
            "r_entry", "r_copy"}

(* Types of the tables: a file never outgrows its block, and an offset, even *)
(* after reads that wrapped around, stays within fs_data.                    *)
TypeOK ==
    /\ inode_table \in [Inodes -> [i_node_type : {"T_FILE", "T_LINK", "T_DIRECTORY"},
                                   i_links_count : 1..MAX_DIR_ENTRIES,
                                   i_size : 0..BLOCK_SIZE, i_data_block : Blocks \cup {-1}]]
    /\ freeinode_ts \subseteq Inodes \ {ROOT_DIR_INUM}
    /\ dir \in [Slots -> [d_name : FileNames \cup {NoName}, d_inumber : Inodes \cup {-1}]]
    /\ free_blocks \subseteq Blocks \ {ROOT_BLOCK}
    /\ fs_data \in [Blocks -> Names \cup {Data}]
    /\ open_file_table \in [Handles -> [of_inumber : Inodes,
                                        of_offset : 0..DATA_BLOCKS * BLOCK_SIZE]]
    /\ free_open_file_entries \subseteq Handles
    /\ inode_rwl \in [Inodes -> Threads \cup {Nobody}]
    /\ entry_lock \in [Handles -> Threads \cup {Nobody}]
    /\ open_file_table_rwl \in Threads \cup {Nobody}
    /\ calls \in 0..MaxCalls
    /\ pc \in [Threads -> StepPCs]
    /\ fault \in {"none", "NULL", "overrun"}

Taken == Inodes \ (freeinode_ts \cup {ROOT_DIR_INUM})

(* While nobody works on the directory, no name has two entries, the link    *)
(* count of every inode in use is the number of its entries, and every entry *)
(* is of an inode in use: nothing is created twice, lost or deleted too      *)
(* early, whatever fails half-way.                                           *)
LinksCounted == inode_rwl[ROOT_DIR_INUM] = Nobody =>
    /\ \A n \in FileNames : Cardinality(EntriesOf(n)) <= 1
    /\ \A i \in Taken :
          inode_table[i].i_links_count = Cardinality({s \in Slots : dir[s].d_inumber = i})
    /\ \A s \in Slots : dir[s].d_inumber \in Taken \cup {-1}

\* the inodes that own a block: files with contents, links, the root directory
Owners == {i \in Inodes \ freeinode_ts :
              \/ inode_table[i].i_size > 0
              \/ inode_table[i].i_node_type = "T_LINK" /\ inode_table[i].i_data_block # -1}

(* A block in use belongs to one file or link and is not FREE: neither a     *)
(* truncation that races a write nor a creation that failed returns it       *)
(* twice or leaves it with two owners.                                       *)
BlocksOwned ==
    /\ \A i \in Owners : inode_table[i].i_data_block \in Blocks \ free_blocks
    /\ \A i, j \in Owners : i # j => inode_table[i].i_data_block # inode_table[j].i_data_block

\* a handle add_to_open_file_table has not finished with
Pending(h) == \E t \in Threads : pc[t] = "o_entry" /\ loc[t].fd = h

EntryFor(inum) ==
    CASE inum = -1 -> [type |-> "none"]
      [] inum # -1 /\ inode_table[inum].i_node_type = "T_LINK" ->
            [type |-> "link", target |-> fs_data[inode_table[inum].i_data_block]]
      [] OTHER -> [type |-> "file", id |-> inum]

\* what each name stands for and what each handle is open on
nsBar == [n \in FileNames |-> EntryFor(find_in_dir(n))]
openedBar == [h \in Handles |-> IF IsOpenHandle(h) /\ ~Pending(h)
                                THEN open_file_table[h].of_inumber ELSE Closed]

NS == INSTANCE Namespace WITH Names <- FileNames, Files <- Inodes,
                              ns <- nsBar, opened <- openedBar

(* To threads that do not race an open with an unlink of the same name, nor  *)
(* the uses of a handle with its close, the fine-grained locks give one      *)
(* directory with atomic operations, in which an open file keeps its names.  *)
ImplementsNamespace == NS!Spec

(* Every call returns: the locks on the directory, inodes, entries and table *)
(* are taken in one order and released on every way out.                     *)
CallsReturn == \A t \in Threads : pc[t] # "idle" ~> (pc[t] = "idle" \/ fault # "none")

(* tfs_open follows no symbolic link that has no block yet: data_block_get   *)
(* never gets -1, and no NULL is read as a path name, because a link has an  *)
(* entry only once its block holds the target.                               *)
NoNullTarget == fault # "NULL"

(* operations.c, tfs_read: "cannot delete open file in this implementation". *)
(* The inode of an open handle is in use.                                    *)
OpenFilesExist == \A h \in Handles :
    IsOpenHandle(h) /\ ~Pending(h) => open_file_table[h].of_inumber \in Taken
=============================================================================
