----------------------------- MODULE TFS2Proofs -----------------------------
(***************************************************************************)
(* For tables of any size and any sequence of calls, the tables of the      *)
(* broker's file system stay consistent, also when handles outlive their    *)
(* files; while callers do not unlink open files no block leaks; and while   *)
(* they do not truncate them either, the calls implement FileStore.          *)
(***************************************************************************)
EXTENDS TFS2Calls, TFS2Lemmas

(* A caller's buffer is a sequence of bytes of its own length.                *)
LEMMA DataLength ==
  ASSUME NEW data \in Data
  PROVE  /\ Len(data) \in 0..MaxLen /\ data \in [1..Len(data) -> Bytes]
         /\ data \in Seq(Bytes)
<1>1. PICK n \in 0..MaxLen : data \in [1..n -> Bytes]
  BY DEF Data
<1>2. data \in Seq(Bytes) /\ Len(data) = n
  BY <1>1, CallersAssumption
<1> QED BY <1>1, <1>2

(* tfs_init leaves consistent tables.                                         *)
LEMMA InitInv == Init => FsInv
<1> SUFFICES ASSUME Init PROVE FsInv
  OBVIOUS
<1> DEFINE files == <<>>
<1>1. files \in Seq(FileNames) /\ Len(files) = 0
  OBVIOUS
<1>2. FSInitWith(files)
  BY DEF Init
<1> HIDE DEF files
<1>3. /\ Len(files) < INODE_TABLE_SIZE /\ Len(files) <= MAX_DIR_ENTRIES
      /\ \A i, j \in 1..Len(files) : i # j => files[i] # files[j]
  BY <1>1, SizesAssumption
<1> QED BY <1>1, <1>2, <1>3, InitTables

(* Every call of any caller keeps the tables consistent.                      *)
LEMMA StepInv == FsInv /\ [Next]_vars => FsInv'
<1> SUFFICES ASSUME FsInv, [Next]_vars PROVE FsInv'
  OBVIOUS
<1>1. CASE UNCHANGED vars
  BY <1>1 DEF vars, fs, FsInv, TablesTyped, BlocksOwned, DirectoryConsistent, RootKept, Live
<1>2. ASSUME NEW name, NEW mode, Open(name, mode) PROVE FsInv'
  BY <1>2, OpenInv DEF Open
<1>3. ASSUME NEW fd, Close(fd) PROVE FsInv'
  BY <1>3, CloseInv DEF Close
<1>4. ASSUME NEW name, Unlink(name) PROVE FsInv'
  BY <1>4, UnlinkInv DEF Unlink
<1>5. ASSUME NEW fd \in Handles, NEW data \in Data, Write(fd, data) PROVE FsInv'
  <2>1. data \in Seq(Bytes)
    BY DataLength
  <2> QED BY <1>5, <2>1, WriteInv DEF Write
<1>6. ASSUME NEW fd \in Handles, NEW len \in Nat, Read(fd, len) PROVE FsInv'
  BY <1>6, ReadInv DEF Read
<1> QED BY <1>1, <1>2, <1>3, <1>4, <1>5, <1>6, CallersAssumption DEF Next

(* Every index kept in the tables stays an index of its table, for all       *)
(* callers of the tfs_* functions.                                           *)
THEOREM TypeCorrect == Spec => []TypeOK
<1> DEFINE Known == fault \in {"none", "assert", "overrun"}
<1>1. Init => Known
  BY DEF Init, FSInitWith
<1>2. Known /\ [Next]_vars => Known'
  BY DEF Next, vars, fs, Open, Close, Unlink, Write, Read, tfs_open, OpenExisting, OpenCreate,
         tfs_close, tfs_unlink, tfs_write, tfs_read, Dies
<1>3. FsInv /\ Known => TypeOK
  BY DEF FsInv, TypeOK
<1> HIDE DEF Known
<1> QED BY <1>1, <1>2, <1>3, InitInv, StepInv, PTL DEF Spec

(* No two files ever share a block and no block in use is FREE, for all       *)
(* callers: also for those that unlink files that are open, as the broker     *)
(* does, and write through the handles that are left.                        *)
THEOREM BlocksNeverShared == Spec => []BlocksOwned
  BY InitInv, StepInv, PTL DEF Spec, FsInv

(* The root directory names exactly the inodes that are TAKEN, each once.     *)
THEOREM DirectoryAgrees == Spec => []DirectoryConsistent
  BY InitInv, StepInv, PTL DEF Spec, FsInv

(* The root directory is never overwritten, although handles that were never  *)
(* opened hold the root's inumber.                                           *)
THEOREM RootSafe == Spec => []RootKept
  BY InitInv, StepInv, PTL DEF Spec, FsInv

-----------------------------------------------------------------------------
(* Callers that do not unlink open files *)

\* a block leaks when it is written to an inode that is FREE, so that the handles
\* must be live too
LInv == FsInv /\ HandlesLive /\ NoBlockLeak

(* While callers do not unlink open files, no call leaves a handle on an      *)
(* inode that is FREE.                                                        *)
LEMMA HandlesLiveStep ==
  ASSUME ~UnlinkOpen, FsInv, HandlesLive, Next
  PROVE  HandlesLive'
<1>0. TablesTyped /\ BlocksOwned /\ DirectoryConsistent /\ RootKept
  BY DEF FsInv
<1>1. ASSUME NEW inum \in Inodes \ (freeinode_ts' \cup {ROOT_DIR_INUM}), NEW offset, NEW ret,
             add_to_open_file_table(inum, offset, ret), freeinode_ts' \subseteq freeinode_ts
      PROVE  HandlesLive'
  <2>1. CASE UNCHANGED <<open_file_table, free_open_file_entries>>
    BY <1>1, <2>1 DEF HandlesLive
  <2>2. CASE /\ ret \in free_open_file_entries
             /\ open_file_table' = [open_file_table EXCEPT
                                      ![ret] = [of_inumber |-> inum, of_offset |-> offset]]
             /\ free_open_file_entries' = free_open_file_entries \ {ret}
    <3>1. \A h \in Handles : open_file_table'[h].of_inumber =
                               IF h = ret THEN inum ELSE open_file_table[h].of_inumber
      BY <1>0, <2>2 DEF TablesTyped
    <3> QED BY <1>1, <2>2, <3>1 DEF HandlesLive
  <2> QED BY <1>0, <1>1, <2>1, <2>2, HandleGiven
<1>2. ASSUME UNCHANGED <<freeinode_ts, open_file_table, free_open_file_entries>>
      PROVE  HandlesLive'
  BY <1>2 DEF HandlesLive
<1>3. ASSUME NEW name, NEW mode, Open(name, mode) PROVE HandlesLive'
  <2>1. PICK ret : tfs_open(name, mode, ret)
    BY <1>3 DEF Open
  <2>2. CASE UNCHANGED fs
    BY <2>2, <1>2 DEF fs
  <2>3. CASE OpenExisting(name, mode, ret)
    <3>1. find_in_dir(name) \in Inodes \ (freeinode_ts \cup {ROOT_DIR_INUM})
      BY <2>3, <1>0, EntryInode DEF OpenExisting
    <3>2. \E offset : add_to_open_file_table(find_in_dir(name), offset, ret)
      BY <2>3, Zenon DEF OpenExisting
    <3>3. freeinode_ts' = freeinode_ts
      BY <2>3 DEF OpenExisting
    <3> QED BY <3>1, <3>2, <3>3, <1>1
  <2>4. CASE OpenCreate(name, ret)
    <3>1. CASE UNCHANGED <<freeinode_ts, dir, open_file_table, free_open_file_entries>>
      BY <3>1, <1>2
    <3>2. CASE ~ UNCHANGED <<freeinode_ts, dir, open_file_table, free_open_file_entries>>
      <4>1. freeinode_ts # {} /\ freeinode_ts \subseteq Nat
        BY <1>0, <2>4, SizesAssumption DEF OpenCreate, TablesTyped, Inodes
      <4>2. First(freeinode_ts) \in freeinode_ts
        BY <4>1, FirstLeast
      <4>3. /\ freeinode_ts' = freeinode_ts \ {First(freeinode_ts)}
            /\ add_to_open_file_table(First(freeinode_ts), 0, ret)
        BY <2>4, <3>2 DEF OpenCreate
      <4> QED BY <4>2, <4>3, <1>0, <1>1 DEF TablesTyped
    <3> QED BY <3>1, <3>2
  <2> QED BY <2>1, <2>2, <2>3, <2>4 DEF tfs_open
<1>4. ASSUME NEW fd, Close(fd) PROVE HandlesLive'
  <2>1. /\ UNCHANGED <<freeinode_ts, open_file_table>>
        /\ free_open_file_entries \subseteq free_open_file_entries'
    BY <1>4 DEF Close, tfs_close, fs
  <2> QED BY <2>1 DEF HandlesLive
<1>5. ASSUME NEW name, Unlink(name) PROVE HandlesLive'
  <2>1. PICK ret : tfs_unlink(name, ret) /\ ~IsOpen(name)
    BY <1>5 DEF Unlink
  <2>2. CASE UNCHANGED fs
    BY <2>2, <1>2 DEF fs
  <2>3. CASE Unlinks(find_in_dir(name), First(Entries(name)))
    <3>1. /\ freeinode_ts' = freeinode_ts \cup {find_in_dir(name)}
          /\ UNCHANGED <<open_file_table, free_open_file_entries>>
      BY <2>3 DEF Unlinks
    <3>2. \A h \in Handles \ free_open_file_entries :
             open_file_table[h].of_inumber # find_in_dir(name)
      BY <2>1 DEF IsOpen, IsOpenHandle
    <3> QED BY <3>1, <3>2 DEF HandlesLive
  <2> QED BY <1>0, <2>1, <2>2, <2>3, UnlinkEffect
<1>6. ASSUME NEW fd \in Handles, NEW data \in Data, Write(fd, data) PROVE HandlesLive'
  <2>1. PICK ret : tfs_write(fd, data, ret)
    BY <1>6 DEF Write
  <2>2. CASE UNCHANGED fs \/ Dies("overrun")
    BY <2>2, <1>2 DEF fs, Dies
  <2>3. CASE Writes(fd, data)
    <3>1. /\ UNCHANGED <<freeinode_ts, free_open_file_entries>>
          /\ open_file_table' = [open_file_table EXCEPT ![fd] =
               [of_inumber |-> InodeOf(fd), of_offset |-> OffsetOf(fd) + Count(fd, data)]]
      BY <2>3, <1>0, WriteFacts, DataLength DEF Writes
    <3>2. \A h \in Handles : open_file_table'[h].of_inumber = open_file_table[h].of_inumber
      BY <3>1, <1>0 DEF TablesTyped, InodeOf
    <3> QED BY <3>1, <3>2 DEF HandlesLive
  <2> QED BY <2>1, <2>2, <2>3, WriteEffect
<1>7. ASSUME NEW fd \in Handles, NEW len, Read(fd, len) PROVE HandlesLive'
  <2>1. PICK ret, buffer : tfs_read(fd, len, ret, buffer)
    BY <1>7 DEF Read
  <2>2. CASE UNCHANGED fs \/ \E why : Dies(why)
    BY <2>2, <1>2 DEF fs, Dies
  <2>3. CASE /\ open_file_table' = [open_file_table EXCEPT ![fd].of_offset = @ + ToRead(fd, len)]
             /\ UNCHANGED <<freeinode_ts, free_open_file_entries>>
    <3>1. open_file_table' = [open_file_table EXCEPT ![fd] =
            [of_inumber |-> open_file_table[fd].of_inumber,
             of_offset |-> open_file_table[fd].of_offset + ToRead(fd, len)]]
      BY <1>0, <2>3, OffsetExcept
    <3>2. \A h \in Handles : open_file_table'[h].of_inumber = open_file_table[h].of_inumber
      BY <3>1, <1>0 DEF TablesTyped
    <3> QED BY <2>3, <3>2 DEF HandlesLive
  <2> QED BY <2>1, <2>2, <2>3 DEF tfs_read
<1> QED BY <1>3, <1>4, <1>5, <1>6, <1>7 DEF Next

(* While handles name files that exist, every call that takes a block keeps   *)
(* it in a live inode, and every inode that lets a block go returns it.       *)
LEMMA NoBlockLeakStep ==
  ASSUME FsInv, HandlesLive, NoBlockLeak, Next
  PROVE  NoBlockLeak'
<1>0. TablesTyped /\ BlocksOwned /\ DirectoryConsistent /\ RootKept
  BY DEF FsInv
<1>1. ASSUME UNCHANGED <<inode_table, freeinode_ts, free_blocks>> PROVE NoBlockLeak'
  BY <1>1 DEF NoBlockLeak, Live
<1>2. ASSUME NEW inum \in Inodes, NEW size \in Nat, NEW block,
             inode_table' = [inode_table EXCEPT ![inum] = [i_size |-> size, i_data_block |-> block]],
             freeinode_ts' \subseteq freeinode_ts,
             \A b \in Blocks \ free_blocks' :
                \/ b \in Blocks \ free_blocks /\ (inum \in Live => b # inode_table[inum].i_data_block)
                \/ b = block /\ size > 0 /\ inum \notin freeinode_ts
      PROVE  NoBlockLeak'
  <2> SUFFICES ASSUME NEW b \in Blocks \ free_blocks'
               PROVE  \E i \in Live' : inode_table'[i].i_data_block = b
    BY DEF NoBlockLeak
  <2>1. CASE b \in Blocks \ free_blocks /\ (inum \in Live => b # inode_table[inum].i_data_block)
    <3>1. PICK i \in Live : inode_table[i].i_data_block = b
      BY <2>1 DEF NoBlockLeak
    <3>2. i # inum /\ i \in Inodes \ freeinode_ts
      BY <2>1, <3>1 DEF Live
    <3>3. inode_table'[i] = inode_table[i] /\ i \in Inodes \ freeinode_ts'
      BY <1>0, <1>2, <3>2 DEF TablesTyped
    <3> QED BY <3>1, <3>3 DEF Live
  <2>2. CASE b = block /\ size > 0 /\ inum \notin freeinode_ts
    <3>1. inode_table'[inum].i_size = size /\ inode_table'[inum].i_data_block = block
      BY <1>0, <1>2 DEF TablesTyped
    <3>2. inum \in Live'
      BY <1>2, <2>2, <3>1 DEF Live
    <3> QED BY <2>2, <3>1, <3>2
  <2> QED BY <1>2, <2>1, <2>2
<1>3. ASSUME NEW name, NEW mode, Open(name, mode) PROVE NoBlockLeak'
  <2>1. PICK ret : tfs_open(name, mode, ret)
    BY <1>3 DEF Open
  <2>2. CASE UNCHANGED fs
    BY <2>2, <1>1 DEF fs
  <2>3. CASE OpenExisting(name, mode, ret)
    <3> DEFINE inum == find_in_dir(name)
               size == IF "TRUNC" \in mode THEN 0 ELSE inode_table[inum].i_size
    <3>1. inum \in Inodes \ (freeinode_ts \cup {ROOT_DIR_INUM})
      BY <2>3, <1>0, EntryInode DEF OpenExisting
    <3>2. /\ inode_table' = [inode_table EXCEPT ![inum].i_size = size]
          /\ freeinode_ts' = freeinode_ts
          /\ free_blocks' = IF size # inode_table[inum].i_size
                            THEN free_blocks \cup {inode_table[inum].i_data_block}
                            ELSE free_blocks
      BY <2>3 DEF OpenExisting
    <3>3. size \in Nat /\ (size # inode_table[inum].i_size => size = 0)
      BY <1>0, <3>1, SizesAssumption DEF TablesTyped
    <3> HIDE DEF inum, size
    <3>4. inode_table' = [inode_table EXCEPT ![inum] =
             [i_size |-> size, i_data_block |-> inode_table[inum].i_data_block]]
      BY <1>0, <3>1, <3>2, SizeExcept
    <3>5. \A b \in Blocks \ free_blocks' :
             \/ b \in Blocks \ free_blocks /\ (inum \in Live => b # inode_table[inum].i_data_block)
             \/ b = inode_table[inum].i_data_block /\ size > 0 /\ inum \notin freeinode_ts
      BY <1>0, <3>1, <3>2, <3>3 DEF Live, TablesTyped
    <3> QED BY <3>1, <3>2, <3>3, <3>4, <3>5, <1>2
  <2>4. CASE OpenCreate(name, ret)
    <3> DEFINE inum == First(freeinode_ts)
    <3>1. freeinode_ts # {} /\ freeinode_ts \subseteq Nat
      BY <1>0, <2>4, SizesAssumption DEF OpenCreate, TablesTyped, Inodes
    <3>2. inum \in freeinode_ts
      BY <3>1, FirstLeast
    <3>3. /\ inode_table' = [inode_table EXCEPT ![inum] = [i_size |-> 0, i_data_block |-> -1]]
          /\ freeinode_ts' \subseteq freeinode_ts
          /\ free_blocks' = free_blocks
      BY <2>4 DEF OpenCreate, InitialInode
    <3>4. inum \in Inodes /\ inum \notin Live
      BY <1>0, <3>2 DEF TablesTyped, Live
    <3> QED BY <3>3, <3>4, <1>2
  <2> QED BY <2>1, <2>2, <2>3, <2>4 DEF tfs_open
<1>4. ASSUME NEW fd, Close(fd) PROVE NoBlockLeak'
  BY <1>1, <1>4 DEF Close, tfs_close, fs
<1>5. ASSUME NEW name, Unlink(name) PROVE NoBlockLeak'
  <2>1. PICK ret : tfs_unlink(name, ret)
    BY <1>5 DEF Unlink
  <2>2. CASE UNCHANGED fs
    BY <2>2, <1>1 DEF fs
  <2>3. ASSUME NEW inum, NEW slot, Unlinks(inum, slot) PROVE NoBlockLeak'
    <3>1. /\ freeinode_ts' = freeinode_ts \cup {inum}
          /\ inode_table' = inode_table
          /\ free_blocks' = IF inode_table[inum].i_size > 0
                            THEN free_blocks \cup {inode_table[inum].i_data_block}
                            ELSE free_blocks
      BY <2>3 DEF Unlinks
    <3>2. Live' = Live \ {inum}
      BY <3>1 DEF Live
    <3>3. inum \in Live => inode_table[inum].i_size > 0
      BY DEF Live
    <3> QED BY <3>1, <3>2, <3>3 DEF NoBlockLeak
  <2> QED BY <1>0, <2>1, <2>2, <2>3, UnlinkEffect
<1>6. ASSUME NEW fd \in Handles, NEW data \in Data, Write(fd, data) PROVE NoBlockLeak'
  <2>1. PICK ret : tfs_write(fd, data, ret)
    BY <1>6 DEF Write
  <2>2. CASE UNCHANGED fs \/ Dies("overrun")
    BY <2>2, <1>1 DEF fs, Dies
  <2>3. CASE Writes(fd, data)
    <3>1. /\ freeinode_ts' = freeinode_ts
          /\ free_blocks' = IF Fresh(fd) THEN free_blocks \ {BlockFor(fd)} ELSE free_blocks
          /\ InodeOf(fd) \in Inodes \ freeinode_ts
      BY <2>3, <1>0 DEF Writes, HandlesLive, IsOpenHandle, InodeOf
    <3>2. /\ SizeAfter(fd, data) \in Nat /\ SizeAfter(fd, data) > 0
          /\ inode_table' = [inode_table EXCEPT ![InodeOf(fd)] =
               [i_size |-> SizeAfter(fd, data), i_data_block |-> BlockFor(fd)]]
      BY <1>0, <2>3, WriteFacts, DataLength
    <3>3. \A b \in Blocks \ free_blocks' :
             \/ /\ b \in Blocks \ free_blocks
                /\ InodeOf(fd) \in Live => b # inode_table[InodeOf(fd)].i_data_block
             \/ /\ b = BlockFor(fd) /\ SizeAfter(fd, data) > 0
                /\ InodeOf(fd) \notin freeinode_ts
      BY <3>1, <3>2 DEF BlockFor, Fresh, Live
    <3> QED BY <3>1, <3>2, <3>3, <1>2
  <2> QED BY <2>1, <2>2, <2>3, WriteEffect
<1>7. ASSUME NEW fd \in Handles, NEW len, Read(fd, len) PROVE NoBlockLeak'
  <2>1. PICK ret, buffer : tfs_read(fd, len, ret, buffer)
    BY <1>7 DEF Read
  <2>2. UNCHANGED <<inode_table, freeinode_ts, free_blocks>>
    BY <2>1 DEF tfs_read, fs, Dies
  <2> QED BY <2>2, <1>1
<1> QED BY <1>3, <1>4, <1>5, <1>6, <1>7 DEF Next

(* The three together are an invariant of such callers, even if they truncate *)
(* open files.                                                                *)
LEMMA LInvAlways ==
  ASSUME ~UnlinkOpen
  PROVE  Spec => []LInv
<1>1. Init => LInv
  <2> SUFFICES ASSUME Init PROVE LInv
    OBVIOUS
  <2>1. FsInv
    BY InitInv
  <2>2. HandlesLive
    BY DEF Init, FSInitWith, HandlesLive
  <2>3. NoBlockLeak
    BY <2>1, RootLive DEF Init, FSInitWith, NoBlockLeak, FsInv
  <2> QED BY <2>1, <2>2, <2>3 DEF LInv
<1>2. LInv /\ [Next]_vars => LInv'
  <2> SUFFICES ASSUME LInv, [Next]_vars PROVE LInv'
    OBVIOUS
  <2>1. CASE Next
    BY <2>1, StepInv, HandlesLiveStep, NoBlockLeakStep DEF LInv
  <2>2. CASE UNCHANGED vars
    BY <2>2, StepInv DEF LInv, vars, fs, HandlesLive, NoBlockLeak, Live
  <2> QED BY <2>1, <2>2
<1> QED BY <1>1, <1>2, PTL DEF Spec

(* No handle outlives its file.                                              *)
THEOREM HandlesStayLive ==
  ASSUME ~UnlinkOpen
  PROVE  Spec => []HandlesLive
  BY LInvAlways, PTL DEF LInv

(* No block is lost: data_block_alloc fails only when all blocks are in use,   *)
(* however often files are created, truncated and deleted.                   *)
THEOREM NoBlockLost ==
  ASSUME ~UnlinkOpen
  PROVE  Spec => []NoBlockLeak
  BY LInvAlways, PTL DEF LInv

-----------------------------------------------------------------------------
(* To callers that neither unlink nor truncate open files the file system is  *)
(* FileStore: a step of the tables is a step of the store under the mapping    *)
(* filesBar, openedBar.                                                       *)

\* the mapping needs handles that name a file, and the bytes read and written
\* need offsets that lie in it
RInv == FsInv /\ HandlesLive /\ OffsetsInFile

-----------------------------------------------------------------------------
(* Directories as values: what the mapping says of dir it says of dir' *)

Lookup(d, n) == LET E == {s \in Slots : d[s].d_inumber # -1 /\ d[s].d_name = n}
                IN  IF E = {} THEN -1 ELSE d[First(E)].d_inumber
NameIn(d, i) == d[CHOOSE s \in Slots : d[s].d_inumber = i].d_name
Content(table, bytes, i) ==
    [k \in 1..table[i].i_size |-> bytes[Address(table[i].i_data_block, k - 1)]]

IsDirectory(d) ==
    /\ \A s \in Slots : d[s].d_inumber # -1 => d[s].d_inumber \in Inodes /\ d[s].d_name \in FileNames
    /\ \A s, t \in Slots : s # t /\ d[s].d_inumber # -1 /\ d[t].d_inumber # -1 =>
          d[s].d_inumber # d[t].d_inumber /\ d[s].d_name # d[t].d_name

(* A lookup that succeeds returns a used entry with the name.                 *)
LEMMA LookupFound ==
  ASSUME NEW d, NEW n, Lookup(d, n) # -1
  PROVE  \E s \in Slots : d[s].d_name = n /\ d[s].d_inumber = Lookup(d, n)
<1> DEFINE E == {s \in Slots : d[s].d_inumber # -1 /\ d[s].d_name = n}
<1>1. E # {} /\ Lookup(d, n) = d[First(E)].d_inumber
  BY DEF Lookup
<1>2. E \subseteq Nat
  BY SizesAssumption DEF Slots
<1>3. First(E) \in E
  <2> HIDE DEF E
  <2> QED BY <1>1, <1>2, FirstLeast
<1> QED BY <1>1, <1>3

(* A used entry is the one its name looks up.                                 *)
LEMMA LookupUsed ==
  ASSUME NEW d, IsDirectory(d), NEW s \in Slots, d[s].d_inumber # -1
  PROVE  Lookup(d, d[s].d_name) = d[s].d_inumber
<1> DEFINE n == d[s].d_name
           E == {t \in Slots : d[t].d_inumber # -1 /\ d[t].d_name = n}
<1>1. s \in E
  OBVIOUS
<1>2. E \subseteq Nat
  BY SizesAssumption DEF Slots
<1>3. First(E) \in E
  <2> HIDE DEF E
  <2> QED BY <1>1, <1>2, FirstLeast
<1>4. First(E) = s
  BY <1>1, <1>3 DEF IsDirectory
<1> QED BY <1>1, <1>4 DEF Lookup

(* A used entry is the one that names its inode.                              *)
LEMMA NameUsed ==
  ASSUME NEW d, IsDirectory(d), NEW s \in Slots, d[s].d_inumber # -1
  PROVE  NameIn(d, d[s].d_inumber) = d[s].d_name
<1> DEFINE t == CHOOSE t \in Slots : d[t].d_inumber = d[s].d_inumber
<1>1. t \in Slots /\ d[t].d_inumber = d[s].d_inumber
  OBVIOUS
<1>2. t = s
  <2> HIDE DEF t
  <2> QED BY <1>1 DEF IsDirectory
<1> QED BY <1>2 DEF NameIn

(* Names and inodes correspond: the name of the inode looked up ...           *)
LEMMA NameOfLookup ==
  ASSUME NEW d, IsDirectory(d), NEW n, Lookup(d, n) # -1
  PROVE  NameIn(d, Lookup(d, n)) = n /\ n \in FileNames /\ Lookup(d, n) \in Inodes
<1>1. PICK s \in Slots : d[s].d_name = n /\ d[s].d_inumber = Lookup(d, n)
  BY LookupFound
<1>2. NameIn(d, d[s].d_inumber) = d[s].d_name
  BY <1>1, NameUsed
<1> QED BY <1>1, <1>2 DEF IsDirectory

(* ... and the inode looked up by the name of an inode.                       *)
LEMMA LookupOfName ==
  ASSUME NEW d, IsDirectory(d), NEW i, i # -1, \E s \in Slots : d[s].d_inumber = i
  PROVE  Lookup(d, NameIn(d, i)) = i /\ NameIn(d, i) \in FileNames
<1>1. PICK s \in Slots : d[s].d_inumber = i
  OBVIOUS
<1>2. NameIn(d, i) = d[s].d_name
  BY <1>1, NameUsed
<1>3. Lookup(d, d[s].d_name) = i
  BY <1>1, LookupUsed
<1> QED BY <1>1, <1>2, <1>3 DEF IsDirectory

(* A lookup depends on the entries with its name only.                        *)
LEMMA LookupSame ==
  ASSUME NEW d, IsDirectory(d), NEW e, IsDirectory(e), NEW n,
         \A s \in Slots : (d[s].d_inumber # -1 /\ d[s].d_name = n)
                            \/ (e[s].d_inumber # -1 /\ e[s].d_name = n) => e[s] = d[s]
  PROVE  Lookup(e, n) = Lookup(d, n)
<1>1. CASE Lookup(d, n) # -1
  <2>1. PICK s \in Slots : d[s].d_name = n /\ d[s].d_inumber = Lookup(d, n)
    BY <1>1, LookupFound
  <2>2. e[s] = d[s]
    BY <1>1, <2>1
  <2>3. Lookup(e, e[s].d_name) = e[s].d_inumber
    BY <1>1, <2>1, <2>2, LookupUsed
  <2> QED BY <2>1, <2>2, <2>3
<1>2. CASE Lookup(d, n) = -1
  <2>1. SUFFICES ASSUME Lookup(e, n) # -1 PROVE FALSE
    BY <1>2
  <2>2. PICK s \in Slots : e[s].d_name = n /\ e[s].d_inumber = Lookup(e, n)
    BY <2>1, LookupFound
  <2>3. e[s] = d[s]
    BY <2>1, <2>2
  <2>4. Lookup(d, d[s].d_name) = d[s].d_inumber
    BY <2>1, <2>2, <2>3, LookupUsed
  <2> QED BY <1>2, <2>1, <2>2, <2>3, <2>4
<1> QED BY <1>1, <1>2

-----------------------------------------------------------------------------
(* Handles and offsets *)

(* From an offset inside the file, tfs_read's to_read does not wrap around    *)
(* and the offset stays inside the file.                                      *)
LEMMA ToReadValue ==
  ASSUME TablesTyped, OffsetsInFile, NEW fd \in Handles \ free_open_file_entries, NEW len \in Nat
  PROVE  /\ ToRead(fd, len) =
              IF inode_table[InodeOf(fd)].i_size - OffsetOf(fd) > len THEN len
              ELSE inode_table[InodeOf(fd)].i_size - OffsetOf(fd)
         /\ ToRead(fd, len) \in Nat
         /\ OffsetOf(fd) + ToRead(fd, len) <= inode_table[InodeOf(fd)].i_size
<1> DEFINE size == inode_table[InodeOf(fd)].i_size
<1>1. size \in 0..BLOCK_SIZE /\ OffsetOf(fd) \in Nat /\ OffsetOf(fd) <= size
  BY DEF TablesTyped, InodeOf, OffsetOf, OffsetsInFile
<1> HIDE DEF size
<1>2. (size - OffsetOf(fd)) % SizeModulus = size - OffsetOf(fd)
  BY <1>1, BlockBelowModulus, SizesAssumption
<1>3. ToRead(fd, len) = IF size - OffsetOf(fd) > len THEN len ELSE size - OffsetOf(fd)
  BY <1>2 DEF ToRead, size, InodeOf, OffsetOf
<1> QED BY <1>1, <1>3 DEF size

(* The outcomes of tfs_read through a live handle: it never reaches the       *)
(* assertion of data_block_get and never reads out of fs_data.                *)
LEMMA ReadEffect ==
  ASSUME FsInv, HandlesLive, OffsetsInFile, NEW fd \in Handles, NEW len \in Nat,
         NEW ret, NEW buffer, tfs_read(fd, len, ret, buffer)
  PROVE  \/ ret = -1 /\ buffer = <<>> /\ UNCHANGED fs
         \/ /\ IsOpenHandle(fd) /\ ToRead(fd, len) = 0
            /\ ret = 0 /\ buffer = <<>> /\ UNCHANGED fs
         \/ /\ IsOpenHandle(fd) /\ ToRead(fd, len) > 0
            /\ ret = ToRead(fd, len)
            /\ buffer = [i \in 1..ToRead(fd, len) |->
                 fs_data[Address(inode_table[InodeOf(fd)].i_data_block, OffsetOf(fd)) + i - 1]]
            /\ open_file_table' = [open_file_table EXCEPT ![fd] =
                 [of_inumber |-> InodeOf(fd), of_offset |-> OffsetOf(fd) + ToRead(fd, len)]]
            /\ UNCHANGED <<inode_table, freeinode_ts, dir, free_blocks, fs_data,
                           free_open_file_entries, fault>>
<1> DEFINE bnum == inode_table[InodeOf(fd)].i_data_block
           n == ToRead(fd, len)
<1>1. CASE ~IsOpenHandle(fd)
  BY <1>1 DEF tfs_read
<1>2. CASE IsOpenHandle(fd) /\ n = 0
  BY <1>2 DEF tfs_read
<1>3. CASE IsOpenHandle(fd) /\ n # 0
  <2>1. n \in Nat /\ n > 0 /\ OffsetOf(fd) \in Nat
        /\ OffsetOf(fd) + n <= inode_table[InodeOf(fd)].i_size
    BY <1>3, ToReadValue DEF IsOpenHandle, FsInv, TablesTyped, OffsetOf
  <2>2. /\ InodeOf(fd) \in Inodes \ (freeinode_ts \cup {ROOT_DIR_INUM})
        /\ inode_table[InodeOf(fd)].i_size \in 0..BLOCK_SIZE
    BY <1>3 DEF HandlesLive, IsOpenHandle, InodeOf, FsInv, TablesTyped
  <2>3. bnum \in Blocks \ {ROOT_BLOCK}
    BY <2>1, <2>2, OpenBlock
  <2>4. Address(bnum, OffsetOf(fd)) + n - 1 \in Arena
    <3>1. OffsetOf(fd) + n - 1 \in 0..BLOCK_SIZE - 1
      BY <2>1, <2>2, SizesAssumption
    <3>2. Address(bnum, OffsetOf(fd) + n - 1) \in Arena
      BY <2>3, <3>1, BlockInArena
    <3>3. bnum * BLOCK_SIZE \in Int
      BY <2>3, SizesAssumption DEF Blocks
    <3>4. Address(bnum, OffsetOf(fd) + n - 1) = Address(bnum, OffsetOf(fd)) + n - 1
      BY <2>1, <3>3 DEF Address
    <3> QED BY <3>2, <3>4
  <2>5. /\ ret = n
        /\ buffer = [i \in 1..n |-> fs_data[Address(bnum, OffsetOf(fd)) + i - 1]]
        /\ open_file_table' = [open_file_table EXCEPT ![fd].of_offset = @ + n]
        /\ UNCHANGED <<inode_table, freeinode_ts, dir, free_blocks, fs_data,
                       free_open_file_entries, fault>>
    BY <1>3, <2>1, <2>3, <2>4 DEF tfs_read, InodeOf, OffsetOf
  <2>6. open_file_table' = [open_file_table EXCEPT ![fd] =
          [of_inumber |-> InodeOf(fd), of_offset |-> OffsetOf(fd) + n]]
    BY <2>5, OffsetExcept DEF FsInv, InodeOf, OffsetOf
  <2> QED BY <1>3, <2>1, <2>5, <2>6
<1> QED BY <1>1, <1>2, <1>3

(* While callers neither unlink nor truncate open files, no call leaves a     *)
(* handle past the end of its file.                                           *)
LEMMA OffsetsStep ==
  ASSUME ~UnlinkOpen, ~TruncOpen, RInv, Next
  PROVE  OffsetsInFile'
<1>0. TablesTyped /\ BlocksOwned /\ DirectoryConsistent /\ RootKept /\ HandlesLive /\ OffsetsInFile
  BY DEF RInv, FsInv
<1>1. ASSUME UNCHANGED <<inode_table, open_file_table>>,
             free_open_file_entries \subseteq free_open_file_entries'
      PROVE  OffsetsInFile'
  BY <1>0, <1>1 DEF OffsetsInFile
<1>2. ASSUME NEW inum \in Inodes, NEW offset \in Nat, NEW ret,
             add_to_open_file_table(inum, offset, ret),
             \A i \in Inodes : i # inum => inode_table'[i] = inode_table[i],
             offset <= inode_table'[inum].i_size,
             \/ inode_table'[inum].i_size = inode_table[inum].i_size
             \/ \A h \in Handles \ free_open_file_entries : open_file_table[h].of_inumber # inum
      PROVE  OffsetsInFile'
  <2>1. \A h \in Handles \ free_open_file_entries :
           /\ open_file_table[h].of_inumber \in Inodes
           /\ open_file_table[h].of_offset <= inode_table'[open_file_table[h].of_inumber].i_size
    BY <1>0, <1>2 DEF OffsetsInFile, TablesTyped
  <2>2. CASE UNCHANGED <<open_file_table, free_open_file_entries>>
    BY <2>1, <2>2 DEF OffsetsInFile
  <2>3. CASE /\ ret \in free_open_file_entries
             /\ open_file_table' = [open_file_table EXCEPT
                                      ![ret] = [of_inumber |-> inum, of_offset |-> offset]]
             /\ free_open_file_entries' = free_open_file_entries \ {ret}
    <3>1. \A h \in Handles : h # ret => open_file_table'[h] = open_file_table[h]
      BY <1>0, <2>3 DEF TablesTyped
    <3>2. open_file_table'[ret].of_inumber = inum /\ open_file_table'[ret].of_offset = offset
      BY <1>0, <2>3 DEF TablesTyped
    <3> QED BY <1>2, <2>1, <2>3, <3>1, <3>2 DEF OffsetsInFile
  <2> QED BY <1>0, <1>2, <2>2, <2>3, HandleGiven
<1>3. ASSUME NEW name, NEW mode, Open(name, mode) PROVE OffsetsInFile'
  <2>1. PICK ret : tfs_open(name, mode, ret)
    BY <1>3 DEF Open
  <2>2. CASE UNCHANGED fs
    BY <2>2, <1>1 DEF fs
  <2>3. CASE OpenExisting(name, mode, ret)
    <3> DEFINE inum == find_in_dir(name)
               size == IF "TRUNC" \in mode THEN 0 ELSE inode_table[inum].i_size
    <3>1. inum \in Inodes
      BY <2>3, <1>0, EntryInode DEF OpenExisting
    <3>2. size \in Nat
      BY <1>0, <3>1, SizesAssumption DEF TablesTyped
    <3>3. /\ inode_table' = [inode_table EXCEPT ![inum].i_size = size]
          /\ add_to_open_file_table(inum, IF "APPEND" \in mode THEN size ELSE 0, ret)
      BY <2>3 DEF OpenExisting
    <3>4. size = inode_table[inum].i_size
          \/ \A h \in Handles \ free_open_file_entries : open_file_table[h].of_inumber # inum
      BY <1>3 DEF Open, IsOpen, IsOpenHandle
    <3> HIDE DEF inum, size
    <3>5. inode_table' = [inode_table EXCEPT ![inum] =
             [i_size |-> size, i_data_block |-> inode_table[inum].i_data_block]]
      BY <1>0, <3>1, <3>3, SizeExcept
    <3>6. /\ \A i \in Inodes : i # inum => inode_table'[i] = inode_table[i]
          /\ inode_table'[inum].i_size = size
      BY <1>0, <3>1, <3>5 DEF TablesTyped
    <3>7. (IF "APPEND" \in mode THEN size ELSE 0) \in Nat
          /\ (IF "APPEND" \in mode THEN size ELSE 0) <= inode_table'[inum].i_size
      BY <3>2, <3>6
    <3> QED BY <3>1, <3>3, <3>4, <3>6, <3>7, <1>2
  <2>4. CASE OpenCreate(name, ret)
    <3> DEFINE inum == First(freeinode_ts)
    <3>1. freeinode_ts # {} /\ freeinode_ts \subseteq Nat
      BY <1>0, <2>4, SizesAssumption DEF OpenCreate, TablesTyped, Inodes
    <3>2. inum \in freeinode_ts
      BY <3>1, FirstLeast
    <3>3. inode_table' = [inode_table EXCEPT ![inum] = [i_size |-> 0, i_data_block |-> -1]]
      BY <2>4 DEF OpenCreate, InitialInode
    <3>4. inum \in Inodes
      BY <1>0, <3>2 DEF TablesTyped
    <3>5. \A h \in Handles \ free_open_file_entries : open_file_table[h].of_inumber # inum
      BY <1>0, <3>2 DEF HandlesLive
    <3>6. \/ add_to_open_file_table(inum, 0, ret)
          \/ UNCHANGED <<open_file_table, free_open_file_entries>>
      BY <2>4 DEF OpenCreate
    <3> HIDE DEF inum
    <3>7. /\ \A i \in Inodes : i # inum => inode_table'[i] = inode_table[i]
          /\ inode_table'[inum].i_size = 0
      BY <1>0, <3>3, <3>4 DEF TablesTyped
    <3>8. CASE UNCHANGED <<open_file_table, free_open_file_entries>>
      <4>1. \A h \in Handles \ free_open_file_entries :
               inode_table'[open_file_table[h].of_inumber] = inode_table[open_file_table[h].of_inumber]
        BY <1>0, <3>5, <3>7 DEF TablesTyped
      <4> QED BY <1>0, <3>8, <4>1 DEF OffsetsInFile
    <3>9. CASE add_to_open_file_table(inum, 0, ret)
      BY <3>4, <3>5, <3>7, <3>9, <1>2
    <3> QED BY <3>6, <3>8, <3>9
  <2> QED BY <2>1, <2>2, <2>3, <2>4 DEF tfs_open
<1>4. ASSUME NEW fd, Close(fd) PROVE OffsetsInFile'
  BY <1>1, <1>4 DEF Close, tfs_close, fs
<1>5. ASSUME NEW name, Unlink(name) PROVE OffsetsInFile'
  BY <1>1, <1>5 DEF Unlink, tfs_unlink, fs
<1>6. ASSUME NEW fd \in Handles, NEW data \in Data, Write(fd, data) PROVE OffsetsInFile'
  <2>1. PICK ret : tfs_write(fd, data, ret)
    BY <1>6 DEF Write
  <2>2. CASE UNCHANGED fs \/ Dies("overrun")
    BY <2>2, <1>1 DEF fs, Dies
  <2>3. CASE Writes(fd, data)
    <3>1. /\ InodeOf(fd) \in Inodes /\ OffsetOf(fd) \in Nat
          /\ OffsetOf(fd) + Count(fd, data) \in Nat
          /\ open_file_table' = [open_file_table EXCEPT ![fd] =
               [of_inumber |-> InodeOf(fd), of_offset |-> OffsetOf(fd) + Count(fd, data)]]
          /\ inode_table' = [inode_table EXCEPT ![InodeOf(fd)] =
               [i_size |-> SizeAfter(fd, data), i_data_block |-> BlockFor(fd)]]
          /\ SizeAfter(fd, data) \in Nat
      BY <2>3, <1>0, WriteFacts, DataLength
    <3>2. /\ SizeAfter(fd, data) >= inode_table[InodeOf(fd)].i_size
          /\ SizeAfter(fd, data) >= OffsetOf(fd) + Count(fd, data)
      BY <1>0, <3>1, SizesAssumption DEF SizeAfter, TablesTyped
    <3>3. \A i \in Inodes : /\ inode_table[i].i_size \in Nat /\ inode_table'[i].i_size \in Nat
                            /\ inode_table'[i].i_size >= inode_table[i].i_size
      BY <1>0, <3>1, <3>2, SizesAssumption DEF TablesTyped
    <3>4. \A h \in Handles : h # fd => open_file_table'[h] = open_file_table[h]
      BY <1>0, <3>1 DEF TablesTyped
    <3>5. /\ open_file_table'[fd].of_inumber = InodeOf(fd)
          /\ open_file_table'[fd].of_offset = OffsetOf(fd) + Count(fd, data)
          /\ inode_table'[InodeOf(fd)].i_size = SizeAfter(fd, data)
      BY <1>0, <3>1 DEF TablesTyped
    <3>6. free_open_file_entries' = free_open_file_entries
      BY <2>3 DEF Writes
    <3> SUFFICES ASSUME NEW h \in Handles \ free_open_file_entries
                 PROVE  open_file_table'[h].of_offset
                          <= inode_table'[open_file_table'[h].of_inumber].i_size
      BY <3>6 DEF OffsetsInFile
    <3>7. CASE h = fd
      BY <3>7, <3>1, <3>2, <3>5
    <3>8. CASE h # fd
      <4>1. /\ open_file_table[h].of_inumber \in Inodes /\ open_file_table[h].of_offset \in Nat
            /\ open_file_table[h].of_offset <= inode_table[open_file_table[h].of_inumber].i_size
        BY <1>0 DEF TablesTyped, OffsetsInFile
      <4> QED BY <3>3, <3>4, <3>8, <4>1
    <3> QED BY <3>7, <3>8
  <2> QED BY <2>1, <2>2, <2>3, WriteEffect
<1>7. ASSUME NEW fd \in Handles, NEW len \in Nat, Read(fd, len) PROVE OffsetsInFile'
  <2>1. PICK ret, buffer : tfs_read(fd, len, ret, buffer)
    BY <1>7 DEF Read
  <2>2. CASE UNCHANGED fs
    BY <2>2, <1>1 DEF fs
  <2>3. CASE /\ IsOpenHandle(fd)
             /\ open_file_table' = [open_file_table EXCEPT ![fd] =
                  [of_inumber |-> InodeOf(fd), of_offset |-> OffsetOf(fd) + ToRead(fd, len)]]
             /\ UNCHANGED <<inode_table, free_open_file_entries>>
    <3>1. OffsetOf(fd) + ToRead(fd, len) <= inode_table[InodeOf(fd)].i_size
      BY <1>0, <2>3, ToReadValue DEF IsOpenHandle
    <3>2. \A h \in Handles : h # fd => open_file_table'[h] = open_file_table[h]
      BY <1>0, <2>3 DEF TablesTyped
    <3>3. /\ open_file_table'[fd].of_inumber = InodeOf(fd)
          /\ open_file_table'[fd].of_offset = OffsetOf(fd) + ToRead(fd, len)
      BY <1>0, <2>3 DEF TablesTyped
    <3> QED BY <1>0, <2>3, <3>1, <3>2, <3>3 DEF OffsetsInFile
  <2> QED BY <2>1, <2>2, <2>3, ReadEffect DEF RInv
<1> QED BY <1>3, <1>4, <1>5, <1>6, <1>7, CallersAssumption DEF Next

(* The strengthened invariant holds after tfs_init ...                        *)
LEMMA RInvInit == Init => RInv
<1>1. Init => HandlesLive /\ OffsetsInFile
  BY DEF Init, FSInitWith, HandlesLive, OffsetsInFile
<1> QED BY <1>1, InitInv DEF RInv

(* ... and every call of such callers preserves it.                           *)
LEMMA RInvStep ==
  ASSUME ~UnlinkOpen, ~TruncOpen
  PROVE  RInv /\ [Next]_vars => RInv'
<1> SUFFICES ASSUME RInv, [Next]_vars PROVE RInv'
  OBVIOUS
<1>1. CASE Next
  BY <1>1, StepInv, HandlesLiveStep, OffsetsStep DEF RInv
<1>2. CASE UNCHANGED vars
  BY <1>2, StepInv DEF RInv, vars, fs, HandlesLive, OffsetsInFile
<1> QED BY <1>1, <1>2

(* No call of such callers ends the process.                                  *)
LEMMA NoFaultStep ==
  ASSUME RInv, NoFault, Next
  PROVE  NoFault'
<1>0. FsInv /\ TablesTyped /\ HandlesLive /\ OffsetsInFile
  BY DEF RInv, FsInv
<1>1. ASSUME fault' = fault PROVE NoFault'
  BY <1>1 DEF NoFault
<1>2. ASSUME NEW name, NEW mode, Open(name, mode) PROVE NoFault'
  BY <1>1, <1>2 DEF Open, tfs_open, OpenExisting, OpenCreate, fs
<1>3. ASSUME NEW fd, Close(fd) PROVE NoFault'
  BY <1>1, <1>3 DEF Close, tfs_close, fs
<1>4. ASSUME NEW name, Unlink(name) PROVE NoFault'
  BY <1>1, <1>4 DEF Unlink, tfs_unlink, fs
<1>5. ASSUME NEW fd \in Handles, NEW data \in Data, Write(fd, data) PROVE NoFault'
  <2>1. PICK ret : tfs_write(fd, data, ret)
    BY <1>5 DEF Write
  <2>2. CASE UNCHANGED fs
    BY <2>2, <1>1 DEF fs
  <2>3. CASE IsOpenHandle(fd) /\ OffsetOf(fd) > BLOCK_SIZE
    <3>1. /\ OffsetOf(fd) <= inode_table[InodeOf(fd)].i_size
          /\ inode_table[InodeOf(fd)].i_size \in 0..BLOCK_SIZE /\ OffsetOf(fd) \in Nat
      BY <1>0, <2>3 DEF OffsetsInFile, TablesTyped, IsOpenHandle, OffsetOf, InodeOf
    <3> QED BY <2>3, <3>1, SizesAssumption
  <2>4. CASE Writes(fd, data)
    BY <2>4, <1>1 DEF Writes
  <2> QED BY <2>1, <2>2, <2>3, <2>4, WriteEffect
<1>6. ASSUME NEW fd \in Handles, NEW len \in Nat, Read(fd, len) PROVE NoFault'
  <2>1. PICK ret, buffer : tfs_read(fd, len, ret, buffer)
    BY <1>6 DEF Read
  <2>2. UNCHANGED fs \/ fault' = fault
    BY <1>0, <1>6, <2>1, ReadEffect
  <2> QED BY <2>2, <1>1 DEF fs
<1> QED BY <1>2, <1>3, <1>4, <1>5, <1>6, CallersAssumption DEF Next

(* The offset of a handle stays a position of its file.                      *)
THEOREM OffsetsStayInFile ==
  ASSUME ~UnlinkOpen, ~TruncOpen
  PROVE  Spec => []OffsetsInFile
<1>1. RInv /\ [Next]_vars => RInv'
  BY RInvStep
<1> QED BY <1>1, RInvInit, PTL DEF Spec, RInv

(* No unsigned difference of tfs_write and tfs_read wraps around and no       *)
(* assertion of data_block_get fails.                                        *)
THEOREM NeverFaults ==
  ASSUME ~UnlinkOpen, ~TruncOpen
  PROVE  Spec => []NoFault
<1>1. Init => NoFault
  BY DEF Init, FSInitWith, NoFault
<1>2. RInv /\ NoFault /\ [Next]_vars => NoFault'
  BY NoFaultStep DEF vars, fs, NoFault
<1>3. RInv /\ [Next]_vars => RInv'
  BY RInvStep
<1> QED BY <1>1, <1>2, <1>3, RInvInit, PTL DEF Spec

-----------------------------------------------------------------------------
(* The refinement mapping *)

(* The root directory is a directory in which lookups are unambiguous ...     *)
LEMMA DirectoryNow == ASSUME FsInv PROVE IsDirectory(dir)
  BY DEF FsInv, DirectoryConsistent, IsDirectory

(* ... after every call too.                                                  *)
LEMMA DirectoryNext == ASSUME FsInv' PROVE IsDirectory(dir')
  BY DEF FsInv, DirectoryConsistent, IsDirectory

(* find_in_dir is the lookup in the current, or the next, directory.          *)
LEMMA LookupIsFind == \A n : find_in_dir(n) = Lookup(dir, n) /\ find_in_dir(n)' = Lookup(dir', n)
  BY DEF find_in_dir, Entries, Lookup

FilesOf(d, table, bytes) ==
    [n \in FileNames |-> IF Lookup(d, n) = -1 THEN NoFile ELSE Content(table, bytes, Lookup(d, n))]
OpenedOf(d, handles, free) ==
    [h \in Handles |-> IF h \in free THEN Closed
                       ELSE [name |-> NameIn(d, handles[h].of_inumber),
                             offset |-> handles[h].of_offset]]

(* The files of the store are a function of the directory, the inodes and the *)
(* bytes, now and after a step.                                               *)
LEMMA FilesBar == /\ filesBar = FilesOf(dir, inode_table, fs_data)
                  /\ filesBar' = FilesOf(dir', inode_table', fs_data')
<1>1. \A n : find_in_dir(n) = Lookup(dir, n)
  BY LookupIsFind
<1>2. \A n : find_in_dir(n)' = Lookup(dir', n)
  BY LookupIsFind
<1>3. \A i : /\ ContentsOf(i) = Content(inode_table, fs_data, i)
             /\ ContentsOf(i)' = Content(inode_table', fs_data', i)
  BY DEF ContentsOf, Content
<1>4. filesBar = FilesOf(dir, inode_table, fs_data)
  BY <1>1, <1>3 DEF filesBar, FilesOf
<1>5. filesBar' = FilesOf(dir', inode_table', fs_data')
  BY DEF filesBar, FilesOf, ContentsOf, Content, find_in_dir, Entries, Lookup
<1> QED BY <1>4, <1>5

(* The handles of the store are a function of the directory and the open file *)
(* table, now and after a step.                                               *)
LEMMA OpenedBar == /\ openedBar = OpenedOf(dir, open_file_table, free_open_file_entries)
                   /\ openedBar' = OpenedOf(dir', open_file_table', free_open_file_entries')
  BY DEF openedBar, OpenedOf, NameOf, NameIn

(* A call that changes nothing in the file system changes nothing in the      *)
(* store.                                                                     *)
LEMMA SameStore ==
  ASSUME UNCHANGED fs
  PROVE  filesBar' = filesBar /\ openedBar' = openedBar
  BY FilesBar, OpenedBar DEF fs

(* A file holds a sequence of bytes as long as the size of its inode.         *)
LEMMA ContentIsSeq ==
  ASSUME FsInv, NEW i \in Inodes \ (freeinode_ts \cup {ROOT_DIR_INUM})
  PROVE  /\ Content(inode_table, fs_data, i) \in Seq(Bytes \cup {Junk})
         /\ Len(Content(inode_table, fs_data, i)) = inode_table[i].i_size
         /\ Content(inode_table, fs_data, i) # NoFile
<1> DEFINE size == inode_table[i].i_size
           bnum == inode_table[i].i_data_block
<1>1. size \in 0..BLOCK_SIZE
  BY DEF FsInv, TablesTyped
<1>2. \A k \in 1..size : fs_data[Address(bnum, k - 1)] \in Bytes \cup {Junk}
  <2> SUFFICES ASSUME NEW k \in 1..size PROVE fs_data[Address(bnum, k - 1)] \in Bytes \cup {Junk}
    OBVIOUS
  <2>1. k - 1 \in 0..BLOCK_SIZE - 1 /\ size > 0
    BY <1>1, SizesAssumption
  <2>2. bnum \in Blocks \ {ROOT_BLOCK}
    BY <2>1, OpenBlock
  <2>3. Address(bnum, k - 1) \in Arena
    BY <2>1, <2>2, BlockInArena
  <2> QED BY <2>3 DEF FsInv, TablesTyped
<1>3. Content(inode_table, fs_data, i) = [k \in 1..size |-> fs_data[Address(bnum, k - 1)]]
  BY DEF Content
<1> HIDE DEF size, bnum
<1>4. /\ Content(inode_table, fs_data, i) \in Seq(Bytes \cup {Junk})
      /\ Len(Content(inode_table, fs_data, i)) = size
  BY <1>1, <1>2, <1>3, SizesAssumption
<1> QED BY <1>4, MarksAssumption DEF size

(* An inode of size 0 holds nothing, whatever its block number.               *)
LEMMA EmptyContent ==
  ASSUME NEW table, NEW bytes, NEW i, table[i].i_size = 0
  PROVE  Content(table, bytes, i) = <<>>
  BY DEF Content

(* A name that find_in_dir finds is a file of the store, with the contents of *)
(* its inode.                                                                 *)
LEMMA FileFound ==
  ASSUME FsInv, NEW n, find_in_dir(n) # -1
  PROVE  /\ n \in FileNames
         /\ filesBar[n] = Content(inode_table, fs_data, find_in_dir(n))
         /\ find_in_dir(n) \in Inodes \ (freeinode_ts \cup {ROOT_DIR_INUM})
         /\ filesBar[n] # NoFile
         /\ NameIn(dir, find_in_dir(n)) = n
<1>1. find_in_dir(n) = Lookup(dir, n)
  BY LookupIsFind
<1>2. n \in FileNames /\ NameIn(dir, Lookup(dir, n)) = n
  BY <1>1, DirectoryNow, NameOfLookup
<1>3. filesBar[n] = Content(inode_table, fs_data, find_in_dir(n))
  BY <1>1, <1>2, FilesBar DEF FilesOf
<1>4. find_in_dir(n) \in Inodes \ (freeinode_ts \cup {ROOT_DIR_INUM})
  BY EntryInode DEF FsInv
<1> QED BY <1>1, <1>2, <1>3, <1>4, ContentIsSeq

(* An open handle is open in the store, on the name of its inode.             *)
LEMMA HandleName ==
  ASSUME FsInv, HandlesLive, NEW h \in Handles \ free_open_file_entries
  PROVE  /\ openedBar[h] = [name |-> NameIn(dir, InodeOf(h)), offset |-> OffsetOf(h)]
         /\ openedBar[h] # Closed
         /\ NameIn(dir, InodeOf(h)) \in FileNames
         /\ find_in_dir(NameIn(dir, InodeOf(h))) = InodeOf(h)
         /\ \E s \in Slots : dir[s].d_inumber = InodeOf(h)
         /\ InodeOf(h) \in Inodes \ (freeinode_ts \cup {ROOT_DIR_INUM}) /\ InodeOf(h) # -1
         /\ OffsetOf(h) \in Nat
<1>1. InodeOf(h) \in Inodes \ (freeinode_ts \cup {ROOT_DIR_INUM}) /\ OffsetOf(h) \in Nat
  BY DEF HandlesLive, InodeOf, OffsetOf, FsInv, TablesTyped
<1>2. \E s \in Slots : dir[s].d_inumber = InodeOf(h)
  BY <1>1 DEF FsInv, DirectoryConsistent
<1>3. InodeOf(h) # -1
  BY <1>1 DEF Inodes
<1>4. /\ Lookup(dir, NameIn(dir, InodeOf(h))) = InodeOf(h)
      /\ NameIn(dir, InodeOf(h)) \in FileNames
  BY <1>2, <1>3, DirectoryNow, LookupOfName
<1>5. openedBar[h] = [name |-> NameIn(dir, InodeOf(h)), offset |-> OffsetOf(h)]
  BY OpenedBar DEF OpenedOf, InodeOf, OffsetOf
<1>6. openedBar[h] \in [name : FileNames, offset : Nat]
  BY <1>1, <1>4, <1>5
<1> QED BY <1>1, <1>2, <1>3, <1>4, <1>5, <1>6, LookupIsFind, MarksAssumption

(* A call that changes no entry and no bytes of the other files changes one   *)
(* file of the store.                                                         *)
LEMMA SameFiles ==
  ASSUME FsInv, UNCHANGED dir, NEW n \in FileNames,
         \A m \in FileNames : m # n /\ find_in_dir(m) # -1 =>
            Content(inode_table', fs_data', find_in_dir(m))
              = Content(inode_table, fs_data, find_in_dir(m)),
         find_in_dir(n) # -1
  PROVE  filesBar' = [filesBar EXCEPT ![n] = Content(inode_table', fs_data', find_in_dir(n))]
<1>1. \A m : find_in_dir(m) = Lookup(dir, m)
  BY LookupIsFind
<1>3. filesBar' = [m \in FileNames |-> IF Lookup(dir, m) = -1 THEN NoFile
                                       ELSE Content(inode_table', fs_data', Lookup(dir, m))]
  BY FilesBar DEF FilesOf
<1>4. filesBar = [m \in FileNames |-> IF Lookup(dir, m) = -1 THEN NoFile
                                      ELSE Content(inode_table, fs_data, Lookup(dir, m))]
  BY FilesBar DEF FilesOf
<1> QED BY <1>1, <1>3, <1>4

(* add_to_open_file_table opens a handle of the store, or none.               *)
LEMMA HandleOpened ==
  ASSUME FsInv, HandlesLive, NEW inum, NEW offset, NEW ret, NEW n,
         add_to_open_file_table(inum, offset, ret),
         NameIn(dir', inum) = n,
         \A h \in Handles \ free_open_file_entries : NameIn(dir', InodeOf(h)) = NameIn(dir, InodeOf(h))
  PROVE  \/ ret = -1 /\ openedBar' = openedBar
         \/ /\ ret \in Handles /\ openedBar[ret] = Closed
            /\ openedBar' = [openedBar EXCEPT ![ret] = [name |-> n, offset |-> offset]]
<1>0. TablesTyped
  BY DEF FsInv
<1>1. CASE ret = -1 /\ UNCHANGED <<open_file_table, free_open_file_entries>>
  BY <1>1, OpenedBar DEF OpenedOf, InodeOf
<1>2. CASE /\ ret \in free_open_file_entries
           /\ open_file_table' = [open_file_table EXCEPT
                                    ![ret] = [of_inumber |-> inum, of_offset |-> offset]]
           /\ free_open_file_entries' = free_open_file_entries \ {ret}
  <2>1. ret \in Handles /\ openedBar[ret] = Closed
    BY <1>0, <1>2, OpenedBar DEF TablesTyped, OpenedOf
  <2>2. \A h \in Handles : h # ret => open_file_table'[h] = open_file_table[h]
    BY <1>0, <1>2 DEF TablesTyped
  <2>3. open_file_table'[ret] = [of_inumber |-> inum, of_offset |-> offset]
    BY <1>0, <1>2, <2>1 DEF TablesTyped
  <2>4. \A h \in Handles : openedBar'[h] = IF h = ret THEN [name |-> n, offset |-> offset]
                                           ELSE openedBar[h]
    <3> SUFFICES ASSUME NEW h \in Handles
                 PROVE  openedBar'[h] = IF h = ret THEN [name |-> n, offset |-> offset]
                                        ELSE openedBar[h]
      OBVIOUS
    <3>1. CASE h = ret
      BY <3>1, <1>2, <2>3, OpenedBar DEF OpenedOf
    <3>2. CASE h # ret
      BY <3>2, <1>2, <2>2, OpenedBar DEF OpenedOf, InodeOf
    <3> QED BY <3>1, <3>2
  <2>5. openedBar' = [openedBar EXCEPT ![ret] = [name |-> n, offset |-> offset]]
    BY <2>4, OpenedBar DEF OpenedOf
  <2> QED BY <2>1, <2>5
<1> QED BY <1>0, <1>1, <1>2, HandleGiven

-----------------------------------------------------------------------------
(* Each call is a step of the store *)

(* A call that fails is a failure of the store.                               *)
LEMMA FailStep ==
  ASSUME UNCHANGED fs, result' = [ret |-> -1, data |-> <<>>]
  PROVE  Store!Next
  BY SameStore DEF Store!Next, Store!Fails, Store!Returns

(* tfs_open of a file that exists opens it in the store, or leaves its        *)
(* truncation behind when no handle is free.                                  *)
LEMMA OpenExistingStep ==
  ASSUME RInv, NEW name, NEW mode \in Modes, NEW ret, OpenExisting(name, mode, ret),
         result' = [ret |-> ret, data |-> <<>>]
  PROVE  Store!Next
<1> DEFINE inum == find_in_dir(name)
           size == IF "TRUNC" \in mode THEN 0 ELSE inode_table[inum].i_size
           offset == IF "APPEND" \in mode THEN size ELSE 0
<1>0. FsInv /\ HandlesLive /\ TablesTyped
  BY DEF RInv, FsInv
<1>1. /\ inum # -1
      /\ inode_table' = [inode_table EXCEPT ![inum].i_size = size]
      /\ add_to_open_file_table(inum, offset, ret)
      /\ UNCHANGED <<dir, fs_data>>
  BY DEF OpenExisting
<1>2. /\ name \in FileNames
      /\ filesBar[name] = Content(inode_table, fs_data, inum)
      /\ filesBar[name] # NoFile
      /\ inum \in Inodes \ (freeinode_ts \cup {ROOT_DIR_INUM})
      /\ NameIn(dir, inum) = name
  BY <1>0, <1>1, FileFound
<1> HIDE DEF inum, size, offset
<1>3. inode_table' = [inode_table EXCEPT ![inum] =
         [i_size |-> size, i_data_block |-> inode_table[inum].i_data_block]]
  BY <1>0, <1>1, <1>2, SizeExcept
<1>4. /\ \A i \in Inodes : i # inum => inode_table'[i] = inode_table[i]
      /\ inode_table'[inum].i_size = size
      /\ inode_table'[inum].i_data_block = inode_table[inum].i_data_block
  BY <1>0, <1>2, <1>3 DEF TablesTyped
<1>5. Store!OnOpen(name, mode) = IF "TRUNC" \in mode THEN <<>> ELSE filesBar[name]
  BY <1>2 DEF Store!OnOpen
<1>6. Content(inode_table', fs_data', inum) = Store!OnOpen(name, mode)
  <2>1. CASE "TRUNC" \in mode
    <3>1. size = 0
      BY <2>1 DEF size
    <3> QED BY <2>1, <3>1, <1>4, <1>5, EmptyContent
  <2>2. CASE "TRUNC" \notin mode
    BY <2>2, <1>1, <1>2, <1>4, <1>5 DEF Content, size
  <2> QED BY <2>1, <2>2
<1>7. filesBar' = [filesBar EXCEPT ![name] = Store!OnOpen(name, mode)]
  <2>1. \A m \in FileNames : m # name /\ find_in_dir(m) # -1 =>
           Content(inode_table', fs_data', find_in_dir(m))
             = Content(inode_table, fs_data, find_in_dir(m))
    <3> SUFFICES ASSUME NEW m \in FileNames, m # name, find_in_dir(m) # -1
                 PROVE  Content(inode_table', fs_data', find_in_dir(m))
                          = Content(inode_table, fs_data, find_in_dir(m))
      OBVIOUS
    <3>1. find_in_dir(m) \in Inodes /\ NameIn(dir, find_in_dir(m)) = m
      BY <1>0, FileFound
    <3>2. find_in_dir(m) # inum
      BY <3>1, <1>2
    <3> QED BY <3>1, <3>2, <1>1, <1>4 DEF Content
  <2>2. filesBar' = [filesBar EXCEPT ![name] = Content(inode_table', fs_data', find_in_dir(name))]
    BY <1>0, <1>1, <1>2, <2>1, SameFiles DEF inum
  <2> QED BY <2>2, <1>6 DEF inum
<1>8. Len(Store!OnOpen(name, mode)) = size
  BY <1>0, <1>2, <1>5, ContentIsSeq DEF size
<1>9. \/ ret = -1 /\ openedBar' = openedBar
      \/ /\ ret \in Handles /\ openedBar[ret] = Closed
         /\ openedBar' = [openedBar EXCEPT ![ret] = [name |-> name, offset |-> offset]]
  BY <1>0, <1>1, <1>2, HandleOpened
<1>10. CASE ret = -1 /\ openedBar' = openedBar
  <2>1. Store!OpenFails(name, mode)
    BY <1>2, <1>7, <1>10 DEF Store!OpenFails, Store!Returns
  <2> QED BY <1>2, <2>1 DEF Store!Next, Modes
<1>11. CASE /\ ret \in Handles /\ openedBar[ret] = Closed
            /\ openedBar' = [openedBar EXCEPT ![ret] = [name |-> name, offset |-> offset]]
  <2>1. Store!Open(name, mode, ret)
    BY <1>2, <1>7, <1>8, <1>11 DEF Store!Open, Store!Returns, offset
  <2> QED BY <1>2, <1>11, <2>1 DEF Store!Next, Modes
<1> QED BY <1>9, <1>10, <1>11

(* tfs_open of a new name creates an empty file of the store, although its    *)
(* inode may be one that held another file, or leaves the store as it was.    *)
LEMMA OpenCreateStep ==
  ASSUME RInv, RInv', NEW name, NEW mode \in Modes, "CREAT" \in mode, NEW ret,
         find_in_dir(name) = -1, OpenCreate(name, ret),
         result' = [ret |-> ret, data |-> <<>>]
  PROVE  Store!Next
<1> DEFINE inum == First(freeinode_ts)
           slot == First(FreeSlots)
<1>0. /\ FsInv /\ HandlesLive /\ TablesTyped /\ FsInv'
      /\ IsDirectory(dir) /\ IsDirectory(dir')
  BY DirectoryNow, DirectoryNext DEF RInv, FsInv
<1>1. inum \in freeinode_ts /\ inum \in Inodes
  <2>1. freeinode_ts # {} /\ freeinode_ts \subseteq Nat
    BY <1>0, SizesAssumption DEF OpenCreate, TablesTyped, Inodes
  <2>2. inum \in freeinode_ts
    BY <2>1, FirstLeast
  <2> QED BY <2>2, <1>0 DEF TablesTyped
<1>2. /\ inode_table' = [inode_table EXCEPT ![inum] = [i_size |-> 0, i_data_block |-> -1]]
      /\ fs_data' = fs_data
  BY DEF OpenCreate, InitialInode
<1>3. CASE ret = -1 /\ UNCHANGED <<dir, open_file_table, free_open_file_entries>>
  <2>1. openedBar' = openedBar
    BY <1>3, OpenedBar
  <2>2. \A n \in FileNames : Lookup(dir, n) # -1 =>
           Content(inode_table', fs_data', Lookup(dir, n)) = Content(inode_table, fs_data, Lookup(dir, n))
    <3> SUFFICES ASSUME NEW n \in FileNames, Lookup(dir, n) # -1
                 PROVE  Content(inode_table', fs_data', Lookup(dir, n))
                          = Content(inode_table, fs_data, Lookup(dir, n))
      OBVIOUS
    <3>1. Lookup(dir, n) \in Inodes /\ Lookup(dir, n) \notin freeinode_ts
      BY <1>0, FileFound, LookupIsFind
    <3>2. inode_table'[Lookup(dir, n)] = inode_table[Lookup(dir, n)]
      <4> HIDE DEF inum
      <4> QED BY <1>0, <1>1, <1>2, <3>1 DEF TablesTyped
    <3> QED BY <1>2, <3>2 DEF Content
  <2>3. filesBar' = filesBar
    BY <1>3, <2>2, FilesBar DEF FilesOf
  <2> QED BY <1>3, <2>1, <2>3 DEF Store!Next, Store!Fails, Store!Returns
<1>4. CASE /\ name \in FileNames /\ FreeSlots # {}
           /\ dir' = [dir EXCEPT ![slot] = [d_name |-> name, d_inumber |-> inum]]
           /\ add_to_open_file_table(inum, 0, ret)
  <2>1. slot \in Slots /\ dir[slot].d_inumber = -1 /\ inum # -1
    <3>1. FreeSlots \subseteq Nat
      BY SizesAssumption DEF FreeSlots, Slots
    <3>2. slot \in FreeSlots
      BY <1>4, <3>1, FirstLeast
    <3> QED BY <3>2, <1>1 DEF FreeSlots, Inodes
  <2> HIDE DEF inum, slot
  <2>2. /\ \A s \in Slots : s # slot => dir'[s] = dir[s]
        /\ dir'[slot].d_name = name /\ dir'[slot].d_inumber = inum
    BY <1>0, <1>4, <2>1 DEF TablesTyped
  <2>3. Lookup(dir', name) = inum /\ NameIn(dir', inum) = name
    <3>1. Lookup(dir', dir'[slot].d_name) = dir'[slot].d_inumber
      BY <1>0, <2>1, <2>2, LookupUsed
    <3>2. NameIn(dir', dir'[slot].d_inumber) = dir'[slot].d_name
      BY <1>0, <2>1, <2>2, NameUsed
    <3> QED BY <2>2, <3>1, <3>2
  <2>4. \A n : n # name => Lookup(dir', n) = Lookup(dir, n)
    <3> SUFFICES ASSUME NEW n, n # name PROVE Lookup(dir', n) = Lookup(dir, n)
      OBVIOUS
    <3>1. \A s \in Slots : (dir[s].d_inumber # -1 /\ dir[s].d_name = n)
             \/ (dir'[s].d_inumber # -1 /\ dir'[s].d_name = n) => dir'[s] = dir[s]
      BY <2>1, <2>2
    <3> QED BY <1>0, <3>1, LookupSame
  <2>5. \A h \in Handles \ free_open_file_entries :
           NameIn(dir', InodeOf(h)) = NameIn(dir, InodeOf(h))
    <3> SUFFICES ASSUME NEW h \in Handles \ free_open_file_entries
                 PROVE  NameIn(dir', InodeOf(h)) = NameIn(dir, InodeOf(h))
      OBVIOUS
    <3>1. PICK s \in Slots : dir[s].d_inumber = InodeOf(h)
      BY <1>0, HandleName
    <3>2. InodeOf(h) # -1
      BY <1>0, HandleName
    <3>3. dir'[s] = dir[s]
      BY <2>1, <2>2, <3>1, <3>2
    <3>4. NameIn(dir, dir[s].d_inumber) = dir[s].d_name
      BY <1>0, <3>1, <3>2, NameUsed
    <3>5. NameIn(dir', dir'[s].d_inumber) = dir'[s].d_name
      BY <1>0, <3>1, <3>2, <3>3, NameUsed
    <3> QED BY <3>1, <3>3, <3>4, <3>5
  <2>6. \A n \in FileNames : Lookup(dir, n) # -1 =>
           Content(inode_table', fs_data', Lookup(dir, n)) = Content(inode_table, fs_data, Lookup(dir, n))
    <3> SUFFICES ASSUME NEW n \in FileNames, Lookup(dir, n) # -1
                 PROVE  Content(inode_table', fs_data', Lookup(dir, n))
                          = Content(inode_table, fs_data, Lookup(dir, n))
      OBVIOUS
    <3>1. Lookup(dir, n) \in Inodes /\ Lookup(dir, n) \notin freeinode_ts
      BY <1>0, FileFound, LookupIsFind
    <3>2. inode_table'[Lookup(dir, n)] = inode_table[Lookup(dir, n)]
      BY <1>0, <1>1, <1>2, <3>1 DEF TablesTyped
    <3> QED BY <1>2, <3>2 DEF Content
  <2>7. Content(inode_table', fs_data', inum) = <<>>
    <3>1. inode_table'[inum].i_size = 0
      BY <1>0, <1>1, <1>2 DEF TablesTyped
    <3> QED BY <3>1, EmptyContent
  <2>8. filesBar[name] = NoFile
    BY <1>4, FilesBar, LookupIsFind DEF FilesOf
  <2>9. filesBar' = [filesBar EXCEPT ![name] = <<>>]
    <3>1. \A n \in FileNames : filesBar'[n] = IF n = name THEN <<>> ELSE filesBar[n]
      <4> SUFFICES ASSUME NEW n \in FileNames
                   PROVE  filesBar'[n] = IF n = name THEN <<>> ELSE filesBar[n]
        OBVIOUS
      <4>1. CASE n = name
        BY <4>1, <2>1, <2>3, <2>7, FilesBar DEF FilesOf
      <4>2. CASE n # name
        BY <4>2, <2>4, <2>6, FilesBar DEF FilesOf
      <4> QED BY <4>1, <4>2
    <3> QED BY <3>1, FilesBar DEF FilesOf
  <2>10. Store!OnOpen(name, mode) = <<>> /\ Len(<<>>) = 0
    BY <2>8 DEF Store!OnOpen
  <2>11. \/ ret = -1 /\ openedBar' = openedBar
         \/ /\ ret \in Handles /\ openedBar[ret] = Closed
            /\ openedBar' = [openedBar EXCEPT ![ret] = [name |-> name, offset |-> 0]]
    <3> DEFINE start == 0
    <3>1. add_to_open_file_table(inum, start, ret)
      BY <1>4
    <3> HIDE DEF start
    <3>2. \/ ret = -1 /\ openedBar' = openedBar
          \/ /\ ret \in Handles /\ openedBar[ret] = Closed
             /\ openedBar' = [openedBar EXCEPT ![ret] = [name |-> name, offset |-> start]]
      BY <1>0, <2>3, <2>5, <3>1, HandleOpened
    <3> QED BY <3>2 DEF start
  <2>12. CASE ret = -1 /\ openedBar' = openedBar
    <3>1. Store!OpenFails(name, mode)
      BY <2>9, <2>10, <2>12 DEF Store!OpenFails, Store!Returns
    <3> QED BY <1>4, <3>1 DEF Store!Next, Modes
  <2>13. CASE /\ ret \in Handles /\ openedBar[ret] = Closed
              /\ openedBar' = [openedBar EXCEPT ![ret] = [name |-> name, offset |-> 0]]
    <3>1. Store!Open(name, mode, ret)
      BY <2>9, <2>10, <2>13 DEF Store!Open, Store!Returns
    <3> QED BY <1>4, <2>13, <3>1 DEF Store!Next, Modes
  <2> QED BY <2>11, <2>12, <2>13
<1> QED BY <1>3, <1>4 DEF OpenCreate

(* tfs_close closes the handle of the store.                                  *)
LEMMA CloseStep ==
  ASSUME RInv, NEW fd, Close(fd)
  PROVE  Store!Next
<1>1. PICK ret : tfs_close(fd, ret) /\ result' = [ret |-> ret, data |-> <<>>]
  BY DEF Close
<1>2. CASE ret = -1 /\ UNCHANGED fs
  BY <1>1, <1>2, FailStep
<1>3. CASE /\ IsOpenHandle(fd) /\ ret = 0
           /\ free_open_file_entries' = free_open_file_entries \cup {fd}
           /\ UNCHANGED <<inode_table, dir, fs_data, open_file_table>>
  <2>1. fd \in Handles /\ openedBar[fd] # Closed
    BY <1>3, HandleName DEF IsOpenHandle, RInv
  <2>2. openedBar' = [openedBar EXCEPT ![fd] = Closed]
    BY <1>3, <2>1, OpenedBar DEF OpenedOf
  <2>3. filesBar' = filesBar
    BY <1>3, FilesBar
  <2>4. Store!Close(fd)
    BY <1>1, <1>3, <2>1, <2>2, <2>3 DEF Store!Close, Store!Returns
  <2> QED BY <2>1, <2>4 DEF Store!Next
<1> QED BY <1>1, <1>2, <1>3 DEF tfs_close

(* tfs_unlink removes the one file and no other.                              *)
LEMMA UnlinkStep ==
  ASSUME ~UnlinkOpen, RInv, RInv', NEW name, Unlink(name)
  PROVE  Store!Next
<1>0. /\ FsInv /\ HandlesLive /\ TablesTyped /\ DirectoryConsistent
      /\ IsDirectory(dir) /\ IsDirectory(dir')
  BY DirectoryNow, DirectoryNext DEF RInv, FsInv
<1>1. PICK ret : /\ tfs_unlink(name, ret) /\ result' = [ret |-> ret, data |-> <<>>]
                 /\ ~IsOpen(name)
  BY DEF Unlink
<1>2. CASE ret = -1 /\ UNCHANGED fs
  BY <1>1, <1>2, FailStep
<1>3. CASE /\ ret = 0 /\ find_in_dir(name) # -1
           /\ Unlinks(find_in_dir(name), First(Entries(name)))
  <2> DEFINE inum == find_in_dir(name)
             slot == First(Entries(name))
  <2>1. /\ slot \in Slots /\ dir[slot].d_inumber = inum /\ inum # -1
        /\ dir[slot].d_name = name /\ name \in FileNames
        /\ filesBar[name] # NoFile
    BY <1>0, <1>3, EntryFound, FileFound
  <2>2. /\ dir' = [dir EXCEPT ![slot] = [d_name |-> NoName, d_inumber |-> -1]]
        /\ UNCHANGED <<inode_table, fs_data, open_file_table, free_open_file_entries>>
    BY <1>3 DEF Unlinks
  <2> HIDE DEF inum, slot
  <2>3. /\ \A s \in Slots : s # slot => dir'[s] = dir[s]
        /\ dir'[slot].d_inumber = -1
    BY <1>0, <2>1, <2>2 DEF TablesTyped
  <2>4. Lookup(dir', name) = -1
    <3> SUFFICES ASSUME Lookup(dir', name) # -1 PROVE FALSE
      OBVIOUS
    <3>1. PICK s \in Slots : dir'[s].d_name = name /\ dir'[s].d_inumber = Lookup(dir', name)
      BY LookupFound
    <3>2. s # slot /\ dir'[s] = dir[s]
      BY <2>3, <3>1
    <3> QED BY <1>0, <2>1, <3>1, <3>2 DEF IsDirectory
  <2>5. \A n : n # name => Lookup(dir', n) = Lookup(dir, n)
    <3> SUFFICES ASSUME NEW n, n # name PROVE Lookup(dir', n) = Lookup(dir, n)
      OBVIOUS
    <3>1. \A s \in Slots : (dir[s].d_inumber # -1 /\ dir[s].d_name = n)
             \/ (dir'[s].d_inumber # -1 /\ dir'[s].d_name = n) => dir'[s] = dir[s]
      BY <2>1, <2>3
    <3> QED BY <1>0, <3>1, LookupSame
  <2>6. filesBar' = [filesBar EXCEPT ![name] = NoFile]
    <3>1. \A n \in FileNames : filesBar'[n] = IF n = name THEN NoFile ELSE filesBar[n]
      <4> SUFFICES ASSUME NEW n \in FileNames
                   PROVE  filesBar'[n] = IF n = name THEN NoFile ELSE filesBar[n]
        OBVIOUS
      <4>1. CASE n = name
        BY <4>1, <2>4, FilesBar DEF FilesOf
      <4>2. CASE n # name
        BY <4>2, <2>2, <2>5, FilesBar DEF FilesOf
      <4> QED BY <4>1, <4>2
    <3> QED BY <3>1, FilesBar DEF FilesOf
  <2>7. \A h \in Handles \ free_open_file_entries :
           NameIn(dir', InodeOf(h)) = NameIn(dir, InodeOf(h))
    <3> SUFFICES ASSUME NEW h \in Handles \ free_open_file_entries
                 PROVE  NameIn(dir', InodeOf(h)) = NameIn(dir, InodeOf(h))
      OBVIOUS
    <3>1. PICK s \in Slots : dir[s].d_inumber = InodeOf(h)
      BY <1>0, HandleName
    <3>2. InodeOf(h) # -1 /\ InodeOf(h) # inum
      <4>1. InodeOf(h) # -1
        BY <1>0, HandleName
      <4> QED BY <4>1, <1>1 DEF IsOpen, IsOpenHandle, InodeOf, inum
    <3>3. dir'[s] = dir[s]
      BY <2>1, <2>3, <3>1, <3>2
    <3>4. NameIn(dir, dir[s].d_inumber) = dir[s].d_name
      BY <1>0, <3>1, <3>2, NameUsed
    <3>5. NameIn(dir', dir'[s].d_inumber) = dir'[s].d_name
      BY <1>0, <3>1, <3>2, <3>3, NameUsed
    <3> QED BY <3>1, <3>3, <3>4, <3>5
  <2>8. openedBar' = openedBar
    BY <2>2, <2>7, OpenedBar DEF OpenedOf, InodeOf
  <2>9. Store!Unlink(name)
    BY <1>1, <1>3, <2>1, <2>6, <2>8 DEF Store!Unlink, Store!Returns
  <2> QED BY <2>1, <2>9 DEF Store!Next
<1> QED BY <1>0, <1>1, <1>2, <1>3, UnlinkEffect

(* Moving a handle of the store keeps its name.                               *)
LEMMA OpenedExcept ==
  ASSUME FsInv, HandlesLive, NEW fd \in Handles \ free_open_file_entries, NEW offset
  PROVE  [openedBar EXCEPT ![fd].offset = offset] =
         [openedBar EXCEPT ![fd] = [name |-> NameIn(dir, InodeOf(fd)), offset |-> offset]]
<1>1. openedBar[fd] = [name |-> NameIn(dir, InodeOf(fd)), offset |-> OffsetOf(fd)]
  BY HandleName
<1>2. [openedBar[fd] EXCEPT !.offset = offset] =
         [name |-> NameIn(dir, InodeOf(fd)), offset |-> offset]
  BY <1>1
<1> QED BY <1>2

(* A handle that moves in the file system moves in the store.                 *)
LEMMA HandleMoved ==
  ASSUME FsInv, HandlesLive, NEW fd \in Handles \ free_open_file_entries, NEW offset,
         open_file_table' = [open_file_table EXCEPT ![fd] =
                               [of_inumber |-> InodeOf(fd), of_offset |-> offset]],
         UNCHANGED <<dir, free_open_file_entries>>
  PROVE  openedBar' = [openedBar EXCEPT ![fd].offset = offset]
<1>0. TablesTyped
  BY DEF FsInv
<1>1. \A h \in Handles : h # fd => open_file_table'[h] = open_file_table[h]
  BY <1>0 DEF TablesTyped
<1>2. open_file_table'[fd] = [of_inumber |-> InodeOf(fd), of_offset |-> offset]
  BY <1>0 DEF TablesTyped
<1>3. \A h \in Handles : openedBar'[h] =
         IF h = fd THEN [name |-> NameIn(dir, InodeOf(fd)), offset |-> offset] ELSE openedBar[h]
  <2> SUFFICES ASSUME NEW h \in Handles
               PROVE  openedBar'[h] =
                  IF h = fd THEN [name |-> NameIn(dir, InodeOf(fd)), offset |-> offset]
                  ELSE openedBar[h]
    OBVIOUS
  <2>1. CASE h = fd
    BY <2>1, <1>2, OpenedBar DEF OpenedOf
  <2>2. CASE h # fd
    BY <2>2, <1>1, OpenedBar DEF OpenedOf
  <2> QED BY <2>1, <2>2
<1>4. openedBar' = [openedBar EXCEPT ![fd] = [name |-> NameIn(dir, InodeOf(fd)), offset |-> offset]]
  BY <1>3, OpenedBar DEF OpenedOf
<1> QED BY <1>4, OpenedExcept

(* The store takes buffers of up to one byte more than a file holds.          *)
LEMMA StoreReadWrite ==
  ASSUME NEW h \in Handles, NEW len \in 0..BLOCK_SIZE + 1,
         Store!Read(h, len) \/ Store!Write(h, len)
  PROVE  Store!Next
  BY DEF Store!Next

(* The number of bytes tfs_write writes, without a modulus.                   *)
LEMMA CountValue ==
  ASSUME NEW fd, NEW data, OffsetOf(fd) \in Nat, OffsetOf(fd) <= BLOCK_SIZE, Len(data) \in Nat
  PROVE  Count(fd, data) = IF Len(data) + OffsetOf(fd) > BLOCK_SIZE
                           THEN BLOCK_SIZE - OffsetOf(fd) ELSE Len(data)
<1>1. ToWrite(OffsetOf(fd), Len(data)) = IF Len(data) + OffsetOf(fd) > BLOCK_SIZE
                                         THEN BLOCK_SIZE - OffsetOf(fd) ELSE Len(data)
  BY ToWriteFits
<1> QED BY <1>1 DEF Count

(* What the store must do for a write of k bytes.                             *)
LEMMA StoreWrite ==
  ASSUME NEW h \in Handles, NEW len \in 0..BLOCK_SIZE + 1, NEW k, NEW d \in [1..k -> Bytes],
         openedBar[h] # Closed,
         Store!Room(openedBar[h].offset, len) = k,
         result' = [ret |-> k, data |-> <<>>],
         openedBar' = [openedBar EXCEPT ![h].offset = @ + k],
         filesBar' = [filesBar EXCEPT ![openedBar[h].name] =
                        Store!Overwrite(@, openedBar[h].offset, d)]
  PROVE  Store!Next
<1>1. Store!Write(h, len)
  BY Zenon DEF Store!Write, Store!Returns
<1> QED BY <1>1, StoreReadWrite

(* A tfs_write with no room left writes nothing in the store either.          *)
LEMMA WriteNothingStep ==
  ASSUME RInv, NEW fd \in Handles, IsOpenHandle(fd), NEW data \in Data, Count(fd, data) = 0,
         UNCHANGED fs, result' = [ret |-> 0, data |-> <<>>]
  PROVE  Store!Next
<1> DEFINE name == NameIn(dir, InodeOf(fd))
<1>0. FsInv /\ HandlesLive /\ OffsetsInFile
  BY DEF RInv
<1>1. /\ fd \in Handles \ free_open_file_entries
      /\ openedBar[fd] = [name |-> name, offset |-> OffsetOf(fd)]
      /\ openedBar[fd] # Closed /\ name \in FileNames
      /\ find_in_dir(name) = InodeOf(fd) /\ OffsetOf(fd) \in Nat
      /\ InodeOf(fd) \in Inodes \ (freeinode_ts \cup {ROOT_DIR_INUM}) /\ InodeOf(fd) # -1
  BY <1>0, HandleName DEF IsOpenHandle
<1> HIDE DEF name
<1>2. /\ filesBar[name] \in Seq(Bytes \cup {Junk})
      /\ Len(filesBar[name]) = inode_table[InodeOf(fd)].i_size
      /\ inode_table[InodeOf(fd)].i_size \in 0..BLOCK_SIZE
      /\ OffsetOf(fd) <= inode_table[InodeOf(fd)].i_size
  BY <1>0, <1>1, FileFound, ContentIsSeq DEF FsInv, TablesTyped, OffsetsInFile, OffsetOf, InodeOf
<1> DEFINE len == IF Len(data) > BLOCK_SIZE + 1 THEN BLOCK_SIZE + 1 ELSE Len(data)
<1>3. len \in 0..BLOCK_SIZE + 1 /\ Store!Room(OffsetOf(fd), len) = 0
  <2>1. Len(data) \in Nat
    BY DataLength, CallersAssumption
  <2>2. 0 = IF Len(data) + OffsetOf(fd) > BLOCK_SIZE THEN BLOCK_SIZE - OffsetOf(fd) ELSE Len(data)
    <3>1. OffsetOf(fd) <= BLOCK_SIZE
      BY <1>1, <1>2, SizesAssumption
    <3> QED BY <1>1, <2>1, <3>1, CountValue
  <2> QED BY <1>1, <1>2, <2>1, <2>2, SizesAssumption DEF Store!Room
<1>4. Store!Overwrite(filesBar[name], OffsetOf(fd), <<>>) = filesBar[name]
  <2>1. Len(<<>>) = 0 /\ OffsetOf(fd) + 0 = OffsetOf(fd)
    BY <1>1
  <2>2. Store!Overwrite(filesBar[name], OffsetOf(fd), <<>>) =
           [i \in 1..Len(filesBar[name]) |-> filesBar[name][i]]
    BY <1>1, <1>2, <2>1, SizesAssumption DEF Store!Overwrite
  <2> QED BY <1>2, <2>2
<1>5. filesBar' = [filesBar EXCEPT ![name] = Store!Overwrite(@, OffsetOf(fd), <<>>)]
  <2>1. filesBar' = filesBar
    BY SameStore
  <2> QED BY <2>1, <1>1, <1>4, FilesBar DEF FilesOf
<1>6. openedBar' = [openedBar EXCEPT ![fd].offset = @ + 0]
  <2>1. openedBar' = openedBar
    BY SameStore
  <2>2. openedBar[fd].offset + 0 = OffsetOf(fd)
    BY <1>1
  <2>3. [openedBar EXCEPT ![fd].offset = OffsetOf(fd)] =
          [openedBar EXCEPT ![fd] = [name |-> name, offset |-> OffsetOf(fd)]]
    BY <1>0, <1>1, OpenedExcept DEF name
  <2>4. [openedBar EXCEPT ![fd] = [name |-> name, offset |-> OffsetOf(fd)]] = openedBar
    BY <1>1, OpenedBar DEF OpenedOf
  <2> QED BY <2>1, <2>2, <2>3, <2>4
<1>7. <<>> \in [1..0 -> Bytes]
  OBVIOUS
<1>8. openedBar[fd].name = name /\ openedBar[fd].offset = OffsetOf(fd)
  BY <1>1
<1> HIDE DEF len
<1> QED BY <1>1, <1>3, <1>5, <1>6, <1>7, <1>8, StoreWrite

(* A tfs_write overwrites or extends its own file of the store, and no byte   *)
(* of another: a block it takes belonged to no file.                          *)
LEMMA WriteBytesStep ==
  ASSUME RInv, RInv', NEW fd \in Handles, NEW data \in Data, Writes(fd, data),
         result' = [ret |-> Count(fd, data), data |-> <<>>]
  PROVE  Store!Next
<1> DEFINE name == NameIn(dir, InodeOf(fd))
           inum == InodeOf(fd)
           offset == OffsetOf(fd)
           n == Count(fd, data)
           bnum == BlockFor(fd)
           at == Address(bnum, offset)
           written == [i \in 1..n |-> data[i]]
<1>0. FsInv /\ HandlesLive /\ OffsetsInFile /\ TablesTyped /\ BlocksOwned /\ FsInv'
  BY DEF RInv, FsInv
<1>1. /\ fd \in Handles \ free_open_file_entries
      /\ openedBar[fd] = [name |-> name, offset |-> offset]
      /\ openedBar[fd] # Closed /\ name \in FileNames
      /\ find_in_dir(name) = inum
      /\ inum \in Inodes \ (freeinode_ts \cup {ROOT_DIR_INUM}) /\ inum # -1
  BY <1>0, HandleName DEF IsOpenHandle, Writes
<1>2. /\ offset \in Nat /\ n \in 1..Len(data) /\ offset + n \in 1..BLOCK_SIZE
      /\ SizeAfter(fd, data) \in 1..BLOCK_SIZE
      /\ bnum \in Blocks /\ (Fresh(fd) => bnum \in free_blocks)
      /\ open_file_table' = [open_file_table EXCEPT ![fd] =
            [of_inumber |-> inum, of_offset |-> offset + n]]
      /\ inode_table' = [inode_table EXCEPT ![inum] =
            [i_size |-> SizeAfter(fd, data), i_data_block |-> bnum]]
  BY <1>0, WriteFacts, DataLength
<1>3. /\ fs_data' = [a \in Arena |-> IF a \in at..at + n - 1 THEN data[a - at + 1] ELSE fs_data[a]]
      /\ UNCHANGED <<dir, freeinode_ts, free_open_file_entries>>
  BY DEF Writes, WriteBytes
<1>4. data \in [1..Len(data) -> Bytes] /\ Len(data) \in Nat
  BY DataLength, CallersAssumption
<1>5. /\ inode_table[inum].i_size \in 0..BLOCK_SIZE /\ offset <= inode_table[inum].i_size
      /\ SizeAfter(fd, data) = IF offset + n > inode_table[inum].i_size THEN offset + n
                               ELSE inode_table[inum].i_size
      /\ inode_table[inum].i_size > 0 => bnum = inode_table[inum].i_data_block
  BY <1>0, <1>1 DEF TablesTyped, OffsetsInFile, OffsetOf, InodeOf, SizeAfter, BlockFor, Fresh
<1>6. bnum # ROOT_BLOCK
  BY <1>0, <1>1, <1>2, <1>5, OpenBlock DEF Fresh, TablesTyped
<1>7. /\ filesBar[name] = Content(inode_table, fs_data, inum)
      /\ Len(filesBar[name]) = inode_table[inum].i_size
  BY <1>0, <1>1, FileFound, ContentIsSeq
<1>8. at \in Int /\ \A k \in Nat : Address(bnum, k) = at + (k - offset)
  <2>1. bnum * BLOCK_SIZE \in Int
    BY <1>2, SizesAssumption DEF Blocks
  <2> QED BY <1>2, <2>1 DEF Address
<1> HIDE DEF name, inum, offset, n, bnum, at
<1>9. /\ \A i \in Inodes : i # inum => inode_table'[i] = inode_table[i]
      /\ inode_table'[inum].i_size = SizeAfter(fd, data)
      /\ inode_table'[inum].i_data_block = bnum
  BY <1>0, <1>1, <1>2 DEF TablesTyped
<1>10. written \in [1..n -> Bytes] /\ Len(written) = n
  BY <1>2, <1>4
<1>11. Content(inode_table', fs_data', inum) = Store!Overwrite(filesBar[name], offset, written)
  <2>1. Content(inode_table', fs_data', inum) =
           [k \in 1..SizeAfter(fd, data) |-> fs_data'[Address(bnum, k - 1)]]
    BY <1>9 DEF Content
  <2>2. Store!Overwrite(filesBar[name], offset, written) =
           [k \in 1..SizeAfter(fd, data) |->
              IF k \in offset + 1..offset + n THEN written[k - offset] ELSE filesBar[name][k]]
    <3> HIDE DEF written
    <3> QED BY <1>5, <1>7, <1>10 DEF Store!Overwrite
  <2>3. ASSUME NEW k \in 1..SizeAfter(fd, data)
        PROVE  fs_data'[Address(bnum, k - 1)] =
                 IF k \in offset + 1..offset + n THEN written[k - offset] ELSE filesBar[name][k]
    <3>1. k - 1 \in 0..BLOCK_SIZE - 1 /\ k - 1 \in Nat
      BY <1>2, SizesAssumption
    <3>2. Address(bnum, k - 1) \in Arena
      BY <1>2, <1>6, <3>1, BlockInArena
    <3>3. Address(bnum, k - 1) = at + (k - 1 - offset)
      BY <1>8, <3>1
    <3>0. offset \in Nat /\ n \in Nat /\ at \in Int
      BY <1>2, <1>4, <1>8
    <3>4. CASE k \in offset + 1..offset + n
      <4>1. Address(bnum, k - 1) \in at..at + n - 1 /\ Address(bnum, k - 1) - at + 1 = k - offset
        BY <3>0, <3>1, <3>3, <3>4
      <4>2. k - offset \in 1..n
        BY <1>2, <1>4, <3>1, <3>4
      <4> QED BY <1>3, <3>2, <3>4, <4>1, <4>2
    <3>5. CASE k \notin offset + 1..offset + n
      <4>1. Address(bnum, k - 1) \notin at..at + n - 1
        BY <1>2, <1>4, <1>8, <3>1, <3>3, <3>5
      <4>2. k \in 1..inode_table[inum].i_size
        BY <1>2, <1>4, <1>5, <3>1, <3>5
      <4>3. bnum = inode_table[inum].i_data_block
        BY <1>5, <4>2
      <4>4. filesBar[name][k] = fs_data[Address(bnum, k - 1)]
        BY <1>7, <4>2, <4>3 DEF Content
      <4> QED BY <1>3, <3>2, <3>5, <4>1, <4>4
    <3> QED BY <3>4, <3>5
  <2> HIDE DEF written
  <2> QED BY <2>1, <2>2, <2>3
<1>12. \A m \in FileNames : m # name /\ find_in_dir(m) # -1 =>
          Content(inode_table', fs_data', find_in_dir(m))
            = Content(inode_table, fs_data, find_in_dir(m))
  <2> SUFFICES ASSUME NEW m \in FileNames, m # name, find_in_dir(m) # -1
               PROVE  Content(inode_table', fs_data', find_in_dir(m))
                        = Content(inode_table, fs_data, find_in_dir(m))
    OBVIOUS
  <2> DEFINE j == find_in_dir(m)
  <2>1. /\ j \in Inodes \ (freeinode_ts \cup {ROOT_DIR_INUM})
        /\ NameIn(dir, j) = m
    BY <1>0, FileFound
  <2>2. j # inum
    BY <2>1 DEF name, inum
  <2> HIDE DEF j
  <2>3. inode_table'[j] = inode_table[j] /\ inode_table[j].i_size \in 0..BLOCK_SIZE
    BY <1>0, <1>9, <2>1, <2>2 DEF TablesTyped
  <2>4. \A k \in 1..inode_table[j].i_size :
           fs_data'[Address(inode_table[j].i_data_block, k - 1)]
             = fs_data[Address(inode_table[j].i_data_block, k - 1)]
    <3> SUFFICES ASSUME NEW k \in 1..inode_table[j].i_size
                 PROVE  fs_data'[Address(inode_table[j].i_data_block, k - 1)]
                          = fs_data[Address(inode_table[j].i_data_block, k - 1)]
      OBVIOUS
    <3>1. k - 1 \in 0..BLOCK_SIZE - 1 /\ inode_table[j].i_size > 0
      BY <2>3, SizesAssumption
    <3>2. inode_table[j].i_data_block \in Blocks \ {ROOT_BLOCK}
      BY <1>0, <2>1, <3>1, OpenBlock
    <3>3. Address(inode_table[j].i_data_block, k - 1) \in Arena
      BY <3>1, <3>2, BlockInArena
    <3>4. inode_table[j].i_data_block # bnum
      <4>1. j \in Live' /\ inum \in Live'
        BY <1>1, <1>2, <1>3, <1>9, <2>1, <2>3, <3>1 DEF Live
      <4>2. inode_table'[j].i_data_block # inode_table'[inum].i_data_block
        BY <1>0, <2>2, <4>1 DEF FsInv, BlocksOwned
      <4> QED BY <4>2, <2>3, <1>9
    <3>5. Address(inode_table[j].i_data_block, k - 1) \notin at..at + n - 1
      <4> SUFFICES ASSUME Address(inode_table[j].i_data_block, k - 1) \in at..at + n - 1 PROVE FALSE
        OBVIOUS
      <4> DEFINE a == Address(inode_table[j].i_data_block, k - 1)
                 l == a - at + offset
      <4>0. a \in Int /\ at <= a /\ a <= at + n - 1
        BY <1>8
      <4> HIDE DEF a
      <4>1. l \in 0..BLOCK_SIZE - 1 /\ l \in Nat /\ at + (l - offset) = a
        BY <1>2, <1>4, <1>8, <4>0, SizesAssumption
      <4> HIDE DEF l
      <4>2. Address(bnum, l) = a
        BY <1>8, <4>1
      <4>3. Address(inode_table[j].i_data_block, k - 1) # Address(bnum, l)
        BY <1>2, <3>1, <3>2, <3>4, <4>1, BlocksApart
      <4> QED BY <4>2, <4>3 DEF a
    <3> QED BY <1>3, <3>3, <3>5
  <2> QED BY <2>3, <2>4 DEF Content, j
<1>13. filesBar' = [filesBar EXCEPT ![name] = Store!Overwrite(@, offset, written)]
  <2>1. filesBar' = [filesBar EXCEPT ![name] = Content(inode_table', fs_data', find_in_dir(name))]
    BY <1>0, <1>1, <1>3, <1>12, SameFiles
  <2> QED BY <2>1, <1>1, <1>11
<1>14. openedBar' = [openedBar EXCEPT ![fd].offset = @ + n]
  <2>1. openedBar' = [openedBar EXCEPT ![fd].offset = offset + n]
    BY <1>0, <1>1, <1>2, <1>3, HandleMoved DEF inum
  <2>2. openedBar[fd].offset + n = offset + n
    BY <1>1
  <2> QED BY <2>1, <2>2
<1> DEFINE len == IF Len(data) > BLOCK_SIZE + 1 THEN BLOCK_SIZE + 1 ELSE Len(data)
<1>15. len \in 0..BLOCK_SIZE + 1 /\ Store!Room(offset, len) = n
  <2>1. n = IF Len(data) + offset > BLOCK_SIZE THEN BLOCK_SIZE - offset ELSE Len(data)
    <3>1. offset <= BLOCK_SIZE
      BY <1>2, <1>4, SizesAssumption
    <3>2. OffsetOf(fd) \in Nat /\ OffsetOf(fd) <= BLOCK_SIZE /\ Len(data) \in Nat
      BY <1>2, <1>4, <3>1 DEF offset
    <3>3. Count(fd, data) = IF Len(data) + OffsetOf(fd) > BLOCK_SIZE
                            THEN BLOCK_SIZE - OffsetOf(fd) ELSE Len(data)
      BY <3>2, CountValue
    <3> QED BY <3>3 DEF n, offset
  <2>2. /\ offset \in Nat /\ n \in Nat /\ Len(data) \in Nat
        /\ offset + n \in 1..BLOCK_SIZE /\ BLOCK_SIZE \in Nat
    BY <1>2, <1>4, SizesAssumption
  <2>3. len \in 0..BLOCK_SIZE + 1
    BY <2>2
  <2>4. len + offset > BLOCK_SIZE <=> Len(data) + offset > BLOCK_SIZE
    BY <2>2
  <2>5. len + offset <= BLOCK_SIZE => len = Len(data)
    BY <2>2
  <2>6. Store!Room(offset, len) = n
    BY <2>1, <2>2, <2>3, <2>4, <2>5 DEF Store!Room
  <2> QED BY <2>3, <2>6
<1>16. result' = [ret |-> n, data |-> <<>>]
  BY DEF n
<1> HIDE DEF written, len
<1>17. openedBar[fd].name = name /\ openedBar[fd].offset = offset
  BY <1>1
<1> QED BY <1>1, <1>10, <1>13, <1>14, <1>15, <1>16, <1>17, StoreWrite

(* The elements of a subsequence.                                             *)
LEMMA SubSeqValue ==
  ASSUME NEW S, NEW s \in Seq(S), NEW m \in Nat, NEW e \in Nat, m <= e, e <= Len(s)
  PROVE  SubSeq(s, m + 1, e) = [i \in 1..e - m |-> s[m + i]]
  OBVIOUS

(* What the store must do for a read.                                         *)
LEMMA StoreRead ==
  ASSUME NEW h \in Handles, NEW len \in 0..BLOCK_SIZE + 1, NEW s, NEW offset, NEW end,
         openedBar[h] # Closed,
         filesBar[openedBar[h].name] = s, openedBar[h].offset = offset,
         end = IF offset + len > Len(s) THEN Len(s) ELSE offset + len,
         result' = [ret |-> end - offset, data |-> SubSeq(s, offset + 1, end)],
         openedBar' = [openedBar EXCEPT ![h].offset = end],
         filesBar' = filesBar
  PROVE  Store!Next
<1>1. Store!Read(h, len)
  BY Zenon DEF Store!Read, Store!Returns
<1> QED BY <1>1, StoreReadWrite

(* A tfs_read returns the bytes of its file from its offset on.               *)
LEMMA ReadStep ==
  ASSUME RInv, NEW fd \in Handles, IsOpenHandle(fd), NEW length \in Nat,
         result' = [ret |-> ToRead(fd, length),
                    data |-> [i \in 1..ToRead(fd, length) |->
                  fs_data[Address(inode_table[InodeOf(fd)].i_data_block, OffsetOf(fd)) + i - 1]]],
         open_file_table' = [open_file_table EXCEPT ![fd] =
                  [of_inumber |-> InodeOf(fd), of_offset |-> OffsetOf(fd) + ToRead(fd, length)]],
         UNCHANGED <<inode_table, dir, fs_data, free_open_file_entries>>
  PROVE  Store!Next
<1> DEFINE name == NameIn(dir, InodeOf(fd))
           inum == InodeOf(fd)
           offset == OffsetOf(fd)
           size == inode_table[inum].i_size
           bnum == inode_table[inum].i_data_block
           n == ToRead(fd, length)
           s == filesBar[name]
           len == IF length > BLOCK_SIZE + 1 THEN BLOCK_SIZE + 1 ELSE length
           end == offset + n
<1>0. FsInv /\ HandlesLive /\ OffsetsInFile /\ TablesTyped
  BY DEF RInv, FsInv
<1>1. /\ fd \in Handles \ free_open_file_entries
      /\ openedBar[fd] = [name |-> name, offset |-> offset]
      /\ openedBar[fd] # Closed /\ name \in FileNames
      /\ find_in_dir(name) = inum /\ offset \in Nat
      /\ inum \in Inodes \ (freeinode_ts \cup {ROOT_DIR_INUM}) /\ inum # -1
  BY <1>0, HandleName DEF IsOpenHandle
<1>2. /\ s = Content(inode_table, fs_data, inum)
      /\ s \in Seq(Bytes \cup {Junk}) /\ Len(s) = size
  BY <1>0, <1>1, FileFound, ContentIsSeq
<1>3. size \in 0..BLOCK_SIZE /\ offset <= size
  BY <1>0, <1>1 DEF TablesTyped, OffsetsInFile, OffsetOf, InodeOf
<1>4. /\ n = IF size - offset > length THEN length ELSE size - offset
      /\ n \in Nat /\ offset + n <= size
  BY <1>0, <1>1, ToReadValue
<1>5. result' = [ret |-> n, data |-> [i \in 1..n |-> fs_data[Address(bnum, offset) + i - 1]]]
  OBVIOUS
<1>6. openedBar' = [openedBar EXCEPT ![fd].offset = end]
  BY <1>0, <1>1, HandleMoved
<1>7. filesBar' = filesBar
  BY FilesBar
<1>8. \A k \in 1..size : s[k] = fs_data[Address(bnum, k - 1)]
  BY <1>2 DEF Content
<1>9. size > 0 => bnum \in Blocks
  BY <1>0, <1>1, OpenBlock
<1>10. openedBar[fd].name = name /\ openedBar[fd].offset = offset
  BY <1>1
<1> HIDE DEF name, inum, offset, size, bnum, n, s
<1>11. len \in 0..BLOCK_SIZE + 1 /\ end = IF offset + len > Len(s) THEN Len(s) ELSE offset + len
  BY <1>1, <1>2, <1>3, <1>4, SizesAssumption
<1>12. SubSeq(s, offset + 1, end) = [i \in 1..n |-> s[offset + i]]
  <2>1. end \in Nat /\ offset \in Nat /\ offset <= end /\ end <= Len(s) /\ end - offset = n
    BY <1>1, <1>2, <1>3, <1>4
  <2> HIDE DEF end
  <2> QED BY <1>2, <2>1, SubSeqValue
<1>13. \A i \in 1..n : s[offset + i] = fs_data[Address(bnum, offset) + i - 1]
  <2> SUFFICES ASSUME NEW i \in 1..n
               PROVE  s[offset + i] = fs_data[Address(bnum, offset) + i - 1]
    OBVIOUS
  <2>1. offset + i \in 1..size /\ size > 0
    BY <1>1, <1>3, <1>4
  <2>2. s[offset + i] = fs_data[Address(bnum, (offset + i) - 1)]
    <3> DEFINE k == offset + i
    <3>1. k \in 1..size
      BY <2>1
    <3>2. s[k] = fs_data[Address(bnum, k - 1)]
      <4> HIDE DEF k
      <4> QED BY <1>8, <3>1
    <3> QED BY <3>2
  <2>3. bnum * BLOCK_SIZE \in Int
    BY <1>9, <2>1, SizesAssumption DEF Blocks
  <2>4. Address(bnum, (offset + i) - 1) = Address(bnum, offset) + i - 1
    BY <1>1, <1>4, <2>3 DEF Address
  <2> QED BY <2>2, <2>4
<1>14. result' = [ret |-> end - offset, data |-> SubSeq(s, offset + 1, end)]
  <2>1. end - offset = n
    BY <1>1, <1>4
  <2>2. [i \in 1..n |-> s[offset + i]] = [i \in 1..n |-> fs_data[Address(bnum, offset) + i - 1]]
    BY <1>13
  <2> QED BY <1>5, <1>12, <2>1, <2>2
<1>15. filesBar[openedBar[fd].name] = s
  BY <1>10 DEF s
<1> HIDE DEF len, end
<1> QED BY <1>1, <1>6, <1>7, <1>10, <1>11, <1>14, <1>15, StoreRead

(* Every call of callers that neither unlink nor truncate open files is a     *)
(* step of the store.                                                         *)
LEMMA StoreStep ==
  ASSUME ~UnlinkOpen, ~TruncOpen, RInv, RInv', Next
  PROVE  Store!Next
<1>1. ASSUME NEW name, NEW mode \in Modes, Open(name, mode) PROVE Store!Next
  <2>1. PICK ret : tfs_open(name, mode, ret) /\ result' = [ret |-> ret, data |-> <<>>]
    BY <1>1 DEF Open
  <2>2. CASE ret = -1 /\ UNCHANGED fs
    BY <2>1, <2>2, FailStep
  <2>3. CASE OpenExisting(name, mode, ret)
    BY <1>1, <2>1, <2>3, OpenExistingStep
  <2>4. CASE find_in_dir(name) = -1 /\ "CREAT" \in mode /\ OpenCreate(name, ret)
    BY <1>1, <2>1, <2>4, OpenCreateStep
  <2> QED BY <2>1, <2>2, <2>3, <2>4 DEF tfs_open
<1>2. ASSUME NEW fd \in Handles, NEW data \in Data, Write(fd, data) PROVE Store!Next
  <2>0. FsInv /\ HandlesLive /\ OffsetsInFile /\ TablesTyped
    BY DEF RInv, FsInv
  <2>1. PICK ret : tfs_write(fd, data, ret) /\ result' = [ret |-> ret, data |-> <<>>]
    BY <1>2 DEF Write
  <2>2. CASE ret = -1 /\ UNCHANGED fs
    BY <2>1, <2>2, FailStep
  <2>3. CASE IsOpenHandle(fd) /\ Count(fd, data) = 0 /\ ret = 0 /\ UNCHANGED fs
    BY <2>1, <2>3, WriteNothingStep
  <2>4. CASE IsOpenHandle(fd) /\ OffsetOf(fd) > BLOCK_SIZE
    <3>1. /\ OffsetOf(fd) <= inode_table[InodeOf(fd)].i_size
          /\ inode_table[InodeOf(fd)].i_size \in 0..BLOCK_SIZE /\ OffsetOf(fd) \in Nat
      BY <2>0, <2>4 DEF OffsetsInFile, TablesTyped, IsOpenHandle, OffsetOf, InodeOf
    <3> QED BY <2>4, <3>1, SizesAssumption
  <2>5. CASE ret = Count(fd, data) /\ Writes(fd, data)
    BY <2>1, <2>5, WriteBytesStep
  <2> QED BY <2>1, <2>2, <2>3, <2>4, <2>5, WriteEffect
<1>3. ASSUME NEW fd \in Handles, NEW len \in Nat, Read(fd, len) PROVE Store!Next
  <2>0. FsInv /\ HandlesLive /\ OffsetsInFile /\ TablesTyped
    BY DEF RInv, FsInv
  <2>1. PICK ret, buffer : /\ tfs_read(fd, len, ret, buffer)
                           /\ result' = [ret |-> ret, data |-> buffer]
    BY <1>3 DEF Read
  <2>2. CASE ret = -1 /\ buffer = <<>> /\ UNCHANGED fs
    BY <2>1, <2>2, FailStep
  <2>3. CASE /\ IsOpenHandle(fd) /\ ToRead(fd, len) = 0
             /\ ret = 0 /\ buffer = <<>> /\ UNCHANGED fs
    <3>1. [i \in 1..ToRead(fd, len) |->
             fs_data[Address(inode_table[InodeOf(fd)].i_data_block, OffsetOf(fd)) + i - 1]] = <<>>
      BY <2>3
    <3>2. OffsetOf(fd) + ToRead(fd, len) = OffsetOf(fd)
      BY <2>0, <2>3 DEF TablesTyped, OffsetOf
    <3>3. open_file_table' = [open_file_table EXCEPT ![fd] =
            [of_inumber |-> InodeOf(fd), of_offset |-> OffsetOf(fd) + ToRead(fd, len)]]
      <4>1. open_file_table[fd] = [of_inumber |-> InodeOf(fd), of_offset |-> OffsetOf(fd)]
        BY <2>0 DEF TablesTyped, InodeOf, OffsetOf
      <4>2. open_file_table' = open_file_table
        BY <2>3 DEF fs
      <4> QED BY <2>0, <3>2, <4>1, <4>2 DEF TablesTyped
    <3>4. UNCHANGED <<inode_table, dir, fs_data, free_open_file_entries>>
      BY <2>3 DEF fs
    <3> QED BY <2>1, <2>3, <3>1, <3>3, <3>4, ReadStep
  <2>4. CASE /\ IsOpenHandle(fd) /\ ret = ToRead(fd, len)
             /\ buffer = [i \in 1..ToRead(fd, len) |->
                  fs_data[Address(inode_table[InodeOf(fd)].i_data_block, OffsetOf(fd)) + i - 1]]
             /\ open_file_table' = [open_file_table EXCEPT ![fd] =
                  [of_inumber |-> InodeOf(fd), of_offset |-> OffsetOf(fd) + ToRead(fd, len)]]
             /\ UNCHANGED <<inode_table, dir, fs_data, free_open_file_entries>>
    BY <2>1, <2>4, ReadStep
  <2> QED BY <2>0, <2>1, <2>2, <2>3, <2>4, ReadEffect
<1> QED BY <1>1, <1>2, <1>3, CloseStep, UnlinkStep, CallersAssumption DEF Next

(* To callers that neither unlink nor truncate open files the file system is  *)
(* a set of independent named byte sequences: reused inodes, blocks and       *)
(* handles never show.                                                       *)
THEOREM Refinement ==
  ASSUME ~UnlinkOpen, ~TruncOpen
  PROVE  Spec => ImplementsFileStore
<1>1. Init => Store!Init
  <2> SUFFICES ASSUME Init PROVE Store!Init
    OBVIOUS
  <2>1. dir = [s \in Slots |-> [d_name |-> NoName, d_inumber |-> -1]]
    <3>1. Len(<<>>) = 0
      OBVIOUS
    <3> QED BY <3>1, SizesAssumption DEF Init, FSInitWith, Slots
  <2>2. \A n : Lookup(dir, n) = -1
    BY <2>1 DEF Lookup
  <2>3. filesBar = [n \in FileNames |-> NoFile]
    BY <2>2, FilesBar DEF FilesOf
  <2>4. openedBar = [h \in Handles |-> Closed]
    BY OpenedBar DEF OpenedOf, Init, FSInitWith
  <2> QED BY <2>3, <2>4 DEF Store!Init, Init
<1>2. RInv /\ RInv' /\ [Next]_vars => [Store!Next]_(Store!vars)
  <2> SUFFICES ASSUME RInv, RInv', [Next]_vars PROVE [Store!Next]_(Store!vars)
    OBVIOUS
  <2>1. CASE Next
    BY <2>1, StoreStep
  <2>2. CASE UNCHANGED vars
    BY <2>2, SameStore DEF vars, fs, Store!vars
  <2> QED BY <2>1, <2>2
<1>3. RInv /\ [Next]_vars => RInv'
  BY RInvStep
<1> QED BY <1>1, <1>2, <1>3, RInvInit, PTL DEF Spec, ImplementsFileStore, Store!Spec
=============================================================================
