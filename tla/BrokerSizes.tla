---------------------------- MODULE BrokerSizes ----------------------------
(***************************************************************************)
(* Handles and sizes, for any number of workers, clients, boxes and messages: *)
(* no worker uses the handle of another (HandlesOwned), and where no client   *)
(* creates boxes the size a box shows is the size of its file.                *)
(***************************************************************************)
EXTENDS BrokerProofs

\* where a worker has an open handle in fd
FilePCs == PubSession \cup SubSession \cup {"p_close", "c_tfs_close"}

\* every handle has one owner: nobody reads, writes or closes through another's
HandlesOwned ==
    /\ \A w \in Workers : pc[w] \in FilePCs => IsOpenHandle(loc[w].fd)
    /\ \A w, u \in Workers :
          w # u /\ pc[w] \in FilePCs /\ pc[u] \in FilePCs => loc[w].fd # loc[u].fd

FileSize(inum) == inode_table[inum].i_size
ByteAt(inum, offset) == fs_data[Address(inode_table[inum].i_data_block, offset)]

-----------------------------------------------------------------------------
(* What the sizes rest on, while no box is created *)

\* the inode of the initial box b, for ever
BoxInode(b) == b + 1

\* box b was created with name b + 1 of InitialBoxes, in entry b, as inode b + 1
BoxesFixed ==
    /\ \A b \in BoxSlots : /\ b < Len(InitialBoxes) => boxes[b].name = InitialBoxes[b + 1]
                           /\ boxes[b].alloc_state = "USED"
                                 => b < Len(InitialBoxes) /\ dir[b].d_inumber # -1
    /\ \A s \in Slots : dir[s].d_inumber # -1 =>
          /\ s < Len(InitialBoxes) /\ dir[s].d_name = InitialBoxes[s + 1]
          /\ dir[s].d_inumber = BoxInode(s)
    /\ \A w \in Workers : pc[w] \in BoxPCs => loc[w].box < Len(InitialBoxes)

\* a session's handle is open on the file of its box
HandlesOnBoxes == \A w \in Workers : pc[w] \in PubSession \cup SubSession =>
    InodeOf(loc[w].fd) = BoxInode(loc[w].box)

MutexHeld == \A w \in Workers :
    pc[w] \in {"p_terminate", "s_read", "s_send", "s_signal", "s_end"}
       => mutex[loc[w].box] = w

\* a publisher writes at the end of the file
AtEnd == \A w \in Workers : pc[w] \in PubSession \ {"p_end"} =>
    OffsetOf(loc[w].fd) = FileSize(BoxInode(loc[w].box))

\* between its two writes a message is in the file and not yet in the size of the box
SizesKept == \A b \in BoxSlots : b < Len(InitialBoxes) =>
    \/ FileSize(BoxInode(b)) = BLOCK_SIZE
    \/ /\ FileSize(BoxInode(b)) = boxes[b].size
       /\ \A w \in Workers : pc[w] = "p_terminate" /\ loc[w].box = b => loc[w].msg = <<>>
    \/ \E w \in Workers : /\ pc[w] = "p_terminate" /\ loc[w].box = b
                          /\ FileSize(BoxInode(b)) = boxes[b].size + Len(loc[w].msg)

ZInv == SInv /\ HandlesOwned /\ BoxesFixed /\ HandlesOnBoxes /\ MutexHeld /\ AtEnd /\ SizesKept

-----------------------------------------------------------------------------
(* Files and handles *)

(* Opening a file, without truncation, keeps the files that exist; a file it  *)
(* creates is empty and has a name that no file had.                          *)
LEMMA OpenKeeps ==
  ASSUME FsInv, NEW name, NEW mode, "TRUNC" \notin mode, NEW ret, tfs_open(name, mode, ret)
  PROVE  /\ fs_data' = fs_data
         /\ \A i \in Inodes \ freeinode_ts : inode_table'[i] = inode_table[i]
         /\ \A s \in Slots : dir[s].d_inumber # -1 => dir'[s] = dir[s]
         /\ \A s \in Slots : dir[s].d_inumber = -1 /\ dir'[s].d_inumber # -1 =>
               /\ dir'[s].d_name = name /\ find_in_dir(name) = -1
               /\ inode_table'[dir'[s].d_inumber].i_size = 0
         /\ "CREAT" \notin mode => dir' = dir /\ inode_table' = inode_table
<1>0. TablesTyped /\ DirectoryConsistent
  BY DEF FsInv
<1>1. CASE UNCHANGED fs
  BY <1>1 DEF fs
<1>2. CASE OpenExisting(name, mode, ret)
  <2> DEFINE inum == find_in_dir(name)
             size == inode_table[inum].i_size
  <2>1. /\ inum # -1 /\ inode_table' = [inode_table EXCEPT ![inum].i_size = size]
        /\ UNCHANGED <<freeinode_ts, dir, fs_data, fault>>
    BY <1>2 DEF OpenExisting
  <2>2. inum \in Inodes
    BY <1>0, <2>1, EntryFound
  <2>3. inode_table' = [inode_table EXCEPT ![inum] =
            [i_size |-> size, i_data_block |-> inode_table[inum].i_data_block]]
    <3> HIDE DEF size, inum
    <3> QED BY <1>0, <2>1, <2>2, SizeExcept
  <2>4. [i_size |-> size, i_data_block |-> inode_table[inum].i_data_block] = inode_table[inum]
    <3>1. inode_table[inum] \in [i_size : 0..BLOCK_SIZE, i_data_block : Blocks \cup {-1}]
      BY <1>0, <2>2 DEF TablesTyped
    <3> HIDE DEF inum
    <3> QED BY <3>1
  <2>5. inode_table' = inode_table
    <3>1. inode_table \in [Inodes -> [i_size : 0..BLOCK_SIZE, i_data_block : Blocks \cup {-1}]]
      BY <1>0 DEF TablesTyped
    <3> HIDE DEF size, inum
    <3> QED BY <2>2, <2>3, <2>4, <3>1
  <2> QED BY <2>1, <2>5
<1>3. CASE find_in_dir(name) = -1 /\ "CREAT" \in mode /\ OpenCreate(name, ret)
  <2> DEFINE inum == First(freeinode_ts)
             slot == First(FreeSlots)
  <2>1. /\ inode_table' = [inode_table EXCEPT ![inum] = [i_size |-> 0, i_data_block |-> -1]]
        /\ \/ UNCHANGED dir
           \/ /\ FreeSlots # {}
              /\ dir' = [dir EXCEPT ![slot] = [d_name |-> name, d_inumber |-> inum]]
        /\ fs_data' = fs_data /\ freeinode_ts # {}
    BY <1>3 DEF OpenCreate, InitialInode
  <2>2. inum \in freeinode_ts /\ inum \in Inodes
    <3>1. freeinode_ts # {} /\ freeinode_ts \subseteq Nat
      BY <1>0, <2>1, SizesAssumption DEF TablesTyped, Inodes
    <3>2. inum \in freeinode_ts
      BY <3>1, FirstLeast
    <3> QED BY <3>2, <1>0 DEF TablesTyped
  <2>3. FreeSlots # {} => slot \in Slots /\ dir[slot].d_inumber = -1
    <3>1. FreeSlots \subseteq Nat
      BY SizesAssumption DEF FreeSlots, Slots
    <3>2. FreeSlots # {} => slot \in FreeSlots
      BY <3>1, FirstLeast
    <3> QED BY <3>2 DEF FreeSlots
  <2> HIDE DEF inum, slot
  <2>4. \A i \in Inodes : inode_table'[i] = IF i = inum THEN [i_size |-> 0, i_data_block |-> -1]
                                            ELSE inode_table[i]
    BY <1>0, <2>1 DEF TablesTyped
  <2>5. CASE UNCHANGED dir
    BY <1>3, <2>1, <2>2, <2>4, <2>5
  <2>6. CASE FreeSlots # {} /\ dir' = [dir EXCEPT ![slot] = [d_name |-> name, d_inumber |-> inum]]
    <3>1. \A s \in Slots : dir'[s] = IF s = slot THEN [d_name |-> name, d_inumber |-> inum]
                                     ELSE dir[s]
      BY <1>0, <2>3, <2>6 DEF TablesTyped
    <3>2. \A s \in Slots : dir[s].d_inumber = -1 /\ dir'[s].d_inumber # -1 =>
             dir'[s].d_name = name /\ dir'[s].d_inumber = inum
      BY <3>1
    <3>3. inode_table'[inum].i_size = 0
      BY <2>2, <2>4
    <3> QED BY <1>3, <2>1, <2>2, <2>3, <2>4, <2>6, <3>1, <3>2, <3>3
  <2> QED BY <2>1, <2>5, <2>6
<1> QED BY <1>1, <1>2, <1>3 DEF tfs_open

(* tfs_open fails, or gives a handle that was free to the file of that name:  *)
(* at its end for APPEND, else at its beginning.                              *)
LEMMA OpenGives ==
  ASSUME FsInv, NEW name, NEW mode, "TRUNC" \notin mode, NEW ret, tfs_open(name, mode, ret)
  PROVE  \/ ret = -1 /\ UNCHANGED <<open_file_table, free_open_file_entries>>
         \/ /\ ret \in free_open_file_entries
            /\ free_open_file_entries' = free_open_file_entries \ {ret}
            /\ \A h \in Handles : h # ret => open_file_table'[h] = open_file_table[h]
            /\ \E s \in Slots : /\ dir'[s].d_name = name /\ dir'[s].d_inumber # -1
                                /\ open_file_table'[ret].of_inumber = dir'[s].d_inumber
            /\ open_file_table'[ret].of_offset =
                  IF "APPEND" \in mode
                  THEN inode_table'[open_file_table'[ret].of_inumber].i_size ELSE 0
<1>0. TablesTyped /\ DirectoryConsistent
  BY DEF FsInv
\* the handle that add_to_open_file_table fills in
<1>h. ASSUME NEW inum, NEW offset, add_to_open_file_table(inum, offset, ret)
      PROVE  \/ ret = -1 /\ UNCHANGED <<open_file_table, free_open_file_entries>>
             \/ /\ ret \in free_open_file_entries
                /\ free_open_file_entries' = free_open_file_entries \ {ret}
                /\ \A h \in Handles : h # ret => open_file_table'[h] = open_file_table[h]
                /\ open_file_table'[ret].of_inumber = inum
                /\ open_file_table'[ret].of_offset = offset
  <2>1. free_open_file_entries \subseteq Handles /\ DOMAIN open_file_table = Handles
    BY <1>0 DEF TablesTyped
  <2>2. CASE ret = -1 /\ UNCHANGED <<open_file_table, free_open_file_entries>>
    BY <2>2
  <2>3. CASE /\ ret \in free_open_file_entries
             /\ open_file_table' = [open_file_table EXCEPT
                                      ![ret] = [of_inumber |-> inum, of_offset |-> offset]]
             /\ free_open_file_entries' = free_open_file_entries \ {ret}
    BY <2>1, <2>3
  <2> QED BY <1>0, <1>h, <2>2, <2>3, HandleGiven
<1>1. CASE ret = -1 /\ UNCHANGED fs
  BY <1>1 DEF fs
<1>2. CASE OpenExisting(name, mode, ret)
  <2> DEFINE inum == find_in_dir(name)
             offset == IF "APPEND" \in mode THEN inode_table[inum].i_size ELSE 0
  <2>1. inum # -1 /\ add_to_open_file_table(inum, offset, ret) /\ UNCHANGED dir
    BY <1>2 DEF OpenExisting
  <2>2. /\ First(Entries(name)) \in Slots /\ dir[First(Entries(name))].d_name = name
        /\ dir[First(Entries(name))].d_inumber = inum /\ inum \in Inodes \ freeinode_ts
    BY <1>0, <2>1, EntryFound, EntryInode
  <2>3. inode_table'[inum] = inode_table[inum]
    BY <2>2, OpenKeeps
  <2> HIDE DEF inum, offset
  <2>4. \/ ret = -1 /\ UNCHANGED <<open_file_table, free_open_file_entries>>
        \/ /\ ret \in free_open_file_entries
           /\ free_open_file_entries' = free_open_file_entries \ {ret}
           /\ \A h \in Handles : h # ret => open_file_table'[h] = open_file_table[h]
           /\ open_file_table'[ret].of_inumber = inum
           /\ open_file_table'[ret].of_offset = offset
    BY <1>h, <2>1
  <2> QED BY <2>1, <2>2, <2>3, <2>4 DEF offset
<1>3. CASE find_in_dir(name) = -1 /\ OpenCreate(name, ret)
  <2> DEFINE inum == First(freeinode_ts)
             slot == First(FreeSlots)
  <2>1. CASE ret = -1 /\ UNCHANGED <<open_file_table, free_open_file_entries>>
    BY <2>1
  <2>2. CASE /\ FreeSlots # {} /\ freeinode_ts # {}
             /\ dir' = [dir EXCEPT ![slot] = [d_name |-> name, d_inumber |-> inum]]
             /\ add_to_open_file_table(inum, 0, ret)
             /\ inode_table' = [inode_table EXCEPT ![inum] = [i_size |-> 0, i_data_block |-> -1]]
    <3>1. inum \in Inodes /\ inum # -1
      <4>1. freeinode_ts # {} /\ freeinode_ts \subseteq Nat
        BY <1>0, <2>2, SizesAssumption DEF TablesTyped, Inodes
      <4>2. inum \in freeinode_ts
        BY <4>1, FirstLeast
      <4>3. inum \in Inodes
        BY <4>2, <1>0 DEF TablesTyped
      <4> HIDE DEF inum
      <4> QED BY <4>3, SizesAssumption DEF Inodes
    <3>2. slot \in Slots
      <4>1. FreeSlots \subseteq Nat
        BY SizesAssumption DEF FreeSlots, Slots
      <4>2. slot \in FreeSlots
        BY <2>2, <4>1, FirstLeast
      <4> QED BY <4>2 DEF FreeSlots
    <3> HIDE DEF inum, slot
    <3>3. dir'[slot].d_name = name /\ dir'[slot].d_inumber = inum
      BY <1>0, <2>2, <3>2 DEF TablesTyped
    <3>4. inode_table'[inum].i_size = 0
      BY <1>0, <2>2, <3>1 DEF TablesTyped
    <3>5. \/ ret = -1 /\ UNCHANGED <<open_file_table, free_open_file_entries>>
          \/ /\ ret \in free_open_file_entries
             /\ free_open_file_entries' = free_open_file_entries \ {ret}
             /\ \A h \in Handles : h # ret => open_file_table'[h] = open_file_table[h]
             /\ open_file_table'[ret].of_inumber = inum
             /\ open_file_table'[ret].of_offset = 0
      BY <1>h, <2>2
    <3> QED BY <3>1, <3>2, <3>3, <3>4, <3>5
  <2> QED BY <1>3, <2>1, <2>2 DEF OpenCreate, InitialInode
<1> QED BY <1>1, <1>2, <1>3 DEF tfs_open

(* A read moves only the offset of its handle.                                *)
LEMMA ReadKeeps ==
  ASSUME FsInv, NEW fd, NEW ret, NEW buffer, tfs_read(fd, 1, ret, buffer)
  PROVE  /\ UNCHANGED <<inode_table, freeinode_ts, dir, free_blocks, fs_data,
                        free_open_file_entries>>
         /\ \A h \in Handles : /\ h # fd => open_file_table'[h] = open_file_table[h]
                               /\ open_file_table'[h].of_inumber = open_file_table[h].of_inumber
<1>0. TablesTyped
  BY DEF FsInv
<1>1. CASE UNCHANGED <<inode_table, freeinode_ts, dir, free_blocks, fs_data, open_file_table,
                       free_open_file_entries>>
  BY <1>1
<1>2. CASE /\ IsOpenHandle(fd)
           /\ open_file_table' = [open_file_table EXCEPT ![fd].of_offset = @ + ToRead(fd, 1)]
           /\ UNCHANGED <<inode_table, freeinode_ts, dir, free_blocks, fs_data,
                          free_open_file_entries, fault>>
  <2> DEFINE offset == open_file_table[fd].of_offset + ToRead(fd, 1)
  <2>1. fd \in Handles /\ open_file_table' = [open_file_table EXCEPT ![fd].of_offset = offset]
    BY <1>0, <1>2 DEF IsOpenHandle, TablesTyped
  <2> HIDE DEF offset
  <2>2. open_file_table' = [open_file_table EXCEPT ![fd] =
           [of_inumber |-> open_file_table[fd].of_inumber, of_offset |-> offset]]
    BY <1>0, <2>1, OffsetExcept
  <2>3. DOMAIN open_file_table = Handles
    BY <1>0 DEF TablesTyped
  <2>4. fd \in Handles
    BY <2>1
  <2>5. \A h \in Handles : open_file_table'[h] =
           IF h = fd THEN [of_inumber |-> open_file_table[fd].of_inumber, of_offset |-> offset]
           ELSE open_file_table[h]
    BY <2>2, <2>3, <2>4
  <2> QED BY <1>2, <2>5
<1> QED BY <1>1, <1>2 DEF tfs_read, Dies, fs

(* Inside the file, a read of one byte that succeeds gives the byte at the    *)
(* offset of the handle.                                                      *)
LEMMA ReadByte ==
  ASSUME FsInv, NEW fd, NEW ret, NEW buffer, tfs_read(fd, 1, ret, buffer), IsOpenHandle(fd),
         OffsetOf(fd) <= FileSize(InodeOf(fd)), ret = 1
  PROVE  /\ OffsetOf(fd) < FileSize(InodeOf(fd))
         /\ buffer = <<ByteAt(InodeOf(fd), OffsetOf(fd))>>
         /\ open_file_table'[fd].of_offset = OffsetOf(fd) + 1
<1>0. TablesTyped /\ fd \in Handles
  BY DEF FsInv, IsOpenHandle
<1> DEFINE bnum == inode_table[open_file_table[fd].of_inumber].i_data_block
           at == Address(bnum, open_file_table[fd].of_offset)
           offset == open_file_table[fd].of_offset + ToRead(fd, 1)
<1>1. /\ ToRead(fd, 1) = 1 /\ buffer = [i \in 1..1 |-> fs_data[at + i - 1]]
      /\ bnum \in Blocks
      /\ open_file_table' = [open_file_table EXCEPT ![fd].of_offset = offset]
  <2>1. \/ ret = -1 \/ ret = 0
        \/ /\ ret = ToRead(fd, 1) /\ buffer = [i \in 1..ToRead(fd, 1) |-> fs_data[at + i - 1]]
           /\ bnum \in Blocks
           /\ open_file_table' = [open_file_table EXCEPT ![fd].of_offset = offset]
    BY Zenon DEF tfs_read
  <2> HIDE DEF bnum, at, offset
  <2>2. ret = ToRead(fd, 1) /\ ret = 1
    BY <2>1
  <2> QED BY <2>1, <2>2
<1>2. /\ FileSize(InodeOf(fd)) \in 0..BLOCK_SIZE /\ OffsetOf(fd) \in Nat
  BY <1>0 DEF TablesTyped, FileSize, InodeOf, OffsetOf
<1>3. OffsetOf(fd) # FileSize(InodeOf(fd))
  <2>1. ASSUME OffsetOf(fd) = FileSize(InodeOf(fd)) PROVE FALSE
    <3>1. (FileSize(InodeOf(fd)) - OffsetOf(fd)) = 0
      BY <1>2, <2>1
    <3>2. 0 % SizeModulus = 0
      BY SizesAssumption, BlockBelowModulus
    <3>3. ToRead(fd, 1) = 0
      BY <3>1, <3>2 DEF ToRead, FileSize, InodeOf, OffsetOf
    <3> QED BY <1>1, <3>3
  <2> QED BY <2>1
<1>4. OffsetOf(fd) < FileSize(InodeOf(fd))
  BY <1>2, <1>3, SizesAssumption
<1>5. at \in Int /\ at + 1 - 1 = at
  <2>1. bnum \in Nat /\ open_file_table[fd].of_offset \in Nat
    BY <1>0, <1>1, SizesAssumption DEF Blocks, TablesTyped
  <2> HIDE DEF bnum
  <2>2. at \in Int
    BY <2>1, SizesAssumption DEF Address
  <2> HIDE DEF at
  <2> QED BY <2>2
<1>6. buffer = <<fs_data[at]>>
  <2> HIDE DEF at, bnum, offset
  <2>1. buffer = [i \in 1..1 |-> fs_data[at + i - 1]]
    BY <1>1
  <2>2. \A i \in 1..1 : fs_data[at + i - 1] = fs_data[at]
    BY <1>5
  <2>3. buffer = [i \in 1..1 |-> fs_data[at]]
    BY <2>1, <2>2, Zenon
  <2> QED BY <2>3
<1>7. open_file_table'[fd].of_offset = OffsetOf(fd) + 1
  <2>1. open_file_table' = [open_file_table EXCEPT ![fd] =
           [of_inumber |-> open_file_table[fd].of_inumber, of_offset |-> offset]]
    <3> HIDE DEF offset
    <3> QED BY <1>0, <1>1, OffsetExcept
  <2>2. DOMAIN open_file_table = Handles
    BY <1>0 DEF TablesTyped
  <2>3. open_file_table'[fd].of_offset = offset
    <3> HIDE DEF offset
    <3> QED BY <1>0, <2>1, <2>2
  <2> QED BY <1>1, <2>3 DEF OffsetOf
<1> QED BY <1>4, <1>6, <1>7 DEF ByteAt, InodeOf, OffsetOf

-----------------------------------------------------------------------------
(* Files: writing *)

\* the size and the bytes of an inode after a step
SizeNext(inum) == inode_table'[inum].i_size
ByteNext(inum, offset) == fs_data'[Address(inode_table'[inum].i_data_block, offset)]

\* a file keeps its bytes
Grows(inum) == /\ SizeNext(inum) >= FileSize(inum)
               /\ \A o \in 0..FileSize(inum) - 1 : ByteNext(inum, o) = ByteAt(inum, o)

(* A write at the end of a file makes it longer by what was written, and does  *)
(* not touch the inode of another file.                                        *)
LEMMA WriteSize ==
  ASSUME FsInv, NEW fd \in Handles, NEW data \in Seq(Bytes), Writes(fd, data),
         OffsetOf(fd) = FileSize(InodeOf(fd))
  PROVE  /\ InodeOf(fd) \in Inodes
         /\ SizeNext(InodeOf(fd)) = FileSize(InodeOf(fd)) + Count(fd, data)
         /\ inode_table'[InodeOf(fd)].i_data_block = BlockFor(fd)
         /\ \A i \in Inodes : i # InodeOf(fd) => inode_table'[i] = inode_table[i]
         /\ open_file_table'[fd].of_inumber = InodeOf(fd)
         /\ open_file_table'[fd].of_offset = OffsetOf(fd) + Count(fd, data)
         /\ \A h \in Handles : h # fd => open_file_table'[h] = open_file_table[h]
<1> DEFINE inum == InodeOf(fd)
           offset == OffsetOf(fd)
           n == Count(fd, data)
           size == SizeAfter(fd, data)
           bnum == BlockFor(fd)
<1>0. TablesTyped /\ BlocksOwned
  BY DEF FsInv
<1>1. /\ inum \in Inodes /\ offset \in Nat /\ n \in 1..Len(data) /\ Len(data) \in Nat
      /\ open_file_table' = [open_file_table EXCEPT ![fd] =
            [of_inumber |-> inum, of_offset |-> offset + n]]
      /\ inode_table' = [inode_table EXCEPT ![inum] = [i_size |-> size, i_data_block |-> bnum]]
  BY <1>0, WriteFacts, SeqLength
<1>2. size = offset + n
  BY <1>1 DEF SizeAfter, FileSize
<1>3. DOMAIN inode_table = Inodes /\ DOMAIN open_file_table = Handles
  BY <1>0 DEF TablesTyped
<1>5. offset = FileSize(inum)
  OBVIOUS
<1> HIDE DEF inum, offset, n, size, bnum
<1>4. /\ \A i \in Inodes : inode_table'[i] = IF i = inum THEN [i_size |-> size, i_data_block |-> bnum]
                                             ELSE inode_table[i]
      /\ \A h \in Handles : open_file_table'[h] =
            IF h = fd THEN [of_inumber |-> inum, of_offset |-> offset + n] ELSE open_file_table[h]
  BY <1>1, <1>3
<1>6. /\ inum \in Inodes /\ inode_table'[inum].i_size = offset + n
      /\ inode_table'[inum].i_data_block = bnum
      /\ \A i \in Inodes : i # inum => inode_table'[i] = inode_table[i]
      /\ open_file_table'[fd].of_inumber = inum
      /\ open_file_table'[fd].of_offset = offset + n
      /\ \A h \in Handles : h # fd => open_file_table'[h] = open_file_table[h]
  BY <1>1, <1>2, <1>4
<1> QED BY <1>5, <1>6 DEF SizeNext, inum, offset, n, bnum

(* A write at the end of a live file keeps its bytes and adds the new ones.    *)
LEMMA WriteOwn ==
  ASSUME FsInv, NEW fd \in Handles, NEW data \in Seq(Bytes), Writes(fd, data),
         OffsetOf(fd) = FileSize(InodeOf(fd)),
         InodeOf(fd) \notin freeinode_ts \cup {ROOT_DIR_INUM}
  PROVE  /\ Grows(InodeOf(fd))
         /\ \A j \in 1..Count(fd, data) :
               ByteNext(InodeOf(fd), OffsetOf(fd) + j - 1) = data[j]
<1> DEFINE inum == InodeOf(fd)
           offset == OffsetOf(fd)
           n == Count(fd, data)
           bnum == BlockFor(fd)
           at == Address(bnum, offset)
<1>0. TablesTyped /\ BlocksOwned
  BY DEF FsInv
<1>1. /\ inum \in Inodes \ (freeinode_ts \cup {ROOT_DIR_INUM}) /\ offset \in Nat
      /\ n \in 1..Len(data) /\ Len(data) \in Nat
      /\ offset + n \in 1..BLOCK_SIZE
      /\ bnum \in Blocks /\ (Fresh(fd) => bnum \in free_blocks)
  BY <1>0, WriteFacts, SeqLength
<1>2. /\ SizeNext(inum) = FileSize(inum) + n /\ inode_table'[inum].i_data_block = bnum
      /\ offset = FileSize(inum)
  BY WriteSize
<1>3. fs_data' = [a \in Arena |-> IF a \in at..at + n - 1 THEN data[a - at + 1] ELSE fs_data[a]]
  BY DEF Writes, WriteBytes
<1>4. FileSize(inum) > 0 => bnum = inode_table[inum].i_data_block
  BY <1>0, <1>1 DEF TablesTyped, BlockFor, Fresh, FileSize
<1>5. bnum # ROOT_BLOCK
  <2>1. CASE Fresh(fd)
    BY <1>0, <1>1, <2>1 DEF TablesTyped
  <2>2. CASE ~Fresh(fd)
    <3>1. FileSize(inum) > 0
      BY <1>0, <1>1, <2>2, SizesAssumption DEF TablesTyped, Fresh, FileSize
    <3>2. inode_table[inum].i_data_block \in Blocks \ {ROOT_BLOCK}
      BY <1>1, <3>1, OpenBlock DEF FileSize
    <3> QED BY <1>4, <3>1, <3>2
  <2> QED BY <2>1, <2>2
<1>6. at \in Int /\ \A k \in Nat : Address(bnum, k) = at + (k - offset)
  <2>1. bnum * BLOCK_SIZE \in Int
    BY <1>1, SizesAssumption DEF Blocks
  <2> QED BY <1>1, <2>1 DEF Address
<1> HIDE DEF inum, offset, n, bnum, at
<1>7. ASSUME NEW k \in 0..offset + n - 1
      PROVE  ByteNext(inum, k) = IF k < offset THEN ByteAt(inum, k) ELSE data[k - offset + 1]
  <2>1. k \in 0..BLOCK_SIZE - 1 /\ k \in Nat
    BY <1>1, SizesAssumption
  <2>2. Address(bnum, k) \in Arena
    BY <1>1, <1>5, <2>1, BlockInArena
  <2>3. Address(bnum, k) = at + (k - offset)
    BY <1>6, <2>1
  <2>4. ByteNext(inum, k) = fs_data'[Address(bnum, k)]
    BY <1>2 DEF ByteNext
  <2>5. CASE k < offset
    <3>1. Address(bnum, k) \notin at..at + n - 1
      BY <1>1, <1>6, <2>1, <2>3, <2>5
    <3>2. bnum = inode_table[inum].i_data_block
      BY <1>1, <1>2, <1>4, <2>1, <2>5
    <3> QED BY <1>3, <2>2, <2>4, <2>5, <3>1, <3>2 DEF ByteAt
  <2>6. CASE ~(k < offset)
    <3>1. /\ Address(bnum, k) \in at..at + n - 1
          /\ Address(bnum, k) - at + 1 = k - offset + 1
      BY <1>1, <1>6, <2>1, <2>3, <2>6
    <3> QED BY <1>3, <2>2, <2>4, <2>6, <3>1
  <2> QED BY <2>5, <2>6
<1>8. SizeNext(inum) >= FileSize(inum) /\ FileSize(inum) \in Nat
  BY <1>1, <1>2
<1>9. \A o \in 0..FileSize(inum) - 1 : ByteNext(inum, o) = ByteAt(inum, o)
  BY <1>1, <1>2, <1>7
<1>10. ASSUME NEW j \in 1..n PROVE ByteNext(inum, offset + j - 1) = data[j]
  <2>1. /\ offset + j - 1 \in 0..offset + n - 1 /\ ~(offset + j - 1 < offset)
        /\ (offset + j - 1) - offset + 1 = j
    BY <1>1
  <2> QED BY <1>7, <2>1
<1> QED BY <1>8, <1>9, <1>10 DEF Grows, inum, offset, n

(* A write to a live file leaves the bytes of every other live file.           *)
LEMMA WriteOther ==
  ASSUME FsInv, FsInv', NEW fd \in Handles, NEW data \in Seq(Bytes), Writes(fd, data),
         InodeOf(fd) \notin freeinode_ts \cup {ROOT_DIR_INUM},
         NEW i \in Inodes \ (freeinode_ts \cup {ROOT_DIR_INUM}), i # InodeOf(fd)
  PROVE  /\ SizeNext(i) = FileSize(i)
         /\ \A o \in 0..FileSize(i) - 1 : ByteNext(i, o) = ByteAt(i, o)
<1> DEFINE inum == InodeOf(fd)
           offset == OffsetOf(fd)
           n == Count(fd, data)
           bnum == BlockFor(fd)
           at == Address(bnum, offset)
<1>0. TablesTyped /\ BlocksOwned
  BY DEF FsInv
<1>1. /\ inum \in Inodes \ (freeinode_ts \cup {ROOT_DIR_INUM}) /\ offset \in Nat
      /\ n \in 1..Len(data) /\ Len(data) \in Nat
      /\ offset + n \in 1..BLOCK_SIZE /\ bnum \in Blocks
      /\ SizeAfter(fd, data) \in 1..BLOCK_SIZE
      /\ inode_table' = [inode_table EXCEPT ![inum] =
            [i_size |-> SizeAfter(fd, data), i_data_block |-> bnum]]
  BY <1>0, WriteFacts, SeqLength
<1>2. /\ fs_data' = [a \in Arena |-> IF a \in at..at + n - 1 THEN data[a - at + 1] ELSE fs_data[a]]
      /\ freeinode_ts' = freeinode_ts
  BY DEF Writes, WriteBytes
<1>3. i # inum
  OBVIOUS
<1>4. at \in Int /\ \A k \in Nat : Address(bnum, k) = at + (k - offset)
  <2>1. bnum * BLOCK_SIZE \in Int
    BY <1>1, SizesAssumption DEF Blocks
  <2> QED BY <1>1, <2>1 DEF Address
<1> HIDE DEF inum, offset, n, bnum, at
<1>5. /\ inode_table'[i] = inode_table[i] /\ inode_table'[inum].i_data_block = bnum
      /\ inode_table'[inum].i_size > 0 /\ inode_table[i].i_size \in 0..BLOCK_SIZE
  BY <1>0, <1>1, <1>3, SizesAssumption DEF TablesTyped
<1>6. ASSUME NEW o \in 0..FileSize(i) - 1 PROVE ByteNext(i, o) = ByteAt(i, o)
  <2> DEFINE b == inode_table[i].i_data_block
             a == Address(b, o)
  <2>0. FileSize(i) \in 0..BLOCK_SIZE
    BY <1>5 DEF FileSize
  <2>7. o \in 0..BLOCK_SIZE - 1 /\ FileSize(i) > 0
    BY <2>0, SizesAssumption
  <2>1. o \in 0..BLOCK_SIZE - 1 /\ inode_table[i].i_size > 0
    BY <2>7 DEF FileSize
  <2>2. b \in Blocks \ {ROOT_BLOCK}
    BY <2>1, OpenBlock
  <2>3. a \in Arena
    BY <2>1, <2>2, BlockInArena
  <2>4. b # bnum
    <3>1. i \in Live' /\ inum \in Live'
      BY <1>1, <1>2, <1>5, <2>1 DEF Live
    <3>2. inode_table'[i].i_data_block # inode_table'[inum].i_data_block
      BY <1>3, <3>1 DEF FsInv, BlocksOwned
    <3> QED BY <1>5, <3>2
  <2>5. a \notin at..at + n - 1
    <3> SUFFICES ASSUME a \in at..at + n - 1 PROVE FALSE
      OBVIOUS
    <3> DEFINE l == a - at + offset
    <3>0. a \in Int /\ at <= a /\ a <= at + n - 1
      BY <1>4
    <3> HIDE DEF a
    <3>1. l \in 0..BLOCK_SIZE - 1 /\ l \in Nat /\ at + (l - offset) = a
      BY <1>1, <1>4, <3>0, SizesAssumption
    <3> HIDE DEF l
    <3>2. Address(bnum, l) = a
      BY <1>4, <3>1
    <3>3. Address(b, o) # Address(bnum, l)
      BY <1>1, <2>1, <2>2, <2>4, <3>1, BlocksApart
    <3> QED BY <3>2, <3>3 DEF a
  <2>6. fs_data'[a] = fs_data[a]
    BY <1>2, <2>3, <2>5
  <2> QED BY <1>5, <2>6 DEF ByteNext, ByteAt
<1>7. SizeNext(i) = FileSize(i)
  BY <1>5 DEF SizeNext, FileSize
<1> QED BY <1>6, <1>7

(* A message is written whole, or its session ends because the file had no     *)
(* block to begin with, or no room left.                                       *)
LEMMA WriteOutcome ==
  ASSUME FsInv, NEW fd \in Handles, NEW data \in Seq(Bytes), NEW ret, tfs_write(fd, data, ret),
         IsOpenHandle(fd), OffsetOf(fd) = FileSize(InodeOf(fd))
  PROVE  \/ ret = -1 /\ FileSize(InodeOf(fd)) = 0 /\ data # <<>> /\ UNCHANGED fs
         \/ ret = 0 /\ data = <<>> /\ UNCHANGED fs
         \/ ret = 0 /\ data # <<>> /\ FileSize(InodeOf(fd)) = BLOCK_SIZE /\ UNCHANGED fs
         \/ /\ Writes(fd, data) /\ ret = Count(fd, data)
            /\ \/ ret = Len(data)
               \/ ret < Len(data) /\ FileSize(InodeOf(fd)) + ret = BLOCK_SIZE
<1>0. TablesTyped /\ BlocksOwned
  BY DEF FsInv
<1>1. OffsetOf(fd) \in Nat /\ OffsetOf(fd) <= BLOCK_SIZE /\ Len(data) \in Nat
  BY <1>0, SizesAssumption DEF TablesTyped, FileSize, OffsetOf, InodeOf
<1>2. /\ Count(fd, data) = IF Len(data) + OffsetOf(fd) > BLOCK_SIZE THEN BLOCK_SIZE - OffsetOf(fd)
                           ELSE Len(data)
      /\ Count(fd, data) \in 0..Len(data)
  BY <1>1, ToWriteFits DEF Count
<1>3. data = <<>> <=> Len(data) = 0
  OBVIOUS
<1>4. CASE Count(fd, data) > 0 /\ inode_table[InodeOf(fd)].i_size = 0 /\ ret = -1 /\ UNCHANGED fs
  BY <1>1, <1>2, <1>3, <1>4 DEF FileSize
<1>5. CASE Count(fd, data) = 0 /\ ret = 0 /\ UNCHANGED fs
  BY <1>1, <1>2, <1>3, <1>5, SizesAssumption
<1>6. CASE ret = Count(fd, data) /\ Writes(fd, data)
  BY <1>1, <1>2, <1>6, SizesAssumption
<1>7. ~(OffsetOf(fd) > BLOCK_SIZE)
  BY <1>1, SizesAssumption
<1> QED BY <1>4, <1>5, <1>6, <1>7
     DEF tfs_write, Writes, InodeOf, OffsetOf, Count, Fresh, BlockFor

-----------------------------------------------------------------------------
(* Whose handles *)

\* where a worker opens or closes a handle
Opens(w) == P_Register(w) \/ S_Register(w) \/ C_TfsOpen(w)
Closes(w) == P_Close(w) \/ S_End(w) \/ C_TfsClose(w)

(* The files change with the creation of a box, with its deletion, and with    *)
(* the two writes of a message.                                                *)
LEMMA FilesMove ==
  ASSUME BInv, NEW w \in Workers, WorkerStep(w) \/ S_SpuriousWakeup(w),
         ~C_TfsOpen(w), ~D_Unlink(w), ~P_Write(w), ~P_Terminate(w)
  PROVE  UNCHANGED <<inode_table, dir, fs_data>>
<1>1. CASE P_Register(w) \/ S_Register(w)
  <2>1. \/ UNCHANGED fs
        \/ \E fd : tfs_open(boxes[loc[w].box].name, {"APPEND"}, fd)
        \/ \E fd : tfs_open(boxes[loc[w].box].name, {}, fd)
    BY <1>1 DEF P_Register, S_Register
  <2>2. ASSUME NEW name, NEW mode \in {{"APPEND"}, {}}, NEW fd, tfs_open(name, mode, fd)
        PROVE  UNCHANGED <<inode_table, dir, fs_data>>
    <3>1. "TRUNC" \notin mode /\ "CREAT" \notin mode
      BY <2>2
    <3> QED BY <2>2, <3>1, OpenKeeps DEF BInv
  <2> QED BY <2>1, <2>2 DEF fs
<1>2. CASE Closes(w)
  <2>1. \E ret : tfs_close(loc[w].fd, ret)
    BY <1>2 DEF Closes, P_Close, S_End, C_TfsClose
  <2> QED BY <2>1 DEF tfs_close, fs
<1>3. CASE S_Read(w)
  <2>1. \E ret, buffer : tfs_read(loc[w].fd, 1, ret, buffer)
    BY <1>3 DEF S_Read
  <2> QED BY <2>1, ReadKeeps DEF BInv
<1>4. CASE KilledBySigpipe(w)
  BY <1>4 DEF KilledBySigpipe, Dies
<1>5. \/ UNCHANGED fs
      \/ P_Register(w) \/ S_Register(w) \/ Closes(w) \/ S_Read(w) \/ KilledBySigpipe(w)
  BY DEF Closes, WorkerStep, S_SpuriousWakeup, RequestsHandler,
      PublisherStep, SubscriberStep, ManagerStep, P_GetBox, GetBox, P_Read, P_Broadcast,
      P_End, S_GetBox, S_Loop, S_Reacquire, S_Send, S_Signal, C_GetBox, C_Slot, C_Used, D_GetBox,
      D_Broadcast, M_Load, M_Store, M_Send, L_Scan, L_Send
<1> QED BY <1>1, <1>2, <1>3, <1>4, <1>5 DEF fs

(* The steps of the main thread and of the clients leave the workers, the      *)
(* boxes and the files alone.                                                  *)
LEMMA OthersIdle ==
  ASSUME Next, ~(\E w \in Workers : WorkerStep(w) \/ S_SpuriousWakeup(w))
  PROVE  UNCHANGED <<inode_table, freeinode_ts, dir, free_blocks, fs_data, open_file_table,
                     free_open_file_entries, table, pc, loc, published>>
  BY DEF Next, Register, PublisherSend, ClientClose, ClientRead, Die, GiveUp, MainLoop, MainRead,
    MainResumes, Sigint, Dies, fs, table

(* The handles of the other workers stay as they are.  A worker keeps its own  *)
(* open on the same file, opens one that was free, or closes it.               *)
LEMMA HandlesMove ==
  ASSUME BInv, HandlesOwned, NEW w \in Workers, WorkerStep(w) \/ S_SpuriousWakeup(w)
  PROVE  /\ \A h \in Handles \ free_open_file_entries :
               /\ pc[w] \notin FilePCs \/ h # loc[w].fd
                     => /\ open_file_table'[h] = open_file_table[h]
                        /\ h \notin free_open_file_entries'
               /\ open_file_table'[h].of_inumber = open_file_table[h].of_inumber
         /\ \/ /\ ~Opens(w) /\ ~Closes(w) /\ UNCHANGED free_open_file_entries
               /\ pc'[w] \in FilePCs <=> pc[w] \in FilePCs
               /\ pc'[w] \in FilePCs => loc'[w].fd = loc[w].fd
            \/ /\ Opens(w) /\ pc[w] \notin FilePCs /\ pc'[w] \notin FilePCs
               /\ UNCHANGED <<open_file_table, free_open_file_entries>>
            \/ /\ Opens(w) /\ pc[w] \notin FilePCs /\ pc'[w] \in FilePCs
               /\ loc'[w].fd \in free_open_file_entries
               /\ free_open_file_entries' = free_open_file_entries \ {loc'[w].fd}
            \/ /\ Closes(w) /\ pc[w] \in FilePCs /\ pc'[w] \notin FilePCs
               /\ free_open_file_entries' = free_open_file_entries \cup {loc[w].fd}
               /\ UNCHANGED open_file_table
<1>0. /\ FsInv /\ TablesTyped /\ BoxesOK /\ Role(pc[w], loc[w]) /\ loc[w] \in Locals
      /\ pc \in [Workers -> WorkerPCs] /\ loc \in [Workers -> Locals]
  BY DEF BInv, WorkersOK, FsInv
<1>1. CASE Opens(w)
  <2>1. /\ pc[w] \in {"p_register", "s_register", "c_tfs_open"}
        /\ \/ pc'[w] \in {"idle", "m_send"} /\ UNCHANGED <<open_file_table, free_open_file_entries>>
           \/ \E name : \E mode \in {{"APPEND"}, {}, {"CREAT"}} : \E fd : fd = -1 /\
                 tfs_open(name, mode, fd) /\ pc'[w] \in {"idle", "m_send"}
           \/ \E name : \E mode \in {{"APPEND"}, {}, {"CREAT"}} : \E fd : fd # -1 /\
                 tfs_open(name, mode, fd) /\ pc'[w] \in {"p_read", "s_loop", "c_tfs_close"}
                 /\ loc' = [loc EXCEPT ![w].fd = fd]
    <3>1. CASE P_Register(w)
      BY <1>0, <3>1 DEF P_Register, ClosePipeAndReturn, fs
    <3>2. CASE S_Register(w)
      BY <1>0, <3>2 DEF S_Register, ClosePipeAndReturn
    <3>3. CASE C_TfsOpen(w)
      BY <1>0, <3>3 DEF C_TfsOpen, Respond, Goto
    <3> QED BY <1>1, <3>1, <3>2, <3>3 DEF Opens
  <2>2. pc[w] \notin FilePCs
    BY <2>1 DEF FilePCs, PubSession, SubSession
  <2>3. \A p \in {"idle", "m_send"} : p \notin FilePCs
    BY DEF FilePCs, PubSession, SubSession
  <2>4. \A p \in {"p_read", "s_loop", "c_tfs_close"} : p \in FilePCs
    BY DEF FilePCs, PubSession, SubSession
  <2>5. CASE pc'[w] \in {"idle", "m_send"} /\ UNCHANGED <<open_file_table, free_open_file_entries>>
    BY <1>1, <2>2, <2>3, <2>5
  <2>6. ASSUME NEW name, NEW mode \in {{"APPEND"}, {}, {"CREAT"}}, NEW fd, fd # -1,
               tfs_open(name, mode, fd), pc'[w] \in {"p_read", "s_loop", "c_tfs_close"},
               loc' = [loc EXCEPT ![w].fd = fd]
        PROVE  /\ loc'[w].fd \in free_open_file_entries
               /\ free_open_file_entries' = free_open_file_entries \ {loc'[w].fd}
               /\ \A h \in Handles : h # loc'[w].fd => open_file_table'[h] = open_file_table[h]
    <3>1. loc'[w].fd = fd
      BY <1>0, <2>6, AfterFd
    <3>2. "TRUNC" \notin mode
      BY <2>6
    <3> QED BY <1>0, <2>6, <3>1, <3>2, OpenGives
  <2>7. ASSUME NEW name, NEW mode \in {{"APPEND"}, {}, {"CREAT"}}, tfs_open(name, mode, -1)
        PROVE  UNCHANGED <<open_file_table, free_open_file_entries>>
    <3>1. -1 \notin free_open_file_entries
      BY <1>0 DEF TablesTyped, Handles
    <3>2. "TRUNC" \notin mode
      BY <2>7
    <3> QED BY <1>0, <2>7, <3>1, <3>2, OpenGives
  <2> QED BY <1>0, <1>1, <2>1, <2>2, <2>3, <2>4, <2>5, <2>6, <2>7
<1>2. CASE Closes(w)
  <2>1. /\ pc[w] \in FilePCs /\ pc'[w] \notin FilePCs /\ \E ret : tfs_close(loc[w].fd, ret)
    BY <1>0, <1>2 DEF Closes, P_Close, S_End, C_TfsClose, ClosePipeAndReturn, Goto, FilePCs, PubSession,
      SubSession
  <2>2. IsOpenHandle(loc[w].fd)
    BY <2>1 DEF HandlesOwned
  <2>3. /\ free_open_file_entries' = free_open_file_entries \cup {loc[w].fd}
        /\ UNCHANGED open_file_table
    BY <2>1, <2>2 DEF tfs_close
  <2> QED BY <1>2, <2>1, <2>2, <2>3 DEF IsOpenHandle
<1>3. CASE ~Opens(w) /\ ~Closes(w)
  <2>1. pc'[w] \in FilePCs <=> pc[w] \in FilePCs
    <3>1. CASE RequestsHandler(w)
      <4>1. Head(requests_queue) \in Clients
        BY <3>1 DEF BInv, RequestsOK, RequestsHandler
      <4>2. pc[w] = "idle" /\ pc'[w] \in {"idle", "in_open", Handler(Head(requests_queue))}
        BY <1>0, <3>1 DEF RequestsHandler
      <4> QED BY <4>1, <4>2, HandlerKind DEF FilePCs, PubSession, SubSession
    <3>2. CASE KilledBySigpipe(w)
      BY <3>2 DEF KilledBySigpipe
    <3>3. CASE ~RequestsHandler(w) /\ ~KilledBySigpipe(w)
      BY <1>0, <1>3, <3>3 DEF Opens, Closes, WorkerStep, S_SpuriousWakeup,
        PublisherStep, SubscriberStep, ManagerStep, P_GetBox, GetBox, P_Read, P_Write, P_Terminate,
        P_Broadcast, P_End, S_GetBox, S_Loop, S_Reacquire, S_Read, S_Send, S_Signal, C_GetBox,
        C_Slot, C_Used, D_GetBox, D_Unlink, D_Broadcast, M_Load, M_Store, M_Send, L_Scan, L_Send,
        Goto, Respond, ClosePipeAndReturn, Broadcast, FilePCs, PubSession, SubSession
    <3> QED BY <3>1, <3>2, <3>3
  <2>2. pc'[w] \in FilePCs => loc'[w].fd = loc[w].fd
    <3>1. CASE P_Read(w) \/ S_Read(w) \/ S_Send(w)
      <4>1. \/ UNCHANGED loc
            \/ \E v : loc' = [loc EXCEPT ![w].msg = v]
            \/ \E v : loc' = [loc EXCEPT ![w].total_read = v]
        BY <3>1 DEF P_Read, S_Read, S_Send
      <4> QED BY <1>0, <4>1, AfterMsg, AfterTotalRead
    <3>2. ASSUME pc[w] \in FilePCs, ~(P_Read(w) \/ S_Read(w) \/ S_Send(w))
          PROVE  UNCHANGED loc
      BY <1>0, <1>3, <3>2 DEF Opens, Closes, WorkerStep, S_SpuriousWakeup, RequestsHandler, KilledBySigpipe,
        PublisherStep, SubscriberStep, ManagerStep, P_GetBox, GetBox, P_Write, P_Terminate,
        P_Broadcast, P_End, S_GetBox, S_Loop, S_Reacquire, S_Signal, C_GetBox,
        C_Slot, C_Used, D_GetBox, D_Unlink, D_Broadcast, M_Load, M_Store, M_Send, L_Scan, L_Send,
        Broadcast, FilePCs, PubSession, SubSession
    <3> QED BY <2>1, <3>1, <3>2
  <2>3. CASE P_Write(w) \/ P_Terminate(w)
    <3>1. /\ \E data \in Seq(Bytes) : \E ret : tfs_write(loc[w].fd, data, ret)
          /\ pc[w] \in FilePCs
      <4>1. <<NUL>> \in Seq(Bytes) /\ (P_Write(w) => loc[w].msg \in Seq(Bytes))
        <5>1. P_Write(w) => loc[w].msg \in Seq(Bytes \ {NUL})
          BY <1>0 DEF Role, P_Write
        <5>2. Seq(Bytes \ {NUL}) \subseteq Seq(Bytes)
          OBVIOUS
        <5> QED BY <5>1, <5>2, BrokerAssumption
      <4> QED BY <2>3, <4>1 DEF P_Write, P_Terminate, FilePCs, PubSession
    <3> PICK data \in Seq(Bytes) : \E ret : tfs_write(loc[w].fd, data, ret)
      BY <3>1
    <3> PICK ret : tfs_write(loc[w].fd, data, ret)
      OBVIOUS
    <3>2. IsOpenHandle(loc[w].fd)
      BY <3>1 DEF HandlesOwned
    <3>3. CASE UNCHANGED fs \/ \E why : Dies(why)
      BY <1>3, <2>1, <2>2, <3>3 DEF fs, Dies
    <3>4. CASE Writes(loc[w].fd, data)
      <4> DEFINE fd == loc[w].fd
      <4>1. fd \in Handles
        BY <3>2 DEF IsOpenHandle
      <4>2. open_file_table' = [open_file_table EXCEPT ![fd] =
              [of_inumber |-> InodeOf(fd), of_offset |-> OffsetOf(fd) + Count(fd, data)]]
        BY <1>0, <3>4, <4>1, WriteFacts DEF FsInv
      <4>3. UNCHANGED free_open_file_entries
        BY <3>4 DEF Writes
      <4>4. DOMAIN open_file_table = Handles
        BY <1>0 DEF TablesTyped
      <4> HIDE DEF fd
      <4>5. \A h \in Handles : /\ h # fd => open_file_table'[h] = open_file_table[h]
                               /\ open_file_table'[h].of_inumber = open_file_table[h].of_inumber
        BY <4>1, <4>2, <4>4 DEF InodeOf
      <4> QED BY <1>3, <2>1, <2>2, <3>1, <4>3, <4>5 DEF fd
    <3> QED BY <3>3, <3>4, WriteEffect
  <2>4. CASE S_Read(w)
    <3>1. pc[w] \in FilePCs /\ \E ret, buffer : tfs_read(loc[w].fd, 1, ret, buffer)
      BY <2>4 DEF S_Read, FilePCs, SubSession
    <3>2. /\ UNCHANGED free_open_file_entries
          /\ \A h \in Handles : /\ h # loc[w].fd => open_file_table'[h] = open_file_table[h]
                                /\ open_file_table'[h].of_inumber = open_file_table[h].of_inumber
      BY <1>0, <3>1, ReadKeeps
    <3> QED BY <1>3, <2>1, <2>2, <3>1, <3>2
  <2>5. CASE ~P_Write(w) /\ ~P_Terminate(w) /\ ~S_Read(w)
    <3>1. UNCHANGED <<open_file_table, free_open_file_entries>>
      <4>1. CASE D_Unlink(w)
        BY <4>1 DEF D_Unlink, tfs_unlink, fs
      <4>2. CASE KilledBySigpipe(w)
        BY <4>2 DEF KilledBySigpipe, Dies
      <4>3. CASE ~D_Unlink(w) /\ ~KilledBySigpipe(w)
        BY <1>3, <2>5, <4>3 DEF Opens, Closes, WorkerStep, S_SpuriousWakeup, RequestsHandler,
          PublisherStep, SubscriberStep, ManagerStep, P_GetBox, GetBox, P_Read,
          P_Broadcast, P_End, S_GetBox, S_Loop, S_Reacquire, S_Send, S_Signal, C_GetBox,
          C_Slot, C_Used, D_GetBox, D_Broadcast, M_Load, M_Store, M_Send, L_Scan, L_Send, fs
      <4> QED BY <4>1, <4>2, <4>3
    <3> QED BY <1>3, <2>1, <2>2, <3>1
  <2> QED BY <2>3, <2>4, <2>5
<1> QED BY <1>1, <1>2, <1>3

(* Every step keeps each handle with its one owner.                           *)
LEMMA HandlesOwnedStep ==
  ASSUME BInv, HandlesOwned, Next
  PROVE  HandlesOwned'
<1>0. TablesTyped
  BY DEF BInv, FsInv
<1>1. ASSUME NEW w \in Workers, WorkerStep(w) \/ S_SpuriousWakeup(w) PROVE HandlesOwned'
  <2>1. \A u \in Workers : u # w => /\ loc'[u] = loc[u]
                                    /\ pc'[u] \in FilePCs <=> pc[u] \in FilePCs
    <3>1. \A p \in {"s_asleep", "s_woken", "s_orphan"} : p \in FilePCs
      BY DEF FilePCs, SubSession
    <3> QED BY <1>1, <3>1, OthersMove
  <2>2. /\ \A u \in Workers : pc[u] \in FilePCs => loc[u].fd \in Handles \ free_open_file_entries
        /\ \A u, v \in Workers :
              u # v /\ pc[u] \in FilePCs /\ pc[v] \in FilePCs => loc[u].fd # loc[v].fd
    BY DEF HandlesOwned, IsOpenHandle
  <2>3. \A u \in Workers : u # w /\ pc[u] \in FilePCs =>
           loc[u].fd \notin free_open_file_entries'
    BY <1>1, <2>2, HandlesMove
  <2>4. /\ \A u \in Workers : pc'[u] \in FilePCs => loc'[u].fd \in Handles \ free_open_file_entries'
        /\ \A u, v \in Workers :
              u # v /\ pc'[u] \in FilePCs /\ pc'[v] \in FilePCs => loc'[u].fd # loc'[v].fd
    <3>1. CASE /\ UNCHANGED free_open_file_entries
               /\ pc'[w] \in FilePCs <=> pc[w] \in FilePCs
               /\ pc'[w] \in FilePCs => loc'[w].fd = loc[w].fd
      BY <2>1, <2>2, <3>1
    <3>2. CASE pc'[w] \notin FilePCs
      BY <2>1, <2>2, <2>3, <3>2
    <3>3. CASE /\ loc'[w].fd \in free_open_file_entries
               /\ free_open_file_entries' = free_open_file_entries \ {loc'[w].fd}
      BY <1>0, <2>1, <2>2, <3>3 DEF TablesTyped
    <3> QED BY <1>1, <3>1, <3>2, <3>3, HandlesMove
  <2> QED BY <2>4 DEF HandlesOwned, IsOpenHandle
<1>2. CASE ~(\E w \in Workers : WorkerStep(w) \/ S_SpuriousWakeup(w))
  BY <1>2, OthersIdle DEF HandlesOwned, IsOpenHandle
<1> QED BY <1>1, <1>2

-----------------------------------------------------------------------------
(* The initial boxes and their inodes *)

(* A worker has its box from get_box or from create_box, and keeps it.         *)
LEMMA BoxKeptByStep ==
  ASSUME BInv, NEW w \in Workers, WorkerStep(w) \/ S_SpuriousWakeup(w), pc'[w] \in BoxPCs,
         ~C_Slot(w)
  PROVE  \/ /\ P_GetBox(w) \/ S_GetBox(w) \/ D_GetBox(w)
            /\ loc'[w].box = get_box(BoxOf[loc[w].req]) /\ loc'[w].box # NoBox
         \/ pc[w] \in BoxPCs /\ loc'[w].box = loc[w].box
<1>0. /\ loc[w] \in Locals /\ pc \in [Workers -> WorkerPCs] /\ loc \in [Workers -> Locals]
  BY DEF BInv, WorkersOK
<1>1. CASE P_GetBox(w) \/ S_GetBox(w)
  <2>1. \/ pc'[w] = "idle"
        \/ /\ get_box(BoxOf[loc[w].req]) # NoBox
           /\ loc' = [loc EXCEPT ![w].box = get_box(BoxOf[loc[w].req])]
    BY <1>0, <1>1 DEF P_GetBox, S_GetBox, GetBox, ClosePipeAndReturn
  <2> QED BY <1>0, <1>1, <2>1, AfterBox DEF BoxPCs, PubSession, SubSession
<1>2. CASE D_GetBox(w)
  <2>1. \/ pc'[w] = "m_send"
        \/ /\ get_box(BoxOf[loc[w].req]) # NoBox
           /\ loc' = [loc EXCEPT ![w].box = get_box(BoxOf[loc[w].req]), ![w].msg = <<"OK">>]
    BY <1>0, <1>2 DEF D_GetBox, Respond, Goto
  <2> QED BY <1>0, <1>2, <2>1, AfterBoxMsg DEF BoxPCs, PubSession, SubSession
<1>3. CASE RequestsHandler(w)
  <2>1. Head(requests_queue) \in Clients
    BY <1>3 DEF BInv, RequestsOK, RequestsHandler
  <2>2. pc'[w] \in {"idle", "in_open", Handler(Head(requests_queue))}
    BY <1>0, <1>3 DEF RequestsHandler
  <2> QED BY <2>1, <2>2, HandlerKind DEF BoxPCs, PubSession, SubSession
<1>4. CASE ~P_GetBox(w) /\ ~S_GetBox(w) /\ ~D_GetBox(w) /\ ~RequestsHandler(w)
  <2>1. pc[w] \in BoxPCs
    BY <1>0, <1>4 DEF BoxPCs, PubSession, SubSession, WorkerStep, S_SpuriousWakeup,
      PublisherStep, SubscriberStep, ManagerStep, KilledBySigpipe, P_Register, P_Read, P_Write,
      P_Terminate, P_Broadcast, P_End, P_Close, S_Register, S_Loop, S_Reacquire, S_Read, S_Send,
      S_Signal, S_End, C_GetBox, C_TfsOpen, C_TfsClose, C_Used, D_Unlink, D_Broadcast, M_Load,
      M_Store, M_Send, L_Scan, L_Send, Goto, Respond, ClosePipeAndReturn, Broadcast
  <2>2. \/ UNCHANGED loc
        \/ \E v : loc' = [loc EXCEPT ![w].fd = v]
        \/ \E v : loc' = [loc EXCEPT ![w].msg = v]
        \/ \E v : loc' = [loc EXCEPT ![w].total_read = v]
    <3>1. pc'[w] # "idle" /\ pc'[w] # "m_send" /\ pc'[w] # "c_tfs_open"
      BY DEF BoxPCs, PubSession, SubSession
    <3> QED BY <1>0, <1>4, <2>1, <3>1 DEF BoxPCs, PubSession, SubSession, WorkerStep, S_SpuriousWakeup,
      PublisherStep, SubscriberStep, ManagerStep, KilledBySigpipe, P_Register, P_Read, P_Write,
      P_Terminate, P_Broadcast, P_End, P_Close, S_Register, S_Loop, S_Reacquire, S_Read, S_Send,
      S_Signal, S_End, C_GetBox, C_TfsOpen, C_TfsClose, C_Used, D_Unlink, D_Broadcast, M_Load,
      M_Store, M_Send, L_Scan, L_Send, Goto, Respond, ClosePipeAndReturn
  <2>3. ASSUME NEW v, \/ loc' = [loc EXCEPT ![w].fd = v]
                      \/ loc' = [loc EXCEPT ![w].msg = v]
                      \/ loc' = [loc EXCEPT ![w].total_read = v]
        PROVE  loc'[w].box = loc[w].box
    BY <1>0, <2>3, AfterFd, AfterMsg, AfterTotalRead
  <2> QED BY <2>1, <2>2, <2>3
<1> QED BY <1>1, <1>2, <1>3, <1>4

(* In the directory a name has one entry: find_in_dir returns its inode.       *)
LEMMA EntryOf ==
  ASSUME TablesTyped, DirectoryConsistent, NEW s \in Slots, dir[s].d_inumber # -1
  PROVE  find_in_dir(dir[s].d_name) = dir[s].d_inumber
<1> DEFINE name == dir[s].d_name
<1>1. find_in_dir(name) # -1
  BY EntryMissing
<1>2. /\ First(Entries(name)) \in Slots /\ dir[First(Entries(name))].d_name = name
      /\ dir[First(Entries(name))].d_inumber = find_in_dir(name)
  BY <1>1, EntryFound
<1> HIDE DEF name
<1>3. First(Entries(name)) = s
  BY <1>1, <1>2 DEF DirectoryConsistent, name
<1> QED BY <1>2, <1>3 DEF name

(* Two publishers never have the same box.                                     *)
LEMMA OnePublisher ==
  ASSUME SInv, NEW w \in Workers, NEW u \in Workers, w # u,
         pc[w] \in PubSession, pc[u] \in PubSession
  PROVE  loc[w].box # loc[u].box
<1> SUFFICES ASSUME loc[w].box = loc[u].box PROVE FALSE
  OBVIOUS
<1>1. loc[w].box \in BoxSlots
  BY DEF SInv, BInv, WorkersOK, Role, BoxPCs
<1>2. PICK b \in BoxSlots : b = loc[w].box
  BY <1>1
<1>3. w \in Publishing(b) /\ u \in Publishing(b)
  BY <1>2 DEF Publishing, PubSession
<1>4. Cardinality(Publishing(b)) <= 1 /\ IsFiniteSet(Publishing(b))
  BY SessionsFinite DEF SInv, Counted
<1>5. {w, u} \subseteq Publishing(b)
  BY <1>3
<1>6. Cardinality({w, u}) <= Cardinality(Publishing(b)) /\ Cardinality(Publishing(b)) \in Nat
  BY <1>4, <1>5, FS_Subset, SessionsFinite
<1>7. Cardinality({w, u}) = 2
  <2>1. IsFiniteSet({w}) /\ Cardinality({w}) = 1
    BY FS_Singleton
  <2>2. u \notin {w} /\ {w, u} = {w} \cup {u}
    OBVIOUS
  <2>3. Cardinality({w} \cup {u}) = Cardinality({w}) + 1
    BY <2>1, <2>2, FS_AddElement
  <2>4. Cardinality({w} \cup {u}) = 2
    BY <2>1, <2>3
  <2> QED BY <2>2, <2>4, Zenon
<1> QED BY <1>4, <1>6, <1>7

-----------------------------------------------------------------------------
(* The sizes, while no box is created *)

\* what a worker does while there are no creations: nothing of create_box
LEMMA NoCreation ==
  ASSUME BInv, Creators = {}, NEW w \in Workers
  PROVE  ~C_GetBox(w) /\ ~C_TfsOpen(w) /\ ~C_TfsClose(w) /\ ~C_Slot(w) /\ ~C_Used(w)
<1>1. pc[w] \notin C_PCs
  BY DEF BInv, WorkersOK, Role
<1> QED BY <1>1 DEF C_PCs, C_GetBox, C_TfsOpen, C_TfsClose, C_Slot, C_Used

\* the initial boxes have inodes and entries
LEMMA BoxInodes ==
  ASSUME NEW b \in BoxSlots, b < Len(InitialBoxes)
  PROVE  /\ BoxInode(b) \in Inodes /\ BoxInode(b) # ROOT_DIR_INUM /\ b \in Slots
         /\ b + 1 \in 1..Len(InitialBoxes)
  BY BrokerAssumption, SizesAssumption DEF BoxInode, Inodes, Slots, BoxSlots, ROOT_DIR_INUM

\* two of them have different names
LEMMA BoxNames ==
  ASSUME NEW b \in Nat, NEW c \in Nat, b < Len(InitialBoxes), c < Len(InitialBoxes),
         InitialBoxes[b + 1] = InitialBoxes[c + 1]
  PROVE  b = c
<1>1. b + 1 \in 1..Len(InitialBoxes) /\ c + 1 \in 1..Len(InitialBoxes)
  BY BrokerAssumption
<1>2. b + 1 = c + 1
  BY <1>1, BrokerAssumption
<1> QED BY <1>2

(* delete_box clears the entry of its own box.                                 *)
LEMMA UnlinkOwn ==
  ASSUME BInv, BoxesFixed, NEW w \in Workers, D_Unlink(w)
  PROVE  /\ loc[w].box \in BoxSlots /\ loc[w].box < Len(InitialBoxes)
         /\ \/ UNCHANGED <<dir, boxes>>
            \/ /\ boxes' = [boxes EXCEPT ![loc[w].box].alloc_state = "NOT_USED"]
               /\ dir' = [dir EXCEPT ![loc[w].box] = [d_name |-> NoName, d_inumber |-> -1]]
         /\ UNCHANGED inode_table
<1>0. TablesTyped /\ DirectoryConsistent /\ BoxesOK
  BY DEF BInv, FsInv
<1>1. loc[w].box \in BoxSlots /\ loc[w].box < Len(InitialBoxes)
  BY DEF BInv, WorkersOK, D_Unlink, Role, BoxPCs, BoxesFixed
<1>2. PICK b \in BoxSlots : b = loc[w].box
  BY <1>1
<1>3. PICK ret \in {0, -1} :
         /\ tfs_unlink(boxes[b].name, ret)
         /\ \/ ret = -1 /\ UNCHANGED boxes
            \/ ret = 0 /\ boxes' = [boxes EXCEPT ![b].alloc_state = "NOT_USED"]
  BY <1>2 DEF D_Unlink
<1>4. CASE UNCHANGED fs /\ ret = -1
  BY <1>1, <1>3, <1>4 DEF fs
<1>5. CASE /\ ret = 0 /\ find_in_dir(boxes[b].name) # -1
           /\ Unlinks(find_in_dir(boxes[b].name), First(Entries(boxes[b].name)))
  <2> DEFINE s == First(Entries(boxes[b].name))
  <2>1. s \in Slots /\ dir[s].d_name = boxes[b].name /\ dir[s].d_inumber # -1
    BY <1>0, <1>5, EntryFound
  <2>2. /\ s < Len(InitialBoxes) /\ InitialBoxes[s + 1] = InitialBoxes[b + 1]
    <3> HIDE DEF s
    <3> QED BY <1>1, <1>2, <2>1 DEF BoxesFixed
  <2>3. b \in Nat /\ s \in Nat
    BY <2>1, SizesAssumption, BrokerAssumption DEF Slots, BoxSlots
  <2>4. s = b
    <3> HIDE DEF s
    <3> QED BY <1>1, <1>2, <2>2, <2>3, BoxNames
  <2> QED BY <1>1, <1>2, <1>3, <1>5, <2>4 DEF Unlinks
<1> QED BY <1>0, <1>3, <1>4, <1>5, UnlinkEffect

(* The initial boxes keep their slots, their entries and their inodes.         *)
LEMMA BoxesFixedStep ==
  ASSUME Creators = {}, BInv, BoxesFixed, Next
  PROVE  BoxesFixed'
<1>0. BoxesOK /\ TablesTyped
  BY DEF BInv, FsInv
<1>1. ASSUME NEW w \in Workers, WorkerStep(w) \/ S_SpuriousWakeup(w) PROVE BoxesFixed'
  <2>1. /\ \A b \in BoxSlots : /\ boxes'[b].name = boxes[b].name
                               /\ boxes'[b].alloc_state = "USED" => boxes[b].alloc_state = "USED"
        /\ \A s \in Slots : \/ dir'[s] = dir[s]
                            \/ dir'[s].d_inumber = -1
                               /\ (s \in BoxSlots => boxes'[s].alloc_state # "USED")
    <3>1. CASE D_Unlink(w)
      <4>1. PICK b \in BoxSlots : b = loc[w].box
        BY <3>1, UnlinkOwn
      <4>2. CASE UNCHANGED <<dir, boxes>>
        BY <4>2
      <4>3. CASE /\ boxes' = [boxes EXCEPT ![b].alloc_state = "NOT_USED"]
                 /\ dir' = [dir EXCEPT ![b] = [d_name |-> NoName, d_inumber |-> -1]]
        <5>1. /\ boxes'[b].alloc_state = "NOT_USED"
              /\ \A x \in BoxSlots : x # b => boxes'[x] = boxes[x]
          <6>1. boxes' = [boxes EXCEPT ![b] = [name |-> boxes[b].name,
                   n_publishers |-> boxes[b].n_publishers, n_subscribers |-> boxes[b].n_subscribers,
                   size |-> boxes[b].size, alloc_state |-> "NOT_USED"]]
            BY <1>0, <4>3, SetAllocState
          <6> QED BY <1>0, <6>1 DEF BoxesOK
        <5>2. \A x \in BoxSlots : boxes'[x].name = boxes[x].name
          BY <1>0, <4>3, AfterField
        <5>3. \A s \in Slots : dir'[s] = IF s = b THEN [d_name |-> NoName, d_inumber |-> -1]
                                         ELSE dir[s]
          BY <1>0, <4>3 DEF TablesTyped
        <5>4. \A s \in Slots : s = b => dir'[s].d_inumber = -1
          BY <5>3
        <5> QED BY <5>1, <5>2, <5>3, <5>4
      <4> QED BY <3>1, <4>1, <4>2, <4>3, UnlinkOwn
    <3>2. CASE ~D_Unlink(w)
      <4>1. UNCHANGED dir
        <5>1. CASE P_Write(w) \/ P_Terminate(w)
          BY <5>1 DEF P_Write, P_Terminate, tfs_write, fs, Dies
        <5> QED BY <1>1, <3>2, <5>1, FilesMove, NoCreation
      <4>2. \A b \in BoxSlots : /\ boxes'[b].alloc_state = boxes[b].alloc_state
                                /\ boxes'[b].name = boxes[b].name
        BY <1>1, <3>2, BoxesKept, NoCreation
      <4> QED BY <4>1, <4>2
    <3> QED BY <3>1, <3>2
  <2>2. \A b \in BoxSlots : b < Len(InitialBoxes) => b \in Slots
    BY BoxInodes
  <2>3. \A b \in BoxSlots : /\ b < Len(InitialBoxes) => boxes'[b].name = InitialBoxes[b + 1]
                            /\ boxes'[b].alloc_state = "USED"
                                 => b < Len(InitialBoxes) /\ dir'[b].d_inumber # -1
    BY <2>1, <2>2 DEF BoxesFixed
  <2>4. \A s \in Slots : dir'[s].d_inumber # -1 =>
           /\ s < Len(InitialBoxes) /\ dir'[s].d_name = InitialBoxes[s + 1]
           /\ dir'[s].d_inumber = BoxInode(s)
    BY <2>1 DEF BoxesFixed
  <2>5. \A u \in Workers : u # w => (pc'[u] \in BoxPCs => loc'[u].box < Len(InitialBoxes))
    <3>1. \A p \in {"s_asleep", "s_woken", "s_orphan"} : p \in BoxPCs
      BY DEF BoxPCs, SubSession
    <3>2. \A u \in Workers : u # w => loc'[u] = loc[u] /\ (pc'[u] \in BoxPCs => pc[u] \in BoxPCs)
      BY <1>1, <3>1, OthersMove
    <3> QED BY <3>2 DEF BoxesFixed
  <2>6. pc'[w] \in BoxPCs => loc'[w].box < Len(InitialBoxes)
    <3>1. \A name : get_box(name) # NoBox => get_box(name) < Len(InitialBoxes)
      BY <1>0, BoxFound DEF BoxesFixed
    <3> QED BY <1>1, <3>1, BoxKeptByStep, NoCreation DEF BoxesFixed
  <2> QED BY <2>3, <2>4, <2>5, <2>6 DEF BoxesFixed, BoxInode
<1>2. CASE ~(\E w \in Workers : WorkerStep(w) \/ S_SpuriousWakeup(w))
  BY <1>2, OthersIdle DEF BoxesFixed, BoxInode, table
<1> QED BY <1>1, <1>2

-----------------------------------------------------------------------------
(* The handles of a session *)

(* The handles of the other sessions stay where they are.                      *)
LEMMA OtherHandles ==
  ASSUME BInv, HandlesOwned, NEW w \in Workers, WorkerStep(w) \/ S_SpuriousWakeup(w),
         NEW u \in Workers, u # w, pc[u] \in FilePCs
  PROVE  /\ loc[u].fd \in Handles /\ loc'[u] = loc[u]
         /\ open_file_table'[loc[u].fd] = open_file_table[loc[u].fd]
<1>1. loc[u].fd \in Handles \ free_open_file_entries
  BY DEF HandlesOwned, IsOpenHandle
<1>2. pc[w] \notin FilePCs \/ loc[u].fd # loc[w].fd
  BY DEF HandlesOwned
<1> QED BY <1>1, <1>2, HandlesMove, OthersMove

(* A session starts with a handle on the file that has the name of its box, at *)
(* the end for a publisher and at the beginning for a subscriber.              *)
LEMMA RegisterOpens ==
  ASSUME BInv, NEW w \in Workers, P_Register(w) \/ S_Register(w),
         pc'[w] \in PubSession \cup SubSession
  PROVE  /\ UNCHANGED <<dir, inode_table, fs_data>>
         /\ loc[w].box \in BoxSlots
         /\ loc'[w].box = loc[w].box /\ loc'[w].req = loc[w].req /\ loc'[w].msg = loc[w].msg
         /\ loc'[w].fd \in Handles
         /\ \E s \in Slots : /\ dir[s].d_name = boxes[loc[w].box].name /\ dir[s].d_inumber # -1
                             /\ open_file_table'[loc'[w].fd].of_inumber = dir[s].d_inumber
         /\ P_Register(w) => /\ pc'[w] = "p_read"
                             /\ open_file_table'[loc'[w].fd].of_offset
                                  = inode_table[open_file_table'[loc'[w].fd].of_inumber].i_size
         /\ S_Register(w) => pc'[w] = "s_loop" /\ open_file_table'[loc'[w].fd].of_offset = 0
<1>0. /\ FsInv /\ TablesTyped /\ Role(pc[w], loc[w]) /\ loc[w] \in Locals
      /\ pc \in [Workers -> WorkerPCs] /\ loc \in [Workers -> Locals]
  BY DEF BInv, WorkersOK, FsInv
<1>1. loc[w].box \in BoxSlots
  BY <1>0 DEF P_Register, S_Register, Role, BoxPCs
<1>2. "idle" \notin PubSession \cup SubSession
  BY DEF PubSession, SubSession
<1>3. ASSUME NEW mode \in {{"APPEND"}, {}}, NEW fd, fd # -1, tfs_open(boxes[loc[w].box].name, mode, fd),
             loc' = [loc EXCEPT ![w].fd = fd]
      PROVE  /\ UNCHANGED <<dir, inode_table, fs_data>>
             /\ loc'[w].box = loc[w].box /\ loc'[w].req = loc[w].req /\ loc'[w].msg = loc[w].msg
             /\ loc'[w].fd \in Handles
             /\ \E s \in Slots : /\ dir[s].d_name = boxes[loc[w].box].name /\ dir[s].d_inumber # -1
                                 /\ open_file_table'[loc'[w].fd].of_inumber = dir[s].d_inumber
             /\ open_file_table'[loc'[w].fd].of_offset =
                  IF mode = {"APPEND"}
                  THEN inode_table[open_file_table'[loc'[w].fd].of_inumber].i_size ELSE 0
  <2>1. "TRUNC" \notin mode /\ "CREAT" \notin mode /\ ("APPEND" \in mode <=> mode = {"APPEND"})
    BY <1>3
  <2>2. /\ loc'[w].fd = fd /\ loc'[w].box = loc[w].box /\ loc'[w].req = loc[w].req
        /\ loc'[w].msg = loc[w].msg
    BY <1>0, <1>3, AfterFd
  <2>3. UNCHANGED <<dir, inode_table, fs_data>>
    BY <1>0, <1>3, <2>1, OpenKeeps
  <2>4. fd \in Handles
    BY <1>0, <1>3, <2>1, OpenGives DEF TablesTyped
  <2> QED BY <1>0, <1>3, <2>1, <2>2, <2>3, <2>4, OpenGives
<1>4. CASE P_Register(w)
  <2>1. /\ pc[w] = "p_register" /\ pc'[w] = "p_read"
        /\ \E fd : fd # -1 /\ tfs_open(boxes[loc[w].box].name, {"APPEND"}, fd)
                   /\ loc' = [loc EXCEPT ![w].fd = fd]
    BY <1>0, <1>2, <1>4 DEF P_Register, ClosePipeAndReturn
  <2>2. ~S_Register(w)
    BY <2>1 DEF S_Register
  <2> QED BY <1>1, <1>3, <2>1, <2>2
<1>5. CASE S_Register(w)
  <2>1. /\ pc[w] = "s_register" /\ pc'[w] = "s_loop"
        /\ \E fd : fd # -1 /\ tfs_open(boxes[loc[w].box].name, {}, fd)
                   /\ loc' = [loc EXCEPT ![w].fd = fd]
    BY <1>0, <1>2, <1>5 DEF S_Register, ClosePipeAndReturn
  <2>2. ~P_Register(w)
    BY <2>1 DEF P_Register
  <2>3. {} # {"APPEND"}
    OBVIOUS
  <2> QED BY <1>1, <1>3, <2>1, <2>2, <2>3
<1> QED BY <1>4, <1>5

\* a worker that is in a session was in it before, or has just registered
LEMMA SessionBefore ==
  ASSUME BInv, NEW w \in Workers, WorkerStep(w) \/ S_SpuriousWakeup(w),
         ~P_Register(w), ~S_Register(w), pc'[w] \in PubSession \cup SubSession
  PROVE  /\ pc'[w] \in PubSession <=> pc[w] \in PubSession
         /\ pc'[w] \in SubSession <=> pc[w] \in SubSession
         /\ loc'[w].box = loc[w].box /\ loc'[w].fd = loc[w].fd /\ loc'[w].req = loc[w].req
<1>0. /\ pc \in [Workers -> WorkerPCs] /\ loc \in [Workers -> Locals]
  BY DEF BInv, WorkersOK
<1>1. ~P_End(w) /\ ~S_End(w)
  BY <1>0 DEF P_End, S_End, ClosePipeAndReturn, Goto, PubSession, SubSession
<1>2. SessionKept(w)
  BY <1>1, StepKeepsSession
<1>3. pc[w] \in PubSession \cup SubSession
  BY <1>2 DEF SessionKept
<1>4. ~RequestsHandler(w) /\ pc'[w] # "idle"
  BY <1>3 DEF RequestsHandler, PubSession, SubSession
<1>5. loc'[w].fd = loc[w].fd
  <2>1. CASE P_Read(w) \/ S_Read(w) \/ S_Send(w)
    <3>1. \/ UNCHANGED loc
          \/ \E v : loc' = [loc EXCEPT ![w].msg = v]
          \/ \E v : loc' = [loc EXCEPT ![w].total_read = v]
      BY <2>1 DEF P_Read, S_Read, S_Send
    <3> QED BY <1>0, <3>1, AfterMsg, AfterTotalRead
  <2>2. CASE ~(P_Read(w) \/ S_Read(w) \/ S_Send(w))
    <3>1. UNCHANGED loc
      BY <1>0, <1>1, <1>3, <2>2 DEF WorkerStep, S_SpuriousWakeup, RequestsHandler, KilledBySigpipe,
        PublisherStep, SubscriberStep, ManagerStep, P_GetBox, GetBox, P_Write, P_Terminate,
        P_Broadcast, P_Close, S_GetBox, S_Loop, S_Reacquire, S_Signal, C_GetBox, C_TfsOpen, C_TfsClose,
        C_Slot, C_Used, D_GetBox, D_Unlink, D_Broadcast, M_Load, M_Store, M_Send, L_Scan, L_Send,
        Broadcast, PubSession, SubSession
    <3> QED BY <3>1
  <2> QED BY <2>1, <2>2
<1> QED BY <1>2, <1>4, <1>5, ReqKept DEF SessionKept

(* The handle of a session stays on the file of its box.                       *)
LEMMA HandlesOnBoxesStep ==
  ASSUME Creators = {}, BInv, HandlesOwned, BoxesFixed, HandlesOnBoxes, Next
  PROVE  HandlesOnBoxes'
<1>1. ASSUME NEW w \in Workers, WorkerStep(w) \/ S_SpuriousWakeup(w),
             NEW u \in Workers, pc'[u] \in PubSession \cup SubSession
      PROVE  open_file_table'[loc'[u].fd].of_inumber = BoxInode(loc'[u].box)
  <2>1. CASE u # w
    <3>1. pc[u] \in PubSession \cup SubSession
      <4>1. \A p \in {"s_asleep", "s_woken", "s_orphan"} : p \in SubSession
        BY DEF SubSession
      <4> QED BY <1>1, <2>1, <4>1, OthersMove
    <3>2. pc[u] \in FilePCs
      BY <3>1 DEF FilePCs
    <3> QED BY <1>1, <2>1, <3>1, <3>2, OtherHandles DEF HandlesOnBoxes, InodeOf
  <2>2. CASE u = w /\ (P_Register(w) \/ S_Register(w))
    <3>1. PICK s \in Slots : /\ dir[s].d_name = boxes[loc[w].box].name /\ dir[s].d_inumber # -1
                             /\ open_file_table'[loc'[w].fd].of_inumber = dir[s].d_inumber
      BY <1>1, <2>2, RegisterOpens
    <3>2. loc[w].box \in BoxSlots /\ loc'[w].box = loc[w].box
      BY <1>1, <2>2, RegisterOpens
    <3>3. loc[w].box < Len(InitialBoxes)
      BY <2>2 DEF P_Register, S_Register, BoxPCs, BoxesFixed
    <3>4. s < Len(InitialBoxes) /\ dir[s].d_name = InitialBoxes[s + 1] /\ dir[s].d_inumber = BoxInode(s)
      BY <3>1 DEF BoxesFixed
    <3>5. boxes[loc[w].box].name = InitialBoxes[loc[w].box + 1]
      BY <3>2, <3>3 DEF BoxesFixed
    <3>6. s = loc[w].box
      <4>1. loc[w].box \in Nat /\ s \in Nat
        BY <3>2, SizesAssumption, BrokerAssumption DEF Slots, BoxSlots
      <4> QED BY <3>1, <3>3, <3>4, <3>5, <4>1, BoxNames
    <3> QED BY <2>2, <3>1, <3>2, <3>4, <3>6
  <2>3. CASE u = w /\ ~(P_Register(w) \/ S_Register(w))
    <3>1. /\ pc[w] \in PubSession \cup SubSession
          /\ loc'[w].box = loc[w].box /\ loc'[w].fd = loc[w].fd
      BY <1>1, <2>3, SessionBefore
    <3>2. pc[w] \in FilePCs
      BY <3>1 DEF FilePCs
    <3>3. loc[w].fd \in Handles \ free_open_file_entries
      BY <3>2 DEF HandlesOwned, IsOpenHandle
    <3>4. open_file_table'[loc[w].fd].of_inumber = open_file_table[loc[w].fd].of_inumber
      BY <1>1, <3>3, HandlesMove
    <3> QED BY <2>3, <3>1, <3>4 DEF HandlesOnBoxes, InodeOf
  <2> QED BY <2>1, <2>2, <2>3
<1>2. CASE ~(\E w \in Workers : WorkerStep(w) \/ S_SpuriousWakeup(w))
  BY <1>2, OthersIdle DEF HandlesOnBoxes, InodeOf, BoxInode
<1> QED BY <1>1, <1>2 DEF HandlesOnBoxes, InodeOf, BoxInode

(* What a step does to the mutexes of the boxes.                               *)
LEMMA MutexMove ==
  ASSUME BInv, NEW w \in Workers, WorkerStep(w) \/ S_SpuriousWakeup(w), ~C_Slot(w)
  PROVE  \/ UNCHANGED mutex
         \/ /\ pc[w] \in BoxPCs /\ mutex[loc[w].box] = Nobody
            /\ mutex' = [mutex EXCEPT ![loc[w].box] = w]
         \/ /\ pc[w] \in {"p_terminate", "s_send", "s_end"}
            /\ mutex' = [mutex EXCEPT ![loc[w].box] = Nobody]
  BY DEF WorkerStep, S_SpuriousWakeup, RequestsHandler, KilledBySigpipe,
     PublisherStep, SubscriberStep, ManagerStep, P_GetBox, GetBox, P_Register, P_Read, P_Write,
     P_Terminate, P_Broadcast, P_End, P_Close, S_GetBox, S_Register, S_Loop, S_Reacquire, S_Read,
     S_Send, S_Signal, S_End, C_GetBox, C_TfsOpen, C_TfsClose, C_Used, D_GetBox, D_Unlink,
     D_Broadcast, M_Load, M_Store, M_Send, L_Scan, L_Send, Lock, Unlock, table, BoxPCs, PubSession,
     SubSession

(* A worker has the mutex of its box from the first write of a message to the  *)
(* second, and from the first byte it reads to the send.                       *)
LEMMA MutexHeldStep ==
  ASSUME Creators = {}, BInv, MutexHeld, Next
  PROVE  MutexHeld'
<1>0. /\ BoxesOK /\ pc \in [Workers -> WorkerPCs] /\ loc \in [Workers -> Locals]
      /\ \A u \in Workers : Role(pc[u], loc[u])
  BY DEF BInv, WorkersOK
<1> DEFINE Held == {"p_terminate", "s_read", "s_send", "s_signal", "s_end"}
<1>1. ASSUME NEW w \in Workers, WorkerStep(w) \/ S_SpuriousWakeup(w),
             NEW u \in Workers, pc'[u] \in Held
      PROVE  mutex'[loc'[u].box] = u
  <2>1. CASE u # w
    <3>1. pc[u] \in Held /\ loc'[u] = loc[u]
      BY <1>1, <2>1, OthersMove
    <3>2. mutex[loc[u].box] = u /\ u # Nobody
      BY <3>1, BrokerAssumption DEF MutexHeld
    <3>3. pc[w] \in {"p_terminate", "s_send", "s_end"} => mutex[loc[w].box] = w
      BY DEF MutexHeld
    <3>4. mutex'[loc[u].box] = mutex[loc[u].box]
      <4>1. \/ UNCHANGED mutex
            \/ mutex[loc[w].box] = Nobody /\ mutex' = [mutex EXCEPT ![loc[w].box] = w]
            \/ mutex[loc[w].box] = w /\ mutex' = [mutex EXCEPT ![loc[w].box] = Nobody]
        BY <1>1, <3>3, MutexMove, NoCreation
      <4>2. loc[u].box \in BoxSlots /\ DOMAIN mutex = BoxSlots
        BY <1>0, <3>1 DEF Role, BoxPCs, PubSession, SubSession, BoxesOK
      <4> QED BY <2>1, <3>2, <4>1, <4>2
    <3> QED BY <3>1, <3>2, <3>4
  <2>2. CASE u = w
    <3>1. pc[w] \in BoxPCs => loc[w].box \in BoxSlots /\ DOMAIN mutex = BoxSlots
      BY <1>0 DEF Role, BoxesOK
    <3>2. CASE P_Write(w) \/ S_Loop(w) \/ S_Reacquire(w)
      <4>1. /\ pc[w] \in BoxPCs /\ UNCHANGED loc /\ mutex' = [mutex EXCEPT ![loc[w].box] = w]
        BY <1>0, <1>1, <2>2, <3>2 DEF P_Write, S_Loop, S_Reacquire, Goto, Lock, BoxPCs, PubSession,
          SubSession
      <4> QED BY <2>2, <3>1, <4>1
    <3>3. CASE S_Read(w) \/ S_Send(w) \/ S_Signal(w) \/ KilledBySigpipe(w)
      <4>1. pc[w] \in Held \/ KilledBySigpipe(w)
        BY <3>3 DEF S_Read, S_Send, S_Signal
      <4>2. pc[w] \in Held
        BY <1>1, <2>2, <4>1 DEF KilledBySigpipe
      <4>3. UNCHANGED mutex
        BY <1>0, <1>1, <2>2, <3>3 DEF S_Read, S_Send, S_Signal, KilledBySigpipe, Goto, table
      <4>4. \/ UNCHANGED loc
            \/ \E v : loc' = [loc EXCEPT ![w].msg = v]
            \/ \E v : loc' = [loc EXCEPT ![w].total_read = v]
        BY <3>3 DEF S_Read, S_Send, S_Signal, KilledBySigpipe
      <4>5. loc'[w].box = loc[w].box
        BY <1>0, <4>4, AfterMsg, AfterTotalRead
      <4> QED BY <2>2, <4>2, <4>3, <4>5 DEF MutexHeld
    <3>4. CASE RequestsHandler(w)
      <4>1. Head(requests_queue) \in Clients
        BY <3>4 DEF BInv, RequestsOK, RequestsHandler
      <4>2. pc'[w] \in {"idle", "in_open", Handler(Head(requests_queue))}
        BY <1>0, <3>4 DEF RequestsHandler
      <4> QED BY <1>1, <2>2, <4>1, <4>2, HandlerKind
    <3>5. CASE ~(\/ P_Write(w) \/ S_Loop(w) \/ S_Reacquire(w) \/ S_Read(w) \/ S_Send(w) \/ S_Signal(w)
                 \/ KilledBySigpipe(w) \/ RequestsHandler(w))
      BY <1>0, <1>1, <2>2, <3>5 DEF WorkerStep, S_SpuriousWakeup,
        PublisherStep, SubscriberStep, ManagerStep, P_GetBox, GetBox, P_Register, P_Read,
        P_Terminate, P_Broadcast, P_End, P_Close, S_GetBox, S_Register, S_End, C_GetBox, C_TfsOpen,
        C_TfsClose, C_Slot, C_Used, D_GetBox, D_Unlink, D_Broadcast, M_Load, M_Store, M_Send, L_Scan,
        L_Send, Goto, Respond, ClosePipeAndReturn, Broadcast
    <3> QED BY <3>2, <3>3, <3>4, <3>5
  <2> QED BY <2>1, <2>2
<1>2. CASE ~(\E w \in Workers : WorkerStep(w) \/ S_SpuriousWakeup(w))
  BY <1>2, OthersIdle DEF MutexHeld, table
<1> QED BY <1>1, <1>2 DEF MutexHeld

-----------------------------------------------------------------------------
(* The writes of a message *)

\* what P_Write writes, and what P_Terminate writes
LEMMA MessageWrite ==
  ASSUME BInv, HandlesOwned, NEW w \in Workers, P_Write(w)
  PROVE  /\ pc[w] = "p_write" /\ UNCHANGED <<loc, boxes, published>>
         /\ loc[w].msg \in Seq(Bytes) /\ loc[w].msg \in Seq(Bytes \ {NUL})
         /\ loc[w].fd \in Handles /\ IsOpenHandle(loc[w].fd)
         /\ \E ret : /\ tfs_write(loc[w].fd, loc[w].msg, ret)
                     /\ pc' = [pc EXCEPT ![w] = IF ret = Len(loc[w].msg) THEN "p_terminate" ELSE "p_end"]
<1>1. pc[w] = "p_write" /\ loc[w].msg \in Seq(Bytes \ {NUL})
  BY DEF BInv, WorkersOK, Role, P_Write
<1>2. loc[w].msg \in Seq(Bytes)
  BY <1>1
<1>3. IsOpenHandle(loc[w].fd)
  BY <1>1 DEF HandlesOwned, FilePCs, PubSession
<1>4. loc[w].fd \in Handles
  BY <1>3 DEF IsOpenHandle
<1> QED BY <1>1, <1>2, <1>3, <1>4 DEF P_Write, Goto

\* the same of the second write, that of the NUL, and what it publishes
LEMMA NulWrite ==
  ASSUME BInv, HandlesOwned, NEW w \in Workers, P_Terminate(w)
  PROVE  /\ pc[w] = "p_terminate" /\ UNCHANGED loc
         /\ loc[w].msg \in Seq(Bytes \ {NUL}) /\ <<NUL>> \in Seq(Bytes)
         /\ loc[w].box \in BoxSlots
         /\ loc[w].fd \in Handles /\ IsOpenHandle(loc[w].fd)
         /\ \E ret : /\ tfs_write(loc[w].fd, <<NUL>>, ret)
                     /\ \/ /\ ret = -1 /\ UNCHANGED <<boxes, published>>
                           /\ pc' = [pc EXCEPT ![w] = "p_end"]
                        \/ /\ ret # -1 /\ pc' = [pc EXCEPT ![w] = "p_broadcast"]
                           /\ boxes' = [boxes EXCEPT ![loc[w].box].size =
                                            boxes[loc[w].box].size + Len(loc[w].msg) + 1]
                           /\ published' = [published EXCEPT ![boxes[loc[w].box].name] =
                                                Append(@, loc[w].msg)]
<1>1. /\ pc[w] = "p_terminate" /\ loc[w].msg \in Seq(Bytes \ {NUL}) /\ loc[w].box \in BoxSlots
      /\ DOMAIN boxes = BoxSlots
  BY DEF BInv, WorkersOK, BoxesOK, Role, P_Terminate, BoxPCs, PubSession
<1>2. <<NUL>> \in Seq(Bytes)
  BY BrokerAssumption
<1>3. IsOpenHandle(loc[w].fd)
  BY <1>1 DEF HandlesOwned, FilePCs, PubSession
<1>4. loc[w].fd \in Handles
  BY <1>3 DEF IsOpenHandle
<1>5. PICK ret : /\ tfs_write(loc[w].fd, <<NUL>>, ret)
                 /\ \/ /\ ret = -1 /\ UNCHANGED <<boxes, published>>
                       /\ pc' = [pc EXCEPT ![w] = "p_end"]
                    \/ /\ ret # -1 /\ pc' = [pc EXCEPT ![w] = "p_broadcast"]
                       /\ boxes' = [boxes EXCEPT ![loc[w].box].size = @ + Len(loc[w].msg) + 1]
                       /\ published' = [published EXCEPT ![boxes[loc[w].box].name] =
                                            Append(@, loc[w].msg)]
  BY Zenon DEF P_Terminate, Goto
<1>6. UNCHANGED loc
  BY DEF P_Terminate
<1> QED BY <1>1, <1>2, <1>3, <1>4, <1>5, <1>6

(* A publisher's handle stays at the end of the file.                          *)
LEMMA AtEndStep ==
  ASSUME Creators = {}, SInv, HandlesOwned, BoxesFixed, HandlesOnBoxes, HandlesOnBoxes', AtEnd, Next
  PROVE  AtEnd'
<1>0. /\ BInv /\ FsInv /\ TablesTyped /\ BoxesOK
      /\ pc \in [Workers -> WorkerPCs] /\ loc \in [Workers -> Locals]
      /\ \A u \in Workers : Role(pc[u], loc[u])
  BY DEF SInv, BInv, WorkersOK, FsInv
<1> DEFINE AtEnds == PubSession \ {"p_end"}
<1>b. \A u \in Workers : pc[u] \in AtEnds => /\ pc[u] \in FilePCs /\ pc[u] \in PubSession
                                            /\ pc[u] \in PubSession \cup SubSession
                                            /\ loc[u].box \in BoxSlots
                                            /\ loc[u].box < Len(InitialBoxes)
  BY <1>0 DEF FilePCs, Role, BoxPCs, BoxesFixed
<1>1. ASSUME NEW w \in Workers, WorkerStep(w) \/ S_SpuriousWakeup(w),
             NEW u \in Workers, pc'[u] \in AtEnds
      PROVE  open_file_table'[loc'[u].fd].of_offset = inode_table'[BoxInode(loc'[u].box)].i_size
  <2>1. CASE u # w
    <3>1. pc[u] \in AtEnds
      <4>1. \A p \in {"s_asleep", "s_woken", "s_orphan"} : p \notin PubSession
        BY DEF PubSession
      <4> QED BY <1>1, <2>1, <4>1, OthersMove, <1>0
    <3>2. /\ loc'[u] = loc[u]
          /\ open_file_table'[loc[u].fd] = open_file_table[loc[u].fd]
      BY <1>0, <1>1, <1>b, <2>1, <3>1, OtherHandles
    <3>3. inode_table'[BoxInode(loc[u].box)] = inode_table[BoxInode(loc[u].box)]
      <4>1. CASE UNCHANGED inode_table
        BY <4>1
      <4>2. ASSUME NEW data \in Seq(Bytes), Writes(loc[w].fd, data), loc[w].fd \in Handles,
                   pc[w] \in AtEnds
            PROVE  inode_table'[BoxInode(loc[u].box)] = inode_table[BoxInode(loc[u].box)]
        <5>1. loc[w].box # loc[u].box
          BY <1>b, <2>1, <3>1, <4>2, OnePublisher
        <5>2. BoxInode(loc[w].box) # BoxInode(loc[u].box)
          <6>1. loc[w].box \in Nat /\ loc[u].box \in Nat
            BY <1>b, <3>1, <4>2, BrokerAssumption DEF BoxSlots
          <6> QED BY <5>1, <6>1 DEF BoxInode
        <5>3. InodeOf(loc[w].fd) = BoxInode(loc[w].box)
          BY <1>b, <4>2 DEF HandlesOnBoxes
        <5>4. OffsetOf(loc[w].fd) = FileSize(InodeOf(loc[w].fd))
          BY <4>2, <5>3 DEF AtEnd
        <5>5. BoxInode(loc[u].box) \in Inodes
          BY <1>b, <3>1, BoxInodes
        <5> QED BY <1>0, <4>2, <5>2, <5>3, <5>4, <5>5, WriteSize
      <4>3. CASE P_Write(w)
        <5>1. pc[w] \in AtEnds
          BY <4>3 DEF P_Write, PubSession
        <5>2. PICK ret : tfs_write(loc[w].fd, loc[w].msg, ret)
          BY <1>0, <4>3, MessageWrite
        <5> QED BY <1>0, <4>1, <4>2, <4>3, <5>1, <5>2, MessageWrite, WriteEffect DEF fs, Dies
      <4>4. CASE P_Terminate(w)
        <5>1. pc[w] \in AtEnds
          BY <4>4 DEF P_Terminate, PubSession
        <5>2. PICK ret : tfs_write(loc[w].fd, <<NUL>>, ret)
          BY <1>0, <4>4, NulWrite
        <5> QED BY <1>0, <4>1, <4>2, <4>4, <5>1, <5>2, NulWrite, WriteEffect DEF fs, Dies
      <4>5. CASE D_Unlink(w)
        BY <1>0, <4>1, <4>5, UnlinkOwn
      <4> QED BY <1>0, <1>1, <4>1, <4>3, <4>4, <4>5, FilesMove, NoCreation
    <3> QED BY <3>1, <3>2, <3>3 DEF AtEnd, OffsetOf, FileSize
  <2>2. CASE u = w /\ (P_Register(w) \/ S_Register(w))
    <3>1. P_Register(w)
      <4>1. pc'[w] \in PubSession \cup SubSession
        BY <1>1, <2>2
      <4>2. "s_loop" \notin PubSession
        BY DEF PubSession
      <4> QED BY <1>0, <1>1, <2>2, <4>1, <4>2, RegisterOpens
    <3>2. /\ UNCHANGED inode_table
          /\ open_file_table'[loc'[w].fd].of_offset
               = inode_table[open_file_table'[loc'[w].fd].of_inumber].i_size
      BY <1>0, <1>1, <2>2, <3>1, RegisterOpens
    <3>3. open_file_table'[loc'[w].fd].of_inumber = BoxInode(loc'[w].box)
      BY <1>1, <2>2 DEF HandlesOnBoxes, InodeOf, BoxInode
    <3> QED BY <2>2, <3>2, <3>3
  <2>3. CASE u = w /\ ~(P_Register(w) \/ S_Register(w))
    <3>1. pc[w] \in PubSession /\ loc'[w].box = loc[w].box /\ loc'[w].fd = loc[w].fd
      BY <1>0, <1>1, <2>3, SessionBefore
    <3>2. pc[w] # "p_end"
      <4>1. SUFFICES ASSUME pc[w] = "p_end" PROVE FALSE
        OBVIOUS
      <4>2. P_End(w)
        <5>1. ~RequestsHandler(w) /\ ~KilledBySigpipe(w) /\ ~S_SpuriousWakeup(w)
          BY <4>1 DEF RequestsHandler, KilledBySigpipe, S_SpuriousWakeup
        <5> QED BY <1>1, <4>1, <5>1 DEF WorkerStep,
        PublisherStep, SubscriberStep, ManagerStep, P_GetBox, GetBox, P_Register, P_Read, P_Write,
        P_Terminate, P_Broadcast, P_Close, S_GetBox, S_Register, S_Loop, S_Reacquire, S_Read,
        S_Send, S_Signal, S_End, C_GetBox, C_TfsOpen,
        C_TfsClose, C_Slot, C_Used, D_GetBox, D_Unlink, D_Broadcast, M_Load, M_Store, M_Send, L_Scan,
        L_Send, Broadcast
      <4>3. pc'[w] = "p_close"
        BY <1>0, <4>2 DEF P_End, Goto
      <4> QED BY <1>1, <2>3, <4>3 DEF PubSession
    <3>3. pc[w] \in AtEnds
      BY <3>1, <3>2
    <3>4. /\ InodeOf(loc[w].fd) = BoxInode(loc[w].box)
          /\ OffsetOf(loc[w].fd) = FileSize(InodeOf(loc[w].fd))
      BY <1>b, <3>3 DEF HandlesOnBoxes, AtEnd
    <3>5. loc[w].fd \in Handles
      BY <1>b, <3>3 DEF HandlesOwned, IsOpenHandle
    <3>6. CASE /\ open_file_table'[loc[w].fd].of_offset = open_file_table[loc[w].fd].of_offset
               /\ UNCHANGED inode_table
      BY <2>3, <3>1, <3>4, <3>6 DEF OffsetOf, FileSize
    <3>7. ASSUME NEW data \in Seq(Bytes), Writes(loc[w].fd, data)
          PROVE  open_file_table'[loc'[w].fd].of_offset = inode_table'[BoxInode(loc'[w].box)].i_size
      BY <1>0, <3>1, <3>4, <3>5, <3>7, WriteSize DEF SizeNext
    <3>8. CASE P_Write(w)
      <4>2. PICK ret : tfs_write(loc[w].fd, loc[w].msg, ret)
        BY <1>0, <3>8, MessageWrite
      <4> QED BY <1>0, <2>3, <3>6, <3>7, <3>8, <4>2, MessageWrite, WriteEffect DEF fs, Dies
    <3>9. CASE P_Terminate(w)
      <4>2. PICK ret : tfs_write(loc[w].fd, <<NUL>>, ret)
        BY <1>0, <3>9, NulWrite
      <4> QED BY <1>0, <2>3, <3>6, <3>7, <3>9, <4>2, NulWrite, WriteEffect DEF fs, Dies
    <3>10. CASE ~P_Write(w) /\ ~P_Terminate(w)
      <4>1. ~D_Unlink(w) /\ ~S_Read(w)
        BY <3>1 DEF D_Unlink, S_Read, PubSession
      <4>2. UNCHANGED inode_table
        BY <1>0, <1>1, <3>10, <4>1, FilesMove, NoCreation
      <4>3. pc[w] \in AtEnds /\ ~P_End(w) /\ ~P_Close(w)
        BY <3>3 DEF P_End, P_Close, PubSession
      <4>4. UNCHANGED open_file_table
        <5>1. CASE KilledBySigpipe(w)
          BY <5>1 DEF KilledBySigpipe, Dies
        <5>2. CASE ~KilledBySigpipe(w)
          BY <1>1, <3>10, <4>1, <4>3, <5>2 DEF WorkerStep, S_SpuriousWakeup, RequestsHandler, 
        PublisherStep, SubscriberStep, ManagerStep, P_GetBox, GetBox, P_Register, P_Read,
        P_Broadcast, S_GetBox, S_Register, S_Loop, S_Reacquire, 
        S_Send, S_Signal, S_End, C_GetBox, C_TfsOpen,
        C_TfsClose, C_Slot, C_Used, D_GetBox, D_Broadcast, M_Load, M_Store, M_Send, L_Scan,
        L_Send, Broadcast, fs, PubSession
        <5> QED BY <5>1, <5>2
      <4> QED BY <3>6, <4>2, <4>4
    <3> QED BY <3>8, <3>9, <3>10
  <2> QED BY <2>1, <2>2, <2>3
<1>2. CASE ~(\E w \in Workers : WorkerStep(w) \/ S_SpuriousWakeup(w))
  BY <1>2, OthersIdle DEF AtEnd, OffsetOf, FileSize, BoxInode
<1> QED BY <1>1, <1>2 DEF AtEnd, OffsetOf, FileSize, BoxInode

-----------------------------------------------------------------------------
(* The sizes *)

(* The size of a box and the size of its file differ only between the two      *)
(* writes of a message, and when the file is full.                             *)
LEMMA SizesKeptStep ==
  ASSUME Creators = {}, SInv, HandlesOwned, BoxesFixed, HandlesOnBoxes, AtEnd, SizesKept, Next,
         TablesTyped'
  PROVE  SizesKept'
<1>0. /\ BInv /\ FsInv /\ TablesTyped /\ BoxesOK /\ BoxesOK /\ boxes \in [BoxSlots -> BoxType]
      /\ pc \in [Workers -> WorkerPCs] /\ loc \in [Workers -> Locals]
      /\ \A u \in Workers : Role(pc[u], loc[u])
  BY DEF SInv, BInv, WorkersOK, FsInv, BoxesOK, BoxType
\* what SizesKept says of box b
<1> DEFINE Full(b) == FileSize(BoxInode(b)) = BLOCK_SIZE
           Equal(b) == /\ FileSize(BoxInode(b)) = boxes[b].size
                       /\ \A u \in Workers : pc[u] = "p_terminate" /\ loc[u].box = b
                                                => loc[u].msg = <<>>
           Between(b) == \E u \in Workers :
                            /\ pc[u] = "p_terminate" /\ loc[u].box = b
                            /\ FileSize(BoxInode(b)) = boxes[b].size + Len(loc[u].msg)
<1>k. \A b \in BoxSlots : b < Len(InitialBoxes) => Full(b) \/ Equal(b) \/ Between(b)
  BY DEF SizesKept
<1>n. \A b \in BoxSlots : b < Len(InitialBoxes) =>
         /\ BoxInode(b) \in Inodes /\ FileSize(BoxInode(b)) \in 0..BLOCK_SIZE /\ boxes[b].size \in Nat
  <2>1. \A b \in BoxSlots : b < Len(InitialBoxes) => BoxInode(b) \in Inodes
    BY BoxInodes
  <2> QED BY <1>0, <2>1 DEF TablesTyped, FileSize, BoxType
\* a box whose file and size stay
<1>u. ASSUME NEW b \in BoxSlots, b < Len(InitialBoxes),
             inode_table'[BoxInode(b)].i_size = FileSize(BoxInode(b)),
             boxes'[b].size = boxes[b].size,
             \A u \in Workers : /\ pc'[u] = "p_terminate" <=> pc[u] = "p_terminate"
                                /\ pc[u] = "p_terminate" => loc'[u] = loc[u]
      PROVE  Full(b)' \/ Equal(b)' \/ Between(b)'
  BY <1>k, <1>u DEF FileSize, BoxInode
<1>o. ASSUME NEW w \in Workers, WorkerStep(w) \/ S_SpuriousWakeup(w)
      PROVE  \A u \in Workers : u # w => /\ loc'[u] = loc[u]
                                         /\ pc'[u] = "p_terminate" <=> pc[u] = "p_terminate"
  BY <1>0, <1>o, OthersMove
\* the boxes whose files are not the one that w writes to
<1>e. ASSUME NEW w \in Workers, WorkerStep(w) \/ S_SpuriousWakeup(w),
             NEW data \in Seq(Bytes), NEW ret, tfs_write(loc[w].fd, data, ret),
             loc[w].fd \in Handles, OffsetOf(loc[w].fd) = FileSize(InodeOf(loc[w].fd)),
             InodeOf(loc[w].fd) = BoxInode(loc[w].box), loc[w].box \in BoxSlots,
             UNCHANGED loc,
             NEW b \in BoxSlots, b < Len(InitialBoxes), b # loc[w].box, boxes'[b].size = boxes[b].size
      PROVE  Full(b)' \/ Equal(b)' \/ Between(b)'
  <2>1. inode_table'[BoxInode(b)] = inode_table[BoxInode(b)]
    <3>1. BoxInode(b) # BoxInode(loc[w].box) /\ BoxInode(b) \in Inodes
      <4>1. b \in Nat /\ loc[w].box \in Nat
        BY <1>e, BrokerAssumption DEF BoxSlots
      <4> QED BY <1>e, <1>n, <4>1 DEF BoxInode
    <3> QED BY <1>0, <1>e, <3>1, WriteEffect, WriteSize DEF fs, Dies
  <2>2. \A u \in Workers : loc[u].box = b => (pc'[u] = "p_terminate" <=> pc[u] = "p_terminate")
    BY <1>e, <1>o
  <2>3. FileSize(BoxInode(b))' = FileSize(BoxInode(b))
    BY <2>1 DEF FileSize, BoxInode
  <2> QED BY <1>e, <1>k, <2>2, <2>3
<1>1. ASSUME NEW w \in Workers, WorkerStep(w) \/ S_SpuriousWakeup(w),
             NEW b \in BoxSlots, b < Len(InitialBoxes)
      PROVE  Full(b)' \/ Equal(b)' \/ Between(b)'
  <2>f. pc[w] \in {"p_write", "p_terminate"} =>
           /\ loc[w].box \in BoxSlots
           /\ InodeOf(loc[w].fd) = BoxInode(loc[w].box)
           /\ OffsetOf(loc[w].fd) = FileSize(InodeOf(loc[w].fd))
           /\ loc[w].msg \in Seq(Bytes \ {NUL}) /\ Len(loc[w].msg) \in Nat
           /\ \A u \in Workers : u # w /\ pc[u] = "p_terminate" => loc[u].box # loc[w].box
    <3> SUFFICES ASSUME pc[w] \in {"p_write", "p_terminate"}
                 PROVE  /\ loc[w].box \in BoxSlots
                        /\ InodeOf(loc[w].fd) = BoxInode(loc[w].box)
                        /\ OffsetOf(loc[w].fd) = FileSize(InodeOf(loc[w].fd))
                        /\ loc[w].msg \in Seq(Bytes \ {NUL}) /\ Len(loc[w].msg) \in Nat
                        /\ \A u \in Workers : u # w /\ pc[u] = "p_terminate" => loc[u].box # loc[w].box
      OBVIOUS
    <3>1. /\ pc[w] \in PubSession \ {"p_end"} /\ pc[w] \in PubSession \cup SubSession
          /\ pc[w] \in PubSession /\ \A u \in Workers : pc[u] = "p_terminate" => pc[u] \in PubSession
      BY DEF PubSession
    <3>2. loc[w].msg \in Seq(Bytes \ {NUL}) /\ loc[w].box \in BoxSlots
      BY <1>0, <3>1 DEF Role, BoxPCs
    <3>3. Len(loc[w].msg) \in Nat
      BY <3>2
    <3>4. \A u \in Workers : u # w /\ pc[u] = "p_terminate" => loc[u].box # loc[w].box
      BY <3>1, OnePublisher
    <3> QED BY <3>1, <3>2, <3>3, <3>4 DEF HandlesOnBoxes, AtEnd
  <2>1. CASE P_Write(w)
    <3>0. /\ pc[w] = "p_write" /\ UNCHANGED <<loc, boxes>>
          /\ loc[w].msg \in Seq(Bytes) /\ loc[w].fd \in Handles /\ IsOpenHandle(loc[w].fd)
      BY <1>0, <2>1, MessageWrite
    <3> PICK ret : /\ tfs_write(loc[w].fd, loc[w].msg, ret)
                   /\ pc' = [pc EXCEPT ![w] = IF ret = Len(loc[w].msg) THEN "p_terminate" ELSE "p_end"]
      BY <1>0, <2>1, MessageWrite
    <3>1. CASE b # loc[w].box
      BY <1>1, <1>e, <2>f, <3>0, <3>1
    <3>2. CASE b = loc[w].box
      <4> DEFINE size == FileSize(BoxInode(b))
                 sizeNext == inode_table'[BoxInode(b)].i_size
      <4>1. pc'[w] = IF ret = Len(loc[w].msg) THEN "p_terminate" ELSE "p_end"
        BY <1>0
      <4>2. \A u \in Workers : loc[u].box = b /\ pc'[u] = "p_terminate" => u = w
        BY <1>1, <1>o, <2>f, <3>0, <3>2
      <4>3. size = BLOCK_SIZE \/ size = boxes[b].size
        BY <1>1, <1>k, <2>f, <3>0, <3>2
      <4>4. size \in 0..BLOCK_SIZE /\ boxes[b].size \in Nat /\ Len(loc[w].msg) \in Nat
        BY <1>1, <1>n, <2>f, <3>0
      <4>5. \/ sizeNext = BLOCK_SIZE
            \/ sizeNext = boxes[b].size /\ (pc'[w] = "p_terminate" => loc[w].msg = <<>>)
            \/ sizeNext = boxes[b].size + Len(loc[w].msg) /\ pc'[w] = "p_terminate"
        <5>1. CASE UNCHANGED fs
          <6>1. sizeNext = size
            BY <5>1 DEF fs, FileSize
          <6>2. (ret = -1 /\ loc[w].msg # <<>>) \/ (ret = 0 /\ loc[w].msg = <<>>)
                \/ size = BLOCK_SIZE \/ (Writes(loc[w].fd, loc[w].msg) /\ ret = Count(loc[w].fd, loc[w].msg))
            BY <1>0, <2>f, <3>0, <3>2, WriteOutcome
          <6>3. CASE ret = -1
            <7>1. ret # Len(loc[w].msg)
              BY <4>4, <6>3
            <7> QED BY <4>1, <4>3, <6>1, <7>1
          <6>4. CASE ret = 0 /\ loc[w].msg = <<>>
            BY <4>3, <6>1, <6>4
          <6>5. CASE size = BLOCK_SIZE
            BY <6>1, <6>5
          <6>6. CASE Writes(loc[w].fd, loc[w].msg)
            <7>1. SizeNext(InodeOf(loc[w].fd)) = FileSize(InodeOf(loc[w].fd)) + Count(loc[w].fd, loc[w].msg)
              BY <1>0, <2>f, <3>0, <6>6, WriteSize
            <7>2. Count(loc[w].fd, loc[w].msg) \in 1..Len(loc[w].msg)
              BY <1>0, <3>0, <6>6, WriteFacts DEF FsInv
            <7>3. sizeNext = size + Count(loc[w].fd, loc[w].msg)
              BY <2>f, <3>0, <3>2, <7>1 DEF SizeNext
            <7> HIDE DEF size, sizeNext
            <7> QED BY <4>4, <6>1, <7>2, <7>3
          <6> QED BY <6>2, <6>3, <6>4, <6>5, <6>6
        <5>2. CASE Writes(loc[w].fd, loc[w].msg) /\ ret = Count(loc[w].fd, loc[w].msg)
          <6>1. SizeNext(InodeOf(loc[w].fd)) = FileSize(InodeOf(loc[w].fd)) + Count(loc[w].fd, loc[w].msg)
            BY <1>0, <2>f, <3>0, <5>2, WriteSize
          <6>2. /\ Count(loc[w].fd, loc[w].msg) \in 1..Len(loc[w].msg)
                /\ OffsetOf(loc[w].fd) + Count(loc[w].fd, loc[w].msg) \in 1..BLOCK_SIZE
            BY <1>0, <3>0, <5>2, WriteFacts DEF FsInv
          <6>3. /\ sizeNext = size + ret /\ ret \in 1..Len(loc[w].msg) /\ size + ret <= BLOCK_SIZE
            BY <2>f, <3>0, <3>2, <4>4, <5>2, <6>1, <6>2, SizesAssumption DEF SizeNext
          <6>4. ret = Len(loc[w].msg) \/ size + ret = BLOCK_SIZE
            <7>1. \/ ret = -1 \/ ret = 0 \/ ret = Len(loc[w].msg)
                  \/ FileSize(InodeOf(loc[w].fd)) + ret = BLOCK_SIZE
              BY <1>0, <2>f, <3>0, WriteOutcome
            <7> QED BY <2>f, <3>0, <3>2, <4>4, <6>3, <7>1
          <6> HIDE DEF size, sizeNext
          <6> QED BY <4>1, <4>3, <4>4, <6>3, <6>4, SizesAssumption
        <5>3. ~(IsOpenHandle(loc[w].fd) /\ OffsetOf(loc[w].fd) > BLOCK_SIZE)
          BY <2>f, <3>0, <3>2, <4>4, SizesAssumption
        <5> QED BY <5>1, <5>2, <5>3, WriteEffect
      <4>6. FileSize(BoxInode(b))' = sizeNext
        BY DEF FileSize, BoxInode
      <4> HIDE DEF sizeNext
      <4>7. \/ FileSize(BoxInode(b))' = BLOCK_SIZE
            \/ /\ FileSize(BoxInode(b))' = boxes'[b].size
               /\ \A u \in Workers : pc'[u] = "p_terminate" /\ loc'[u].box = b => loc'[u].msg = <<>>
            \/ /\ pc'[w] = "p_terminate" /\ loc'[w].box = b
               /\ FileSize(BoxInode(b))' = boxes'[b].size + Len(loc'[w].msg)
        BY <3>0, <3>2, <4>2, <4>5, <4>6
      <4> QED BY <4>7
    <3> QED BY <3>1, <3>2
  <2>2. CASE P_Terminate(w)
    <3>0. /\ pc[w] = "p_terminate" /\ UNCHANGED loc /\ <<NUL>> \in Seq(Bytes)
          /\ loc[w].fd \in Handles /\ IsOpenHandle(loc[w].fd)
      BY <1>0, <2>2, NulWrite
    <3> DEFINE n == boxes[loc[w].box].size + Len(loc[w].msg) + 1
    <3> PICK ret : /\ tfs_write(loc[w].fd, <<NUL>>, ret)
                   /\ \/ ret = -1 /\ UNCHANGED boxes /\ pc' = [pc EXCEPT ![w] = "p_end"]
                      \/ /\ ret # -1 /\ pc' = [pc EXCEPT ![w] = "p_broadcast"]
                         /\ boxes' = [boxes EXCEPT ![loc[w].box].size = n]
      BY <1>0, <2>2, NulWrite
    <3>s. /\ \A x \in BoxSlots : x # loc[w].box => boxes'[x].size = boxes[x].size
          /\ ret = -1 => boxes'[loc[w].box].size = boxes[loc[w].box].size
          /\ ret # -1 => boxes'[loc[w].box].size = n
      <4>1. CASE UNCHANGED boxes /\ ret = -1
        BY <4>1
      <4>2. CASE ret # -1 /\ boxes' = [boxes EXCEPT ![loc[w].box].size = n]
        <5> HIDE DEF n
        <5>1. loc[w].box \in BoxSlots
          BY <2>f, <3>0
        <5>2. PICK a \in BoxSlots : a = loc[w].box
          BY <5>1
        <5>3. boxes' = [boxes EXCEPT ![a].size = n]
          BY <4>2, <5>2
        <5>4. boxes' = [boxes EXCEPT ![a] = [name |-> boxes[a].name,
                 n_publishers |-> boxes[a].n_publishers, n_subscribers |-> boxes[a].n_subscribers,
                 size |-> n, alloc_state |-> boxes[a].alloc_state]]
          BY <1>0, <5>3, SetSize
        <5>5. boxes'[a].size = n /\ \A x \in BoxSlots : x # a => boxes'[x] = boxes[x]
          BY <1>0, <5>4
        <5> QED BY <4>2, <5>2, <5>5
      <4> QED BY <4>1, <4>2
    <3>1. CASE b # loc[w].box
      BY <1>1, <1>e, <2>f, <3>0, <3>1, <3>s
    <3>2. CASE b = loc[w].box
      <4> DEFINE size == FileSize(BoxInode(b))
                 sizeNext == inode_table'[BoxInode(b)].i_size
      <4>1. pc'[w] # "p_terminate"
        BY <1>0
      <4>2. \A u \in Workers : ~(loc[u].box = b /\ pc'[u] = "p_terminate")
        BY <1>1, <1>o, <2>f, <3>0, <3>2, <4>1
      <4>3. size = BLOCK_SIZE \/ size = boxes[b].size + Len(loc[w].msg)
        <5>1. CASE Full(b)
          BY <5>1
        <5>2. CASE Equal(b)
          <6>1. loc[w].msg = <<>> /\ Len(<<>>) = 0 /\ size = boxes[b].size
            BY <3>0, <3>2, <5>2
          <6>2. boxes[b].size \in Nat
            BY <1>1, <1>n
          <6> QED BY <6>1, <6>2
        <5>3. CASE Between(b)
          BY <2>f, <3>0, <3>2, <5>3
        <5> QED BY <1>1, <1>k, <5>1, <5>2, <5>3
      <4>4. size \in 0..BLOCK_SIZE /\ boxes[b].size \in Nat /\ Len(loc[w].msg) \in Nat
        BY <1>1, <1>n, <2>f, <3>0
      <4>l. Len(<<NUL>>) = 1 /\ <<NUL>> # <<>>
        OBVIOUS
      <4>5. sizeNext = BLOCK_SIZE \/ sizeNext = boxes'[b].size
        <5>0. boxes'[b].size = IF ret = -1 THEN boxes[b].size ELSE boxes[b].size + Len(loc[w].msg) + 1
          BY <3>2, <3>s
        <5>1. CASE ret = -1 /\ size = 0 /\ UNCHANGED fs
          <6>1. sizeNext = size
            BY <5>1 DEF fs, FileSize
          <6>2. boxes'[b].size = boxes[b].size /\ size = 0
            BY <5>0, <5>1
          <6>3. size # BLOCK_SIZE
            BY <5>1, SizesAssumption
          <6> HIDE DEF size, sizeNext
          <6>4. boxes[b].size = 0
            BY <4>3, <4>4, <6>2, <6>3
          <6> QED BY <6>1, <6>2, <6>4
        <5>2. CASE size = BLOCK_SIZE /\ UNCHANGED fs
          BY <5>2 DEF fs, FileSize
        <5>3. CASE Writes(loc[w].fd, <<NUL>>) /\ ret = Count(loc[w].fd, <<NUL>>)
          <6>1. SizeNext(InodeOf(loc[w].fd)) = FileSize(InodeOf(loc[w].fd)) + Count(loc[w].fd, <<NUL>>)
            BY <1>0, <2>f, <3>0, <5>3, WriteSize
          <6>2. /\ Count(loc[w].fd, <<NUL>>) \in 1..Len(<<NUL>>)
                /\ OffsetOf(loc[w].fd) + Count(loc[w].fd, <<NUL>>) \in 1..BLOCK_SIZE
            BY <1>0, <3>0, <5>3, WriteFacts DEF FsInv
          <6>3. ret = 1
            BY <4>l, <5>3, <6>2
          <6>4. sizeNext = size + 1 /\ size + 1 <= BLOCK_SIZE
            BY <2>f, <3>0, <3>2, <4>4, <5>3, <6>1, <6>2, <6>3, SizesAssumption DEF SizeNext
          <6> HIDE DEF size, sizeNext
          <6> QED BY <4>3, <4>4, <5>0, <6>3, <6>4, SizesAssumption
        <5> QED BY <1>0, <2>f, <3>0, <3>2, <4>l, <5>1, <5>2, <5>3, WriteOutcome
      <4>6. FileSize(BoxInode(b))' = sizeNext
        BY DEF FileSize, BoxInode
      <4> QED BY <3>0, <4>2, <4>5, <4>6
    <3> QED BY <3>1, <3>2
  <2>3. CASE ~P_Write(w) /\ ~P_Terminate(w)
    <3>1. UNCHANGED inode_table
      BY <1>0, <1>1, <2>3, UnlinkOwn, FilesMove, NoCreation
    <3>2. boxes'[b].size = boxes[b].size
      <4>1. CASE UNCHANGED boxes
        BY <4>1
      <4>2. CASE P_Register(w) \/ P_End(w) \/ S_Register(w) \/ S_End(w) \/ D_Unlink(w)
        <5>1. loc[w].box \in BoxSlots
          BY <1>0, <4>2 DEF P_Register, P_End, S_Register, S_End, D_Unlink, Role, BoxPCs, PubSession,
            SubSession
        <5>2. \/ UNCHANGED boxes
              \/ \E v : boxes' = [boxes EXCEPT ![loc[w].box].n_publishers = v]
              \/ \E v : boxes' = [boxes EXCEPT ![loc[w].box].n_subscribers = v]
              \/ boxes' = [boxes EXCEPT ![loc[w].box].alloc_state = "NOT_USED"]
          BY <1>0, <4>2, <5>1 DEF P_Register, P_End, S_Register, S_End, D_Unlink, BoxesOK
        <5>3. PICK x \in BoxSlots : x = loc[w].box
          BY <5>1
        <5>4. CASE boxes' = [boxes EXCEPT ![x].alloc_state = "NOT_USED"]
          BY <1>0, <1>1, <5>4, AfterField
        <5>5. ASSUME NEW v, \/ boxes' = [boxes EXCEPT ![x].n_publishers = v]
                            \/ boxes' = [boxes EXCEPT ![x].n_subscribers = v]
              PROVE  boxes'[b].size = boxes[b].size
          BY <1>0, <1>1, <5>5, AfterField
        <5>6. \/ UNCHANGED boxes
              \/ \E v : boxes' = [boxes EXCEPT ![x].n_publishers = v]
              \/ \E v : boxes' = [boxes EXCEPT ![x].n_subscribers = v]
              \/ boxes' = [boxes EXCEPT ![x].alloc_state = "NOT_USED"]
          BY <5>2, <5>3
        <5> QED BY <5>4, <5>5, <5>6
      <4> QED BY <1>0, <1>1, <2>3, <4>1, <4>2, NoCreation DEF WorkerStep, S_SpuriousWakeup, RequestsHandler,
        PublisherStep, SubscriberStep, ManagerStep, KilledBySigpipe, P_GetBox, GetBox, P_Read,
        P_Broadcast, P_Close, S_GetBox, S_Loop, S_Reacquire, S_Read, S_Send, S_Signal,
        D_GetBox, D_Broadcast, M_Load, M_Store, M_Send, L_Scan, L_Send, table
    <3>3. /\ pc'[w] = "p_terminate" <=> pc[w] = "p_terminate"
          /\ pc[w] = "p_terminate" => loc'[w] = loc[w]
      <4>1. CASE RequestsHandler(w)
        <5>1. Head(requests_queue) \in Clients
          BY <1>0, <4>1 DEF BInv, RequestsOK, RequestsHandler
        <5>2. pc[w] = "idle" /\ pc'[w] \in {"idle", "in_open", Handler(Head(requests_queue))}
          BY <1>0, <4>1 DEF RequestsHandler
        <5> QED BY <5>1, <5>2, HandlerKind
      <4>2. CASE KilledBySigpipe(w)
        BY <4>2 DEF KilledBySigpipe
      <4>3. CASE ~RequestsHandler(w) /\ ~KilledBySigpipe(w)
        BY <1>0, <1>1, <2>3, <4>3 DEF WorkerStep, S_SpuriousWakeup,
        PublisherStep, SubscriberStep, ManagerStep, P_GetBox, GetBox, P_Register, P_Read,
        P_Broadcast, P_End, P_Close, S_GetBox, S_Register, S_Loop, S_Reacquire, S_Read,
        S_Send, S_Signal, S_End, C_GetBox, C_TfsOpen,
        C_TfsClose, C_Slot, C_Used, D_GetBox, D_Unlink, D_Broadcast, M_Load, M_Store, M_Send, L_Scan,
        L_Send, Goto, Respond, ClosePipeAndReturn, Broadcast
      <4> QED BY <4>1, <4>2, <4>3
    <3> QED BY <1>1, <1>o, <1>u, <3>1, <3>2, <3>3 DEF FileSize
  <2> QED BY <2>1, <2>2, <2>3
<1>2. CASE ~(\E w \in Workers : WorkerStep(w) \/ S_SpuriousWakeup(w))
  BY <1>2, OthersIdle DEF SizesKept, FileSize, BoxInode, table
<1>3. ASSUME NEW w \in Workers, WorkerStep(w) \/ S_SpuriousWakeup(w) PROVE SizesKept'
  <2>1. \A b \in BoxSlots : b < Len(InitialBoxes) => Full(b)' \/ Equal(b)' \/ Between(b)'
    BY <1>1, <1>3
  <2> QED BY <2>1 DEF SizesKept, FileSize, BoxInode
<1> QED BY <1>2, <1>3

(* While a box's mutex is free its file is not between two writes.             *)
LEMMA SizesNow ==
  ASSUME BInv, BoxesFixed, MutexHeld, SizesKept
  PROVE  SizeMatchesFile
<1>0. TablesTyped /\ DirectoryConsistent
  BY DEF BInv, FsInv
<1> SUFFICES ASSUME NEW b \in BoxSlots, boxes[b].alloc_state = "USED", mutex[b] = Nobody
             PROVE  /\ find_in_dir(boxes[b].name) # -1
                    /\ inode_table[find_in_dir(boxes[b].name)].i_size \in {boxes[b].size, BLOCK_SIZE}
  BY DEF SizeMatchesFile
<1>1. b < Len(InitialBoxes) /\ dir[b].d_inumber # -1 /\ boxes[b].name = InitialBoxes[b + 1]
  BY DEF BoxesFixed
<1>2. b \in Slots /\ dir[b].d_name = boxes[b].name /\ dir[b].d_inumber = BoxInode(b)
  BY <1>1, BoxInodes DEF BoxesFixed
<1>3. find_in_dir(boxes[b].name) = BoxInode(b) /\ BoxInode(b) # -1
  BY <1>0, <1>1, <1>2, EntryOf
<1>4. \A w \in Workers : ~(pc[w] = "p_terminate" /\ loc[w].box = b)
  BY BrokerAssumption DEF MutexHeld
<1>5. FileSize(BoxInode(b)) \in {boxes[b].size, BLOCK_SIZE}
  BY <1>1, <1>4 DEF SizesKept
<1> QED BY <1>3, <1>5 DEF FileSize

(* The size a box shows is the size of its file: while no box is created, the  *)
(* size that decides whether a subscriber sleeps misses nothing that was       *)
(* published, whoever deletes boxes meanwhile.  (A second box of one name, of   *)
(* two creations at once, starts at size 0.)                                   *)
THEOREM SizesRight ==
  ASSUME Creators = {}
  PROVE  Spec => []SizeMatchesFile
<1>1. Init => HandlesOwned /\ BoxesFixed /\ HandlesOnBoxes /\ MutexHeld /\ AtEnd /\ SizesKept
  <2> SUFFICES ASSUME Init
               PROVE  HandlesOwned /\ BoxesFixed /\ HandlesOnBoxes /\ MutexHeld /\ AtEnd /\ SizesKept
    OBVIOUS
  <2>1. \A w \in Workers : pc[w] = "idle"
    BY DEF Init
  <2>2. \A p \in FilePCs \cup BoxPCs : p # "idle"
    BY DEF FilePCs, BoxPCs, PubSession, SubSession
  <2>3. HandlesOwned /\ HandlesOnBoxes /\ MutexHeld /\ AtEnd
    BY <2>1, <2>2 DEF HandlesOwned, HandlesOnBoxes, MutexHeld, AtEnd, FilePCs, BoxPCs
  <2>4. \A b \in BoxSlots : boxes[b] = IF b < Len(InitialBoxes) THEN EmptyBox(InitialBoxes[b + 1])
                                       ELSE [EmptyBox(NoName) EXCEPT !.alloc_state = "NOT_USED"]
    BY DEF Init
  <2>5. \A b \in BoxSlots : /\ b < Len(InitialBoxes) => /\ boxes[b].name = InitialBoxes[b + 1]
                                                        /\ boxes[b].size = 0
                            /\ ~(b < Len(InitialBoxes)) => boxes[b].alloc_state = "NOT_USED"
    <3> SUFFICES ASSUME NEW b \in BoxSlots
                 PROVE  /\ b < Len(InitialBoxes) => /\ boxes[b].name = InitialBoxes[b + 1]
                                                    /\ boxes[b].size = 0
                        /\ ~(b < Len(InitialBoxes)) => boxes[b].alloc_state = "NOT_USED"
      OBVIOUS
    <3>1. CASE b < Len(InitialBoxes)
      <4>1. boxes[b] = EmptyBox(InitialBoxes[b + 1])
        BY <2>4, <3>1
      <4> QED BY <3>1, <4>1 DEF EmptyBox
    <3>2. CASE ~(b < Len(InitialBoxes))
      <4>1. boxes[b] = [EmptyBox(NoName) EXCEPT !.alloc_state = "NOT_USED"]
        BY <2>4, <3>2
      <4> QED BY <3>2, <4>1 DEF EmptyBox
    <3> QED BY <3>1, <3>2
  <2>6. \A s \in Slots : dir[s] = IF s < Len(InitialBoxes)
                                  THEN [d_name |-> InitialBoxes[s + 1], d_inumber |-> s + 1]
                                  ELSE [d_name |-> NoName, d_inumber |-> -1]
    BY DEF Init, FSInitWith
  <2>7. \A s \in Slots : /\ s < Len(InitialBoxes) => dir[s].d_name = InitialBoxes[s + 1]
                                                     /\ dir[s].d_inumber = s + 1
                         /\ ~(s < Len(InitialBoxes)) => dir[s].d_inumber = -1
    <3> SUFFICES ASSUME NEW s \in Slots
                 PROVE  /\ s < Len(InitialBoxes) => dir[s].d_name = InitialBoxes[s + 1]
                                                    /\ dir[s].d_inumber = s + 1
                        /\ ~(s < Len(InitialBoxes)) => dir[s].d_inumber = -1
      OBVIOUS
    <3>1. CASE s < Len(InitialBoxes)
      <4>1. dir[s] = [d_name |-> InitialBoxes[s + 1], d_inumber |-> s + 1]
        BY <2>6, <3>1
      <4> QED BY <3>1, <4>1
    <3>2. CASE ~(s < Len(InitialBoxes))
      <4>1. dir[s] = [d_name |-> NoName, d_inumber |-> -1]
        BY <2>6, <3>2
      <4> QED BY <3>2, <4>1
    <3> QED BY <3>1, <3>2
  <2>8. \A b \in BoxSlots : b < Len(InitialBoxes) =>
           b \in Slots /\ b + 1 # -1 /\ inode_table[b + 1].i_size = 0
    <3> SUFFICES ASSUME NEW b \in BoxSlots, b < Len(InitialBoxes)
                 PROVE  b \in Slots /\ b + 1 # -1 /\ inode_table[b + 1].i_size = 0
      OBVIOUS
    <3>1. b \in Slots /\ b + 1 \in Inodes /\ b + 1 # ROOT_DIR_INUM
      BY BoxInodes DEF BoxInode
    <3>2. inode_table[b + 1] = [i_size |-> 0, i_data_block |-> -1]
      BY <3>1 DEF Init, FSInitWith
    <3> QED BY <3>1, <3>2, SizesAssumption DEF Inodes
  <2>9. BoxesFixed
    BY <2>1, <2>2, <2>5, <2>7, <2>8 DEF BoxesFixed, BoxInode
  <2>10. SizesKept
    BY <2>1, <2>5, <2>8 DEF SizesKept, FileSize, BoxInode
  <2> QED BY <2>3, <2>9, <2>10
<1>2. ZInv /\ SInv' /\ [Next]_vars => ZInv'
  <2> SUFFICES ASSUME ZInv, SInv', [Next]_vars PROVE ZInv'
    OBVIOUS
  <2>0. /\ SInv /\ BInv /\ HandlesOwned /\ BoxesFixed /\ HandlesOnBoxes /\ MutexHeld /\ AtEnd
        /\ SizesKept /\ TablesTyped'
    BY DEF ZInv, SInv, BInv, FsInv
  <2>1. CASE Next
    <3>1. HandlesOwned' /\ BoxesFixed' /\ HandlesOnBoxes' /\ MutexHeld'
      BY <2>0, <2>1, HandlesOwnedStep, BoxesFixedStep, HandlesOnBoxesStep, MutexHeldStep
    <3> QED BY <2>0, <2>1, <3>1, AtEndStep, SizesKeptStep DEF ZInv
  <2>2. CASE UNCHANGED vars
    <3>1. UNCHANGED <<fs, table, pc, loc>>
      BY <2>2 DEF vars
    <3> QED BY <2>0, <3>1 DEF ZInv, HandlesOwned, IsOpenHandle, BoxesFixed, HandlesOnBoxes, MutexHeld,
          AtEnd, SizesKept, InodeOf, OffsetOf, FileSize, BoxInode, fs, table
  <2> QED BY <2>1, <2>2
<1>3. ZInv => SizeMatchesFile
  BY SizesNow DEF ZInv, SInv
<1> QED BY <1>1, <1>2, <1>3, SInvAlways, PTL DEF Spec, ZInv

=============================================================================
