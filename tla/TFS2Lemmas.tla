----------------------------- MODULE TFS2Lemmas -----------------------------
(***************************************************************************)
(* What each tfs_* call of the broker's file system does to its tables, and *)
(* that it keeps them consistent, for tables of any size and whoever makes  *)
(* the call: the callers of TFS2Calls and the broker.                        *)
(***************************************************************************)
EXTENDS TFS2, WellFoundedInduction, TLAPS

\* None of these is inductive alone: a write through a stale handle keeps blocks
\* apart only because every live inode's block is TAKEN, the root's block is never
\* returned only because no entry names the root, and an unlink frees an inode
\* once only because no two entries share it.
FsInv == TablesTyped /\ BlocksOwned /\ DirectoryConsistent /\ RootKept

(* The root's inode is live and keeps block 0.                                *)
LEMMA RootLive ==
  ASSUME TablesTyped, RootKept
  PROVE  /\ ROOT_DIR_INUM \in Live
         /\ inode_table[ROOT_DIR_INUM].i_data_block = ROOT_BLOCK
         /\ inode_table[ROOT_DIR_INUM].i_size = BLOCK_SIZE
  BY SizesAssumption DEF RootKept, TablesTyped, Live, ROOT_DIR_INUM, ROOT_BLOCK, Inodes

(* The linear searches find the first index: a set of naturals that is not    *)
(* empty has a least element, because < is well-founded.                      *)
LEMMA FirstLeast ==
  ASSUME NEW S, S \subseteq Nat, S # {}
  PROVE  First(S) \in S /\ \A j \in S : First(S) <= j
<1> DEFINE R == OpToRel(<, Nat)
<1>1. IsWellFoundedOn(R, Nat)
  BY NatLessThanWellFounded
<1>2. \A x, y \in Nat : x < y => <<x, y>> \in R
  BY Z3 DEF OpToRel
<1> HIDE DEF R
<1>3. PICK x \in S : \A y \in S : ~(<<y, x>> \in R)
  BY <1>1, WFMin
<1>4. \A y \in S : x \in Nat /\ y \in Nat /\ ~(y < x)
  BY <1>2, <1>3, Zenon
<1>5. \A y \in S : x <= y
  BY <1>4
<1> QED BY <1>5 DEF First

(* find_in_dir returns the inode of an entry that has the name.               *)
LEMMA EntryFound ==
  ASSUME TablesTyped, NEW name, find_in_dir(name) # -1
  PROVE  /\ First(Entries(name)) \in Slots
         /\ dir[First(Entries(name))].d_name = name
         /\ dir[First(Entries(name))].d_inumber = find_in_dir(name)
         /\ find_in_dir(name) \in Inodes
<1>1. Entries(name) # {} /\ find_in_dir(name) = dir[First(Entries(name))].d_inumber
  BY DEF find_in_dir
<1>2. Entries(name) \subseteq Nat
  BY SizesAssumption DEF Entries, Slots
<1>3. First(Entries(name)) \in Entries(name)
  BY <1>1, <1>2, FirstLeast
<1> QED BY <1>1, <1>3 DEF Entries, TablesTyped

(* The inode find_in_dir returns is TAKEN and is not the root's.              *)
LEMMA EntryInode ==
  ASSUME TablesTyped, DirectoryConsistent, NEW name, find_in_dir(name) # -1
  PROVE  find_in_dir(name) \in Inodes \ (freeinode_ts \cup {ROOT_DIR_INUM})
<1>1. PICK s \in Slots : dir[s].d_inumber = find_in_dir(name)
  BY EntryFound, Zenon
<1> QED BY <1>1 DEF DirectoryConsistent

(* When find_in_dir returns -1, no used entry has the name.                   *)
LEMMA EntryMissing ==
  ASSUME TablesTyped, NEW name, find_in_dir(name) = -1
  PROVE  \A s \in Slots : dir[s].d_inumber # -1 => dir[s].d_name # name
<1>1. ASSUME Entries(name) # {} PROVE FALSE
  <2>1. Entries(name) \subseteq Nat
    BY SizesAssumption DEF Entries, Slots
  <2>2. First(Entries(name)) \in Entries(name)
    BY <1>1, <2>1, FirstLeast
  <2> QED BY <1>1, <2>2 DEF Entries, find_in_dir
<1> QED BY <1>1 DEF Entries

(* Truncation replaces the size of an inode and keeps its block.              *)
LEMMA SizeExcept ==
  ASSUME TablesTyped, NEW i \in Inodes, NEW size
  PROVE  [inode_table EXCEPT ![i].i_size = size] =
         [inode_table EXCEPT ![i] = [i_size |-> size,
                                     i_data_block |-> inode_table[i].i_data_block]]
<1>1. /\ inode_table[i] \in [i_size : 0..BLOCK_SIZE, i_data_block : Blocks \cup {-1}]
      /\ DOMAIN inode_table = Inodes
  BY DEF TablesTyped
<1>2. [inode_table[i] EXCEPT !.i_size = size] =
         [i_size |-> size, i_data_block |-> inode_table[i].i_data_block]
  BY <1>1
<1> QED BY <1>2

(* Moving a handle replaces its offset and keeps its inode.                   *)
LEMMA OffsetExcept ==
  ASSUME TablesTyped, NEW h \in Handles, NEW offset
  PROVE  [open_file_table EXCEPT ![h].of_offset = offset] =
         [open_file_table EXCEPT ![h] = [of_inumber |-> open_file_table[h].of_inumber,
                                         of_offset |-> offset]]
<1>1. /\ open_file_table[h] \in [of_inumber : Inodes, of_offset : Nat]
      /\ DOMAIN open_file_table = Handles
  BY DEF TablesTyped
<1>2. [open_file_table[h] EXCEPT !.of_offset = offset] =
         [of_inumber |-> open_file_table[h].of_inumber, of_offset |-> offset]
  BY <1>1
<1> QED BY <1>2

(* add_to_open_file_table fails or fills in a handle that was free.           *)
LEMMA HandleGiven ==
  ASSUME TablesTyped, NEW inum, NEW offset, NEW ret,
         add_to_open_file_table(inum, offset, ret)
  PROVE  \/ /\ ret = -1
            /\ UNCHANGED <<open_file_table, free_open_file_entries>>
         \/ /\ ret \in free_open_file_entries
            /\ open_file_table' = [open_file_table EXCEPT
                                     ![ret] = [of_inumber |-> inum, of_offset |-> offset]]
            /\ free_open_file_entries' = free_open_file_entries \ {ret}
<1>1. CASE free_open_file_entries = {}
  BY <1>1 DEF add_to_open_file_table
<1>2. CASE free_open_file_entries # {}
  <2>1. free_open_file_entries \subseteq Nat
    BY SizesAssumption DEF TablesTyped, Handles
  <2>2. First(free_open_file_entries) \in free_open_file_entries
    BY <1>2, <2>1, FirstLeast
  <2> QED BY <1>2, <2>2 DEF add_to_open_file_table
<1> QED BY <1>1, <1>2

(* ... and keeps the open file table well formed.                             *)
LEMMA HandleAdded ==
  ASSUME TablesTyped, NEW inum \in Inodes, NEW offset \in Nat, NEW ret,
         add_to_open_file_table(inum, offset, ret)
  PROVE  /\ open_file_table' \in [Handles -> [of_inumber : Inodes, of_offset : Nat]]
         /\ free_open_file_entries' \subseteq Handles
<1>1. /\ open_file_table \in [Handles -> [of_inumber : Inodes, of_offset : Nat]]
      /\ free_open_file_entries \subseteq Handles
  BY DEF TablesTyped
<1>2. CASE UNCHANGED <<open_file_table, free_open_file_entries>>
  BY <1>1, <1>2
<1>3. CASE /\ ret \in free_open_file_entries
           /\ open_file_table' = [open_file_table EXCEPT
                                    ![ret] = [of_inumber |-> inum, of_offset |-> offset]]
           /\ free_open_file_entries' = free_open_file_entries \ {ret}
  BY <1>1, <1>3
<1> QED BY <1>2, <1>3, HandleGiven

(* Opening, and truncating, a file that exists keeps the tables consistent:   *)
(* truncation returns a block that no other inode has.                        *)
LEMMA OpenExistingInv ==
  ASSUME FsInv, NEW name, NEW mode, NEW ret, OpenExisting(name, mode, ret)
  PROVE  FsInv'
<1> DEFINE inum == find_in_dir(name)
           size == IF "TRUNC" \in mode THEN 0 ELSE inode_table[inum].i_size
<1>0. TablesTyped /\ BlocksOwned /\ DirectoryConsistent /\ RootKept
  BY DEF FsInv
<1>1. /\ inum # -1
      /\ inode_table' = [inode_table EXCEPT ![inum].i_size = size]
      /\ free_blocks' = IF size # inode_table[inum].i_size
                        THEN free_blocks \cup {inode_table[inum].i_data_block}
                        ELSE free_blocks
      /\ add_to_open_file_table(inum, IF "APPEND" \in mode THEN size ELSE 0, ret)
      /\ UNCHANGED <<freeinode_ts, dir, fs_data, fault>>
  BY DEF OpenExisting
<1>2. inum \in Inodes \ (freeinode_ts \cup {ROOT_DIR_INUM})
  BY <1>0, <1>1, EntryInode
<1>3. size \in 0..BLOCK_SIZE /\ (size # inode_table[inum].i_size => size = 0)
  BY <1>0, <1>2, SizesAssumption DEF TablesTyped
<1> HIDE DEF inum, size
<1>4. inode_table' = [inode_table EXCEPT ![inum] =
          [i_size |-> size, i_data_block |-> inode_table[inum].i_data_block]]
  BY <1>0, <1>1, <1>2, SizeExcept
<1>5. TablesTyped'
  <2>1. inode_table' \in [Inodes -> [i_size : 0..BLOCK_SIZE, i_data_block : Blocks \cup {-1}]]
    BY <1>0, <1>2, <1>3, <1>4 DEF TablesTyped
  <2>2. free_blocks' \subseteq Blocks \ {ROOT_BLOCK}
    <3>1. CASE size = inode_table[inum].i_size
      BY <3>1, <1>0, <1>1 DEF TablesTyped
    <3>2. CASE size # inode_table[inum].i_size
      <4>1. inum \in Live /\ inum # ROOT_DIR_INUM
        BY <3>2, <1>0, <1>2, <1>3 DEF Live, TablesTyped
      <4>2. inode_table[inum].i_data_block \in Blocks \ {ROOT_BLOCK}
        BY <4>1, <1>0, <1>2, RootLive DEF BlocksOwned, Live
      <4> QED BY <3>2, <4>2, <1>0, <1>1 DEF TablesTyped
    <3> QED BY <3>1, <3>2
  <2>3. /\ open_file_table' \in [Handles -> [of_inumber : Inodes, of_offset : Nat]]
        /\ free_open_file_entries' \subseteq Handles
    BY <1>0, <1>1, <1>2, <1>3, HandleAdded
  <2> QED BY <1>0, <1>1, <2>1, <2>2, <2>3 DEF TablesTyped
<1>6. BlocksOwned'
  <2>1. Live' \subseteq Live
    BY <1>0, <1>1, <1>2, <1>3, <1>4 DEF Live, TablesTyped
  <2> QED BY <1>0, <1>1, <1>2, <1>3, <1>4, <2>1 DEF BlocksOwned, TablesTyped, Live
<1>7. DirectoryConsistent'
  BY <1>0, <1>1 DEF DirectoryConsistent
<1>8. RootKept'
  BY <1>0, <1>2, <1>4 DEF RootKept, TablesTyped
<1> QED BY <1>5, <1>6, <1>7, <1>8 DEF FsInv

(* Creating a file keeps them consistent, also when add_dir_entry fails after *)
(* inode_create has reset the inode.                                          *)
LEMMA OpenCreateInv ==
  ASSUME FsInv, NEW name, find_in_dir(name) = -1, NEW ret, OpenCreate(name, ret)
  PROVE  FsInv'
<1> DEFINE inum == First(freeinode_ts)
           slot == First(FreeSlots)
<1>0. TablesTyped /\ BlocksOwned /\ DirectoryConsistent /\ RootKept
  BY DEF FsInv
<1>1. inum \in freeinode_ts /\ inum \in Inodes /\ inum # ROOT_DIR_INUM
  <2>1. freeinode_ts # {} /\ freeinode_ts \subseteq Nat
    BY <1>0, SizesAssumption DEF OpenCreate, TablesTyped, Inodes
  <2>2. inum \in freeinode_ts
    BY <2>1, FirstLeast
  <2> QED BY <2>2, <1>0 DEF TablesTyped
<1>2. inode_table' = [inode_table EXCEPT ![inum] = [i_size |-> 0, i_data_block |-> -1]]
  BY DEF OpenCreate, InitialInode
<1>3. UNCHANGED <<free_blocks, fs_data, fault>>
  BY DEF OpenCreate
<1> HIDE DEF inum, slot
<1>4. inode_table' \in [Inodes -> [i_size : 0..BLOCK_SIZE, i_data_block : Blocks \cup {-1}]]
  BY <1>0, <1>1, <1>2, SizesAssumption DEF TablesTyped
<1>5. RootKept'
  BY <1>0, <1>1, <1>2 DEF RootKept, TablesTyped
<1>6. CASE UNCHANGED <<freeinode_ts, dir, open_file_table, free_open_file_entries>>
  <2>1. TablesTyped'
    BY <1>0, <1>3, <1>4, <1>6 DEF TablesTyped
  <2>2. BlocksOwned'
    BY <1>0, <1>1, <1>2, <1>3, <1>6 DEF BlocksOwned, Live, TablesTyped
  <2>3. DirectoryConsistent'
    BY <1>0, <1>6 DEF DirectoryConsistent
  <2> QED BY <2>1, <2>2, <2>3, <1>5 DEF FsInv
<1>7. CASE /\ name \in FileNames /\ FreeSlots # {}
           /\ freeinode_ts' = freeinode_ts \ {inum}
           /\ dir' = [dir EXCEPT ![slot] = [d_name |-> name, d_inumber |-> inum]]
           /\ add_to_open_file_table(inum, 0, ret)
  <2>1. slot \in Slots /\ dir[slot].d_inumber = -1
    <3>1. FreeSlots \subseteq Nat
      BY SizesAssumption DEF FreeSlots, Slots
    <3>2. slot \in FreeSlots
      BY <1>7, <3>1, FirstLeast DEF slot
    <3> QED BY <3>2 DEF FreeSlots
  <2>2. TablesTyped'
    <3>1. dir' \in [Slots -> [d_name : FileNames \cup {NoName}, d_inumber : Inodes \cup {-1}]]
      BY <1>0, <1>1, <1>7, <2>1 DEF TablesTyped
    <3>2. /\ open_file_table' \in [Handles -> [of_inumber : Inodes, of_offset : Nat]]
          /\ free_open_file_entries' \subseteq Handles
      BY <1>0, <1>1, <1>7, HandleAdded
    <3>3. freeinode_ts' \subseteq Inodes \ {ROOT_DIR_INUM}
      BY <1>0, <1>7 DEF TablesTyped
    <3> QED BY <1>0, <1>3, <1>4, <3>1, <3>2, <3>3 DEF TablesTyped
  <2>3. BlocksOwned'
    BY <1>0, <1>1, <1>2, <1>3, <1>7 DEF BlocksOwned, Live, TablesTyped
  <2>4. DirectoryConsistent'
    <3>1. \A s \in Slots : dir'[s] = IF s = slot THEN [d_name |-> name, d_inumber |-> inum]
                                     ELSE dir[s]
      BY <1>0, <1>7, <2>1 DEF TablesTyped
    <3>2. \A s \in Slots : dir'[s].d_inumber = IF s = slot THEN inum ELSE dir[s].d_inumber
      BY <3>1
    <3>3. \A s \in Slots : dir'[s].d_name = IF s = slot THEN name ELSE dir[s].d_name
      BY <3>1
    <3>4. \A s \in Slots : dir[s].d_inumber # -1 => dir[s].d_name # name
      BY <1>0, EntryMissing
    <3>5. \A s \in Slots : dir[s].d_inumber # inum
      BY <1>0, <1>1 DEF DirectoryConsistent, TablesTyped, Inodes
    <3>6. \A s \in Slots : dir'[s].d_inumber # -1 =>
             /\ dir'[s].d_inumber \in Inodes \ (freeinode_ts' \cup {ROOT_DIR_INUM})
             /\ dir'[s].d_name \in FileNames
      BY <1>0, <1>1, <1>7, <2>1, <3>2, <3>3 DEF DirectoryConsistent
    <3>7. \A s, t \in Slots : s # t /\ dir'[s].d_inumber # -1 /\ dir'[t].d_inumber # -1 =>
             dir'[s].d_inumber # dir'[t].d_inumber /\ dir'[s].d_name # dir'[t].d_name
      BY <1>0, <2>1, <3>2, <3>3, <3>4, <3>5 DEF DirectoryConsistent
    <3>8. \A i \in Inodes \ (freeinode_ts' \cup {ROOT_DIR_INUM}) :
             \E s \in Slots : dir'[s].d_inumber = i
      <4> SUFFICES ASSUME NEW i \in Inodes, i \notin freeinode_ts', i # ROOT_DIR_INUM
                   PROVE  \E s \in Slots : dir'[s].d_inumber = i
        OBVIOUS
      <4>1. CASE i = inum
        BY <4>1, <2>1, <3>2
      <4>2. CASE i # inum
        <5>1. PICK s \in Slots : dir[s].d_inumber = i
          BY <4>2, <1>0, <1>7 DEF DirectoryConsistent
        <5>2. s # slot
          BY <5>1, <2>1 DEF Inodes
        <5> QED BY <5>1, <5>2, <3>2
      <4> QED BY <4>1, <4>2
    <3> QED BY <3>6, <3>7, <3>8 DEF DirectoryConsistent
  <2> QED BY <2>2, <2>3, <2>4, <1>5 DEF FsInv
<1> QED BY <1>6, <1>7 DEF OpenCreate, inum, slot

(* tfs_open keeps the tables consistent.                                      *)
LEMMA OpenInv ==
  ASSUME FsInv, NEW name, NEW mode, NEW ret, tfs_open(name, mode, ret)
  PROVE  FsInv'
<1>1. tfs_open(name, mode, ret)
  OBVIOUS
<1>2. CASE UNCHANGED fs
  BY <1>2 DEF fs, FsInv, TablesTyped, BlocksOwned, DirectoryConsistent, RootKept, Live
<1>3. CASE OpenExisting(name, mode, ret)
  BY <1>3, OpenExistingInv
<1>4. CASE find_in_dir(name) = -1 /\ OpenCreate(name, ret)
  BY <1>4, OpenCreateInv
<1> QED BY <1>1, <1>2, <1>3, <1>4 DEF tfs_open

(* tfs_close keeps the tables consistent.                                     *)
LEMMA CloseInv ==
  ASSUME FsInv, NEW fd, NEW ret, tfs_close(fd, ret)
  PROVE  FsInv'
<1>1. tfs_close(fd, ret)
  OBVIOUS
<1>2. CASE UNCHANGED fs
  BY <1>2 DEF fs, FsInv, TablesTyped, BlocksOwned, DirectoryConsistent, RootKept, Live
<1>3. CASE /\ fd \in Handles
           /\ free_open_file_entries' = free_open_file_entries \cup {fd}
           /\ UNCHANGED <<inode_table, freeinode_ts, dir, free_blocks, fs_data,
                          open_file_table, fault>>
  BY <1>3 DEF FsInv, TablesTyped, BlocksOwned, DirectoryConsistent, RootKept, Live
<1> QED BY <1>1, <1>2, <1>3 DEF tfs_close, IsOpenHandle

\* what a tfs_unlink that succeeds does to the inode and the entry of the file
Unlinks(inum, slot) ==
    /\ inum \in Inodes \ (freeinode_ts \cup {ROOT_DIR_INUM})
    /\ slot \in Slots /\ dir[slot].d_inumber = inum
    /\ free_blocks' = IF inode_table[inum].i_size > 0
                      THEN free_blocks \cup {inode_table[inum].i_data_block}
                      ELSE free_blocks
    /\ freeinode_ts' = freeinode_ts \cup {inum}
    /\ dir' = [dir EXCEPT ![slot] = [d_name |-> NoName, d_inumber |-> -1]]
    /\ UNCHANGED <<inode_table, fs_data, open_file_table, free_open_file_entries, fault>>

(* tfs_unlink fails or clears the one entry of the inode it deletes: the      *)
(* assertion 'inode already freed' of inode_delete holds.                     *)
LEMMA UnlinkEffect ==
  ASSUME TablesTyped, DirectoryConsistent, NEW name, NEW ret, tfs_unlink(name, ret)
  PROVE  \/ ret = -1 /\ UNCHANGED fs
         \/ /\ ret = 0 /\ find_in_dir(name) # -1
            /\ Unlinks(find_in_dir(name), First(Entries(name)))
<1>1. CASE ret = -1 /\ UNCHANGED fs
  BY <1>1
<1>2. CASE ~(ret = -1 /\ UNCHANGED fs)
  <2>1. /\ find_in_dir(name) # -1
        /\ inode_delete(find_in_dir(name))
        /\ clear_dir_entry(name)
        /\ ret = 0
        /\ UNCHANGED <<inode_table, fs_data, open_file_table, free_open_file_entries, fault>>
    BY <1>2 DEF tfs_unlink
  <2>2. find_in_dir(name) \in Inodes \ (freeinode_ts \cup {ROOT_DIR_INUM})
    BY <2>1, EntryInode
  <2>3. /\ First(Entries(name)) \in Slots
        /\ dir[First(Entries(name))].d_inumber = find_in_dir(name)
    BY <2>1, EntryFound
  <2> QED BY <2>1, <2>2, <2>3 DEF Unlinks, inode_delete, clear_dir_entry
<1> QED BY <1>1, <1>2

(* tfs_unlink keeps the tables consistent, whatever handles are open.         *)
LEMMA UnlinkInv ==
  ASSUME FsInv, NEW name, NEW ret, tfs_unlink(name, ret)
  PROVE  FsInv'
<1>0. TablesTyped /\ BlocksOwned /\ DirectoryConsistent /\ RootKept
  BY DEF FsInv
<1>1. tfs_unlink(name, ret)
  OBVIOUS
<1>2. CASE UNCHANGED fs
  BY <1>2 DEF fs, FsInv, TablesTyped, BlocksOwned, DirectoryConsistent, RootKept, Live
<1>3. ASSUME NEW inum, NEW slot, Unlinks(inum, slot) PROVE FsInv'
  <2>1. /\ free_blocks' = IF inode_table[inum].i_size > 0
                          THEN free_blocks \cup {inode_table[inum].i_data_block}
                          ELSE free_blocks
        /\ freeinode_ts' = freeinode_ts \cup {inum}
        /\ dir' = [dir EXCEPT ![slot] = [d_name |-> NoName, d_inumber |-> -1]]
        /\ UNCHANGED <<inode_table, fs_data, open_file_table, free_open_file_entries, fault>>
    BY <1>3 DEF Unlinks
  <2>2. inum \in Inodes \ (freeinode_ts \cup {ROOT_DIR_INUM}) /\ inum # -1
    BY <1>3 DEF Unlinks, Inodes
  <2>3. slot \in Slots /\ dir[slot].d_inumber = inum
    BY <1>3 DEF Unlinks
  <2>4. TablesTyped'
    <3>1. dir' \in [Slots -> [d_name : FileNames \cup {NoName}, d_inumber : Inodes \cup {-1}]]
      BY <1>0, <2>1, <2>3 DEF TablesTyped
    <3>2. free_blocks' \subseteq Blocks \ {ROOT_BLOCK}
      <4>1. CASE inode_table[inum].i_size > 0
        <5>1. inum \in Live /\ inum # ROOT_DIR_INUM
          BY <4>1, <2>2 DEF Live
        <5>2. inode_table[inum].i_data_block \in Blocks \ {ROOT_BLOCK}
          BY <5>1, <1>0, <4>1, <2>2, RootLive DEF BlocksOwned
        <5> QED BY <5>2, <1>0, <2>1 DEF TablesTyped
      <4>2. CASE ~(inode_table[inum].i_size > 0)
        BY <4>2, <1>0, <2>1 DEF TablesTyped
      <4> QED BY <4>1, <4>2
    <3>3. freeinode_ts' \subseteq Inodes \ {ROOT_DIR_INUM}
      BY <1>0, <2>1, <2>2 DEF TablesTyped
    <3> QED BY <1>0, <2>1, <3>1, <3>2, <3>3 DEF TablesTyped
  <2>5. BlocksOwned'
    <3>1. Live' = Live \ {inum}
      BY <2>1 DEF Live
    <3>2. \A i \in Live' : inode_table'[i].i_data_block \notin free_blocks'
      <4> SUFFICES ASSUME NEW i \in Live, i # inum
                   PROVE  inode_table[i].i_data_block \notin free_blocks'
        BY <2>1, <3>1
      <4>1. inode_table[inum].i_size > 0 =>
               inode_table[i].i_data_block # inode_table[inum].i_data_block
        BY <1>0, <2>2 DEF BlocksOwned, Live
      <4> QED BY <4>1, <1>0, <2>1 DEF BlocksOwned
    <3> QED BY <1>0, <2>1, <3>1, <3>2 DEF BlocksOwned
  <2>6. DirectoryConsistent'
    <3>1. \A s \in Slots : dir'[s] = IF s = slot THEN [d_name |-> NoName, d_inumber |-> -1]
                                     ELSE dir[s]
      BY <1>0, <2>1, <2>3 DEF TablesTyped
    <3>2. \A s \in Slots : dir'[s].d_inumber = IF s = slot THEN -1 ELSE dir[s].d_inumber
      BY <3>1
    <3>3. \A s \in Slots : dir'[s].d_inumber # -1 => dir'[s] = dir[s] /\ s # slot
      BY <3>1, <3>2
    <3>4. inum # -1
      BY <2>2
    <3>5. \A s \in Slots : dir'[s].d_inumber # -1 =>
             /\ dir'[s].d_inumber \in Inodes \ (freeinode_ts' \cup {ROOT_DIR_INUM})
             /\ dir'[s].d_name \in FileNames
      BY <1>0, <2>1, <2>3, <3>3, <3>4 DEF DirectoryConsistent
    <3>6. \A s, t \in Slots : s # t /\ dir'[s].d_inumber # -1 /\ dir'[t].d_inumber # -1 =>
             dir'[s].d_inumber # dir'[t].d_inumber /\ dir'[s].d_name # dir'[t].d_name
      BY <1>0, <3>3 DEF DirectoryConsistent
    <3>7. \A i \in Inodes \ (freeinode_ts' \cup {ROOT_DIR_INUM}) :
             \E s \in Slots : dir'[s].d_inumber = i
      <4> SUFFICES ASSUME NEW i \in Inodes, i \notin freeinode_ts', i # ROOT_DIR_INUM
                   PROVE  \E s \in Slots : dir'[s].d_inumber = i
        OBVIOUS
      <4>1. i # inum /\ i \notin freeinode_ts
        BY <2>1
      <4>2. PICK s \in Slots : dir[s].d_inumber = i
        BY <4>1, <1>0 DEF DirectoryConsistent
      <4> QED BY <4>1, <4>2, <2>3, <3>2
    <3> QED BY <3>5, <3>6, <3>7 DEF DirectoryConsistent
  <2>7. RootKept'
    BY <1>0, <2>1 DEF RootKept
  <2> QED BY <2>4, <2>5, <2>6, <2>7 DEF FsInv
<1> QED BY <1>0, <1>1, <1>2, <1>3, UnlinkEffect

(* The size of a block is below the modulus of size_t.                        *)
LEMMA BlockBelowModulus == BLOCK_SIZE < SizeModulus
<1>1. DATA_BLOCKS * BLOCK_SIZE >= BLOCK_SIZE
  BY SizesAssumption
<1>2. DATA_BLOCKS * BLOCK_SIZE \in Nat /\ 2 * DATA_BLOCKS * BLOCK_SIZE = 2 * (DATA_BLOCKS * BLOCK_SIZE)
  BY SizesAssumption
<1> QED BY <1>1, <1>2, SizesAssumption

(* From an offset inside the block, tfs_write's to_write does not wrap around *)
(* and what is written fits.                                                  *)
LEMMA ToWriteFits ==
  ASSUME NEW offset \in Nat, offset <= BLOCK_SIZE, NEW len \in Nat
  PROVE  /\ ToWrite(offset, len) = IF len + offset > BLOCK_SIZE THEN BLOCK_SIZE - offset ELSE len
         /\ ToWrite(offset, len) \in 0..len
         /\ offset + ToWrite(offset, len) <= BLOCK_SIZE
<1>1. (BLOCK_SIZE - offset) % SizeModulus = BLOCK_SIZE - offset
  BY BlockBelowModulus, SizesAssumption
<1> QED BY <1>1, SizesAssumption DEF ToWrite

(* A buffer is a sequence of bytes of its own length.                          *)
LEMMA SeqLength ==
  ASSUME NEW data \in Seq(Bytes)
  PROVE  Len(data) \in Nat /\ data \in [1..Len(data) -> Bytes]
  OBVIOUS

\* the inode and offset of a handle; the bytes written, whether the file gets its
\* block now, the block and the size of the file afterwards
InodeOf(fd) == open_file_table[fd].of_inumber
OffsetOf(fd) == open_file_table[fd].of_offset
Count(fd, data) == ToWrite(OffsetOf(fd), Len(data))
Fresh(fd) == inode_table[InodeOf(fd)].i_size = 0
BlockFor(fd) == IF Fresh(fd) THEN First(free_blocks) ELSE inode_table[InodeOf(fd)].i_data_block
SizeAfter(fd, data) == IF OffsetOf(fd) + Count(fd, data) > inode_table[InodeOf(fd)].i_size
                       THEN OffsetOf(fd) + Count(fd, data)
                       ELSE inode_table[InodeOf(fd)].i_size

\* what a tfs_write that writes does
Writes(fd, data) ==
    /\ IsOpenHandle(fd)
    /\ OffsetOf(fd) <= BLOCK_SIZE /\ Count(fd, data) > 0
    /\ Fresh(fd) => free_blocks # {}
    /\ free_blocks' = IF Fresh(fd) THEN free_blocks \ {BlockFor(fd)} ELSE free_blocks
    /\ WriteBytes(fd, InodeOf(fd), BlockFor(fd), OffsetOf(fd), data, Count(fd, data))
    /\ UNCHANGED <<freeinode_ts, dir, free_open_file_entries, fault>>

(* The outcomes of tfs_write.                                                 *)
LEMMA WriteEffect ==
  ASSUME NEW fd, NEW data, NEW ret, tfs_write(fd, data, ret)
  PROVE  \/ ret = -1 /\ UNCHANGED fs
         \/ IsOpenHandle(fd) /\ Count(fd, data) = 0 /\ ret = 0 /\ UNCHANGED fs
         \/ IsOpenHandle(fd) /\ OffsetOf(fd) > BLOCK_SIZE /\ Dies("overrun")
         \/ ret = Count(fd, data) /\ Writes(fd, data)
  BY DEF tfs_write, Writes, InodeOf, OffsetOf, Count, Fresh, BlockFor

(* What a tfs_write that writes leaves in the inode and in the handle.        *)
LEMMA WriteFacts ==
  ASSUME TablesTyped, BlocksOwned, NEW fd \in Handles, NEW data \in Seq(Bytes), Writes(fd, data)
  PROVE  /\ InodeOf(fd) \in Inodes /\ OffsetOf(fd) \in Nat
         /\ Count(fd, data) \in 1..Len(data)
         /\ OffsetOf(fd) + Count(fd, data) \in 1..BLOCK_SIZE
         /\ SizeAfter(fd, data) \in 1..BLOCK_SIZE
         /\ BlockFor(fd) \in Blocks
         /\ Fresh(fd) => BlockFor(fd) \in free_blocks
         /\ open_file_table' = [open_file_table EXCEPT ![fd] =
               [of_inumber |-> InodeOf(fd), of_offset |-> OffsetOf(fd) + Count(fd, data)]]
         /\ inode_table' = [inode_table EXCEPT ![InodeOf(fd)] =
               [i_size |-> SizeAfter(fd, data), i_data_block |-> BlockFor(fd)]]
<1>1. InodeOf(fd) \in Inodes /\ OffsetOf(fd) \in Nat
  BY DEF TablesTyped, InodeOf, OffsetOf
<1>2. Count(fd, data) \in 1..Len(data) /\ OffsetOf(fd) + Count(fd, data) \in 1..BLOCK_SIZE
  <2>1. Len(data) \in Nat
    BY SeqLength
  <2>2. OffsetOf(fd) <= BLOCK_SIZE /\ Count(fd, data) > 0
    BY DEF Writes
  <2>3. Count(fd, data) \in 0..Len(data) /\ OffsetOf(fd) + Count(fd, data) <= BLOCK_SIZE
    BY <1>1, <2>1, <2>2, ToWriteFits DEF Count
  <2> QED BY <1>1, <2>1, <2>2, <2>3, SizesAssumption
<1>3. SizeAfter(fd, data) \in 1..BLOCK_SIZE
  BY <1>1, <1>2, SizesAssumption DEF TablesTyped, SizeAfter
<1>4. CASE Fresh(fd)
  <2>1. free_blocks # {} /\ free_blocks \subseteq Nat
    BY <1>4, SizesAssumption DEF TablesTyped, Blocks, Writes
  <2>2. First(free_blocks) \in free_blocks
    BY <2>1, FirstLeast
  <2>3. BlockFor(fd) \in free_blocks /\ BlockFor(fd) \in Blocks
    BY <1>4, <2>2 DEF TablesTyped, BlockFor
  <2> QED BY <1>1, <1>2, <1>3, <2>3, OffsetExcept DEF Writes, WriteBytes, SizeAfter, InodeOf, OffsetOf
<1>5. CASE ~Fresh(fd)
  <2>1. BlockFor(fd) \in Blocks
    BY <1>5, <1>1 DEF TablesTyped, BlocksOwned, BlockFor, Fresh
  <2> QED BY <1>1, <1>2, <1>3, <1>5, <2>1, OffsetExcept DEF Writes, WriteBytes, SizeAfter, InodeOf, OffsetOf
<1> QED BY <1>4, <1>5

(* tfs_write keeps the tables consistent, also through a handle of a deleted  *)
(* file, whose inode may belong to another file or to none.                   *)
LEMMA WriteInv ==
  ASSUME FsInv, NEW fd \in Handles, NEW data \in Seq(Bytes), NEW ret,
         tfs_write(fd, data, ret)
  PROVE  FsInv'
<1>0. TablesTyped /\ BlocksOwned /\ DirectoryConsistent /\ RootKept
  BY DEF FsInv
<1>1. tfs_write(fd, data, ret)
  OBVIOUS
<1>2. CASE UNCHANGED fs
  BY <1>2 DEF fs, FsInv, TablesTyped, BlocksOwned, DirectoryConsistent, RootKept, Live
<1>3. CASE Dies("overrun")
  BY <1>3 DEF Dies, FsInv, TablesTyped, BlocksOwned, DirectoryConsistent, RootKept, Live
<1>4. CASE Writes(fd, data)
  <2>0. /\ Fresh(fd) => free_blocks # {}
        /\ free_blocks' = IF Fresh(fd) THEN free_blocks \ {BlockFor(fd)} ELSE free_blocks
        /\ UNCHANGED <<freeinode_ts, dir, free_open_file_entries, fault>>
    BY <1>4 DEF Writes
  <2>1. InodeOf(fd) \in Inodes /\ OffsetOf(fd) \in Nat
    BY <1>0, <1>4, WriteFacts
  <2>2. Count(fd, data) \in 1..Len(data) /\ OffsetOf(fd) + Count(fd, data) \in 1..BLOCK_SIZE
    BY <1>0, <1>4, WriteFacts
  <2>3. SizeAfter(fd, data) \in 1..BLOCK_SIZE
    BY <1>0, <1>4, WriteFacts
  <2>4. BlockFor(fd) \in Blocks /\ (Fresh(fd) => BlockFor(fd) \in free_blocks)
    BY <1>0, <1>4, WriteFacts
  <2>5. /\ open_file_table' = [open_file_table EXCEPT ![fd] =
               [of_inumber |-> InodeOf(fd), of_offset |-> OffsetOf(fd) + Count(fd, data)]]
        /\ inode_table' = [inode_table EXCEPT ![InodeOf(fd)] =
               [i_size |-> SizeAfter(fd, data), i_data_block |-> BlockFor(fd)]]
    BY <1>0, <1>4, WriteFacts
  <2>6. fs_data' \in [Arena -> Bytes \cup {Junk}]
    <3> DEFINE at == Address(BlockFor(fd), OffsetOf(fd))
    <3>1. data \in [1..Len(data) -> Bytes] /\ Len(data) \in Nat
      BY SeqLength
    <3>2. at \in Int
      BY <2>1, <2>4, SizesAssumption DEF Address, Blocks
    <3>3. \A a \in Arena : a \in Int
      BY SizesAssumption DEF Arena
    <3>4. \A a \in Arena : a \in at..at + Count(fd, data) - 1 =>
             data[a - at + 1] \in Bytes
      BY <3>1, <3>2, <3>3, <2>2
    <3>5. fs_data' = [a \in Arena |-> IF a \in at..at + Count(fd, data) - 1
                                     THEN data[a - at + 1] ELSE fs_data[a]]
      BY <1>4 DEF Writes, WriteBytes
    <3> HIDE DEF at
    <3> QED BY <1>0, <3>4, <3>5 DEF TablesTyped
  <2>7. TablesTyped'
    <3>1. inode_table' \in [Inodes -> [i_size : 0..BLOCK_SIZE, i_data_block : Blocks \cup {-1}]]
      BY <1>0, <2>1, <2>3, <2>4, <2>5 DEF TablesTyped
    <3>2. open_file_table' \in [Handles -> [of_inumber : Inodes, of_offset : Nat]]
      BY <1>0, <2>1, <2>2, <2>5 DEF TablesTyped
    <3>3. free_blocks' \subseteq Blocks \ {ROOT_BLOCK}
      BY <1>0, <2>0 DEF TablesTyped
    <3> QED BY <1>0, <2>0, <2>6, <3>1, <3>2, <3>3 DEF TablesTyped
  <2>8. BlocksOwned'
    <3>1. \A i \in Inodes : /\ i # InodeOf(fd) => inode_table'[i] = inode_table[i]
                            /\ i = InodeOf(fd) => /\ inode_table'[i].i_size = SizeAfter(fd, data)
                                           /\ inode_table'[i].i_data_block = BlockFor(fd)
      BY <1>0, <2>1, <2>5 DEF TablesTyped
    <3>2. Live' \subseteq Live \cup {InodeOf(fd)}
      BY <3>1, <2>0 DEF Live
    <3>3. \A i \in Inodes : inode_table'[i].i_size > 0 => inode_table'[i].i_data_block \in Blocks
      BY <3>1, <1>0, <2>4 DEF BlocksOwned
    <3>4. \A i \in Live : i # InodeOf(fd) =>
             inode_table[i].i_data_block # BlockFor(fd) \/ InodeOf(fd) \notin Live'
      <4> SUFFICES ASSUME NEW i \in Live, i # InodeOf(fd), InodeOf(fd) \in Live'
                   PROVE  inode_table[i].i_data_block # BlockFor(fd)
        OBVIOUS
      <4>1. CASE Fresh(fd)
        BY <4>1, <1>0, <2>4 DEF BlocksOwned
      <4>2. CASE ~Fresh(fd)
        <5>1. InodeOf(fd) \in Live
          BY <4>2, <2>0, <1>0, <2>1, SizesAssumption DEF Live, TablesTyped, Fresh
        <5> QED BY <5>1, <4>2, <1>0 DEF BlocksOwned, BlockFor, Fresh
      <4> QED BY <4>1, <4>2
    <3>5. \A i \in Live' : inode_table'[i].i_data_block \notin free_blocks'
      <4> SUFFICES ASSUME NEW i \in Live'
                   PROVE  inode_table'[i].i_data_block \notin free_blocks'
        OBVIOUS
      <4>1. CASE i # InodeOf(fd)
        BY <4>1, <1>0, <2>0, <3>1, <3>2 DEF BlocksOwned, Live
      <4>2. CASE i = InodeOf(fd) /\ Fresh(fd)
        BY <4>2, <2>1, <2>0, <3>1
      <4>3. CASE i = InodeOf(fd) /\ ~Fresh(fd)
        <5>1. InodeOf(fd) \in Live
          BY <4>3, <2>0, <1>0, <2>1, SizesAssumption DEF Live, TablesTyped, Fresh
        <5> QED BY <5>1, <4>3, <1>0, <2>0, <2>1, <3>1 DEF BlocksOwned, BlockFor, Fresh
      <4> QED BY <4>1, <4>2, <4>3
    <3>6. \A i, j \in Live' : i # j =>
             inode_table'[i].i_data_block # inode_table'[j].i_data_block
      <4> SUFFICES ASSUME NEW i \in Live', NEW j \in Live', i # j
                   PROVE  inode_table'[i].i_data_block # inode_table'[j].i_data_block
        OBVIOUS
      <4>0. i \in Inodes /\ j \in Inodes
        BY DEF Live
      <4>1. CASE i # InodeOf(fd) /\ j # InodeOf(fd)
        BY <4>0, <4>1, <1>0, <3>1, <3>2 DEF BlocksOwned
      <4>2. CASE i = InodeOf(fd)
        BY <4>0, <4>2, <3>1, <3>2, <3>4
      <4>3. CASE j = InodeOf(fd)
        BY <4>0, <4>3, <3>1, <3>2, <3>4
      <4> QED BY <4>1, <4>2, <4>3
    <3> QED BY <3>3, <3>5, <3>6 DEF BlocksOwned
  <2>9. DirectoryConsistent'
    BY <1>0, <2>0 DEF DirectoryConsistent
  <2>10. RootKept'
    <3>1. CASE InodeOf(fd) = ROOT_DIR_INUM
      <4>1. inode_table[InodeOf(fd)].i_size = BLOCK_SIZE /\ inode_table[InodeOf(fd)].i_data_block = ROOT_BLOCK
        BY <3>1, <1>0, RootLive
      <4>2. BlockFor(fd) = ROOT_BLOCK
        BY <4>1, SizesAssumption DEF BlockFor, Fresh
      <4>3. SizeAfter(fd, data) = BLOCK_SIZE
        BY <4>1, <2>2, SizesAssumption DEF SizeAfter
      <4> QED BY <3>1, <4>2, <4>3, <1>0, <2>1, <2>5 DEF RootKept, TablesTyped
    <3>2. CASE InodeOf(fd) # ROOT_DIR_INUM
      BY <3>2, <1>0, <2>1, <2>5 DEF RootKept, TablesTyped
    <3> QED BY <3>1, <3>2
  <2> QED BY <2>7, <2>8, <2>9, <2>10 DEF FsInv
<1> QED BY <1>1, <1>2, <1>3, <1>4, WriteEffect

(* tfs_read keeps the tables consistent.                                      *)
LEMMA ReadInv ==
  ASSUME FsInv, NEW fd \in Handles, NEW len \in Nat,
         NEW ret, NEW buffer, tfs_read(fd, len, ret, buffer)
  PROVE  FsInv'
<1>0. TablesTyped /\ BlocksOwned /\ DirectoryConsistent /\ RootKept
  BY DEF FsInv
<1>1. tfs_read(fd, len, ret, buffer)
  OBVIOUS
<1>2. CASE UNCHANGED fs
  BY <1>2 DEF fs, FsInv, TablesTyped, BlocksOwned, DirectoryConsistent, RootKept, Live
<1>3. CASE \E why \in {"assert", "overrun"} : Dies(why)
  BY <1>3 DEF Dies, FsInv, TablesTyped, BlocksOwned, DirectoryConsistent, RootKept, Live
<1>4. CASE /\ open_file_table' = [open_file_table EXCEPT ![fd].of_offset = @ + ToRead(fd, len)]
           /\ UNCHANGED <<inode_table, freeinode_ts, dir, free_blocks, fs_data,
                          free_open_file_entries, fault>>
  <2>1. ToRead(fd, len) \in Nat
    <3>1. /\ inode_table[open_file_table[fd].of_inumber].i_size \in Int
          /\ open_file_table[fd].of_offset \in Int
      BY <1>0, SizesAssumption DEF TablesTyped
    <3>2. SizeModulus \in Nat \ {0}
      BY SizesAssumption, BlockBelowModulus
    <3>3. (inode_table[open_file_table[fd].of_inumber].i_size
             - open_file_table[fd].of_offset) % SizeModulus \in Nat
      BY <3>1, <3>2
    <3> QED BY <3>3 DEF ToRead
  <2>2. open_file_table[fd].of_offset + ToRead(fd, len) \in Nat
    BY <1>0, <2>1 DEF TablesTyped
  <2>3. open_file_table' \in [Handles -> [of_inumber : Inodes, of_offset : Nat]]
    BY <1>0, <1>4, <2>2, OffsetExcept DEF TablesTyped
  <2>4. TablesTyped'
    BY <1>0, <1>4, <2>3 DEF TablesTyped
  <2> QED BY <1>0, <1>4, <2>4 DEF FsInv, BlocksOwned, DirectoryConsistent, RootKept, Live
<1> QED BY <1>1, <1>2, <1>3, <1>4 DEF tfs_read

(* tfs_init and the creation of some empty files leave consistent tables.     *)
LEMMA InitTables ==
  ASSUME NEW files \in Seq(FileNames),
         Len(files) < INODE_TABLE_SIZE, Len(files) <= MAX_DIR_ENTRIES,
         \A i, j \in 1..Len(files) : i # j => files[i] # files[j],
         FSInitWith(files)
  PROVE  FsInv
<1> DEFINE n == Len(files)
<1>0. n \in Nat /\ \A i \in 1..n : files[i] \in FileNames
  OBVIOUS
<1> HIDE DEF n
<1>1. /\ inode_table = [i \in Inodes |->
            IF i = ROOT_DIR_INUM THEN [i_size |-> BLOCK_SIZE, i_data_block |-> ROOT_BLOCK]
            ELSE [i_size |-> 0, i_data_block |-> -1]]
      /\ freeinode_ts = Inodes \ 0..n
      /\ dir = [s \in Slots |->
            IF s < n THEN [d_name |-> files[s + 1], d_inumber |-> s + 1]
            ELSE [d_name |-> NoName, d_inumber |-> -1]]
      /\ free_blocks = Blocks \ {ROOT_BLOCK}
      /\ fs_data = [a \in Arena |-> Junk]
      /\ open_file_table = [h \in Handles |-> [of_inumber |-> 0, of_offset |-> 0]]
      /\ free_open_file_entries = Handles
  BY DEF FSInitWith, TakenInodes, n
<1>2. /\ ROOT_DIR_INUM \in Inodes /\ ROOT_BLOCK \in Blocks /\ 0 \in Inodes
      /\ ROOT_DIR_INUM = 0
  BY SizesAssumption DEF ROOT_DIR_INUM, ROOT_BLOCK, Inodes, Blocks
<1>3. \A s \in Slots : s < n => /\ dir[s].d_name = files[s + 1] /\ dir[s].d_inumber = s + 1
                                /\ s + 1 \in 1..n /\ s + 1 \in Inodes /\ files[s + 1] \in FileNames
  BY <1>0, <1>1, SizesAssumption DEF Slots, Inodes, n
<1>4. \A s \in Slots : ~(s < n) => dir[s].d_name = NoName /\ dir[s].d_inumber = -1
  BY <1>1
<1>5. TablesTyped
  <2>1. dir \in [Slots -> [d_name : FileNames \cup {NoName}, d_inumber : Inodes \cup {-1}]]
    BY <1>1, <1>3
  <2> QED BY <1>0, <1>1, <1>2, <2>1, SizesAssumption DEF TablesTyped
<1>6. RootKept
  BY <1>1, <1>2 DEF RootKept
<1>7. BlocksOwned
  BY <1>1, <1>2 DEF BlocksOwned, Live
<1>8. DirectoryConsistent
  <2>1. \A s \in Slots : dir[s].d_inumber # -1 =>
           /\ dir[s].d_inumber \in Inodes \ (freeinode_ts \cup {ROOT_DIR_INUM})
           /\ dir[s].d_name \in FileNames
    BY <1>0, <1>1, <1>2, <1>3, <1>4
  <2>2. \A s, t \in Slots : s # t /\ dir[s].d_inumber # -1 /\ dir[t].d_inumber # -1 =>
           dir[s].d_inumber # dir[t].d_inumber /\ dir[s].d_name # dir[t].d_name
    BY <1>0, <1>3, <1>4, SizesAssumption DEF Slots, n
  <2>3. \A i \in Inodes \ (freeinode_ts \cup {ROOT_DIR_INUM}) : \E s \in Slots : dir[s].d_inumber = i
    <3> TAKE i \in Inodes \ (freeinode_ts \cup {ROOT_DIR_INUM})
    <3>1. i - 1 \in Slots /\ i - 1 < n
      BY <1>0, <1>1, <1>2, SizesAssumption DEF Slots, Inodes, n
    <3> QED BY <3>1, <1>3, SizesAssumption DEF Inodes
  <2> QED BY <2>1, <2>2, <2>3 DEF DirectoryConsistent
<1> QED BY <1>5, <1>6, <1>7, <1>8 DEF FsInv

-----------------------------------------------------------------------------
(* The addresses of blocks *)

(* A block's bytes all come before the bytes of the blocks after it.          *)
LEMMA BlockAddresses ==
  ASSUME NEW b \in Nat, NEW c \in Nat, b < c, NEW k \in 0..BLOCK_SIZE - 1, NEW l \in Nat
  PROVE  Address(b, k) < Address(c, l)
<1>1. (b + 1) * BLOCK_SIZE <= c * BLOCK_SIZE
  <2>1. PICK d \in Nat : c = (b + 1) + d
    <3>1. c - (b + 1) \in Nat /\ c = (b + 1) + (c - (b + 1))
      OBVIOUS
    <3> QED BY <3>1
  <2>2. c * BLOCK_SIZE = (b + 1) * BLOCK_SIZE + d * BLOCK_SIZE /\ d * BLOCK_SIZE \in Nat
    BY <2>1, SizesAssumption
  <2>3. (b + 1) * BLOCK_SIZE \in Nat
    BY SizesAssumption
  <2> QED BY <2>2, <2>3
<1>2. (b + 1) * BLOCK_SIZE = b * BLOCK_SIZE + BLOCK_SIZE
  BY SizesAssumption
<1>3. b * BLOCK_SIZE \in Nat /\ c * BLOCK_SIZE \in Nat
  BY SizesAssumption
<1> QED BY <1>1, <1>2, <1>3, SizesAssumption DEF Address

(* Different blocks have no byte in common.                                   *)
LEMMA BlocksApart ==
  ASSUME NEW b \in Blocks, NEW c \in Blocks, b # c,
         NEW k \in 0..BLOCK_SIZE - 1, NEW l \in 0..BLOCK_SIZE - 1
  PROVE  Address(b, k) # Address(c, l)
<1>1. b \in Nat /\ c \in Nat /\ k \in Nat /\ l \in Nat
  BY SizesAssumption DEF Blocks
<1>2. Address(b, k) \in Int /\ Address(c, l) \in Int
  BY <1>1, SizesAssumption DEF Address
<1>3. CASE b < c
  BY <1>1, <1>2, <1>3, BlockAddresses
<1>4. CASE c < b
  BY <1>1, <1>2, <1>4, BlockAddresses
<1> QED BY <1>1, <1>3, <1>4

(* The bytes of a block other than the root's lie in fs_data.                 *)
LEMMA BlockInArena ==
  ASSUME NEW b \in Blocks, b # ROOT_BLOCK, NEW k \in 0..BLOCK_SIZE - 1
  PROVE  Address(b, k) \in Arena
<1>1. b \in Nat /\ b < DATA_BLOCKS /\ b > 0 /\ k \in Nat /\ DATA_BLOCKS \in Nat
  BY SizesAssumption DEF Blocks, ROOT_BLOCK
<1>2. Address(b, k) < Address(DATA_BLOCKS, 0)
  BY <1>1, BlockAddresses
<1>3. BLOCK_SIZE - 1 \in 0..BLOCK_SIZE - 1 /\ 0 \in Nat
  BY SizesAssumption
<1>4. Address(0, BLOCK_SIZE - 1) < Address(b, k)
  BY <1>1, <1>3, BlockAddresses
<1>5. DATA_BLOCKS * BLOCK_SIZE \in Nat /\ b * BLOCK_SIZE \in Nat /\ 0 * BLOCK_SIZE = 0
  BY <1>1, SizesAssumption
<1> QED BY <1>1, <1>2, <1>4, <1>5, SizesAssumption DEF Address, Arena

(* A file that is not empty has a block other than the root's.                *)
LEMMA OpenBlock ==
  ASSUME FsInv, NEW i \in Inodes \ (freeinode_ts \cup {ROOT_DIR_INUM}), inode_table[i].i_size > 0
  PROVE  inode_table[i].i_data_block \in Blocks \ {ROOT_BLOCK}
<1>1. TablesTyped /\ BlocksOwned /\ RootKept
  BY DEF FsInv
<1>2. i \in Live
  BY DEF Live
<1> QED BY <1>1, <1>2, RootLive DEF BlocksOwned
=============================================================================
