--------------------------- MODULE TFSRefinement ---------------------------
(***************************************************************************)
(* The file system of src/fs implements Namespace, a directory with atomic  *)
(* operations, for tables of any size and any number of threads that do not *)
(* race an open with an unlink of the same name, nor the uses of a handle   *)
(* with its close.  Each step of a thread is one operation of Namespace or  *)
(* changes neither the directory nor the handles a caller sees.             *)
(***************************************************************************)
EXTENDS TFSProofs

\* s is an entry of n, and n has none
Entered(n, s) == dir[s].d_inumber # -1 /\ dir[s].d_name = n
Missing(n) == \A s \in Slots : ~Entered(n, s)

(* find_in_dir returns the inode of the only entry of a name.                 *)
LEMMA FindIs ==
  IInv => /\ \A n : \A s \in Slots : Entered(n, s) => find_in_dir(n) = dir[s].d_inumber
          /\ \A n : Missing(n) => find_in_dir(n) = -1
<1> SUFFICES ASSUME IInv, NEW n
             PROVE  /\ \A s \in Slots : Entered(n, s) => find_in_dir(n) = dir[s].d_inumber
                    /\ Missing(n) => find_in_dir(n) = -1
  OBVIOUS
<1>1. TypeOK /\ NamesUnique
  BY DEF IInv, TablesInv
<1>2. ASSUME NEW s \in Slots, Entered(n, s)
      PROVE  find_in_dir(n) = dir[s].d_inumber
  <2>1. PICK i : i = dir[s].d_inumber
    OBVIOUS
  <2>2. NamedAs(n, i)
    BY <1>2, <2>1 DEF NamedAs, EntriesOf, Entered
  <2> QED BY <1>1, <2>1, <2>2, OneEntry
<1>3. Missing(n) => find_in_dir(n) = -1
  BY DEF Missing, Entered, find_in_dir, EntriesOf
<1> QED BY <1>2, <1>3

LEMMA FindIsNext ==
  ASSUME IInv'
  PROVE  /\ \A n : \A s \in Slots : Entered(n, s)' => find_in_dir(n)' = dir'[s].d_inumber
         /\ \A n : Missing(n)' => find_in_dir(n)' = -1
<1>1. (IInv => /\ \A n : \A s \in Slots : Entered(n, s) => find_in_dir(n) = dir[s].d_inumber
               /\ \A n : Missing(n) => find_in_dir(n) = -1)'
  BY FindIs, PTL
<1> QED BY <1>1

(* A name that is found has one entry, of an inode in use.                    *)
LEMMA FoundIn ==
  ASSUME IInv, NEW n, find_in_dir(n) # -1
  PROVE  /\ find_in_dir(n) \in Taken /\ Entries(find_in_dir(n)) # {}
         /\ \E s \in Slots : Entered(n, s) /\ dir[s].d_inumber = find_in_dir(n)
<1>1. NamedAs(n, find_in_dir(n))
  BY Found DEF IInv
<1>2. find_in_dir(n) \in Taken /\ Entries(find_in_dir(n)) # {}
  BY <1>1, NamedTaken
<1> QED BY <1>1, <1>2 DEF NamedAs, EntriesOf, Entered

(* A link with a name has a block of its own.                                 *)
LEMMA LinkOwns ==
  ASSUME IInv, NEW i \in Taken, Entries(i) # {}, IsLink(i)
  PROVE  i \in Owners
<1>1. PICK s \in Slots : dir[s].d_inumber = i
  BY DEF Entries
<1>2. i # -1 /\ i \in Inodes /\ i \notin freeinode_ts
  BY RootIndex DEF IInv, Taken
<1>3. inode_table[i].i_data_block # -1
  BY <1>1, <1>2 DEF IInv, TablesInv, LinksResolved
<1> QED BY <1>2, <1>3 DEF Owners, IsLink

-----------------------------------------------------------------------------
(* What a caller sees of the directory, and of the handles.                   *)

LEMMA EntryValue ==
  /\ EntryFor(-1) = NS!NoEntry
  /\ \A i \in Inodes : /\ ~IsLink(i) => EntryFor(i) = NS!File(i)
                       /\ IsLink(i) =>
                            EntryFor(i) = NS!LinkTo(fs_data[inode_table[i].i_data_block])
<1>1. -1 \notin Inodes
  BY SizesAssumption DEF Inodes
<1> QED BY <1>1 DEF EntryFor, IsLink, NS!NoEntry, NS!File, NS!LinkTo

LEMMA EntryValueNext ==
  \A i \in Inodes :
     /\ ~IsLink(i)' => EntryFor(i)' = NS!File(i)
     /\ IsLink(i)' => EntryFor(i)' = NS!LinkTo(fs_data'[inode_table'[i].i_data_block])
<1>1. (/\ EntryFor(-1) = NS!NoEntry
       /\ \A i \in Inodes :
             /\ ~IsLink(i) => EntryFor(i) = NS!File(i)
             /\ IsLink(i) => EntryFor(i) = NS!LinkTo(fs_data[inode_table[i].i_data_block]))'
  BY EntryValue, PTL
<1> QED BY <1>1 DEF NS!File, NS!LinkTo

LEMMA EntryKinds ==
  /\ \A x : NS!File(x) # NS!NoEntry /\ NS!File(x).type = "file" /\ NS!File(x).id = x
  /\ \A n : NS!LinkTo(n) # NS!NoEntry /\ \A x : NS!LinkTo(n) # NS!File(x)
<1>1. /\ NS!NoEntry.type = "none"
      /\ \A x : NS!File(x).type = "file" /\ NS!File(x).id = x
      /\ \A n : NS!LinkTo(n).type = "link"
  BY DEF NS!File, NS!NoEntry, NS!LinkTo
<1> QED BY <1>1

\* the inodes that have a name mean what they meant
SameSeen == \A i \in Taken : Entries(i) # {} =>
    /\ inode_table'[i].i_node_type = inode_table[i].i_node_type
    /\ IsLink(i) => /\ inode_table'[i].i_data_block = inode_table[i].i_data_block
                    /\ fs_data'[inode_table[i].i_data_block] =
                          fs_data[inode_table[i].i_data_block]

LEMMA EntrySame ==
  ASSUME IInv, SameSeen, NEW i \in Taken, Entries(i) # {}
  PROVE  EntryFor(i)' = EntryFor(i)
<1>1. i \in Inodes
  BY DEF Taken
<1>2. CASE IsLink(i)
  <2>1. IsLink(i)' /\ fs_data'[inode_table'[i].i_data_block] = fs_data[inode_table[i].i_data_block]
    BY <1>2 DEF SameSeen, IsLink
  <2>2. EntryFor(i) = NS!LinkTo(fs_data[inode_table[i].i_data_block])
    BY <1>1, <1>2, EntryValue
  <2>3. EntryFor(i)' = NS!LinkTo(fs_data'[inode_table'[i].i_data_block])
    BY <1>1, <2>1, EntryValueNext
  <2> QED BY <2>1, <2>2, <2>3
<1>3. CASE ~IsLink(i)
  <2>1. ~IsLink(i)'
    BY <1>3 DEF SameSeen, IsLink
  <2> QED BY <1>1, <1>3, <2>1, EntryValue, EntryValueNext
<1> QED BY <1>2, <1>3

(* A step that leaves the directory leaves what the names stand for.          *)
LEMMA NsKept ==
  ASSUME IInv, dir' = dir, SameSeen
  PROVE  nsBar' = nsBar
<1>1. ASSUME NEW n \in FileNames
      PROVE  EntryFor(find_in_dir(n))' = EntryFor(find_in_dir(n))
  <2>1. PICK i : i = find_in_dir(n)
    OBVIOUS
  <2>2. find_in_dir(n)' = i
    BY <2>1 DEF find_in_dir, EntriesOf
  <2>3. CASE i = -1
    BY <2>1, <2>2, <2>3 DEF EntryFor
  <2>4. CASE i # -1
    <3>1. i \in Taken /\ Entries(i) # {}
      BY <2>1, <2>4, FoundIn
    <3>2. EntryFor(i)' = EntryFor(i)
      BY <3>1, EntrySame
    <3> QED BY <2>1, <2>2, <3>2
  <2> QED BY <2>3, <2>4
<1> QED BY <1>1 DEF nsBar

(* An added entry gives its name a meaning, and no other name.                *)
LEMMA NsAdded ==
  ASSUME IInv, IInv', SameSeen, NEW name \in FileNames, EntriesOf(name) = {},
         NEW s \in Slots, dir[s].d_inumber = -1, NEW k \in Inodes,
         dir'[s].d_inumber = k, dir'[s].d_name = name,
         \A r \in Slots \ {s} : dir'[r] = dir[r]
  PROVE  /\ nsBar[name] = NS!NoEntry
         /\ nsBar' = [nsBar EXCEPT ![name] = EntryFor(k)']
<1>1. Missing(name) /\ k # -1 /\ ~Entered(name, s)
  BY RootIndex DEF IInv, Missing, Entered, EntriesOf
<1>2. nsBar[name] = NS!NoEntry
  <2>1. find_in_dir(name) = -1
    BY <1>1, FindIs
  <2> QED BY <2>1, EntryValue DEF nsBar
<1>3. find_in_dir(name)' = k
  <2>1. Entered(name, s)'
    BY <1>1 DEF Entered
  <2> QED BY <2>1, FindIsNext
<1>4. ASSUME NEW n \in FileNames, n # name
      PROVE  EntryFor(find_in_dir(n))' = EntryFor(find_in_dir(n))
  <2>1. PICK i : i = find_in_dir(n)
    OBVIOUS
  <2>2. CASE i = -1
    <3>1. \A r \in Slots : ~Entered(n, r)
      BY <2>1, <2>2, FindIs, RootIndex DEF Entered, IInv
    <3>2. Missing(n)'
      BY <1>4, <3>1 DEF Missing, Entered
    <3>3. find_in_dir(n)' = -1
      BY <3>2, FindIsNext
    <3> QED BY <2>1, <2>2, <3>3 DEF EntryFor
  <2>3. CASE i # -1
    <3>1. /\ i \in Taken /\ Entries(i) # {}
          /\ \E r \in Slots : Entered(n, r) /\ dir[r].d_inumber = i
      BY <2>1, <2>3, FoundIn
    <3>2. PICK r \in Slots : Entered(n, r) /\ dir[r].d_inumber = i
      BY <3>1
    <3>3. Entered(n, r)' /\ dir'[r].d_inumber = i
      BY <3>2 DEF Entered
    <3>4. find_in_dir(n)' = i
      BY <3>3, FindIsNext
    <3>5. EntryFor(i)' = EntryFor(i)
      BY <3>1, EntrySame
    <3> QED BY <2>1, <3>4, <3>5
  <2> QED BY <2>2, <2>3
<1>5. EntryFor(find_in_dir(name))' = EntryFor(k)'
  BY <1>3 DEF EntryFor
<1> QED BY <1>2, <1>4, <1>5 DEF nsBar

(* A removed entry takes the meaning of its name, and of no other.            *)
LEMMA NsRemoved ==
  ASSUME IInv, IInv', SameSeen, NEW name \in FileNames, NEW k \in Taken,
         NamedAs(name, k), EntriesOf(name)' = {},
         \A r \in Slots : \/ dir'[r] = dir[r]
                          \/ /\ dir[r].d_name = name /\ dir[r].d_inumber = k
                             /\ dir'[r].d_inumber = -1
  PROVE  /\ nsBar[name] = EntryFor(k)
         /\ nsBar' = [nsBar EXCEPT ![name] = NS!NoEntry]
<1>1. find_in_dir(name) = k
  BY OneEntry DEF IInv, TablesInv
<1>2. EntryFor(find_in_dir(name))' = NS!NoEntry
  <2>1. Missing(name)'
    BY DEF Missing, Entered, EntriesOf
  <2>2. find_in_dir(name)' = -1
    BY <2>1, FindIsNext
  <2> QED BY <2>2 DEF EntryFor, NS!NoEntry
<1>3. ASSUME NEW n \in FileNames, n # name
      PROVE  EntryFor(find_in_dir(n))' = EntryFor(find_in_dir(n))
  <2>1. PICK i : i = find_in_dir(n)
    OBVIOUS
  <2>2. CASE i = -1
    <3>1. \A r \in Slots : ~Entered(n, r)
      BY <2>1, <2>2, FindIs DEF Entered
    <3>2. Missing(n)'
      BY <1>3, <3>1 DEF Missing, Entered
    <3>3. find_in_dir(n)' = -1
      BY <3>2, FindIsNext
    <3> QED BY <2>1, <2>2, <3>3 DEF EntryFor
  <2>3. CASE i # -1
    <3>1. /\ i \in Taken /\ Entries(i) # {}
          /\ \E r \in Slots : Entered(n, r) /\ dir[r].d_inumber = i
      BY <2>1, <2>3, FoundIn
    <3>2. PICK r \in Slots : Entered(n, r) /\ dir[r].d_inumber = i
      BY <3>1
    <3>3. Entered(n, r)' /\ dir'[r].d_inumber = i
      BY <1>3, <3>2 DEF Entered
    <3>4. find_in_dir(n)' = i
      BY <3>3, FindIsNext
    <3>5. EntryFor(i)' = EntryFor(i)
      BY <3>1, EntrySame
    <3> QED BY <2>1, <3>4, <3>5
  <2> QED BY <2>2, <2>3
<1> QED BY <1>1, <1>2, <1>3 DEF nsBar

(* The handles a caller sees change in O_Entry and C_Remove alone.            *)
LEMMA OpenedKept ==
  ASSUME NEW t \in Threads, Moves(t), pc[t] # "o_entry", pc'[t] # "o_entry",
         free_open_file_entries' = free_open_file_entries,
         \A h \in Handles : open_file_table'[h].of_inumber = open_file_table[h].of_inumber
  PROVE  openedBar' = openedBar
<1>1. \A h : Pending(h)' <=> Pending(h)
  BY DEF Pending, Moves
<1> QED BY <1>1 DEF openedBar, IsOpenHandle

-----------------------------------------------------------------------------
(* Each step of a thread is an operation of Namespace or changes nothing that *)
(* a caller sees.                                                             *)

Seen == [NS!Next]_<<nsBar, openedBar>>

LEMMA Unseen ==
  ASSUME nsBar' = nsBar, openedBar' = openedBar
  PROVE  Seen
  BY DEF Seen

LEMMA DirectoryOperation ==
  ASSUME openedBar' = openedBar,
         \/ \E n \in FileNames, x \in Inodes : NS!Create(n, x)
         \/ \E n, m \in FileNames : NS!Link(n, m) \/ NS!SymLink(n, m)
         \/ \E n \in FileNames : NS!Unlink(n)
  PROVE  Seen
<1>1. CASE nsBar' = nsBar
  BY <1>1, Unseen
<1>2. CASE nsBar' # nsBar
  BY <1>2, Zenon DEF Seen, NS!Next
<1> QED BY <1>1, <1>2

LEMMA HandleOperation ==
  ASSUME nsBar' = nsBar,
         \E h \in Handles : NS!Close(h) \/ \E n \in FileNames : NS!Open(n, h)
  PROVE  Seen
<1>1. CASE openedBar' = openedBar
  BY <1>1, Unseen
<1>2. CASE openedBar' # openedBar
  BY <1>2, Zenon DEF Seen, NS!Next
<1> QED BY <1>1, <1>2

(* A step moves its own thread, and only add_to_open_file_table leads to a    *)
(* handle that is not filled in.                                              *)
LEMMA StepMoves ==
  ASSUME IInv, NEW t \in Threads, Step(t)
  PROVE  Moves(t) /\ (pc'[t] = "o_entry" => O_Add(t))
<1>1. pc \in [Threads -> StepPCs] /\ loc \in [Threads -> LocType]
  BY DEF IInv, TypeOK
<1>2. ASSUME NEW to, Goto(t, to)
      PROVE  (\A u \in Threads \ {t} : pc'[u] = pc[u]) /\ pc'[t] = to
  BY <1>1, <1>2 DEF Goto
<1>3. ASSUME NEW l, loc' = [loc EXCEPT ![t] = l] \/ UNCHANGED loc
      PROVE  \A u \in Threads \ {t} : loc'[u] = loc[u]
  BY <1>1, <1>3
<1>4. ASSUME Return(t)
      PROVE  Moves(t) /\ pc'[t] = "idle"
  BY <1>1, <1>4 DEF Return, Moves
<1>5. ASSUME NEW why, Dies(why)
      PROVE  Moves(t) /\ pc'[t] = pc[t]
  BY <1>5 DEF Dies, Moves
<1>6. CASE O_Lookup(t)
  BY <1>2, <1>3, <1>4, <1>6 DEF O_Lookup, Moves
<1>7. CASE O_Create(t)
  BY <1>2, <1>3, <1>4, <1>7 DEF O_Create, Moves
<1>8. CASE O_Inode(t)
  BY <1>2, <1>3, <1>4, <1>5, <1>8 DEF O_Inode, Moves
<1>9. CASE O_Trunc(t)
  BY <1>2, <1>3, <1>9 DEF O_Trunc, Moves
<1>10. CASE O_Add(t)
  BY <1>2, <1>3, <1>4, <1>10 DEF O_Add, Moves
<1>11. CASE O_Entry(t)
  BY <1>2, <1>3, <1>4, <1>11 DEF O_Entry, Moves
<1>12. CASE Y_Lookup(t) \/ K_Lookup(t)
  BY <1>2, <1>3, <1>4, <1>12 DEF Y_Lookup, K_Lookup, Lookup, Moves
<1>13. CASE Y_Create(t)
  BY <1>2, <1>3, <1>4, <1>13 DEF Y_Create, Moves
<1>14. CASE Y_Block(t) \/ K_Inode(t) \/ U_Delete(t) \/ C_Remove(t)
  BY <1>4, <1>14 DEF Y_Block, K_Inode, U_Delete, C_Remove
<1>15. CASE U_Lookup(t)
  BY <1>2, <1>3, <1>4, <1>15 DEF U_Lookup, Moves
<1>16. CASE U_Open(t)
  BY <1>2, <1>3, <1>4, <1>16 DEF U_Open, Moves
<1>17. CASE U_Inode(t)
  BY <1>2, <1>3, <1>4, <1>17 DEF U_Inode, Moves
<1>18. CASE W_Get(t)
  BY <1>2, <1>3, <1>4, <1>18 DEF W_Get, Moves
<1>19. CASE W_Entry(t) \/ R_Entry(t)
  BY <1>2, <1>3, <1>19 DEF W_Entry, R_Entry, LockEntry, Moves
<1>20. WriteReturns(t) => Moves(t) /\ pc'[t] # "o_entry"
  BY <1>2, <1>3, <1>4 DEF WriteReturns, Moves
<1>21. CASE W_Inode(t)
  BY <1>2, <1>3, <1>20, <1>21 DEF W_Inode, Moves
<1>22. CASE W_Copy(t)
  BY <1>5, <1>20, <1>22 DEF W_Copy
<1>23. CASE R_Copy(t)
  BY <1>4, <1>5, <1>23 DEF R_Copy
<1> QED BY <1>6, <1>7, <1>8, <1>9, <1>10, <1>11, <1>12, <1>13, <1>14, <1>15, <1>16, <1>17,
           <1>18, <1>19, <1>21, <1>22, <1>23 DEF Step

(* Steps that change no table.                                                *)
LEMMA LockSteps ==
  ASSUME IInv, NEW t \in Threads, Step(t),
         \/ O_Lookup(t) \/ O_Inode(t) \/ Y_Lookup(t) \/ K_Lookup(t) \/ U_Lookup(t)
         \/ W_Get(t) \/ W_Entry(t) \/ R_Entry(t) \/ W_Inode(t)
  PROVE  Seen
<1>1. UNCHANGED <<inodes, dir, blocks, handles>> /\ pc[t] \notin {"o_entry", "o_add"}
  BY DEF O_Lookup, O_Inode, Y_Lookup, K_Lookup, Lookup, U_Lookup, W_Get, W_Entry, R_Entry,
         LockEntry, W_Inode
<1>2. UNCHANGED <<inode_table, dir, fs_data, open_file_table, free_open_file_entries>>
  BY <1>1 DEF inodes, blocks, handles
<1>3. Moves(t) /\ pc'[t] # "o_entry"
  BY <1>1, StepMoves DEF O_Add
<1>4. nsBar' = nsBar
  BY <1>2, NsKept DEF SameSeen
<1>5. openedBar' = openedBar
  BY <1>1, <1>2, <1>3, OpenedKept
<1> QED BY <1>4, <1>5, Unseen

\* add_to_open_file_table: the handle is taken, and not open to anyone yet
LEMMA O_AddSeen ==
  ASSUME IInv, NEW t \in Threads, Step(t), O_Add(t)
  PROVE  Seen
<1>1. /\ pc[t] = "o_add" /\ Moves(t)
      /\ UNCHANGED <<inode_table, dir, fs_data, open_file_table>>
  BY StepMoves DEF O_Add, inodes, blocks
<1>2. nsBar' = nsBar
  BY <1>1, NsKept DEF SameSeen
<1>3. CASE Return(t) /\ UNCHANGED free_open_file_entries
  <2>1. pc'[t] # "o_entry"
    BY <1>3 DEF Return, IInv, TypeOK
  <2>2. openedBar' = openedBar
    BY <1>1, <1>3, <2>1, OpenedKept
  <2> QED BY <1>2, <2>2, Unseen
<1>4. ASSUME NEW fd, fd = First(free_open_file_entries), free_open_file_entries # {},
             free_open_file_entries' = free_open_file_entries \ {fd},
             loc' = [loc EXCEPT ![t].fd = fd], Goto(t, "o_entry")
      PROVE  Seen
  <2>1. fd \in free_open_file_entries /\ fd \in Handles
    BY <1>4, FirstFree DEF IInv, TypeOK
  <2>2. Now(t, "o_entry", loc[t].call, loc[t].name, fd, loc[t].inum, loc[t].offset)
    BY <1>4, <2>1, SetFd DEF IInv, Goto, StepPCs
  <2>3. pc'[t] = "o_entry" /\ loc'[t].fd = fd
    BY <2>2 DEF Now
  <2>4. \A h : Pending(h)' <=> Pending(h) \/ h = fd
    BY <1>1, <2>3 DEF Pending, Moves
  <2>5. openedBar' = openedBar
    BY <1>1, <1>4, <2>1, <2>4 DEF openedBar, IsOpenHandle
  <2> QED BY <1>2, <2>5, Unseen
<1> QED BY <1>3, <1>4 DEF O_Add

\* tfs_open has its handle: the operation Open
LEMMA O_EntrySeen ==
  ASSUME IInv, NEW t \in Threads, Step(t), O_Entry(t)
  PROVE  Seen
<1> DEFINE entry == [of_inumber |-> loc[t].inum, of_offset |-> loc[t].offset]
<1>1. /\ pc[t] = "o_entry" /\ Moves(t) /\ pc'[t] # "o_entry"
      /\ open_file_table' = [open_file_table EXCEPT ![loc[t].fd] = entry]
      /\ UNCHANGED <<inode_table, dir, fs_data, free_open_file_entries>>
  BY StepMoves DEF O_Entry, O_Add, inodes, blocks
<1>2. nsBar' = nsBar
  BY <1>1, NsKept DEF SameSeen
<1>3. PICK h \in Handles : h = loc[t].fd /\ h \notin free_open_file_entries
  <2>1. /\ loc[t].fd \in Handles \cup {NoHandle} /\ loc[t].fd # NoHandle
        /\ loc[t].fd \notin free_open_file_entries
    BY <1>1 DEF IInv, LocType, Local, InCall, KnowsFile, FdPCs
  <2> QED BY <2>1
<1>4. PICK n, i : n = loc[t].name /\ i = loc[t].inum
  OBVIOUS
<1>5. NamedAs(n, i) /\ ~IsLink(i) /\ i \in Taken /\ i \in Inodes
  <2>1. NamedAs(n, i) /\ ~IsLink(i)
    BY <1>1, <1>4 DEF IInv, Local, KnowsFile, FoundPCs
  <2> QED BY <2>1, NamedTaken
<1>6. n \in FileNames
  <2>1. PICK s \in Slots : dir[s].d_name = n
    BY <1>5 DEF NamedAs, EntriesOf
  <2>2. n \in FileNames \cup {NoName}
    BY <2>1 DEF IInv, TypeOK
  <2>3. n # NoName
    <3>1. Opens(loc[t].call) /\ n \in LooksUp(loc[t].call.name)
      BY <1>1, <1>4 DEF IInv, Local, InCall, OpenPCs
    <3>2. loc[t].call \in Calls
      <4>1. loc[t].call \in Calls \cup {NoCall}
        BY DEF IInv, LocType
      <4> QED BY <3>1, <4>1 DEF Opens, NoCall
    <3>3. n \in Names
      BY <3>1, <3>2, CallFacts DEF LooksUp, CallsOf, Opens
    <3> QED BY <3>3, NamesAssumption
  <2> QED BY <2>2, <2>3
<1>7. nsBar[n] = NS!File(i)
  <2>1. find_in_dir(n) = i
    BY <1>5, OneEntry DEF IInv, TablesInv
  <2> QED BY <1>5, <1>6, <2>1, EntryValue DEF nsBar
<1>8. Pending(h) /\ ~Pending(h)'
  <2>1. Pending(h)
    BY <1>1, <1>3 DEF Pending
  <2>2. ASSUME NEW u \in Threads, u # t, pc[u] = "o_entry", loc[u].fd = h
        PROVE  FALSE
    <3>1. loc[u].call.op \in {"read", "write"}
      BY <1>3, <2>2, RootIndex DEF IInv, KeptApart, NoHandle
    <3>2. Opens(loc[u].call)
      BY <2>2 DEF IInv, Local, InCall, OpenPCs
    <3> QED BY <3>1, <3>2 DEF Opens
  <2>3. ~Pending(h)'
    BY <1>1, <2>2 DEF Pending, Moves
  <2> QED BY <2>1, <2>3
<1>9. \A k \in Handles : k # h => (Pending(k)' <=> Pending(k))
  BY <1>1, <1>3 DEF Pending, Moves
<1>10. openedBar[h] = Closed
  BY <1>8 DEF openedBar
<1>11. /\ open_file_table'[h].of_inumber = i
       /\ \A k \in Handles : k # h => open_file_table'[k] = open_file_table[k]
  <2>1. open_file_table \in [Handles -> HandleType]
    BY DEF IInv, TypeOK, HandleType
  <2>2. entry.of_inumber = i
    BY <1>4
  <2> HIDE DEF entry
  <2> QED BY <1>1, <1>3, <2>1, <2>2
<1>12. openedBar' = [openedBar EXCEPT ![h] = i]
  <2>1. openedBar'[h] = i
    BY <1>1, <1>3, <1>8, <1>11 DEF openedBar, IsOpenHandle
  <2>2. ASSUME NEW k \in Handles, k # h
        PROVE  openedBar'[k] = openedBar[k]
    BY <1>1, <1>9, <1>11, <2>2 DEF openedBar, IsOpenHandle
  <2>3. openedBar' = [k \in Handles |-> openedBar'[k]]
    BY DEF openedBar
  <2>4. openedBar = [k \in Handles |-> openedBar[k]]
    BY DEF openedBar
  <2> HIDE DEF entry
  <2> QED BY <1>3, <2>1, <2>2, <2>3, <2>4
<1>13. NS!Open(n, h)
  BY <1>7, <1>10, <1>12, EntryKinds DEF NS!Open
<1> QED BY <1>2, <1>3, <1>6, <1>13, HandleOperation

\* remove_from_open_file_table: the operation Close
LEMMA C_RemoveSeen ==
  ASSUME IInv, NEW t \in Threads, Step(t), C_Remove(t)
  PROVE  Seen
<1>1. /\ pc[t] = "c_remove" /\ Moves(t) /\ pc'[t] # "o_entry"
      /\ free_open_file_entries' = free_open_file_entries \cup {loc[t].fd}
      /\ UNCHANGED <<inode_table, dir, fs_data, open_file_table>>
  BY StepMoves DEF C_Remove, O_Add, inodes, blocks
<1>2. nsBar' = nsBar
  BY <1>1, NsKept DEF SameSeen
<1>3. PICK h \in Handles : /\ h = loc[t].fd /\ IsOpenHandle(h) /\ ~Pending(h)
                           /\ open_file_table[h].of_inumber \in Taken
  <2>1. pc[t] \in FdPCs \ {"o_entry"}
    BY <1>1 DEF FdPCs
  <2> QED BY <2>1, HandleUsed
<1>4. openedBar[h] # Closed
  BY <1>3, NamesAssumption DEF openedBar, Taken
<1>5. \A k : Pending(k)' <=> Pending(k)
  BY <1>1 DEF Pending, Moves
<1>6. openedBar' = [openedBar EXCEPT ![h] = Closed]
  BY <1>1, <1>3, <1>5 DEF openedBar, IsOpenHandle
<1> QED BY <1>2, <1>3, <1>4, <1>6, HandleOperation DEF NS!Close

\* a truncation, a read and a write show in the contents of files alone
LEMMA O_TruncSeen ==
  ASSUME IInv, NEW t \in Threads, Step(t), O_Trunc(t)
  PROVE  Seen
<1>1. /\ pc[t] = "o_trunc" /\ Moves(t) /\ pc'[t] # "o_entry"
      /\ inode_table' = [inode_table EXCEPT ![loc[t].inum].i_size = 0]
      /\ UNCHANGED <<dir, fs_data, open_file_table, free_open_file_entries>>
  BY StepMoves DEF O_Trunc, O_Add, handles
<1>2. \A j \in Inodes : /\ inode_table'[j].i_node_type = inode_table[j].i_node_type
                        /\ inode_table'[j].i_data_block = inode_table[j].i_data_block
  <2>1. PICK i \in Inodes : i = loc[t].inum
    BY <1>1, NamedTaken DEF IInv, Local, KnowsFile, FoundPCs
  <2>2. inode_table \in [Inodes -> InodeType] /\ inode_table[i] \in InodeType
    BY DEF IInv, TypeOK, InodeType
  <2> DEFINE old == inode_table[i]
             new == [i_node_type |-> old.i_node_type, i_links_count |-> old.i_links_count,
                     i_size |-> 0, i_data_block |-> old.i_data_block]
  <2>3. /\ [old EXCEPT !.i_size = 0] = new
        /\ new.i_node_type = old.i_node_type /\ new.i_data_block = old.i_data_block
    BY <2>2 DEF InodeType
  <2>4. inode_table' = [inode_table EXCEPT ![i] = new]
    BY <1>1, <2>1, <2>3
  <2> HIDE DEF new
  <2> QED BY <2>2, <2>3, <2>4
<1>3. SameSeen
  BY <1>1, <1>2 DEF SameSeen, Taken
<1>4. nsBar' = nsBar /\ openedBar' = openedBar
  BY <1>1, <1>3, NsKept, OpenedKept
<1> QED BY <1>4, Unseen

LEMMA R_CopySeen ==
  ASSUME IInv, NEW t \in Threads, Step(t), R_Copy(t)
  PROVE  Seen
<1>1. /\ pc[t] = "r_copy" /\ Moves(t) /\ pc'[t] # "o_entry"
      /\ UNCHANGED <<inode_table, dir, fs_data, free_open_file_entries>>
  BY StepMoves DEF R_Copy, O_Add, inodes, blocks
<1>2. nsBar' = nsBar
  BY <1>1, NsKept DEF SameSeen
<1>3. \A h \in Handles : open_file_table'[h].of_inumber = open_file_table[h].of_inumber
  <2>1. CASE UNCHANGED open_file_table
    BY <2>1
  <2>2. ASSUME NEW n, open_file_table' = [open_file_table EXCEPT ![loc[t].fd].of_offset = @ + n]
        PROVE  \A h \in Handles : open_file_table'[h].of_inumber = open_file_table[h].of_inumber
    <3>1. open_file_table \in [Handles -> HandleType]
      BY DEF IInv, TypeOK, HandleType
    <3>2. PICK k \in Handles : k = loc[t].fd
      BY <1>1, HandleUsed DEF FdPCs
    <3>3. open_file_table[k] \in HandleType
      BY <3>1
    <3>4. PICK o : o = open_file_table[k].of_offset + n
      OBVIOUS
    <3> DEFINE new == [of_inumber |-> open_file_table[k].of_inumber, of_offset |-> o]
    <3>5. /\ [open_file_table[k] EXCEPT !.of_offset = o] = new
          /\ new.of_inumber = open_file_table[k].of_inumber
      BY <3>3 DEF HandleType
    <3>6. open_file_table' = [open_file_table EXCEPT ![k] = new]
      BY <2>2, <3>2, <3>4, <3>5
    <3> HIDE DEF new
    <3> QED BY <3>1, <3>5, <3>6
  <2> QED BY <2>1, <2>2 DEF R_Copy, Dies, handles
<1>4. openedBar' = openedBar
  BY <1>1, <1>3, OpenedKept
<1> QED BY <1>2, <1>4, Unseen

LEMMA W_CopySeen ==
  ASSUME IInv, NEW t \in Threads, Step(t), W_Copy(t)
  PROVE  Seen
<1> DEFINE h == loc[t].fd
           offset == open_file_table[h].of_offset
           i == open_file_table[h].of_inumber
           empty == inode_table[i].i_size = 0
           bnum == IF empty THEN First(free_blocks) ELSE inode_table[i].i_data_block
           n == ToWrite(offset, loc[t].call.len)
<1>1. /\ pc[t] = "w_copy" /\ Moves(t) /\ pc'[t] # "o_entry"
      /\ UNCHANGED <<freeinode_ts, dir, free_open_file_entries>>
  BY StepMoves DEF W_Copy, O_Add
<1>2. CASE UNCHANGED <<inode_table, fs_data, open_file_table>>
  <2>1. nsBar' = nsBar
    BY <1>1, <1>2, NsKept DEF SameSeen
  <2>2. openedBar' = openedBar
    BY <1>1, <1>2, OpenedKept
  <2> QED BY <2>1, <2>2, Unseen
<1>3. CASE /\ offset <= BLOCK_SIZE /\ (empty => free_blocks # {})
           /\ WriteBlock(h, i, bnum, offset, n)
  <2>1. h \in Handles /\ i \in Taken /\ i \in Inodes /\ ~IsLink(i) /\ TypeOK
    BY <1>1, HandleUsed DEF FdPCs, Taken, IInv
  <2>2. offset + n \in 0..BLOCK_SIZE
    BY <1>1, <1>3, WriteInBlock
  <2>3. offset + n \in 0..DATA_BLOCKS * BLOCK_SIZE
    BY <2>2, Arena, SizesAssumption
  <2>4. \/ bnum \in free_blocks
        \/ i \in Owners /\ bnum = inode_table[i].i_data_block
    <3>1. empty => bnum \in free_blocks
      BY <1>3, <2>1, FirstFree
    <3>2. ~empty => i \in Owners
      <4>1. inode_table[i].i_size \in 0..BLOCK_SIZE
        BY <2>1 DEF TypeOK
      <4>2. ~empty => inode_table[i].i_size > 0
        BY <4>1, SizesAssumption
      <4> QED BY <2>1, <4>2, Owned
    <3> QED BY <3>1, <3>2
  <2>5. bnum \in Blocks
    BY <2>1, <2>4, Owned DEF TypeOK
  <2>6. /\ fs_data' = [fs_data EXCEPT ![bnum] = Data]
        /\ open_file_table' = [open_file_table EXCEPT ![h].of_offset = offset + n]
        /\ inode_table' = [inode_table EXCEPT ![i].i_data_block = bnum,
                              ![i].i_size = IF offset + n > @ THEN offset + n ELSE @]
    BY <1>3 DEF WriteBlock
  <2>7. \A k \in Handles : open_file_table'[k].of_inumber = open_file_table[k].of_inumber
    BY <2>1, <2>3, <2>6, OffsetMoved
  <2>8. openedBar' = openedBar
    BY <1>1, <2>7, OpenedKept
  <2> HIDE DEF bnum, n, offset, i
  <2>9. /\ \A j \in Inodes : j # i => inode_table'[j] = inode_table[j]
        /\ inode_table'[i].i_node_type = inode_table[i].i_node_type
    BY <2>1, <2>2, <2>5, <2>6, WriteInode
  <2>10. SameSeen
    <3> SUFFICES ASSUME NEW j \in Taken, Entries(j) # {}
                 PROVE  /\ inode_table'[j].i_node_type = inode_table[j].i_node_type
                        /\ IsLink(j) =>
                             /\ inode_table'[j].i_data_block = inode_table[j].i_data_block
                             /\ fs_data'[inode_table[j].i_data_block] =
                                   fs_data[inode_table[j].i_data_block]
      BY DEF SameSeen
    <3>1. inode_table'[j].i_node_type = inode_table[j].i_node_type
      BY <2>9 DEF Taken
    <3>2. ASSUME IsLink(j)
          PROVE  /\ inode_table'[j].i_data_block = inode_table[j].i_data_block
                 /\ fs_data'[inode_table[j].i_data_block] = fs_data[inode_table[j].i_data_block]
      <4>1. j # i /\ j \in Owners
        BY <2>1, <3>2, LinkOwns
      <4>2. inode_table[j].i_data_block # bnum /\ inode_table[j].i_data_block \in Blocks
        BY <2>4, <4>1, Owned
      <4>3. fs_data \in [Blocks -> Names \cup {Data}]
        BY <2>1 DEF TypeOK
      <4>4. fs_data'[inode_table[j].i_data_block] = fs_data[inode_table[j].i_data_block]
        BY <2>6, <4>2, <4>3
      <4> QED BY <2>9, <4>1, <4>4 DEF Taken
    <3> QED BY <3>1, <3>2
  <2>11. nsBar' = nsBar
    BY <1>1, <2>10, NsKept
  <2> QED BY <2>8, <2>11, Unseen
<1> QED BY <1>2, <1>3 DEF W_Copy, Dies, inodes, blocks, handles

-----------------------------------------------------------------------------
(* Steps under the root's lock.  The name is taken away before the link count *)
(* goes down and the inode is given back, which no caller sees.               *)

LEMMA CountField ==
  ASSUME TypeOK, NEW i \in Inodes, NEW c,
         inode_table' = [inode_table EXCEPT ![i].i_links_count = c]
  PROVE  \A j \in Inodes : /\ inode_table'[j].i_node_type = inode_table[j].i_node_type
                           /\ inode_table'[j].i_data_block = inode_table[j].i_data_block
<1> DEFINE old == inode_table[i]
           new == [i_node_type |-> old.i_node_type, i_links_count |-> c,
                   i_size |-> old.i_size, i_data_block |-> old.i_data_block]
<1>1. inode_table \in [Inodes -> InodeType] /\ old \in InodeType
  BY DEF TypeOK, InodeType
<1>2. /\ [old EXCEPT !.i_links_count = c] = new
      /\ new.i_node_type = old.i_node_type /\ new.i_data_block = old.i_data_block
  BY <1>1 DEF InodeType
<1>3. inode_table' = [inode_table EXCEPT ![i] = new]
  BY <1>2
<1> HIDE DEF new
<1> QED BY <1>1, <1>2, <1>3

LEMMA U_InodeSeen ==
  ASSUME IInv, NEW t \in Threads, Step(t), U_Inode(t)
  PROVE  Seen
<1>1. /\ pc[t] = "u_inode" /\ Moves(t) /\ pc'[t] # "o_entry"
      /\ UNCHANGED <<dir, fs_data, open_file_table, free_open_file_entries>>
  BY StepMoves DEF U_Inode, O_Add, handles, blocks
<1>2. PICK i \in Inodes : i = loc[t].inum
  BY <1>1 DEF IInv, Local, KnowsDir, FluxPCs, Taken
<1>3. \A j \in Inodes : /\ inode_table'[j].i_node_type = inode_table[j].i_node_type
                        /\ inode_table'[j].i_data_block = inode_table[j].i_data_block
  <2>1. CASE UNCHANGED inode_table
    BY <2>1
  <2>2. CASE inode_table' = [inode_table EXCEPT ![i].i_links_count = @ - 1]
    <3>1. PICK c : c = inode_table[i].i_links_count - 1
      OBVIOUS
    <3>2. inode_table' = [inode_table EXCEPT ![i].i_links_count = c]
      BY <2>2, <3>1
    <3> QED BY <3>2, CountField DEF IInv
  <2> QED BY <1>2, <2>1, <2>2 DEF U_Inode
<1>4. SameSeen
  BY <1>1, <1>3 DEF SameSeen, Taken
<1>5. nsBar' = nsBar /\ openedBar' = openedBar
  BY <1>1, <1>4, NsKept, OpenedKept
<1> QED BY <1>5, Unseen

LEMMA U_DeleteSeen ==
  ASSUME IInv, NEW t \in Threads, Step(t), U_Delete(t)
  PROVE  Seen
<1>1. /\ pc[t] = "u_delete" /\ Moves(t) /\ pc'[t] # "o_entry"
      /\ UNCHANGED <<inode_table, dir, fs_data, open_file_table, free_open_file_entries>>
  BY StepMoves DEF U_Delete, O_Add, handles
<1>2. nsBar' = nsBar /\ openedBar' = openedBar
  BY <1>1, NsKept, OpenedKept DEF SameSeen
<1> QED BY <1>2, Unseen

\* the new inode of a link has no name yet
LEMMA Y_CreateSeen ==
  ASSUME IInv, NEW t \in Threads, Step(t), Y_Create(t)
  PROVE  Seen
<1>1. /\ pc[t] = "y_create" /\ Moves(t) /\ pc'[t] # "o_entry"
      /\ UNCHANGED <<dir, fs_data, open_file_table, free_open_file_entries>>
  BY StepMoves DEF Y_Create, O_Add, handles, blocks
<1>2. \A j \in Taken : inode_table'[j] = inode_table[j]
  <2>1. CASE UNCHANGED inode_table
    BY <2>1
  <2>2. ASSUME NEW k, k = First(freeinode_ts), freeinode_ts # {},
               inode_table' = [inode_table EXCEPT ![k] = NewInode("T_LINK")]
        PROVE  \A j \in Taken : inode_table'[j] = inode_table[j]
    BY <2>2, InodeReset
  <2> QED BY <2>1, <2>2 DEF Y_Create, inodes
<1>3. SameSeen
  BY <1>1, <1>2 DEF SameSeen
<1>4. nsBar' = nsBar /\ openedBar' = openedBar
  BY <1>1, <1>3, NsKept, OpenedKept
<1> QED BY <1>4, Unseen

(* What a thread has looked up is a name the directory holds.                 *)
LEMMA EnteredName ==
  ASSUME IInv, NEW n \in Names, EntriesOf(n) # {}
  PROVE  n \in FileNames /\ nsBar[n] # NS!NoEntry
<1>1. PICK s \in Slots : Entered(n, s)
  BY DEF EntriesOf, Entered
<1>2. n \in FileNames
  <2>1. dir[s].d_name \in FileNames \cup {NoName}
    BY DEF IInv, TypeOK
  <2> QED BY <1>1, <2>1, NamesAssumption DEF Entered
<1>3. PICK i : i = find_in_dir(n)
  OBVIOUS
<1>4. i # -1
  BY <1>1, <1>3, FindIs DEF Entered
<1>5. i \in Inodes
  BY <1>3, <1>4, FoundIn DEF Taken
<1>6. EntryFor(i) # NS!NoEntry
  BY <1>5, EntryValue, EntryKinds
<1> QED BY <1>2, <1>3, <1>6 DEF nsBar

\* the names in the call of a thread
LEMMA CallNames ==
  ASSUME IInv, NEW t \in Threads,
         loc[t].call.op \in {"open", "copy", "link", "sym_link", "unlink"}
  PROVE  /\ loc[t].call.name \in Names
         /\ loc[t].call.op \in {"link", "sym_link"} => loc[t].call.target \in Names
<1>1. loc[t].call \in Calls \cup {NoCall}
  BY DEF IInv, LocType
<1>2. loc[t].call \in Calls
  BY <1>1 DEF NoCall
<1> QED BY <1>2, CallFacts

\* inode_create and add_dir_entry: the operation Create
LEMMA O_CreateSeen ==
  ASSUME IInv, IInv', NEW t \in Threads, Step(t), O_Create(t)
  PROVE  Seen
<1>1. /\ pc[t] = "o_create" /\ Moves(t) /\ pc'[t] # "o_entry"
      /\ UNCHANGED <<fs_data, open_file_table, free_open_file_entries>>
  BY StepMoves DEF O_Create, O_Add, handles, blocks
<1>2. openedBar' = openedBar
  BY <1>1, OpenedKept
<1>3. CASE UNCHANGED <<inode_table, dir>>
  <2>1. nsBar' = nsBar
    BY <1>1, <1>3, NsKept DEF SameSeen
  <2> QED BY <1>2, <2>1, Unseen
<1>4. ASSUME NEW k, k = First(freeinode_ts), freeinode_ts # {},
             inode_table' = [inode_table EXCEPT ![k] = NewInode("T_FILE")],
             \/ RoomFor(loc[t].name) /\ add_dir_entry(loc[t].name, k)
             \/ UNCHANGED dir
      PROVE  Seen
  <2>1. /\ k \in Inodes /\ k \notin Taken /\ Entries(k) = {}
        /\ inode_table'[k] = NewInode("T_FILE")
        /\ \A j \in Taken : inode_table'[j] = inode_table[j]
    BY <1>4, InodeReset
  <2>2. SameSeen
    BY <1>1, <2>1 DEF SameSeen
  <2>3. CASE UNCHANGED dir
    <3>1. nsBar' = nsBar
      BY <2>2, <2>3, NsKept
    <3> QED BY <1>2, <3>1, Unseen
  <2>4. CASE RoomFor(loc[t].name) /\ add_dir_entry(loc[t].name, k)
    <3>1. PICK name : name = loc[t].name
      OBVIOUS
    <3>2. name \in FileNames /\ EntriesOf(name) = {} /\ TypeOK
      BY <1>1, <2>4, <3>1 DEF RoomFor, IInv, Local, KnowsDir
    <3>3. PICK s \in Slots : /\ dir[s].d_inumber = -1
                             /\ dir'[s].d_inumber = k /\ dir'[s].d_name = name
                             /\ \A r \in Slots \ {s} : dir'[r] = dir[r]
      <4>1. RoomFor(name) /\ add_dir_entry(name, k)
        BY <2>4, <3>1
      <4> QED BY <2>1, <3>2, <4>1, EntryAdded
    <3>4. nsBar[name] = NS!NoEntry /\ nsBar' = [nsBar EXCEPT ![name] = EntryFor(k)']
      BY <2>1, <2>2, <3>2, <3>3, NsAdded
    <3>5. EntryFor(k)' = NS!File(k)
      <4>1. ~IsLink(k)'
        BY <2>1 DEF IsLink, NewInode
      <4> QED BY <2>1, <4>1, EntryValueNext
    <3>6. ~NS!InUse(k)
      <4>1. ASSUME NEW n \in FileNames, nsBar[n] = NS!File(k)
            PROVE  FALSE
        <5>1. PICK i : i = find_in_dir(n)
          OBVIOUS
        <5>2. EntryFor(i) = NS!File(k)
          BY <4>1, <5>1 DEF nsBar
        <5>3. i # -1
          BY <5>2, EntryValue, EntryKinds
        <5>4. i \in Taken /\ i \in Inodes
          BY <5>1, <5>3, FoundIn DEF Taken
        <5>5. i = k
          BY <5>2, <5>4, EntryValue, EntryKinds
        <5> QED BY <2>1, <5>4, <5>5
      <4>2. ASSUME NEW h \in Handles, openedBar[h] = k
            PROVE  FALSE
        <5>1. IsOpenHandle(h) /\ ~Pending(h) /\ open_file_table[h].of_inumber = k
          BY <2>1, <4>2, NamesAssumption DEF openedBar
        <5> QED BY <2>1, <5>1, OpenHaveName
      <4> QED BY <4>1, <4>2 DEF NS!InUse
    <3>7. NS!Create(name, k)
      BY <3>4, <3>5, <3>6 DEF NS!Create
    <3> QED BY <1>2, <2>1, <3>2, <3>7, DirectoryOperation
  <2> QED BY <1>4, <2>3, <2>4
<1> QED BY <1>3, <1>4 DEF O_Create, inodes

\* tfs_link has locked the target's inode: the operation Link
LEMMA K_InodeSeen ==
  ASSUME IInv, IInv', NEW t \in Threads, Step(t), K_Inode(t)
  PROVE  Seen
<1>1. /\ pc[t] = "k_inode" /\ Moves(t) /\ pc'[t] # "o_entry"
      /\ UNCHANGED <<fs_data, open_file_table, free_open_file_entries>>
  BY StepMoves DEF K_Inode, O_Add, handles, blocks
<1>2. openedBar' = openedBar
  BY <1>1, OpenedKept
<1>3. PICK name, target, k : name = loc[t].name /\ target = loc[t].call.target /\ k = loc[t].inum
  OBVIOUS
<1>4. TypeOK /\ EntriesOf(name) = {} /\ NamedAs(target, k) /\ target \in Names
  <2>1. loc[t].call.op = "link"
    BY <1>1 DEF IInv, Local, InCall
  <2> QED BY <1>1, <1>3, <2>1, CallNames DEF IInv, Local, KnowsDir
<1>5. k \in Taken /\ k \in Inodes
  BY <1>4, NamedTaken
<1>6. CASE UNCHANGED <<inode_table, dir>>
  <2>1. nsBar' = nsBar
    BY <1>1, <1>6, NsKept DEF SameSeen
  <2> QED BY <1>2, <2>1, Unseen
<1>7. CASE /\ ~IsLink(k) /\ RoomFor(name) /\ add_dir_entry(name, k)
           /\ inode_table' = [inode_table EXCEPT ![k].i_links_count = @ + 1]
  <2>1. PICK c : c = inode_table[k].i_links_count + 1
    OBVIOUS
  <2>2. inode_table' = [inode_table EXCEPT ![k].i_links_count = c]
    BY <1>7, <2>1
  <2>3. \A j \in Inodes : /\ inode_table'[j].i_node_type = inode_table[j].i_node_type
                          /\ inode_table'[j].i_data_block = inode_table[j].i_data_block
    BY <1>4, <1>5, <2>2, CountField
  <2>4. SameSeen
    BY <1>1, <2>3 DEF SameSeen, Taken
  <2>5. PICK s \in Slots : /\ dir[s].d_inumber = -1
                           /\ dir'[s].d_inumber = k /\ dir'[s].d_name = name
                           /\ \A r \in Slots \ {s} : dir'[r] = dir[r]
    BY <1>4, <1>5, <1>7, EntryAdded
  <2>6. name \in FileNames
    BY <1>7 DEF RoomFor
  <2>7. nsBar[name] = NS!NoEntry /\ nsBar' = [nsBar EXCEPT ![name] = EntryFor(k)']
    BY <1>4, <1>5, <2>4, <2>5, <2>6, NsAdded
  <2>8. EntryFor(k)' = NS!File(k)
    <3>1. ~IsLink(k)'
      BY <1>5, <1>7, <2>3 DEF IsLink
    <3> QED BY <1>5, <3>1, EntryValueNext
  <2>9. target \in FileNames
    BY <1>4, EnteredName DEF NamedAs
  <2>10. nsBar[target] = NS!File(k)
    <3>1. find_in_dir(target) = k
      BY <1>4, OneEntry DEF IInv, TablesInv
    <3> QED BY <1>5, <1>7, <2>9, <3>1, EntryValue DEF nsBar
  <2>11. NS!Link(target, name)
    BY <2>7, <2>8, <2>10, EntryKinds DEF NS!Link
  <2> QED BY <1>2, <2>6, <2>9, <2>11, DirectoryOperation
<1> QED BY <1>3, <1>6, <1>7 DEF K_Inode, IsLink

\* tfs_sym_link has filled in the link's block: the operation SymLink
LEMMA Y_BlockSeen ==
  ASSUME IInv, IInv', NEW t \in Threads, Step(t), Y_Block(t)
  PROVE  Seen
<1>1. /\ pc[t] = "y_block" /\ Moves(t) /\ pc'[t] # "o_entry"
      /\ UNCHANGED <<open_file_table, free_open_file_entries>>
  BY StepMoves DEF Y_Block, O_Add, handles
<1>2. openedBar' = openedBar
  BY <1>1, OpenedKept
<1>3. PICK name, target, k : name = loc[t].name /\ target = loc[t].call.target /\ k = loc[t].inum
  OBVIOUS
<1>4. /\ TypeOK /\ EntriesOf(name) = {} /\ EntriesOf(target) # {} /\ target \in Names
      /\ k \in Taken /\ inode_table[k] = NewInode("T_LINK")
  <2>1. loc[t].call.op = "sym_link"
    BY <1>1 DEF IInv, Local, InCall
  <2> QED BY <1>1, <1>3, <2>1, CallNames DEF IInv, Local, KnowsDir, FluxPCs
<1>5. k \in Inodes /\ Entries(k) = {}
  <2>1. inode_table[loc[t].inum].i_links_count = 1 /\ pc[t] \in FluxPCs
    BY <1>1, <1>3, <1>4 DEF NewInode, FluxPCs
  <2> QED BY <1>3, <1>4, <2>1, FluxUnnamed DEF Taken
<1>6. CASE UNCHANGED <<inode_table, dir, fs_data>>
  <2>1. nsBar' = nsBar
    BY <1>6, NsKept DEF SameSeen
  <2> QED BY <1>2, <2>1, Unseen
<1>7. ASSUME NEW b, b = First(free_blocks), free_blocks # {},
             fs_data' = [fs_data EXCEPT ![b] = target],
             inode_table' = [inode_table EXCEPT ![k].i_data_block = b],
             \/ RoomFor(name) /\ add_dir_entry(name, k)
             \/ UNCHANGED dir
      PROVE  Seen
  <2>1. /\ b \in free_blocks /\ b \in Blocks
        /\ inode_table \in [Inodes -> InodeType]
        /\ fs_data \in [Blocks -> Names \cup {Data}]
    BY <1>4, <1>7, FirstFree DEF TypeOK, InodeType
  <2> DEFINE new == [i_node_type |-> "T_LINK", i_links_count |-> 1, i_size |-> 0,
                     i_data_block |-> b]
  <2>2. [inode_table[k] EXCEPT !.i_data_block = b] = new
    BY <1>4 DEF NewInode
  <2>3. new.i_node_type = "T_LINK" /\ new.i_data_block = b
    OBVIOUS
  <2>4. inode_table' = [inode_table EXCEPT ![k] = new]
    BY <1>7, <2>2
  <2> HIDE DEF new
  <2>5. /\ inode_table'[k].i_node_type = "T_LINK" /\ inode_table'[k].i_data_block = b
        /\ \A j \in Inodes : j # k => inode_table'[j] = inode_table[j]
    BY <1>5, <2>1, <2>3, <2>4
  <2>6. SameSeen
    <3> SUFFICES ASSUME NEW j \in Taken, Entries(j) # {}
                 PROVE  /\ inode_table'[j] = inode_table[j]
                        /\ IsLink(j) => fs_data'[inode_table[j].i_data_block] =
                                           fs_data[inode_table[j].i_data_block]
      BY DEF SameSeen
    <3>1. inode_table'[j] = inode_table[j]
      BY <1>5, <2>5 DEF Taken
    <3>2. ASSUME IsLink(j)
          PROVE  fs_data'[inode_table[j].i_data_block] = fs_data[inode_table[j].i_data_block]
      <4>1. j \in Owners
        BY <3>2, LinkOwns
      <4>2. inode_table[j].i_data_block # b /\ inode_table[j].i_data_block \in Blocks
        BY <2>1, <4>1, Owned
      <4> QED BY <1>7, <2>1, <4>2
    <3> QED BY <3>1, <3>2
  <2>7. CASE UNCHANGED dir
    <3>1. nsBar' = nsBar
      BY <2>6, <2>7, NsKept
    <3> QED BY <1>2, <3>1, Unseen
  <2>8. CASE RoomFor(name) /\ add_dir_entry(name, k)
    <3>1. PICK s \in Slots : /\ dir[s].d_inumber = -1
                             /\ dir'[s].d_inumber = k /\ dir'[s].d_name = name
                             /\ \A r \in Slots \ {s} : dir'[r] = dir[r]
      BY <1>4, <1>5, <2>8, EntryAdded
    <3>2. name \in FileNames
      BY <2>8 DEF RoomFor
    <3>3. nsBar[name] = NS!NoEntry /\ nsBar' = [nsBar EXCEPT ![name] = EntryFor(k)']
      BY <1>4, <1>5, <2>6, <3>1, <3>2, NsAdded
    <3>4. EntryFor(k)' = NS!LinkTo(target)
      <4>1. IsLink(k)' /\ fs_data'[inode_table'[k].i_data_block] = target
        BY <1>7, <2>1, <2>5 DEF IsLink
      <4> QED BY <1>5, <4>1, EntryValueNext
    <3>5. target \in FileNames /\ nsBar[target] # NS!NoEntry
      BY <1>4, EnteredName
    <3>6. NS!SymLink(target, name)
      BY <3>3, <3>4, <3>5 DEF NS!SymLink
    <3> QED BY <1>2, <3>2, <3>5, <3>6, DirectoryOperation
  <2> QED BY <1>7, <2>7, <2>8
<1> QED BY <1>3, <1>6, <1>7 DEF Y_Block

\* clear_dir_entry, after the look at the open-file table: the operation Unlink
LEMMA U_OpenSeen ==
  ASSUME IInv, IInv', NEW t \in Threads, Step(t), U_Open(t)
  PROVE  Seen
<1>1. /\ pc[t] = "u_open" /\ Moves(t) /\ pc'[t] # "o_entry"
      /\ UNCHANGED <<inode_table, fs_data, open_file_table, free_open_file_entries>>
  BY StepMoves DEF U_Open, O_Add, inodes, handles, blocks
<1>2. openedBar' = openedBar /\ SameSeen
  BY <1>1, OpenedKept DEF SameSeen
<1>3. PICK name, k : name = loc[t].name /\ k = loc[t].inum
  OBVIOUS
<1>4. /\ TypeOK /\ NamesUnique /\ NamedAs(name, k) /\ name \in Names
  <2>1. loc[t].call.op = "unlink" /\ name = loc[t].call.name
    BY <1>1, <1>3 DEF IInv, Local, InCall
  <2> QED BY <1>1, <1>3, <2>1, CallNames DEF IInv, TablesInv, Local, KnowsDir
<1>5. k \in Taken /\ k \in Inodes
  BY <1>4, NamedTaken
<1>6. CASE UNCHANGED dir
  <2>1. nsBar' = nsBar
    BY <1>2, <1>6, NsKept
  <2> QED BY <1>2, <2>1, Unseen
<1>7. CASE ~(~IsLink(k) /\ is_in_open_file_table(k)) /\ clear_dir_entry(name)
  <2>1. name \in FileNames /\ nsBar[name] # NS!NoEntry
    BY <1>4, EnteredName DEF NamedAs
  <2>2. /\ EntriesOf(name)' = {}
        /\ \A r \in Slots : \/ dir'[r] = dir[r]
                            \/ /\ dir[r].d_name = name /\ dir[r].d_inumber = k
                               /\ dir'[r].d_inumber = -1
    BY <1>4, <1>5, <1>7, EntryCleared
  <2>3. nsBar[name] = EntryFor(k) /\ nsBar' = [nsBar EXCEPT ![name] = NS!NoEntry]
    BY <1>2, <1>4, <1>5, <2>1, <2>2, NsRemoved
  <2>4. ASSUME NEW h \in Handles, openedBar[h] # Closed
        PROVE  EntryFor(k) # NS!File(openedBar[h])
    <3>1. CASE IsLink(k)
      BY <1>5, <3>1, EntryValue, EntryKinds
    <3>2. CASE ~IsLink(k) /\ openedBar[h] # k
      BY <1>5, <3>2, EntryValue, EntryKinds
    <3>3. CASE ~IsLink(k) /\ openedBar[h] = k
      <4>1. IsOpenHandle(h) /\ open_file_table[h].of_inumber = k
        BY <2>4, <3>3 DEF openedBar
      <4> QED BY <1>7, <3>3, <4>1 DEF is_in_open_file_table, IsOpenHandle
    <3> QED BY <3>1, <3>2, <3>3
  <2>5. NS!Unlink(name)
    BY <2>1, <2>3, <2>4 DEF NS!Unlink
  <2> QED BY <1>2, <2>1, <2>5, DirectoryOperation
<1> QED BY <1>3, <1>6, <1>7 DEF U_Open, IsLink

LEMMA StepSeen ==
  ASSUME IInv, NEW t \in Threads, Step(t)
  PROVE  Seen
<1>1. IInv'
  BY StepInv
<1>2. CASE O_Create(t)   BY <1>1, <1>2, O_CreateSeen
<1>3. CASE O_Trunc(t)    BY <1>3, O_TruncSeen
<1>4. CASE O_Add(t)      BY <1>4, O_AddSeen
<1>5. CASE O_Entry(t)    BY <1>5, O_EntrySeen
<1>6. CASE Y_Create(t)   BY <1>6, Y_CreateSeen
<1>7. CASE Y_Block(t)    BY <1>1, <1>7, Y_BlockSeen
<1>8. CASE K_Inode(t)    BY <1>1, <1>8, K_InodeSeen
<1>9. CASE U_Open(t)     BY <1>1, <1>9, U_OpenSeen
<1>10. CASE U_Inode(t)   BY <1>10, U_InodeSeen
<1>11. CASE U_Delete(t)  BY <1>11, U_DeleteSeen
<1>12. CASE C_Remove(t)  BY <1>12, C_RemoveSeen
<1>13. CASE W_Copy(t)    BY <1>13, W_CopySeen
<1>14. CASE R_Copy(t)    BY <1>14, R_CopySeen
<1> QED BY <1>2, <1>3, <1>4, <1>5, <1>6, <1>7, <1>8, <1>9, <1>10, <1>11, <1>12, <1>13, <1>14,
           LockSteps DEF Step

\* a call that begins has changed nothing yet
LEMMA CallSeen ==
  ASSUME IInv, NEW t \in Threads, NEW c \in Calls, Call(t, c)
  PROVE  Seen
<1>1. /\ pc[t] = "idle"
      /\ UNCHANGED <<inode_table, dir, fs_data, open_file_table, free_open_file_entries>>
  BY DEF Call, inodes, blocks, handles
<1>2. pc'[t] # "o_entry"
  <2>1. pc'[t] = FirstStep(c)
    BY DEF Call, IInv, TypeOK
  <2> QED BY <2>1, CallFacts DEF FirstStep, Opens
<1>3. Moves(t)
  BY DEF Call, Moves, IInv, TypeOK
<1>4. nsBar' = nsBar /\ openedBar' = openedBar
  BY <1>1, <1>2, <1>3, NsKept, OpenedKept DEF SameSeen
<1> QED BY <1>4, Unseen

(* The directory starts with the files created before, and nothing is open.   *)
LEMMA NamespaceInit ==
  ASSUME Init
  PROVE  NS!Init
<1>1. IInv
  BY InitInv
<1>2. \A n \in FileNames : EntryFor(find_in_dir(n)) \in {NS!NoEntry} \cup {NS!File(x) : x \in Inodes}
  <2> SUFFICES ASSUME NEW n \in FileNames
               PROVE  EntryFor(find_in_dir(n)) \in {NS!NoEntry} \cup {NS!File(x) : x \in Inodes}
    OBVIOUS
  <2>1. PICK i : i = find_in_dir(n)
    OBVIOUS
  <2>2. CASE i = -1
    BY <2>1, <2>2, EntryValue
  <2>3. CASE i # -1
    <3>1. i \in Inodes
      BY <1>1, <2>1, <2>3, FoundIn DEF Taken
    <3>2. ~IsLink(i)
      BY <3>1 DEF Init, IsLink, RootInode, NewInode
    <3> QED BY <2>1, <3>1, <3>2, EntryValue
  <2> QED BY <2>2, <2>3
<1>3. nsBar \in [FileNames -> {NS!NoEntry} \cup {NS!File(x) : x \in Inodes}]
  BY <1>2 DEF nsBar
<1>4. openedBar = [h \in Handles |-> Closed]
  BY DEF openedBar, IsOpenHandle, Init
<1> QED BY <1>3, <1>4 DEF NS!Init

-----------------------------------------------------------------------------
(* To threads that keep conflicting calls apart, the fine-grained locks of    *)
(* src/fs give a directory whose operations are atomic, in which a name is    *)
(* created once, a link keeps its target and a file that is open keeps all    *)
(* its names: the operation happens in tfs_open's and tfs_link's              *)
(* add_dir_entry, tfs_unlink's clear_dir_entry, and where a handle is filled  *)
(* in or given back.                                                          *)
THEOREM NamespaceImplemented ==
  ASSUME ~CallersRace
  PROVE  Spec => ImplementsNamespace
<1>1. Init => NS!Init
  BY NamespaceInit
<1>2. IInv /\ [Next]_vars => [NS!Next]_<<nsBar, openedBar>>
  <2> SUFFICES ASSUME IInv, [Next]_vars PROVE Seen
    BY DEF Seen
  <2>1. CASE UNCHANGED vars
    <3>1. /\ UNCHANGED <<inode_table, dir, fs_data, open_file_table, free_open_file_entries>>
          /\ UNCHANGED <<pc, loc>>
      BY <2>1 DEF vars, inodes, blocks, handles
    <3>2. nsBar' = nsBar
      BY <3>1, NsKept DEF SameSeen
    <3>3. openedBar' = openedBar
      BY <3>1 DEF openedBar, IsOpenHandle, Pending
    <3> QED BY <3>2, <3>3, Unseen
  <2>2. CASE Next
    BY <2>2, CallSeen, StepSeen DEF Next
  <2> QED BY <2>1, <2>2
<1> QED BY <1>1, <1>2, IInvAlways, PTL DEF Spec, ImplementsNamespace, NS!Spec
=============================================================================
