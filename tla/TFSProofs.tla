----------------------------- MODULE TFSProofs -----------------------------
(***************************************************************************)
(* Theorems on the file system of src/fs, for tables of any size and any    *)
(* number of threads that do not race an open with an unlink of the same    *)
(* name, nor the uses of a handle with its close.                            *)
(*                                                                           *)
(* The proof is of the rely-guarantee kind.  Guarantee(t) says what a step   *)
(* of thread t may do to what the others rely on; every step keeps it, and   *)
(* it leaves intact what every other thread knows (OthersKept).  So each     *)
(* step is examined once, for its own thread and the tables it changes.      *)
(***************************************************************************)
EXTENDS TFS, FiniteSetTheorems, WellFoundedInduction, TLAPS

OpenPCs == {"o_lookup", "o_create", "o_inode", "o_trunc", "o_add", "o_entry"}
FoundPCs == {"o_inode", "o_trunc", "o_add", "o_entry"}      \* tfs_open has its inode
RootPCs == {"o_create", "y_create", "y_block", "k_inode", "u_open", "u_inode", "u_delete"}
FluxPCs == {"y_block", "u_inode", "u_delete"}     \* one name short of the link count
FdPCs == {"o_entry", "c_remove", "w_get", "w_entry", "w_inode", "w_copy", "r_entry",
          "r_copy"}

InodeType == [i_node_type : {"T_FILE", "T_LINK", "T_DIRECTORY"},
              i_links_count : 1..MAX_DIR_ENTRIES,
              i_size : 0..BLOCK_SIZE, i_data_block : Blocks \cup {-1}]
EntryType == [d_name : FileNames \cup {NoName}, d_inumber : Inodes \cup {-1}]
HandleType == [of_inumber : Inodes, of_offset : 0..DATA_BLOCKS * BLOCK_SIZE]
LocType == [call : Calls \cup {NoCall}, name : Names \cup {NoName},
            fd : Handles \cup {NoHandle}, inum : Inodes \cup {-1}, offset : 0..BLOCK_SIZE]

Entries(i) == {s \in Slots : dir[s].d_inumber = i}
IsLink(i) == inode_table[i].i_node_type = "T_LINK"
NamedAs(name, i) == \E s \in EntriesOf(name) : dir[s].d_inumber = i

-----------------------------------------------------------------------------
(* The invariant, first what a thread knows at each of its steps.            *)

\* the call a thread is in, the name it works on and its handle
InCall(t) ==
    /\ pc[t] = "idle" => loc[t].call.op = "none"
    /\ pc[t] \in OpenPCs => Opens(loc[t].call) /\ loc[t].name \in LooksUp(loc[t].call.name)
    /\ pc[t] \in {"y_lookup", "y_create", "y_block"} =>
          loc[t].call.op = "sym_link" /\ loc[t].name = loc[t].call.name
    /\ pc[t] \in {"k_lookup", "k_inode"} =>
          loc[t].call.op = "link" /\ loc[t].name = loc[t].call.name
    /\ pc[t] \in {"u_lookup", "u_open", "u_inode", "u_delete"} =>
          loc[t].call.op = "unlink" /\ loc[t].name = loc[t].call.name
    /\ pc[t] = "c_remove" => loc[t].call.op \in {"close", "copy"}
    /\ pc[t] = "w_get" => loc[t].call.op = "copy"
    /\ pc[t] \in {"w_entry", "w_inode", "w_copy"} => loc[t].call.op \in {"write", "copy"}
    /\ pc[t] \in {"r_entry", "r_copy"} => loc[t].call.op = "read"
    /\ loc[t].fd # NoHandle <=> pc[t] \in FdPCs

\* the locks it holds
Holds(t) ==
    /\ pc[t] \in RootPCs => inode_rwl[ROOT_DIR_INUM] = t
    /\ pc[t] = "o_entry" => open_file_table_rwl = t
    /\ pc[t] \in {"o_trunc", "u_delete"} => inode_rwl[loc[t].inum] = t
    /\ pc[t] = "w_copy" => inode_rwl[open_file_table[loc[t].fd].of_inumber] = t

\* what it found out under the root's lock ...
KnowsDir(t) ==
    /\ pc[t] \in {"o_create", "y_create", "y_block", "k_inode"} => EntriesOf(loc[t].name) = {}
    /\ pc[t] \in {"y_create", "y_block"} => EntriesOf(loc[t].call.target) # {}
    /\ pc[t] = "k_inode" => NamedAs(loc[t].call.target, loc[t].inum)
    /\ pc[t] = "u_open" => NamedAs(loc[t].name, loc[t].inum)
    /\ pc[t] \in FluxPCs => loc[t].inum \in Taken
    /\ pc[t] = "y_block" => inode_table[loc[t].inum] = NewInode("T_LINK")
    /\ pc[t] = "u_delete" => inode_table[loc[t].inum].i_links_count = 1

\* ... and what stays true without it, as nobody unlinks the name it opens
KnowsFile(t) ==
    /\ pc[t] \in FoundPCs => NamedAs(loc[t].name, loc[t].inum)
    /\ pc[t] \in {"o_trunc", "o_add", "o_entry"} => ~IsLink(loc[t].inum)
    /\ pc[t] = "o_trunc" => inode_table[loc[t].inum].i_size > 0
    /\ pc[t] \in FdPCs => loc[t].fd \notin free_open_file_entries

Local(t) == InCall(t) /\ Holds(t) /\ KnowsDir(t) /\ KnowsFile(t)

(* Then the tables.                                                          *)

\* callers keep conflicting calls apart
KeptApart ==
    /\ \A t, u \in Threads : ~OpenVersusUnlink(loc[t].call, loc[u].call)
    /\ \A t, u \in Threads : t # u /\ loc[t].fd = loc[u].fd /\ loc[t].fd # NoHandle =>
          loc[t].call.op \in {"read", "write"} /\ loc[u].call.op \in {"read", "write"}

RootKept == inode_table[ROOT_DIR_INUM] = RootInode
EntriesLive == \A s \in Slots : dir[s].d_inumber \in Taken \cup {-1}
NamesUnique == \A r, s \in Slots :
    dir[r].d_inumber # -1 /\ dir[s].d_inumber # -1 /\ dir[r].d_name = dir[s].d_name => r = s

\* a symbolic link holds the target it was made with
LinksResolved == \A s \in Slots :
    dir[s].d_inumber # -1 /\ IsLink(dir[s].d_inumber) =>
      /\ inode_table[dir[s].d_inumber].i_data_block # -1
      /\ \E c \in CallsOf("sym_link") :
            /\ c.name = dir[s].d_name
            /\ c.target = fs_data[inode_table[dir[s].d_inumber].i_data_block]

\* an open file has a name and is no link
HandlesNamed == \A h \in Handles : IsOpenHandle(h) /\ ~Pending(h) =>
    /\ ~IsLink(open_file_table[h].of_inumber)
    /\ Entries(open_file_table[h].of_inumber) # {}

\* the thread that is about to add or has just removed a name of i
InFlux(i) == \E t \in Threads : pc[t] \in FluxPCs /\ loc[t].inum = i
Counted == \A i \in Taken : inode_table[i].i_links_count =
              Cardinality(Entries(i)) + (IF InFlux(i) THEN 1 ELSE 0)

TablesInv == /\ RootKept /\ EntriesLive /\ NamesUnique /\ LinksResolved
             /\ HandlesNamed /\ BlocksOwned /\ Counted

IInv == /\ TypeOK /\ loc \in [Threads -> LocType]
        /\ \A t \in Threads : Local(t)
        /\ KeptApart /\ TablesInv

-----------------------------------------------------------------------------
(* Operators *)

(* The linear searches find the first index: a set of naturals that is not    *)
(* empty has a least element, because < is well-founded.                      *)
LEMMA FirstIn ==
  ASSUME NEW S, S \subseteq Nat, S # {}
  PROVE  First(S) \in S
<1> DEFINE R == OpToRel(<, Nat)
<1>1. IsWellFoundedOn(R, Nat)
  BY NatLessThanWellFounded
<1>2. \A x, y \in Nat : x < y => <<x, y>> \in R
  BY Z3 DEF OpToRel
<1> HIDE DEF R
<1>3. PICK x \in S : \A y \in S : ~(<<y, x>> \in R)
  BY <1>1, WFMin
<1>4. \A y \in S : x \in Nat /\ y \in Nat /\ ~(y < x)
  BY <1>2, <1>3, Zenon
<1>5. \A y \in S : x <= y
  BY <1>4
<1> QED BY <1>5 DEF First

(* The free inode, block, handle and entry that the searches of state.c take. *)
LEMMA FirstFree ==
  ASSUME TypeOK
  PROVE  /\ freeinode_ts # {} => First(freeinode_ts) \in freeinode_ts
         /\ free_blocks # {} => First(free_blocks) \in free_blocks
         /\ free_open_file_entries # {} =>
               First(free_open_file_entries) \in free_open_file_entries
         /\ FreeSlots # {} => First(FreeSlots) \in FreeSlots
         /\ \A name : EntriesOf(name) # {} => First(EntriesOf(name)) \in EntriesOf(name)
<1>1. /\ freeinode_ts \subseteq Nat /\ free_blocks \subseteq Nat
      /\ free_open_file_entries \subseteq Nat /\ FreeSlots \subseteq Nat
  BY SizesAssumption DEF TypeOK, Inodes, Blocks, Handles, Slots, FreeSlots
<1>2. \A name : EntriesOf(name) \subseteq Nat
  BY SizesAssumption DEF EntriesOf, Slots
<1> QED BY <1>1, <1>2, FirstIn, Zenon

(* find_in_dir returns -1 when the name has no entry, else the inode of one.  *)
LEMMA Found ==
  ASSUME TypeOK, NEW name
  PROVE  /\ find_in_dir(name) = -1 => EntriesOf(name) = {}
         /\ find_in_dir(name) # -1 => /\ NamedAs(name, find_in_dir(name))
                                      /\ find_in_dir(name) \in Inodes
<1>1. \A s \in EntriesOf(name) : dir[s].d_inumber # -1 /\ dir[s].d_inumber \in Inodes
  BY DEF EntriesOf, TypeOK
<1>2. EntriesOf(name) # {} => First(EntriesOf(name)) \in EntriesOf(name)
  BY FirstFree, Zenon
<1> QED BY <1>1, <1>2 DEF find_in_dir, NamedAs

(* The entries of a name are those of one slot.                              *)
LEMMA OneEntry ==
  ASSUME TypeOK, NamesUnique, NEW name, NEW i, NamedAs(name, i)
  PROVE  /\ First(EntriesOf(name)) \in Slots
         /\ dir[First(EntriesOf(name))].d_inumber = i
         /\ dir[First(EntriesOf(name))].d_name = name
         /\ i # -1
         /\ \A s \in EntriesOf(name) : s = First(EntriesOf(name))
         /\ find_in_dir(name) = i
<1>1. PICK s \in EntriesOf(name) : dir[s].d_inumber = i
  BY DEF NamedAs
<1>2. First(EntriesOf(name)) \in EntriesOf(name)
  BY <1>1, FirstFree, Zenon
<1>3. \A r \in EntriesOf(name) : r = s
  BY <1>1 DEF NamesUnique, EntriesOf
<1>4. s \in Slots /\ dir[s].d_name = name /\ dir[s].d_inumber # -1
  BY <1>1 DEF EntriesOf
<1> QED BY <1>1, <1>2, <1>3, <1>4 DEF find_in_dir

(* What the parameters of a call are.                                        *)
LEMMA CallFacts ==
  ASSUME NEW c \in Calls
  PROVE  /\ c.op \in {"open", "copy", "link", "sym_link", "unlink", "close", "read", "write"}
         /\ c.op \in {"open", "copy", "link", "sym_link", "unlink"} => c.name \in Names
         /\ c.op \in {"link", "sym_link"} => c.target \in Names
         /\ c.op \in {"copy", "read", "write"} => c.len \in Nat
  BY CallsAssumption, Zenon

-----------------------------------------------------------------------------
(* Control: a step moves its own thread.                                      *)

Moves(t) == \A u \in Threads \ {t} : pc'[u] = pc[u] /\ loc'[u] = loc[u]

\* the locals of t after its step
Now(t, to, call, name, fd, inum, offset) ==
    /\ pc' \in [Threads -> StepPCs] /\ loc' \in [Threads -> LocType]
    /\ Moves(t)
    /\ pc'[t] = to /\ loc'[t].call = call /\ loc'[t].name = name /\ loc'[t].fd = fd
    /\ loc'[t].inum = inum /\ loc'[t].offset = offset

(* Each way a step replaces the locals of its thread.                         *)
LEMMA Replaced ==
  ASSUME NEW t \in Threads, TypeOK, loc \in [Threads -> LocType], NEW to \in StepPCs,
         NEW l \in LocType,
         pc' = [pc EXCEPT ![t] = to], loc' = [loc EXCEPT ![t] = l]
  PROVE  Now(t, to, l.call, l.name, l.fd, l.inum, l.offset)
<1>1. pc \in [Threads -> StepPCs]
  BY DEF TypeOK
<1>2. pc' \in [Threads -> StepPCs] /\ pc'[t] = to /\ \A u \in Threads \ {t} : pc'[u] = pc[u]
  BY <1>1
<1>3. loc' \in [Threads -> LocType] /\ loc'[t] = l /\ \A u \in Threads \ {t} : loc'[u] = loc[u]
  OBVIOUS
<1> QED BY <1>2, <1>3 DEF Now, Moves

LEMMA Stays ==
  ASSUME NEW t \in Threads, TypeOK, loc \in [Threads -> LocType], NEW to \in StepPCs,
         pc' = [pc EXCEPT ![t] = to], loc' = loc
  PROVE  Now(t, to, loc[t].call, loc[t].name, loc[t].fd, loc[t].inum, loc[t].offset)
<1>1. loc' = [loc EXCEPT ![t] = loc[t]] /\ loc[t] \in LocType
  OBVIOUS
<1> QED BY <1>1, Replaced, Zenon

LEMMA Returned ==
  ASSUME NEW t \in Threads, TypeOK, loc \in [Threads -> LocType], Return(t)
  PROVE  Now(t, "idle", NoCall, NoName, NoHandle, -1, 0)
<1>1. NoLocals \in LocType /\ "idle" \in StepPCs
  BY SizesAssumption DEF NoLocals, LocType, StepPCs
<1>2. /\ NoLocals.call = NoCall /\ NoLocals.name = NoName /\ NoLocals.fd = NoHandle
      /\ NoLocals.inum = -1 /\ NoLocals.offset = 0
  BY DEF NoLocals
<1>3. /\ pc' = [pc EXCEPT ![t] = "idle"]
      /\ loc' = [loc EXCEPT ![t] = NoLocals]
  BY DEF Return
<1>4. Now(t, "idle", NoLocals.call, NoLocals.name, NoLocals.fd, NoLocals.inum,
          NoLocals.offset)
  BY <1>1, <1>3, Replaced, Zenon
<1> QED BY <1>2, <1>4

LEMMA SetInum ==
  ASSUME NEW t \in Threads, TypeOK, loc \in [Threads -> LocType], NEW to \in StepPCs,
         NEW i \in Inodes \cup {-1},
         pc' = [pc EXCEPT ![t] = to], loc' = [loc EXCEPT ![t].inum = i]
  PROVE  Now(t, to, loc[t].call, loc[t].name, loc[t].fd, i, loc[t].offset)
<1> DEFINE l == [call |-> loc[t].call, name |-> loc[t].name, fd |-> loc[t].fd,
                 inum |-> i, offset |-> loc[t].offset]
<1>1. loc[t] \in LocType
  OBVIOUS
<1>2. l \in LocType /\ [loc[t] EXCEPT !.inum = i] = l
  BY <1>1 DEF LocType
<1>3. loc' = [loc EXCEPT ![t] = l]
  BY <1>2
<1>4. l.call = loc[t].call /\ l.name = loc[t].name /\ l.fd = loc[t].fd /\ l.inum = i
      /\ l.offset = loc[t].offset
  OBVIOUS
<1> HIDE DEF l
<1>5. Now(t, to, l.call, l.name, l.fd, l.inum, l.offset)
  BY <1>2, <1>3, Replaced, Zenon
<1> QED BY <1>4, <1>5

LEMMA SetInumOffset ==
  ASSUME NEW t \in Threads, TypeOK, loc \in [Threads -> LocType], NEW to \in StepPCs,
         NEW i \in Inodes \cup {-1}, NEW o \in 0..BLOCK_SIZE,
         pc' = [pc EXCEPT ![t] = to],
         loc' = [loc EXCEPT ![t].inum = i, ![t].offset = o]
  PROVE  Now(t, to, loc[t].call, loc[t].name, loc[t].fd, i, o)
<1> DEFINE l == [call |-> loc[t].call, name |-> loc[t].name, fd |-> loc[t].fd,
                 inum |-> i, offset |-> o]
<1>1. loc[t] \in LocType
  OBVIOUS
<1>a. [loc[t] EXCEPT !.inum = i] =
         [call |-> loc[t].call, name |-> loc[t].name, fd |-> loc[t].fd,
          inum |-> i, offset |-> loc[t].offset]
  BY <1>1 DEF LocType
<1>b. [[call |-> loc[t].call, name |-> loc[t].name, fd |-> loc[t].fd,
        inum |-> i, offset |-> loc[t].offset] EXCEPT !.offset = o] = l
  OBVIOUS
<1>c. l \in LocType
  BY <1>1 DEF LocType
<1>2. l \in LocType /\ [[loc[t] EXCEPT !.inum = i] EXCEPT !.offset = o] = l
  BY <1>a, <1>b, <1>c, Zenon
<1>3. loc' = [loc EXCEPT ![t] = l]
  BY <1>2
<1>4. l.call = loc[t].call /\ l.name = loc[t].name /\ l.fd = loc[t].fd /\ l.inum = i
      /\ l.offset = o
  OBVIOUS
<1> HIDE DEF l
<1>5. Now(t, to, l.call, l.name, l.fd, l.inum, l.offset)
  BY <1>2, <1>3, Replaced, Zenon
<1> QED BY <1>4, <1>5

LEMMA SetOffset ==
  ASSUME NEW t \in Threads, TypeOK, loc \in [Threads -> LocType], NEW to \in StepPCs,
         NEW o \in 0..BLOCK_SIZE,
         pc' = [pc EXCEPT ![t] = to], loc' = [loc EXCEPT ![t].offset = o]
  PROVE  Now(t, to, loc[t].call, loc[t].name, loc[t].fd, loc[t].inum, o)
<1> DEFINE l == [call |-> loc[t].call, name |-> loc[t].name, fd |-> loc[t].fd,
                 inum |-> loc[t].inum, offset |-> o]
<1>1. loc[t] \in LocType
  OBVIOUS
<1>2. l \in LocType /\ [loc[t] EXCEPT !.offset = o] = l
  BY <1>1 DEF LocType
<1>3. loc' = [loc EXCEPT ![t] = l]
  BY <1>2
<1>4. l.call = loc[t].call /\ l.name = loc[t].name /\ l.fd = loc[t].fd
      /\ l.inum = loc[t].inum /\ l.offset = o
  OBVIOUS
<1> HIDE DEF l
<1>5. Now(t, to, l.call, l.name, l.fd, l.inum, l.offset)
  BY <1>2, <1>3, Replaced, Zenon
<1> QED BY <1>4, <1>5

LEMMA SetName ==
  ASSUME NEW t \in Threads, TypeOK, loc \in [Threads -> LocType], NEW to \in StepPCs,
         NEW n \in Names,
         pc' = [pc EXCEPT ![t] = to], loc' = [loc EXCEPT ![t].name = n]
  PROVE  Now(t, to, loc[t].call, n, loc[t].fd, loc[t].inum, loc[t].offset)
<1> DEFINE l == [call |-> loc[t].call, name |-> n, fd |-> loc[t].fd,
                 inum |-> loc[t].inum, offset |-> loc[t].offset]
<1>1. loc[t] \in LocType
  OBVIOUS
<1>2. l \in LocType /\ [loc[t] EXCEPT !.name = n] = l
  BY <1>1 DEF LocType
<1>3. loc' = [loc EXCEPT ![t] = l]
  BY <1>2
<1>4. l.call = loc[t].call /\ l.name = n /\ l.fd = loc[t].fd
      /\ l.inum = loc[t].inum /\ l.offset = loc[t].offset
  OBVIOUS
<1> HIDE DEF l
<1>5. Now(t, to, l.call, l.name, l.fd, l.inum, l.offset)
  BY <1>2, <1>3, Replaced, Zenon
<1> QED BY <1>4, <1>5

LEMMA SetFd ==
  ASSUME NEW t \in Threads, TypeOK, loc \in [Threads -> LocType], NEW to \in StepPCs,
         NEW h \in Handles,
         pc' = [pc EXCEPT ![t] = to], loc' = [loc EXCEPT ![t].fd = h]
  PROVE  Now(t, to, loc[t].call, loc[t].name, h, loc[t].inum, loc[t].offset)
<1> DEFINE l == [call |-> loc[t].call, name |-> loc[t].name, fd |-> h,
                 inum |-> loc[t].inum, offset |-> loc[t].offset]
<1>1. loc[t] \in LocType
  OBVIOUS
<1>2. l \in LocType /\ [loc[t] EXCEPT !.fd = h] = l
  BY <1>1 DEF LocType
<1>3. loc' = [loc EXCEPT ![t] = l]
  BY <1>2
<1>4. l.call = loc[t].call /\ l.name = loc[t].name /\ l.fd = h
      /\ l.inum = loc[t].inum /\ l.offset = loc[t].offset
  OBVIOUS
<1> HIDE DEF l
<1>5. Now(t, to, l.call, l.name, l.fd, l.inum, l.offset)
  BY <1>2, <1>3, Replaced, Zenon
<1> QED BY <1>4, <1>5

-----------------------------------------------------------------------------
(* What a thread guarantees the others, and what they make of it.             *)

Guarantee(t) ==
    /\ Moves(t)
    /\ pc[t] \notin RootPCs => /\ dir' = dir /\ freeinode_ts' = freeinode_ts
                               /\ \A i \in Inodes : inode_table'[i] = inode_table[i]
                                                    \/ Entries(i) # {}
    /\ \A s \in Slots : \/ dir'[s] = dir[s] \/ dir[s].d_inumber = -1
                        \/ loc[t].call.op = "unlink" /\ dir[s].d_name = loc[t].call.name
    /\ \A i \in Taken : /\ inode_table'[i].i_node_type = inode_table[i].i_node_type
                        /\ \/ inode_table'[i].i_size = inode_table[i].i_size
                           \/ inode_rwl[i] = t
    /\ \A i \in Inodes \ freeinode_ts :
          inode_rwl'[i] = inode_rwl[i] \/ inode_rwl[i] \in {Nobody, t}
    /\ open_file_table_rwl' = open_file_table_rwl \/ open_file_table_rwl \in {Nobody, t}
    /\ \A h \in free_open_file_entries' \ free_open_file_entries :
          h = loc[t].fd /\ loc[t].call.op \in {"close", "copy"}
    /\ \A h \in Handles : \/ open_file_table'[h].of_inumber = open_file_table[h].of_inumber
                          \/ pc[t] = "o_entry" /\ h = loc[t].fd

(* One thread holds the root's lock.                                          *)
LEMMA OneAtRoot ==
  ASSUME IInv, NEW t \in Threads, NEW u \in Threads, t # u, pc[u] \in RootPCs
  PROVE  pc[t] \notin RootPCs
<1>1. Local(t) /\ Local(u)
  BY DEF IInv
<1> QED BY <1>1 DEF Local, Holds

(* An inode that a name stands for is in use and is not the root.             *)
LEMMA NamedTaken ==
  ASSUME IInv, NEW name, NEW i, NamedAs(name, i)
  PROVE  i \in Taken /\ i \in Inodes /\ Entries(i) # {}
<1>1. PICK s \in Slots : dir[s].d_inumber = i /\ i # -1
  BY DEF NamedAs, EntriesOf
<1>2. EntriesLive
  BY DEF IInv, TablesInv
<1> QED BY <1>1, <1>2 DEF EntriesLive, Taken, Entries

(* The only name of an inode is gone when its count is one and a thread is    *)
(* about to add it or has just removed it.                                    *)
LEMMA FluxUnnamed ==
  ASSUME IInv, NEW t \in Threads, pc[t] \in FluxPCs,
         inode_table[loc[t].inum].i_links_count = 1
  PROVE  Entries(loc[t].inum) = {}
<1> DEFINE i == loc[t].inum
<1>1. i \in Taken
  BY DEF IInv, Local, KnowsDir
<1>2. InFlux(i)
  BY DEF InFlux
<1>3. IsFiniteSet(Entries(i))
  <2>1. IsFiniteSet(Slots)
    BY FS_Interval, SizesAssumption DEF Slots
  <2> QED BY <2>1, FS_Subset DEF Entries
<1>4. Cardinality(Entries(i)) + 1 = 1 /\ Cardinality(Entries(i)) \in Nat
  BY <1>1, <1>2, <1>3, FS_CardinalityType DEF IInv, TablesInv, Counted
<1>5. Cardinality(Entries(i)) = 0
  BY <1>4
<1> QED BY <1>3, <1>5, FS_EmptySet

(* The handle that a thread uses is open on a file that has a name.           *)
LEMMA HandleUsed ==
  ASSUME IInv, NEW t \in Threads, pc[t] \in FdPCs \ {"o_entry"}
  PROVE  /\ loc[t].fd \in Handles
         /\ IsOpenHandle(loc[t].fd) /\ ~Pending(loc[t].fd)
         /\ open_file_table[loc[t].fd].of_inumber \in Taken
         /\ ~IsLink(open_file_table[loc[t].fd].of_inumber)
         /\ Entries(open_file_table[loc[t].fd].of_inumber) # {}
<1> DEFINE h == loc[t].fd
<1>1. h \in Handles \cup {NoHandle} /\ h # NoHandle /\ h \notin free_open_file_entries
  <2>1. loc[t].fd \in Handles \cup {NoHandle}
    BY DEF IInv, LocType
  <2>2. loc[t].fd # NoHandle /\ loc[t].fd \notin free_open_file_entries
    BY DEF IInv, Local, InCall, KnowsFile
  <2> QED BY <2>1, <2>2
<1>2. ~Pending(h)
  <2> SUFFICES ASSUME NEW u \in Threads, pc[u] = "o_entry", loc[u].fd = h
               PROVE  FALSE
    BY DEF Pending
  <2>1. u # t
    BY DEF FdPCs
  <2>2. loc[u].call.op \in {"read", "write"}
    BY <1>1, <2>1 DEF IInv, KeptApart
  <2>3. Opens(loc[u].call)
    BY DEF IInv, Local, InCall, OpenPCs
  <2> QED BY <2>2, <2>3 DEF Opens
<1>3. IsOpenHandle(h) /\ h \in Handles
  BY <1>1 DEF IsOpenHandle
<1>4. /\ ~IsLink(open_file_table[h].of_inumber)
      /\ Entries(open_file_table[h].of_inumber) # {}
  BY <1>2, <1>3 DEF IInv, TablesInv, HandlesNamed
<1>5. open_file_table[h].of_inumber \in Inodes
  BY <1>3 DEF IInv, TypeOK
<1>6. -1 \notin Inodes
  BY SizesAssumption DEF Inodes
<1>7. open_file_table[h].of_inumber \in Taken
  BY <1>4, <1>5, <1>6 DEF IInv, TablesInv, EntriesLive, Entries
<1> QED BY <1>2, <1>3, <1>4, <1>7

LEMMA OthersHold ==
  ASSUME IInv, NEW t \in Threads, Guarantee(t), NEW u \in Threads, t # u
  PROVE  Holds(u)'
<1>1. Local(u) /\ pc'[u] = pc[u] /\ loc'[u] = loc[u]
  BY DEF IInv, Guarantee, Moves
<1>2. u # Nobody
  BY CallersAssumption
<1>3. \A i \in Inodes \ freeinode_ts : inode_rwl[i] = u => inode_rwl'[i] = u
  BY <1>2 DEF Guarantee
<1>4. pc[u] \in RootPCs => inode_rwl'[ROOT_DIR_INUM] = u
  <2>1. ROOT_DIR_INUM \in Inodes \ freeinode_ts
    BY SizesAssumption DEF IInv, TypeOK, Inodes, ROOT_DIR_INUM
  <2> QED BY <1>1, <1>3, <2>1 DEF Local, Holds
<1>5. pc[u] = "o_entry" => open_file_table_rwl' = u
  BY <1>1, <1>2 DEF Local, Holds, Guarantee
<1>6. pc[u] \in {"o_trunc", "u_delete"} => inode_rwl'[loc[u].inum] = u
  <2>1. pc[u] \in {"o_trunc", "u_delete"} => loc[u].inum \in Taken
    BY <1>1, NamedTaken DEF Local, KnowsFile, KnowsDir, FoundPCs, FluxPCs
  <2> QED BY <1>1, <1>3, <2>1 DEF Local, Holds, Taken
<1>7. ASSUME pc[u] = "w_copy"
      PROVE  inode_rwl'[open_file_table'[loc[u].fd].of_inumber] = u
  <2>1. pc[u] \in FdPCs \ {"o_entry"}
    BY <1>7 DEF FdPCs
  <2>2. loc[u].fd \in Handles /\ ~Pending(loc[u].fd)
        /\ open_file_table[loc[u].fd].of_inumber \in Taken
    BY <2>1, HandleUsed
  <2>3. ~(pc[t] = "o_entry" /\ loc[u].fd = loc[t].fd)
    BY <2>2 DEF Pending
  <2>4. open_file_table'[loc[u].fd].of_inumber = open_file_table[loc[u].fd].of_inumber
    BY <2>2, <2>3 DEF Guarantee
  <2>5. inode_rwl[open_file_table[loc[u].fd].of_inumber] = u
    BY <1>1, <1>7 DEF Local, Holds
  <2> QED BY <1>3, <2>2, <2>4, <2>5 DEF Taken
<1> QED BY <1>1, <1>4, <1>5, <1>6, <1>7 DEF Holds

LEMMA OthersKnowDir ==
  ASSUME IInv, NEW t \in Threads, Guarantee(t), NEW u \in Threads, t # u
  PROVE  KnowsDir(u)'
<1>1. Local(u) /\ pc'[u] = pc[u] /\ loc'[u] = loc[u]
  BY DEF IInv, Guarantee, Moves
<1>2. CASE pc[u] \notin RootPCs
  BY <1>1, <1>2 DEF KnowsDir, RootPCs, FluxPCs
<1>3. CASE pc[u] \in RootPCs
  <2>1. pc[t] \notin RootPCs
    BY <1>3, OneAtRoot
  <2>2. /\ dir' = dir /\ freeinode_ts' = freeinode_ts
        /\ \A i \in Inodes : inode_table'[i] = inode_table[i] \/ Entries(i) # {}
    BY <2>1 DEF Guarantee
  <2>3. /\ \A name : EntriesOf(name)' = EntriesOf(name)
        /\ \A name, i : NamedAs(name, i)' <=> NamedAs(name, i)
        /\ Taken' = Taken
    BY <2>2 DEF EntriesOf, NamedAs, Taken
  <2>4. ASSUME pc[u] \in {"y_block", "u_delete"}
        PROVE  inode_table'[loc[u].inum] = inode_table[loc[u].inum]
    <3>1. pc[u] \in FluxPCs /\ inode_table[loc[u].inum].i_links_count = 1
      BY <1>1, <2>4 DEF Local, KnowsDir, FluxPCs, NewInode
    <3>2. Entries(loc[u].inum) = {}
      BY <3>1, FluxUnnamed
    <3>3. loc[u].inum \in Inodes
      BY <1>1, <3>1 DEF Local, KnowsDir, Taken
    <3> QED BY <2>2, <3>2, <3>3
  <2>5. /\ pc[u] \in {"o_create", "y_create", "y_block", "k_inode"} =>
              EntriesOf(loc[u].name)' = {}
        /\ pc[u] \in {"y_create", "y_block"} => EntriesOf(loc[u].call.target)' # {}
    <3>1. /\ EntriesOf(loc[u].name)' = EntriesOf(loc[u].name)
          /\ EntriesOf(loc[u].call.target)' = EntriesOf(loc[u].call.target)
      BY <1>1, <2>2 DEF EntriesOf
    <3> QED BY <1>1, <3>1 DEF Local, KnowsDir
  <2>6. /\ pc[u] = "k_inode" => NamedAs(loc[u].call.target, loc[u].inum)'
        /\ pc[u] = "u_open" => NamedAs(loc[u].name, loc[u].inum)'
    <3>1. /\ NamedAs(loc[u].name, loc[u].inum)' <=> NamedAs(loc[u].name, loc[u].inum)
          /\ NamedAs(loc[u].call.target, loc[u].inum)' <=>
                NamedAs(loc[u].call.target, loc[u].inum)
      BY <1>1, <2>2 DEF EntriesOf, NamedAs
    <3> QED BY <1>1, <3>1 DEF Local, KnowsDir
  <2>7. /\ pc[u] \in FluxPCs => loc[u].inum \in Taken'
        /\ pc[u] = "y_block" => inode_table'[loc[u].inum] = NewInode("T_LINK")
        /\ pc[u] = "u_delete" => inode_table'[loc[u].inum].i_links_count = 1
    BY <1>1, <2>3, <2>4 DEF Local, KnowsDir
  <2> QED BY <1>1, <2>5, <2>6, <2>7 DEF KnowsDir, NewInode
<1> QED BY <1>2, <1>3

LEMMA OthersKnowFile ==
  ASSUME IInv, NEW t \in Threads, Guarantee(t), NEW u \in Threads, t # u
  PROVE  KnowsFile(u)'
<1>1. Local(u) /\ pc'[u] = pc[u] /\ loc'[u] = loc[u]
  BY DEF IInv, Guarantee, Moves
<1>2. ASSUME pc[u] \in FoundPCs
      PROVE  NamedAs(loc[u].name, loc[u].inum)' /\ loc[u].inum \in Taken
  <2>1. PICK s \in Slots : /\ dir[s].d_inumber # -1 /\ dir[s].d_name = loc[u].name
                           /\ dir[s].d_inumber = loc[u].inum
    BY <1>1, <1>2 DEF Local, KnowsFile, NamedAs, EntriesOf
  <2>2. Opens(loc[u].call) /\ loc[u].name \in LooksUp(loc[u].call.name)
    BY <1>1, <1>2 DEF Local, InCall, OpenPCs, FoundPCs
  <2>3. ~OpenVersusUnlink(loc[u].call, loc[t].call)
    BY DEF IInv, KeptApart
  <2>4. ~(loc[t].call.op = "unlink" /\ dir[s].d_name = loc[t].call.name)
    BY <2>1, <2>2, <2>3 DEF OpenVersusUnlink
  <2>5. dir'[s] = dir[s]
    BY <2>1, <2>4 DEF Guarantee
  <2>6. NamedAs(loc[u].name, loc[u].inum)'
    BY <1>1, <2>1, <2>5 DEF NamedAs, EntriesOf
  <2>7. NamedAs(loc[u].name, loc[u].inum)
    BY <2>1 DEF NamedAs, EntriesOf
  <2> QED BY <2>6, <2>7, NamedTaken
<1>3. pc[u] \in {"o_trunc", "o_add", "o_entry"} => ~IsLink(loc[u].inum)'
  <2>1. pc[u] \in {"o_trunc", "o_add", "o_entry"} =>
           loc[u].inum \in Taken /\ ~IsLink(loc[u].inum)
    BY <1>1, <1>2 DEF Local, KnowsFile, FoundPCs
  <2> QED BY <1>1, <2>1 DEF IsLink, Guarantee
<1>4. pc[u] = "o_trunc" => inode_table'[loc[u].inum].i_size > 0
  <2>1. pc[u] = "o_trunc" => /\ loc[u].inum \in Taken /\ inode_rwl[loc[u].inum] = u
                             /\ inode_table[loc[u].inum].i_size > 0
    BY <1>1, <1>2 DEF Local, KnowsFile, FoundPCs, Holds
  <2> QED BY <1>1, <2>1 DEF Guarantee
<1>5. pc[u] \in FdPCs => loc[u].fd \notin free_open_file_entries'
  <2> SUFFICES ASSUME pc[u] \in FdPCs, loc[u].fd \in free_open_file_entries'
               PROVE  FALSE
    OBVIOUS
  <2>1. loc[u].fd \notin free_open_file_entries /\ loc[u].fd # NoHandle
    BY <1>1 DEF Local, KnowsFile, InCall
  <2>2. loc[u].fd = loc[t].fd /\ loc[t].call.op \in {"close", "copy"}
    BY <2>1 DEF Guarantee
  <2>3. loc[t].call.op \in {"read", "write"}
    BY <2>1, <2>2 DEF IInv, KeptApart
  <2> QED BY <2>2, <2>3
<1> QED BY <1>1, <1>2, <1>3, <1>4, <1>5 DEF KnowsFile

(* A step that keeps the guarantee leaves what the other threads know.        *)
LEMMA OthersKept ==
  ASSUME IInv, NEW t \in Threads, Guarantee(t), NEW u \in Threads, t # u
  PROVE  Local(u)'
<1>1. InCall(u) /\ pc'[u] = pc[u] /\ loc'[u] = loc[u]
  BY DEF IInv, Local, Guarantee, Moves
<1>2. InCall(u)'
  BY <1>1, Zenon DEF InCall, LooksUp, CallsOf, Opens
<1> QED BY <1>2, OthersHold, OthersKnowDir, OthersKnowFile DEF Local

-----------------------------------------------------------------------------
(* Steps that change no table: they move a thread and take locks.             *)

(* A thread that returned knows nothing.                                      *)
LEMMA IdleLocal ==
  ASSUME NEW t \in Threads, Now(t, "idle", NoCall, NoName, NoHandle, -1, 0)
  PROVE  Local(t)'
<1>1. pc'[t] = "idle" /\ loc'[t].call.op = "none" /\ loc'[t].fd = NoHandle
  BY DEF Now, NoCall
<1> QED BY <1>1 DEF Local, InCall, Holds, KnowsDir, KnowsFile, OpenPCs, RootPCs, FluxPCs,
              FoundPCs, FdPCs

(* A call under way keeps its parameters and its handle until it returns.     *)
LEMMA ApartKept ==
  ASSUME IInv, NEW t \in Threads, NEW to, NEW call, NEW name, NEW fd, NEW inum, NEW offset,
         Now(t, to, call, name, fd, inum, offset),
         call \in {loc[t].call, NoCall}, fd \in {loc[t].fd, NoHandle},
         fd # NoHandle => call = loc[t].call
  PROVE  KeptApart'
<1>1. KeptApart
  BY DEF IInv
<1>2. \A u \in Threads : \/ loc'[u].call = loc[u].call
                         \/ loc'[u].call.op = "none"
  BY DEF Now, Moves, NoCall
<1>3. \A u \in Threads : \/ loc'[u].fd = NoHandle
                         \/ loc'[u].fd = loc[u].fd /\ loc'[u].call = loc[u].call
  BY DEF Now, Moves
<1>4. \A u, v \in Threads : ~OpenVersusUnlink(loc[u].call, loc[v].call)'
  BY <1>1, <1>2 DEF KeptApart, OpenVersusUnlink, Opens, LooksUp, CallsOf
<1> QED BY <1>1, <1>3, <1>4 DEF KeptApart

(* Directory, inodes and blocks are as consistent as before while they are    *)
(* the same and the same thread is about to change a link count.              *)
LEMMA SameFiles ==
  ASSUME IInv, NEW t \in Threads, Moves(t),
         UNCHANGED <<inodes, dir, blocks>>,
         pc[t] \in FluxPCs <=> pc'[t] \in FluxPCs,
         pc[t] \in FluxPCs => loc'[t].inum = loc[t].inum,
         HandlesNamed'
  PROVE  TablesInv'
<1>1. TablesInv
  BY DEF IInv
<1>2. UNCHANGED <<inode_table, freeinode_ts, dir, free_blocks, fs_data>>
  BY DEF inodes, blocks
<1>3. \A i : InFlux(i)' <=> InFlux(i)
  BY DEF InFlux, Moves
<1>4. (RootKept /\ EntriesLive /\ NamesUnique /\ LinksResolved)'
  BY <1>1, <1>2, Zenon DEF TablesInv, RootKept, EntriesLive, NamesUnique, LinksResolved,
                           Taken, IsLink
<1>5. BlocksOwned'
  <2>1. Owners' = Owners
    BY <1>2 DEF Owners
  <2> QED BY <1>1, <1>2, <2>1 DEF TablesInv, BlocksOwned
<1>6. Counted'
  <2>1. \A i : Entries(i)' = Entries(i)
    BY <1>2 DEF Entries
  <2>2. Taken' = Taken
    BY <1>2 DEF Taken
  <2> QED BY <1>1, <1>2, <1>3, <2>1, <2>2 DEF TablesInv, Counted
<1> QED BY <1>4, <1>5, <1>6 DEF TablesInv

(* The same for the open files, while the same threads are about to fill in a *)
(* handle.                                                                    *)
LEMMA SameTables ==
  ASSUME IInv, NEW t \in Threads, Moves(t),
         UNCHANGED <<inodes, dir, blocks, handles>>,
         pc[t] # "o_entry", pc'[t] # "o_entry",
         pc[t] \in FluxPCs <=> pc'[t] \in FluxPCs,
         pc[t] \in FluxPCs => loc'[t].inum = loc[t].inum
  PROVE  TablesInv'
<1>1. UNCHANGED <<inode_table, dir, open_file_table, free_open_file_entries>>
  BY DEF inodes, handles
<1>2. \A h : Pending(h)' <=> Pending(h)
  BY DEF Pending, Moves
<1>3. HandlesNamed'
  BY <1>1, <1>2 DEF IInv, TablesInv, HandlesNamed, IsOpenHandle, IsLink, Entries
<1> QED BY <1>3, SameFiles

(* Nobody loses a lock to a thread that takes a free one.                     *)
LEMMA Locked ==
  ASSUME TypeOK, NEW t \in Threads, NEW i \in Inodes, LockInode(t, i)
  PROVE  /\ inode_rwl' \in [Inodes -> Threads \cup {Nobody}]
         /\ \A j \in Inodes : inode_rwl'[j] = inode_rwl[j] \/ inode_rwl[j] \in {Nobody, t}
         /\ inode_rwl'[i] = t
<1>1. inode_rwl \in [Inodes -> Threads \cup {Nobody}]
  BY DEF TypeOK
<1> QED BY <1>1 DEF LockInode, Free

LEMMA ControlStep ==
  ASSUME IInv, NEW t \in Threads, NEW to, NEW call, NEW name, NEW fd, NEW inum, NEW offset,
         Now(t, to, call, name, fd, inum, offset),
         UNCHANGED <<inodes, dir, blocks, handles, open_file_table_rwl>>,
         calls' \in 0..MaxCalls, fault' = fault,
         inode_rwl' \in [Inodes -> Threads \cup {Nobody}],
         \A i \in Inodes : inode_rwl'[i] = inode_rwl[i] \/ inode_rwl[i] \in {Nobody, t},
         entry_lock' \in [Handles -> Threads \cup {Nobody}],
         pc[t] # "o_entry", to # "o_entry",
         pc[t] \in FluxPCs <=> to \in FluxPCs, pc[t] \in FluxPCs => inum = loc[t].inum,
         Local(t)', KeptApart'
  PROVE  IInv'
<1>1. UNCHANGED <<inode_table, freeinode_ts, dir, free_blocks, fs_data, open_file_table,
                  free_open_file_entries, open_file_table_rwl>>
  BY DEF inodes, blocks, handles
<1>2. TypeOK'
  BY <1>1 DEF IInv, TypeOK, Now
<1>3. Guarantee(t)
  BY <1>1 DEF Guarantee, Now, Taken
<1>4. \A u \in Threads : Local(u)'
  BY <1>3, OthersKept
<1>5. TablesInv'
  BY SameTables DEF Now
<1> QED BY <1>2, <1>4, <1>5 DEF IInv, Now

(* The next lock of tfs_open, tfs_link, tfs_sym_link and tfs_unlink is the    *)
(* root's.                                                                    *)
LEMMA RootIndex ==
  ASSUME TypeOK
  PROVE  ROOT_DIR_INUM \in Inodes \ freeinode_ts /\ -1 \notin Inodes /\ -1 \notin Handles
  BY SizesAssumption DEF TypeOK, Inodes, ROOT_DIR_INUM, Handles

(* A step that returns without a change of the tables, and may release locks. *)
LEMMA ReturnUnlocks ==
  ASSUME IInv, NEW t \in Threads, Return(t),
         UNCHANGED <<inodes, dir, blocks, handles, open_file_table_rwl, calls, fault>>,
         inode_rwl' \in [Inodes -> Threads \cup {Nobody}],
         \A i \in Inodes : inode_rwl'[i] = inode_rwl[i] \/ inode_rwl[i] \in {Nobody, t},
         entry_lock' \in [Handles -> Threads \cup {Nobody}],
         pc[t] \notin FluxPCs \cup {"o_entry"}
  PROVE  IInv'
<1>1. TypeOK /\ loc \in [Threads -> LocType]
  BY DEF IInv
<1>2. Now(t, "idle", NoCall, NoName, NoHandle, -1, 0)
  BY <1>1, Returned
<1>3. Local(t)' /\ KeptApart'
  BY <1>2, IdleLocal, ApartKept
<1>4. calls' \in 0..MaxCalls
  BY <1>1 DEF TypeOK
<1>5. "idle" \notin FluxPCs
  BY DEF FluxPCs
<1> QED BY <1>2, <1>3, <1>4, <1>5, ControlStep

LEMMA ReturnStep ==
  ASSUME IInv, NEW t \in Threads, Return(t),
         UNCHANGED <<inodes, dir, blocks, handles, inode_rwl, open_file_table_rwl, calls,
                     fault>>,
         entry_lock' \in [Handles -> Threads \cup {Nobody}],
         pc[t] \notin FluxPCs \cup {"o_entry"}
  PROVE  IInv'
<1>1. /\ inode_rwl' \in [Inodes -> Threads \cup {Nobody}]
      /\ \A i \in Inodes : inode_rwl'[i] = inode_rwl[i]
  BY DEF IInv, TypeOK
<1> QED BY <1>1, ReturnUnlocks

LEMMA O_LookupStep ==
  ASSUME IInv, NEW t \in Threads, O_Lookup(t), UNCHANGED calls
  PROVE  IInv'
<1>1. /\ TypeOK /\ loc \in [Threads -> LocType] /\ Local(t)
      /\ pc[t] = "o_lookup"
      /\ UNCHANGED <<inodes, dir, blocks, handles, entry_lock, open_file_table_rwl, fault>>
  BY DEF IInv, O_Lookup
<1>2. /\ calls' \in 0..MaxCalls
      /\ entry_lock' \in [Handles -> Threads \cup {Nobody}]
      /\ inode_rwl \in [Inodes -> Threads \cup {Nobody}]
  BY <1>1 DEF TypeOK
<1>3. loc[t].fd = NoHandle /\ "o_inode" \in StepPCs /\ "o_create" \in StepPCs
  BY <1>1 DEF Local, InCall, FdPCs, StepPCs
<1>4. pc[t] \notin FluxPCs /\ "o_inode" \notin FluxPCs /\ "o_create" \notin FluxPCs
  BY <1>1 DEF FluxPCs
<1> DEFINE i == find_in_dir(loc[t].name)
<1>5. CASE /\ i # -1 /\ Goto(t, "o_inode") /\ loc' = [loc EXCEPT ![t].inum = i]
           /\ UNCHANGED inode_rwl
  <2>1. NamedAs(loc[t].name, i) /\ i \in Inodes
    BY <1>1, <1>5, Found
  <2>2. Now(t, "o_inode", loc[t].call, loc[t].name, loc[t].fd, i, loc[t].offset)
    BY <1>1, <1>3, <1>5, <2>1, SetInum DEF Goto
  <2>3. /\ pc'[t] = "o_inode" /\ loc'[t].call = loc[t].call /\ loc'[t].name = loc[t].name
        /\ loc'[t].fd = NoHandle /\ loc'[t].inum = i
    BY <1>3, <2>2 DEF Now
  <2>4. InCall(t)'
    BY <1>1, <2>3 DEF Local, InCall, OpenPCs, FdPCs, LooksUp, CallsOf, Opens
  <2>5. NamedAs(loc[t].name, loc[t].inum)'
    BY <1>1, <2>1, <2>3 DEF NamedAs, EntriesOf
  <2>6. Local(t)'
    BY <2>3, <2>4, <2>5 DEF Local, Holds, KnowsDir, KnowsFile, RootPCs, FluxPCs, FoundPCs,
                            FdPCs
  <2>7. KeptApart'
    BY <2>2, ApartKept
  <2> QED BY <1>1, <1>2, <1>4, <1>5, <2>2, <2>6, <2>7, ControlStep
<1>6. CASE i = -1 /\ LockInode(t, ROOT_DIR_INUM) /\ Goto(t, "o_create") /\ UNCHANGED loc
  <2>1. EntriesOf(loc[t].name) = {}
    BY <1>1, <1>6, Found
  <2>2. Now(t, "o_create", loc[t].call, loc[t].name, loc[t].fd, loc[t].inum, loc[t].offset)
    BY <1>1, <1>3, <1>6, Stays DEF Goto
  <2>3. pc'[t] = "o_create" /\ loc'[t] = loc[t] /\ loc[t].fd = NoHandle
    BY <1>3, <1>6, <2>2 DEF Now
  <2>4. InCall(t)'
    BY <1>1, <2>3 DEF Local, InCall, OpenPCs, FdPCs, LooksUp, CallsOf, Opens
  <2>5. EntriesOf(loc[t].name)' = {}
    BY <1>1, <2>1, <2>3 DEF EntriesOf
  <2>6. /\ inode_rwl' \in [Inodes -> Threads \cup {Nobody}]
        /\ \A j \in Inodes : inode_rwl'[j] = inode_rwl[j] \/ inode_rwl[j] \in {Nobody, t}
        /\ inode_rwl'[ROOT_DIR_INUM] = t
    BY <1>1, <1>6, RootIndex, Locked
  <2>7. Local(t)'
    BY <2>3, <2>4, <2>5, <2>6 DEF Local, Holds, KnowsDir, KnowsFile, RootPCs, FluxPCs,
                                  FoundPCs, FdPCs
  <2>8. KeptApart'
    BY <2>2, ApartKept
  <2> QED BY <1>1, <1>2, <1>4, <2>2, <2>6, <2>7, <2>8, ControlStep
<1>7. CASE Return(t) /\ UNCHANGED inode_rwl
  <2>1. pc[t] \notin FluxPCs \cup {"o_entry"}
    BY <1>1, <1>4
  <2> QED BY <1>1, <1>2, <1>7, <2>1, ReturnStep
<1> QED BY <1>5, <1>6, <1>7 DEF O_Lookup

\* the first step of tfs_link and of tfs_sym_link
LEMMA LookupStep ==
  ASSUME IInv, NEW t \in Threads, UNCHANGED calls, NEW from, NEW to,
         <<from, to>> \in {<<"y_lookup", "y_create">>, <<"k_lookup", "k_inode">>},
         Lookup(t, from, to)
  PROVE  IInv'
<1>1. /\ TypeOK /\ loc \in [Threads -> LocType] /\ Local(t)
      /\ pc[t] = from
      /\ UNCHANGED <<inodes, dir, blocks, handles, entry_lock, open_file_table_rwl, fault>>
  BY DEF IInv, Lookup
<1>2. /\ calls' \in 0..MaxCalls
      /\ entry_lock' \in [Handles -> Threads \cup {Nobody}]
      /\ inode_rwl \in [Inodes -> Threads \cup {Nobody}]
  BY <1>1 DEF TypeOK
<1>3. \/ from = "y_lookup" /\ to = "y_create"
      \/ from = "k_lookup" /\ to = "k_inode"
  OBVIOUS
<1>4. loc[t].fd = NoHandle /\ to \in StepPCs /\ to # "o_entry"
  BY <1>1, <1>3 DEF Local, InCall, FdPCs, StepPCs
<1>5. pc[t] \notin FluxPCs \cup {"o_entry"} /\ to \notin FluxPCs
  BY <1>1, <1>3 DEF FluxPCs
<1> DEFINE target == loc[t].call.target
           i == find_in_dir(target)
<1>6. CASE /\ MayLink(loc[t].call) /\ LockInode(t, ROOT_DIR_INUM) /\ Goto(t, to)
           /\ loc' = [loc EXCEPT ![t].inum = i]
  <2>1. loc[t].name = loc[t].call.name
    BY <1>1, <1>3 DEF Local, InCall
  <2>2. EntriesOf(loc[t].name) = {} /\ NamedAs(target, i) /\ i \in Inodes
    BY <1>1, <1>6, <2>1, Found DEF MayLink
  <2>3. Now(t, to, loc[t].call, loc[t].name, loc[t].fd, i, loc[t].offset)
    BY <1>1, <1>4, <1>6, <2>2, SetInum DEF Goto
  <2>4. /\ pc'[t] = to /\ loc'[t].call = loc[t].call /\ loc'[t].name = loc[t].name
        /\ loc'[t].fd = NoHandle /\ loc'[t].inum = i
    BY <1>4, <2>3 DEF Now
  <2>5. InCall(t)'
    BY <1>1, <1>3, <2>4 DEF Local, InCall, OpenPCs, FdPCs
  <2>6. NamedAs(loc[t].call.target, loc[t].inum)'
    BY <1>1, <2>2, <2>4 DEF NamedAs, EntriesOf
  <2>7. EntriesOf(loc[t].name)' = {}
    BY <1>1, <2>2, <2>4 DEF EntriesOf
  <2>8. EntriesOf(loc[t].call.target)' # {}
    BY <2>6 DEF NamedAs
  <2>9. /\ inode_rwl' \in [Inodes -> Threads \cup {Nobody}]
        /\ \A j \in Inodes : inode_rwl'[j] = inode_rwl[j] \/ inode_rwl[j] \in {Nobody, t}
        /\ inode_rwl'[ROOT_DIR_INUM] = t
    BY <1>1, <1>6, RootIndex, Locked
  <2>10. Local(t)'
    BY <1>3, <2>4, <2>5, <2>6, <2>7, <2>8, <2>9
       DEF Local, Holds, KnowsDir, KnowsFile, RootPCs, FluxPCs, FoundPCs, FdPCs
  <2>11. KeptApart'
    BY <2>3, ApartKept
  <2> QED BY <1>1, <1>2, <1>4, <1>5, <2>3, <2>9, <2>10, <2>11, ControlStep
<1>7. CASE Return(t) /\ UNCHANGED inode_rwl
  BY <1>1, <1>2, <1>5, <1>7, ReturnStep
<1> QED BY <1>6, <1>7 DEF Lookup

LEMMA U_LookupStep ==
  ASSUME IInv, NEW t \in Threads, UNCHANGED calls, U_Lookup(t)
  PROVE  IInv'
<1>1. /\ TypeOK /\ loc \in [Threads -> LocType] /\ Local(t)
      /\ pc[t] = "u_lookup"
      /\ UNCHANGED <<inodes, dir, blocks, handles, entry_lock, open_file_table_rwl, fault>>
  BY DEF IInv, U_Lookup
<1>2. /\ calls' \in 0..MaxCalls
      /\ entry_lock' \in [Handles -> Threads \cup {Nobody}]
  BY <1>1 DEF TypeOK
<1>3. loc[t].fd = NoHandle /\ "u_open" \in StepPCs
  BY <1>1 DEF Local, InCall, FdPCs, StepPCs
<1>4. pc[t] \notin FluxPCs \cup {"o_entry"} /\ "u_open" \notin FluxPCs
  BY <1>1 DEF FluxPCs
<1> DEFINE i == find_in_dir(loc[t].name)
<1>5. CASE /\ i # -1 /\ LockInode(t, ROOT_DIR_INUM) /\ Goto(t, "u_open")
           /\ loc' = [loc EXCEPT ![t].inum = i]
  <2>1. NamedAs(loc[t].name, i) /\ i \in Inodes
    BY <1>1, <1>5, Found
  <2>2. Now(t, "u_open", loc[t].call, loc[t].name, loc[t].fd, i, loc[t].offset)
    BY <1>1, <1>3, <1>5, <2>1, SetInum DEF Goto
  <2>3. /\ pc'[t] = "u_open" /\ loc'[t].call = loc[t].call /\ loc'[t].name = loc[t].name
        /\ loc'[t].fd = NoHandle /\ loc'[t].inum = i
    BY <1>3, <2>2 DEF Now
  <2>4. InCall(t)'
    BY <1>1, <2>3 DEF Local, InCall, OpenPCs, FdPCs
  <2>5. NamedAs(loc[t].name, loc[t].inum)'
    BY <1>1, <2>1, <2>3 DEF NamedAs, EntriesOf
  <2>6. /\ inode_rwl' \in [Inodes -> Threads \cup {Nobody}]
        /\ \A j \in Inodes : inode_rwl'[j] = inode_rwl[j] \/ inode_rwl[j] \in {Nobody, t}
        /\ inode_rwl'[ROOT_DIR_INUM] = t
    BY <1>1, <1>5, RootIndex, Locked
  <2>7. Local(t)'
    BY <2>3, <2>4, <2>5, <2>6 DEF Local, Holds, KnowsDir, KnowsFile, RootPCs, FluxPCs,
                                  FoundPCs, FdPCs
  <2>8. KeptApart'
    BY <2>2, ApartKept
  <2> QED BY <1>1, <1>2, <1>4, <2>2, <2>6, <2>7, <2>8, ControlStep
<1>6. CASE Return(t) /\ UNCHANGED inode_rwl
  BY <1>1, <1>2, <1>4, <1>6, ReturnStep
<1> QED BY <1>5, <1>6 DEF U_Lookup

(* The name a link stands for is one that its open may look up: links are     *)
(* not chained.                                                               *)
LEMMA LinkFollowed ==
  ASSUME IInv, NEW t \in Threads, pc[t] = "o_inode", IsLink(loc[t].inum)
  PROVE  /\ inode_table[loc[t].inum].i_data_block # -1
         /\ fs_data[inode_table[loc[t].inum].i_data_block] \in LooksUp(loc[t].call.name)
         /\ fs_data[inode_table[loc[t].inum].i_data_block] \in Names
<1>1. PICK s \in Slots : /\ dir[s].d_inumber # -1 /\ dir[s].d_name = loc[t].name
                         /\ dir[s].d_inumber = loc[t].inum
  BY DEF IInv, Local, KnowsFile, NamedAs, EntriesOf, FoundPCs
<1>2. LinksResolved
  BY DEF IInv, TablesInv
<1>3. PICK c \in CallsOf("sym_link") :
         /\ c.name = loc[t].name
         /\ c.target = fs_data[inode_table[loc[t].inum].i_data_block]
  BY <1>1, <1>2 DEF LinksResolved
<1>4. loc[t].name \in LooksUp(loc[t].call.name)
  BY DEF IInv, Local, InCall, OpenPCs
<1>5. loc[t].name = loc[t].call.name
  BY <1>3, <1>4, NoLinkChains DEF LooksUp, CallsOf
<1>6. c.target \in Names
  BY <1>3, CallFacts DEF CallsOf
<1> QED BY <1>1, <1>2, <1>3, <1>5, <1>6 DEF LinksResolved, LooksUp, CallsOf

LEMMA O_InodeStep ==
  ASSUME IInv, NEW t \in Threads, UNCHANGED calls, O_Inode(t)
  PROVE  IInv'
<1>1. /\ TypeOK /\ loc \in [Threads -> LocType] /\ Local(t)
      /\ pc[t] = "o_inode"
      /\ UNCHANGED <<inodes, dir, blocks, handles, entry_lock, open_file_table_rwl>>
  BY DEF IInv, O_Inode
<1>2. /\ calls' \in 0..MaxCalls
      /\ entry_lock' \in [Handles -> Threads \cup {Nobody}]
      /\ inode_rwl \in [Inodes -> Threads \cup {Nobody}]
  BY <1>1 DEF TypeOK
<1>3. loc[t].fd = NoHandle /\ {"o_lookup", "o_trunc", "o_add"} \subseteq StepPCs
  BY <1>1 DEF Local, InCall, FdPCs, StepPCs
<1>4. /\ pc[t] \notin FluxPCs \cup {"o_entry"}
      /\ {"o_lookup", "o_trunc", "o_add"} \cap FluxPCs = {}
  BY <1>1 DEF FluxPCs
<1> DEFINE i == loc[t].inum
           name == fs_data[inode_table[i].i_data_block]
<1>5. NamedAs(loc[t].name, i) /\ i \in Taken /\ i \in Inodes
  BY <1>1, NamedTaken DEF Local, KnowsFile, FoundPCs
<1>6. NamedAs(loc[t].name, i)'
      <=> \E s \in Slots : dir[s].d_inumber # -1 /\ dir[s].d_name = loc'[t].name
                           /\ dir[s].d_inumber = loc'[t].inum
  BY <1>1 DEF NamedAs, EntriesOf
<1>7. CASE Return(t) /\ UNCHANGED <<inode_rwl, fault>>
  BY <1>1, <1>2, <1>4, <1>7, ReturnStep
<1>8. CASE /\ IsLink(i) /\ Goto(t, "o_lookup") /\ loc' = [loc EXCEPT ![t].name = name]
           /\ UNCHANGED <<inode_rwl, fault>>
  <2>1. name \in LooksUp(loc[t].call.name) /\ name \in Names
    BY <1>1, <1>8, LinkFollowed
  <2>2. Now(t, "o_lookup", loc[t].call, name, loc[t].fd, loc[t].inum, loc[t].offset)
    BY <1>1, <1>3, <1>8, <2>1, SetName DEF Goto
  <2>3. /\ pc'[t] = "o_lookup" /\ loc'[t].call = loc[t].call /\ loc'[t].name = name
        /\ loc'[t].fd = NoHandle
    BY <1>3, <2>2 DEF Now
  <2>4. InCall(t)'
    BY <1>1, <2>1, <2>3 DEF Local, InCall, OpenPCs, FdPCs, LooksUp, CallsOf, Opens
  <2>5. Local(t)'
    BY <2>3, <2>4 DEF Local, Holds, KnowsDir, KnowsFile, RootPCs, FluxPCs, FoundPCs, FdPCs
  <2>6. KeptApart'
    BY <2>2, ApartKept
  <2> QED BY <1>1, <1>2, <1>4, <1>8, <2>2, <2>5, <2>6, ControlStep
<1>9. CASE /\ ~IsLink(i) /\ inode_table[i].i_size > 0
           /\ LockInode(t, i) /\ Goto(t, "o_trunc") /\ UNCHANGED <<loc, fault>>
  <2>1. Now(t, "o_trunc", loc[t].call, loc[t].name, loc[t].fd, loc[t].inum, loc[t].offset)
    BY <1>1, <1>3, <1>9, Stays DEF Goto
  <2>2. pc'[t] = "o_trunc" /\ loc'[t] = loc[t] /\ loc[t].fd = NoHandle
    BY <1>3, <1>9, <2>1 DEF Now
  <2>3. InCall(t)'
    BY <1>1, <2>2 DEF Local, InCall, OpenPCs, FdPCs, LooksUp, CallsOf, Opens
  <2>4. /\ inode_rwl' \in [Inodes -> Threads \cup {Nobody}]
        /\ \A j \in Inodes : inode_rwl'[j] = inode_rwl[j] \/ inode_rwl[j] \in {Nobody, t}
        /\ inode_rwl'[i] = t
    BY <1>1, <1>5, <1>9, Locked
  <2>5. NamedAs(loc[t].name, loc[t].inum)'
    BY <1>5, <1>6, <2>2 DEF NamedAs, EntriesOf
  <2>6. inode_table' = inode_table
    BY <1>1 DEF inodes
  <2>7. Local(t)'
    BY <1>9, <2>2, <2>3, <2>4, <2>5, <2>6
       DEF Local, Holds, KnowsDir, KnowsFile, RootPCs, FluxPCs, FoundPCs, FdPCs, IsLink
  <2>8. KeptApart'
    BY <2>1, ApartKept
  <2> QED BY <1>1, <1>2, <1>4, <1>9, <2>1, <2>4, <2>7, <2>8, ControlStep
<1>10. ASSUME NEW o \in 0..BLOCK_SIZE,
              ~IsLink(i), Goto(t, "o_add"), loc' = [loc EXCEPT ![t].offset = o],
              UNCHANGED <<inode_rwl, fault>>
       PROVE  IInv'
  <2>1. Now(t, "o_add", loc[t].call, loc[t].name, loc[t].fd, loc[t].inum, o)
    BY <1>1, <1>3, <1>10, SetOffset DEF Goto
  <2>2. /\ pc'[t] = "o_add" /\ loc'[t].call = loc[t].call /\ loc'[t].name = loc[t].name
        /\ loc'[t].fd = NoHandle /\ loc'[t].inum = i
    BY <1>3, <2>1 DEF Now
  <2>3. InCall(t)'
    BY <1>1, <2>2 DEF Local, InCall, OpenPCs, FdPCs, LooksUp, CallsOf, Opens
  <2>4. NamedAs(loc[t].name, loc[t].inum)'
    BY <1>5, <1>6, <2>2 DEF NamedAs, EntriesOf
  <2>5. inode_table' = inode_table
    BY <1>1 DEF inodes
  <2>6. Local(t)'
    BY <1>10, <2>2, <2>3, <2>4, <2>5
       DEF Local, Holds, KnowsDir, KnowsFile, RootPCs, FluxPCs, FoundPCs, FdPCs, IsLink
  <2>7. KeptApart'
    BY <2>1, ApartKept
  <2> QED BY <1>1, <1>2, <1>4, <1>10, <2>1, <2>6, <2>7, ControlStep
<1>11. inode_table[i].i_size \in 0..BLOCK_SIZE /\ 0 \in 0..BLOCK_SIZE
  BY <1>1, <1>5, SizesAssumption DEF TypeOK
<1>12. IsLink(i) => inode_table[i].i_data_block # -1
  BY <1>1, LinkFollowed
<1>13. CASE ~IsLink(i) /\ Goto(t, "o_add") /\ UNCHANGED <<inode_rwl, fault>>
            /\ loc' = [loc EXCEPT ![t].offset =
                          IF "APPEND" \in loc[t].call.mode THEN inode_table[i].i_size ELSE 0]
  BY <1>10, <1>11, <1>13
<1> QED BY <1>7, <1>8, <1>9, <1>12, <1>13 DEF O_Inode, IsLink

\* the steps of tfs_write, tfs_read and tfs_close that change no table
LEMMA UseStep ==
  ASSUME IInv, NEW t \in Threads, UNCHANGED <<calls, fault>>, NEW to,
         Goto(t, to), UNCHANGED loc,
         UNCHANGED <<inodes, dir, blocks, handles, open_file_table_rwl>>,
         inode_rwl' \in [Inodes -> Threads \cup {Nobody}],
         \A j \in Inodes : inode_rwl'[j] = inode_rwl[j] \/ inode_rwl[j] \in {Nobody, t},
         entry_lock' \in [Handles -> Threads \cup {Nobody}],
         \/ pc[t] = "w_get" /\ to = "w_entry"
         \/ pc[t] = "w_entry" /\ to = "w_inode"
         \/ pc[t] = "r_entry" /\ to = "r_copy"
         \/ /\ pc[t] \in {"w_inode", "w_copy"} /\ to = "c_remove"
            /\ loc[t].call.op = "copy"
         \/ /\ pc[t] = "w_inode" /\ to = "w_copy"
            /\ inode_rwl'[open_file_table[loc[t].fd].of_inumber] = t
  PROVE  IInv'
<1>1. /\ TypeOK /\ loc \in [Threads -> LocType] /\ Local(t)
  BY DEF IInv
<1>2. to \in StepPCs /\ pc[t] # "o_entry" /\ to # "o_entry"
  BY DEF StepPCs
<1>3. pc[t] \notin FluxPCs /\ to \notin FluxPCs /\ pc[t] \in FdPCs /\ to \in FdPCs
  BY DEF FluxPCs, FdPCs
<1>4. Now(t, to, loc[t].call, loc[t].name, loc[t].fd, loc[t].inum, loc[t].offset)
  BY <1>1, <1>2, Stays DEF Goto
<1>5. /\ pc'[t] = to /\ loc'[t] = loc[t]
      /\ open_file_table' = open_file_table
      /\ free_open_file_entries' = free_open_file_entries
  BY <1>4 DEF Now, handles
<1>6. InCall(t)'
  BY <1>1, <1>3, <1>5 DEF Local, InCall, OpenPCs
<1>7. Holds(t)' /\ KnowsDir(t)'
  BY <1>5 DEF Holds, KnowsDir, RootPCs, FluxPCs
<1>8. KnowsFile(t)'
  BY <1>1, <1>3, <1>5 DEF Local, KnowsFile, FoundPCs
<1>9. KeptApart'
  BY <1>4, ApartKept
<1>10. calls' \in 0..MaxCalls /\ Local(t)'
  BY <1>1, <1>6, <1>7, <1>8 DEF TypeOK, Local
<1> QED BY <1>2, <1>3, <1>4, <1>9, <1>10, ControlStep

LEMMA W_GetStep ==
  ASSUME IInv, NEW t \in Threads, UNCHANGED calls, W_Get(t)
  PROVE  IInv'
<1>1. /\ pc[t] = "w_get"
      /\ UNCHANGED <<inodes, dir, blocks, handles, inode_rwl, entry_lock,
                     open_file_table_rwl, fault>>
  BY DEF W_Get, locks
<1>2. /\ inode_rwl' \in [Inodes -> Threads \cup {Nobody}]
      /\ entry_lock' \in [Handles -> Threads \cup {Nobody}]
  BY <1>1 DEF IInv, TypeOK
<1>3. pc[t] \notin FluxPCs \cup {"o_entry"}
  BY <1>1 DEF FluxPCs
<1>4. CASE Goto(t, "w_entry") /\ UNCHANGED loc
  BY <1>1, <1>2, <1>4, UseStep
<1>5. CASE Return(t)
  BY <1>1, <1>2, <1>3, <1>5, ReturnStep
<1> QED BY <1>4, <1>5 DEF W_Get

LEMMA LockEntryStep ==
  ASSUME IInv, NEW t \in Threads, UNCHANGED calls, W_Entry(t) \/ R_Entry(t)
  PROVE  IInv'
<1>1. PICK from, to : /\ LockEntry(t, from, to)
                      /\ \/ from = "w_entry" /\ to = "w_inode"
                         \/ from = "r_entry" /\ to = "r_copy"
  BY DEF W_Entry, R_Entry
<1>2. /\ pc[t] = from /\ Goto(t, to)
      /\ UNCHANGED <<inodes, dir, blocks, handles, inode_rwl, open_file_table_rwl, loc, fault>>
      /\ entry_lock' = [entry_lock EXCEPT ![loc[t].fd] = t]
  BY <1>1 DEF LockEntry
<1>3. /\ inode_rwl' \in [Inodes -> Threads \cup {Nobody}]
      /\ entry_lock' \in [Handles -> Threads \cup {Nobody}]
  BY <1>2 DEF IInv, TypeOK
<1> QED BY <1>1, <1>2, <1>3, UseStep

(* The end of tfs_write: the call returns, or tfs_copy_from_external_fs goes  *)
(* on to close its handle.                                                    *)
LEMMA WriteEnds ==
  ASSUME IInv, NEW t \in Threads, pc[t] \in {"w_inode", "w_copy"}, WriteReturns(t)
  PROVE  \/ Return(t)
         \/ Goto(t, "c_remove") /\ UNCHANGED loc /\ loc[t].call.op = "copy"
  BY DEF WriteReturns

LEMMA W_InodeStep ==
  ASSUME IInv, NEW t \in Threads, UNCHANGED calls, W_Inode(t)
  PROVE  IInv'
<1>1. /\ pc[t] = "w_inode"
      /\ UNCHANGED <<inodes, dir, blocks, handles, open_file_table_rwl, fault>>
  BY DEF W_Inode
<1>2. /\ inode_rwl \in [Inodes -> Threads \cup {Nobody}]
      /\ entry_lock \in [Handles -> Threads \cup {Nobody}]
      /\ TypeOK
  BY DEF IInv, TypeOK
<1>3. pc[t] \notin FluxPCs \cup {"o_entry"} /\ pc[t] \in FdPCs \ {"o_entry"}
  BY <1>1 DEF FluxPCs, FdPCs
<1>4. CASE UnlockEntry(t) /\ WriteReturns(t) /\ UNCHANGED inode_rwl
  <2>1. entry_lock' \in [Handles -> Threads \cup {Nobody}]
    BY <1>2, <1>4 DEF UnlockEntry
  <2>2. CASE Return(t)
    BY <1>1, <1>2, <1>3, <1>4, <2>1, <2>2, ReturnStep
  <2>3. CASE Goto(t, "c_remove") /\ UNCHANGED loc /\ loc[t].call.op = "copy"
    BY <1>1, <1>2, <1>4, <2>1, <2>3, UseStep
  <2> QED BY <1>1, <1>4, <2>2, <2>3, WriteEnds
<1>5. CASE /\ LockInode(t, open_file_table[loc[t].fd].of_inumber)
           /\ Goto(t, "w_copy") /\ UNCHANGED <<entry_lock, loc>>
  <2>1. open_file_table[loc[t].fd].of_inumber \in Inodes
    BY <1>3, HandleUsed DEF Taken
  <2>2. /\ inode_rwl' \in [Inodes -> Threads \cup {Nobody}]
        /\ \A j \in Inodes : inode_rwl'[j] = inode_rwl[j] \/ inode_rwl[j] \in {Nobody, t}
        /\ inode_rwl'[open_file_table[loc[t].fd].of_inumber] = t
    BY <1>2, <1>5, <2>1, Locked
  <2> QED BY <1>1, <1>2, <1>5, <2>2, UseStep
<1> QED BY <1>4, <1>5 DEF W_Inode

(* A call starts: callers that do not race choose one that conflicts with     *)
(* none under way.                                                            *)
LEMMA CallStep ==
  ASSUME IInv, ~CallersRace, NEW t \in Threads, NEW c \in Calls, Call(t, c)
  PROVE  IInv'
<1>1. /\ TypeOK /\ loc \in [Threads -> LocType] /\ Local(t)
      /\ pc[t] = "idle"
      /\ UNCHANGED <<inodes, dir, blocks, handles, inode_rwl, entry_lock,
                     open_file_table_rwl, fault>>
      /\ calls < MaxCalls /\ calls' = calls + 1
  BY DEF IInv, Call, locks
<1>2. /\ calls' \in 0..MaxCalls
      /\ entry_lock' \in [Handles -> Threads \cup {Nobody}]
      /\ inode_rwl' \in [Inodes -> Threads \cup {Nobody}]
  BY <1>1, CallersAssumption DEF TypeOK
<1> DEFINE name == IF Uses(c) THEN NoName ELSE c.name
           fd == IF Uses(c) THEN c.fd ELSE NoHandle
           l == [call |-> c, name |-> name, fd |-> fd, inum |-> -1, offset |-> 0]
<1>3. /\ c.op \in {"open", "copy", "link", "sym_link", "unlink", "close", "read", "write"}
      /\ ~Uses(c) => c.name \in Names
      /\ Uses(c) => c.fd \in Handles /\ c.fd \notin free_open_file_entries
  BY CallFacts DEF Uses, Call, IsOpenHandle
<1>4. l \in LocType
  BY <1>3, SizesAssumption DEF LocType
<1>5. [NoLocals EXCEPT !.call = c, !.name = name, !.fd = fd] = l
  <2> HIDE DEF name, fd
  <2>1. [NoLocals EXCEPT !.call = c] =
           [call |-> c, name |-> NoName, fd |-> NoHandle, inum |-> -1, offset |-> 0]
    BY DEF NoLocals
  <2>2. [[call |-> c, name |-> NoName, fd |-> NoHandle, inum |-> -1, offset |-> 0]
            EXCEPT !.name = name] =
           [call |-> c, name |-> name, fd |-> NoHandle, inum |-> -1, offset |-> 0]
    OBVIOUS
  <2>3. [[call |-> c, name |-> name, fd |-> NoHandle, inum |-> -1, offset |-> 0]
            EXCEPT !.fd = fd] = l
    OBVIOUS
  <2> QED BY <2>1, <2>2, <2>3, Zenon
<1>6. FirstStep(c) \in StepPCs
  BY <1>3 DEF FirstStep, StepPCs, Opens
<1>7. Now(t, FirstStep(c), c, name, fd, -1, 0)
  <2>1. pc' = [pc EXCEPT ![t] = FirstStep(c)] /\ loc' = [loc EXCEPT ![t] = l]
    BY <1>5 DEF Call
  <2>2. l.call = c /\ l.name = name /\ l.fd = fd /\ l.inum = -1 /\ l.offset = 0
    OBVIOUS
  <2> HIDE DEF l, name, fd
  <2>3. Now(t, FirstStep(c), l.call, l.name, l.fd, l.inum, l.offset)
    BY <1>1, <1>4, <1>6, <2>1, Replaced, Zenon
  <2> QED BY <2>2, <2>3
<1>8. /\ pc'[t] = FirstStep(c) /\ loc'[t].call = c
      /\ loc'[t].name = name /\ loc'[t].fd = fd
  BY <1>7 DEF Now
<1>9. \/ c.op \in {"open", "copy"} /\ pc'[t] = "o_lookup" /\ ~Uses(c)
      \/ c.op = "sym_link" /\ pc'[t] = "y_lookup" /\ ~Uses(c)
      \/ c.op = "link" /\ pc'[t] = "k_lookup" /\ ~Uses(c)
      \/ c.op = "unlink" /\ pc'[t] = "u_lookup" /\ ~Uses(c)
      \/ c.op = "close" /\ pc'[t] = "c_remove" /\ Uses(c)
      \/ c.op = "write" /\ pc'[t] = "w_entry" /\ Uses(c)
      \/ c.op = "read" /\ pc'[t] = "r_entry" /\ Uses(c)
  BY <1>3, <1>8 DEF FirstStep, Opens, Uses
<1>10. InCall(t)'
  <2>1. name = (IF Uses(c) THEN NoName ELSE c.name) /\ NoHandle \notin Handles
    BY <1>1, RootIndex DEF NoHandle
  <2>2. c.name \in LooksUp(c.name)
    BY DEF LooksUp
  <2>3. fd # NoHandle <=> Uses(c)
    BY <1>3, <2>1
  <2>4. pc'[t] \in FdPCs <=> Uses(c)
    BY <1>9 DEF FdPCs
  <2>5. pc'[t] \in OpenPCs => ~Uses(c) /\ c.op \in {"open", "copy"}
    BY <1>9 DEF OpenPCs
  <2>6. pc'[t] \in OpenPCs => Opens(loc[t].call)' /\ loc'[t].name \in LooksUp(loc'[t].call.name)
    BY <1>8, <2>1, <2>2, <2>5 DEF Opens
  <2>7. (LooksUp(loc[t].call.name))' = LooksUp(loc'[t].call.name)
    BY DEF LooksUp, CallsOf
  <2> HIDE DEF name, fd
  <2> QED BY <1>8, <1>9, <2>1, <2>3, <2>4, <2>6, <2>7 DEF InCall
<1>11. Holds(t)' /\ KnowsDir(t)'
  BY <1>9 DEF Holds, KnowsDir, RootPCs, FluxPCs
<1>12. KnowsFile(t)'
  BY <1>1, <1>3, <1>8, <1>9 DEF KnowsFile, FoundPCs, FdPCs, handles
<1>13. KeptApart'
  <2>1. ASSUME NEW u \in Threads, u # t
        PROVE  /\ ~OpenVersusUnlink(c, loc[u].call) /\ ~OpenVersusUnlink(loc[u].call, c)
               /\ fd # NoHandle /\ loc[u].fd = fd =>
                     c.op \in {"read", "write"} /\ loc[u].call.op \in {"read", "write"}
    <3>1. CASE pc[u] # "idle"
      <4>1. ~Conflicts(c, u)
        BY <3>1 DEF Call
      <4> QED BY <4>1 DEF Conflicts, UseVersusClose
    <3>2. CASE pc[u] = "idle"
      <4>1. loc[u].call.op = "none" /\ loc[u].fd = NoHandle
        BY <3>2 DEF IInv, Local, InCall, FdPCs
      <4> QED BY <4>1 DEF OpenVersusUnlink, Opens
    <3> QED BY <3>1, <3>2
  <2>2. ~OpenVersusUnlink(c, c)
    BY DEF OpenVersusUnlink, Opens
  <2>3. \A u \in Threads \ {t} : loc'[u] = loc[u]
    BY <1>7 DEF Now, Moves
  <2> HIDE DEF name, fd
  <2>4. \A u, v \in Threads : ~OpenVersusUnlink(loc'[u].call, loc'[v].call)
    BY <1>8, <2>1, <2>2, <2>3 DEF IInv, KeptApart
  <2>5. \A u, v \in Threads : u # v /\ loc'[u].fd = loc'[v].fd /\ loc'[u].fd # NoHandle =>
          loc'[u].call.op \in {"read", "write"} /\ loc'[v].call.op \in {"read", "write"}
    BY <1>8, <2>1, <2>3 DEF IInv, KeptApart
  <2>6. \A u, v \in Threads : OpenVersusUnlink(loc[u].call, loc[v].call)'
                              <=> OpenVersusUnlink(loc'[u].call, loc'[v].call)
    BY DEF OpenVersusUnlink, LooksUp, CallsOf, Opens
  <2> QED BY <2>4, <2>5, <2>6 DEF KeptApart
<1>14. Local(t)'
  BY <1>10, <1>11, <1>12 DEF Local
<1>15. /\ pc[t] # "o_entry" /\ FirstStep(c) # "o_entry"
       /\ pc[t] \notin FluxPCs /\ FirstStep(c) \notin FluxPCs
  BY <1>1, <1>8, <1>9 DEF FluxPCs
<1> HIDE DEF name, fd, l
<1> QED BY <1>1, <1>2, <1>7, <1>13, <1>14, <1>15, ControlStep

-----------------------------------------------------------------------------
(* Steps that change the open-file table.                                     *)

LEMMA HandleStep ==
  ASSUME IInv, NEW t \in Threads, NEW to, NEW call, NEW name, NEW fd, NEW inum, NEW offset,
         Now(t, to, call, name, fd, inum, offset),
         UNCHANGED <<inodes, dir, blocks, inode_rwl, calls, fault>>,
         open_file_table' \in [Handles -> HandleType],
         free_open_file_entries' \subseteq Handles,
         entry_lock' \in [Handles -> Threads \cup {Nobody}],
         open_file_table_rwl' \in Threads \cup {Nobody},
         open_file_table_rwl' = open_file_table_rwl \/ open_file_table_rwl \in {Nobody, t},
         \A h \in free_open_file_entries' \ free_open_file_entries :
            h = loc[t].fd /\ loc[t].call.op \in {"close", "copy"},
         \A h \in Handles : \/ open_file_table'[h].of_inumber = open_file_table[h].of_inumber
                            \/ pc[t] = "o_entry" /\ h = loc[t].fd,
         pc[t] \notin FluxPCs, to \notin FluxPCs,
         Local(t)', KeptApart', HandlesNamed'
  PROVE  IInv'
<1>1. UNCHANGED <<inode_table, freeinode_ts, dir, free_blocks, fs_data>>
  BY DEF inodes, blocks
<1>2. TypeOK'
  BY <1>1 DEF IInv, TypeOK, Now, HandleType
<1>3. Guarantee(t)
  BY <1>1 DEF Guarantee, Now, Taken
<1>4. \A u \in Threads : Local(u)'
  BY <1>3, OthersKept
<1>5. TablesInv'
  BY SameFiles DEF Now
<1> QED BY <1>2, <1>4, <1>5 DEF IInv, Now

LEMMA O_AddStep ==
  ASSUME IInv, NEW t \in Threads, UNCHANGED calls, O_Add(t)
  PROVE  IInv'
<1>1. /\ TypeOK /\ loc \in [Threads -> LocType] /\ Local(t)
      /\ pc[t] = "o_add" /\ open_file_table_rwl = Nobody
      /\ UNCHANGED <<inodes, dir, blocks, open_file_table, inode_rwl, entry_lock, fault>>
  BY DEF IInv, O_Add
<1>2. /\ open_file_table' \in [Handles -> HandleType]
      /\ entry_lock' \in [Handles -> Threads \cup {Nobody}]
      /\ free_open_file_entries \subseteq Handles
  BY <1>1 DEF TypeOK, HandleType
<1>3. pc[t] \notin FluxPCs /\ "o_entry" \notin FluxPCs /\ "o_entry" \in StepPCs
  BY <1>1 DEF FluxPCs, StepPCs
<1>4. CASE Return(t) /\ UNCHANGED <<free_open_file_entries, open_file_table_rwl>>
  <2>1. pc[t] \notin FluxPCs \cup {"o_entry"} /\ UNCHANGED handles
    BY <1>1, <1>3, <1>4 DEF handles
  <2> QED BY <1>1, <1>2, <1>4, <2>1, ReturnStep
<1> DEFINE h == First(free_open_file_entries)
<1>5. CASE /\ free_open_file_entries # {}
           /\ free_open_file_entries' = free_open_file_entries \ {h}
           /\ loc' = [loc EXCEPT ![t].fd = h]
           /\ open_file_table_rwl' = t /\ Goto(t, "o_entry")
  <2>1. h \in free_open_file_entries /\ h \in Handles /\ h # NoHandle
    BY <1>1, <1>2, <1>5, FirstFree, RootIndex DEF NoHandle
  <2>2. Now(t, "o_entry", loc[t].call, loc[t].name, h, loc[t].inum, loc[t].offset)
    BY <1>1, <1>3, <1>5, <2>1, SetFd DEF Goto
  <2>3. /\ pc'[t] = "o_entry" /\ loc'[t].call = loc[t].call /\ loc'[t].name = loc[t].name
        /\ loc'[t].fd = h /\ loc'[t].inum = loc[t].inum
        /\ \A u \in Threads \ {t} : pc'[u] = pc[u] /\ loc'[u] = loc[u]
    BY <2>2 DEF Now, Moves
  <2>4. InCall(t)'
    BY <1>1, <2>1, <2>3 DEF Local, InCall, OpenPCs, FdPCs, LooksUp, CallsOf, Opens
  <2>5. NamedAs(loc[t].name, loc[t].inum)'
    BY <1>1, <2>3 DEF Local, KnowsFile, NamedAs, EntriesOf, FoundPCs
  <2>6. ~IsLink(loc[t].inum)'
    BY <1>1, <2>3 DEF Local, KnowsFile, IsLink, inodes
  <2>7. Local(t)'
    BY <1>5, <2>3, <2>4, <2>5, <2>6 DEF Local, Holds, KnowsDir, KnowsFile, RootPCs, FluxPCs,
                                        FoundPCs, FdPCs
  <2>8. KeptApart'
    <3>1. \A u \in Threads : loc[u].fd # h
      <4> SUFFICES ASSUME NEW u \in Threads, loc[u].fd = h PROVE FALSE
        OBVIOUS
      <4>1. pc[u] \in FdPCs
        BY <2>1 DEF IInv, Local, InCall
      <4>2. loc[u].fd \notin free_open_file_entries
        BY <4>1 DEF IInv, Local, KnowsFile
      <4> QED BY <2>1, <4>2
    <3>2. \A u \in Threads : loc'[u].call = loc[u].call
      BY <2>3
    <3>3. \A u, v \in Threads : ~OpenVersusUnlink(loc[u].call, loc[v].call)'
      BY <3>2 DEF IInv, KeptApart, OpenVersusUnlink, Opens, LooksUp, CallsOf
    <3> HIDE DEF h
    <3> QED BY <2>3, <3>1, <3>2, <3>3 DEF IInv, KeptApart
  <2>9. HandlesNamed'
    <3> SUFFICES ASSUME NEW k \in Handles, IsOpenHandle(k)', ~Pending(k)'
                 PROVE  /\ ~IsLink(open_file_table[k].of_inumber)'
                        /\ Entries(open_file_table[k].of_inumber)' # {}
      BY DEF HandlesNamed
    <3>1. k # h
      BY <2>3 DEF Pending
    <3>2. IsOpenHandle(k) /\ ~Pending(k)
      BY <1>1, <1>5, <2>3, <3>1 DEF IsOpenHandle, Pending
    <3> QED BY <1>1, <3>2 DEF IInv, TablesInv, HandlesNamed, IsLink, Entries, inodes
  <2>10. /\ free_open_file_entries' \subseteq Handles
         /\ \A k \in free_open_file_entries' : k \in free_open_file_entries
         /\ open_file_table_rwl' \in Threads \cup {Nobody}
         /\ open_file_table_rwl \in {Nobody, t}
         /\ UNCHANGED <<inodes, dir, blocks, inode_rwl, calls, fault>>
    BY <1>1, <1>2, <1>5
  <2>11. \A k \in Handles : open_file_table'[k].of_inumber = open_file_table[k].of_inumber
    BY <1>1
  <2> HIDE DEF h
  <2> QED BY <1>2, <1>3, <2>2, <2>7, <2>8, <2>9, <2>10, <2>11, HandleStep
<1> QED BY <1>4, <1>5 DEF O_Add

(* DATA_BLOCKS * BLOCK_SIZE bytes hold every block, and size_t every size.    *)
LEMMA Arena ==
  /\ BLOCK_SIZE <= DATA_BLOCKS * BLOCK_SIZE /\ BLOCK_SIZE < SizeModulus
  /\ DATA_BLOCKS * BLOCK_SIZE \in Nat
  /\ \A b \in Blocks : b * BLOCK_SIZE \in Nat
<1>1. DATA_BLOCKS \in Nat \ {0} /\ BLOCK_SIZE \in Nat \ {0} /\ SizeModulus \in Nat
  BY SizesAssumption
<1>2. \A m, n \in Nat : m * n \in Nat
  OBVIOUS
<1>3. PICK d \in Nat : DATA_BLOCKS = d + 1
  <2>1. DATA_BLOCKS - 1 \in Nat /\ DATA_BLOCKS = (DATA_BLOCKS - 1) + 1
    BY <1>1
  <2> QED BY <2>1
<1>4. DATA_BLOCKS * BLOCK_SIZE = d * BLOCK_SIZE + BLOCK_SIZE
  BY <1>1, <1>3
<1>5. d * BLOCK_SIZE \in Nat
  BY <1>1, <1>2
<1>6. 2 * DATA_BLOCKS * BLOCK_SIZE = 2 * (DATA_BLOCKS * BLOCK_SIZE)
  BY <1>1
<1>7. BLOCK_SIZE <= DATA_BLOCKS * BLOCK_SIZE /\ BLOCK_SIZE < SizeModulus
  BY <1>1, <1>4, <1>5, <1>6, SizesAssumption
<1>8. \A b \in Blocks : b \in Nat
  BY <1>1 DEF Blocks
<1> QED BY <1>1, <1>2, <1>7, <1>8

LEMMA O_EntryStep ==
  ASSUME IInv, NEW t \in Threads, UNCHANGED calls, O_Entry(t)
  PROVE  IInv'
<1> DEFINE h == loc[t].fd
           entry == [of_inumber |-> loc[t].inum, of_offset |-> loc[t].offset]
<1>1. /\ TypeOK /\ loc \in [Threads -> LocType] /\ Local(t)
      /\ pc[t] = "o_entry"
      /\ open_file_table' = [open_file_table EXCEPT ![h] = entry]
      /\ open_file_table_rwl' = Nobody
      /\ UNCHANGED <<inodes, dir, blocks, free_open_file_entries, inode_rwl, entry_lock, fault>>
  BY DEF IInv, O_Entry
<1>2. /\ open_file_table_rwl = t
      /\ h \notin free_open_file_entries /\ h # NoHandle /\ ~IsLink(loc[t].inum)
      /\ NamedAs(loc[t].name, loc[t].inum)
  BY <1>1 DEF Local, Holds, InCall, KnowsFile, FdPCs, FoundPCs
<1>3. loc[t].inum \in Inodes /\ Entries(loc[t].inum) # {}
  BY <1>2, NamedTaken
<1>4. loc[t].offset \in 0..BLOCK_SIZE /\ h \in Handles
  BY <1>1, <1>2 DEF LocType
<1>5. entry \in HandleType
  BY <1>3, <1>4, Arena, SizesAssumption DEF HandleType
<1>6. /\ open_file_table \in [Handles -> HandleType]
      /\ entry_lock' \in [Handles -> Threads \cup {Nobody}]
      /\ free_open_file_entries' \subseteq Handles
  BY <1>1 DEF TypeOK, HandleType
<1> HIDE DEF h
<1>7. /\ open_file_table' \in [Handles -> HandleType]
      /\ \A k \in Handles : open_file_table'[k] = open_file_table[k] \/ k = h
      /\ open_file_table'[h] = entry
  BY <1>1, <1>4, <1>5, <1>6
<1>8. pc[t] \notin FluxPCs /\ "w_get" \notin FluxPCs /\ "idle" \notin FluxPCs
      /\ "w_get" \in StepPCs
  BY <1>1 DEF FluxPCs, StepPCs
<1>9. ASSUME Moves(t)
      PROVE  HandlesNamed'
  <2> SUFFICES ASSUME NEW k \in Handles, IsOpenHandle(k)', ~Pending(k)'
               PROVE  /\ ~IsLink(open_file_table[k].of_inumber)'
                      /\ Entries(open_file_table[k].of_inumber)' # {}
    BY DEF HandlesNamed
  <2>1. CASE k = h
    <3>1. open_file_table'[k].of_inumber = loc[t].inum
      BY <1>7, <2>1
    <3> QED BY <1>1, <1>2, <1>3, <3>1 DEF IsLink, Entries, inodes
  <2>2. CASE k # h
    <3>1. IsOpenHandle(k) /\ ~Pending(k)
      BY <1>1, <1>9, <2>2 DEF IsOpenHandle, Pending, Moves, h
    <3> QED BY <1>1, <1>7, <2>2, <3>1 DEF IInv, TablesInv, HandlesNamed, IsLink, Entries, inodes
  <2> QED BY <2>1, <2>2
<1>10. /\ \A k \in free_open_file_entries' : k \in free_open_file_entries
       /\ open_file_table_rwl' \in Threads \cup {Nobody}
       /\ open_file_table_rwl \in {Nobody, t}
       /\ UNCHANGED <<inodes, dir, blocks, inode_rwl, calls, fault>>
       /\ \A k \in Handles : \/ open_file_table'[k].of_inumber = open_file_table[k].of_inumber
                             \/ pc[t] = "o_entry" /\ k = loc[t].fd
  BY <1>1, <1>2, <1>7 DEF h
<1>11. CASE loc[t].call.op = "copy" /\ Goto(t, "w_get") /\ UNCHANGED loc
  <2>1. Now(t, "w_get", loc[t].call, loc[t].name, loc[t].fd, loc[t].inum, loc[t].offset)
    BY <1>1, <1>8, <1>11, Stays DEF Goto
  <2>2. pc'[t] = "w_get" /\ loc'[t] = loc[t]
    BY <1>11, <2>1 DEF Now
  <2>3. InCall(t)'
    BY <1>2, <1>11, <2>2 DEF InCall, OpenPCs, FdPCs, h
  <2>4. Local(t)'
    BY <1>1, <1>2, <2>2, <2>3 DEF Local, Holds, KnowsDir, KnowsFile, RootPCs, FluxPCs,
                                  FoundPCs, h
  <2>5. KeptApart' /\ HandlesNamed'
    BY <1>9, <2>1, ApartKept DEF Now
  <2> QED BY <1>6, <1>7, <1>8, <1>10, <2>1, <2>4, <2>5, HandleStep
<1>12. CASE Return(t)
  <2>1. Now(t, "idle", NoCall, NoName, NoHandle, -1, 0)
    BY <1>1, <1>12, Returned
  <2>2. Local(t)' /\ KeptApart' /\ HandlesNamed'
    BY <1>9, <2>1, IdleLocal, ApartKept DEF Now
  <2> QED BY <1>6, <1>7, <1>8, <1>10, <2>1, <2>2, HandleStep
<1> QED BY <1>11, <1>12 DEF O_Entry

LEMMA C_RemoveStep ==
  ASSUME IInv, NEW t \in Threads, UNCHANGED calls, C_Remove(t)
  PROVE  IInv'
<1>1. /\ TypeOK /\ loc \in [Threads -> LocType] /\ Local(t)
      /\ pc[t] = "c_remove" /\ Return(t)
      /\ free_open_file_entries' = free_open_file_entries \cup {loc[t].fd}
      /\ UNCHANGED <<inodes, dir, blocks, open_file_table, inode_rwl, entry_lock,
                     open_file_table_rwl, fault>>
  BY DEF IInv, C_Remove, locks
<1>2. pc[t] \notin FluxPCs /\ "idle" \notin FluxPCs /\ pc[t] \in FdPCs \ {"o_entry"}
  BY <1>1 DEF FluxPCs, FdPCs
<1>3. loc[t].fd \in Handles /\ loc[t].call.op \in {"close", "copy"}
  BY <1>1, <1>2, HandleUsed DEF Local, InCall
<1>4. /\ open_file_table' \in [Handles -> HandleType]
      /\ entry_lock' \in [Handles -> Threads \cup {Nobody}]
      /\ free_open_file_entries' \subseteq Handles
      /\ open_file_table_rwl' \in Threads \cup {Nobody}
  BY <1>1, <1>3 DEF TypeOK, HandleType
<1>5. Now(t, "idle", NoCall, NoName, NoHandle, -1, 0)
  BY <1>1, Returned
<1>6. Local(t)' /\ KeptApart'
  BY <1>5, IdleLocal, ApartKept
<1>7. HandlesNamed'
  <2> SUFFICES ASSUME NEW k \in Handles, IsOpenHandle(k)', ~Pending(k)'
               PROVE  /\ ~IsLink(open_file_table[k].of_inumber)'
                      /\ Entries(open_file_table[k].of_inumber)' # {}
    BY DEF HandlesNamed
  <2>1. IsOpenHandle(k) /\ ~Pending(k)
    BY <1>1, <1>5 DEF IsOpenHandle, Pending, Now, Moves
  <2> QED BY <1>1, <2>1 DEF IInv, TablesInv, HandlesNamed, IsLink, Entries, inodes
<1>8. /\ \A k \in free_open_file_entries' \ free_open_file_entries :
            k = loc[t].fd /\ loc[t].call.op \in {"close", "copy"}
      /\ \A k \in Handles : open_file_table'[k].of_inumber = open_file_table[k].of_inumber
      /\ UNCHANGED <<inodes, dir, blocks, inode_rwl, calls, fault>>
  BY <1>1, <1>3
<1> QED BY <1>1, <1>2, <1>4, <1>5, <1>6, <1>7, <1>8, HandleStep

(* The end of the process leaves everything as it was.                        *)
LEMMA NothingMoves ==
  ASSUME IInv, UNCHANGED <<inodes, dir, blocks, handles, locks, pc, loc, calls>>,
         fault' \in {"none", "NULL", "overrun"}
  PROVE  IInv'
<1>1. /\ UNCHANGED <<inode_table, freeinode_ts, dir, free_blocks, fs_data, open_file_table,
                     free_open_file_entries, inode_rwl, entry_lock, open_file_table_rwl, pc,
                     loc, calls>>
      /\ fault' \in {"none", "NULL", "overrun"}
  BY DEF inodes, blocks, handles, locks
<1>2. TypeOK' /\ (loc \in [Threads -> LocType])' /\ KeptApart'
  BY <1>1 DEF IInv, TypeOK, KeptApart, OpenVersusUnlink, LooksUp, CallsOf, Opens
<1>3. \A t \in Threads : Local(t)'
  <2> SUFFICES ASSUME NEW t \in Threads PROVE Local(t)'
    OBVIOUS
  <2>1. Local(t)
    BY DEF IInv
  <2>2. InCall(t)' /\ Holds(t)'
    BY <1>1, <2>1, Zenon DEF Local, InCall, Holds, LooksUp, CallsOf, Opens
  <2>3. KnowsDir(t)'
    BY <1>1, <2>1, Zenon DEF Local, KnowsDir, EntriesOf, NamedAs, Taken, NewInode
  <2>4. KnowsFile(t)'
    BY <1>1, <2>1, Zenon DEF Local, KnowsFile, EntriesOf, NamedAs, IsLink
  <2> QED BY <2>2, <2>3, <2>4 DEF Local
<1>4. TablesInv'
  <2>1. \A h : Pending(h)' <=> Pending(h)
    BY <1>1 DEF Pending
  <2>2. HandlesNamed'
    BY <1>1, <2>1 DEF IInv, TablesInv, HandlesNamed, IsOpenHandle, IsLink, Entries
  <2>3. \A i : InFlux(i)' <=> InFlux(i)
    BY <1>1 DEF InFlux
  <2>4. (RootKept /\ EntriesLive /\ NamesUnique /\ LinksResolved)'
    BY <1>1, Zenon DEF IInv, TablesInv, RootKept, EntriesLive, NamesUnique, LinksResolved,
                       Taken, IsLink
  <2>5. Owners' = Owners /\ Taken' = Taken
    BY <1>1 DEF Owners, Taken
  <2>6. \A i : Entries(i)' = Entries(i)
    BY <1>1 DEF Entries
  <2>7. BlocksOwned' /\ Counted'
    BY <1>1, <2>3, <2>5, <2>6 DEF IInv, TablesInv, BlocksOwned, Counted
  <2> QED BY <2>2, <2>4, <2>7 DEF TablesInv
<1> QED BY <1>2, <1>3, <1>4 DEF IInv

LEMMA DiesStep ==
  ASSUME IInv, NEW why \in {"NULL", "overrun"}, Dies(why), UNCHANGED calls
  PROVE  IInv'
  BY NothingMoves DEF Dies

(* Moving a handle replaces its offset and keeps its inode.                   *)
LEMMA OffsetMoved ==
  ASSUME TypeOK, NEW h \in Handles, NEW o \in 0..DATA_BLOCKS * BLOCK_SIZE,
         open_file_table' = [open_file_table EXCEPT ![h].of_offset = o]
  PROVE  /\ open_file_table' \in [Handles -> HandleType]
         /\ \A k \in Handles : open_file_table'[k].of_inumber = open_file_table[k].of_inumber
<1> DEFINE entry == [of_inumber |-> open_file_table[h].of_inumber, of_offset |-> o]
<1>1. open_file_table \in [Handles -> HandleType]
  BY DEF TypeOK, HandleType
<1>2. open_file_table[h] \in HandleType
  BY <1>1
<1>3. [open_file_table[h] EXCEPT !.of_offset = o] = entry /\ entry \in HandleType
      /\ entry.of_inumber = open_file_table[h].of_inumber
  BY <1>2 DEF HandleType
<1>4. open_file_table' = [open_file_table EXCEPT ![h] = entry]
  BY <1>3
<1> HIDE DEF entry
<1> QED BY <1>1, <1>3, <1>4

LEMMA R_CopyStep ==
  ASSUME IInv, NEW t \in Threads, UNCHANGED calls, R_Copy(t)
  PROVE  IInv'
<1> DEFINE h == loc[t].fd
           entry == open_file_table[h]
           bnum == inode_table[entry.of_inumber].i_data_block
           to_read == IF bnum = -1 THEN 0 ELSE ToRead(entry, loc[t].call.len)
<1>1. /\ TypeOK /\ loc \in [Threads -> LocType] /\ Local(t)
      /\ pc[t] = "r_copy"
      /\ UNCHANGED <<inodes, dir, blocks, free_open_file_entries, inode_rwl,
                     open_file_table_rwl>>
  BY DEF IInv, R_Copy
<1>2. pc[t] \notin FluxPCs /\ "idle" \notin FluxPCs /\ pc[t] \in FdPCs \ {"o_entry"}
  BY <1>1 DEF FluxPCs, FdPCs
<1>3. h \in Handles /\ entry.of_inumber \in Inodes
  BY <1>2, HandleUsed DEF Taken
<1>4. CASE Dies("overrun")
  BY <1>4, DiesStep
<1>5. CASE /\ bnum * BLOCK_SIZE + entry.of_offset + to_read <= DATA_BLOCKS * BLOCK_SIZE
           /\ open_file_table' = [open_file_table EXCEPT ![h].of_offset = @ + to_read]
           /\ UnlockEntry(t) /\ Return(t) /\ UNCHANGED fault
  <2>1. loc[t].call.len \in Nat
    <3>1. loc[t].call.op = "read" /\ loc[t].call \in Calls \cup {NoCall}
      BY <1>1 DEF Local, InCall, LocType
    <3> QED BY <3>1, CallFacts DEF NoCall
  <2>2. /\ entry.of_offset \in 0..DATA_BLOCKS * BLOCK_SIZE
        /\ inode_table[entry.of_inumber].i_size \in Nat
        /\ bnum \in Blocks \cup {-1}
    BY <1>1, <1>3, SizesAssumption DEF TypeOK
  <2>3. entry.of_offset \in Nat
    BY <2>2, Arena
  <2>4. to_read \in Nat
    <3>1. (inode_table[entry.of_inumber].i_size - entry.of_offset) % SizeModulus \in Nat
      <4>1. SizeModulus \in Nat /\ SizeModulus > 0
        BY Arena, SizesAssumption
      <4>2. inode_table[entry.of_inumber].i_size - entry.of_offset \in Int
        BY <2>2, <2>3
      <4> HIDE DEF entry
      <4> QED BY <4>1, <4>2
    <3> QED BY <2>1, <3>1 DEF ToRead
  <2> HIDE DEF to_read, bnum
  <2>5. entry.of_offset + to_read \in 0..DATA_BLOCKS * BLOCK_SIZE
    <3>1. CASE bnum = -1
      BY <2>2, <3>1 DEF to_read
    <3>2. CASE bnum # -1
      <4>1. bnum * BLOCK_SIZE \in Nat
        BY <2>2, <3>2, Arena
      <4> HIDE DEF entry
      <4> QED BY <1>5, <2>3, <2>4, <4>1, Arena
    <3> QED BY <3>1, <3>2
  <2>6. open_file_table' = [open_file_table EXCEPT ![h].of_offset = entry.of_offset + to_read]
    BY <1>5
  <2>7. /\ open_file_table' \in [Handles -> HandleType]
        /\ \A k \in Handles : open_file_table'[k].of_inumber = open_file_table[k].of_inumber
    BY <1>1, <1>3, <2>5, <2>6, OffsetMoved
  <2>8. /\ entry_lock' \in [Handles -> Threads \cup {Nobody}]
        /\ free_open_file_entries' \subseteq Handles
        /\ open_file_table_rwl' \in Threads \cup {Nobody}
    BY <1>1, <1>5 DEF TypeOK, UnlockEntry
  <2>9. Now(t, "idle", NoCall, NoName, NoHandle, -1, 0)
    BY <1>1, <1>5, Returned
  <2>10. Local(t)' /\ KeptApart'
    BY <2>9, IdleLocal, ApartKept
  <2>11. HandlesNamed'
    <3> SUFFICES ASSUME NEW k \in Handles, IsOpenHandle(k)', ~Pending(k)'
                 PROVE  /\ ~IsLink(open_file_table[k].of_inumber)'
                        /\ Entries(open_file_table[k].of_inumber)' # {}
      BY DEF HandlesNamed
    <3>1. IsOpenHandle(k) /\ ~Pending(k)
      BY <1>1, <2>9 DEF IsOpenHandle, Pending, Now, Moves
    <3> QED BY <1>1, <2>7, <3>1 DEF IInv, TablesInv, HandlesNamed, IsLink, Entries, inodes
  <2>12. /\ \A k \in free_open_file_entries' : k \in free_open_file_entries
         /\ UNCHANGED <<inodes, dir, blocks, inode_rwl, calls, fault>>
    BY <1>1, <1>5
  <2> QED BY <1>1, <1>2, <2>7, <2>8, <2>9, <2>10, <2>11, <2>12, HandleStep
<1> QED BY <1>4, <1>5 DEF R_Copy

-----------------------------------------------------------------------------
(* Steps under the lock of an inode: truncation and writing.                  *)

LEMMA Unlocked ==
  ASSUME TypeOK, NEW S, UnlockInodes(S)
  PROVE  /\ inode_rwl' \in [Inodes -> Threads \cup {Nobody}]
         /\ \A i \in Inodes : inode_rwl'[i] = IF i \in S THEN Nobody ELSE inode_rwl[i]
<1>1. inode_rwl \in [Inodes -> Threads \cup {Nobody}]
  BY DEF TypeOK
<1> QED BY <1>1 DEF UnlockInodes

(* What a step has to show: its guarantee, its own locals and the tables.      *)
LEMMA Finish ==
  ASSUME IInv, NEW t \in Threads, Guarantee(t), TypeOK', loc' \in [Threads -> LocType],
         Local(t)', KeptApart', TablesInv'
  PROVE  IInv'
<1>1. \A u \in Threads : Local(u)'
  BY OthersKept
<1> QED BY <1>1 DEF IInv

(* A file with contents and a link own a block that is nobody else's.         *)
LEMMA Owned ==
  ASSUME IInv
  PROVE  /\ \A i \in Owners : inode_table[i].i_data_block \in Blocks \ free_blocks
         /\ \A i, j \in Owners : i # j =>
               inode_table[i].i_data_block # inode_table[j].i_data_block
         /\ \A i \in Owners : i # ROOT_DIR_INUM => inode_table[i].i_data_block # ROOT_BLOCK
         /\ \A i \in Taken : inode_table[i].i_size > 0 => i \in Owners
<1>1. ROOT_DIR_INUM \in Owners /\ inode_table[ROOT_DIR_INUM].i_data_block = ROOT_BLOCK
  <2>1. inode_table[ROOT_DIR_INUM] = RootInode /\ TypeOK
    BY DEF IInv, TablesInv, RootKept
  <2> QED BY <2>1, RootIndex, SizesAssumption DEF Owners, RootInode
<1>2. BlocksOwned
  BY DEF IInv, TablesInv
<1>3. \A i \in Taken : inode_table[i].i_size > 0 => i \in Owners
  BY DEF Taken, Owners
<1> QED BY <1>1, <1>2, <1>3 DEF BlocksOwned

LEMMA TruncTables ==
  ASSUME IInv, NEW i \in Taken, ~IsLink(i), inode_table[i].i_size > 0,
         free_blocks' = free_blocks \cup {inode_table[i].i_data_block},
         inode_table' = [inode_table EXCEPT ![i].i_size = 0],
         UNCHANGED <<freeinode_ts, dir, fs_data, open_file_table, free_open_file_entries>>,
         \A h : Pending(h)' <=> Pending(h), \A j : InFlux(j)' <=> InFlux(j)
  PROVE  /\ TablesInv'
         /\ inode_table' \in [Inodes -> InodeType]
         /\ free_blocks' \subseteq Blocks \ {ROOT_BLOCK}
         /\ \A j \in Inodes : j # i => inode_table'[j] = inode_table[j]
         /\ inode_table'[i].i_node_type = inode_table[i].i_node_type
<1> DEFINE b == inode_table[i].i_data_block
           new == [i_node_type |-> inode_table[i].i_node_type,
                   i_links_count |-> inode_table[i].i_links_count,
                   i_size |-> 0, i_data_block |-> b]
<1>1. TypeOK /\ TablesInv /\ inode_table \in [Inodes -> InodeType]
  BY DEF IInv, TypeOK, InodeType
<1>2. i \in Inodes /\ inode_table[i] \in InodeType /\ i # ROOT_DIR_INUM
  BY <1>1 DEF Taken
<1>3. [inode_table[i] EXCEPT !.i_size = 0] = new /\ new \in InodeType
  BY <1>2, SizesAssumption DEF InodeType
<1>4. inode_table' = [inode_table EXCEPT ![i] = new]
  BY <1>3
<1>5. /\ new.i_node_type = inode_table[i].i_node_type
      /\ new.i_links_count = inode_table[i].i_links_count
      /\ new.i_size = 0 /\ new.i_data_block = b
  OBVIOUS
<1> HIDE DEF new
<1>6. /\ inode_table' \in [Inodes -> InodeType]
      /\ \A j \in Inodes : j # i => inode_table'[j] = inode_table[j]
      /\ inode_table'[i] = new
  BY <1>1, <1>2, <1>3, <1>4
<1>7. i \in Owners
  BY Owned
<1>8. b \in Blocks \ {ROOT_BLOCK} /\ b \notin free_blocks
  BY <1>2, <1>7, Owned
<1>9. free_blocks' \subseteq Blocks \ {ROOT_BLOCK}
  BY <1>1, <1>8 DEF TypeOK
<1>10. \A j \in Inodes : IsLink(j)' <=> IsLink(j)
  BY <1>5, <1>6 DEF IsLink
<1>11. \A j \in Owners' : j \in Owners /\ j # i
  <2>1. i \notin Owners'
    BY <1>5, <1>6 DEF Owners, IsLink
  <2> QED BY <1>6, <2>1 DEF Owners
<1>12. BlocksOwned'
  BY <1>6, <1>7, <1>11, Owned DEF BlocksOwned, Owners
<1>13. RootKept' /\ EntriesLive' /\ NamesUnique'
  BY <1>1, <1>2, <1>6, RootIndex DEF TablesInv, RootKept, EntriesLive, NamesUnique, Taken,
                                     RootInode
<1>14. LinksResolved'
  <2>1. \A s \in Slots : dir[s].d_inumber # -1 => dir[s].d_inumber \in Inodes
    BY <1>1 DEF TypeOK
  <2>2. \A j \in Inodes : IsLink(j) => inode_table'[j] = inode_table[j]
    BY <1>6
  <2> QED BY <1>1, <1>10, <2>1, <2>2 DEF TablesInv, LinksResolved, CallsOf
<1>15. HandlesNamed'
  <2>1. \A h \in Handles : open_file_table[h].of_inumber \in Inodes
    BY <1>1 DEF TypeOK
  <2> QED BY <1>1, <1>10, <2>1 DEF TablesInv, HandlesNamed, IsOpenHandle, Entries
<1>16. Counted'
  <2>1. \A j \in Inodes : inode_table'[j].i_links_count = inode_table[j].i_links_count
    BY <1>5, <1>6
  <2>2. Taken' = Taken /\ \A j : Entries(j)' = Entries(j)
    BY DEF Taken, Entries
  <2> QED BY <1>1, <2>1, <2>2 DEF TablesInv, Counted, Taken
<1> QED BY <1>5, <1>6, <1>9, <1>12, <1>13, <1>14, <1>15, <1>16 DEF TablesInv

LEMMA O_TruncStep ==
  ASSUME IInv, NEW t \in Threads, UNCHANGED calls, O_Trunc(t)
  PROVE  IInv'
<1> DEFINE i == loc[t].inum
<1>1. /\ TypeOK /\ loc \in [Threads -> LocType] /\ Local(t)
      /\ pc[t] = "o_trunc"
      /\ free_blocks' = free_blocks \cup {inode_table[i].i_data_block}
      /\ inode_table' = [inode_table EXCEPT ![i].i_size = 0]
      /\ UNCHANGED <<freeinode_ts, dir, fs_data, open_file_table, free_open_file_entries,
                     entry_lock, open_file_table_rwl, fault>>
      /\ UnlockInodes({i}) /\ Goto(t, "o_add") /\ loc' = [loc EXCEPT ![t].offset = 0]
  BY DEF IInv, O_Trunc, handles
<1>2. /\ NamedAs(loc[t].name, i) /\ ~IsLink(i) /\ inode_table[i].i_size > 0
      /\ inode_rwl[i] = t /\ loc[t].fd = NoHandle
  BY <1>1 DEF Local, KnowsFile, Holds, InCall, FoundPCs, FdPCs
<1>3. i \in Taken /\ i \in Inodes /\ Entries(i) # {}
  BY <1>2, NamedTaken
<1>4. 0 \in 0..BLOCK_SIZE /\ "o_add" \in StepPCs /\ "o_add" \notin FluxPCs
      /\ pc[t] \notin FluxPCs
  BY <1>1, SizesAssumption DEF StepPCs, FluxPCs
<1>5. Now(t, "o_add", loc[t].call, loc[t].name, loc[t].fd, loc[t].inum, 0)
  BY <1>1, <1>4, SetOffset DEF Goto
<1>6. /\ pc'[t] = "o_add" /\ loc'[t].call = loc[t].call /\ loc'[t].name = loc[t].name
      /\ loc'[t].fd = NoHandle /\ loc'[t].inum = i
      /\ Moves(t) /\ loc' \in [Threads -> LocType] /\ pc' \in [Threads -> StepPCs]
  BY <1>2, <1>5 DEF Now
<1>7. (\A h : Pending(h)' <=> Pending(h)) /\ (\A j : InFlux(j)' <=> InFlux(j))
  BY <1>1, <1>4, <1>6 DEF Pending, InFlux, Moves
<1>8. /\ TablesInv'
      /\ inode_table' \in [Inodes -> InodeType]
      /\ free_blocks' \subseteq Blocks \ {ROOT_BLOCK}
      /\ \A j \in Inodes : j # i => inode_table'[j] = inode_table[j]
      /\ inode_table'[i].i_node_type = inode_table[i].i_node_type
  BY <1>1, <1>2, <1>3, <1>7, TruncTables
<1>9. /\ inode_rwl' \in [Inodes -> Threads \cup {Nobody}]
      /\ \A j \in Inodes : inode_rwl'[j] = IF j \in {i} THEN Nobody ELSE inode_rwl[j]
  BY <1>1, Unlocked
<1>10. TypeOK'
  BY <1>1, <1>6, <1>8, <1>9 DEF TypeOK, InodeType
<1>11. Guarantee(t)
  <2>1. \A j \in Inodes : /\ inode_table'[j] = inode_table[j] \/ Entries(j) # {}
                          /\ inode_table'[j].i_node_type = inode_table[j].i_node_type
                          /\ inode_table'[j] = inode_table[j] \/ inode_rwl[j] = t
                          /\ inode_rwl'[j] = inode_rwl[j] \/ inode_rwl[j] \in {Nobody, t}
    BY <1>2, <1>3, <1>8, <1>9
  <2> QED BY <1>1, <1>6, <2>1 DEF Guarantee, Taken
<1>12. InCall(t)'
  BY <1>1, <1>6 DEF Local, InCall, OpenPCs, FdPCs, LooksUp, CallsOf, Opens
<1>13. NamedAs(loc[t].name, loc[t].inum)'
  BY <1>1, <1>2, <1>6 DEF NamedAs, EntriesOf
<1>14. ~IsLink(loc[t].inum)'
  BY <1>2, <1>6, <1>8 DEF IsLink
<1>15. Local(t)'
  BY <1>6, <1>12, <1>13, <1>14 DEF Local, Holds, KnowsDir, KnowsFile, RootPCs, FluxPCs,
                                   FoundPCs, FdPCs
<1>16. KeptApart'
  BY <1>5, ApartKept
<1> QED BY <1>6, <1>8, <1>10, <1>11, <1>15, <1>16, Finish

(* From an offset inside the block, tfs_write's to_write does not wrap around *)
(* and what is written fits.                                                  *)
LEMMA ToWriteFits ==
  ASSUME NEW offset \in Nat, offset <= BLOCK_SIZE, NEW len \in Nat
  PROVE  ToWrite(offset, len) \in Nat /\ offset + ToWrite(offset, len) <= BLOCK_SIZE
<1>1. (BLOCK_SIZE - offset) % SizeModulus = BLOCK_SIZE - offset
  BY Arena, SizesAssumption
<1> QED BY <1>1, SizesAssumption DEF ToWrite

(* A write gives an inode its block and a size that only grows.               *)
LEMMA WriteInode ==
  ASSUME TypeOK, NEW i \in Inodes, NEW b \in Blocks, NEW size \in 0..BLOCK_SIZE,
         inode_table' = [inode_table EXCEPT
            ![i].i_data_block = b, ![i].i_size = IF size > @ THEN size ELSE @]
  PROVE  /\ inode_table' \in [Inodes -> InodeType]
         /\ \A j \in Inodes : j # i => inode_table'[j] = inode_table[j]
         /\ inode_table'[i].i_node_type = inode_table[i].i_node_type
         /\ inode_table'[i].i_links_count = inode_table[i].i_links_count
         /\ inode_table'[i].i_data_block = b
<1> DEFINE old == inode_table[i]
           n == IF size > old.i_size THEN size ELSE old.i_size
           mid == [i_node_type |-> old.i_node_type, i_links_count |-> old.i_links_count,
                   i_size |-> old.i_size, i_data_block |-> b]
           new == [i_node_type |-> old.i_node_type, i_links_count |-> old.i_links_count,
                   i_size |-> n, i_data_block |-> b]
<1>1. inode_table \in [Inodes -> InodeType]
  BY DEF TypeOK, InodeType
<1>2. old \in InodeType
  BY <1>1
<1>3. [old EXCEPT !.i_data_block = b] = mid
  BY <1>2 DEF InodeType
<1>4. [mid EXCEPT !.i_size = n] = new /\ mid.i_size = old.i_size
  OBVIOUS
<1>5. n \in 0..BLOCK_SIZE
  BY <1>2 DEF InodeType
<1>6. new \in InodeType
  <2> HIDE DEF n
  <2> QED BY <1>2, <1>5 DEF InodeType
<1>7. inode_table' = [inode_table EXCEPT ![i] = new]
  <2>1. inode_table' = [[inode_table EXCEPT ![i].i_data_block = b]
                           EXCEPT ![i].i_size = IF size > @ THEN size ELSE @]
    OBVIOUS
  <2>2. [inode_table EXCEPT ![i].i_data_block = b] = [inode_table EXCEPT ![i] = mid]
    BY <1>3
  <2> DEFINE T == [inode_table EXCEPT ![i] = mid]
  <2>3. T[i] = mid
    BY <1>1
  <2>4. inode_table' = [T EXCEPT ![i].i_size = IF size > @ THEN size ELSE @]
    BY <2>1, <2>2
  <2>5. inode_table' = [T EXCEPT ![i] = [mid EXCEPT !.i_size = n]]
    <3> HIDE DEF T, mid
    <3> QED BY <1>4, <2>3, <2>4
  <2>6. inode_table' = [T EXCEPT ![i] = new]
    BY <1>4, <2>5
  <2> HIDE DEF mid, new
  <2> QED BY <1>1, <2>6
<1>8. /\ new.i_node_type = old.i_node_type /\ new.i_links_count = old.i_links_count
      /\ new.i_data_block = b
  OBVIOUS
<1> HIDE DEF new
<1>9. inode_table'[i] = new
  BY <1>1, <1>7
<1> QED BY <1>1, <1>6, <1>7, <1>8, <1>9

LEMMA WriteTables ==
  ASSUME IInv, NEW i \in Taken, ~IsLink(i), NEW b,
         \/ inode_table[i].i_size = 0 /\ b \in free_blocks
            /\ free_blocks' = free_blocks \ {b}
         \/ inode_table[i].i_size # 0 /\ b = inode_table[i].i_data_block
            /\ free_blocks' = free_blocks,
         NEW size \in 0..BLOCK_SIZE,
         inode_table' = [inode_table EXCEPT
            ![i].i_data_block = b, ![i].i_size = IF size > @ THEN size ELSE @],
         fs_data' = [fs_data EXCEPT ![b] = Data],
         \A h \in Handles : open_file_table'[h].of_inumber = open_file_table[h].of_inumber,
         UNCHANGED <<freeinode_ts, dir, free_open_file_entries>>,
         \A h : Pending(h)' <=> Pending(h), \A j : InFlux(j)' <=> InFlux(j)
  PROVE  /\ TablesInv'
         /\ inode_table' \in [Inodes -> InodeType]
         /\ fs_data' \in [Blocks -> Names \cup {Data}]
         /\ free_blocks' \subseteq Blocks \ {ROOT_BLOCK}
         /\ \A j \in Inodes : j # i => inode_table'[j] = inode_table[j]
         /\ inode_table'[i].i_node_type = inode_table[i].i_node_type
<1>1. TypeOK /\ TablesInv /\ inode_table \in [Inodes -> InodeType]
  BY DEF IInv, TypeOK, InodeType
<1>2. i \in Inodes /\ inode_table[i] \in InodeType /\ i # ROOT_DIR_INUM /\ i \notin freeinode_ts
  BY <1>1 DEF Taken
<1>3. inode_table[i].i_size # 0 => i \in Owners
  BY <1>2, Owned, SizesAssumption DEF InodeType
<1>4. /\ b \in Blocks /\ b \notin free_blocks'
      /\ free_blocks' \subseteq Blocks \ {ROOT_BLOCK} /\ free_blocks' \subseteq free_blocks
  BY <1>1, <1>3, Owned DEF TypeOK
<1>5. /\ inode_table' \in [Inodes -> InodeType]
      /\ \A j \in Inodes : j # i => inode_table'[j] = inode_table[j]
      /\ inode_table'[i].i_node_type = inode_table[i].i_node_type
      /\ inode_table'[i].i_links_count = inode_table[i].i_links_count
      /\ inode_table'[i].i_data_block = b
  BY <1>1, <1>2, <1>4, WriteInode
<1>6. \A j \in Owners : j # i => inode_table[j].i_data_block # b
  BY <1>3, Owned
<1>7. /\ fs_data' \in [Blocks -> Names \cup {Data}]
      /\ \A c \in Blocks : c # b => fs_data'[c] = fs_data[c]
  BY <1>1 DEF TypeOK
<1>8. \A j \in Inodes : IsLink(j)' <=> IsLink(j)
  BY <1>5 DEF IsLink
<1>9. \A j \in Owners' : j # i => j \in Owners /\ inode_table'[j] = inode_table[j]
  BY <1>5 DEF Owners
<1>10. BlocksOwned'
  <2>1. \A j \in Owners' : inode_table'[j].i_data_block \in Blocks \ free_blocks'
    BY <1>4, <1>5, <1>9, Owned
  <2>2. \A j, k \in Owners' : j # k =>
           inode_table'[j].i_data_block # inode_table'[k].i_data_block
    <3> SUFFICES ASSUME NEW j \in Owners', NEW k \in Owners', j # k
                 PROVE  inode_table'[j].i_data_block # inode_table'[k].i_data_block
      OBVIOUS
    <3>1. CASE j = i
      BY <1>5, <1>6, <1>9, <3>1
    <3>2. CASE k = i
      BY <1>5, <1>6, <1>9, <3>2
    <3>3. CASE j # i /\ k # i
      BY <1>9, <3>3, Owned
    <3> QED BY <3>1, <3>2, <3>3
  <2> QED BY <2>1, <2>2 DEF BlocksOwned
<1>11. RootKept' /\ EntriesLive' /\ NamesUnique'
  BY <1>1, <1>2, <1>5, RootIndex DEF TablesInv, RootKept, EntriesLive, NamesUnique, Taken,
                                     RootInode
<1>12. LinksResolved'
  <2> SUFFICES ASSUME NEW s \in Slots, dir[s].d_inumber # -1, IsLink(dir[s].d_inumber)
               PROVE  LET j == dir[s].d_inumber IN
                      /\ inode_table'[j] = inode_table[j]
                      /\ fs_data'[inode_table[j].i_data_block] =
                            fs_data[inode_table[j].i_data_block]
    <3>1. \A s \in Slots : dir[s].d_inumber # -1 => dir[s].d_inumber \in Inodes
      BY <1>1 DEF TypeOK
    <3> QED BY <1>1, <1>8, <3>1 DEF TablesInv, LinksResolved, CallsOf
  <2>1. dir[s].d_inumber \in Taken
    BY <1>1 DEF TablesInv, EntriesLive
  <2>2. inode_table[dir[s].d_inumber].i_data_block # -1
    BY <1>1 DEF TablesInv, LinksResolved
  <2>3. dir[s].d_inumber \in Owners
    BY <2>1, <2>2 DEF Owners, Taken, IsLink
  <2>4. dir[s].d_inumber # i
    OBVIOUS
  <2> QED BY <1>5, <1>6, <1>7, <2>1, <2>3, <2>4, Owned DEF Taken
<1>13. HandlesNamed'
  <2>1. \A h \in Handles : open_file_table[h].of_inumber \in Inodes
    BY <1>1 DEF TypeOK
  <2> QED BY <1>1, <1>8, <2>1 DEF TablesInv, HandlesNamed, IsOpenHandle, Entries
<1>14. Counted'
  <2>1. \A j \in Inodes : inode_table'[j].i_links_count = inode_table[j].i_links_count
    BY <1>5
  <2>2. Taken' = Taken /\ \A j : Entries(j)' = Entries(j)
    BY DEF Taken, Entries
  <2> QED BY <1>1, <2>1, <2>2 DEF TablesInv, Counted, Taken
<1> QED BY <1>4, <1>5, <1>7, <1>10, <1>11, <1>12, <1>13, <1>14 DEF TablesInv

(* A write ends within the block.                                             *)
LEMMA WriteInBlock ==
  ASSUME IInv, NEW t \in Threads, pc[t] = "w_copy",
         open_file_table[loc[t].fd].of_offset <= BLOCK_SIZE
  PROVE  open_file_table[loc[t].fd].of_offset +
           ToWrite(open_file_table[loc[t].fd].of_offset, loc[t].call.len) \in 0..BLOCK_SIZE
<1> DEFINE offset == open_file_table[loc[t].fd].of_offset
           n == ToWrite(offset, loc[t].call.len)
<1>1. loc[t].call.len \in Nat
  <2>1. loc[t].call.op \in {"write", "copy"} /\ loc[t].call \in Calls \cup {NoCall}
    BY DEF IInv, Local, InCall, LocType
  <2> QED BY <2>1, CallFacts DEF NoCall
<1>2. offset \in Nat
  <2>1. loc[t].fd \in Handles
    BY HandleUsed DEF FdPCs
  <2>2. offset \in 0..DATA_BLOCKS * BLOCK_SIZE
    BY <2>1 DEF IInv, TypeOK
  <2> QED BY <2>2, Arena
<1>3. offset <= BLOCK_SIZE
  OBVIOUS
<1> HIDE DEF offset
<1>4. n \in Nat /\ offset + n <= BLOCK_SIZE
  BY <1>1, <1>2, <1>3, ToWriteFits
<1> HIDE DEF n
<1>5. offset + n \in 0..BLOCK_SIZE
  BY <1>2, <1>4, SizesAssumption
<1> QED BY <1>5 DEF offset, n

LEMMA W_CopyStep ==
  ASSUME IInv, NEW t \in Threads, UNCHANGED calls, W_Copy(t)
  PROVE  IInv'
<1> DEFINE h == loc[t].fd
           offset == open_file_table[h].of_offset
           i == open_file_table[h].of_inumber
           empty == inode_table[i].i_size = 0
           bnum == IF empty THEN First(free_blocks) ELSE inode_table[i].i_data_block
           n == ToWrite(offset, loc[t].call.len)
<1>1. /\ TypeOK /\ loc \in [Threads -> LocType] /\ Local(t)
      /\ pc[t] = "w_copy"
      /\ UNCHANGED <<freeinode_ts, dir, free_open_file_entries, open_file_table_rwl>>
  BY DEF IInv, W_Copy
<1>2. pc[t] \notin FluxPCs \cup {"o_entry"} /\ pc[t] \in FdPCs \ {"o_entry"}
  BY <1>1 DEF FluxPCs, FdPCs
<1>3. h \in Handles /\ i \in Taken /\ i \in Inodes /\ ~IsLink(i) /\ Entries(i) # {}
  BY <1>2, HandleUsed DEF Taken
<1>4. inode_rwl[i] = t
  BY <1>1 DEF Local, Holds
<1>5. ASSUME UnlockInodes({i}) /\ UnlockEntry(t)
      PROVE  /\ inode_rwl' \in [Inodes -> Threads \cup {Nobody}]
             /\ \A j \in Inodes : inode_rwl'[j] = inode_rwl[j] \/ inode_rwl[j] \in {Nobody, t}
             /\ entry_lock' \in [Handles -> Threads \cup {Nobody}]
  <2>1. /\ inode_rwl' \in [Inodes -> Threads \cup {Nobody}]
        /\ \A j \in Inodes : inode_rwl'[j] = IF j \in {i} THEN Nobody ELSE inode_rwl[j]
    BY <1>1, <1>5, Unlocked
  <2>2. entry_lock' \in [Handles -> Threads \cup {Nobody}]
    BY <1>1, <1>5 DEF TypeOK, UnlockEntry
  <2> QED BY <1>4, <2>1, <2>2
<1>6. CASE /\ UnlockInodes({i}) /\ UnlockEntry(t) /\ WriteReturns(t)
           /\ UNCHANGED <<inode_table, blocks, open_file_table, fault>>
  <2>1. UNCHANGED <<inodes, handles>>
    BY <1>1, <1>6 DEF inodes, handles
  <2>2. CASE Return(t)
    BY <1>1, <1>2, <1>5, <1>6, <2>1, <2>2, ReturnUnlocks
  <2>3. CASE Goto(t, "c_remove") /\ UNCHANGED loc /\ loc[t].call.op = "copy"
    BY <1>1, <1>5, <1>6, <2>1, <2>3, UseStep
  <2> QED BY <1>1, <1>6, <2>2, <2>3, WriteEnds
<1>7. CASE Dies("overrun")
  BY <1>7, DiesStep
<1>8. CASE /\ offset <= BLOCK_SIZE /\ (empty => free_blocks # {})
           /\ WriteBlock(h, i, bnum, offset, n)
           /\ free_blocks' = IF empty THEN free_blocks \ {bnum} ELSE free_blocks
           /\ UnlockInodes({i}) /\ UnlockEntry(t) /\ WriteReturns(t) /\ UNCHANGED fault
  <2>3. offset + n \in 0..BLOCK_SIZE
    BY <1>1, <1>8, WriteInBlock
  <2>4. offset + n \in 0..DATA_BLOCKS * BLOCK_SIZE
    BY <2>3, Arena, SizesAssumption
  <2>5. \/ /\ inode_table[i].i_size = 0 /\ bnum \in free_blocks
           /\ free_blocks' = free_blocks \ {bnum}
        \/ /\ inode_table[i].i_size # 0 /\ bnum = inode_table[i].i_data_block
           /\ free_blocks' = free_blocks
    BY <1>1, <1>8, FirstFree
  <2>6. /\ fs_data' = [fs_data EXCEPT ![bnum] = Data]
        /\ open_file_table' = [open_file_table EXCEPT ![h].of_offset = offset + n]
        /\ inode_table' = [inode_table EXCEPT ![i].i_data_block = bnum,
                              ![i].i_size = IF offset + n > @ THEN offset + n ELSE @]
    BY <1>8 DEF WriteBlock
  <2>7. /\ open_file_table' \in [Handles -> HandleType]
        /\ \A k \in Handles : open_file_table'[k].of_inumber = open_file_table[k].of_inumber
    BY <1>1, <1>3, <2>4, <2>6, OffsetMoved
  <2> HIDE DEF bnum, n, offset, i
  <2>8. ASSUME NEW to, NEW call, NEW name, NEW fd, NEW inum, NEW o,
               Now(t, to, call, name, fd, inum, o), to \notin FluxPCs \cup {"o_entry"},
               Local(t)', KeptApart'
        PROVE  IInv'
    <3>1. /\ Moves(t) /\ pc'[t] \notin FluxPCs \cup {"o_entry"}
          /\ loc' \in [Threads -> LocType] /\ pc' \in [Threads -> StepPCs]
      BY <2>8 DEF Now
    <3>2. (\A k : Pending(k)' <=> Pending(k)) /\ (\A j : InFlux(j)' <=> InFlux(j))
      BY <1>2, <3>1 DEF Pending, InFlux, Moves
    <3>3. /\ TablesInv'
          /\ inode_table' \in [Inodes -> InodeType]
          /\ fs_data' \in [Blocks -> Names \cup {Data}]
          /\ free_blocks' \subseteq Blocks \ {ROOT_BLOCK}
          /\ \A j \in Inodes : j # i => inode_table'[j] = inode_table[j]
          /\ inode_table'[i].i_node_type = inode_table[i].i_node_type
      BY <1>1, <1>3, <2>3, <2>5, <2>6, <2>7, <3>2, WriteTables
    <3>4. TypeOK'
      BY <1>1, <1>5, <1>8, <2>7, <3>1, <3>3 DEF TypeOK, InodeType, HandleType
    <3>5. Guarantee(t)
      <4>1. \A j \in Inodes : /\ inode_table'[j] = inode_table[j] \/ Entries(j) # {}
                              /\ inode_table'[j].i_node_type = inode_table[j].i_node_type
                              /\ inode_table'[j] = inode_table[j] \/ inode_rwl[j] = t
        BY <1>3, <1>4, <3>3
      <4> QED BY <1>1, <1>5, <1>8, <2>7, <3>1, <4>1 DEF Guarantee, Taken
    <3> QED BY <2>8, <3>1, <3>3, <3>4, <3>5, Finish
  <2>9. CASE Return(t)
    <3>1. Now(t, "idle", NoCall, NoName, NoHandle, -1, 0)
      BY <1>1, <2>9, Returned
    <3>2. Local(t)' /\ KeptApart' /\ "idle" \notin FluxPCs \cup {"o_entry"}
      BY <3>1, IdleLocal, ApartKept DEF FluxPCs
    <3> QED BY <2>8, <3>1, <3>2
  <2>10. CASE Goto(t, "c_remove") /\ UNCHANGED loc /\ loc[t].call.op = "copy"
    <3>1. "c_remove" \in StepPCs /\ "c_remove" \notin FluxPCs \cup {"o_entry"}
      BY DEF StepPCs, FluxPCs
    <3>2. Now(t, "c_remove", loc[t].call, loc[t].name, loc[t].fd, loc[t].inum, loc[t].offset)
      BY <1>1, <2>10, <3>1, Stays DEF Goto
    <3>3. pc'[t] = "c_remove" /\ loc'[t] = loc[t]
      BY <2>10, <3>2 DEF Now
    <3>4. InCall(t)'
      BY <1>1, <2>10, <3>3 DEF Local, InCall, OpenPCs, FdPCs
    <3>5. Local(t)'
      BY <1>1, <3>3, <3>4 DEF Local, Holds, KnowsDir, KnowsFile, RootPCs, FluxPCs, FoundPCs,
                              FdPCs
    <3>6. KeptApart'
      BY <3>2, ApartKept
    <3> QED BY <2>8, <3>1, <3>2, <3>5, <3>6
  <2> QED BY <1>1, <1>8, <2>9, <2>10, WriteEnds
<1> QED BY <1>6, <1>7, <1>8 DEF W_Copy

-----------------------------------------------------------------------------
(* Steps under the root's lock: they change the directory and the inodes.     *)

LEMMA EntriesFinite ==
  ASSUME NEW i
  PROVE  /\ IsFiniteSet(Entries(i)) /\ Cardinality(Entries(i)) \in Nat
         /\ Cardinality(Entries(i)) <= MAX_DIR_ENTRIES
         /\ Entries(i) # Slots => Cardinality(Entries(i)) < MAX_DIR_ENTRIES
<1>1. IsFiniteSet(Slots) /\ Cardinality(Slots) = MAX_DIR_ENTRIES
  BY FS_Interval, SizesAssumption DEF Slots
<1>2. Entries(i) \subseteq Slots
  BY DEF Entries
<1>3. IsFiniteSet(Entries(i)) /\ Cardinality(Entries(i)) <= MAX_DIR_ENTRIES
  BY <1>1, <1>2, FS_Subset
<1>4. Cardinality(Entries(i)) = MAX_DIR_ENTRIES => Entries(i) = Slots
  BY <1>1, <1>2, FS_Subset
<1>5. Cardinality(Entries(i)) \in Nat
  BY <1>3, FS_CardinalityType
<1> QED BY <1>3, <1>4, <1>5, SizesAssumption

(* add_dir_entry fills in one free entry.                                     *)
LEMMA EntryAdded ==
  ASSUME TypeOK, NEW name, NEW i \in Inodes, RoomFor(name), add_dir_entry(name, i)
  PROVE  /\ dir' \in [Slots -> EntryType]
         /\ \A s \in Slots : dir'[s] = dir[s] \/ dir[s].d_inumber = -1
         /\ \E s \in Slots : /\ dir[s].d_inumber = -1
                             /\ dir'[s].d_inumber = i /\ dir'[s].d_name = name
                             /\ \A r \in Slots \ {s} : dir'[r] = dir[r]
         /\ Cardinality(Entries(i)') = Cardinality(Entries(i)) + 1
         /\ Entries(i)' # {}
         /\ \A j \in Inodes : j # i => Entries(j)' = Entries(j)
<1> DEFINE s == First(FreeSlots)
           entry == [d_name |-> name, d_inumber |-> i]
<1>1. dir \in [Slots -> EntryType] /\ entry \in EntryType /\ i # -1
  BY SizesAssumption DEF TypeOK, EntryType, RoomFor, Inodes
<1>2. s \in Slots /\ dir[s].d_inumber = -1
  BY FirstFree DEF FreeSlots, RoomFor
<1>3. dir' = [dir EXCEPT ![s] = entry]
  BY DEF add_dir_entry
<1>4. entry.d_inumber = i /\ entry.d_name = name
  OBVIOUS
<1> HIDE DEF s, entry
<1>5. dir' \in [Slots -> EntryType] /\ dir'[s] = entry /\ \A r \in Slots \ {s} : dir'[r] = dir[r]
  BY <1>1, <1>2, <1>3
<1>6. Entries(i)' = Entries(i) \cup {s} /\ s \notin Entries(i)
  BY <1>1, <1>2, <1>4, <1>5 DEF Entries
<1>7. Cardinality(Entries(i)') = Cardinality(Entries(i)) + 1
  BY <1>6, EntriesFinite, FS_AddElement
<1>8. \A j \in Inodes : j # i => Entries(j)' = Entries(j)
  <2>1. -1 \notin Inodes
    BY RootIndex
  <2> QED BY <1>2, <1>4, <1>5, <2>1 DEF Entries
<1>9. \A r \in Slots : dir'[r] = dir[r] \/ dir[r].d_inumber = -1
  BY <1>2, <1>5
<1> QED BY <1>2, <1>4, <1>5, <1>6, <1>7, <1>8, <1>9

(* clear_dir_entry removes the entry of a name.                               *)
LEMMA EntryCleared ==
  ASSUME TypeOK, NamesUnique, NEW name, NEW i \in Inodes, NamedAs(name, i),
         clear_dir_entry(name)
  PROVE  /\ dir' \in [Slots -> EntryType]
         /\ \A r \in Slots : \/ dir'[r] = dir[r]
                             \/ /\ dir[r].d_name = name /\ dir[r].d_inumber = i
                                /\ dir'[r].d_inumber = -1
         /\ Cardinality(Entries(i)') = Cardinality(Entries(i)) - 1
         /\ \A j \in Inodes : j # i => Entries(j)' = Entries(j)
         /\ EntriesOf(name)' = {}
<1> DEFINE s == First(EntriesOf(name))
           entry == [d_name |-> NoName, d_inumber |-> -1]
<1>1. dir \in [Slots -> EntryType] /\ entry \in EntryType
  BY DEF TypeOK, EntryType
<1>2. s \in Slots /\ dir[s].d_inumber = i /\ dir[s].d_name = name
      /\ \A r \in EntriesOf(name) : r = s
  BY OneEntry
<1>3. dir' = [dir EXCEPT ![s] = entry]
  BY DEF clear_dir_entry
<1>4. entry.d_inumber = -1
  OBVIOUS
<1> HIDE DEF s, entry
<1>5. dir' \in [Slots -> EntryType] /\ dir'[s] = entry /\ \A r \in Slots \ {s} : dir'[r] = dir[r]
  BY <1>1, <1>2, <1>3
<1>6. -1 \notin Inodes
  BY RootIndex
<1>7. Entries(i)' = Entries(i) \ {s} /\ s \in Entries(i)
  BY <1>2, <1>4, <1>5, <1>6 DEF Entries
<1>8. Cardinality(Entries(i)') = Cardinality(Entries(i)) - 1
  BY <1>7, EntriesFinite, FS_RemoveElement
<1>9. \A j \in Inodes : j # i => Entries(j)' = Entries(j)
  BY <1>2, <1>4, <1>5, <1>6 DEF Entries
<1>10. EntriesOf(name)' = {}
  BY <1>2, <1>4, <1>5 DEF EntriesOf
<1> QED BY <1>2, <1>4, <1>5, <1>8, <1>9, <1>10

(* Under the root's lock nobody else is between a name and its link count.    *)
LEMMA FluxOwn ==
  ASSUME IInv, NEW t \in Threads, pc[t] \in RootPCs, Moves(t)
  PROVE  /\ \A i : InFlux(i) <=> pc[t] \in FluxPCs /\ loc[t].inum = i
         /\ \A i : InFlux(i)' <=> pc'[t] \in FluxPCs /\ loc'[t].inum = i
<1>1. \A u \in Threads : u # t => pc[u] \notin FluxPCs
  <2>1. FluxPCs \subseteq RootPCs
    BY DEF FluxPCs, RootPCs
  <2> QED BY <2>1, OneAtRoot
<1> QED BY <1>1 DEF InFlux, Moves

LEMMA RootStep ==
  ASSUME IInv, NEW t \in Threads, pc[t] \in RootPCs,
         NEW to, NEW call, NEW name, NEW fd, NEW inum, NEW offset,
         Now(t, to, call, name, fd, inum, offset),
         UNCHANGED <<handles, entry_lock, open_file_table_rwl, calls, fault>>,
         inode_table' \in [Inodes -> InodeType],
         freeinode_ts' \subseteq Inodes \ {ROOT_DIR_INUM},
         dir' \in [Slots -> EntryType],
         free_blocks' \subseteq Blocks \ {ROOT_BLOCK},
         fs_data' \in [Blocks -> Names \cup {Data}],
         inode_rwl' \in [Inodes -> Threads \cup {Nobody}],
         \A i \in Inodes \ freeinode_ts :
            inode_rwl'[i] = inode_rwl[i] \/ inode_rwl[i] \in {Nobody, t},
         \A s \in Slots : \/ dir'[s] = dir[s] \/ dir[s].d_inumber = -1
                          \/ loc[t].call.op = "unlink" /\ dir[s].d_name = loc[t].call.name,
         \A i \in Taken : /\ inode_table'[i].i_node_type = inode_table[i].i_node_type
                          /\ inode_table'[i].i_size = inode_table[i].i_size,
         Local(t)', KeptApart', TablesInv'
  PROVE  IInv'
<1>1. UNCHANGED <<open_file_table, free_open_file_entries>>
  BY DEF handles
<1>2. /\ Moves(t) /\ loc' \in [Threads -> LocType] /\ pc' \in [Threads -> StepPCs]
  BY DEF Now
<1>3. TypeOK'
  BY <1>1, <1>2 DEF IInv, TypeOK, InodeType, EntryType
<1>4. Guarantee(t)
  BY <1>1, <1>2 DEF Guarantee
<1> QED BY <1>2, <1>3, <1>4, Finish

(* Open files keep a name while a step leaves them one.                       *)
LEMMA OpenKeepName ==
  ASSUME IInv, NEW t \in Threads, Moves(t), pc[t] # "o_entry", pc'[t] # "o_entry",
         UNCHANGED handles,
         \A i \in Taken : inode_table'[i].i_node_type = inode_table[i].i_node_type,
         \A h \in Handles : IsOpenHandle(h) /\ ~Pending(h) =>
            Entries(open_file_table[h].of_inumber)' # {}
  PROVE  HandlesNamed'
<1>1. UNCHANGED <<open_file_table, free_open_file_entries>>
  BY DEF handles
<1>2. \A h : Pending(h)' <=> Pending(h)
  BY DEF Pending, Moves
<1> SUFFICES ASSUME NEW h \in Handles, IsOpenHandle(h)', ~Pending(h)'
             PROVE  /\ ~IsLink(open_file_table[h].of_inumber)'
                    /\ Entries(open_file_table[h].of_inumber)' # {}
  BY DEF HandlesNamed
<1>3. IsOpenHandle(h) /\ ~Pending(h)
  BY <1>1, <1>2 DEF IsOpenHandle
<1>4. /\ ~IsLink(open_file_table[h].of_inumber)
      /\ Entries(open_file_table[h].of_inumber) # {}
  BY <1>3 DEF IInv, TablesInv, HandlesNamed
<1>5. open_file_table[h].of_inumber \in Inodes /\ -1 \notin Inodes
  BY RootIndex DEF IInv, TypeOK
<1>6. open_file_table[h].of_inumber \in Taken
  BY <1>4, <1>5 DEF IInv, TablesInv, EntriesLive, Entries
<1>7. ~IsLink(open_file_table[h].of_inumber)'
  BY <1>1, <1>4, <1>6 DEF IsLink
<1> QED BY <1>3, <1>7

(* The inodes of open files have entries, which is what OpenKeepName asks of  *)
(* the steps that remove none of them.                                        *)
LEMMA OpenHaveName ==
  ASSUME IInv, NEW h \in Handles, IsOpenHandle(h), ~Pending(h)
  PROVE  /\ open_file_table[h].of_inumber \in Taken
         /\ Entries(open_file_table[h].of_inumber) # {}
         /\ ~IsLink(open_file_table[h].of_inumber)
<1>1. /\ ~IsLink(open_file_table[h].of_inumber)
      /\ Entries(open_file_table[h].of_inumber) # {}
  BY DEF IInv, TablesInv, HandlesNamed
<1>2. open_file_table[h].of_inumber \in Inodes /\ -1 \notin Inodes
  BY RootIndex DEF IInv, TypeOK
<1> QED BY <1>1, <1>2 DEF IInv, TablesInv, EntriesLive, Entries

(* inode_create takes an inode that nothing refers to.                        *)
LEMMA InodeReset ==
  ASSUME IInv, NEW type \in {"T_FILE", "T_LINK"}, freeinode_ts # {},
         NEW k, k = First(freeinode_ts),
         inode_table' = [inode_table EXCEPT ![k] = NewInode(type)]
  PROVE  /\ k \in freeinode_ts /\ k \in Inodes /\ k # ROOT_DIR_INUM /\ k \notin Taken
         /\ Entries(k) = {}
         /\ inode_table' \in [Inodes -> InodeType]
         /\ inode_table'[k] = NewInode(type)
         /\ \A j \in Inodes : j # k => inode_table'[j] = inode_table[j]
         /\ \A j \in Taken : inode_table'[j] = inode_table[j] /\ j # k
         /\ RootKept'
<1>1. TypeOK /\ inode_table \in [Inodes -> InodeType]
  BY DEF IInv, TypeOK, InodeType
<1>2. k \in freeinode_ts /\ k \in Inodes /\ k # ROOT_DIR_INUM /\ k \notin Taken
  BY <1>1, FirstFree DEF TypeOK, Taken
<1>3. Entries(k) = {}
  BY <1>2, RootIndex DEF IInv, TablesInv, EntriesLive, Entries
<1>4. NewInode(type) \in InodeType
  BY SizesAssumption DEF NewInode, InodeType
<1>5. /\ inode_table' \in [Inodes -> InodeType]
      /\ inode_table'[k] = NewInode(type)
      /\ \A j \in Inodes : j # k => inode_table'[j] = inode_table[j]
  BY <1>1, <1>2, <1>4
<1>6. RootKept'
  <2>1. ROOT_DIR_INUM \in Inodes
    BY <1>1, RootIndex
  <2> QED BY <1>2, <1>5, <2>1 DEF IInv, TablesInv, RootKept, RootInode
<1> QED BY <1>2, <1>3, <1>5, <1>6 DEF Taken

LEMMA O_CreateStep ==
  ASSUME IInv, NEW t \in Threads, UNCHANGED calls, O_Create(t)
  PROVE  IInv'
<1>1. /\ TypeOK /\ loc \in [Threads -> LocType] /\ Local(t)
      /\ pc[t] = "o_create"
      /\ UNCHANGED <<blocks, handles, entry_lock, open_file_table_rwl, fault>>
  BY DEF IInv, O_Create
<1>2. /\ pc[t] \in RootPCs /\ pc[t] \notin FluxPCs \cup {"o_entry"}
      /\ "o_add" \in StepPCs /\ "o_add" \notin FluxPCs \cup {"o_entry"}
      /\ "idle" \notin FluxPCs \cup {"o_entry"}
  BY <1>1 DEF RootPCs, FluxPCs, StepPCs
<1>3. /\ inode_rwl[ROOT_DIR_INUM] = t /\ EntriesOf(loc[t].name) = {}
      /\ loc[t].fd = NoHandle
  BY <1>1, <1>2 DEF Local, Holds, KnowsDir, InCall, FdPCs
<1>4. /\ fs_data' = fs_data /\ fs_data' \in [Blocks -> Names \cup {Data}]
      /\ free_blocks' = free_blocks /\ free_blocks' \subseteq Blocks \ {ROOT_BLOCK}
      /\ dir \in [Slots -> EntryType]
      /\ freeinode_ts \subseteq Inodes \ {ROOT_DIR_INUM}
  BY <1>1 DEF TypeOK, blocks, EntryType
<1>5. CASE freeinode_ts = {} /\ Return(t) /\ UnlockInodes({ROOT_DIR_INUM}) /\ UNCHANGED <<inodes, dir>>
  <2>1. /\ inode_rwl' \in [Inodes -> Threads \cup {Nobody}]
        /\ \A i \in Inodes : inode_rwl'[i] = IF i \in {ROOT_DIR_INUM} THEN Nobody
                                             ELSE inode_rwl[i]
    BY <1>1, <1>5, Unlocked
  <2>2. /\ \A i \in Inodes : inode_rwl'[i] = inode_rwl[i] \/ inode_rwl[i] \in {Nobody, t}
        /\ entry_lock' \in [Handles -> Threads \cup {Nobody}]
    BY <1>1, <1>3, <2>1 DEF TypeOK
  <2> QED BY <1>1, <1>2, <1>5, <2>1, <2>2, ReturnUnlocks
<1>6. ASSUME NEW k, k = First(freeinode_ts), freeinode_ts # {},
             inode_table' = [inode_table EXCEPT ![k] = NewInode("T_FILE")],
             UnlockInodes({ROOT_DIR_INUM, k}),
             \/ /\ RoomFor(loc[t].name) /\ freeinode_ts' = freeinode_ts \ {k}
                /\ add_dir_entry(loc[t].name, k) /\ Goto(t, "o_add")
                /\ loc' = [loc EXCEPT ![t].inum = k, ![t].offset = 0]
             \/ Return(t) /\ UNCHANGED <<freeinode_ts, dir>>
      PROVE  IInv'
  <2>1. /\ k \in freeinode_ts /\ k \in Inodes /\ k # ROOT_DIR_INUM /\ k \notin Taken
        /\ Entries(k) = {}
        /\ inode_table' \in [Inodes -> InodeType]
        /\ inode_table'[k] = NewInode("T_FILE")
        /\ \A j \in Inodes : j # k => inode_table'[j] = inode_table[j]
        /\ \A j \in Taken : inode_table'[j] = inode_table[j] /\ j # k
        /\ RootKept'
    BY <1>6, InodeReset
  <2>2. /\ inode_rwl' \in [Inodes -> Threads \cup {Nobody}]
        /\ \A i \in Inodes \ freeinode_ts :
              inode_rwl'[i] = inode_rwl[i] \/ inode_rwl[i] \in {Nobody, t}
    <3>1. /\ inode_rwl' \in [Inodes -> Threads \cup {Nobody}]
          /\ \A i \in Inodes : inode_rwl'[i] = IF i \in {ROOT_DIR_INUM, k} THEN Nobody
                                               ELSE inode_rwl[i]
      BY <1>1, <1>6, Unlocked
    <3> QED BY <1>3, <2>1, <3>1
  <2>3. \A j \in Taken : /\ inode_table'[j].i_node_type = inode_table[j].i_node_type
                         /\ inode_table'[j].i_size = inode_table[j].i_size
    BY <2>1
  <2>4. ASSUME freeinode_ts' \subseteq freeinode_ts,
               \A j \in Inodes : j # k => (j \in freeinode_ts' <=> j \in freeinode_ts)
        PROVE  BlocksOwned'
    <3>1. k \notin Owners'
      BY <2>1 DEF Owners, NewInode
    <3>2. \A j \in Owners' : j \in Owners /\ inode_table'[j] = inode_table[j]
      BY <2>1, <2>4, <3>1 DEF Owners
    <3> QED BY <1>4, <3>2, Owned DEF BlocksOwned
  <2>5. \A s \in Slots : dir[s].d_inumber # -1 =>
           dir[s].d_inumber \in Taken /\ inode_table'[dir[s].d_inumber] = inode_table[dir[s].d_inumber]
    BY <2>1 DEF IInv, TablesInv, EntriesLive
  <2>6. CASE Return(t) /\ UNCHANGED <<freeinode_ts, dir>>
    <3>1. Now(t, "idle", NoCall, NoName, NoHandle, -1, 0)
      BY <1>1, <2>6, Returned
    <3>2. Local(t)' /\ KeptApart' /\ Moves(t) /\ pc'[t] = "idle"
      BY <3>1, IdleLocal, ApartKept DEF Now
    <3>3. Taken' = Taken /\ \A j : Entries(j)' = Entries(j)
      BY <2>6 DEF Taken, Entries
    <3>4. BlocksOwned'
      BY <2>4, <2>6
    <3>5. EntriesLive' /\ NamesUnique'
      BY <2>6, <3>3 DEF IInv, TablesInv, EntriesLive, NamesUnique
    <3>6. LinksResolved'
      BY <1>4, <2>5, <2>6 DEF IInv, TablesInv, LinksResolved, IsLink, CallsOf
    <3>7. HandlesNamed'
      <4>1. \A h \in Handles : IsOpenHandle(h) /\ ~Pending(h) =>
               Entries(open_file_table[h].of_inumber)' # {}
        <5>1. open_file_table' = open_file_table
          BY <1>1 DEF handles
        <5> QED BY <2>6, <5>1, OpenHaveName DEF Entries
      <4> QED BY <1>1, <1>2, <2>3, <3>2, <4>1, OpenKeepName
    <3>8. Counted'
      <4>1. \A i : (InFlux(i)' <=> FALSE) /\ (InFlux(i) <=> FALSE)
        BY <1>2, <3>2, FluxOwn
      <4> QED BY <2>1, <3>3, <4>1 DEF IInv, TablesInv, Counted
    <3>9. TablesInv'
      BY <2>1, <3>4, <3>5, <3>6, <3>7, <3>8 DEF TablesInv
    <3> QED BY <1>1, <1>2, <1>4, <2>1, <2>2, <2>3, <2>6, <3>1, <3>2, <3>9, RootStep
  <2>7. CASE /\ RoomFor(loc[t].name) /\ freeinode_ts' = freeinode_ts \ {k}
             /\ add_dir_entry(loc[t].name, k) /\ Goto(t, "o_add")
             /\ loc' = [loc EXCEPT ![t].inum = k, ![t].offset = 0]
    <3>1. 0 \in 0..BLOCK_SIZE /\ k \in Inodes \cup {-1}
      BY <2>1, SizesAssumption
    <3>2. Now(t, "o_add", loc[t].call, loc[t].name, loc[t].fd, k, 0)
      BY <1>1, <1>2, <2>7, <3>1, SetInumOffset DEF Goto
    <3>3. /\ pc'[t] = "o_add" /\ loc'[t].call = loc[t].call /\ loc'[t].name = loc[t].name
          /\ loc'[t].fd = NoHandle /\ loc'[t].inum = k /\ Moves(t)
      BY <1>3, <3>2 DEF Now
    <3>4. /\ dir' \in [Slots -> EntryType]
          /\ \A s \in Slots : dir'[s] = dir[s] \/ dir[s].d_inumber = -1
          /\ Cardinality(Entries(k)') = Cardinality(Entries(k)) + 1
          /\ \A j \in Inodes : j # k => Entries(j)' = Entries(j)
      BY <1>1, <2>1, <2>7, EntryAdded
    <3>5. PICK s \in Slots : /\ dir[s].d_inumber = -1
                             /\ dir'[s].d_inumber = k /\ dir'[s].d_name = loc[t].name
                             /\ \A r \in Slots \ {s} : dir'[r] = dir[r]
      BY <1>1, <2>1, <2>7, EntryAdded
    <3>6. Taken' = Taken \cup {k}
      BY <2>1, <2>7 DEF Taken
    <3>7. InCall(t)'
      BY <1>1, <3>3 DEF Local, InCall, OpenPCs, FdPCs, LooksUp, CallsOf, Opens
    <3>8. NamedAs(loc[t].name, loc[t].inum)' /\ ~IsLink(loc[t].inum)'
      <4>1. k # -1
        BY <1>1, <2>1, RootIndex
      <4> QED BY <2>1, <3>3, <3>5, <4>1 DEF NamedAs, EntriesOf, IsLink, NewInode
    <3>9. Local(t)'
      BY <3>3, <3>7, <3>8 DEF Local, Holds, KnowsDir, KnowsFile, RootPCs, FluxPCs, FoundPCs,
                              FdPCs
    <3>10. KeptApart'
      BY <3>2, ApartKept
    <3>11. EntriesLive'
      BY <3>5, <3>6 DEF IInv, TablesInv, EntriesLive
    <3>12. NamesUnique'
      <4>1. \A r \in Slots : dir[r].d_inumber # -1 => dir[r].d_name # loc[t].name
        BY <1>3 DEF EntriesOf
      <4> QED BY <3>5, <4>1 DEF IInv, TablesInv, NamesUnique
    <3>13. LinksResolved'
      <4>1. ~IsLink(k)'
        BY <2>1 DEF IsLink, NewInode
      <4> QED BY <1>4, <2>5, <3>5, <4>1 DEF IInv, TablesInv, LinksResolved, IsLink, CallsOf
    <3>14. HandlesNamed'
      <4>1. open_file_table' = open_file_table
        BY <1>1 DEF handles
      <4>2. \A h \in Handles : IsOpenHandle(h) /\ ~Pending(h) =>
               Entries(open_file_table[h].of_inumber)' # {}
        <5> SUFFICES ASSUME NEW h \in Handles, IsOpenHandle(h), ~Pending(h)
                     PROVE  Entries(open_file_table[h].of_inumber)' # {}
          OBVIOUS
        <5>1. PICK i \in Taken : i = open_file_table[h].of_inumber /\ Entries(i) # {}
          BY OpenHaveName
        <5>2. Entries(i)' = Entries(i)
          BY <2>1, <3>4 DEF Taken
        <5> QED BY <4>1, <5>1, <5>2
      <4> QED BY <1>1, <1>2, <2>3, <3>3, <4>2, OpenKeepName
    <3>15. BlocksOwned'
      BY <2>4, <2>7
    <3>16. Counted'
      <4>1. \A i : (InFlux(i)' <=> FALSE) /\ (InFlux(i) <=> FALSE)
        BY <1>2, <3>3, FluxOwn
      <4>2. Cardinality(Entries(k)') = 1
        BY <2>1, <3>4, FS_EmptySet
      <4>3. inode_table'[k].i_links_count = 1
        BY <2>1 DEF NewInode
      <4>4. \A i \in Taken : /\ Entries(i)' = Entries(i)
                             /\ inode_table'[i] = inode_table[i]
        BY <2>1, <3>4 DEF Taken
      <4> QED BY <3>6, <4>1, <4>2, <4>3, <4>4 DEF IInv, TablesInv, Counted
    <3>17. TablesInv'
      BY <2>1, <3>11, <3>12, <3>13, <3>14, <3>15, <3>16 DEF TablesInv
    <3>18. freeinode_ts' \subseteq Inodes \ {ROOT_DIR_INUM}
      BY <1>4, <2>7
    <3> QED BY <1>1, <1>2, <1>4, <2>1, <2>2, <2>3, <3>2, <3>4, <3>9, <3>10, <3>17, <3>18, RootStep
  <2> QED BY <1>6, <2>6, <2>7
<1> QED BY <1>5, <1>6 DEF O_Create

LEMMA Y_CreateStep ==
  ASSUME IInv, NEW t \in Threads, UNCHANGED calls, Y_Create(t)
  PROVE  IInv'
<1>1. /\ TypeOK /\ loc \in [Threads -> LocType] /\ Local(t)
      /\ pc[t] = "y_create"
      /\ UNCHANGED <<dir, blocks, handles, entry_lock, open_file_table_rwl, fault>>
  BY DEF IInv, Y_Create
<1>2. /\ pc[t] \in RootPCs /\ pc[t] \notin FluxPCs \cup {"o_entry"}
      /\ "y_block" \in StepPCs /\ "y_block" \in FluxPCs
  BY <1>1 DEF RootPCs, FluxPCs, StepPCs
<1>3. /\ inode_rwl[ROOT_DIR_INUM] = t /\ EntriesOf(loc[t].name) = {}
      /\ EntriesOf(loc[t].call.target) # {}
      /\ loc[t].fd = NoHandle
  BY <1>1, <1>2 DEF Local, Holds, KnowsDir, InCall, FdPCs
<1>4. /\ fs_data' = fs_data /\ fs_data' \in [Blocks -> Names \cup {Data}]
      /\ free_blocks' = free_blocks /\ free_blocks' \subseteq Blocks \ {ROOT_BLOCK}
      /\ dir' \in [Slots -> EntryType]
      /\ freeinode_ts \subseteq Inodes \ {ROOT_DIR_INUM}
  BY <1>1 DEF TypeOK, blocks, EntryType
<1>5. CASE Return(t) /\ UnlockInodes({ROOT_DIR_INUM}) /\ UNCHANGED inodes
  <2>1. /\ inode_rwl' \in [Inodes -> Threads \cup {Nobody}]
        /\ \A i \in Inodes : inode_rwl'[i] = IF i \in {ROOT_DIR_INUM} THEN Nobody
                                             ELSE inode_rwl[i]
    BY <1>1, <1>5, Unlocked
  <2>2. /\ \A i \in Inodes : inode_rwl'[i] = inode_rwl[i] \/ inode_rwl[i] \in {Nobody, t}
        /\ entry_lock' \in [Handles -> Threads \cup {Nobody}]
    BY <1>1, <1>3, <2>1 DEF TypeOK
  <2> QED BY <1>1, <1>2, <1>5, <2>1, <2>2, ReturnUnlocks
<1>6. ASSUME NEW k, k = First(freeinode_ts), freeinode_ts # {},
             inode_table' = [inode_table EXCEPT ![k] = NewInode("T_LINK")],
             freeinode_ts' = freeinode_ts \ {k}, UnlockInodes({k}),
             Goto(t, "y_block"), loc' = [loc EXCEPT ![t].inum = k]
      PROVE  IInv'
  <2>1. /\ k \in freeinode_ts /\ k \in Inodes /\ k # ROOT_DIR_INUM /\ k \notin Taken
        /\ Entries(k) = {}
        /\ inode_table' \in [Inodes -> InodeType]
        /\ inode_table'[k] = NewInode("T_LINK")
        /\ \A j \in Inodes : j # k => inode_table'[j] = inode_table[j]
        /\ \A j \in Taken : inode_table'[j] = inode_table[j] /\ j # k
        /\ RootKept'
    BY <1>6, InodeReset
  <2>2. /\ inode_rwl' \in [Inodes -> Threads \cup {Nobody}]
        /\ \A i \in Inodes : inode_rwl'[i] = IF i \in {k} THEN Nobody ELSE inode_rwl[i]
    BY <1>1, <1>6, Unlocked
  <2>3. /\ \A i \in Inodes \ freeinode_ts : inode_rwl'[i] = inode_rwl[i]
        /\ inode_rwl'[ROOT_DIR_INUM] = t
    BY <1>1, <1>3, <2>1, <2>2, RootIndex
  <2>4. \A j \in Taken : /\ inode_table'[j].i_node_type = inode_table[j].i_node_type
                         /\ inode_table'[j].i_size = inode_table[j].i_size
    BY <2>1
  <2>5. Now(t, "y_block", loc[t].call, loc[t].name, loc[t].fd, k, loc[t].offset)
    BY <1>1, <1>2, <1>6, <2>1, SetInum DEF Goto
  <2>6. /\ pc'[t] = "y_block" /\ loc'[t].call = loc[t].call /\ loc'[t].name = loc[t].name
        /\ loc'[t].fd = NoHandle /\ loc'[t].inum = k /\ Moves(t)
    BY <1>3, <2>5 DEF Now
  <2>7. Taken' = Taken \cup {k} /\ \A j : Entries(j)' = Entries(j)
    BY <1>1, <1>6, <2>1 DEF Taken, Entries
  <2>8. InCall(t)'
    BY <1>1, <2>6 DEF Local, InCall, OpenPCs, FdPCs
  <2>9. EntriesOf(loc[t].name)' = {} /\ EntriesOf(loc[t].call.target)' # {}
    BY <1>1, <1>3, <2>6 DEF EntriesOf
  <2>10. loc'[t].inum \in Taken' /\ inode_table'[loc'[t].inum] = NewInode("T_LINK")
    BY <2>1, <2>6, <2>7
  <2>11. Local(t)'
    BY <2>3, <2>6, <2>8, <2>9, <2>10
       DEF Local, Holds, KnowsDir, KnowsFile, RootPCs, FluxPCs, FoundPCs, FdPCs, NewInode
  <2>12. KeptApart'
    BY <2>5, ApartKept
  <2>13. EntriesLive' /\ NamesUnique'
    BY <1>1, <2>7 DEF IInv, TablesInv, EntriesLive, NamesUnique
  <2>14. LinksResolved'
    <3>1. \A s \in Slots : dir[s].d_inumber # -1 =>
             inode_table'[dir[s].d_inumber] = inode_table[dir[s].d_inumber]
      BY <2>1 DEF IInv, TablesInv, EntriesLive
    <3> QED BY <1>1, <1>4, <3>1 DEF IInv, TablesInv, LinksResolved, IsLink, CallsOf
  <2>15. HandlesNamed'
    <3>1. open_file_table' = open_file_table
      BY <1>1 DEF handles
    <3>2. \A h \in Handles : IsOpenHandle(h) /\ ~Pending(h) =>
             Entries(open_file_table[h].of_inumber)' # {}
      BY <1>1, <3>1, OpenHaveName DEF Entries
    <3> QED BY <1>1, <1>2, <2>4, <2>6, <3>2, OpenKeepName
  <2>16. BlocksOwned'
    <3>1. k \notin Owners'
      BY <2>1 DEF Owners, NewInode
    <3>2. \A j \in Owners' : j \in Owners /\ inode_table'[j] = inode_table[j]
      BY <1>6, <2>1, <3>1 DEF Owners
    <3> QED BY <1>4, <3>2, Owned DEF BlocksOwned
  <2>17. Counted'
    <3>1. \A i : (InFlux(i)' <=> i = k) /\ (InFlux(i) <=> FALSE)
      BY <1>2, <2>6, FluxOwn
    <3>2. Cardinality(Entries(k)') = 0
      BY <2>1, <2>7, FS_EmptySet
    <3>3. inode_table'[k].i_links_count = 1
      BY <2>1 DEF NewInode
    <3> QED BY <2>1, <2>7, <3>1, <3>2, <3>3 DEF IInv, TablesInv, Counted
  <2>18. TablesInv'
    BY <2>1, <2>13, <2>14, <2>15, <2>16, <2>17 DEF TablesInv
  <2>19. freeinode_ts' \subseteq Inodes \ {ROOT_DIR_INUM} /\ \A s \in Slots : dir'[s] = dir[s]
    BY <1>1, <1>4, <1>6
  <2> QED BY <1>1, <1>2, <1>4, <2>1, <2>2, <2>3, <2>4, <2>5, <2>11, <2>12, <2>18, <2>19, RootStep
<1> QED BY <1>5, <1>6 DEF Y_Create

(* A link that is refused gives its inode back; nothing referred to it.       *)
LEMMA FreedTables ==
  ASSUME IInv, NEW t \in Threads, pc[t] \in FluxPCs, Moves(t), pc'[t] = "idle",
         inode_table[loc[t].inum].i_links_count = 1,
         freeinode_ts' = freeinode_ts \cup {loc[t].inum},
         \A j \in Inodes : j # loc[t].inum => inode_table'[j] = inode_table[j],
         inode_table'[loc[t].inum].i_node_type = inode_table[loc[t].inum].i_node_type,
         \/ free_blocks' \subseteq free_blocks
         \/ /\ loc[t].inum \in Owners
            /\ free_blocks' = free_blocks \cup {inode_table[loc[t].inum].i_data_block},
         \A b \in Blocks \ free_blocks : fs_data'[b] = fs_data[b],
         UNCHANGED <<dir, handles>>
  PROVE  TablesInv'
<1>1. PICK k \in Inodes : k = loc[t].inum
  BY DEF IInv, Local, KnowsDir, Taken
<1>2. k \in Taken /\ k # ROOT_DIR_INUM /\ k \notin freeinode_ts /\ pc[t] # "o_entry"
      /\ pc[t] \in RootPCs
  BY <1>1 DEF IInv, Local, KnowsDir, Taken, FluxPCs, RootPCs
<1>3. Entries(k) = {}
  BY <1>1, FluxUnnamed
<1>4. Taken' = Taken \ {k} /\ \A j : Entries(j)' = Entries(j)
  BY <1>1, <1>2 DEF Taken, Entries
<1>5. TablesInv /\ TypeOK
  BY DEF IInv
<1>6. RootKept'
  BY <1>1, <1>2, <1>5, RootIndex DEF TablesInv, RootKept, RootInode
<1>7. \A s \in Slots : dir[s].d_inumber # -1 => dir[s].d_inumber \in Taken \ {k}
  BY <1>3, <1>5 DEF TablesInv, EntriesLive, Entries
<1>8. EntriesLive' /\ NamesUnique'
  BY <1>4, <1>5, <1>7 DEF TablesInv, EntriesLive, NamesUnique
<1>9. LinksResolved'
  <2> SUFFICES ASSUME NEW s \in Slots, dir[s].d_inumber # -1, IsLink(dir[s].d_inumber)
               PROVE  LET j == dir[s].d_inumber IN
                      fs_data'[inode_table[j].i_data_block] =
                            fs_data[inode_table[j].i_data_block]
    <3>1. \A s \in Slots : dir[s].d_inumber # -1 =>
             inode_table'[dir[s].d_inumber] = inode_table[dir[s].d_inumber]
      BY <1>1, <1>7 DEF Taken
    <3> QED BY <1>5, <3>1 DEF TablesInv, LinksResolved, CallsOf, IsLink
  <2>1. inode_table[dir[s].d_inumber].i_data_block # -1
    BY <1>5 DEF TablesInv, LinksResolved
  <2>2. dir[s].d_inumber \in Owners
    BY <1>7, <2>1 DEF Owners, Taken, IsLink
  <2> QED BY <2>2, Owned
<1>10. HandlesNamed'
  <2>1. \A j \in Taken : inode_table'[j].i_node_type = inode_table[j].i_node_type
    BY <1>1 DEF Taken
  <2>2. \A h \in Handles : IsOpenHandle(h) /\ ~Pending(h) =>
           Entries(open_file_table[h].of_inumber)' # {}
    <3>1. open_file_table' = open_file_table
      BY DEF handles
    <3> QED BY <3>1, OpenHaveName DEF Entries
  <2> QED BY <1>2, <2>1, <2>2, OpenKeepName
<1>11. BlocksOwned'
  <2>1. \A j \in Owners' : j \in Owners /\ j # k /\ inode_table'[j] = inode_table[j]
    BY <1>1 DEF Owners
  <2>2. \A j \in Owners' : inode_table'[j].i_data_block \notin free_blocks'
    BY <1>1, <2>1, Owned
  <2> QED BY <2>1, <2>2, Owned DEF BlocksOwned
<1>12. Counted'
  <2>1. \A i : (InFlux(i)' <=> FALSE) /\ (InFlux(i) <=> i = k)
    BY <1>1, <1>2, FluxOwn DEF FluxPCs
  <2>2. \A j \in Taken : j # k => inode_table'[j] = inode_table[j]
    BY <1>1 DEF Taken
  <2> QED BY <1>4, <1>5, <2>1, <2>2 DEF TablesInv, Counted
<1> QED BY <1>6, <1>8, <1>9, <1>10, <1>11, <1>12 DEF TablesInv

LEMMA U_DeleteStep ==
  ASSUME IInv, NEW t \in Threads, UNCHANGED calls, U_Delete(t)
  PROVE  IInv'
<1>1. /\ TypeOK /\ loc \in [Threads -> LocType] /\ Local(t)
      /\ pc[t] = "u_delete" /\ Return(t) /\ inode_delete(loc[t].inum)
      /\ UNCHANGED <<inode_table, dir, fs_data, handles, entry_lock, open_file_table_rwl, fault>>
  BY DEF IInv, U_Delete
<1>2. pc[t] \in RootPCs /\ pc[t] \in FluxPCs
  BY <1>1 DEF RootPCs, FluxPCs
<1>3. /\ loc[t].inum \in Taken /\ inode_table[loc[t].inum].i_links_count = 1
      /\ inode_rwl[ROOT_DIR_INUM] = t
  BY <1>1, <1>2 DEF Local, KnowsDir, Holds
<1>4. PICK k \in Taken : k = loc[t].inum
  BY <1>3
<1>5. k \in Inodes /\ k # ROOT_DIR_INUM /\ k \notin freeinode_ts
  BY <1>4 DEF Taken
<1>6. Now(t, "idle", NoCall, NoName, NoHandle, -1, 0)
  BY <1>1, Returned
<1>7. Local(t)' /\ KeptApart' /\ Moves(t) /\ pc'[t] = "idle"
  BY <1>6, IdleLocal, ApartKept DEF Now
<1>8. /\ freeinode_ts' = freeinode_ts \cup {loc[t].inum}
      /\ \/ free_blocks' = free_blocks
         \/ /\ loc[t].inum \in Owners
            /\ free_blocks' = free_blocks \cup {inode_table[loc[t].inum].i_data_block}
  BY <1>1, <1>3, Owned DEF inode_delete
<1>9. TablesInv'
  BY <1>1, <1>2, <1>3, <1>7, <1>8, FreedTables
<1>10. free_blocks' \subseteq Blocks \ {ROOT_BLOCK}
  <2>1. free_blocks \subseteq Blocks \ {ROOT_BLOCK}
    BY <1>1 DEF TypeOK
  <2> QED BY <1>4, <1>5, <1>8, <2>1, Owned
<1>11. /\ freeinode_ts' \subseteq Inodes \ {ROOT_DIR_INUM}
       /\ inode_table' \in [Inodes -> InodeType]
       /\ dir' \in [Slots -> EntryType]
       /\ fs_data' \in [Blocks -> Names \cup {Data}]
  BY <1>1, <1>4, <1>5, <1>8 DEF TypeOK, InodeType, EntryType
<1>12. /\ inode_rwl' \in [Inodes -> Threads \cup {Nobody}]
       /\ \A i \in Inodes : inode_rwl'[i] = inode_rwl[i] \/ inode_rwl[i] \in {Nobody, t}
  <2>1. UnlockInodes({ROOT_DIR_INUM, k})
    BY <1>4, <1>5 DEF U_Delete
  <2>2. /\ inode_rwl' \in [Inodes -> Threads \cup {Nobody}]
        /\ \A i \in Inodes : inode_rwl'[i] = IF i \in {ROOT_DIR_INUM, k} THEN Nobody
                                             ELSE inode_rwl[i]
    BY <1>1, <2>1, Unlocked
  <2>3. inode_rwl[k] = t
    BY <1>1, <1>4 DEF Local, Holds
  <2> QED BY <1>3, <2>2, <2>3
<1> QED BY <1>1, <1>2, <1>6, <1>7, <1>9, <1>10, <1>11, <1>12, RootStep

(* The root's lock is given back by the thread that holds it.                 *)
LEMMA RootReleased ==
  ASSUME TypeOK, NEW t \in Threads, inode_rwl[ROOT_DIR_INUM] = t,
         UnlockInodes({ROOT_DIR_INUM})
  PROVE  /\ inode_rwl' \in [Inodes -> Threads \cup {Nobody}]
         /\ \A i \in Inodes : inode_rwl'[i] = inode_rwl[i] \/ inode_rwl[i] \in {Nobody, t}
<1>1. /\ inode_rwl' \in [Inodes -> Threads \cup {Nobody}]
      /\ \A i \in Inodes : inode_rwl'[i] = IF i \in {ROOT_DIR_INUM} THEN Nobody
                                           ELSE inode_rwl[i]
  BY Unlocked
<1> QED BY <1>1

(* tfs_link and tfs_unlink change a link count and nothing else of the inode. *)
LEMMA CountSet ==
  ASSUME IInv, NEW k \in Taken, NEW n \in 1..MAX_DIR_ENTRIES,
         inode_table' = [inode_table EXCEPT ![k].i_links_count = n],
         UNCHANGED <<freeinode_ts, blocks>>
  PROVE  /\ inode_table' \in [Inodes -> InodeType]
         /\ \A j \in Inodes : j # k => inode_table'[j] = inode_table[j]
         /\ \A j \in Inodes : /\ inode_table'[j].i_node_type = inode_table[j].i_node_type
                              /\ inode_table'[j].i_size = inode_table[j].i_size
                              /\ inode_table'[j].i_data_block = inode_table[j].i_data_block
         /\ inode_table'[k].i_links_count = n
         /\ RootKept' /\ BlocksOwned'
<1> DEFINE old == inode_table[k]
           new == [i_node_type |-> old.i_node_type, i_links_count |-> n,
                   i_size |-> old.i_size, i_data_block |-> old.i_data_block]
<1>1. inode_table \in [Inodes -> InodeType] /\ k \in Inodes /\ k # ROOT_DIR_INUM
  BY DEF IInv, TypeOK, InodeType, Taken
<1>2. old \in InodeType
  BY <1>1
<1>3. new \in InodeType /\ [old EXCEPT !.i_links_count = n] = new
  BY <1>2 DEF InodeType
<1>4. /\ new.i_node_type = old.i_node_type /\ new.i_size = old.i_size
      /\ new.i_data_block = old.i_data_block /\ new.i_links_count = n
  OBVIOUS
<1>5. inode_table' = [inode_table EXCEPT ![k] = new]
  BY <1>3
<1> HIDE DEF new
<1>6. /\ inode_table' \in [Inodes -> InodeType]
      /\ \A j \in Inodes : j # k => inode_table'[j] = inode_table[j]
      /\ inode_table'[k] = new
  BY <1>1, <1>3, <1>5
<1>7. \A j \in Inodes : /\ inode_table'[j].i_node_type = inode_table[j].i_node_type
                        /\ inode_table'[j].i_size = inode_table[j].i_size
                        /\ inode_table'[j].i_data_block = inode_table[j].i_data_block
  BY <1>4, <1>6
<1>8. RootKept'
  <2>1. ROOT_DIR_INUM \in Inodes
    BY RootIndex DEF IInv
  <2> QED BY <1>1, <1>6, <2>1 DEF IInv, TablesInv, RootKept, RootInode
<1>9. BlocksOwned'
  <2>1. Owners' = Owners
    BY <1>7 DEF Owners
  <2>2. \A j \in Owners : j \in Inodes
    BY DEF Owners
  <2>3. free_blocks' = free_blocks
    BY DEF blocks
  <2> QED BY <1>7, <2>1, <2>2, <2>3, Owned DEF BlocksOwned
<1> QED BY <1>4, <1>6, <1>7, <1>8, <1>9

LEMMA U_InodeStep ==
  ASSUME IInv, NEW t \in Threads, UNCHANGED calls, U_Inode(t)
  PROVE  IInv'
<1>1. /\ TypeOK /\ loc \in [Threads -> LocType] /\ Local(t)
      /\ pc[t] = "u_inode"
      /\ UNCHANGED <<freeinode_ts, dir, blocks, handles, entry_lock, open_file_table_rwl, fault>>
  BY DEF IInv, U_Inode
<1>2. /\ pc[t] \in RootPCs /\ pc[t] \in FluxPCs
      /\ "u_delete" \in StepPCs /\ "u_delete" \in FluxPCs /\ "idle" \notin FluxPCs
  BY <1>1 DEF RootPCs, FluxPCs, StepPCs
<1>3. loc[t].inum \in Taken /\ inode_rwl[ROOT_DIR_INUM] = t /\ loc[t].fd = NoHandle
  BY <1>1, <1>2 DEF Local, Holds, KnowsDir, InCall, FdPCs
<1>4. PICK k \in Taken : k = loc[t].inum
  BY <1>3
<1>5. k \in Inodes /\ k # ROOT_DIR_INUM /\ inode_table[k].i_links_count \in 1..MAX_DIR_ENTRIES
  BY <1>1, <1>4 DEF Taken, TypeOK
<1>6. CASE /\ inode_table[k].i_links_count = 1 /\ LockInode(t, k) /\ Goto(t, "u_delete")
           /\ UNCHANGED <<inode_table, loc>>
  <2>1. Now(t, "u_delete", loc[t].call, loc[t].name, loc[t].fd, loc[t].inum, loc[t].offset)
    BY <1>1, <1>2, <1>6, Stays DEF Goto
  <2>2. pc'[t] = "u_delete" /\ loc'[t] = loc[t] /\ loc[t].fd = NoHandle
    BY <1>3, <1>6, <2>1 DEF Now
  <2>3. InCall(t)'
    BY <1>1, <2>2 DEF Local, InCall, OpenPCs, FdPCs
  <2>4. /\ inode_rwl' \in [Inodes -> Threads \cup {Nobody}]
        /\ \A j \in Inodes : inode_rwl'[j] = inode_rwl[j] \/ inode_rwl[j] \in {Nobody, t}
        /\ inode_rwl'[k] = t
    BY <1>1, <1>5, <1>6, Locked
  <2>5. inode_rwl'[ROOT_DIR_INUM] = t
    <3>1. inode_rwl \in [Inodes -> Threads \cup {Nobody}]
      BY <1>1 DEF TypeOK
    <3> QED BY <1>3, <1>5, <1>6, <3>1 DEF LockInode
  <2>6. Taken' = Taken
    BY <1>1 DEF Taken
  <2>7. Local(t)'
    BY <1>4, <1>6, <2>2, <2>3, <2>4, <2>5, <2>6
       DEF Local, Holds, KnowsDir, KnowsFile, RootPCs, FluxPCs, FoundPCs, FdPCs
  <2>8. KeptApart'
    BY <2>1, ApartKept
  <2>9. /\ calls' \in 0..MaxCalls
        /\ entry_lock' \in [Handles -> Threads \cup {Nobody}]
        /\ UNCHANGED inodes
    BY <1>1, <1>6 DEF TypeOK, inodes
  <2> QED BY <1>1, <1>2, <2>1, <2>4, <2>7, <2>8, <2>9, ControlStep
<1>7. CASE /\ inode_table[k].i_links_count # 1
           /\ inode_table' = [inode_table EXCEPT ![k].i_links_count = @ - 1]
           /\ UnlockInodes({ROOT_DIR_INUM}) /\ Return(t)
  <2> DEFINE n == inode_table[k].i_links_count - 1
  <2>1. n \in 1..MAX_DIR_ENTRIES /\ n + 1 = inode_table[k].i_links_count
    BY <1>5, <1>7, SizesAssumption
  <2>2. inode_table' = [inode_table EXCEPT ![k].i_links_count = n]
    BY <1>7
  <2> HIDE DEF n
  <2>3. /\ inode_table' \in [Inodes -> InodeType]
        /\ \A j \in Inodes : j # k => inode_table'[j] = inode_table[j]
        /\ \A j \in Inodes : /\ inode_table'[j].i_node_type = inode_table[j].i_node_type
                             /\ inode_table'[j].i_size = inode_table[j].i_size
                             /\ inode_table'[j].i_data_block = inode_table[j].i_data_block
        /\ inode_table'[k].i_links_count = n
        /\ RootKept' /\ BlocksOwned'
    BY <1>1, <2>1, <2>2, CountSet
  <2>4. Now(t, "idle", NoCall, NoName, NoHandle, -1, 0)
    BY <1>1, <1>7, Returned
  <2>5. Local(t)' /\ KeptApart' /\ Moves(t) /\ pc'[t] = "idle"
    BY <2>4, IdleLocal, ApartKept DEF Now
  <2>6. /\ inode_rwl' \in [Inodes -> Threads \cup {Nobody}]
        /\ \A i \in Inodes : inode_rwl'[i] = inode_rwl[i] \/ inode_rwl[i] \in {Nobody, t}
    BY <1>1, <1>3, <1>7, RootReleased
  <2>7. Taken' = Taken /\ \A j : Entries(j)' = Entries(j)
    BY <1>1 DEF Taken, Entries
  <2>8. EntriesLive' /\ NamesUnique'
    BY <1>1, <2>7 DEF IInv, TablesInv, EntriesLive, NamesUnique
  <2>9. LinksResolved'
    <3>1. \A s \in Slots : dir[s].d_inumber # -1 => dir[s].d_inumber \in Inodes
      BY DEF IInv, TablesInv, EntriesLive, Taken
    <3>2. fs_data' = fs_data
      BY <1>1 DEF blocks
    <3> QED BY <1>1, <2>3, <3>1, <3>2 DEF IInv, TablesInv, LinksResolved, IsLink, CallsOf
  <2>10. \A j \in Taken : /\ inode_table'[j].i_node_type = inode_table[j].i_node_type
                          /\ inode_table'[j].i_size = inode_table[j].i_size
    BY <2>3 DEF Taken
  <2>11. HandlesNamed'
    <3>1. open_file_table' = open_file_table /\ pc[t] # "o_entry"
      BY <1>1 DEF handles
    <3>2. \A h \in Handles : IsOpenHandle(h) /\ ~Pending(h) =>
             Entries(open_file_table[h].of_inumber)' # {}
      BY <1>1, <3>1, OpenHaveName DEF Entries
    <3> QED BY <1>1, <2>5, <2>10, <3>1, <3>2, OpenKeepName
  <2>12. Counted'
    <3>1. \A i : (InFlux(i)' <=> FALSE) /\ (InFlux(i) <=> i = k)
      BY <1>2, <1>4, <2>5, FluxOwn
    <3>2. Cardinality(Entries(k)) \in Nat
      BY EntriesFinite
    <3>3. n + 1 = Cardinality(Entries(k)) + 1 /\ n \in Int
      BY <1>4, <2>1, <3>1 DEF IInv, TablesInv, Counted
    <3>4. n = Cardinality(Entries(k)) + 0
      BY <3>2, <3>3
    <3>5. \A j \in Taken : j # k => inode_table'[j] = inode_table[j]
      BY <2>3 DEF Taken
    <3> QED BY <2>3, <2>7, <3>1, <3>4, <3>5 DEF IInv, TablesInv, Counted
  <2>13. TablesInv'
    BY <2>3, <2>8, <2>9, <2>11, <2>12 DEF TablesInv
  <2>14. /\ freeinode_ts' \subseteq Inodes \ {ROOT_DIR_INUM}
         /\ dir' \in [Slots -> EntryType]
         /\ free_blocks' \subseteq Blocks \ {ROOT_BLOCK}
         /\ fs_data' \in [Blocks -> Names \cup {Data}]
         /\ \A s \in Slots : dir'[s] = dir[s]
    BY <1>1 DEF TypeOK, EntryType, blocks
  <2> QED BY <1>1, <1>2, <2>3, <2>4, <2>5, <2>6, <2>10, <2>13, <2>14, RootStep
<1> QED BY <1>4, <1>6, <1>7 DEF U_Inode

LEMMA U_OpenStep ==
  ASSUME IInv, NEW t \in Threads, UNCHANGED calls, U_Open(t)
  PROVE  IInv'
<1>1. /\ TypeOK /\ loc \in [Threads -> LocType] /\ Local(t)
      /\ pc[t] = "u_open"
      /\ UNCHANGED <<inodes, blocks, handles, entry_lock, open_file_table_rwl, fault>>
  BY DEF IInv, U_Open
<1>2. /\ pc[t] \in RootPCs /\ pc[t] \notin FluxPCs \cup {"o_entry"}
      /\ "u_inode" \in StepPCs /\ "u_inode" \in FluxPCs
  BY <1>1 DEF RootPCs, FluxPCs, StepPCs
<1>3. /\ inode_rwl[ROOT_DIR_INUM] = t /\ loc[t].fd = NoHandle
      /\ NamedAs(loc[t].name, loc[t].inum)
      /\ loc[t].call.op = "unlink" /\ loc[t].name = loc[t].call.name
  BY <1>1, <1>2 DEF Local, Holds, KnowsDir, InCall, FdPCs
<1>4. PICK k \in Taken : k = loc[t].inum /\ k \in Inodes
  BY <1>3, NamedTaken
<1>5. CASE UnlockInodes({ROOT_DIR_INUM}) /\ Return(t) /\ UNCHANGED dir
  <2>1. /\ inode_rwl' \in [Inodes -> Threads \cup {Nobody}]
        /\ \A i \in Inodes : inode_rwl'[i] = inode_rwl[i] \/ inode_rwl[i] \in {Nobody, t}
    BY <1>1, <1>3, <1>5, RootReleased
  <2>2. entry_lock' \in [Handles -> Threads \cup {Nobody}]
    BY <1>1 DEF TypeOK
  <2> QED BY <1>1, <1>2, <1>5, <2>1, <2>2, ReturnUnlocks
<1>6. CASE /\ ~(~IsLink(k) /\ is_in_open_file_table(k))
           /\ clear_dir_entry(loc[t].name) /\ Goto(t, "u_inode") /\ UNCHANGED <<inode_rwl, loc>>
  <2>1. Now(t, "u_inode", loc[t].call, loc[t].name, loc[t].fd, loc[t].inum, loc[t].offset)
    BY <1>1, <1>2, <1>6, Stays DEF Goto
  <2>2. pc'[t] = "u_inode" /\ loc'[t] = loc[t] /\ loc[t].fd = NoHandle /\ Moves(t)
    BY <1>3, <1>6, <2>1 DEF Now
  <2>3. /\ dir' \in [Slots -> EntryType]
        /\ \A r \in Slots : \/ dir'[r] = dir[r]
                            \/ /\ dir[r].d_name = loc[t].name /\ dir[r].d_inumber = k
                               /\ dir'[r].d_inumber = -1
        /\ Cardinality(Entries(k)') = Cardinality(Entries(k)) - 1
        /\ \A j \in Inodes : j # k => Entries(j)' = Entries(j)
    <3>1. NamedAs(loc[t].name, k) /\ NamesUnique
      BY <1>3, <1>4 DEF IInv, TablesInv
    <3> QED BY <1>1, <1>4, <1>6, <3>1, EntryCleared
  <2>4. /\ UNCHANGED <<inode_table, freeinode_ts, free_blocks, fs_data, open_file_table>>
        /\ Taken' = Taken
    BY <1>1 DEF inodes, blocks, handles, Taken
  <2>5. InCall(t)'
    BY <1>1, <2>2 DEF Local, InCall, OpenPCs, FdPCs
  <2>6. Local(t)'
    BY <1>3, <1>4, <1>6, <2>2, <2>4, <2>5
       DEF Local, Holds, KnowsDir, KnowsFile, RootPCs, FluxPCs, FoundPCs, FdPCs
  <2>7. KeptApart'
    BY <2>1, ApartKept
  <2>8. RootKept' /\ EntriesLive' /\ NamesUnique'
    BY <2>3, <2>4 DEF IInv, TablesInv, RootKept, RootInode, EntriesLive, NamesUnique
  <2>9. LinksResolved'
    BY <2>3, <2>4 DEF IInv, TablesInv, LinksResolved, IsLink, CallsOf
  <2>10. BlocksOwned'
    <3>1. Owners' = Owners
      BY <2>4 DEF Owners
    <3> QED BY <2>4, <3>1, Owned DEF BlocksOwned
  <2>11. HandlesNamed'
    <3>1. \A h \in Handles : IsOpenHandle(h) /\ ~Pending(h) =>
             Entries(open_file_table[h].of_inumber)' # {}
      <4> SUFFICES ASSUME NEW h \in Handles, IsOpenHandle(h), ~Pending(h)
                   PROVE  Entries(open_file_table[h].of_inumber)' # {}
        OBVIOUS
      <4>1. PICK i \in Taken : /\ i = open_file_table[h].of_inumber /\ Entries(i) # {}
                               /\ ~IsLink(i)
        BY OpenHaveName
      <4>2. i # k
        BY <1>6, <4>1 DEF is_in_open_file_table, IsOpenHandle
      <4>3. Entries(i)' = Entries(i)
        BY <2>3, <4>2 DEF Taken
      <4> QED BY <2>4, <4>1, <4>3
    <3> QED BY <1>1, <1>2, <2>2, <2>4, <3>1, OpenKeepName
  <2>12. Counted'
    <3>1. \A i : (InFlux(i)' <=> i = k) /\ (InFlux(i) <=> FALSE)
      BY <1>2, <1>4, <2>2, FluxOwn
    <3>2. Cardinality(Entries(k)) \in Nat
      BY EntriesFinite
    <3>3. inode_table[k].i_links_count = Cardinality(Entries(k)) + 0
      BY <1>4, <3>1 DEF IInv, TablesInv, Counted
    <3>4. inode_table'[k].i_links_count = Cardinality(Entries(k)') + 1
      BY <2>3, <2>4, <3>2, <3>3
    <3>5. \A j \in Taken : j # k => Entries(j)' = Entries(j)
      BY <2>3 DEF Taken
    <3> QED BY <2>4, <3>1, <3>4, <3>5 DEF IInv, TablesInv, Counted
  <2>13. TablesInv'
    BY <2>8, <2>9, <2>10, <2>11, <2>12 DEF TablesInv
  <2>14. /\ inode_table' \in [Inodes -> InodeType]
         /\ freeinode_ts' \subseteq Inodes \ {ROOT_DIR_INUM}
         /\ free_blocks' \subseteq Blocks \ {ROOT_BLOCK}
         /\ fs_data' \in [Blocks -> Names \cup {Data}]
         /\ inode_rwl' \in [Inodes -> Threads \cup {Nobody}]
    BY <1>1, <1>6, <2>4 DEF TypeOK, InodeType
  <2>15. \A s \in Slots : \/ dir'[s] = dir[s]
                          \/ loc[t].call.op = "unlink" /\ dir[s].d_name = loc[t].call.name
    BY <1>3, <2>3
  <2> QED BY <1>1, <1>2, <1>6, <2>1, <2>3, <2>4, <2>6, <2>7, <2>13, <2>14, <2>15, RootStep
<1> QED BY <1>4, <1>5, <1>6 DEF U_Open, IsLink

(* A name is added to an inode: what holds of the directory afterwards.       *)
LEMMA NameAdded ==
  ASSUME IInv, NEW t \in Threads, NEW k \in Taken, NEW name, EntriesOf(name) = {},
         Moves(t), pc[t] \in RootPCs, pc'[t] = "idle",
         RoomFor(name), add_dir_entry(name, k),
         \A j \in Inodes : inode_table'[j].i_node_type = inode_table[j].i_node_type,
         UNCHANGED <<freeinode_ts, handles>>
  PROVE  /\ dir' \in [Slots -> EntryType]
         /\ \A s \in Slots : dir'[s] = dir[s] \/ dir[s].d_inumber = -1
         /\ \A s \in Slots : \/ dir'[s] = dir[s]
                             \/ dir'[s].d_inumber = k /\ dir'[s].d_name = name
         /\ EntriesLive' /\ NamesUnique' /\ HandlesNamed'
         /\ Cardinality(Entries(k)') = Cardinality(Entries(k)) + 1
         /\ \A j \in Inodes : j # k => Entries(j)' = Entries(j)
<1>1. TypeOK /\ k \in Inodes /\ pc[t] # "o_entry"
  BY DEF IInv, Taken, RootPCs
<1>2. /\ dir' \in [Slots -> EntryType]
      /\ \A s \in Slots : dir'[s] = dir[s] \/ dir[s].d_inumber = -1
      /\ Cardinality(Entries(k)') = Cardinality(Entries(k)) + 1
      /\ Entries(k)' # {}
      /\ \A j \in Inodes : j # k => Entries(j)' = Entries(j)
  BY <1>1, EntryAdded
<1>3. PICK s \in Slots : /\ dir[s].d_inumber = -1
                         /\ dir'[s].d_inumber = k /\ dir'[s].d_name = name
                         /\ \A r \in Slots \ {s} : dir'[r] = dir[r]
  BY <1>1, EntryAdded
<1>4. EntriesLive'
  BY <1>3 DEF IInv, TablesInv, EntriesLive, Taken
<1>5. NamesUnique'
  <2>1. \A r \in Slots : dir[r].d_inumber # -1 => dir[r].d_name # name
    BY DEF EntriesOf
  <2> QED BY <1>3, <2>1 DEF IInv, TablesInv, NamesUnique
<1>6. HandlesNamed'
  <2>1. open_file_table' = open_file_table
    BY DEF handles
  <2>2. \A h \in Handles : IsOpenHandle(h) /\ ~Pending(h) =>
           Entries(open_file_table[h].of_inumber)' # {}
    <3> SUFFICES ASSUME NEW h \in Handles, IsOpenHandle(h), ~Pending(h)
                 PROVE  Entries(open_file_table[h].of_inumber)' # {}
      OBVIOUS
    <3>1. PICK i \in Taken : i = open_file_table[h].of_inumber /\ Entries(i) # {}
      BY OpenHaveName
    <3>2. Entries(i)' # {}
      BY <1>2, <3>1 DEF Taken
    <3> QED BY <2>1, <3>1, <3>2
  <2>3. \A j \in Taken : inode_table'[j].i_node_type = inode_table[j].i_node_type
    BY DEF Taken
  <2> QED BY <1>1, <2>2, <2>3, OpenKeepName
<1> QED BY <1>2, <1>3, <1>4, <1>5, <1>6

LEMMA K_InodeStep ==
  ASSUME IInv, NEW t \in Threads, UNCHANGED calls, K_Inode(t)
  PROVE  IInv'
<1>1. /\ TypeOK /\ loc \in [Threads -> LocType] /\ Local(t)
      /\ pc[t] = "k_inode" /\ UnlockInodes({ROOT_DIR_INUM}) /\ Return(t)
      /\ UNCHANGED <<freeinode_ts, blocks, handles, entry_lock, open_file_table_rwl, fault>>
  BY DEF IInv, K_Inode
<1>2. /\ pc[t] \in RootPCs /\ pc[t] \notin FluxPCs \cup {"o_entry"}
      /\ "idle" \notin FluxPCs \cup {"o_entry"}
  BY <1>1 DEF RootPCs, FluxPCs
<1>3. /\ inode_rwl[ROOT_DIR_INUM] = t /\ EntriesOf(loc[t].name) = {}
      /\ NamedAs(loc[t].call.target, loc[t].inum)
  BY <1>1, <1>2 DEF Local, Holds, KnowsDir
<1>4. PICK k \in Taken : k = loc[t].inum /\ k \in Inodes
  BY <1>3, NamedTaken
<1>5. /\ inode_rwl' \in [Inodes -> Threads \cup {Nobody}]
      /\ \A i \in Inodes : inode_rwl'[i] = inode_rwl[i] \/ inode_rwl[i] \in {Nobody, t}
  BY <1>1, <1>3, RootReleased
<1>6. CASE UNCHANGED <<dir, inode_table>>
  <2>1. entry_lock' \in [Handles -> Threads \cup {Nobody}] /\ UNCHANGED inodes
    BY <1>1, <1>6 DEF TypeOK, inodes
  <2> QED BY <1>1, <1>2, <1>5, <1>6, <2>1, ReturnUnlocks
<1>7. CASE /\ ~IsLink(k) /\ RoomFor(loc[t].name) /\ add_dir_entry(loc[t].name, k)
           /\ inode_table' = [inode_table EXCEPT ![k].i_links_count = @ + 1]
  <2> DEFINE n == inode_table[k].i_links_count + 1
  <2>1. Now(t, "idle", NoCall, NoName, NoHandle, -1, 0)
    BY <1>1, Returned
  <2>2. Local(t)' /\ KeptApart' /\ Moves(t) /\ pc'[t] = "idle"
    BY <2>1, IdleLocal, ApartKept DEF Now
  <2>3. \A i : (InFlux(i)' <=> FALSE) /\ (InFlux(i) <=> FALSE)
    BY <1>2, <2>2, FluxOwn
  <2>4. inode_table[k].i_links_count = Cardinality(Entries(k))
    <3>1. inode_table[k].i_links_count = Cardinality(Entries(k)) + 0
      BY <1>4, <2>3 DEF IInv, TablesInv, Counted
    <3> QED BY <3>1, EntriesFinite
  <2>5. n \in 1..MAX_DIR_ENTRIES
    <3>1. PICK s \in Slots : dir[s].d_inumber = -1
      BY <1>7 DEF RoomFor, FreeSlots
    <3>2. Entries(k) # Slots
      BY <1>1, <1>4, <3>1, RootIndex DEF Entries
    <3> QED BY <2>4, <3>2, EntriesFinite, SizesAssumption
  <2>6. inode_table' = [inode_table EXCEPT ![k].i_links_count = n]
    BY <1>7
  <2>7. n = Cardinality(Entries(k)) + 1
    BY <2>4
  <2> HIDE DEF n
  <2>8. /\ inode_table' \in [Inodes -> InodeType]
        /\ \A j \in Inodes : j # k => inode_table'[j] = inode_table[j]
        /\ \A j \in Inodes : /\ inode_table'[j].i_node_type = inode_table[j].i_node_type
                             /\ inode_table'[j].i_size = inode_table[j].i_size
                             /\ inode_table'[j].i_data_block = inode_table[j].i_data_block
        /\ inode_table'[k].i_links_count = n
        /\ RootKept' /\ BlocksOwned'
    BY <1>1, <2>5, <2>6, CountSet
  <2>9. /\ dir' \in [Slots -> EntryType]
        /\ \A s \in Slots : dir'[s] = dir[s] \/ dir[s].d_inumber = -1
        /\ \A s \in Slots : \/ dir'[s] = dir[s]
                            \/ dir'[s].d_inumber = k /\ dir'[s].d_name = loc[t].name
        /\ EntriesLive' /\ NamesUnique' /\ HandlesNamed'
        /\ Cardinality(Entries(k)') = Cardinality(Entries(k)) + 1
        /\ \A j \in Inodes : j # k => Entries(j)' = Entries(j)
    BY <1>1, <1>2, <1>3, <1>7, <2>2, <2>8, NameAdded
  <2>10. LinksResolved'
    <3>1. \A s \in Slots : dir'[s].d_inumber # -1 /\ IsLink(dir[s].d_inumber)' => dir'[s] = dir[s]
      BY <1>4, <1>7, <2>8, <2>9 DEF IsLink
    <3>2. \A s \in Slots : dir[s].d_inumber # -1 => dir[s].d_inumber \in Inodes
      BY DEF IInv, TablesInv, EntriesLive, Taken
    <3>3. fs_data' = fs_data
      BY <1>1 DEF blocks
    <3> QED BY <2>8, <3>1, <3>2, <3>3 DEF IInv, TablesInv, LinksResolved, IsLink, CallsOf
  <2>11. Counted'
    <3>1. Taken' = Taken
      BY <1>1 DEF Taken
    <3>2. inode_table'[k].i_links_count = Cardinality(Entries(k)') + 0
      BY <2>7, <2>8, <2>9, EntriesFinite
    <3>3. \A j \in Taken : j # k => /\ inode_table'[j] = inode_table[j]
                                    /\ Entries(j)' = Entries(j)
      BY <2>8, <2>9 DEF Taken
    <3> QED BY <2>3, <3>1, <3>2, <3>3 DEF IInv, TablesInv, Counted
  <2>12. TablesInv'
    BY <2>8, <2>9, <2>10, <2>11 DEF TablesInv
  <2>13. /\ freeinode_ts' \subseteq Inodes \ {ROOT_DIR_INUM}
         /\ free_blocks' \subseteq Blocks \ {ROOT_BLOCK}
         /\ fs_data' \in [Blocks -> Names \cup {Data}]
    BY <1>1 DEF TypeOK, blocks
  <2>14. \A j \in Taken : /\ inode_table'[j].i_node_type = inode_table[j].i_node_type
                          /\ inode_table'[j].i_size = inode_table[j].i_size
    BY <2>8 DEF Taken
  <2> QED BY <1>1, <1>2, <1>5, <2>1, <2>2, <2>8, <2>9, <2>12, <2>13, <2>14, RootStep
<1> QED BY <1>4, <1>6, <1>7 DEF K_Inode, IsLink

LEMMA Y_BlockStep ==
  ASSUME IInv, NEW t \in Threads, UNCHANGED calls, Y_Block(t)
  PROVE  IInv'
<1>1. /\ TypeOK /\ loc \in [Threads -> LocType] /\ Local(t)
      /\ pc[t] = "y_block" /\ UnlockInodes({ROOT_DIR_INUM}) /\ Return(t)
      /\ UNCHANGED <<handles, entry_lock, open_file_table_rwl, fault>>
  BY DEF IInv, Y_Block
<1>2. /\ pc[t] \in RootPCs /\ pc[t] \in FluxPCs
      /\ "idle" \notin FluxPCs \cup {"o_entry"}
  BY <1>1 DEF RootPCs, FluxPCs
<1>3. /\ inode_rwl[ROOT_DIR_INUM] = t /\ EntriesOf(loc[t].name) = {}
      /\ loc[t].inum \in Taken /\ inode_table[loc[t].inum] = NewInode("T_LINK")
      /\ loc[t].call.op = "sym_link" /\ loc[t].name = loc[t].call.name
  BY <1>1, <1>2 DEF Local, Holds, KnowsDir, InCall
<1>4. PICK k \in Taken : k = loc[t].inum
  BY <1>3
<1>5. /\ k \in Inodes /\ k # ROOT_DIR_INUM /\ k \notin freeinode_ts
      /\ inode_table[k].i_node_type = "T_LINK" /\ inode_table[k].i_links_count = 1
      /\ inode_table[k].i_size = 0 /\ inode_table[k].i_data_block = -1
  BY <1>3, <1>4 DEF Taken, NewInode
<1>6. /\ inode_rwl' \in [Inodes -> Threads \cup {Nobody}]
      /\ \A i \in Inodes : inode_rwl'[i] = inode_rwl[i] \/ inode_rwl[i] \in {Nobody, t}
  BY <1>1, <1>3, RootReleased
<1>7. Now(t, "idle", NoCall, NoName, NoHandle, -1, 0)
  BY <1>1, Returned
<1>8. Local(t)' /\ KeptApart' /\ Moves(t) /\ pc'[t] = "idle"
  BY <1>7, IdleLocal, ApartKept DEF Now
<1>9. /\ freeinode_ts \subseteq Inodes \ {ROOT_DIR_INUM}
      /\ inode_table \in [Inodes -> InodeType]
      /\ dir \in [Slots -> EntryType]
      /\ free_blocks \subseteq Blocks \ {ROOT_BLOCK}
      /\ fs_data \in [Blocks -> Names \cup {Data}]
  BY <1>1 DEF TypeOK, InodeType, EntryType
<1>10. CASE inode_delete(k) /\ UNCHANGED <<inode_table, dir, fs_data>>
  <2>1. freeinode_ts' = freeinode_ts \cup {k} /\ free_blocks' = free_blocks
    BY <1>5, <1>10 DEF inode_delete
  <2>2. TablesInv'
    BY <1>1, <1>2, <1>4, <1>5, <1>8, <1>10, <2>1, FreedTables
  <2>3. freeinode_ts' \subseteq Inodes \ {ROOT_DIR_INUM} /\ \A s \in Slots : dir'[s] = dir[s]
    BY <1>5, <1>9, <1>10, <2>1
  <2> QED BY <1>1, <1>2, <1>6, <1>7, <1>8, <1>9, <1>10, <2>1, <2>2, <2>3, RootStep
<1>11. ASSUME NEW b, b = First(free_blocks), free_blocks # {},
              free_blocks' = free_blocks \ {b},
              fs_data' = [fs_data EXCEPT ![b] = loc[t].call.target],
              inode_table' = [inode_table EXCEPT ![k].i_data_block = b],
              \/ /\ RoomFor(loc[t].name) /\ add_dir_entry(loc[t].name, k)
                 /\ UNCHANGED freeinode_ts
              \/ freeinode_ts' = freeinode_ts \cup {k} /\ UNCHANGED dir
       PROVE  IInv'
  <2> DEFINE new == [i_node_type |-> "T_LINK", i_links_count |-> 1, i_size |-> 0,
                     i_data_block |-> b]
  <2>1. b \in free_blocks /\ b \in Blocks
    BY <1>1, <1>9, <1>11, FirstFree
  <2>2. loc[t].call \in CallsOf("sym_link") /\ loc[t].call.target \in Names
    <3>1. loc[t].call \in Calls \cup {NoCall}
      BY <1>1 DEF LocType
    <3>2. loc[t].call \in Calls
      BY <1>3, <3>1 DEF NoCall
    <3> QED BY <1>3, <3>2, CallFacts DEF CallsOf
  <2>3. new \in InodeType /\ [inode_table[k] EXCEPT !.i_data_block = b] = new
    <3>1. [inode_table[k] EXCEPT !.i_data_block = b] = new
      BY <1>3, <1>4 DEF NewInode
    <3> QED BY <2>1, <3>1, SizesAssumption DEF InodeType
  <2>4. /\ new.i_node_type = "T_LINK" /\ new.i_links_count = 1 /\ new.i_size = 0
        /\ new.i_data_block = b
    OBVIOUS
  <2>5. inode_table' = [inode_table EXCEPT ![k] = new]
    BY <1>11, <2>3
  <2> HIDE DEF new
  <2>6. /\ inode_table' \in [Inodes -> InodeType]
        /\ inode_table'[k] = new
        /\ \A j \in Inodes : j # k => inode_table'[j] = inode_table[j]
    BY <1>5, <1>9, <2>3, <2>5
  <2>7. /\ fs_data' \in [Blocks -> Names \cup {Data}]
        /\ fs_data'[b] = loc[t].call.target
        /\ \A c \in Blocks : c # b => fs_data'[c] = fs_data[c]
    BY <1>9, <1>11, <2>1, <2>2
  <2>8. \A j \in Inodes : /\ inode_table'[j].i_node_type = inode_table[j].i_node_type
                          /\ inode_table'[j].i_size = inode_table[j].i_size
    BY <1>5, <2>4, <2>6
  <2>9. /\ free_blocks' \subseteq Blocks \ {ROOT_BLOCK}
        /\ \A j \in Taken : /\ inode_table'[j].i_node_type = inode_table[j].i_node_type
                            /\ inode_table'[j].i_size = inode_table[j].i_size
    BY <1>9, <1>11, <2>8 DEF Taken
  <2>10. CASE freeinode_ts' = freeinode_ts \cup {k} /\ UNCHANGED dir
    <3>1. \A c \in Blocks \ free_blocks : fs_data'[c] = fs_data[c]
      BY <2>1, <2>7
    <3>2. /\ \A j \in Inodes : j # loc[t].inum => inode_table'[j] = inode_table[j]
          /\ inode_table'[loc[t].inum].i_node_type = inode_table[loc[t].inum].i_node_type
          /\ inode_table[loc[t].inum].i_links_count = 1
          /\ freeinode_ts' = freeinode_ts \cup {loc[t].inum}
          /\ free_blocks' \subseteq free_blocks
      BY <1>4, <1>5, <1>11, <2>6, <2>8, <2>10
    <3>3. TablesInv'
      BY <1>1, <1>2, <1>8, <2>10, <3>1, <3>2, FreedTables
    <3>4. freeinode_ts' \subseteq Inodes \ {ROOT_DIR_INUM} /\ dir' \in [Slots -> EntryType]
          /\ \A s \in Slots : dir'[s] = dir[s]
      BY <1>5, <1>9, <2>10
    <3> QED BY <1>1, <1>2, <1>6, <1>7, <1>8, <2>6, <2>7, <2>9, <3>3, <3>4, RootStep
  <2>11. CASE RoomFor(loc[t].name) /\ add_dir_entry(loc[t].name, k) /\ UNCHANGED freeinode_ts
    <3>1. /\ dir' \in [Slots -> EntryType]
          /\ \A s \in Slots : dir'[s] = dir[s] \/ dir[s].d_inumber = -1
          /\ \A s \in Slots : \/ dir'[s] = dir[s]
                              \/ dir'[s].d_inumber = k /\ dir'[s].d_name = loc[t].name
          /\ EntriesLive' /\ NamesUnique' /\ HandlesNamed'
          /\ Cardinality(Entries(k)') = Cardinality(Entries(k)) + 1
          /\ \A j \in Inodes : j # k => Entries(j)' = Entries(j)
      BY <1>1, <1>2, <1>3, <1>8, <2>8, <2>11, NameAdded
    <3>2. Entries(k) = {}
      BY <1>2, <1>4, <1>5, FluxUnnamed
    <3>3. b # -1
      BY <2>1, SizesAssumption DEF Blocks
    <3>4. RootKept'
      <4>1. ROOT_DIR_INUM \in Inodes
        BY <1>1, RootIndex
      <4> QED BY <1>5, <2>6, <4>1 DEF IInv, TablesInv, RootKept, RootInode
    <3>5. /\ Owners' = Owners \cup {k} /\ k \notin Owners
          /\ \A j \in Owners : j \in Inodes /\ inode_table'[j] = inode_table[j]
      <4>1. k \notin Owners /\ k \in Owners'
        BY <1>5, <2>4, <2>6, <2>11, <3>3 DEF Owners
      <4>2. \A j \in Inodes \ {k} : j \in Owners' <=> j \in Owners
        BY <2>6, <2>11 DEF Owners
      <4>3. Owners \subseteq Inodes /\ Owners' \subseteq Inodes
        BY DEF Owners
      <4> QED BY <2>6, <4>1, <4>2, <4>3
    <3>6. BlocksOwned'
      <4>1. \A j \in Owners : /\ inode_table'[j].i_data_block \in Blocks \ free_blocks'
                              /\ inode_table'[j].i_data_block # b
        BY <1>11, <2>1, <3>5, Owned
      <4>2. inode_table'[k].i_data_block = b /\ b \in Blocks \ free_blocks'
        BY <1>11, <2>1, <2>4, <2>6
      <4>3. \A i, j \in Owners : i # j =>
               inode_table'[i].i_data_block # inode_table'[j].i_data_block
        BY <3>5, Owned
      <4> QED BY <3>5, <4>1, <4>2, <4>3 DEF BlocksOwned
    <3>7. LinksResolved'
      <4> SUFFICES ASSUME NEW s \in Slots, dir'[s].d_inumber # -1,
                          inode_table'[dir'[s].d_inumber].i_node_type = "T_LINK"
                   PROVE  /\ inode_table'[dir'[s].d_inumber].i_data_block # -1
                          /\ \E c \in CallsOf("sym_link") :
                                /\ c.name = dir'[s].d_name
                                /\ c.target =
                                     fs_data'[inode_table'[dir'[s].d_inumber].i_data_block]
        BY DEF LinksResolved, IsLink, CallsOf
      <4>1. CASE dir'[s].d_inumber = k /\ dir'[s].d_name = loc[t].name
        BY <1>3, <2>2, <2>4, <2>6, <2>7, <3>3, <4>1
      <4>2. CASE dir'[s] = dir[s]
        <5>1. PICK j \in Taken : j = dir[s].d_inumber
          BY <4>2 DEF IInv, TablesInv, EntriesLive
        <5>2. j # k /\ inode_table'[j] = inode_table[j] /\ j \in Inodes
          BY <2>6, <3>2, <5>1 DEF Entries, Taken
        <5>3. IsLink(j) /\ dir[s].d_inumber # -1
          BY <4>2, <5>1, <5>2 DEF IsLink
        <5>4. /\ inode_table[j].i_data_block # -1
              /\ \E c \in CallsOf("sym_link") :
                    c.name = dir[s].d_name /\ c.target = fs_data[inode_table[j].i_data_block]
          BY <5>1, <5>3 DEF IInv, TablesInv, LinksResolved
        <5>5. j \in Owners
          BY <5>1, <5>3, <5>4 DEF Owners, Taken, IsLink
        <5>6. fs_data'[inode_table[j].i_data_block] = fs_data[inode_table[j].i_data_block]
          BY <2>1, <2>7, <5>5, Owned
        <5> QED BY <4>2, <5>1, <5>2, <5>4, <5>6
      <4> QED BY <3>1, <4>1, <4>2
    <3>8. Counted'
      <4>1. \A i : (InFlux(i)' <=> FALSE) /\ (InFlux(i) <=> i = k)
        BY <1>2, <1>4, <1>8, FluxOwn
      <4>2. inode_table'[k].i_links_count = Cardinality(Entries(k)') + 0
        BY <2>4, <2>6, <3>1, <3>2, FS_EmptySet
      <4>3. \A j \in Taken : j # k => /\ inode_table'[j] = inode_table[j]
                                      /\ Entries(j)' = Entries(j)
        BY <2>6, <3>1 DEF Taken
      <4>4. Taken' = Taken
        BY <2>11 DEF Taken
      <4> QED BY <4>1, <4>2, <4>3, <4>4 DEF IInv, TablesInv, Counted
    <3>9. TablesInv'
      BY <3>1, <3>4, <3>6, <3>7, <3>8 DEF TablesInv
    <3>10. freeinode_ts' \subseteq Inodes \ {ROOT_DIR_INUM}
      BY <1>9, <2>11
    <3> QED BY <1>1, <1>2, <1>6, <1>7, <1>8, <2>6, <2>7, <2>9, <3>1, <3>9, <3>10, RootStep
  <2> QED BY <1>11, <2>10, <2>11
<1> QED BY <1>4, <1>10, <1>11 DEF Y_Block

-----------------------------------------------------------------------------
(* The invariant holds: the first state, and every step of any thread.        *)

LEMMA InitInv == Init => IInv
<1> SUFFICES ASSUME Init PROVE IInv
  OBVIOUS
<1> DEFINE n == Len(InitialFiles)
<1>1. /\ n \in Nat /\ n < INODE_TABLE_SIZE /\ n <= MAX_DIR_ENTRIES
      /\ \A s \in 0..n - 1 : s + 1 \in 1..n /\ InitialFiles[s + 1] \in FileNames
      /\ \A i, j \in 1..n : InitialFiles[i] = InitialFiles[j] => i = j
  BY FilesAssumption
<1>2. /\ INODE_TABLE_SIZE \in Nat \ {0} /\ DATA_BLOCKS \in Nat \ {0}
      /\ BLOCK_SIZE \in Nat \ {0} /\ MAX_OPEN_FILES \in Nat /\ MAX_DIR_ENTRIES \in Nat \ {0}
  BY SizesAssumption
<1> HIDE DEF n
<1>3. /\ inode_table = [i \in Inodes |-> IF i = ROOT_DIR_INUM THEN RootInode
                                         ELSE NewInode("T_FILE")]
      /\ freeinode_ts = Inodes \ 0..n
      /\ dir = [s \in Slots |->
            IF s < n THEN [d_name |-> InitialFiles[s + 1], d_inumber |-> s + 1]
            ELSE [d_name |-> NoName, d_inumber |-> -1]]
      /\ free_blocks = Blocks \ {ROOT_BLOCK}
      /\ fs_data = [b \in Blocks |-> Data]
      /\ open_file_table = [h \in Handles |-> [of_inumber |-> 0, of_offset |-> 0]]
      /\ free_open_file_entries = Handles
      /\ inode_rwl = [i \in Inodes |-> Nobody]
      /\ entry_lock = [h \in Handles |-> Nobody]
      /\ open_file_table_rwl = Nobody
      /\ calls = 0
      /\ pc = [t \in Threads |-> "idle"]
      /\ loc = [t \in Threads |-> NoLocals]
      /\ fault = "none"
  BY DEF Init, n
<1>4. /\ \A s \in Slots : s < n => /\ dir[s].d_inumber = s + 1
                                   /\ dir[s].d_name = InitialFiles[s + 1]
                                   /\ s + 1 \in 1..n
      /\ \A s \in Slots : ~(s < n) => dir[s].d_inumber = -1
  BY <1>1, <1>2, <1>3 DEF Slots
<1>5. /\ inode_table[ROOT_DIR_INUM] = RootInode
      /\ \A i \in Inodes : i # ROOT_DIR_INUM => inode_table[i] = NewInode("T_FILE")
      /\ ROOT_DIR_INUM \in Inodes
  BY <1>2, <1>3 DEF Inodes, ROOT_DIR_INUM
<1>6. Taken = 1..n
  BY <1>1, <1>2, <1>3 DEF Taken, Inodes, ROOT_DIR_INUM
<1>7. TypeOK
  <2>1. RootInode \in InodeType /\ NewInode("T_FILE") \in InodeType
    BY <1>2 DEF RootInode, NewInode, InodeType, Blocks, ROOT_BLOCK
  <2>2. inode_table \in [Inodes -> InodeType]
    BY <1>3, <2>1
  <2>3. freeinode_ts \subseteq Inodes \ {ROOT_DIR_INUM}
    BY <1>1, <1>3 DEF ROOT_DIR_INUM
  <2>4. dir \in [Slots -> EntryType]
    <3>1. \A s \in Slots : s < n =>
             [d_name |-> InitialFiles[s + 1], d_inumber |-> s + 1] \in EntryType
      BY <1>1, <1>2 DEF Slots, EntryType, Inodes
    <3>2. [d_name |-> NoName, d_inumber |-> -1] \in EntryType
      BY DEF EntryType
    <3> QED BY <1>3, <3>1, <3>2
  <2>5. open_file_table \in [Handles -> HandleType]
    <3>1. 0 \in Inodes /\ 0 \in 0..DATA_BLOCKS * BLOCK_SIZE
      BY <1>2, Arena DEF Inodes
    <3>2. [of_inumber |-> 0, of_offset |-> 0] \in HandleType
      BY <3>1 DEF HandleType
    <3> QED BY <1>3, <3>2
  <2>6. calls \in 0..MaxCalls
    BY <1>3, CallersAssumption
  <2>7. pc \in [Threads -> StepPCs]
    BY <1>3 DEF StepPCs
  <2>8. /\ free_blocks \subseteq Blocks \ {ROOT_BLOCK}
        /\ fs_data \in [Blocks -> Names \cup {Data}]
        /\ free_open_file_entries \subseteq Handles
        /\ inode_rwl \in [Inodes -> Threads \cup {Nobody}]
        /\ entry_lock \in [Handles -> Threads \cup {Nobody}]
        /\ open_file_table_rwl \in Threads \cup {Nobody}
        /\ fault \in {"none", "NULL", "overrun"}
    BY <1>3
  <2> QED BY <2>2, <2>3, <2>4, <2>5, <2>6, <2>7, <2>8 DEF TypeOK, InodeType, EntryType,
                                                          HandleType
<1>8. /\ loc \in [Threads -> LocType]
      /\ \A t \in Threads : pc[t] = "idle" /\ loc[t] = NoLocals
  BY <1>2, <1>3 DEF NoLocals, LocType
<1>9. /\ NoLocals.call.op = "none" /\ NoLocals.fd = NoHandle
  BY DEF NoLocals, NoCall
<1>10. \A t \in Threads : Local(t)
  BY <1>8, <1>9 DEF Local, InCall, Holds, KnowsDir, KnowsFile, OpenPCs, RootPCs, FluxPCs,
                    FoundPCs, FdPCs
<1>11. KeptApart
  BY <1>8, <1>9 DEF KeptApart, OpenVersusUnlink
<1>12. RootKept /\ EntriesLive
  BY <1>4, <1>5, <1>6 DEF RootKept, EntriesLive
<1>13. NamesUnique
  <2> SUFFICES ASSUME NEW r \in Slots, NEW s \in Slots, dir[r].d_inumber # -1,
                      dir[s].d_inumber # -1, dir[r].d_name = dir[s].d_name
               PROVE  r = s
    BY DEF NamesUnique
  <2>1. r < n /\ s < n
    BY <1>4
  <2>2. r + 1 = s + 1
    BY <1>1, <1>4, <2>1
  <2> QED BY <1>2, <2>2 DEF Slots
<1>14. LinksResolved /\ HandlesNamed
  <2>1. \A i \in Inodes : ~IsLink(i)
    BY <1>5 DEF IsLink, RootInode, NewInode
  <2>2. \A s \in Slots : dir[s].d_inumber # -1 => dir[s].d_inumber \in Inodes
    BY <1>12 DEF EntriesLive, Taken
  <2> QED BY <1>3, <2>1, <2>2 DEF LinksResolved, HandlesNamed, IsOpenHandle
<1>15. BlocksOwned
  <2>1. \A i \in Inodes : i # ROOT_DIR_INUM => i \notin Owners
    BY <1>5 DEF Owners, NewInode
  <2>2. \A i \in Owners : i = ROOT_DIR_INUM
    BY <2>1 DEF Owners
  <2>3. inode_table[ROOT_DIR_INUM].i_data_block \in Blocks \ free_blocks
    BY <1>2, <1>3, <1>5 DEF RootInode, Blocks, ROOT_BLOCK
  <2> QED BY <2>2, <2>3 DEF BlocksOwned
<1>16. Counted
  <2> SUFFICES ASSUME NEW i \in Taken
               PROVE  inode_table[i].i_links_count =
                         Cardinality(Entries(i)) + (IF InFlux(i) THEN 1 ELSE 0)
    BY DEF Counted
  <2>1. i \in 1..n /\ i \in Inodes /\ i # ROOT_DIR_INUM
    BY <1>6 DEF Taken
  <2>2. ~InFlux(i)
    BY <1>8 DEF InFlux, FluxPCs
  <2>3. i - 1 \in Slots /\ i - 1 < n /\ (i - 1) + 1 = i
    BY <1>1, <1>2, <2>1 DEF Slots
  <2>4. Entries(i) = {i - 1}
    <3>1. i - 1 \in Entries(i)
      BY <1>4, <2>3 DEF Entries
    <3>2. \A s \in Entries(i) : s = i - 1
      <4> SUFFICES ASSUME NEW s \in Slots, dir[s].d_inumber = i
                   PROVE  s = i - 1
        BY DEF Entries
      <4>1. s < n /\ s + 1 = i
        BY <1>4, <2>1
      <4> QED BY <1>2, <4>1 DEF Slots
    <3> QED BY <3>1, <3>2
  <2>5. Cardinality(Entries(i)) = 1
    BY <2>4, FS_Singleton
  <2>6. inode_table[i].i_links_count = 1
    BY <1>5, <2>1 DEF NewInode
  <2> QED BY <2>2, <2>5, <2>6
<1> QED BY <1>7, <1>8, <1>10, <1>11, <1>12, <1>13, <1>14, <1>15, <1>16 DEF IInv, TablesInv

LEMMA StepInv ==
  ASSUME IInv, NEW t \in Threads, Step(t)
  PROVE  IInv'
<1>1. UNCHANGED calls
  BY DEF Step
<1>2. CASE O_Lookup(t)      BY <1>1, <1>2, O_LookupStep
<1>3. CASE O_Create(t)      BY <1>1, <1>3, O_CreateStep
<1>4. CASE O_Inode(t)       BY <1>1, <1>4, O_InodeStep
<1>5. CASE O_Trunc(t)       BY <1>1, <1>5, O_TruncStep
<1>6. CASE O_Add(t)         BY <1>1, <1>6, O_AddStep
<1>7. CASE O_Entry(t)       BY <1>1, <1>7, O_EntryStep
<1>8. CASE Y_Lookup(t) \/ K_Lookup(t)
  BY <1>1, <1>8, LookupStep DEF Y_Lookup, K_Lookup
<1>9. CASE Y_Create(t)      BY <1>1, <1>9, Y_CreateStep
<1>10. CASE Y_Block(t)      BY <1>1, <1>10, Y_BlockStep
<1>11. CASE K_Inode(t)      BY <1>1, <1>11, K_InodeStep
<1>12. CASE U_Lookup(t)     BY <1>1, <1>12, U_LookupStep
<1>13. CASE U_Open(t)       BY <1>1, <1>13, U_OpenStep
<1>14. CASE U_Inode(t)      BY <1>1, <1>14, U_InodeStep
<1>15. CASE U_Delete(t)     BY <1>1, <1>15, U_DeleteStep
<1>16. CASE C_Remove(t)     BY <1>1, <1>16, C_RemoveStep
<1>17. CASE W_Get(t)        BY <1>1, <1>17, W_GetStep
<1>18. CASE W_Entry(t) \/ R_Entry(t)
  BY <1>1, <1>18, LockEntryStep
<1>19. CASE W_Inode(t)      BY <1>1, <1>19, W_InodeStep
<1>20. CASE W_Copy(t)       BY <1>1, <1>20, W_CopyStep
<1>21. CASE R_Copy(t)       BY <1>1, <1>21, R_CopyStep
<1> QED BY <1>2, <1>3, <1>4, <1>5, <1>6, <1>7, <1>8, <1>9, <1>10, <1>11, <1>12, <1>13, <1>14,
           <1>15, <1>16, <1>17, <1>18, <1>19, <1>20, <1>21 DEF Step

LEMMA NextInv ==
  ASSUME IInv, ~CallersRace, [Next]_vars
  PROVE  IInv'
<1>1. CASE UNCHANGED vars
  <2>1. /\ UNCHANGED <<inodes, dir, blocks, handles, locks, pc, loc, calls>>
        /\ fault' \in {"none", "NULL", "overrun"}
    BY <1>1 DEF vars, IInv, TypeOK
  <2> QED BY <2>1, NothingMoves
<1>2. CASE Next
  BY <1>2, CallStep, StepInv DEF Next
<1> QED BY <1>1, <1>2

LEMMA IInvAlways ==
  ASSUME ~CallersRace
  PROVE  Spec => []IInv
<1>1. IInv /\ [Next]_vars => IInv'
  BY NextInv
<1> QED BY <1>1, InitInv, PTL DEF Spec

-----------------------------------------------------------------------------
(* Theorems *)

(* The tables, the locks and where each thread is keep their types: no file   *)
(* outgrows its block, no offset leaves fs_data and no link count the size    *)
(* of the directory, for any number of threads and tables of any size.        *)
THEOREM TypeCorrect ==
  ASSUME ~CallersRace
  PROVE  Spec => []TypeOK
<1>1. IInv => TypeOK
  BY DEF IInv
<1> QED BY <1>1, IInvAlways, PTL

(* Whenever the root's lock is free, names are unique, every link count is    *)
(* the number of the inode's names and every name is of an inode in use:      *)
(* tfs_link, tfs_unlink and the creations, whatever they fail on, leave the   *)
(* directory and the inode table in agreement.                                *)
THEOREM LinksRight ==
  ASSUME ~CallersRace
  PROVE  Spec => []LinksCounted
<1>1. ASSUME IInv PROVE LinksCounted
  <2> SUFFICES ASSUME inode_rwl[ROOT_DIR_INUM] = Nobody
               PROVE  /\ \A n \in FileNames : Cardinality(EntriesOf(n)) <= 1
                      /\ \A i \in Taken : inode_table[i].i_links_count =
                            Cardinality({s \in Slots : dir[s].d_inumber = i})
                      /\ \A s \in Slots : dir[s].d_inumber \in Taken \cup {-1}
    BY DEF LinksCounted
  <2>1. EntriesLive /\ NamesUnique /\ Counted
    BY <1>1 DEF IInv, TablesInv
  <2>2. \A i : ~InFlux(i)
    <3>1. \A t \in Threads : pc[t] \notin RootPCs
      BY <1>1, CallersAssumption DEF IInv, Local, Holds
    <3> QED BY <3>1 DEF InFlux, FluxPCs, RootPCs
  <2>3. ASSUME NEW n \in FileNames PROVE Cardinality(EntriesOf(n)) <= 1
    <3>1. \A r, s \in EntriesOf(n) : r = s
      BY <2>1 DEF EntriesOf, NamesUnique
    <3>2. CASE EntriesOf(n) = {}
      BY <3>2, FS_EmptySet
    <3>3. CASE EntriesOf(n) # {}
      <4>1. PICK s : EntriesOf(n) = {s}
        BY <3>1, <3>3
      <4>2. Cardinality({s}) = 1
        BY FS_Singleton
      <4> QED BY <4>1, <4>2
    <3> QED BY <3>2, <3>3
  <2>4. ASSUME NEW i \in Taken
        PROVE  inode_table[i].i_links_count =
                  Cardinality({s \in Slots : dir[s].d_inumber = i})
    <3>1. inode_table[i].i_links_count = Cardinality(Entries(i)) + 0
      BY <2>1, <2>2 DEF Counted
    <3>2. inode_table[i].i_links_count = Cardinality(Entries(i))
      BY <3>1, EntriesFinite
    <3> QED BY <3>2 DEF Entries
  <2> QED BY <2>1, <2>3, <2>4 DEF EntriesLive
<1> QED BY <1>1, IInvAlways, PTL

(* No block has two owners, and a block that a file or a link owns is not     *)
(* free: truncations, writes, deletions and failed creations of any number of *)
(* threads hand every block on at most once.                                  *)
THEOREM BlocksNeverShared ==
  ASSUME ~CallersRace
  PROVE  Spec => []BlocksOwned
<1>1. IInv => BlocksOwned
  BY DEF IInv, TablesInv
<1> QED BY <1>1, IInvAlways, PTL

(* The inode of an open handle stays in use: tfs_unlink refuses an open file, *)
(* and that is enough for callers that do not unlink a file while they open   *)
(* it.                                                                        *)
THEOREM OpenFilesKept ==
  ASSUME ~CallersRace
  PROVE  Spec => []OpenFilesExist
<1>1. ASSUME IInv PROVE OpenFilesExist
  BY <1>1, OpenHaveName DEF OpenFilesExist
<1> QED BY <1>1, IInvAlways, PTL

(* tfs_open never reads a path name through the block -1: a symbolic link has *)
(* an entry only once its block is written, and keeps the block.              *)
THEOREM LinksReadable ==
  ASSUME ~CallersRace
  PROVE  Spec => []NoNullTarget
<1>1. Init => NoNullTarget
  BY DEF Init, NoNullTarget
<1>2. ASSUME IInv, NoNullTarget, [Next]_vars
      PROVE  NoNullTarget'
  <2>1. CASE UNCHANGED vars
    BY <1>2, <2>1 DEF NoNullTarget, vars
  <2>2. ASSUME NEW t \in Threads, NEW c \in Calls, Call(t, c)
        PROVE  NoNullTarget'
    BY <1>2, <2>2 DEF NoNullTarget, Call
  <2>3. ASSUME NEW t \in Threads, O_Inode(t)
        PROVE  NoNullTarget'
    <3>1. pc[t] = "o_inode"
      BY <2>3 DEF O_Inode
    <3>2. ~(IsLink(loc[t].inum) /\ inode_table[loc[t].inum].i_data_block = -1)
      BY <1>2, <3>1, LinkFollowed
    <3>3. fault' = fault
      BY <2>3, <3>2 DEF O_Inode, IsLink
    <3> QED BY <1>2, <3>3 DEF NoNullTarget
  <2>4. ASSUME NEW t \in Threads, W_Copy(t) \/ R_Copy(t)
        PROVE  NoNullTarget'
    <3>1. fault' = fault \/ fault' = "overrun"
      BY <2>4 DEF W_Copy, R_Copy, Dies
    <3> QED BY <1>2, <3>1 DEF NoNullTarget
  <2>5. ASSUME NEW t \in Threads,
               \/ O_Lookup(t) \/ O_Create(t) \/ O_Trunc(t) \/ O_Add(t) \/ O_Entry(t)
               \/ Y_Lookup(t) \/ Y_Create(t) \/ Y_Block(t) \/ K_Lookup(t) \/ K_Inode(t)
        PROVE  NoNullTarget'
    <3>1. fault' = fault
      BY <2>5 DEF O_Lookup, O_Create, O_Trunc, O_Add, O_Entry, Y_Lookup, K_Lookup, Lookup,
                  Y_Create, Y_Block, K_Inode
    <3> QED BY <1>2, <3>1 DEF NoNullTarget
  <2>6. ASSUME NEW t \in Threads,
               \/ U_Lookup(t) \/ U_Open(t) \/ U_Inode(t) \/ U_Delete(t) \/ C_Remove(t)
               \/ W_Get(t) \/ W_Entry(t) \/ R_Entry(t) \/ W_Inode(t)
        PROVE  NoNullTarget'
    <3>1. fault' = fault
      BY <2>6 DEF U_Lookup, U_Open, U_Inode, U_Delete, C_Remove, W_Get, W_Entry, R_Entry,
                  LockEntry, W_Inode
    <3> QED BY <1>2, <3>1 DEF NoNullTarget
  <2> QED BY <1>2, <2>1, <2>2, <2>3, <2>4, <2>5, <2>6 DEF Next, Step
<1> QED BY <1>1, <1>2, IInvAlways, PTL DEF Spec
=============================================================================
