----------------------------- MODULE TFS2Calls -----------------------------
(***************************************************************************)
(* Callers of the file system of TFS2: any sequence of tfs_* calls, with    *)
(* the result of the last one.  UnlinkOpen and TruncOpen say whether they   *)
(* ever unlink or truncate a file that has an open handle; the broker never *)
(* truncates, but deletes boxes that are open.                              *)
(***************************************************************************)
EXTENDS TFS2, FiniteSets

CONSTANTS UnlinkOpen, TruncOpen,
          CallModes,        \* the modes they open files with
          MaxLen,           \* the longest buffer a caller passes
          NoFile, Closed    \* a name without a file, a handle that is not open

ASSUME CallersAssumption == /\ UnlinkOpen \in BOOLEAN /\ TruncOpen \in BOOLEAN
                            /\ CallModes \subseteq Modes /\ MaxLen \in Nat
ASSUME MarksAssumption == /\ NoFile \notin Seq(Bytes \cup {Junk})
                          /\ Closed \notin [name : FileNames, offset : Nat]

VARIABLE result     \* what the last call returned and what it read

vars == <<fs, result>>

Buffers(ret) == [1..(IF ret > 0 THEN ret ELSE 0) -> Bytes \cup {Junk}]
Data == UNION {[1..n -> Bytes] : n \in 0..MaxLen}

Init == FSInitWith(<<>>) /\ result = [ret |-> 0, data |-> <<>>]

IsOpen(name) == \E h \in Handles : /\ IsOpenHandle(h)
                                   /\ open_file_table[h].of_inumber = find_in_dir(name)

Open(name, mode) == /\ "TRUNC" \in mode => TruncOpen \/ ~IsOpen(name)
                    /\ \E ret \in Handles \cup {-1} :
                          /\ tfs_open(name, mode, ret)
                          /\ result' = [ret |-> ret, data |-> <<>>]

Close(fd) == \E ret \in {0, -1} : /\ tfs_close(fd, ret)
                                  /\ result' = [ret |-> ret, data |-> <<>>]

Unlink(name) == /\ UnlinkOpen \/ ~IsOpen(name)
                /\ \E ret \in {0, -1} : /\ tfs_unlink(name, ret)
                                        /\ result' = [ret |-> ret, data |-> <<>>]

Write(fd, data) == \E ret \in -1..MaxLen : /\ tfs_write(fd, data, ret)
                                           /\ result' = [ret |-> ret, data |-> <<>>]

Read(fd, len) == \E ret \in -1..MaxLen : \E buffer \in Buffers(ret) :
                    /\ tfs_read(fd, len, ret, buffer)
                    /\ result' = [ret |-> ret, data |-> buffer]

Next == /\ fault = "none"
        /\ \/ \E name \in AllNames, mode \in CallModes : Open(name, mode)
           \/ \E name \in AllNames : Unlink(name)
           \/ \E fd \in Handles \cup {-1} : Close(fd)
           \/ \E fd \in Handles : \/ \E data \in Data : Write(fd, data)
                                  \/ \E len \in 0..MaxLen : Read(fd, len)

Spec == Init /\ [][Next]_vars

-----------------------------------------------------------------------------
(* Properties *)

(* The tables keep their types, and the process ends for no other reason     *)
(* than the two below.                                                        *)
TypeOK == TablesTyped /\ fault \in {"none", "assert", "overrun"}

(* No call ends the process, unless it went through a stale handle: no        *)
(* unsigned difference wraps around, and no block number fails the assertion  *)
(* of data_block_get.                                                         *)
NoFault == fault = "none"

\* the name a live inode has in the root directory, and what its file holds
NameOf(inum) == dir[CHOOSE s \in Slots : dir[s].d_inumber = inum].d_name
ContentsOf(inum) == [k \in 1..inode_table[inum].i_size |->
                        fs_data[Address(inode_table[inum].i_data_block, k - 1)]]

filesBar == [n \in FileNames |-> IF find_in_dir(n) = -1 THEN NoFile
                                 ELSE ContentsOf(find_in_dir(n))]
openedBar == [h \in Handles |-> IF h \in free_open_file_entries THEN Closed
                                ELSE [name |-> NameOf(open_file_table[h].of_inumber),
                                      offset |-> open_file_table[h].of_offset]]

Store == INSTANCE FileStore WITH
    MaxFileSize <- BLOCK_SIZE, files <- filesBar, opened <- openedBar

(* To callers that do not unlink or truncate open files the file system is   *)
(* a set of independent named byte sequences: inodes and blocks that are     *)
(* reused never show.                                                        *)
ImplementsFileStore == Store!Spec
=============================================================================
