------------------------------ MODULE MCTFS2 ------------------------------
(* Small instances of the file system and its callers for TLC.              *)
EXTENDS TFS2Calls, TLC

Symmetry == Permutations(FileNames) \cup Permutations(Bytes)

\* The entry of a closed handle is never read, and result is only written: states
\* that differ there alone are one state to TLC, which still checks every step.
OpenEntries == [h \in Handles \ free_open_file_entries |-> open_file_table[h]]
FSView == <<inode_table, freeinode_ts, dir, free_blocks, fs_data, OpenEntries, fault>>

\* What a file holds decides nothing but what a read returns: the tables and offsets
\* of two states that differ in fs_data alone change in the same way.
TablesView == <<inode_table, freeinode_ts, dir, free_blocks, OpenEntries, fault>>
=============================================================================
