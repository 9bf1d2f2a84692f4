------------------------------- MODULE MCTFS -------------------------------
(* Small instances of the shared file system for TLC.                       *)
EXTENDS TFS

CONSTANTS f, g, s, long

Open(n, m) == [op |-> "open", name |-> n, mode |-> m]
Copy(n, k) == [op |-> "copy", name |-> n, mode |-> {"TRUNC", "CREAT"}, len |-> k]
LinkName(n, m) == [op |-> "link", target |-> n, name |-> m]
SymLinkName(n, m) == [op |-> "sym_link", target |-> n, name |-> m]
Unlink(n) == [op |-> "unlink", name |-> n]

FileF == <<f>>

AllCalls ==
    {Open(f, {"CREAT"}), Open(g, {"APPEND"}), Open(s, {}), Open(s, {"CREAT"}),
     Open(long, {"CREAT"}), Copy(f, 2),
     LinkName(f, g), SymLinkName(f, s), LinkName(s, g), Unlink(f), Unlink(g), Unlink(s)}
    \cup {[op |-> "close", fd |-> h] : h \in Handles}
    \cup {[op |-> "write", fd |-> 0, len |-> 2], [op |-> "read", fd |-> 0, len |-> 1]}

\* Callers that do not race never reach the fields of a FREE inode, the entry of a
\* closed handle, or what a block that is no link's holds: states that differ there
\* alone are one state to TLC.
LinkBlocks == {inode_table[i].i_data_block :
                 i \in {j \in Taken : inode_table[j].i_node_type = "T_LINK"}} \ {-1}
LiveView == <<[i \in Taken |-> inode_table[i]], freeinode_ts, dir, free_blocks,
              [b \in LinkBlocks |-> fs_data[b]],
              [h \in Handles \ free_open_file_entries |->
                  IF Pending(h) THEN NoHandle ELSE open_file_table[h]],
              free_open_file_entries, locks, calls, pc, loc, fault>>
=============================================================================
