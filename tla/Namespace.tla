----------------------------- MODULE Namespace -----------------------------
(***************************************************************************)
(* What the file system of src/fs/operations.h promises the threads that    *)
(* share it: one root directory whose operations are atomic, files with     *)
(* several names, symbolic links that keep the name they were given, and    *)
(* handles on files.  A file that is open is never deleted: it cannot even  *)
(* lose one of its names.  An operation may always fail.                    *)
(***************************************************************************)
CONSTANTS Names, Files, Handles, Closed

NoEntry == [type |-> "none"]
File(x) == [type |-> "file", id |-> x]
LinkTo(n) == [type |-> "link", target |-> n]

VARIABLES ns,        \* the file or link each name stands for, or NoEntry
          opened     \* the file each handle is open on, or Closed

\* there may be files already, but nothing is open
Init == /\ ns \in [Names -> {NoEntry} \cup {File(x) : x \in Files}]
        /\ opened = [h \in Handles |-> Closed]

InUse(x) == (\E n \in Names : ns[n] = File(x)) \/ (\E h \in Handles : opened[h] = x)

\* the directory
Create(n, x) == /\ ns[n] = NoEntry /\ ~InUse(x)
                /\ ns' = [ns EXCEPT ![n] = File(x)]

\* only files have more than one name
Link(n, m) == /\ ns[n].type = "file" /\ ns[m] = NoEntry
              /\ ns' = [ns EXCEPT ![m] = ns[n]]

SymLink(n, m) == /\ ns[n] # NoEntry /\ ns[m] = NoEntry
                 /\ ns' = [ns EXCEPT ![m] = LinkTo(n)]

Unlink(n) == /\ ns[n] # NoEntry
             /\ \A h \in Handles : opened[h] # Closed => ns[n] # File(opened[h])
             /\ ns' = [ns EXCEPT ![n] = NoEntry]

\* the handles
Open(n, h) == /\ ns[n].type = "file" /\ opened[h] = Closed
              /\ opened' = [opened EXCEPT ![h] = ns[n].id]

Close(h) == /\ opened[h] # Closed
            /\ opened' = [opened EXCEPT ![h] = Closed]

Next == \/ /\ ns' # ns /\ UNCHANGED opened
           /\ \/ \E n \in Names, x \in Files : Create(n, x)
              \/ \E n, m \in Names : Link(n, m) \/ SymLink(n, m)
              \/ \E n \in Names : Unlink(n)
        \/ /\ opened' # opened /\ UNCHANGED ns
           /\ \E h \in Handles : Close(h) \/ \E n \in Names : Open(n, h)

Spec == Init /\ [][Next]_<<ns, opened>>
=============================================================================
