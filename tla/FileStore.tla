----------------------------- MODULE FileStore -----------------------------
(***************************************************************************)
(* What the file system of src/fs2/operations.h promises a caller: named    *)
(* byte sequences, and handles that read and write them from an offset.     *)
(* Where the implementation keeps the bytes, and its inodes, do not show.   *)
(* An operation that needs room may fail with -1.                           *)
(***************************************************************************)
EXTENDS Integers, Sequences

CONSTANTS FileNames, Handles, Bytes, MaxFileSize, NoFile, Closed

VARIABLES files,     \* the contents of each file, or NoFile
          opened,    \* the file and offset of each handle, or Closed
          result     \* of the last call: what it returned and what it read

vars == <<files, opened, result>>

Init == /\ files = [n \in FileNames |-> NoFile]
        /\ opened = [h \in Handles |-> Closed]
        /\ result = [ret |-> 0, data |-> <<>>]

Returns(ret, data) == result' = [ret |-> ret, data |-> data]

\* the contents n has once it is opened with mode
OnOpen(n, mode) == IF files[n] = NoFile \/ "TRUNC" \in mode THEN <<>> ELSE files[n]

OpenFails(n, mode) == /\ Returns(-1, <<>>)
                      /\ files' \in {files, [files EXCEPT ![n] =
                                                IF @ # NoFile \/ "CREAT" \in mode
                                                THEN OnOpen(n, mode) ELSE NoFile]}
                      /\ UNCHANGED opened

Open(n, mode, h) == /\ Returns(h, <<>>)
                    /\ opened[h] = Closed
                    /\ files[n] # NoFile \/ "CREAT" \in mode
                    /\ files' = [files EXCEPT ![n] = OnOpen(n, mode)]
                    /\ opened' = [opened EXCEPT ![h] =
                         [name |-> n,
                          offset |-> IF "APPEND" \in mode THEN Len(OnOpen(n, mode)) ELSE 0]]

Close(h) == /\ Returns(0, <<>>)
            /\ opened[h] # Closed
            /\ opened' = [opened EXCEPT ![h] = Closed]
            /\ UNCHANGED files

\* how many bytes fit after offset when len are offered
Room(offset, len) == IF len + offset > MaxFileSize THEN MaxFileSize - offset ELSE len

\* s with data written over it, and past its end, from offset on
Overwrite(s, offset, data) ==
    LET end == offset + Len(data) IN
    [i \in 1..IF end > Len(s) THEN end ELSE Len(s) |->
        IF i \in offset + 1..end THEN data[i - offset] ELSE s[i]]

\* of the len bytes offered, those that fit are written
Write(h, len) == LET k == Room(opened[h].offset, len) IN
    /\ opened[h] # Closed
    /\ Returns(k, <<>>)
    /\ opened' = [opened EXCEPT ![h].offset = @ + k]
    /\ \E data \in [1..k -> Bytes] :
          files' = [files EXCEPT ![opened[h].name] = Overwrite(@, opened[h].offset, data)]

Read(h, len) == LET contents == files[opened[h].name]
                    end == IF opened[h].offset + len > Len(contents) THEN Len(contents)
                           ELSE opened[h].offset + len
                IN
    /\ opened[h] # Closed
    /\ Returns(end - opened[h].offset, SubSeq(contents, opened[h].offset + 1, end))
    /\ opened' = [opened EXCEPT ![h].offset = end]
    /\ UNCHANGED files

Unlink(n) == /\ Returns(0, <<>>)
             /\ files[n] # NoFile
             /\ files' = [files EXCEPT ![n] = NoFile]
             /\ UNCHANGED opened

Fails == /\ Returns(-1, <<>>)
         /\ UNCHANGED <<files, opened>>

Next == \/ Fails
        \/ \E n \in FileNames : Unlink(n)
        \/ \E h \in Handles : Close(h)
        \/ \E h \in Handles, len \in 0..MaxFileSize + 1 : Read(h, len) \/ Write(h, len)
        \/ \E n \in FileNames, mode \in SUBSET {"CREAT", "TRUNC", "APPEND"} :
              OpenFails(n, mode) \/ \E h \in Handles : Open(n, mode, h)

Spec == Init /\ [][Next]_vars
=============================================================================
