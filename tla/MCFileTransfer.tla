--------------------------- MODULE MCFileTransfer ----------------------------
(* FileTransfer for TLC: two files, each as large as a file may be, and a    *)
(* second attempt at one of them.  The sender of the other may stop reading. *)
EXTENDS FileTransfer

CONSTANTS Once, Twice
Files == {Once, Twice}
DeafFiles == {Once}
OneEach == [f \in Files |-> 1]
TriesOf == [f \in Files |-> IF f = Twice THEN 2 ELSE 1]
==============================================================================
