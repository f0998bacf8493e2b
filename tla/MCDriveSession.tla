--------------------------- MODULE MCDriveSession ---------------------------
(***************************************************************************)
(* An instance of DriveSession for TLC: a share of one file of two blocks. *)
(***************************************************************************)
EXTENDS DriveSession

CONSTANTS f, docs      \* model values: a file, a folder

Sizes == [x \in File |-> 2]
=============================================================================
