-------------------------- MODULE MCDriveAssembler --------------------------
(***************************************************************************)
(* Instances of DriveAssembler for TLC: a request of three blocks and, for *)
(* the server, one of two beside it.                                       *)
(***************************************************************************)
EXTENDS DriveAssembler

CONSTANTS a, b, inbox      \* model values: requests, a folder

Sizes == [g \in Request |-> IF g = a THEN 3 ELSE 2]
Names == [g \in Request |-> g]

(* An older file of the same name, in the folder the user chose *)
OldInInbox == {<<inbox, a>>}
Nowhere == {}
=============================================================================
