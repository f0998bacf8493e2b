-------------------------- MODULE MCServerResource --------------------------
(***************************************************************************)
(* Instances of ServerResource for TLC.  The share holds a file "a" and a  *)
(* folder "d" with a file "a" of its own; what comes is any few requests   *)
(* of a list, copies included.                                             *)
(***************************************************************************)
EXTENDS ServerResource

A == <<"a">>
B == <<"b">>
D == <<"d">>
DA == <<"d", "a">>

(* id, kind, target, argument, process *)
List == {
    <<"getA",  "get",    A,  B, 1>>,  <<"getD",  "get",    D,  B, 1>>,
    <<"getD2", "get",    D,  B, 2>>,  <<"renA",  "rename", A,  B, 1>>,
    <<"renDA", "rename", DA, B, 1>>,  <<"renDA2", "rename", DA, B, 2>>,
    <<"movA",  "move",   A,  D, 1>>,  <<"movDA", "move",   DA, B, 2>>,
    <<"delA",  "delete", A,  B, 1>>,  <<"delD",  "delete", D,  B, 2>>,
    <<"putB",  "put",    B,  D, 1>>,  <<"blkB",  "block",  B,  D, 1>>,
    <<"list",  "fetch",  A,  B, 2>> }

Field(i) == [r \in {e[1] : e \in List} |-> (CHOOSE e \in List : e[1] = r)[i]]
Requests == DOMAIN Field(1)
Kinds_ == Field(2)
Targets == Field(3)
Args == Field(4)
Servers == Field(5)

Names == {"a", "b", "d", "d.zip"}
Zips == [f \in {"d"} |-> "d.zip"]
Glue == [x \in {D} \X {A, B} |-> "b"]
Parts == {"root a", "inner a", "archive"} \cup Requests
Files == [p \in Path |-> CASE p = A -> {"root a"}
                           [] p = DA -> {"inner a"}
                           [] p = D -> Dir
                           [] OTHER -> Absent]

(* The theorem about ArchivesRemoved speaks of this instance.              *)
ASSUME InstanceUnnamed == ArchivesUnnamed
=============================================================================
