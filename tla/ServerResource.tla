--------------------------- MODULE ServerResource ---------------------------
(***************************************************************************)
(* The handlers of the server's resource (server_resource.py) over the     *)
(* shared tree of files (drive_utils.py, os, shutil).  Each client has a   *)
(* server process of its own, whose workers share one current directory:   *)
(* a handler first changes to the resource's folder, and then names every  *)
(* file by a relative path, step after step, while the workers of this     *)
(* process and of others do the same.  An exception of a handler is        *)
(* answered with an RST and swallowed by the logger that decorates it.     *)
(*                                                                         *)
(* The requests name files, or a folder as a whole: no folder is renamed   *)
(* or moved.  A copy of a request that comes after it was solved is solved *)
(* again.                                                                  *)
(***************************************************************************)
EXTENDS Naturals, Sequences, FiniteSets, SequencesExt

CONSTANTS
    Process,        \* server processes, one per client address
    Request,        \* requests a client may send
    Kind,           \* what each asks for
    Target,         \* LOCATION_PATH of each, relative to the resource
    Arg,            \* new name, new place or upload path of each
    Server,         \* the process that gets each
    Name, Folder,   \* base names, and those that are folders
    ZipName,        \* base name of the archive of each folder
    Glued,          \* an upload path and a base name, put together without "/"
    Part, Tree,     \* the files at the start: each holds a set of parts
    MaxSolved       \* bound: how many requests are solved, copies included

CONSTANTS Absent, Dir, Archive, None

Kinds == {"get", "rename", "move", "delete", "put", "block", "fetch"}
Root == <<>>
Path == {<<n>> : n \in Name} \cup {<<f, n>> : f \in Folder, n \in Name}

ASSUME ResourceAssumption ==
    /\ Folder \subseteq Name
    /\ Kind \in [Request -> Kinds] /\ Server \in [Request -> Process]
    /\ \A r \in Request : Kind[r] # "fetch" => Target[r] \in Path
    /\ \A r \in Request : Kind[r] \in {"rename", "move"} =>
                            Target[r] \notin {<<f>> : f \in Folder}
    /\ Arg \in [Request -> Path] /\ ZipName \in [Folder -> Name]
    /\ \A f \in Folder : ZipName[f] # f
    /\ Request \cup {Archive} \subseteq Part
    /\ Tree \in [Path -> {Absent, Dir} \cup SUBSET Part]
    /\ \A p \in Path : Tree[p] = Dir => p \in {<<f>> : f \in Folder}
    /\ \A p \in Path : Tree[p] # Absent /\ Len(p) = 2 => Tree[Front(p)] = Dir
    /\ MaxSolved \in Nat

(* What is there is a folder or a file, and not both. *)
ASSUME ContentAssumption == Absent # Dir /\ \A S \in SUBSET Part : S \notin {Absent, Dir}

VARIABLES
    tree,       \* the files of the shared folder
    cwd,        \* current directory of each process
    savePath,   \* __save_path of each process's assembler
    (* ---- the worker that solves each request ---- *)
    pc,
    src, dst,   \* paths of os.rename; the folder rmtree holds;
                \* the file a GET sends, the archive it writes
    entries,    \* what rmtree and os.walk still have to visit
    answer,     \* the response, an RST if negative
    (* ---- history ---- *)
    solved,     \* how many were begun, copies included
    changed,    \* paths the current solving of each has changed
    touched,    \* paths others have changed since it began
    crossed,    \* changes of directory by others in its process
    sized, served,  \* what a GET measured, and what it reads
    there,      \* paths that existed when a FETCH began its walk
    listed,     \* paths a FETCH has found
    excused     \* requests that ended diverted, or while zipping or sending

worker == <<pc, src, dst, entries, answer>>
history == <<solved, crossed, sized, served, there, listed, excused>>
vars == <<tree, cwd, savePath, worker, changed, touched, history>>

Exists(p) == p \in Path /\ tree[p] # Absent
IsDir(p) == p = Root \/ (p \in Path /\ tree[p] = Dir)
IsFile(p) == Exists(p) /\ ~ IsDir(p)
Children(p) == {n \in Name : Exists(p \o <<n>>)}

(* A relative path means what the process's current directory makes of it. *)
Here(r, p) == cwd[Server[r]] \o p
Base(r) == <<Last(Target[r])>>
ZipOf(p) == Front(p) \o <<ZipName[Last(p)]>>

Init ==
    /\ tree = Tree
    /\ cwd = [q \in Process |-> Root]
    /\ savePath = [q \in Process |-> None]
    /\ pc = [r \in Request |-> "ready"]
    /\ src = [r \in Request |-> Root] /\ dst = [r \in Request |-> Root]
    /\ entries = [r \in Request |-> {}]
    /\ answer = [r \in Request |-> None]
    /\ solved = 0
    /\ changed = [r \in Request |-> {}] /\ touched = [r \in Request |-> {}]
    /\ crossed = [r \in Request |-> {}]
    /\ sized = [r \in Request |-> None] /\ served = [r \in Request |-> None]
    /\ there = [r \in Request |-> {}] /\ listed = [r \in Request |-> {}]
    /\ excused = {}

-----------------------------------------------------------------------------
(* Steps of a worker *)

GoTo(r, step) == pc' = [pc EXCEPT ![r] = step]
Working(r) == pc[r] \notin {"ready", "end"}

(* The tree becomes t by a step of r. *)
Change(r, t) ==
    LET paths == {p \in Path : t[p] # tree[p]} IN
    /\ tree' = t
    /\ changed' = [changed EXCEPT ![r] = @ \cup paths]
    /\ touched' = [s \in Request |-> IF s = r \/ pc[s] = "ready" THEN touched[s]
                                                      ELSE touched[s] \cup paths]
NoChange == UNCHANGED <<tree, changed, touched>>

(* os.chdir, seen by the other workers of the process *)
Chdir(r, dir, how) ==
    /\ cwd' = [cwd EXCEPT ![Server[r]] = dir]
    /\ crossed' = [s \in Request |->
          IF s = r THEN IF how = "begin" THEN {} ELSE crossed[s] \ {"begin"}
          ELSE IF Working(s) /\ Server[s] = Server[r] THEN crossed[s] \cup {how}
          ELSE crossed[s]]

(* Another worker changed the directory under this one: a handler expects  *)
(* the resource's folder, a rename inside a folder that folder.            *)
InFolder(r) == Kind[r] = "rename" /\ Len(Target[r]) > 1
Diverted(r) == IF InFolder(r) THEN crossed[r] # {} ELSE "enter" \in crossed[r]

(* The handler returns; the response was sent, or none. *)
Finish(r, response) ==
    /\ GoTo(r, "end")
    /\ answer' = [answer EXCEPT ![r] = response]
    /\ excused' = IF Diverted(r) THEN excused \cup {r} ELSE excused

(* An exception: INTERNAL_ERROR goes to the client. *)
Fail(r) == Finish(r, "internal") /\ NoChange

-----------------------------------------------------------------------------
(* Every handler *)

Home_Kept(r) == cwd[Server[r]]
Home(r) == Root

FirstStep == [get |-> "test", rename |-> "test", move |-> "test", delete |-> "test",
              put |-> "save", block |-> "write", fetch |-> "walk"]

Begin(r) ==
    /\ pc[r] \in {"ready", "end"}
    /\ solved < MaxSolved
    /\ solved' = solved + 1
    /\ Chdir(r, Home(r), "begin")
    /\ GoTo(r, FirstStep[Kind[r]])
    /\ answer' = [answer EXCEPT ![r] = None]
    /\ changed' = [changed EXCEPT ![r] = {}] /\ touched' = [touched EXCEPT ![r] = {}]
    /\ sized' = [sized EXCEPT ![r] = None] /\ served' = [served EXCEPT ![r] = None]
    /\ listed' = [listed EXCEPT ![r] = {}]
    /\ UNCHANGED <<tree, savePath, src, dst, entries, there, excused>>

(* Does the path exist, and is it a file or a folder? *)
Test(r) ==
    /\ pc[r] = "test"
    /\ LET p == Here(r, Target[r]) IN
         IF ~ Exists(p)
           THEN Finish(r, IF Kind[r] = "get" THEN "not_found" ELSE "bad_request")
           ELSE /\ GoTo(r, CASE Kind[r] = "get"    -> IF IsDir(p) THEN "zip" ELSE "size"
                             [] Kind[r] = "rename" -> IF InFolder(r) THEN "enter" ELSE "rename"
                             [] Kind[r] = "move"   -> "place"
                             [] Kind[r] = "delete" -> IF IsDir(p) THEN "rmtree" ELSE "remove")
                /\ UNCHANGED <<answer, excused>>
    /\ src' = [src EXCEPT ![r] = IF Kind[r] = "rename" THEN Base(r) ELSE Target[r]]
    /\ dst' = [dst EXCEPT ![r] = Arg[r]]
    /\ NoChange
    /\ UNCHANGED <<cwd, savePath, entries, solved, crossed, sized, served,
                   there, listed>>

-----------------------------------------------------------------------------
(* handle_post *)

(* rename: the folder of the file becomes the current directory *)
Enter(r) ==
    /\ pc[r] = "enter"
    /\ LET dir == Here(r, Front(Target[r])) IN
         IF IsDir(dir)
           THEN Chdir(r, dir, "enter") /\ GoTo(r, "rename") /\ UNCHANGED <<answer, excused>>
           ELSE Finish(r, "internal") /\ UNCHANGED <<cwd, crossed>>
    /\ NoChange
    /\ UNCHANGED <<savePath, src, dst, entries, solved, sized, served, there, listed>>

(* shutil.move: into the place if it is a folder that has no such file *)
PlaceIn(r) ==
    /\ pc[r] = "place"
    /\ LET inside == Arg[r] \o Base(r) IN
         IF IsDir(Here(r, Arg[r]))
           THEN IF Exists(Here(r, inside))
                  THEN Finish(r, "internal") /\ dst' = dst
                  ELSE /\ GoTo(r, "rename") /\ dst' = [dst EXCEPT ![r] = inside]
                       /\ UNCHANGED <<answer, excused>>
           ELSE GoTo(r, "rename") /\ UNCHANGED <<dst, answer, excused>>
    /\ NoChange
    /\ UNCHANGED <<cwd, savePath, src, entries, solved, crossed, sized, served,
                   there, listed>>

(* os.rename replaces a file that has the new name. *)
Rename(r) ==
    /\ pc[r] = "rename"
    /\ LET from == Here(r, src[r])
           to == Here(r, dst[r])
       IN IF IsFile(from) /\ IsDir(Front(to)) /\ ~ IsDir(to)
            THEN /\ Change(r, [tree EXCEPT ![from] = Absent, ![to] = tree[from]])
                 /\ Finish(r, "changed")
            ELSE Fail(r)
    /\ UNCHANGED <<cwd, savePath, src, dst, entries, solved, crossed, sized,
                   served, there, listed>>

-----------------------------------------------------------------------------
(* handle_delete *)

RemoveFile(r) ==
    /\ pc[r] = "remove"
    /\ LET p == Here(r, Target[r]) IN
         IF IsFile(p)
           THEN Change(r, [tree EXCEPT ![p] = Absent]) /\ Finish(r, "deleted")
           ELSE Fail(r)
    /\ UNCHANGED <<cwd, savePath, src, dst, entries, solved, crossed, sized,
                   served, there, listed>>

(* shutil.rmtree lists the folder and holds it open ... *)
Rmtree(r) ==
    /\ pc[r] = "rmtree"
    /\ LET p == Here(r, Target[r]) IN
         IF IsDir(p)
           THEN /\ GoTo(r, "sweep")
                /\ src' = [src EXCEPT ![r] = p]
                /\ entries' = [entries EXCEPT ![r] = Children(p)]
                /\ NoChange /\ UNCHANGED <<answer, excused>>
           ELSE Fail(r) /\ UNCHANGED <<src, entries>>
    /\ UNCHANGED <<cwd, savePath, dst, solved, crossed, sized, served, there, listed>>

(* ... removes what it listed, and fails if one is gone ... *)
Sweep(r) ==
    /\ pc[r] = "sweep"
    /\ \E n \in entries[r] :
         LET p == src[r] \o <<n>> IN
         /\ entries' = [entries EXCEPT ![r] = @ \ {n}]
         /\ IF IsFile(p)
              THEN Change(r, [tree EXCEPT ![p] = Absent]) /\ UNCHANGED <<pc, answer, excused>>
              ELSE Fail(r)
    /\ UNCHANGED <<cwd, savePath, src, dst, solved, crossed, sized, served,
                   there, listed>>

(* ... and then the folder, by its relative path and only if it is empty.  *)
Empty_Unchecked(p) == TRUE
Empty(p) == Children(p) = {}

Rmdir(r) ==
    /\ pc[r] = "sweep" /\ entries[r] = {}
    /\ LET p == Here(r, Target[r]) IN
         IF p # Root /\ IsDir(p) /\ Empty(p)
           THEN Change(r, [tree EXCEPT ![p] = Absent]) /\ Finish(r, "deleted")
           ELSE Fail(r)
    /\ UNCHANGED <<cwd, savePath, src, dst, entries, solved, crossed, sized,
                   served, there, listed>>

-----------------------------------------------------------------------------
(* handle_get: split_on_bytes_and_send *)

Whole(p) == {Archive} \cup UNION {tree[p \o <<n>>] : n \in Children(p)}

(* compress_folder opens the archive, beside the folder, for writing, and  *)
(* lists the folder ...                                                    *)
Compress(r) ==
    /\ pc[r] = "zip"
    /\ LET z == Here(r, ZipOf(Target[r])) IN
         IF IsDir(Front(z)) /\ ~ IsDir(z)
           THEN /\ Change(r, [tree EXCEPT ![z] = {}])
                /\ src' = [src EXCEPT ![r] = ZipOf(Target[r])]
                /\ dst' = [dst EXCEPT ![r] = z]
                /\ entries' = [entries EXCEPT ![r] = Children(Here(r, Target[r]))]
                /\ GoTo(r, "pack") /\ UNCHANGED <<answer, excused>>
           ELSE Fail(r) /\ UNCHANGED <<src, dst, entries>>
    /\ UNCHANGED <<cwd, savePath, solved, crossed, sized, served, there, listed>>

(* ... adds what it listed, also when the archive was removed meanwhile,   *)
(* and fails if a file is gone ...                                         *)
Into(z, parts) == IF IsFile(z) THEN [tree EXCEPT ![z] = @ \cup parts] ELSE tree

Pack(r) ==
    /\ pc[r] = "pack"
    /\ \E n \in entries[r] :
         LET p == Here(r, Target[r] \o <<n>>) IN
         /\ entries' = [entries EXCEPT ![r] = @ \ {n}]
         /\ IF IsFile(p)
              THEN /\ Change(r, Into(dst[r], tree[p]))
                   /\ UNCHANGED <<pc, answer, excused>>
              ELSE /\ GoTo(r, "end") /\ NoChange
                   /\ answer' = [answer EXCEPT ![r] = "internal"]
                   /\ excused' = excused \cup {r}
    /\ UNCHANGED <<cwd, savePath, src, dst, solved, crossed, sized, served,
                   there, listed>>

(* ... and completes it. *)
Packed(r) ==
    /\ pc[r] = "pack" /\ entries[r] = {}
    /\ Change(r, Into(dst[r], {Archive}))
    /\ GoTo(r, "size")
    /\ UNCHANGED <<cwd, savePath, src, dst, entries, answer, history>>

(* What is sent is the file or, if a folder was found, its archive. *)
Zipped(r) == src[r] # Target[r]

(* get_total_packets *)
Size(r) ==
    /\ pc[r] = "size"
    /\ LET p == Here(r, src[r]) IN
         IF IsFile(p)
           THEN /\ sized' = [sized EXCEPT ![r] = tree[p]]
                /\ GoTo(r, "open") /\ UNCHANGED <<answer, excused>>
           ELSE Finish(r, "internal") /\ sized' = sized
    /\ NoChange
    /\ UNCHANGED <<cwd, savePath, src, dst, entries, solved, crossed, served,
                   there, listed>>

(* split_on_packets opens the file when its first block is asked for. *)
Open(r) ==
    /\ pc[r] = "open"
    /\ LET p == Here(r, src[r]) IN
         IF IsFile(p)
           THEN /\ served' = [served EXCEPT ![r] = tree[p]]
                /\ GoTo(r, "send") /\ UNCHANGED <<answer, excused>>
           ELSE Finish(r, "internal") /\ served' = served
    /\ NoChange
    /\ UNCHANGED <<cwd, savePath, src, dst, entries, solved, crossed, sized,
                   there, listed>>

(* The transfer fails: the loop returns at once. *)
SendFails(r) ==
    /\ pc[r] = "send"
    /\ GoTo(r, "end")
    /\ excused' = excused \cup {r}
    /\ NoChange
    /\ UNCHANGED <<cwd, savePath, src, dst, entries, answer, solved, crossed,
                   sized, served, there, listed>>

(* It ends: the archive is deleted, by its relative path. *)
Without_Archive(t, p) == t
Without(t, p) == IF p \in Path /\ t[p] \notin {Absent, Dir} THEN [t EXCEPT ![p] = Absent] ELSE t

SendEnds(r) ==
    /\ pc[r] = "send"
    /\ IF Zipped(r) THEN Change(r, Without(tree, Here(r, src[r]))) ELSE NoChange
    /\ Finish(r, "content")
    /\ UNCHANGED <<cwd, savePath, src, dst, entries, solved, crossed, sized,
                   served, there, listed>>

Get(r) == Compress(r) \/ Pack(r) \/ Packed(r) \/ Size(r) \/ Open(r) \/ SendFails(r) \/ SendEnds(r)

-----------------------------------------------------------------------------
(* handle_put, and handle_response for the one block of the upload *)

SavePath(r) ==
    /\ pc[r] = "save"
    /\ savePath' = IF IsDir(Here(r, Arg[r])) THEN [savePath EXCEPT ![Server[r]] = Arg[r]]
                                            ELSE savePath
    /\ GoTo(r, "conflict")
    /\ NoChange
    /\ UNCHANGED <<cwd, src, dst, entries, answer, history>>

(* Upload path and name are put together without a separator. *)
Conflict(r) ==
    /\ pc[r] = "conflict"
    /\ Finish(r, IF Exists(Here(r, <<Glued[<<Arg[r], Base(r)>>]>>)) THEN "conflict" ELSE None)
    /\ NoChange
    /\ UNCHANGED <<cwd, savePath, src, dst, entries, solved, crossed, sized,
                   served, there, listed>>

(* The assembler, under its lock: an older file of that name in the        *)
(* current directory is deleted, the block appended in the save path.      *)
Write(r) ==
    /\ pc[r] = "write"
    /\ LET place == Here(r, (IF savePath[Server[r]] = None THEN Root
                             ELSE savePath[Server[r]]) \o Base(r))
           old == IF IsFile(place) THEN tree[place] ELSE {}
           cleared == Without(tree, Here(r, Base(r)))
           kept == IF place = Here(r, Base(r)) THEN {} ELSE old
       IN IF IsDir(Front(place)) /\ ~ IsDir(place)
            THEN /\ Change(r, [cleared EXCEPT ![place] = kept \cup {r}])
                 /\ savePath' = [savePath EXCEPT ![Server[r]] = None]
                 /\ Finish(r, None)
            ELSE Change(r, cleared) /\ Finish(r, "internal") /\ savePath' = savePath
    /\ UNCHANGED <<cwd, src, dst, entries, solved, crossed, sized, served,
                   there, listed>>

Upload(r) == SavePath(r) \/ Conflict(r) \/ Write(r)

-----------------------------------------------------------------------------
(* handle_fetch: os.walk over the absolute path, all of it before the      *)
(* first path is sent                                                      *)

Subfolders_None(p) == {}
Subfolders(p) == {n \in Children(p) : IsDir(p \o <<n>>)}

Walk(r) ==
    /\ pc[r] = "walk"
    /\ there' = [there EXCEPT ![r] = {p \in Path : Exists(p)}]
    /\ touched' = [touched EXCEPT ![r] = {}]
    /\ listed' = [listed EXCEPT ![r] = {<<n>> : n \in Children(Root)}]
    /\ entries' = [entries EXCEPT ![r] = Subfolders(Root)]
    /\ GoTo(r, "descend")
    /\ UNCHANGED <<tree, cwd, savePath, src, dst, answer, changed, solved,
                   crossed, sized, served, excused>>

Descend(r) ==
    /\ pc[r] = "descend"
    /\ \E f \in entries[r] :
         /\ listed' = [listed EXCEPT ![r] = @ \cup {<<f, n>> : n \in Children(<<f>>)}]
         /\ entries' = [entries EXCEPT ![r] = @ \ {f}]
    /\ NoChange
    /\ UNCHANGED <<cwd, savePath, pc, src, dst, answer, solved, crossed, sized,
                   served, there, excused>>

WalkEnds(r) ==
    /\ pc[r] = "descend" /\ entries[r] = {}
    /\ Finish(r, "content")
    /\ NoChange
    /\ UNCHANGED <<cwd, savePath, src, dst, entries, solved, crossed, sized,
                   served, there, listed>>

Fetch(r) == Walk(r) \/ Descend(r) \/ WalkEnds(r)

-----------------------------------------------------------------------------
Solve(r) == \/ Test(r) \/ Enter(r) \/ PlaceIn(r) \/ Rename(r)
            \/ RemoveFile(r) \/ Rmtree(r) \/ Sweep(r) \/ Rmdir(r)
            \/ Get(r) \/ Upload(r) \/ Fetch(r)

Next == \E r \in Request : Begin(r) \/ Solve(r)

Spec == Init /\ [][Next]_vars

-----------------------------------------------------------------------------
(* Properties *)

(* Files lie in folders that exist, the workers are at steps they have.    *)
TypeOK ==
    /\ \A p \in Path : Exists(p) => IsDir(Front(p))
    /\ cwd \in [Process -> Path \cup {Root}]
    /\ \A q \in Process : savePath[q] = None \/ savePath[q] \in Path
    /\ \A r \in Request : entries[r] \subseteq Name
    /\ solved \in 0 .. MaxSolved

(* The paths a request names, those its handler needs beside them included.*)
(* A block names no folder: it goes where an upload of its client may go.  *)
IsFolder(r) == Target[r] \in {<<f>> : f \in Folder}
Announced(r) == {u \in Request : Kind[u] = "put" /\ Server[u] = Server[r]}
Goal(r) == CASE Kind[r] = "rename" -> {Front(Target[r]) \o Arg[r]}
             [] Kind[r] = "move"   -> {Arg[r], Arg[r] \o Base(r)}
             [] OTHER              -> {}
Named(r) == CASE Kind[r] \in {"rename", "move"} -> {Target[r]} \cup Goal(r)
              [] Kind[r] = "delete" -> {Target[r]} \cup {Target[r] \o <<n>> : n \in Name}
              [] Kind[r] = "block"  -> {Base(r)} \cup {Arg[u] \o Base(r) : u \in Announced(r)}
              [] Kind[r] = "get" /\ IsFolder(r) -> {ZipOf(Target[r])}
              [] OTHER              -> {}

(* A handler changes only what its request names, although the files it    *)
(* names are relative to a directory that all workers of the process set   *)
(* (server_resource.py:76-90, 148-155, 209-211), unless another worker     *)
(* entered a folder to rename in it (line 82), or changed the directory    *)
(* while this one was in such a folder.                                    *)
TouchesNamed == \A r \in Request : changed[r] \subseteq Named(r) \/ Diverted(r)

(* What goes out is the file, or the whole folder, that the GET names, and *)
(* its announced size is that of what goes out, unless the worker was      *)
(* diverted or somebody changed that file or folder since the GET began    *)
(* (server_resource.py:46-52, drive_spliter.py:44-56).                     *)
Reads(r) == {src[r], Target[r]} \cup {Target[r] \o <<n>> : n \in Name}
ServesNamed == \A r \in Request :
    pc[r] = "send" /\ ~ Diverted(r) /\ touched[r] \cap Reads(r) = {} =>
        /\ served[r] = IF Zipped(r) THEN Whole(Target[r]) ELSE tree[Target[r]]
        /\ sized[r] = served[r]

(* The answer tells the client what happened: a success means that the     *)
(* named file is where it was asked to be, a refusal that nothing was      *)
(* changed, but for a folder that was deleted in part.  It is so while     *)
(* nobody touches these paths after, and unless the worker was diverted.   *)
Done(r) == IF Kind[r] = "delete"
             THEN ~ Exists(Target[r]) /\ Children(Target[r]) = {}
             ELSE \E p \in Goal(r) : IsFile(p) /\ (p = Target[r] \/ ~ Exists(Target[r]))
AnswersTruly == \A r \in Request :
    (pc[r] = "end" /\ Kind[r] \in {"rename", "move", "delete"} /\ ~ Diverted(r)) =>
       IF answer[r] \in {"changed", "deleted"}
         THEN touched[r] \cap Named(r) # {} \/ Done(r)
         ELSE changed[r] = {} \/ (Kind[r] = "delete" /\ IsFolder(r))

(* No archive stays in the shared folder, where a FETCH would list it,     *)
(* whatever copies of a GET are solved beside each other, but after a      *)
(* transfer that failed (drive_spliter.py:79-81 return before line 96), a  *)
(* folder of which a file went while it was zipped, or a diverted worker.  *)
ArchivesRemoved ==
    (\A r \in Request : ~ Working(r)) =>
        \A f \in Folder : Exists(ZipOf(<<f>>)) =>
            \E r \in excused : Kind[r] = "get" /\ Target[r] = <<f>>

(* What the theorem about it supposes: no file gets the name of an archive *)
(* in another way than by a GET, be it there before, uploaded, renamed or  *)
(* moved.                                                                  *)
ZipNames == {ZipName[f] : f \in Folder}
ArchivesUnnamed ==
    /\ \A f, g \in Folder : ZipName[f] = ZipName[g] => f = g
    /\ \A f \in Folder : Tree[ZipOf(<<f>>)] = Absent
    /\ \A r \in Request : Kind[r] \in {"rename", "move", "block"} =>
                              Last(Arg[r]) \notin ZipNames /\ Last(Target[r]) \notin ZipNames

(* The list a client gets is right about each path nobody touched during   *)
(* the walk, although the walk is not one step (drive_utils.py:133-145).   *)
ListsUntouched == \A r \in Request :
    Kind[r] = "fetch" /\ pc[r] = "end" =>
        \A p \in Path \ touched[r] : p \in listed[r] <=> p \in there[r]

=============================================================================
