------------------------ MODULE ServerResourceProofs ------------------------
(***************************************************************************)
(* Proofs about ServerResource, for any requests of any number of clients, *)
(* any tree of files and any number of solvings.                           *)
(***************************************************************************)
EXTENDS ServerResource, SequenceTheorems, TLAPS

Folders == {<<f>> : f \in Folder}

(* The files make a tree: what is not a folder has no children, and what   *)
(* is in a folder has a folder that is there.                              *)
Content == {Absent, Dir} \cup SUBSET Part
IsTree(t) ==
    /\ t \in [Path -> Content]
    /\ \A p \in Path : t[p] = Dir => p \in Folders
    /\ \A p \in Path : t[p] # Absent => Front(p) = Root \/ t[Front(p)] = Dir

-----------------------------------------------------------------------------
(* Paths *)

(* Paths of one name and of two                                            *)
LEMMA ShortPaths ==
    ASSUME NEW f \in Name, NEW n \in Name
    PROVE  /\ <<n>> \in Seq(Name) /\ <<f, n>> \in Seq(Name)
           /\ Front(<<n>>) = <<>> /\ Last(<<n>>) = n
           /\ Front(<<f, n>>) = <<f>> /\ Last(<<f, n>>) = n
           /\ <<>> \o <<n>> = <<n>> /\ <<f>> \o <<n>> = <<f, n>>
           /\ <<>> \o <<f, n>> = <<f, n>>
<1>1. \A s, t \in Seq(Name) :
         Len(s) = Len(t) /\ (\A i \in 1 .. Len(s) : s[i] = t[i]) => s = t
  BY SeqEqual
<1>2. Front(<<f, n>>) = <<f>>
  <2>1. Front(<<f, n>>) \in Seq(Name) /\ <<f>> \in Seq(Name)
    BY DEF Front
  <2>2. Len(Front(<<f, n>>)) = 1 /\ Front(<<f, n>>)[1] = f
    BY DEF Front
  <2> QED BY <1>1, <2>1, <2>2
<1>3. <<f>> \o <<n>> = <<f, n>>
  <2> DEFINE c == <<f>> \o <<n>>
             t == <<f, n>>
  <2>1. c \in Seq(Name) /\ t \in Seq(Name)
    OBVIOUS
  <2>2. Len(c) = 2 /\ c[1] = f /\ c[2] = n
    OBVIOUS
  <2>3. Len(t) = 2 /\ t[1] = f /\ t[2] = n
    OBVIOUS
  <2> HIDE DEF c, t
  <2> SUFFICES c = t
    BY DEF c, t
  <2> QED BY <1>1, <2>1, <2>2, <2>3
<1>4. Front(<<n>>) = <<>>
  BY DEF Front
<1>5. /\ <<n>> \in Seq(Name) /\ <<f, n>> \in Seq(Name)
      /\ Last(<<n>>) = n /\ Last(<<f, n>>) = n
  BY DEF Last
<1>6. <<>> \o <<n>> = <<n>> /\ <<>> \o <<f, n>> = <<f, n>>
  BY <1>5, ConcatEmptySeq
<1> QED BY <1>2, <1>3, <1>4, <1>5, <1>6

(* What a path is made of: a folder or the root, and a base name.          *)
LEMMA PathFacts ==
    ASSUME NEW p \in Path
    PROVE  /\ p \in Seq(Name) /\ Len(p) \in {1, 2} /\ p # Root
           /\ Last(p) \in Name
           /\ Front(p) \in {Root} \cup Folders
           /\ Len(p) = 1 <=> Front(p) = Root
           /\ p = Front(p) \o <<Last(p)>>
           /\ Root \o p = p
<1>0. Folder \subseteq Name
  BY ResourceAssumption
<1>1. ASSUME NEW n \in Name, p = <<n>>
      PROVE  /\ p \in Seq(Name) /\ Len(p) = 1
             /\ Front(p) = Root /\ Last(p) = n
             /\ p = Front(p) \o <<Last(p)>>
             /\ Root \o p = p
  BY <1>1, ShortPaths DEF Root
<1>2. ASSUME NEW f \in Folder, NEW n \in Name, p = <<f, n>>
      PROVE  /\ p \in Seq(Name) /\ Len(p) = 2
             /\ Front(p) = <<f>> /\ Last(p) = n
             /\ p = Front(p) \o <<Last(p)>>
             /\ Root \o p = p
  BY <1>0, <1>2, ShortPaths DEF Root
<1>3. \A f \in Folder : <<f>> # Root
  BY DEF Root
<1>4. Root # p
  BY DEF Root, Path
<1> QED BY <1>1, <1>2, <1>3, <1>4 DEF Path, Folders

(* A base name in a folder, or in the root, makes a path.                  *)
LEMMA JoinFacts ==
    ASSUME NEW d \in {Root} \cup Folders, NEW n \in Name
    PROVE  /\ d \o <<n>> \in Path
           /\ Front(d \o <<n>>) = d /\ Last(d \o <<n>>) = n
<1>0. Folder \subseteq Name
  BY ResourceAssumption
<1>1. CASE d = Root
  <2>1. /\ <<>> \o <<n>> = <<n>>
        /\ Front(<<n>>) = <<>> /\ Last(<<n>>) = n
    BY ShortPaths
  <2>2. d = <<>>
    BY <1>1 DEF Root
  <2> QED BY <2>1, <2>2 DEF Path
<1>2. ASSUME NEW f \in Folder, d = <<f>>
      PROVE  /\ d \o <<n>> \in Path
             /\ Front(d \o <<n>>) = d /\ Last(d \o <<n>>) = n
  <2>1. /\ <<f>> \o <<n>> = <<f, n>>
        /\ Front(<<f, n>>) = <<f>> /\ Last(<<f, n>>) = n
    BY <1>0, ShortPaths
  <2>2. <<f, n>> \in Path
    BY DEF Path
  <2> QED BY <1>2, <2>1, <2>2
<1> QED BY <1>1, <1>2 DEF Folders

(* The folders are paths themselves, in the root.                          *)
LEMMA FolderFacts ==
    ASSUME NEW d \in Folders
    PROVE  d \in Path /\ d # Root /\ Front(d) = Root /\ Len(d) = 1
<1>1. PICK f \in Folder : d = <<f>>
  BY DEF Folders
<1>2. f \in Name
  BY ResourceAssumption
<1> QED BY <1>1, <1>2 DEF Path, Root, Front

(* A sequence of names whose front is a folder, or the root, is a path.    *)
LEMMA FrontMakesPath ==
    ASSUME NEW p \in Seq(Name), p # Root, Front(p) \in {Root} \cup Folders
    PROVE  p \in Path /\ Last(p) \in Name /\ p = Front(p) \o <<Last(p)>>
<1>1. Len(p) \in Nat /\ Len(p) # 0
  BY DEF Root
<1>2. Last(p) \in Name
  BY <1>1 DEF Last
<1>3. p = Front(p) \o <<Last(p)>>
  BY <1>1, <1>2 DEF Front, Last
<1> QED BY <1>2, <1>3, JoinFacts

(* A path means another one below a current directory, the same below the  *)
(* root, and it means a folder only if it is one and below the root.       *)
LEMMA BelowFacts ==
    ASSUME NEW d \in {Root} \cup Folders, NEW p \in Seq(Name), p # Root
    PROVE  /\ d \o p \in Seq(Name) /\ d \o p # Root
           /\ d = Root => d \o p = p
           /\ d \o p \in Folders => d = Root
           /\ Front(d \o p) \in {Root} \cup Folders => d \o p \in Path
<1>0. Folder \subseteq Name
  BY ResourceAssumption
<1>1. d \in Seq(Name) /\ Len(d) \in Nat /\ (Len(d) = 0 <=> d = Root)
  <2>1. CASE d = Root
    <3>1. <<>> \in Seq(Name) /\ Len(<<>>) = 0
      OBVIOUS
    <3> QED BY <2>1, <3>1 DEF Root
  <2>2. CASE d \in Folders
    <3>1. d \in Path /\ d # Root /\ Len(d) = 1
      BY <2>2, FolderFacts
    <3>2. d \in Seq(Name)
      BY <3>1, PathFacts
    <3> QED BY <3>1, <3>2
  <2> QED BY <2>1, <2>2
<1>2. d \o p \in Seq(Name) /\ Len(d \o p) = Len(d) + Len(p)
  BY <1>1, ConcatProperties
<1>3. Len(p) \in Nat \ {0}
  BY DEF Root
<1>4. d \o p # Root
  BY <1>1, <1>2, <1>3 DEF Root
<1>5. d \o p \in Folders => d = Root
  <2>1. d \o p \in Folders => Len(d \o p) = 1
    BY FolderFacts
  <2> QED BY <1>1, <1>2, <1>3, <2>1
<1>6. d = Root => d \o p = p
  BY ConcatEmptySeq DEF Root
<1> HIDE DEF Root
<1>7. Front(d \o p) \in {Root} \cup Folders => d \o p \in Path
  BY <1>2, <1>4, FrontMakesPath
<1> QED BY <1>2, <1>4, <1>5, <1>6, <1>7

-----------------------------------------------------------------------------
(* Trees *)

(* Content is a folder, a file, or nothing, and one of them only.          *)
LEMMA ContentFacts ==
    /\ Absent \in Content /\ Absent # Dir
    /\ \A S \in SUBSET Part : S \in Content /\ S # Dir /\ S # Absent
    /\ \A c \in Content : c # Dir /\ c # Absent => c \in SUBSET Part
BY ContentAssumption DEF Content

(* A file is put where no folder is, in a folder or the root, or removed.  *)
LEMMA PutFile ==
    ASSUME NEW t, IsTree(t), NEW p \in Path, t[p] # Dir, NEW c \in Content, c # Dir,
           c = Absent \/ Front(p) = Root \/ t[Front(p)] = Dir
    PROVE  /\ IsTree([t EXCEPT ![p] = c])
           /\ \A q \in Path : [t EXCEPT ![p] = c][q] = Dir <=> t[q] = Dir
<1> DEFINE u == [t EXCEPT ![p] = c]
<1>1. u \in [Path -> Content] /\ \A q \in Path : u[q] = IF q = p THEN c ELSE t[q]
  BY DEF IsTree
<1>2. \A q \in Path : u[q] = Dir <=> t[q] = Dir
  BY <1>1
<1>3. \A q \in Path : Front(q) = Root \/ Front(q) \in Path
  BY PathFacts, FolderFacts
<1> HIDE DEF u
<1>4. IsTree(u)
  BY <1>1, <1>2, <1>3, ContentFacts DEF IsTree
<1> QED BY <1>2, <1>4 DEF u

(* An empty folder is removed.                                             *)
LEMMA RemoveFolder ==
    ASSUME NEW t, IsTree(t), NEW d \in Folders,
           \A n \in Name : t[d \o <<n>>] = Absent
    PROVE  IsTree([t EXCEPT ![d] = Absent])
<1> DEFINE u == [t EXCEPT ![d] = Absent]
<1>0. d \in Path
  BY FolderFacts
<1>1. u \in [Path -> Content] /\ \A q \in Path : u[q] = IF q = d THEN Absent ELSE t[q]
  BY <1>0, ContentFacts DEF IsTree
<1>2. \A q \in Path : Front(q) = d => t[q] = Absent
  BY PathFacts
<1>3. \A q \in Path : Front(q) = Root \/ Front(q) \in Path
  BY PathFacts, FolderFacts
<1> HIDE DEF u
<1>4. IsTree(u)
  BY <1>0, <1>1, <1>2, <1>3, ContentFacts DEF IsTree
<1> QED BY <1>4 DEF u

(* What is there is in the tree: folders are its folders, files are files, *)
(* and what is named below a folder that is there is a path.               *)
LEMMA TreeFacts ==
    ASSUME IsTree(tree), NEW p
    PROVE  /\ IsDir(p) => p \in {Root} \cup Folders
           /\ IsFile(p) => p \in Path /\ tree[p] \in SUBSET Part /\ tree[p] # Dir
                           /\ tree[p] # Absent
           /\ IsDir(p) /\ p # Root => p \in Path /\ tree[p] = Dir
           /\ p \in Path /\ ~ IsDir(p) => tree[p] # Dir
           /\ Children(p) \subseteq Name
BY ContentFacts DEF IsTree, IsDir, IsFile, Exists, Children

-----------------------------------------------------------------------------
(* The invariant *)

(* A worker is at a step of its handler.                                   *)
Steps == {"ready", "end", "test", "zip", "pack", "size", "open", "send", "enter",
          "rename", "place", "remove", "rmtree", "sweep", "save", "conflict",
          "write", "walk", "descend"}
AtOwnStep(r) ==
    /\ pc[r] = "test" => Kind[r] \in {"get", "rename", "move", "delete"}
    /\ pc[r] \in {"zip", "pack", "size", "open", "send"} => Kind[r] = "get"
    /\ pc[r] = "enter" => Kind[r] = "rename"
    /\ pc[r] = "place" => Kind[r] = "move"
    /\ pc[r] = "rename" => Kind[r] \in {"rename", "move"}
    /\ pc[r] \in {"remove", "rmtree", "sweep"} => Kind[r] = "delete"
    /\ pc[r] \in {"save", "conflict"} => Kind[r] = "put"
    /\ pc[r] = "write" => Kind[r] = "block"
    /\ pc[r] \in {"walk", "descend"} => Kind[r] = "fetch"

(* Every worker is at a step of its handler, in a directory that was one.  *)
Workers ==
    /\ cwd \in [Process -> {Root} \cup Folders]
    /\ savePath \in [Process -> Path \cup {None}]
    /\ \A q \in Process : savePath[q] = None
                           \/ \E u \in Request : Kind[u] = "put" /\ Server[u] = q
                                               /\ savePath[q] = Arg[u]
    /\ pc \in [Request -> Steps] /\ \A r \in Request : AtOwnStep(r)
    /\ src \in [Request -> Seq(Name)] /\ dst \in [Request -> Seq(Name)]
    /\ entries \in [Request -> SUBSET Name]
    /\ solved \in 0 .. MaxSolved

(* What a worker holds from one step to the next, whatever the directory   *)
(* is meanwhile                                                            *)
Held(r) ==
    /\ pc[r] \in {"enter", "rename"} /\ Kind[r] = "rename" =>
          src[r] = Base(r) /\ dst[r] = Arg[r]
    /\ pc[r] \in {"place", "rename"} /\ Kind[r] = "move" =>
          src[r] = Target[r] /\ dst[r] \in {Arg[r], Arg[r] \o Base(r)}
    /\ pc[r] = "enter" => InFolder(r)
    /\ pc[r] = "sweep" => src[r] = Target[r] /\ src[r] \in Folders
    /\ pc[r] \in {"zip", "pack"} => IsFolder(r)
    /\ pc[r] = "pack" => src[r] = ZipOf(Target[r]) /\ dst[r] \in Path
    /\ pc[r] \in {"size", "open", "send"} =>
          src[r] = Target[r] \/ (IsFolder(r) /\ src[r] = ZipOf(Target[r]))

TInv == IsTree(tree) /\ Workers /\ \A r \in Request : Held(r)

(* The directory a handler works in, unless another worker entered a       *)
(* folder, and what it has changed so far                                  *)
Course(r) ==
    /\ Working(r) /\ pc[r] # "rename" /\ "enter" \notin crossed[r]
          => cwd[Server[r]] = Root
    /\ pc[r] = "rename" /\ ~ Diverted(r)
          => cwd[Server[r]] = IF InFolder(r) THEN Front(Target[r]) ELSE Root
    /\ pc[r] \in {"test", "enter", "place", "rename"} => changed[r] = {}
    /\ pc[r] = "pack" /\ "enter" \notin crossed[r] => dst[r] = ZipOf(Target[r])
    /\ changed[r] \subseteq Named(r) \/ Diverted(r)

CInv ==
    /\ crossed \in [Request -> SUBSET {"begin", "enter"}]
    /\ changed \in [Request -> SUBSET Path]
    /\ \A r \in Request : Course(r)

(* What a walk has found so far is right about what nobody touched.        *)
Right(r, p) == p \in listed[r] <=> p \in there[r]
Listing(r) == Kind[r] = "fetch" =>
    /\ pc[r] = "descend" => \A p \in Path \ touched[r] :
          /\ p \in there[r] <=> Exists(p)
          /\ Front(p) = Root \/ Last(Front(p)) \notin entries[r] => Right(r, p)
    /\ pc[r] = "descend" => \A p \in Path :
          Front(p) # Root /\ Last(Front(p)) \in entries[r] => p \notin listed[r]
    /\ pc[r] = "end" => \A p \in Path \ touched[r] : Right(r, p)

WInv ==
    /\ touched \in [Request -> SUBSET Path] /\ there \in [Request -> SUBSET Path]
    /\ listed \in [Request -> SUBSET Seq(Name)]
    /\ \A r \in Request : Listing(r)

(* What a GET has packed, measured and opened so far is what it names, as  *)
(* long as it was not diverted and nobody changed that.                    *)
Quiet(r) == ~ Diverted(r) /\ touched[r] \cap Reads(r) = {}
Gathered(r) == UNION {tree[Target[r] \o <<n>>] : n \in Children(Target[r]) \ entries[r]}
Serving(r) == Kind[r] = "get" /\ Quiet(r) =>
    /\ pc[r] = "pack" => /\ entries[r] \subseteq Children(Target[r])
                         /\ tree[src[r]] = Gathered(r)
    /\ pc[r] \in {"size", "open", "send"} /\ Zipped(r)
          => tree[src[r]] = Whole(Target[r])
    /\ pc[r] \in {"open", "send"} => sized[r] = tree[src[r]]
    /\ pc[r] = "send" => served[r] = tree[src[r]]

VInv ==
    /\ sized \in [Request -> Content \cup {None}]
    /\ served \in [Request -> Content \cup {None}]
    /\ \A r \in Request : Serving(r)

(* What the answer says is so, as AnswersTruly wants it of one request.     *)
Truly(r) == IF answer[r] \in {"changed", "deleted"}
              THEN touched[r] \cap Named(r) # {} \/ Done(r)
              ELSE changed[r] = {} \/ (Kind[r] = "delete" /\ IsFolder(r))
Answering(r) == Kind[r] \in {"rename", "move", "delete"} =>
    /\ pc[r] \in {"remove", "rmtree"} => changed[r] = {}
    /\ pc[r] = "end" /\ ~ Diverted(r) => Truly(r)

Answers == {None, "internal", "not_found", "bad_request", "changed", "deleted",
            "content", "conflict"}
AInv == answer \in [Request -> Answers] /\ \A r \in Request : Answering(r)

(* An archive that is there has a worker that is going to delete it, or    *)
(* one that is excused.                                                    *)
Archiving(f, r) ==
    /\ Kind[r] = "get" /\ Target[r] = <<f>> /\ src[r] = ZipOf(<<f>>)
    /\ pc[r] \in {"pack", "size", "open", "send"}
Excused(f, r) == r \in excused /\ Kind[r] = "get" /\ Target[r] = <<f>>

ZInv == \A f \in Folder :
    /\ tree[ZipOf(<<f>>)] # Dir
    /\ Exists(ZipOf(<<f>>)) => \E r \in Request : Archiving(f, r) \/ Excused(f, r)

(* The words a request is made of (server_resource.py:46-90).              *)
LEMMA RequestFacts ==
    ASSUME NEW r \in Request
    PROVE  /\ Kind[r] \in Kinds /\ Server[r] \in Process
           /\ Arg[r] \in Path
           /\ Kind[r] # "fetch" =>
                 /\ Target[r] \in Path /\ Base(r) = <<Last(Target[r])>>
                 /\ Last(Target[r]) \in Name
                 /\ Base(r) \in Path /\ Target[r] = Front(Target[r]) \o Base(r)
                 /\ Front(Target[r]) \in {Root} \cup Folders
                 /\ InFolder(r) <=> Kind[r] = "rename" /\ Front(Target[r]) # Root
<1>1. /\ Kind[r] \in Kinds /\ Server[r] \in Process
      /\ Arg[r] \in Path
      /\ Kind[r] # "fetch" => Target[r] \in Path
  BY ResourceAssumption
<1>2. ASSUME Kind[r] # "fetch"
      PROVE  /\ Last(Target[r]) \in Name
             /\ Target[r] = Front(Target[r]) \o <<Last(Target[r])>>
             /\ Front(Target[r]) \in {Root} \cup Folders
             /\ Len(Target[r]) \in {1, 2} /\ (Len(Target[r]) = 1 <=> Front(Target[r]) = Root)
  BY <1>1, <1>2, PathFacts
<1>3. Kind[r] # "fetch" => <<Last(Target[r])>> \in Path
  BY <1>2 DEF Path
<1> QED BY <1>1, <1>2, <1>3 DEF Base, InFolder

(* The archive of a folder is named beside it (drive_utils.py:86).         *)
LEMMA ZipFacts ==
    ASSUME NEW p \in Folders
    PROVE  /\ ZipOf(p) \in Path /\ Front(ZipOf(p)) = Root
<1>1. PICK f \in Folder : p = <<f>>
  BY DEF Folders
<1>2. f \in Name /\ ZipName[f] \in Name
  BY ResourceAssumption
<1>3. Front(p) = <<>> /\ Last(p) = f
  BY <1>1, <1>2, ShortPaths
<1>4. ZipOf(p) = Root \o <<ZipName[f]>>
  BY <1>3 DEF ZipOf, Root
<1> QED BY <1>2, <1>4, JoinFacts

(* What a request's relative path means (server_resource.py:42, 76-82).    *)
LEMMA HereFacts ==
    ASSUME Workers, NEW r \in Request, NEW p \in Seq(Name), p # Root
    PROVE  /\ Here(r, p) = cwd[Server[r]] \o p
           /\ Here(r, p) \in Seq(Name) /\ Here(r, p) # Root
           /\ cwd[Server[r]] = Root => Here(r, p) = p
           /\ Here(r, p) \in Folders => cwd[Server[r]] = Root /\ Here(r, p) = p
           /\ Front(Here(r, p)) \in {Root} \cup Folders => Here(r, p) \in Path
<1>1. Server[r] \in Process
  BY RequestFacts
<1>2. cwd[Server[r]] \in {Root} \cup Folders
  BY <1>1 DEF Workers
<1> QED BY <1>2, BelowFacts DEF Here

-----------------------------------------------------------------------------
(* Types *)

(* The first step of each handler                                          *)
LEMMA FirstSteps ==
    /\ FirstStep["get"] = "test" /\ FirstStep["rename"] = "test"
    /\ FirstStep["move"] = "test" /\ FirstStep["delete"] = "test"
    /\ FirstStep["put"] = "save" /\ FirstStep["block"] = "write"
    /\ FirstStep["fetch"] = "walk"
BY DEF FirstStep

(* A step of a worker leaves the others where they are.                    *)
LEMMA OthersStay ==
    ASSUME Workers, NEW r \in Request, Begin(r) \/ Solve(r),
           NEW s \in Request, s # r
    PROVE  /\ pc'[s] = pc[s] /\ src'[s] = src[s] /\ dst'[s] = dst[s]
           /\ entries'[s] = entries[s]
<1>0. /\ pc \in [Request -> Steps] /\ entries \in [Request -> SUBSET Name]
      /\ src \in [Request -> Seq(Name)] /\ dst \in [Request -> Seq(Name)]
  BY DEF Workers
<1> USE <1>0 DEF GoTo, Finish, Fail
<1>1. CASE Begin(r) \/ Test(r) \/ Enter(r) \/ PlaceIn(r) \/ Rename(r)
  BY <1>1 DEF Begin, Test, Enter, PlaceIn, Rename
<1>2. CASE RemoveFile(r) \/ Rmtree(r) \/ Rmdir(r)
  BY <1>2 DEF RemoveFile, Rmtree, Rmdir
<1>3. CASE Sweep(r)
  BY <1>3 DEF Sweep
<1>4. CASE Compress(r) \/ Packed(r)
  BY <1>4 DEF Compress, Packed
<1>5. CASE Pack(r)
  BY <1>5 DEF Pack
<1>6. CASE Size(r) \/ Open(r) \/ SendFails(r) \/ SendEnds(r)
  BY <1>6 DEF Size, Open, SendFails, SendEnds
<1>7. CASE Upload(r)
  BY <1>7 DEF Upload, SavePath, Conflict, Write
<1>8. CASE Fetch(r)
  BY <1>8 DEF Fetch, Walk, Descend, WalkEnds
<1> QED BY <1>1, <1>2, <1>3, <1>4, <1>5, <1>6, <1>7, <1>8 DEF Solve, Get

(* What a worker holds depends on nothing another one sets.                *)
LEMMA OthersHold ==
    ASSUME Workers, NEW r \in Request, Begin(r) \/ Solve(r),
           NEW s \in Request, s # r
    PROVE  /\ Held(s) => Held(s)'
           /\ AtOwnStep(s)'
BY OthersStay DEF Held, AtOwnStep, Workers

(* A handler begins at its first step, in the resource's folder            *)
(* (server_resource.py:42, 76, 118, 148, 178, 209).                        *)
LEMMA StartTypes ==
    ASSUME TInv, NEW r \in Request, Begin(r)
    PROVE  Workers' /\ Held(r)' /\ tree' = tree
<1>0. Server[r] \in Process /\ Kind[r] \in Kinds /\ pc \in [Request -> Steps]
      /\ Workers
  BY RequestFacts DEF TInv, Workers
<1>1. /\ pc' = [pc EXCEPT ![r] = FirstStep[Kind[r]]]
      /\ cwd' = [cwd EXCEPT ![Server[r]] = Root]
      /\ solved < MaxSolved /\ solved' = solved + 1
      /\ UNCHANGED <<tree, savePath, src, dst, entries>>
  BY DEF Begin, Chdir, GoTo, Home
<1>2. /\ pc'[r] \in {"test", "save", "write", "walk"} /\ pc' \in [Request -> Steps]
      /\ AtOwnStep(r)'
  BY <1>0, <1>1, FirstSteps DEF Kinds, Steps, AtOwnStep
<1>3. Held(r)'
  BY <1>2 DEF Held
<1>4. \A s \in Request : AtOwnStep(s)'
  BY <1>0, <1>2, OthersHold
<1>5. MaxSolved \in Nat
  BY ResourceAssumption
<1>6. cwd' \in [Process -> {Root} \cup Folders] /\ solved' \in 0 .. MaxSolved
  BY <1>0, <1>1, <1>5 DEF Workers
<1>7. /\ savePath' = savePath /\ src' = src /\ dst' = dst /\ entries' = entries
      /\ tree' = tree
  BY <1>1
<1> QED BY <1>0, <1>2, <1>3, <1>4, <1>6, <1>7 DEF Workers

(* What is to be shown of a step of a handler                              *)
LEMMA StepTypes ==
    ASSUME TInv, NEW r \in Request, Solve(r),
           pc' \in [Request -> Steps], AtOwnStep(r)', Held(r)', IsTree(tree)',
           cwd' \in [Process -> {Root} \cup Folders],
           savePath' = savePath \/
               (Kind[r] = "put" /\ savePath' = [savePath EXCEPT ![Server[r]] = Arg[r]]) \/
               savePath' = [savePath EXCEPT ![Server[r]] = None],
           src' \in [Request -> Seq(Name)], dst' \in [Request -> Seq(Name)],
           entries' \in [Request -> SUBSET Name], solved' = solved
    PROVE  TInv'
<1>1. Workers /\ Server[r] \in Process /\ Arg[r] \in Path
  BY RequestFacts DEF TInv
<1>2. \A s \in Request : AtOwnStep(s)' /\ Held(s)'
  BY <1>1, OthersHold DEF TInv
<1>3. savePath' \in [Process -> Path \cup {None}]
  BY <1>1 DEF Workers
<1>4. ASSUME NEW q \in Process
      PROVE  savePath'[q] = None \/ \E u \in Request : Kind[u] = "put" /\ Server[u] = q
                                               /\ savePath'[q] = Arg[u]
  <2>1. \/ savePath'[q] = savePath[q]
        \/ savePath'[q] = None
        \/ Kind[r] = "put" /\ Server[r] = q /\ savePath'[q] = Arg[r]
    BY <1>1 DEF Workers
  <2>2. savePath[q] = None \/ \E u \in Request : Kind[u] = "put" /\ Server[u] = q
                                               /\ savePath[q] = Arg[u]
    BY <1>1 DEF Workers
  <2> QED BY <2>1, <2>2
<1>5. Workers'
  BY <1>1, <1>2, <1>3, <1>4 DEF Workers
<1> QED BY <1>2, <1>5 DEF TInv

(* Arguments and base names are sequences of names.                        *)
LEMMA WordTypes ==
    ASSUME NEW r \in Request, Kind[r] # "fetch"
    PROVE  /\ Target[r] \in Seq(Name) /\ Target[r] # Root
           /\ Base(r) \in Seq(Name) /\ Base(r) # Root
           /\ Arg[r] \in Seq(Name) /\ Arg[r] # Root
           /\ Arg[r] \o Base(r) \in Seq(Name) /\ Arg[r] \o Base(r) # Root
<1>1. Target[r] \in Path /\ Base(r) \in Path /\ Arg[r] \in Path
  BY RequestFacts
<1>2. /\ Target[r] \in Seq(Name) /\ Target[r] # Root
      /\ Base(r) \in Seq(Name) /\ Base(r) # Root
      /\ Arg[r] \in Seq(Name) /\ Arg[r] # Root
  BY <1>1, PathFacts
<1>3. /\ Arg[r] \o Base(r) \in Seq(Name)
      /\ Arg[r] \o Base(r) = <<>> <=> Arg[r] = <<>> /\ Base(r) = <<>>
  BY <1>2, ConcatProperties, ConcatEqualIffEmpty
<1> QED BY <1>2, <1>3 DEF Root

(* A folder that is found under a request's path is that path's own.       *)
LEMMA FoundFolder ==
    ASSUME IsTree(tree), Workers, NEW r \in Request, NEW p \in Seq(Name), p # Root,
           IsDir(Here(r, p))
    PROVE  /\ cwd[Server[r]] = Root /\ Here(r, p) = p /\ p \in Folders
           /\ tree[p] = Dir
<1>1. Here(r, p) # Root
  BY HereFacts
<1>2. Here(r, p) \in Folders /\ tree[Here(r, p)] = Dir
  BY <1>1, TreeFacts
<1> QED BY <1>2, HereFacts

(* The test for the path leads to a step of the handler                    *)
(* (server_resource.py:43-52, 78-88, 150-154).                             *)
LEMMA TestTypes ==
    ASSUME TInv, NEW r \in Request, Test(r)
    PROVE  TInv'
<1> DEFINE p == Here(r, Target[r])
<1>1. Workers /\ IsTree(tree) /\ Kind[r] \in {"get", "rename", "move", "delete"}
  BY DEF TInv, Workers, AtOwnStep, Test
<1>2. /\ cwd' = cwd /\ savePath' = savePath /\ entries' = entries
      /\ solved' = solved /\ tree' = tree
      /\ src' = [src EXCEPT ![r] = IF Kind[r] = "rename" THEN Base(r) ELSE Target[r]]
      /\ dst' = [dst EXCEPT ![r] = Arg[r]]
  BY DEF Test, NoChange
<1>3. \/ pc' = [pc EXCEPT ![r] = "end"]
      \/ Kind[r] = "get" /\ pc' = [pc EXCEPT ![r] = "zip"] /\ IsDir(p)
      \/ Kind[r] = "get" /\ pc' = [pc EXCEPT ![r] = "size"]
      \/ Kind[r] = "rename" /\ pc' = [pc EXCEPT ![r] = "enter"] /\ InFolder(r)
      \/ Kind[r] = "rename" /\ pc' = [pc EXCEPT ![r] = "rename"]
      \/ Kind[r] = "move" /\ pc' = [pc EXCEPT ![r] = "place"]
      \/ Kind[r] = "delete" /\ pc' = [pc EXCEPT ![r] = "rmtree"]
      \/ Kind[r] = "delete" /\ pc' = [pc EXCEPT ![r] = "remove"]
  BY <1>1 DEF Test, Finish, GoTo
<1>4. /\ src' \in [Request -> Seq(Name)] /\ dst' \in [Request -> Seq(Name)]
      /\ dst'[r] = Arg[r] /\ src'[r] = IF Kind[r] = "rename" THEN Base(r) ELSE Target[r]
  BY <1>1, <1>2, WordTypes DEF Workers
<1>5. pc'[r] = "zip" => IsFolder(r)
  <2>1. pc'[r] = "zip" => IsDir(p)
    BY <1>1, <1>3 DEF Workers
  <2>2. IsDir(p) => Target[r] \in Folders
    BY <1>1, WordTypes, FoundFolder
  <2> QED BY <2>1, <2>2 DEF IsFolder, Folders
<1>6. /\ pc' \in [Request -> Steps] /\ AtOwnStep(r)'
      /\ pc'[r] # "pack" /\ pc'[r] # "sweep"
      /\ pc'[r] = "enter" => InFolder(r)
  <2> HIDE DEF p
  <2>1. pc \in [Request -> Steps]
    BY <1>1 DEF Workers
  <2>2. pc' \in [Request -> Steps]
    BY <1>3, <2>1 DEF Steps
  <2>3. \/ pc'[r] \in {"end"}
        \/ Kind[r] = "get" /\ pc'[r] \in {"zip", "size"}
        \/ Kind[r] = "rename" /\ pc'[r] = "enter" /\ InFolder(r)
        \/ Kind[r] = "rename" /\ pc'[r] = "rename"
        \/ Kind[r] = "move" /\ pc'[r] = "place"
        \/ Kind[r] = "delete" /\ pc'[r] \in {"rmtree", "remove"}
    BY <1>3, <2>1
  <2>4. AtOwnStep(r)'
    BY <2>3 DEF AtOwnStep
  <2> QED BY <2>2, <2>3, <2>4
<1>7. Held(r)'
  BY <1>4, <1>5, <1>6 DEF Held, AtOwnStep, IsFolder, InFolder, Base
<1> QED BY <1>1, <1>2, <1>4, <1>6, <1>7, StepTypes DEF Workers, Solve

(* What is to be shown of the last step of a handler                       *)
LEMMA EndTypes ==
    ASSUME TInv, NEW r \in Request, Solve(r), IsTree(tree)',
           pc' = [pc EXCEPT ![r] = "end"],
           cwd' = cwd,
           savePath' = savePath \/ savePath' = [savePath EXCEPT ![Server[r]] = None],
           src' = src, dst' = dst, entries' \in [Request -> SUBSET Name],
           solved' = solved
    PROVE  TInv'
<1>1. Workers
  BY DEF TInv
<1>2. pc' \in [Request -> Steps] /\ pc'[r] = "end"
  BY <1>1 DEF Workers, Steps
<1>3. AtOwnStep(r)' /\ Held(r)'
  BY <1>2 DEF AtOwnStep, Held
<1> QED BY <1>1, <1>2, <1>3, StepTypes DEF Workers

(* The handlers that end, without a change of the tree                     *)
LEMMA FailTypes ==
    ASSUME TInv, NEW r \in Request, Solve(r), NEW response, Finish(r, response),
           NoChange, UNCHANGED <<cwd, savePath, src, dst, solved>>,
           entries' \in [Request -> SUBSET Name]
    PROVE  TInv'
<1>1. tree' = tree /\ pc' = [pc EXCEPT ![r] = "end"]
  BY DEF NoChange, Finish, GoTo
<1>2. IsTree(tree)'
  BY <1>1 DEF TInv, IsTree
<1> QED BY <1>1, <1>2, EndTypes

(* The folder of the file becomes the current directory                    *)
(* (server_resource.py:80-82).                                             *)
LEMMA EnterTypes ==
    ASSUME TInv, NEW r \in Request, Enter(r)
    PROVE  TInv'
<1> DEFINE dir == Here(r, Front(Target[r]))
<1>1. /\ Workers /\ IsTree(tree) /\ Kind[r] = "rename" /\ InFolder(r)
      /\ src[r] = Base(r) /\ dst[r] = Arg[r] /\ pc \in [Request -> Steps]
      /\ cwd \in [Process -> {Root} \cup Folders] /\ Server[r] \in Process
  BY RequestFacts DEF TInv, Workers, AtOwnStep, Held, Enter
<1>2. /\ savePath' = savePath /\ entries' = entries /\ src' = src /\ dst' = dst
      /\ solved' = solved /\ tree' = tree
  BY DEF Enter, NoChange
<1>3. CASE IsDir(dir)
  <2>1. cwd' = [cwd EXCEPT ![Server[r]] = dir] /\ pc' = [pc EXCEPT ![r] = "rename"]
    BY <1>3 DEF Enter, Chdir, GoTo
  <2>2. dir \in {Root} \cup Folders
    BY <1>1, <1>3, TreeFacts
  <2> HIDE DEF dir
  <2>3. /\ cwd' \in [Process -> {Root} \cup Folders]
        /\ pc' \in [Request -> Steps] /\ pc'[r] = "rename"
    BY <1>1, <2>1, <2>2 DEF Steps
  <2>4. AtOwnStep(r)' /\ Held(r)'
    BY <1>1, <1>2, <2>3 DEF AtOwnStep, Held, Base
  <2> QED BY <1>1, <1>2, <2>3, <2>4, StepTypes DEF Workers, Solve
<1>4. CASE ~ IsDir(dir)
  <2>1. Finish(r, "internal") /\ NoChange /\ cwd' = cwd
    BY <1>4 DEF Enter
  <2> QED BY <1>1, <1>2, <2>1, FailTypes DEF Workers, Solve
<1> QED BY <1>3, <1>4

(* shutil.move looks where the file goes (server_resource.py:89-90).       *)
LEMMA PlaceTypes ==
    ASSUME TInv, NEW r \in Request, PlaceIn(r)
    PROVE  TInv'
<1>1. /\ Workers /\ IsTree(tree) /\ Kind[r] = "move"
      /\ src[r] = Target[r] /\ dst[r] \in {Arg[r], Arg[r] \o Base(r)}
      /\ pc \in [Request -> Steps] /\ dst \in [Request -> Seq(Name)]
  BY DEF TInv, Workers, AtOwnStep, Held, PlaceIn
<1>2. /\ savePath' = savePath /\ entries' = entries /\ src' = src /\ cwd' = cwd
      /\ solved' = solved /\ tree' = tree /\ NoChange
  BY DEF PlaceIn, NoChange
<1>3. \/ Finish(r, "internal") /\ dst' = dst
      \/ /\ pc' = [pc EXCEPT ![r] = "rename"]
         /\ dst' = dst \/ dst' = [dst EXCEPT ![r] = Arg[r] \o Base(r)]
  BY DEF PlaceIn, GoTo
<1>4. CASE Finish(r, "internal") /\ dst' = dst
  BY <1>1, <1>2, <1>4, FailTypes DEF Workers, Solve
<1>5. CASE /\ pc' = [pc EXCEPT ![r] = "rename"]
           /\ dst' = dst \/ dst' = [dst EXCEPT ![r] = Arg[r] \o Base(r)]
  <2>1. dst' \in [Request -> Seq(Name)] /\ dst'[r] \in {Arg[r], Arg[r] \o Base(r)}
    BY <1>1, <1>5, WordTypes
  <2>2. pc' \in [Request -> Steps] /\ pc'[r] = "rename"
    BY <1>1, <1>5 DEF Steps
  <2>3. AtOwnStep(r)' /\ Held(r)'
    BY <1>1, <1>2, <2>1, <2>2 DEF AtOwnStep, Held, Base
  <2>4. IsTree(tree)'
    BY <1>1, <1>2 DEF IsTree
  <2> QED BY <1>1, <1>2, <2>1, <2>2, <2>3, <2>4, StepTypes DEF Workers, Solve
<1> QED BY <1>3, <1>4, <1>5

(* os.rename takes a file to a place where no folder is                    *)
(* (server_resource.py:85, 90).                                            *)
LEMMA RenameTypes ==
    ASSUME TInv, NEW r \in Request, Rename(r)
    PROVE  TInv'
<1> DEFINE from == Here(r, src[r])
           to == Here(r, dst[r])
<1>1. /\ Workers /\ IsTree(tree) /\ Kind[r] \in {"rename", "move"}
      /\ dst[r] \in {Arg[r], Arg[r] \o Base(r)}
  BY DEF TInv, Workers, AtOwnStep, Held, Rename
<1>2. /\ savePath' = savePath /\ entries' = entries /\ src' = src /\ cwd' = cwd
      /\ solved' = solved /\ dst' = dst
  BY DEF Rename
<1>3. CASE IsFile(from) /\ IsDir(Front(to)) /\ ~ IsDir(to)
  <2>1. /\ tree' = [tree EXCEPT ![from] = Absent, ![to] = tree[from]]
        /\ pc' = [pc EXCEPT ![r] = "end"]
    BY <1>3 DEF Rename, Change, Finish, GoTo
  <2>2. from \in Path /\ tree[from] \in SUBSET Part /\ tree[from] # Dir
    BY <1>1, <1>3, TreeFacts
  <2>3. Front(to) \in {Root} \cup Folders /\ (Front(to) # Root => tree[Front(to)] = Dir)
    BY <1>1, <1>3, TreeFacts
  <2>4. to \in Path /\ tree[to] # Dir
    <3>1. dst[r] \in Seq(Name) /\ dst[r] # Root
      BY <1>1, WordTypes
    <3>2. to \in Path
      BY <1>1, <2>3, <3>1, HereFacts
    <3> QED BY <1>1, <1>3, <3>2, TreeFacts
  <2> DEFINE u == [tree EXCEPT ![from] = Absent]
  <2> HIDE DEF from, to
  <2>5. IsTree(u) /\ \A q \in Path : u[q] = Dir <=> tree[q] = Dir
    BY <1>1, <2>2, ContentFacts, PutFile
  <2>6. tree' = [u EXCEPT ![to] = tree[from]]
    BY <2>1
  <2>7. Front(to) # Root => Front(to) \in Path /\ u[Front(to)] = Dir
    BY <2>3, <2>5, FolderFacts
  <2> HIDE DEF u
  <2>8. IsTree(tree')
    BY <2>2, <2>4, <2>5, <2>6, <2>7, ContentFacts, PutFile
  <2>9. IsTree(tree)' /\ Solve(r)
    BY <2>8 DEF IsTree, Solve
  <2> QED BY <1>1, <1>2, <2>1, <2>9, EndTypes DEF Workers
<1>4. CASE ~ (IsFile(from) /\ IsDir(Front(to)) /\ ~ IsDir(to))
  <2>1. Finish(r, "internal") /\ NoChange
    BY <1>4 DEF Rename, Fail
  <2> QED BY <1>1, <1>2, <2>1, FailTypes DEF Workers, Solve
<1> QED BY <1>3, <1>4

(* A file is removed (server_resource.py:151).                             *)
LEMMA RemoveTypes ==
    ASSUME TInv, NEW r \in Request, RemoveFile(r)
    PROVE  TInv'
<1> DEFINE p == Here(r, Target[r])
<1>1. Workers /\ IsTree(tree) /\ Solve(r)
  BY DEF TInv, Solve
<1>2. /\ savePath' = savePath /\ entries' = entries /\ src' = src /\ cwd' = cwd
      /\ solved' = solved /\ dst' = dst
  BY DEF RemoveFile
<1>3. CASE IsFile(p)
  <2>1. tree' = [tree EXCEPT ![p] = Absent] /\ pc' = [pc EXCEPT ![r] = "end"]
    BY <1>3 DEF RemoveFile, Change, Finish, GoTo
  <2>2. p \in Path /\ tree[p] # Dir
    BY <1>1, <1>3, TreeFacts
  <2> HIDE DEF p
  <2>3. IsTree(tree')
    BY <1>1, <2>1, <2>2, ContentFacts, PutFile
  <2>4. IsTree(tree)'
    BY <2>3 DEF IsTree
  <2> QED BY <1>1, <1>2, <2>1, <2>4, EndTypes DEF Workers
<1>4. CASE ~ IsFile(p)
  <2>1. Finish(r, "internal") /\ NoChange
    BY <1>4 DEF RemoveFile, Fail
  <2> QED BY <1>1, <1>2, <2>1, FailTypes DEF Workers
<1> QED BY <1>3, <1>4

(* shutil.rmtree holds the folder it found (server_resource.py:154).       *)
LEMMA RmtreeTypes ==
    ASSUME TInv, NEW r \in Request, Rmtree(r)
    PROVE  TInv'
<1> DEFINE p == Here(r, Target[r])
<1>1. Workers /\ IsTree(tree) /\ Solve(r) /\ Kind[r] = "delete"
  BY DEF TInv, Solve, Workers, AtOwnStep, Rmtree
<1>2. /\ savePath' = savePath /\ cwd' = cwd /\ solved' = solved /\ dst' = dst
      /\ tree' = tree
  BY DEF Rmtree, Fail, NoChange
<1>3. CASE IsDir(p)
  <2>1. /\ pc' = [pc EXCEPT ![r] = "sweep"] /\ src' = [src EXCEPT ![r] = p]
        /\ entries' = [entries EXCEPT ![r] = Children(p)]
    BY <1>3 DEF Rmtree, GoTo
  <2>2. p = Target[r] /\ p \in Folders
    BY <1>1, <1>3, WordTypes, FoundFolder
  <2>3. p \in Seq(Name) /\ Children(p) \subseteq Name
    BY <1>1, <2>2, WordTypes, TreeFacts
  <2> HIDE DEF p
  <2>4. /\ pc' \in [Request -> Steps] /\ pc'[r] = "sweep"
        /\ src' \in [Request -> Seq(Name)] /\ src'[r] = p
        /\ entries' \in [Request -> SUBSET Name]
    BY <1>1, <2>1, <2>3 DEF Workers, Steps
  <2>5. AtOwnStep(r)' /\ Held(r)' /\ IsTree(tree)'
    BY <1>1, <1>2, <2>2, <2>4 DEF AtOwnStep, Held, IsTree
  <2> QED BY <1>1, <1>2, <2>4, <2>5, StepTypes DEF Workers
<1>4. CASE ~ IsDir(p)
  <2>1. Finish(r, "internal") /\ NoChange /\ src' = src /\ entries' = entries
    BY <1>4 DEF Rmtree, Fail
  <2> QED BY <1>1, <1>2, <2>1, FailTypes DEF Workers
<1> QED BY <1>3, <1>4

(* What rmtree listed is removed below the folder it holds.                *)
LEMMA SweepTypes ==
    ASSUME TInv, NEW r \in Request, Sweep(r)
    PROVE  TInv'
<1>1. /\ Workers /\ IsTree(tree) /\ Solve(r) /\ Kind[r] = "delete" /\ pc[r] = "sweep"
      /\ entries \in [Request -> SUBSET Name] /\ Held(r)
  BY DEF TInv, Solve, Workers, AtOwnStep, Sweep
<1>2. /\ savePath' = savePath /\ cwd' = cwd /\ solved' = solved
      /\ src' = src /\ dst' = dst
  BY DEF Sweep
<1>3. PICK n \in entries[r] :
         LET p == src[r] \o <<n>> IN
         /\ entries' = [entries EXCEPT ![r] = @ \ {n}]
         /\ IF IsFile(p)
              THEN /\ Change(r, [tree EXCEPT ![p] = Absent])
                   /\ UNCHANGED <<pc, answer, excused>>
              ELSE Fail(r)
  BY DEF Sweep
<1> DEFINE p == src[r] \o <<n>>
<1>4. entries' \in [Request -> SUBSET Name]
  BY <1>1, <1>3
<1>5. CASE IsFile(p)
  <2>1. tree' = [tree EXCEPT ![p] = Absent] /\ pc' = pc
    BY <1>3, <1>5 DEF Change
  <2>2. p \in Path /\ tree[p] # Dir
    BY <1>1, <1>5, TreeFacts
  <2> HIDE DEF p
  <2>3. IsTree(tree')
    BY <1>1, <2>1, <2>2, ContentFacts, PutFile
  <2>4. AtOwnStep(r)' /\ Held(r)' /\ IsTree(tree)'
    BY <1>1, <1>2, <2>1, <2>3 DEF AtOwnStep, Held, IsTree
  <2> QED BY <1>1, <1>2, <1>4, <2>1, <2>4, StepTypes DEF Workers
<1>6. CASE ~ IsFile(p)
  <2>1. Finish(r, "internal") /\ NoChange
    BY <1>3, <1>6 DEF Fail
  <2> QED BY <1>1, <1>2, <1>4, <2>1, FailTypes
<1> QED BY <1>5, <1>6

(* The folder itself goes when it is empty.                                *)
LEMMA RmdirTypes ==
    ASSUME TInv, NEW r \in Request, Rmdir(r)
    PROVE  TInv'
<1> DEFINE p == Here(r, Target[r])
<1>1. /\ Workers /\ IsTree(tree) /\ Solve(r) /\ Kind[r] = "delete"
      /\ entries \in [Request -> SUBSET Name]
  BY DEF TInv, Solve, Workers, AtOwnStep, Rmdir
<1>2. /\ savePath' = savePath /\ cwd' = cwd /\ solved' = solved
      /\ src' = src /\ dst' = dst /\ entries' = entries
  BY DEF Rmdir
<1>3. CASE p # Root /\ IsDir(p) /\ Empty(p)
  <2>1. tree' = [tree EXCEPT ![p] = Absent] /\ pc' = [pc EXCEPT ![r] = "end"]
    BY <1>3 DEF Rmdir, Change, Finish, GoTo
  <2>2. p \in Folders
    BY <1>1, <1>3, TreeFacts
  <2>3. \A n \in Name : p \o <<n>> \in Path
    BY <2>2, JoinFacts
  <2>4. \A n \in Name : tree[p \o <<n>>] = Absent
    BY <1>3, <2>3 DEF Empty, Children, Exists
  <2> HIDE DEF p
  <2>5. IsTree(tree')
    BY <1>1, <2>1, <2>2, <2>4, RemoveFolder
  <2>6. IsTree(tree)'
    BY <2>5 DEF IsTree
  <2> QED BY <1>1, <1>2, <2>1, <2>6, EndTypes
<1>4. CASE ~ (p # Root /\ IsDir(p) /\ Empty(p))
  <2>1. Finish(r, "internal") /\ NoChange
    BY <1>4 DEF Rmdir, Fail
  <2> QED BY <1>1, <1>2, <2>1, FailTypes
<1> QED BY <1>3, <1>4

(* compress_folder opens the archive where no folder is                    *)
(* (drive_utils.py:86-92).                                                 *)
LEMMA CompressTypes ==
    ASSUME TInv, NEW r \in Request, Compress(r)
    PROVE  TInv'
<1> DEFINE z == Here(r, ZipOf(Target[r]))
<1>1. /\ Workers /\ IsTree(tree) /\ Solve(r) /\ Kind[r] = "get" /\ pc[r] = "zip"
      /\ entries \in [Request -> SUBSET Name] /\ Target[r] \in Folders
  BY DEF TInv, Solve, Get, Workers, AtOwnStep, Compress, Held, IsFolder, Folders
<1>2. savePath' = savePath /\ cwd' = cwd /\ solved' = solved
  BY DEF Compress
<1>3. CASE IsDir(Front(z)) /\ ~ IsDir(z)
  <2>1. /\ tree' = [tree EXCEPT ![z] = {}]
        /\ src' = [src EXCEPT ![r] = ZipOf(Target[r])]
        /\ dst' = [dst EXCEPT ![r] = z]
        /\ entries' = [entries EXCEPT ![r] = Children(Here(r, Target[r]))]
        /\ pc' = [pc EXCEPT ![r] = "pack"]
    BY <1>3 DEF Compress, Change, GoTo
  <2>2. Front(z) \in {Root} \cup Folders /\ (Front(z) # Root => tree[Front(z)] = Dir)
    BY <1>1, <1>3, TreeFacts
  <2>3. z \in Path /\ tree[z] # Dir
    <3>1. ZipOf(Target[r]) \in Path
      BY <1>1, ZipFacts
    <3>2. ZipOf(Target[r]) \in Seq(Name) /\ ZipOf(Target[r]) # Root
      BY <3>1, PathFacts
    <3>3. z \in Path
      BY <1>1, <2>2, <3>2, HereFacts
    <3> QED BY <1>1, <1>3, <3>3, TreeFacts
  <2>4. z \in Seq(Name) /\ ZipOf(Target[r]) \in Seq(Name)
    BY <1>1, <2>3, ZipFacts, PathFacts
  <2>5. Children(Here(r, Target[r])) \subseteq Name
    BY DEF Children
  <2> HIDE DEF z
  <2>6. {} \in Content /\ {} # Dir
    BY ContentFacts
  <2>7. IsTree(tree')
    BY <1>1, <2>1, <2>2, <2>3, <2>6, PutFile
  <2>8. /\ pc' \in [Request -> Steps] /\ pc'[r] = "pack"
        /\ dst' \in [Request -> Seq(Name)] /\ dst'[r] = z
        /\ src' \in [Request -> Seq(Name)] /\ src'[r] = ZipOf(Target[r])
        /\ entries' \in [Request -> SUBSET Name]
    BY <1>1, <2>1, <2>4, <2>5 DEF Workers, Steps
  <2>9. AtOwnStep(r)' /\ Held(r)' /\ IsTree(tree)'
    BY <1>1, <1>2, <2>3, <2>7, <2>8 DEF AtOwnStep, Held, IsFolder, Folders, IsTree
  <2> QED BY <1>1, <1>2, <2>8, <2>9, StepTypes DEF Workers
<1>4. CASE ~ (IsDir(Front(z)) /\ ~ IsDir(z))
  <2>1. /\ Finish(r, "internal") /\ NoChange
        /\ src' = src /\ dst' = dst /\ entries' = entries
    BY <1>4 DEF Compress, Fail
  <2> QED BY <1>1, <1>2, <2>1, FailTypes
<1> QED BY <1>3, <1>4

(* What is added to an archive leaves the tree one.                        *)
LEMMA IntoTree ==
    ASSUME IsTree(tree), NEW z \in Path, NEW parts \in SUBSET Part
    PROVE  IsTree(Into(z, parts))
<1>1. CASE IsFile(z)
  <2> DEFINE c == tree[z] \cup parts
  <2>1. /\ tree[z] # Dir /\ c \in SUBSET Part /\ tree[z] # Absent
        /\ Front(z) = Root \/ tree[Front(z)] = Dir
    BY <1>1, TreeFacts DEF IsTree
  <2>2. Into(z, parts) = [tree EXCEPT ![z] = c]
    BY <1>1 DEF Into
  <2> HIDE DEF c
  <2>3. c \in Content /\ c # Dir
    BY <2>1, ContentFacts
  <2>4. IsTree([tree EXCEPT ![z] = c])
    BY <2>1, <2>3, PutFile
  <2> QED BY <2>2, <2>4
<1>2. CASE ~ IsFile(z)
  BY <1>2 DEF Into
<1> QED BY <1>1, <1>2

(* The archive takes the files that were listed (drive_utils.py:93-97).    *)
LEMMA PackTypes ==
    ASSUME TInv, NEW r \in Request, Pack(r)
    PROVE  TInv'
<1>1. /\ Workers /\ IsTree(tree) /\ Solve(r) /\ Kind[r] = "get" /\ pc[r] = "pack"
      /\ entries \in [Request -> SUBSET Name] /\ Held(r) /\ dst[r] \in Path
  BY DEF TInv, Solve, Get, Workers, AtOwnStep, Pack, Held
<1>2. /\ savePath' = savePath /\ cwd' = cwd /\ solved' = solved
      /\ src' = src /\ dst' = dst
  BY DEF Pack
<1>3. PICK n \in entries[r] :
         LET p == Here(r, Target[r] \o <<n>>) IN
         /\ entries' = [entries EXCEPT ![r] = @ \ {n}]
         /\ IF IsFile(p)
              THEN /\ Change(r, Into(dst[r], tree[p]))
                   /\ UNCHANGED <<pc, answer, excused>>
              ELSE /\ GoTo(r, "end") /\ NoChange
                   /\ answer' = [answer EXCEPT ![r] = "internal"]
                   /\ excused' = excused \cup {r}
  BY DEF Pack
<1> DEFINE p == Here(r, Target[r] \o <<n>>)
<1>4. entries' \in [Request -> SUBSET Name]
  BY <1>1, <1>3
<1>5. CASE IsFile(p)
  <2>1. tree' = Into(dst[r], tree[p]) /\ pc' = pc
    BY <1>3, <1>5 DEF Change
  <2>2. tree[p] \in SUBSET Part
    BY <1>1, <1>5, TreeFacts
  <2> HIDE DEF p
  <2>3. IsTree(tree')
    BY <1>1, <2>1, <2>2, IntoTree
  <2>4. AtOwnStep(r)' /\ Held(r)' /\ IsTree(tree)'
    BY <1>1, <1>2, <2>1, <2>3 DEF AtOwnStep, Held, IsTree
  <2> QED BY <1>1, <1>2, <1>4, <2>1, <2>4, StepTypes DEF Workers
<1>6. CASE ~ IsFile(p)
  <2>1. pc' = [pc EXCEPT ![r] = "end"] /\ tree' = tree
    BY <1>3, <1>6 DEF GoTo, NoChange
  <2>2. IsTree(tree)'
    BY <1>1, <2>1 DEF IsTree
  <2> QED BY <1>1, <1>2, <1>4, <2>1, <2>2, EndTypes
<1> QED BY <1>5, <1>6

(* The archive is completed (drive_utils.py:97).                           *)
LEMMA PackedTypes ==
    ASSUME TInv, NEW r \in Request, Packed(r)
    PROVE  TInv'
<1>1. /\ Workers /\ IsTree(tree) /\ Solve(r) /\ Kind[r] = "get" /\ dst[r] \in Path
      /\ IsFolder(r) /\ src[r] = ZipOf(Target[r])
  BY DEF TInv, Solve, Get, Workers, AtOwnStep, Packed, Held
<1>2. /\ savePath' = savePath /\ cwd' = cwd /\ solved' = solved
      /\ src' = src /\ dst' = dst /\ entries' = entries
      /\ pc' = [pc EXCEPT ![r] = "size"] /\ tree' = Into(dst[r], {Archive})
  BY DEF Packed, Change, GoTo, history
<1>3. IsTree(tree')
  BY <1>1, <1>2, IntoTree, ResourceAssumption
<1>4. pc' \in [Request -> Steps] /\ pc'[r] = "size"
  BY <1>1, <1>2 DEF Workers, Steps
<1>5. AtOwnStep(r)' /\ Held(r)' /\ IsTree(tree)'
  BY <1>1, <1>2, <1>3, <1>4 DEF AtOwnStep, Held, IsFolder, IsTree, ZipOf
<1> QED BY <1>1, <1>2, <1>4, <1>5, StepTypes DEF Workers

(* The steps that only look at the tree, and go on to the next             *)
(* (drive_spliter.py:44-56, drive_utils.py:133-145).                       *)
LEMMA LookTypes ==
    ASSUME TInv, NEW r \in Request, Size(r) \/ Open(r) \/ SendFails(r) \/ Conflict(r)
                                    \/ Walk(r) \/ Descend(r) \/ WalkEnds(r)
    PROVE  TInv'
<1>1. /\ Workers /\ IsTree(tree) /\ Solve(r) /\ entries \in [Request -> SUBSET Name]
      /\ pc \in [Request -> Steps] /\ AtOwnStep(r) /\ Held(r)
  BY DEF TInv, Solve, Get, Upload, Fetch, Workers
<1>2. /\ savePath' = savePath /\ cwd' = cwd /\ solved' = solved
      /\ src' = src /\ dst' = dst /\ tree' = tree
  BY DEF Size, Open, SendFails, Conflict, Walk, Descend, WalkEnds, NoChange
<1>3. entries' \in [Request -> SUBSET Name]
  <2>1. Subfolders(Root) \subseteq Name
    BY DEF Subfolders, Children
  <2>2. CASE Walk(r)
    BY <1>1, <2>1, <2>2 DEF Walk
  <2>3. CASE Descend(r)
    BY <1>1, <2>3 DEF Descend
  <2>4. CASE ~ Walk(r) /\ ~ Descend(r)
    BY <1>1, <2>4 DEF Size, Open, SendFails, Conflict, WalkEnds
  <2> QED BY <2>2, <2>3, <2>4
<1>4. \/ pc' = [pc EXCEPT ![r] = "end"]
      \/ Kind[r] = "get" /\ pc' = [pc EXCEPT ![r] = "open"] /\ pc[r] = "size"
      \/ Kind[r] = "get" /\ pc' = [pc EXCEPT ![r] = "send"] /\ pc[r] = "open"
      \/ Kind[r] = "fetch" /\ pc' = [pc EXCEPT ![r] = "descend"]
      \/ Kind[r] = "fetch" /\ pc' = pc /\ pc[r] = "descend"
  <2>1. CASE Size(r)
    BY <1>1, <2>1 DEF Size, Finish, GoTo, AtOwnStep
  <2>2. CASE Open(r)
    BY <1>1, <2>2 DEF Open, Finish, GoTo, AtOwnStep
  <2>3. CASE SendFails(r) \/ Conflict(r) \/ WalkEnds(r)
    BY <2>3 DEF SendFails, Conflict, WalkEnds, Finish, GoTo
  <2>4. CASE Walk(r) \/ Descend(r)
    BY <1>1, <2>4 DEF Walk, Descend, GoTo, AtOwnStep
  <2> QED BY <2>1, <2>2, <2>3, <2>4
<1>5. pc' \in [Request -> Steps]
  BY <1>1, <1>4 DEF Steps
<1>6. \/ pc'[r] = "end"
      \/ Kind[r] = "get" /\ pc'[r] \in {"open", "send"} /\ pc[r] \in {"size", "open"}
      \/ Kind[r] = "fetch" /\ pc'[r] = "descend"
  BY <1>1, <1>4
<1>7. AtOwnStep(r)' /\ Held(r)'
  BY <1>1, <1>2, <1>6 DEF AtOwnStep, Held, IsFolder, ZipOf
<1>8. IsTree(tree)'
  BY <1>1, <1>2 DEF IsTree
<1> QED BY <1>1, <1>2, <1>3, <1>5, <1>7, <1>8, StepTypes DEF Workers

(* A tree without a file is a tree with the same folders.                  *)
LEMMA WithoutTree ==
    ASSUME NEW t, IsTree(t), NEW p
    PROVE  /\ IsTree(Without(t, p))
           /\ \A q \in Path : Without(t, p)[q] = Dir <=> t[q] = Dir
<1>1. CASE p \in Path /\ t[p] \notin {Absent, Dir}
  <2>1. Without(t, p) = [t EXCEPT ![p] = Absent]
    BY <1>1 DEF Without
  <2>2. Absent \in Content /\ Absent # Dir
    BY ContentFacts
  <2>3. t[p] # Dir /\ p \in Path
    BY <1>1
  <2>4. /\ IsTree([t EXCEPT ![p] = Absent])
        /\ \A q \in Path : [t EXCEPT ![p] = Absent][q] = Dir <=> t[q] = Dir
    BY <2>2, <2>3, PutFile
  <2> QED BY <2>1, <2>4
<1>2. CASE ~ (p \in Path /\ t[p] \notin {Absent, Dir})
  BY <1>2 DEF Without
<1> QED BY <1>1, <1>2

(* The archive is deleted after the last block (drive_spliter.py:96-97).   *)
LEMMA SendEndsTypes ==
    ASSUME TInv, NEW r \in Request, SendEnds(r)
    PROVE  TInv'
<1>1. /\ Workers /\ IsTree(tree) /\ Solve(r) /\ entries \in [Request -> SUBSET Name]
  BY DEF TInv, Solve, Get, Workers
<1>2. /\ savePath' = savePath /\ cwd' = cwd /\ solved' = solved
      /\ src' = src /\ dst' = dst /\ entries' = entries
      /\ pc' = [pc EXCEPT ![r] = "end"]
  BY DEF SendEnds, Finish, GoTo
<1>3. tree' = tree \/ tree' = Without(tree, Here(r, src[r]))
  BY DEF SendEnds, Change, NoChange
<1>4. IsTree(tree')
  BY <1>1, <1>3, WithoutTree
<1>5. IsTree(tree)'
  BY <1>4 DEF IsTree
<1> QED BY <1>1, <1>2, <1>5, EndTypes

(* The upload path becomes the save path if there is such a folder         *)
(* (server_resource.py:119-120).                                           *)
LEMMA SavePathTypes ==
    ASSUME TInv, NEW r \in Request, SavePath(r)
    PROVE  TInv'
<1>1. /\ Workers /\ IsTree(tree) /\ Solve(r) /\ entries \in [Request -> SUBSET Name]
      /\ pc \in [Request -> Steps] /\ Kind[r] = "put"
  BY DEF TInv, Solve, Upload, Workers, AtOwnStep, SavePath
<1>2. /\ cwd' = cwd /\ solved' = solved /\ tree' = tree
      /\ src' = src /\ dst' = dst /\ entries' = entries
      /\ pc' = [pc EXCEPT ![r] = "conflict"]
      /\ savePath' = savePath \/ savePath' = [savePath EXCEPT ![Server[r]] = Arg[r]]
  BY DEF SavePath, NoChange, GoTo, history
<1>3. pc' \in [Request -> Steps] /\ pc'[r] = "conflict"
  BY <1>1, <1>2 DEF Steps
<1>4. AtOwnStep(r)' /\ Held(r)' /\ IsTree(tree)'
  BY <1>1, <1>2, <1>3 DEF AtOwnStep, Held, IsTree
<1> QED BY <1>1, <1>2, <1>3, <1>4, StepTypes DEF Workers

(* The place of a block: a base name in the save path or in the resource's *)
(* folder (drive_assembler.py:43-60).                                      *)
LEMMA SaveWords ==
    ASSUME Workers, NEW r \in Request, Kind[r] # "fetch"
    PROVE  LET s == savePath[Server[r]]
               w == (IF s = None THEN Root ELSE s) \o Base(r)
           IN /\ w \in Seq(Name) /\ w # Root
              /\ s = None => w = Base(r)
<1> DEFINE s == savePath[Server[r]]
           w == (IF s = None THEN Root ELSE s) \o Base(r)
<1>1. s \in Path \cup {None} /\ Base(r) \in Path
  BY RequestFacts DEF Workers
<1>2. Base(r) \in Seq(Name) /\ Base(r) # Root /\ Root \o Base(r) = Base(r)
  BY <1>1, PathFacts
<1> HIDE DEF s
<1>3. CASE s = None
  BY <1>2, <1>3 DEF s
<1>4. CASE s # None
  <2>1. s \in Seq(Name) /\ s # Root /\ w = s \o Base(r)
    BY <1>1, <1>4, PathFacts
  <2>2. s \o Base(r) \in Seq(Name) /\ (s \o Base(r) = <<>> <=> s = <<>> /\ Base(r) = <<>>)
    BY <1>2, <2>1, ConcatProperties, ConcatEqualIffEmpty
  <2> QED BY <1>4, <2>1, <2>2 DEF Root, s
<1> QED BY <1>3, <1>4 DEF s

(* An older file of that name is deleted, the block appended where no      *)
(* folder is (drive_assembler.py:43-75).                                   *)
LEMMA WriteTypes ==
    ASSUME TInv, NEW r \in Request, Write(r)
    PROVE  TInv'
<1> DEFINE word == (IF savePath[Server[r]] = None THEN Root
                    ELSE savePath[Server[r]]) \o Base(r)
           place == Here(r, word)
           old == IF IsFile(place) THEN tree[place] ELSE {}
           cleared == Without(tree, Here(r, Base(r)))
           kept == IF place = Here(r, Base(r)) THEN {} ELSE old
<1>1. /\ Workers /\ IsTree(tree) /\ Solve(r) /\ entries \in [Request -> SUBSET Name]
      /\ Kind[r] = "block"
  BY DEF TInv, Solve, Upload, Workers, AtOwnStep, Write
<1>2. /\ cwd' = cwd /\ solved' = solved
      /\ src' = src /\ dst' = dst /\ entries' = entries
      /\ pc' = [pc EXCEPT ![r] = "end"]
      /\ savePath' = savePath \/ savePath' = [savePath EXCEPT ![Server[r]] = None]
  BY DEF Write, Finish, GoTo
<1>3. \/ /\ IsDir(Front(place)) /\ ~ IsDir(place)
         /\ tree' = [cleared EXCEPT ![place] = kept \cup {r}]
      \/ tree' = cleared
  BY DEF Write, Change
<1>4. IsTree(cleared) /\ \A q \in Path : cleared[q] = Dir <=> tree[q] = Dir
  BY <1>1, WithoutTree
<1>5. ASSUME IsDir(Front(place)), ~ IsDir(place)
      PROVE  IsTree([cleared EXCEPT ![place] = kept \cup {r}])
  <2>1. word \in Seq(Name) /\ word # Root
    BY <1>1, SaveWords
  <2>2. /\ Front(place) \in {Root} \cup Folders
        /\ Front(place) # Root => Front(place) \in Path /\ tree[Front(place)] = Dir
    BY <1>1, <1>5, TreeFacts
  <2> HIDE DEF word
  <2>3. place \in Path
    BY <1>1, <2>1, <2>2, HereFacts
  <2>4. old \subseteq Part
    BY <1>1, TreeFacts
  <2>5. r \in Part
    BY ResourceAssumption
  <2>6. kept \cup {r} \in SUBSET Part
    BY <2>4, <2>5
  <2>7. tree[place] # Dir
    BY <1>1, <1>5, <2>3, TreeFacts
  <2> DEFINE c == kept \cup {r}
  <2> HIDE DEF cleared, place, kept, old
  <2>8. cleared[place] # Dir /\ (Front(place) = Root \/ cleared[Front(place)] = Dir)
    BY <1>4, <2>2, <2>3, <2>7
  <2>9. c \in Content /\ c # Dir
    BY <2>6, ContentFacts
  <2> HIDE DEF c
  <2>10. IsTree([cleared EXCEPT ![place] = c])
    BY <1>4, <2>3, <2>8, <2>9, PutFile
  <2> QED BY <2>10 DEF c
<1> HIDE DEF cleared, place, kept, old
<1>6. IsTree(tree')
  BY <1>3, <1>4, <1>5
<1>7. IsTree(tree)'
  BY <1>6 DEF IsTree
<1> QED BY <1>1, <1>2, <1>7, EndTypes

(* No worker is at a step when the process starts.                         *)
LEMMA InitTInv == Init => TInv
<1> SUFFICES ASSUME Init
             PROVE  TInv
  OBVIOUS
<1>1. IsTree(tree)
  <2>1. tree = Tree
    BY DEF Init
  <2>2. /\ Tree \in [Path -> Content]
        /\ \A p \in Path : Tree[p] = Dir => p \in Folders
        /\ \A p \in Path : Tree[p] # Absent /\ Len(p) = 2 => Tree[Front(p)] = Dir
    BY ResourceAssumption DEF Content, Folders
  <2>3. \A p \in Path : Len(p) \in {1, 2} /\ (Len(p) = 1 <=> Front(p) = Root)
    BY PathFacts
  <2> QED BY <2>1, <2>2, <2>3 DEF IsTree
<1>2. pc = [r \in Request |-> "ready"] /\ pc \in [Request -> Steps]
  BY DEF Init, Steps
<1>3. \A r \in Request : AtOwnStep(r) /\ Held(r)
  BY <1>2 DEF AtOwnStep, Held
<1>4. Root \in Seq(Name)
  BY DEF Root
<1>5. Workers
  BY <1>2, <1>3, <1>4, ResourceAssumption DEF Init, Workers
<1> QED BY <1>1, <1>3, <1>5 DEF TInv

(* Every step keeps the tree a tree and the workers at their steps.        *)
LEMMA NextTInv == TInv /\ [Next]_vars => TInv'
<1> SUFFICES ASSUME TInv, [Next]_vars
             PROVE  TInv'
  OBVIOUS
<1>1. CASE UNCHANGED vars
  BY <1>1 DEF TInv, IsTree, Workers, AtOwnStep, Held, vars, worker, history
<1>2. ASSUME NEW r \in Request, Begin(r)
      PROVE  TInv'
  <2>1. Workers' /\ Held(r)' /\ tree' = tree
    BY <1>2, StartTypes
  <2>2. \A s \in Request : Held(s)'
    BY <1>2, <2>1, OthersHold DEF TInv
  <2>3. IsTree(tree)'
    BY <2>1 DEF TInv, IsTree
  <2> QED BY <2>1, <2>2, <2>3 DEF TInv
<1>3. ASSUME NEW r \in Request, Solve(r)
      PROVE  TInv'
  <2>1. CASE Test(r) \/ Enter(r) \/ PlaceIn(r) \/ Rename(r)
    BY <2>1, TestTypes, EnterTypes, PlaceTypes, RenameTypes
  <2>2. CASE RemoveFile(r) \/ Rmtree(r) \/ Sweep(r) \/ Rmdir(r)
    BY <2>2, RemoveTypes, RmtreeTypes, SweepTypes, RmdirTypes
  <2>3. CASE Compress(r) \/ Pack(r) \/ Packed(r) \/ SendEnds(r)
    BY <2>3, CompressTypes, PackTypes, PackedTypes, SendEndsTypes
  <2>4. CASE Size(r) \/ Open(r) \/ SendFails(r) \/ Conflict(r) \/ Fetch(r)
    BY <2>4, LookTypes DEF Fetch
  <2>5. CASE SavePath(r) \/ Write(r)
    BY <2>5, SavePathTypes, WriteTypes
  <2> QED BY <1>3, <2>1, <2>2, <2>3, <2>4, <2>5 DEF Solve, Get, Upload
<1> QED BY <1>1, <1>2, <1>3 DEF Next

(* The types and the tree hold of the invariant.                           *)
LEMMA TInvTypes == TInv => TypeOK
<1> SUFFICES ASSUME TInv
             PROVE  TypeOK
  OBVIOUS
<1>1. \A p \in Path : Exists(p) => IsDir(Front(p))
  <2> SUFFICES ASSUME NEW p \in Path, Exists(p)
               PROVE  IsDir(Front(p))
    OBVIOUS
  <2>1. Front(p) \in {Root} \cup Folders /\ (Front(p) = Root \/ tree[Front(p)] = Dir)
    BY PathFacts DEF TInv, IsTree, Exists
  <2> QED BY <2>1, FolderFacts DEF IsDir
<1>2. {Root} \cup Folders \subseteq Path \cup {Root}
  BY FolderFacts
<1>3. cwd \in [Process -> Path \cup {Root}]
  BY <1>2 DEF TInv, Workers
<1> QED BY <1>1, <1>3 DEF TypeOK, TInv, Workers

(* Files lie in folders that are there, and the workers are at steps they  *)
(* have, whatever they do beside each other (server_resource.py:33-214).   *)
THEOREM TypeCorrect == Spec => []TypeOK
BY InitTInv, NextTInv, TInvTypes, PTL DEF Spec

-----------------------------------------------------------------------------
(* What a handler changes *)

(* A change of directory is seen by the other workers of the process.      *)
LEMMA OthersCross ==
    ASSUME Workers, CInv, NEW r \in Request, NEW s \in Request, s # r,
           NEW dir, NEW how, Chdir(r, dir, how)
    PROVE  \/ crossed'[s] = crossed[s] /\ (cwd'[Server[s]] = cwd[Server[s]] \/ ~ Working(s))
           \/ crossed'[s] = crossed[s] \cup {how} /\ cwd'[Server[s]] = dir
<1>1. /\ Server[r] \in Process /\ Server[s] \in Process
      /\ cwd' = [cwd EXCEPT ![Server[r]] = dir] /\ cwd \in [Process -> {Root} \cup Folders]
  BY RequestFacts DEF Chdir, Workers
<1>2. crossed'[s] = IF Working(s) /\ Server[s] = Server[r] THEN crossed[s] \cup {how}
                    ELSE crossed[s]
  BY DEF Chdir
<1> QED BY <1>1, <1>2

(* Only the steps that begin a handler or enter a folder change the        *)
(* directory (server_resource.py:42, 76, 82, 118, 148, 178, 209).          *)
LEMMA OthersDirectory ==
    ASSUME Workers, CInv, NEW r \in Request, Begin(r) \/ Solve(r),
           NEW s \in Request, s # r
    PROVE  \/ crossed'[s] = crossed[s] /\ (cwd'[Server[s]] = cwd[Server[s]] \/ ~ Working(s))
           \/ crossed'[s] = crossed[s] \cup {"begin"} /\ cwd'[Server[s]] = Root
           \/ crossed'[s] = crossed[s] \cup {"enter"}
<1>1. CASE Begin(r)
  <2>1. Chdir(r, Root, "begin")
    BY <1>1 DEF Begin, Home
  <2> QED BY <2>1, OthersCross
<1>2. CASE Enter(r)
  <2>1. Chdir(r, Here(r, Front(Target[r])), "enter") \/ UNCHANGED <<cwd, crossed>>
    BY <1>2 DEF Enter
  <2> QED BY <2>1, OthersCross
<1>3. CASE Solve(r) /\ ~ Enter(r)
  <2>1. UNCHANGED <<cwd, crossed>>
    <3>1. CASE Test(r) \/ PlaceIn(r) \/ Rename(r) \/ RemoveFile(r)
      BY <3>1 DEF Test, PlaceIn, Rename, RemoveFile
    <3>2. CASE Rmtree(r) \/ Sweep(r) \/ Rmdir(r)
      BY <3>2 DEF Rmtree, Sweep, Rmdir
    <3>3. CASE Get(r)
      BY <3>3 DEF Get, Compress, Pack, Packed, Size, Open, SendFails, SendEnds, history
    <3>4. CASE Upload(r) \/ Fetch(r)
      BY <3>4 DEF Upload, SavePath, Conflict, Write, Fetch, Walk, Descend, WalkEnds, history
    <3> QED BY <1>3, <3>1, <3>2, <3>3, <3>4 DEF Solve
  <2> QED BY <2>1
<1> QED BY <1>1, <1>2, <1>3

(* What one handler changes is not the change of another.                  *)
LEMMA OthersChange ==
    ASSUME CInv, NEW r \in Request, Begin(r) \/ Solve(r),
           NEW s \in Request, s # r
    PROVE  changed'[s] = changed[s]
<1>0. changed \in [Request -> SUBSET Path]
  BY DEF CInv
<1> USE <1>0 DEF Change, NoChange, Fail
<1>1. CASE Begin(r) \/ Test(r) \/ Enter(r) \/ PlaceIn(r) \/ Rename(r)
  BY <1>1 DEF Begin, Test, Enter, PlaceIn, Rename
<1>2. CASE RemoveFile(r) \/ Rmtree(r) \/ Sweep(r) \/ Rmdir(r)
  BY <1>2 DEF RemoveFile, Rmtree, Sweep, Rmdir
<1>3. CASE Compress(r) \/ Pack(r) \/ Packed(r)
  BY <1>3 DEF Compress, Pack, Packed
<1>4. CASE Size(r) \/ Open(r) \/ SendFails(r) \/ SendEnds(r)
  BY <1>4 DEF Size, Open, SendFails, SendEnds
<1>5. CASE Upload(r)
  BY <1>5 DEF Upload, SavePath, Conflict, Write
<1>6. CASE Fetch(r)
  BY <1>6 DEF Fetch, Walk, Descend, WalkEnds
<1> QED BY <1>1, <1>2, <1>3, <1>4, <1>5, <1>6 DEF Solve, Get

(* The other workers stay on their courses.                                *)
LEMMA OthersCourse ==
    ASSUME Workers, CInv, NEW r \in Request, Begin(r) \/ Solve(r),
           NEW s \in Request, s # r
    PROVE  crossed'[s] \in SUBSET {"begin", "enter"} /\ Course(s)'
<1>1. /\ Course(s) /\ crossed[s] \in SUBSET {"begin", "enter"}
      /\ pc'[s] = pc[s] /\ dst'[s] = dst[s] /\ changed'[s] = changed[s]
  BY OthersStay, OthersChange DEF CInv
<1>2. CASE /\ crossed'[s] = crossed[s]
           /\ cwd'[Server[s]] = cwd[Server[s]] \/ ~ Working(s)
  BY <1>1, <1>2 DEF Course, Diverted, InFolder, Named, Goal, IsFolder, ZipOf, Working
<1>3. CASE crossed'[s] = crossed[s] \cup {"begin"} /\ cwd'[Server[s]] = Root
  BY <1>1, <1>3 DEF Course, Diverted, InFolder, Named, Goal, IsFolder, ZipOf, Working
<1>4. CASE crossed'[s] = crossed[s] \cup {"enter"}
  BY <1>1, <1>4 DEF Course, Diverted, InFolder, Named, Goal, IsFolder, ZipOf, Working
<1> QED BY <1>1, <1>2, <1>3, <1>4, OthersDirectory

(* What is to be shown of the worker that makes the step                   *)
LEMMA OwnCourse ==
    ASSUME Workers, CInv, NEW r \in Request, Begin(r) \/ Solve(r),
           crossed' \in [Request -> SUBSET {"begin", "enter"}],
           changed' \in [Request -> SUBSET Path], Course(r)'
    PROVE  CInv'
BY OthersCourse DEF CInv

(* A step past the tests changes what its handler names.                   *)
LEMMA ChangeCourse ==
    ASSUME Workers, CInv, NEW r \in Request, Solve(r),
           NEW paths \in SUBSET Path, paths \subseteq Named(r) \/ Diverted(r),
           changed' = [changed EXCEPT ![r] = @ \cup paths],
           cwd' = cwd, crossed' = crossed,
           pc'[r] \notin {"test", "enter", "place", "rename"},
           pc'[r] = "end" \/ (Working(r) /\ pc[r] # "rename"),
           pc'[r] = "pack" /\ "enter" \notin crossed[r] => dst'[r] = ZipOf(Target[r])
    PROVE  CInv'
<1>1. /\ changed \in [Request -> SUBSET Path] /\ Course(r)
      /\ crossed \in [Request -> SUBSET {"begin", "enter"}]
  BY DEF CInv
<1>2. /\ changed' \in [Request -> SUBSET Path]
      /\ changed'[r] = changed[r] \cup paths
  BY <1>1
<1>3. changed'[r] \subseteq Named(r) \/ Diverted(r)
  BY <1>1, <1>2 DEF Course
<1>4. Course(r)'
  BY <1>1, <1>2, <1>3 DEF Course, Diverted, InFolder, Named, Goal, IsFolder, ZipOf, Working
<1> QED BY <1>1, <1>2, <1>4, OwnCourse

(* ... and so does one that changes nothing.                               *)
LEMMA SameCourse ==
    ASSUME Workers, CInv, NEW r \in Request, Solve(r),
           changed' = changed, cwd' = cwd, crossed' = crossed,
           pc'[r] \notin {"test", "enter", "place", "rename", "pack"},
           pc'[r] = "end" \/ (Working(r) /\ pc[r] # "rename")
    PROVE  CInv'
<1>1. changed' = [changed EXCEPT ![r] = @ \cup {}] /\ {} \in SUBSET Path
  BY DEF CInv
<1> QED BY <1>1, ChangeCourse

(* A handler begins with nothing changed, in the resource's folder.        *)
LEMMA BeginCourse ==
    ASSUME Workers, CInv, NEW r \in Request, Begin(r)
    PROVE  CInv'
<1>1. /\ Server[r] \in Process /\ Kind[r] \in Kinds /\ pc \in [Request -> Steps]
      /\ changed \in [Request -> SUBSET Path]
      /\ crossed \in [Request -> SUBSET {"begin", "enter"}]
      /\ cwd \in [Process -> {Root} \cup Folders]
  BY RequestFacts DEF CInv, Workers
<1>2. /\ pc' = [pc EXCEPT ![r] = FirstStep[Kind[r]]]
      /\ cwd' = [cwd EXCEPT ![Server[r]] = Root]
      /\ changed' = [changed EXCEPT ![r] = {}]
      /\ crossed' = [s \in Request |->
            IF s = r THEN {}
            ELSE IF Working(s) /\ Server[s] = Server[r] THEN crossed[s] \cup {"begin"}
            ELSE crossed[s]]
  BY DEF Begin, Chdir, GoTo, Home
<1>3. /\ pc'[r] \in {"test", "save", "write", "walk"} /\ cwd'[Server[r]] = Root
      /\ changed' \in [Request -> SUBSET Path] /\ changed'[r] = {}
      /\ crossed' \in [Request -> SUBSET {"begin", "enter"}]
  BY <1>1, <1>2, FirstSteps DEF Kinds
<1>4. Course(r)'
  BY <1>3 DEF Course
<1> QED BY <1>3, <1>4, OwnCourse

(* The tests leave the handler where it is, with nothing changed           *)
(* (server_resource.py:43-52, 78-90, 150-154).                             *)
LEMMA TestCourse ==
    ASSUME Workers, CInv, NEW r \in Request, Test(r) \/ PlaceIn(r)
    PROVE  CInv'
<1>1. /\ Course(r) /\ AtOwnStep(r) /\ pc \in [Request -> Steps]
      /\ changed \in [Request -> SUBSET Path]
      /\ crossed \in [Request -> SUBSET {"begin", "enter"}]
  BY DEF CInv, Workers
<1>2. changed' = changed /\ cwd' = cwd /\ crossed' = crossed /\ Solve(r)
  BY DEF Test, PlaceIn, NoChange, Solve
<1>3. /\ pc'[r] \in {"end", "zip", "size", "enter", "rename", "place", "rmtree", "remove"}
      /\ pc'[r] = "rename" => ~ InFolder(r)
      /\ pc[r] \in {"test", "place"}
  <2>1. CASE Test(r)
    BY <1>1, <2>1 DEF Test, GoTo, Finish, AtOwnStep
  <2>2. CASE PlaceIn(r)
    BY <1>1, <2>2 DEF PlaceIn, GoTo, Finish, AtOwnStep, InFolder
  <2> QED BY <2>1, <2>2
<1>4. Course(r)'
  BY <1>1, <1>2, <1>3 DEF Course, Diverted, InFolder, Working
<1> QED BY <1>1, <1>2, <1>4, OwnCourse

(* A rename in a folder enters it (server_resource.py:80-82).              *)
LEMMA EnterCourse ==
    ASSUME TInv, CInv, NEW r \in Request, Enter(r)
    PROVE  CInv'
<1> DEFINE dir == Here(r, Front(Target[r]))
<1>1. /\ Workers /\ Solve(r) /\ Course(r) /\ InFolder(r) /\ pc[r] = "enter"
      /\ Server[r] \in Process /\ changed \in [Request -> SUBSET Path]
      /\ crossed \in [Request -> SUBSET {"begin", "enter"}] /\ changed' = changed
      /\ cwd \in [Process -> {Root} \cup Folders] /\ pc \in [Request -> Steps]
      /\ Kind[r] = "rename"
  BY RequestFacts DEF TInv, CInv, Held, Enter, Solve, NoChange, Workers, AtOwnStep
<1>2. CASE Chdir(r, dir, "enter") /\ GoTo(r, "rename")
  <2>1. /\ cwd' = [cwd EXCEPT ![Server[r]] = dir]
        /\ crossed' = [s \in Request |->
              IF s = r THEN crossed[s] \ {"begin"}
              ELSE IF Working(s) /\ Server[s] = Server[r] THEN crossed[s] \cup {"enter"}
              ELSE crossed[s]]
    BY <1>2 DEF Chdir
  <2>2. "enter" \notin crossed[r] => dir = Front(Target[r])
    <3>1. Front(Target[r]) \in Folders /\ Front(Target[r]) \in Seq(Name)
      BY <1>1, RequestFacts, FolderFacts, PathFacts
    <3>2. "enter" \notin crossed[r] => cwd[Server[r]] = Root
      BY <1>1 DEF Course, Working
    <3> QED BY <1>1, <3>1, <3>2, FolderFacts, HereFacts
  <2> HIDE DEF dir
  <2>3. /\ cwd'[Server[r]] = dir /\ crossed'[r] = crossed[r] \ {"begin"}
        /\ crossed' \in [Request -> SUBSET {"begin", "enter"}]
        /\ pc'[r] = "rename"
    BY <1>1, <1>2, <2>1 DEF GoTo
  <2>4. Course(r)'
    BY <1>1, <2>2, <2>3 DEF Course, Diverted, InFolder, Working
  <2> QED BY <1>1, <2>3, <2>4, OwnCourse
<1>3. CASE Finish(r, "internal") /\ UNCHANGED <<cwd, crossed>>
  <2>1. pc'[r] = "end"
    BY <1>1, <1>3 DEF Finish, GoTo
  <2> QED BY <1>1, <1>3, <2>1, SameCourse
<1> QED BY <1>2, <1>3 DEF Enter

(* A step that changes some of the paths its handler names                 *)
LEMMA NamedCourse ==
    ASSUME Workers, CInv, NEW r \in Request, Solve(r), NEW t, Change(r, t),
           NEW paths \in SUBSET Path, \A p \in Path \ paths : t[p] = tree[p],
           paths \subseteq Named(r) \/ Diverted(r),
           cwd' = cwd, crossed' = crossed,
           pc'[r] \notin {"test", "enter", "place", "rename"},
           pc'[r] = "end" \/ (Working(r) /\ pc[r] # "rename"),
           pc'[r] = "pack" /\ "enter" \notin crossed[r] => dst'[r] = ZipOf(Target[r])
    PROVE  CInv'
<1> DEFINE some == {p \in Path : t[p] # tree[p]}
<1>1. changed' = [changed EXCEPT ![r] = @ \cup some]
  BY DEF Change
<1>2. some \subseteq paths
  OBVIOUS
<1>3. some \in SUBSET Path /\ (some \subseteq Named(r) \/ Diverted(r))
  BY <1>2
<1> HIDE DEF some
<1> QED BY <1>1, <1>3, ChangeCourse

(* In the directory it expects, a rename takes the file that its request   *)
(* names to the place it names (server_resource.py:76-90).                 *)
LEMMA RenameWords ==
    ASSUME TInv, CInv, NEW r \in Request, pc[r] = "rename", ~ Diverted(r)
    PROVE  Here(r, src[r]) = Target[r] /\ Here(r, dst[r]) \in Goal(r)
<1>1. /\ Workers /\ Course(r) /\ Held(r) /\ Kind[r] \in {"rename", "move"}
      /\ Server[r] \in Process
  BY RequestFacts DEF TInv, CInv, Workers, AtOwnStep
<1>2. /\ Target[r] = Front(Target[r]) \o Base(r)
      /\ InFolder(r) <=> Kind[r] = "rename" /\ Front(Target[r]) # Root
  BY <1>1, RequestFacts
<1>3. CASE Kind[r] = "rename"
  <2>1. src[r] = Base(r) /\ dst[r] = Arg[r] /\ cwd[Server[r]] = Front(Target[r])
    BY <1>1, <1>2, <1>3 DEF Held, Course
  <2>2. Here(r, src[r]) = Target[r] /\ Here(r, dst[r]) = Front(Target[r]) \o Arg[r]
    BY <1>2, <2>1 DEF Here
  <2> QED BY <1>3, <2>2 DEF Goal
<1>4. CASE Kind[r] = "move"
  <2>1. /\ src[r] = Target[r] /\ dst[r] \in {Arg[r], Arg[r] \o Base(r)}
        /\ cwd[Server[r]] = Root
    BY <1>1, <1>2, <1>4 DEF Held, Course
  <2>2. Here(r, src[r]) = src[r] /\ Here(r, dst[r]) = dst[r]
    BY <1>1, <1>4, <2>1, WordTypes, HereFacts
  <2> QED BY <1>4, <2>1, <2>2 DEF Goal
<1> QED BY <1>1, <1>3, <1>4

(* A handler that is not diverted, and does not rename, means by a path    *)
(* the one below the resource's folder.                                    *)
LEMMA StraightPaths ==
    ASSUME TInv, CInv, NEW r \in Request, Working(r), pc[r] # "rename",
           ~ Diverted(r), Kind[r] # "rename", NEW p \in Seq(Name), p # Root
    PROVE  Here(r, p) = p
<1>1. Workers /\ Course(r) /\ "enter" \notin crossed[r]
  BY DEF TInv, CInv, Diverted, InFolder
<1>2. cwd[Server[r]] = Root
  BY <1>1 DEF Course
<1> QED BY <1>1, <1>2, HereFacts

(* A rename changes the two paths it names (server_resource.py:85, 90).    *)
LEMMA RenameCourse ==
    ASSUME TInv, CInv, NEW r \in Request, Rename(r)
    PROVE  CInv'
<1> DEFINE from == Here(r, src[r])
           to == Here(r, dst[r])
           t == [tree EXCEPT ![from] = Absent, ![to] = tree[from]]
           paths == {from, to} \cap Path
<1>1. /\ Workers /\ IsTree(tree) /\ Solve(r) /\ pc[r] = "rename"
      /\ pc \in [Request -> Steps]
  BY DEF TInv, Solve, Rename, Workers
<1>2. Finish(r, "changed") \/ Finish(r, "internal")
  BY DEF Rename, Fail
<1>3. pc'[r] = "end" /\ cwd' = cwd /\ crossed' = crossed
  BY <1>1, <1>2 DEF Finish, GoTo, Rename
<1>4. Change(r, t) \/ NoChange
  BY DEF Rename, Fail
<1>5. paths \subseteq Named(r) \/ Diverted(r)
  BY <1>1, RenameWords DEF TInv, Workers, AtOwnStep, Named
<1>6. \A p \in Path \ paths : t[p] = tree[p]
  BY <1>1 DEF IsTree
<1> HIDE DEF t
<1>7. CASE Change(r, t)
  <2>1. paths \in SUBSET Path
    OBVIOUS
  <2> HIDE DEF paths
  <2> QED BY <1>1, <1>3, <1>5, <1>6, <1>7, <2>1, NamedCourse
<1>8. CASE NoChange
  <2>1. changed' = [changed EXCEPT ![r] = @ \cup {}] /\ {} \in SUBSET Path
    BY <1>8 DEF NoChange, CInv
  <2> QED BY <1>1, <1>3, <2>1, ChangeCourse
<1> QED BY <1>4, <1>7, <1>8

(* A file or a folder that is removed is the one named, or in it           *)
(* (server_resource.py:148-155).                                           *)
LEMMA DeleteCourse ==
    ASSUME TInv, CInv, NEW r \in Request,
           RemoveFile(r) \/ Rmtree(r) \/ Sweep(r) \/ Rmdir(r)
    PROVE  CInv'
<1>1. /\ Workers /\ IsTree(tree) /\ Solve(r) /\ Kind[r] = "delete" /\ Held(r)
      /\ pc[r] \in {"remove", "rmtree", "sweep"} /\ Working(r)
      /\ pc \in [Request -> Steps] /\ entries \in [Request -> SUBSET Name]
  BY DEF TInv, Solve, Workers, RemoveFile, Rmtree, Sweep, Rmdir, AtOwnStep, Working
<1>2. cwd' = cwd /\ crossed' = crossed
  BY DEF RemoveFile, Rmtree, Sweep, Rmdir
<1>3. pc'[r] \in {"end", "sweep"}
  <2>1. CASE Sweep(r)
    BY <1>1, <2>1 DEF Sweep, Fail, Finish, GoTo
  <2>2. CASE RemoveFile(r) \/ Rmtree(r) \/ Rmdir(r)
    BY <1>1, <2>2 DEF RemoveFile, Rmtree, Rmdir, Fail, Finish, GoTo
  <2> QED BY <2>1, <2>2
<1>4. CASE NoChange
  <2>1. changed' = changed
    BY <1>4 DEF NoChange
  <2> QED BY <1>1, <1>2, <1>3, <2>1, SameCourse
<1>5. ASSUME NEW p, p \in Named(r) \/ Diverted(r), Change(r, [tree EXCEPT ![p] = Absent])
      PROVE  CInv'
  <2> DEFINE paths == {p} \cap Path
             t == [tree EXCEPT ![p] = Absent]
  <2>1. \A q \in Path \ paths : t[q] = tree[q]
    BY <1>1 DEF IsTree
  <2>2. paths \in SUBSET Path /\ (paths \subseteq Named(r) \/ Diverted(r))
    BY <1>5
  <2>3. Change(r, t)
    BY <1>5
  <2> HIDE DEF t, paths
  <2> QED BY <1>1, <1>2, <1>3, <2>1, <2>2, <2>3, NamedCourse
<1>6. ~ Diverted(r) => Here(r, Target[r]) \in Named(r)
  <2>1. Target[r] \in Named(r) /\ Target[r] \in Seq(Name) /\ Target[r] # Root
    BY <1>1, WordTypes DEF Named
  <2>2. ~ Diverted(r) => Here(r, Target[r]) = Target[r]
    BY <1>1, <2>1, StraightPaths
  <2> QED BY <2>1, <2>2
<1>7. CASE RemoveFile(r) \/ Rmdir(r)
  <2>1. NoChange \/ Change(r, [tree EXCEPT ![Here(r, Target[r])] = Absent])
    BY <1>7 DEF RemoveFile, Rmdir, Fail
  <2> QED BY <1>4, <1>5, <1>6, <2>1
<1>8. CASE Rmtree(r)
  BY <1>4, <1>8 DEF Rmtree, Fail
<1>9. CASE Sweep(r)
  <2>1. PICK n \in entries[r] :
           NoChange \/ Change(r, [tree EXCEPT ![src[r] \o <<n>>] = Absent])
    BY <1>9 DEF Sweep, Fail
  <2>2. src[r] = Target[r] /\ n \in Name
    BY <1>1, <1>9, <2>1 DEF Held, Sweep
  <2>3. src[r] \o <<n>> \in Named(r)
    BY <1>1, <2>2 DEF Named
  <2> QED BY <1>4, <1>5, <2>1, <2>3
<1> QED BY <1>7, <1>8, <1>9

(* An archive is made, filled and deleted at the place of the folder's     *)
(* archive (drive_spliter.py:46-52, 96-97; drive_utils.py:86-97).          *)
LEMMA ArchiveCourse ==
    ASSUME TInv, CInv, NEW r \in Request,
           Compress(r) \/ Pack(r) \/ Packed(r) \/ SendEnds(r)
    PROVE  CInv'
<1>1. /\ Workers /\ IsTree(tree) /\ Solve(r) /\ Kind[r] = "get" /\ Held(r) /\ Course(r)
      /\ pc[r] \in {"zip", "pack", "send"} /\ Working(r) /\ (IsFolder(r) => Named(r) = {ZipOf(Target[r])})
      /\ pc \in [Request -> Steps] /\ dst \in [Request -> Seq(Name)]
  BY DEF TInv, CInv, Solve, Get, Workers, Compress, Pack, Packed, SendEnds, AtOwnStep,
         Working, Named
<1>2. cwd' = cwd /\ crossed' = crossed
  BY DEF Compress, Pack, Packed, SendEnds, history
<1>3. Diverted(r) <=> "enter" \in crossed[r]
  BY <1>1 DEF Diverted, InFolder
<1>4. ASSUME NEW p, p \in Named(r) \/ Diverted(r), NEW t, Change(r, t),
             \A q \in Path \ {p} : t[q] = tree[q],
             pc'[r] \in {"size", "end"} \/
             (pc'[r] = "pack" /\ ("enter" \notin crossed[r] => dst'[r] = ZipOf(Target[r])))
      PROVE  CInv'
  <2> DEFINE paths == {p} \cap Path
  <2>1. \A q \in Path \ paths : t[q] = tree[q]
    BY <1>4
  <2>2. paths \in SUBSET Path /\ (paths \subseteq Named(r) \/ Diverted(r))
    BY <1>4
  <2> HIDE DEF paths
  <2> QED BY <1>1, <1>2, <1>4, <2>1, <2>2, NamedCourse
<1>5. CASE NoChange /\ pc'[r] \in {"size", "end"}
  <2>1. changed' = changed
    BY <1>5 DEF NoChange
  <2> QED BY <1>1, <1>2, <1>5, <2>1, SameCourse
<1>6. IsFolder(r) /\ ~ Diverted(r) => Here(r, ZipOf(Target[r])) = ZipOf(Target[r])
  <2>1. IsFolder(r) => ZipOf(Target[r]) \in Path
    BY ZipFacts DEF IsFolder, Folders
  <2>2. IsFolder(r) => ZipOf(Target[r]) \in Seq(Name) /\ ZipOf(Target[r]) # Root
    BY <2>1, PathFacts
  <2> QED BY <1>1, <2>1, <2>2, StraightPaths
<1>7. CASE Compress(r)
  <2> DEFINE z == Here(r, ZipOf(Target[r]))
             t == [tree EXCEPT ![z] = {}]
  <2>1. IsFolder(r)
    BY <1>1, <1>7 DEF Held, Compress
  <2>2. (~ Diverted(r) => z = ZipOf(Target[r])) /\ \A q \in Path \ {z} : t[q] = tree[q]
    BY <1>1, <1>6, <2>1 DEF IsTree
  <2>3. \/ Change(r, t) /\ dst' = [dst EXCEPT ![r] = z] /\ pc' = [pc EXCEPT ![r] = "pack"]
        \/ NoChange /\ pc' = [pc EXCEPT ![r] = "end"]
    BY <1>7 DEF Compress, Fail, Finish, GoTo
  <2> HIDE DEF t, z
  <2>4. CASE /\ Change(r, t) /\ dst' = [dst EXCEPT ![r] = z]
             /\ pc' = [pc EXCEPT ![r] = "pack"]
    <3>1. pc'[r] = "pack" /\ dst'[r] = z
      BY <1>1, <2>4
    <3> QED BY <1>1, <1>3, <1>4, <2>1, <2>2, <2>4, <3>1
  <2>5. CASE NoChange /\ pc' = [pc EXCEPT ![r] = "end"]
    BY <1>1, <1>5, <2>5
  <2> QED BY <2>3, <2>4, <2>5
<1>8. ASSUME NEW z, NEW parts
      PROVE  \A q \in Path \ {z} : Into(z, parts)[q] = tree[q]
  BY <1>1 DEF Into, IsTree
<1>9. pc[r] = "pack" => dst[r] \in Named(r) \/ Diverted(r)
  BY <1>1, <1>3 DEF Course, Held
<1>10. CASE Pack(r)
  <2>1. dst' = dst /\ pc[r] = "pack"
    BY <1>10 DEF Pack
  <2>2. \/ /\ pc' = pc
           /\ \E parts : Change(r, Into(dst[r], parts))
        \/ NoChange /\ pc' = [pc EXCEPT ![r] = "end"]
    BY <1>10 DEF Pack, GoTo
  <2>3. CASE NoChange /\ pc' = [pc EXCEPT ![r] = "end"]
    BY <1>1, <1>5, <2>3
  <2>4. ASSUME NEW parts, Change(r, Into(dst[r], parts)), pc' = pc
        PROVE  CInv'
    <3>1. \A q \in Path \ {dst[r]} : Into(dst[r], parts)[q] = tree[q]
      BY <1>8
    <3>2. "enter" \notin crossed[r] => dst'[r] = ZipOf(Target[r])
      BY <1>1, <2>1 DEF Course
    <3> QED BY <1>4, <1>9, <2>1, <2>4, <3>1, <3>2
  <2> QED BY <2>2, <2>3, <2>4
<1>11. CASE Packed(r)
  <2>1. Change(r, Into(dst[r], {Archive})) /\ pc[r] = "pack" /\ pc'[r] = "size"
    BY <1>1, <1>11 DEF Packed, GoTo
  <2>2. \A q \in Path \ {dst[r]} : Into(dst[r], {Archive})[q] = tree[q]
    BY <1>8
  <2> QED BY <1>4, <1>9, <2>1, <2>2
<1>12. CASE SendEnds(r)
  <2> DEFINE p == Here(r, src[r])
  <2>1. pc'[r] = "end"
    BY <1>1, <1>12 DEF SendEnds, Finish, GoTo
  <2>2. NoChange \/ (Zipped(r) /\ Change(r, Without(tree, p)))
    BY <1>12 DEF SendEnds
  <2>3. \A q \in Path \ {p} : Without(tree, p)[q] = tree[q]
    BY <1>1 DEF Without, IsTree
  <2>4. Zipped(r) => IsFolder(r) /\ src[r] = ZipOf(Target[r])
    BY <1>1, <1>12 DEF SendEnds, Held, Zipped
  <2>5. Zipped(r) => p \in Named(r) \/ Diverted(r)
    BY <1>1, <1>6, <2>4
  <2> HIDE DEF p
  <2> QED BY <1>4, <1>5, <2>1, <2>2, <2>3, <2>5
<1> QED BY <1>7, <1>10, <1>11, <1>12

(* A block goes where its name or an upload of its client says             *)
(* (server_resource.py:119-132, 209-211; drive_assembler.py:43-75).        *)
LEMMA WriteCourse ==
    ASSUME TInv, CInv, NEW r \in Request, Write(r)
    PROVE  CInv'
<1> DEFINE path == savePath[Server[r]]
           word == (IF path = None THEN Root ELSE path) \o Base(r)
           place == Here(r, word)
           old == IF IsFile(place) THEN tree[place] ELSE {}
           older == Here(r, Base(r))
           cleared == Without(tree, older)
           kept == IF place = older THEN {} ELSE old
           t == [cleared EXCEPT ![place] = kept \cup {r}]
           paths == {place, older} \cap Path
<1>1. /\ Workers /\ IsTree(tree) /\ Solve(r) /\ Kind[r] = "block"
      /\ pc[r] = "write" /\ Working(r) /\ Server[r] \in Process
      /\ pc \in [Request -> Steps]
  BY RequestFacts DEF TInv, Solve, Upload, Workers, Write, AtOwnStep, Working
<1>2. cwd' = cwd /\ crossed' = crossed /\ pc'[r] = "end"
  BY <1>1 DEF Write, Finish, GoTo
<1>3. Change(r, t) \/ Change(r, cleared)
  BY DEF Write
<1>4. ~ Diverted(r) => {place, older} \subseteq Named(r)
  <2>1. /\ word \in Seq(Name) /\ word # Root /\ Base(r) \in Seq(Name) /\ Base(r) # Root
        /\ path = None => word = Base(r)
    BY <1>1, SaveWords, WordTypes
  <2>2. path = None \/ \E u \in Announced(r) : word = Arg[u] \o Base(r)
    BY <1>1 DEF Workers, Announced
  <2>3. word \in Named(r) /\ Base(r) \in Named(r)
    BY <1>1, <2>1, <2>2 DEF Named
  <2> HIDE DEF word, path
  <2>4. ~ Diverted(r) => place = word /\ older = Base(r)
    BY <1>1, <2>1, StraightPaths
  <2> QED BY <2>3, <2>4
<1>5. /\ \A q \in Path \ {older} : cleared[q] = tree[q]
      /\ cleared \in [Path -> Content]
  <2>1. IsTree(cleared)
    BY <1>1, WithoutTree
  <2> QED BY <1>1, <2>1 DEF Without, IsTree
<1> HIDE DEF cleared, kept, older, place
<1>6. \A q \in Path \ paths : t[q] = tree[q] /\ cleared[q] = tree[q]
  BY <1>5
<1>7. paths \in SUBSET Path /\ (paths \subseteq Named(r) \/ Diverted(r))
  BY <1>4
<1> HIDE DEF paths, t
<1> QED BY <1>1, <1>2, <1>3, <1>6, <1>7, NamedCourse

(* The other steps change no file.                                         *)
LEMMA LookCourse ==
    ASSUME TInv, CInv, NEW r \in Request,
           Size(r) \/ Open(r) \/ SendFails(r) \/ SavePath(r) \/ Conflict(r) \/ Fetch(r)
    PROVE  CInv'
<1>1. Workers /\ Solve(r) /\ pc \in [Request -> Steps]
  BY DEF TInv, Solve, Get, Upload, Workers
<1>2. changed' = changed /\ cwd' = cwd /\ crossed' = crossed
  BY DEF Size, Open, SendFails, SavePath, Conflict, Fetch, Walk, Descend, WalkEnds,
         NoChange, history
<1>3. /\ pc[r] \in {"size", "open", "send", "save", "conflict", "walk", "descend"}
      /\ pc'[r] \in {"end", "open", "send", "conflict", "descend"}
  <2>1. CASE Size(r) \/ Open(r) \/ SendFails(r)
    BY <1>1, <2>1 DEF Size, Open, SendFails, Finish, GoTo
  <2>2. CASE SavePath(r) \/ Conflict(r)
    BY <1>1, <2>2 DEF SavePath, Conflict, Finish, GoTo
  <2>3. CASE Fetch(r)
    BY <1>1, <2>3 DEF Fetch, Walk, Descend, WalkEnds, Finish, GoTo
  <2> QED BY <2>1, <2>2, <2>3
<1>4. Working(r)
  BY <1>3 DEF Working
<1> QED BY <1>1, <1>2, <1>3, <1>4, SameCourse

(* At the start nothing is changed, in the resource's folder.              *)
LEMMA InitCInv == Init => CInv
BY DEF Init, CInv, Course, Working

(* Every step keeps the workers on their courses.                          *)
LEMMA NextCInv == TInv /\ CInv /\ [Next]_vars => CInv'
<1> SUFFICES ASSUME TInv, CInv, [Next]_vars
             PROVE  CInv'
  OBVIOUS
<1>1. CASE UNCHANGED vars
  BY <1>1 DEF CInv, Course, Working, Diverted, Named, Goal, IsFolder, ZipOf, InFolder, vars,
              worker, history
<1>2. ASSUME NEW r \in Request, Begin(r)
      PROVE  CInv'
  BY <1>2, BeginCourse DEF TInv
<1>3. ASSUME NEW r \in Request, Solve(r)
      PROVE  CInv'
  <2>1. CASE Test(r) \/ PlaceIn(r) \/ Enter(r) \/ Rename(r)
    BY <2>1, TestCourse, EnterCourse, RenameCourse DEF TInv
  <2>2. CASE RemoveFile(r) \/ Rmtree(r) \/ Sweep(r) \/ Rmdir(r)
    BY <2>2, DeleteCourse
  <2>3. CASE Compress(r) \/ Pack(r) \/ Packed(r) \/ SendEnds(r) \/ Write(r)
    BY <2>3, ArchiveCourse, WriteCourse
  <2>4. CASE Size(r) \/ Open(r) \/ SendFails(r) \/ SavePath(r) \/ Conflict(r) \/ Fetch(r)
    BY <2>4, LookCourse
  <2> QED BY <1>3, <2>1, <2>2, <2>3, <2>4 DEF Solve, Get, Upload
<1> QED BY <1>1, <1>2, <1>3 DEF Next

(* A handler changes only what its request names, unless another worker    *)
(* set the directory meanwhile (server_resource.py:76-90, 148-155,         *)
(* 209-211).                                                               *)
THEOREM Touches == Spec => []TouchesNamed
<1>1. CInv => TouchesNamed
  BY DEF CInv, Course, TouchesNamed
<1> QED BY <1>1, InitTInv, NextTInv, InitCInv, NextCInv, PTL DEF Spec

-----------------------------------------------------------------------------
(* What a walk lists *)

(* A change is known to all that are at work, the one that makes it apart. *)
LEMMA ChangeSeen ==
    ASSUME WInv, NEW r \in Request, NEW t, Change(r, t)
    PROVE  /\ touched' \in [Request -> SUBSET Path]
           /\ \A s \in Request : s # r /\ pc[s] # "ready" =>
                 /\ touched[s] \subseteq touched'[s]
                 /\ \A p \in Path \ touched'[s] : tree'[p] = tree[p]
<1> DEFINE paths == {p \in Path : t[p] # tree[p]}
<1>1. /\ tree' = t
      /\ touched' = [s \in Request |-> IF s = r \/ pc[s] = "ready" THEN touched[s]
                                                   ELSE touched[s] \cup paths]
      /\ touched \in [Request -> SUBSET Path]
  BY DEF Change, WInv
<1>2. paths \subseteq Path
  OBVIOUS
<1>3. touched' \in [Request -> SUBSET Path]
  <2> HIDE DEF paths
  <2> QED BY <1>1, <1>2
<1>4. ASSUME NEW s \in Request, s # r, pc[s] # "ready"
      PROVE  /\ touched[s] \subseteq touched'[s]
             /\ \A p \in Path \ touched'[s] : tree'[p] = tree[p]
  <2>1. touched'[s] = touched[s] \cup paths
    BY <1>1, <1>4
  <2> QED BY <1>1, <2>1
<1> QED BY <1>3, <1>4

(* Every step changes the tree and makes it known, or does not change it.  *)
LEMMA StepSeen ==
    ASSUME WInv, NEW r \in Request, Begin(r) \/ Solve(r)
    PROVE  \/ \E t : Change(r, t)
           \/ /\ tree' = tree
              /\ \/ touched' = touched
                 \/ touched' = [touched EXCEPT ![r] = {}]
<1> USE DEF NoChange, Fail
<1>1. CASE Begin(r) \/ Test(r) \/ Enter(r) \/ PlaceIn(r)
  BY <1>1 DEF Begin, Test, Enter, PlaceIn
<1>2. CASE Rename(r)
  BY <1>2 DEF Rename
<1>3. CASE RemoveFile(r) \/ Rmtree(r)
  BY <1>3 DEF RemoveFile, Rmtree
<1>4. CASE Sweep(r)
  BY <1>4 DEF Sweep
<1>5. CASE Rmdir(r)
  BY <1>5 DEF Rmdir
<1>6. CASE Compress(r)
  BY <1>6 DEF Compress
<1>7. CASE Pack(r) \/ Packed(r)
  BY <1>7 DEF Pack, Packed
<1>8. CASE Size(r) \/ Open(r) \/ SendFails(r) \/ SendEnds(r)
  BY <1>8 DEF Size, Open, SendFails, SendEnds
<1>9. CASE SavePath(r) \/ Conflict(r) \/ Fetch(r)
  BY <1>9 DEF SavePath, Conflict, Fetch, Walk, Descend, WalkEnds
<1>10. CASE Write(r)
  BY <1>10 DEF Write
<1> QED BY <1>1, <1>2, <1>3, <1>4, <1>5, <1>6, <1>7, <1>8, <1>9, <1>10
        DEF Solve, Get, Upload

(* What a walk has found is not disturbed by another worker.               *)
LEMMA OthersFound ==
    ASSUME WInv, NEW r \in Request, Begin(r) \/ Solve(r)
    PROVE  /\ there' \in [Request -> SUBSET Path]
           /\ listed' \in [Request -> SUBSET Seq(Name)]
           /\ \A s \in Request \ {r} : there'[s] = there[s] /\ listed'[s] = listed[s]
<1>0. there \in [Request -> SUBSET Path] /\ listed \in [Request -> SUBSET Seq(Name)]
  BY DEF WInv
<1>1. CASE Begin(r)
  <2>1. there' = there /\ listed' = [listed EXCEPT ![r] = {}]
    BY <1>1 DEF Begin
  <2> QED BY <1>0, <2>1
<1>2. CASE Walk(r)
  <2>1. /\ there' = [there EXCEPT ![r] = {p \in Path : Exists(p)}]
        /\ listed' = [listed EXCEPT ![r] = {<<n>> : n \in Children(Root)}]
    BY <1>2 DEF Walk
  <2>2. {<<n>> : n \in Children(Root)} \in SUBSET Seq(Name)
    BY ShortPaths DEF Children
  <2> QED BY <1>0, <2>1, <2>2
<1>3. CASE Descend(r)
  <2>1. PICK f \in entries[r] :
           listed' = [listed EXCEPT ![r] = @ \cup {<<f, n>> : n \in Children(<<f>>)}]
    BY <1>3 DEF Descend
  <2>2. {<<f, n>> : n \in Children(<<f>>)} \in SUBSET Seq(Name)
    <3> SUFFICES ASSUME NEW n \in Children(<<f>>)
                 PROVE  <<f, n>> \in Seq(Name)
      OBVIOUS
    <3>1. <<f>> \o <<n>> \in Path
      BY DEF Children, Exists
    <3>2. <<f>> \o <<n>> \in Seq(Name) /\ n \in Name
      BY <3>1, PathFacts DEF Children
    <3>3. f \in Name
      BY <3>2
    <3> QED BY <3>2, <3>3
  <2>3. there' = there
    BY <1>3 DEF Descend
  <2> QED BY <1>0, <2>1, <2>2, <2>3
<1>4. CASE Solve(r) /\ ~ Walk(r) /\ ~ Descend(r)
  <2>1. UNCHANGED <<there, listed>>
    <3>1. CASE Test(r) \/ Enter(r) \/ PlaceIn(r) \/ Rename(r) \/ RemoveFile(r)
      BY <3>1 DEF Test, Enter, PlaceIn, Rename, RemoveFile
    <3>2. CASE Rmtree(r) \/ Sweep(r) \/ Rmdir(r)
      BY <3>2 DEF Rmtree, Sweep, Rmdir
    <3>3. CASE Get(r)
      BY <3>3 DEF Get, Compress, Pack, Packed, Size, Open, SendFails, SendEnds, history
    <3>4. CASE Upload(r) \/ WalkEnds(r)
      BY <3>4 DEF Upload, SavePath, Conflict, Write, WalkEnds, history
    <3> QED BY <1>4, <3>1, <3>2, <3>3, <3>4 DEF Solve, Fetch
  <2> QED BY <1>0, <2>1
<1> QED BY <1>1, <1>2, <1>3, <1>4

(* The walk of another worker learns of what the step changes.             *)
LEMMA OthersListing ==
    ASSUME Workers, WInv, NEW r \in Request, Begin(r) \/ Solve(r),
           NEW s \in Request, s # r
    PROVE  Listing(s)'
<1>1. /\ pc'[s] = pc[s] /\ entries'[s] = entries[s]
      /\ there'[s] = there[s] /\ listed'[s] = listed[s]
  BY OthersStay, OthersFound
<1>2. pc[s] # "ready" => /\ touched[s] \subseteq touched'[s]
                         /\ \A p \in Path \ touched'[s] : tree'[p] = tree[p]
  <2>1. ASSUME NEW t, Change(r, t)
        PROVE  pc[s] # "ready" => /\ touched[s] \subseteq touched'[s]
                                  /\ \A p \in Path \ touched'[s] : tree'[p] = tree[p]
    BY <2>1, ChangeSeen
  <2>2. CASE /\ tree' = tree
             /\ touched' = touched \/ touched' = [touched EXCEPT ![r] = {}]
    <3>1. touched \in [Request -> SUBSET Path]
      BY DEF WInv
    <3>2. touched'[s] = touched[s]
      BY <2>2, <3>1
    <3> QED BY <2>2, <3>2
  <2> QED BY <2>1, <2>2, StepSeen
<1>3. ASSUME NEW p \in Path \ touched'[s], pc[s] # "ready"
      PROVE  p \in Path \ touched[s] /\ (Exists(p)' <=> Exists(p))
  BY <1>2, <1>3 DEF Exists
<1>4. Listing(s)
  BY DEF WInv
<1>5. ASSUME Kind[s] = "fetch", pc[s] = "descend", NEW p \in Path \ touched'[s]
      PROVE  /\ p \in there'[s] <=> Exists(p)'
             /\ Front(p) = Root \/ Last(Front(p)) \notin entries'[s] => Right(s, p)'
  <2>1. p \in Path \ touched[s] /\ (Exists(p)' <=> Exists(p))
    BY <1>3, <1>5
  <2>2. /\ p \in there[s] <=> Exists(p)
        /\ Front(p) = Root \/ Last(Front(p)) \notin entries[s] => Right(s, p)
    BY <1>4, <1>5, <2>1 DEF Listing
  <2> QED BY <1>1, <2>1, <2>2 DEF Right
<1>6. ASSUME Kind[s] = "fetch", pc[s] = "end", NEW p \in Path \ touched'[s]
      PROVE  Right(s, p)'
  <2>1. p \in Path \ touched[s]
    BY <1>3, <1>6
  <2>2. Right(s, p)
    BY <1>4, <1>6, <2>1 DEF Listing
  <2> QED BY <1>1, <2>2 DEF Right
<1>7. ASSUME Kind[s] = "fetch", pc[s] = "descend", NEW p \in Path,
             Front(p) # Root, Last(Front(p)) \in entries'[s]
      PROVE  p \notin listed'[s]
  BY <1>1, <1>4, <1>7 DEF Listing
<1> QED BY <1>1, <1>5, <1>6, <1>7 DEF Listing

(* Only a FETCH walks.                                                     *)
LEMMA KindOfWalk ==
    ASSUME TInv, NEW r \in Request, pc[r] = "descend"
    PROVE  Kind[r] = "fetch"
BY DEF TInv, Workers, AtOwnStep

(* The walk begins with the names in the resource's folder, and has the    *)
(* folders among them to visit (drive_utils.py:133-136).                   *)
LEMMA WalkListing ==
    ASSUME TInv, WInv, NEW r \in Request, Walk(r)
    PROVE  Listing(r)' /\ touched' \in [Request -> SUBSET Path]
<1>0. /\ touched \in [Request -> SUBSET Path] /\ there \in [Request -> SUBSET Path]
      /\ listed \in [Request -> SUBSET Seq(Name)] /\ IsTree(tree)
      /\ entries \in [Request -> SUBSET Name] /\ pc \in [Request -> Steps]
  BY DEF WInv, TInv, Workers
<1>1. /\ there'[r] = {p \in Path : Exists(p)}
      /\ touched' \in [Request -> SUBSET Path]
      /\ listed'[r] = {<<n>> : n \in Children(Root)}
      /\ entries'[r] = Subfolders(Root)
      /\ pc'[r] = "descend" /\ tree' = tree
  BY <1>0 DEF Walk, GoTo
<1>2. \A p \in Path : Exists(p)' <=> Exists(p)
  BY <1>1 DEF Exists
<1>3. ASSUME NEW p \in Path, Front(p) = Root
      PROVE  p \in listed'[r] <=> Exists(p)
  <2>1. Last(p) \in Name /\ p = Root \o <<Last(p)>>
    BY <1>3, PathFacts
  <2>2. \A n \in Name : Root \o <<n>> = <<n>>
    BY ShortPaths DEF Root
  <2>3. p = <<Last(p)>>
    BY <2>1, <2>2
  <2>4. Exists(p) => Last(p) \in Children(Root)
    BY <2>1 DEF Children
  <2>5. p \in listed'[r] => Exists(p)
    <3> SUFFICES ASSUME NEW n \in Children(Root), p = <<n>>
                 PROVE  Exists(p)
      BY <1>1
    <3> QED BY <2>2 DEF Children
  <2> QED BY <1>1, <2>3, <2>4, <2>5
<1>4. ASSUME NEW p \in Path, Front(p) # Root
      PROVE  p \notin listed'[r]
  <2>1. \A n \in Name : Front(<<n>>) = Root
    BY ShortPaths DEF Root
  <2> QED BY <1>1, <1>4, <2>1 DEF Children
<1>5. ASSUME NEW p \in Path, Front(p) # Root, Last(Front(p)) \notin Subfolders(Root)
      PROVE  ~ Exists(p)
  <2>1. PICK f \in Folder : Front(p) = <<f>>
    BY <1>5, PathFacts DEF Folders
  <2>2. f \in Name /\ Last(<<f>>) = f /\ Root \o <<f>> = <<f>> /\ <<f>> \in Path
    <3>1. f \in Name
      BY ResourceAssumption
    <3>2. <<f>> \in Path
      BY <3>1 DEF Path
    <3> QED BY <3>1, <3>2, ShortPaths DEF Root
  <2>3. ~ IsDir(<<f>>)
    BY <1>0, <1>5, <2>1, <2>2, ContentFacts
       DEF Subfolders, Children, Exists, IsDir
  <2>4. tree[<<f>>] # Dir
    BY <1>0, <2>2, <2>3, TreeFacts
  <2> QED BY <1>0, <1>5, <2>1, <2>4 DEF IsTree, Exists
<1> QED BY <1>1, <1>2, <1>3, <1>4, <1>5 DEF Listing, Right

(* A folder is visited: what it holds is listed (drive_utils.py:137-145).  *)
LEMMA DescendListing ==
    ASSUME TInv, WInv, NEW r \in Request, Descend(r)
    PROVE  Listing(r)' /\ touched' \in [Request -> SUBSET Path]
<1>0. /\ touched \in [Request -> SUBSET Path] /\ Listing(r)
      /\ listed \in [Request -> SUBSET Seq(Name)]
      /\ entries \in [Request -> SUBSET Name]
  BY DEF WInv, TInv, Workers
<1>1. /\ pc' = pc /\ pc[r] = "descend" /\ tree' = tree /\ touched' = touched
      /\ there' = there
  BY DEF Descend, NoChange
<1>2. PICK f \in entries[r] :
         /\ listed' = [listed EXCEPT ![r] = @ \cup {<<f, n>> : n \in Children(<<f>>)}]
         /\ entries' = [entries EXCEPT ![r] = @ \ {f}]
  BY DEF Descend
<1>3. /\ listed'[r] = listed[r] \cup {<<f, n>> : n \in Children(<<f>>)}
      /\ entries'[r] = entries[r] \ {f} /\ f \in Name
  BY <1>0, <1>2
<1>4. \A p \in Path : Exists(p)' <=> Exists(p)
  BY <1>1 DEF Exists
<1>5. \A n \in Name : /\ Front(<<f, n>>) = <<f>> /\ Last(<<f, n>>) = n
                      /\ <<f>> \o <<n>> = <<f, n>>
  BY <1>3, ShortPaths
<1>6. <<f>> # Root /\ Last(<<f>>) = f
  BY <1>3, ShortPaths DEF Root
<1>7. ASSUME NEW p \in Path, Front(p) = Root \/ Last(Front(p)) # f
      PROVE  p \in listed'[r] <=> p \in listed[r]
  BY <1>3, <1>5, <1>6, <1>7 DEF Children
<1>8. ASSUME NEW p \in Path, Front(p) # Root, Last(Front(p)) = f
      PROVE  p \in listed'[r] <=> Exists(p)
  <2>1. p \notin listed[r]
    BY <1>0, <1>1, <1>2, <1>8, KindOfWalk DEF Listing
  <2>2. PICK g \in Folder : Front(p) = <<g>>
    BY <1>8, PathFacts DEF Folders
  <2>3. g = f
    <3>1. g \in Name
      BY ResourceAssumption
    <3> QED BY <1>8, <2>2, <3>1, ShortPaths
  <2>4. Last(p) \in Name /\ p = <<f>> \o <<Last(p)>>
    BY <2>2, <2>3, PathFacts
  <2>5. p = <<f, Last(p)>>
    BY <1>5, <2>4
  <2>6. Exists(p) => Last(p) \in Children(<<f>>)
    BY <2>4 DEF Children
  <2>7. p \in listed'[r] => Exists(p)
    <3> SUFFICES ASSUME NEW n \in Children(<<f>>), p = <<f, n>>
                 PROVE  Exists(p)
      BY <1>3, <2>1
    <3> QED BY <1>5 DEF Children
  <2> QED BY <1>3, <2>5, <2>6, <2>7
<1>9. Kind[r] = "fetch"
  BY KindOfWalk, <1>1
<1>10. ASSUME NEW p \in Path \ touched[r]
       PROVE  /\ p \in there[r] <=> Exists(p)
              /\ Front(p) = Root \/ Last(Front(p)) \notin entries'[r]
                     => (p \in listed'[r] <=> p \in there[r])
  <2>1. /\ p \in there[r] <=> Exists(p)
        /\ Front(p) = Root \/ Last(Front(p)) \notin entries[r] => Right(r, p)
    BY <1>0, <1>1, <1>9 DEF Listing
  <2>2. CASE Front(p) = Root \/ Last(Front(p)) # f
    BY <1>3, <1>7, <2>1, <2>2 DEF Right
  <2>3. CASE Front(p) # Root /\ Last(Front(p)) = f
    BY <1>8, <2>1, <2>3
  <2> QED BY <2>1, <2>2, <2>3
<1>11. ASSUME NEW p \in Path, Front(p) # Root, Last(Front(p)) \in entries'[r]
       PROVE  p \notin listed'[r]
  BY <1>0, <1>1, <1>3, <1>7, <1>9, <1>11 DEF Listing
<1> QED BY <1>0, <1>1, <1>4, <1>10, <1>11 DEF Listing, Right

(* The walk ends when no folder is left to visit.                          *)
LEMMA EndListing ==
    ASSUME TInv, WInv, NEW r \in Request, WalkEnds(r)
    PROVE  Listing(r)' /\ touched' \in [Request -> SUBSET Path]
<1>1. /\ touched \in [Request -> SUBSET Path] /\ Listing(r)
      /\ pc \in [Request -> Steps] /\ pc[r] = "descend" /\ entries[r] = {}
  BY DEF WInv, TInv, Workers, WalkEnds
<1>2. /\ touched' = touched /\ there' = there /\ listed' = listed
      /\ pc'[r] = "end"
  BY <1>1 DEF WalkEnds, Finish, GoTo, NoChange
<1>3. Kind[r] = "fetch" => \A p \in Path \ touched[r] : Right(r, p)
  BY <1>1 DEF Listing
<1> QED BY <1>1, <1>2, <1>3 DEF Listing, Right

(* Nothing is listed at the start.                                         *)
LEMMA InitWInv == Init => WInv
BY DEF Init, WInv, Listing

(* Every step keeps the walks right about what nobody touched.             *)
LEMMA NextWInv == TInv /\ WInv /\ [Next]_vars => WInv'
<1> SUFFICES ASSUME TInv, WInv, [Next]_vars
             PROVE  WInv'
  OBVIOUS
<1>1. CASE UNCHANGED vars
  BY <1>1 DEF WInv, Listing, Right, Exists, vars, worker, history
<1>2. ASSUME NEW r \in Request, Begin(r) \/ Solve(r)
      PROVE  WInv'
  <2>1. /\ there' \in [Request -> SUBSET Path]
        /\ listed' \in [Request -> SUBSET Seq(Name)]
    BY <1>2, OthersFound
  <2>2. \A s \in Request \ {r} : Listing(s)'
    BY <1>2, OthersListing DEF TInv
  <2>3. touched' \in [Request -> SUBSET Path]
    <3>1. touched \in [Request -> SUBSET Path]
      BY DEF WInv
    <3>2. \A t : Change(r, t) => touched' \in [Request -> SUBSET Path]
      BY ChangeSeen
    <3>3. touched' = touched \/ touched' = [touched EXCEPT ![r] = {}]
            => touched' \in [Request -> SUBSET Path]
      BY <3>1
    <3> QED BY <1>2, <3>2, <3>3, StepSeen
  <2>4. Listing(r)'
    <3>1. CASE Fetch(r)
      BY <3>1, WalkListing, DescendListing, EndListing DEF Fetch
    <3>2. CASE Begin(r)
      <4>1. pc' = [pc EXCEPT ![r] = FirstStep[Kind[r]]] /\ pc \in [Request -> Steps]
        BY <3>2 DEF Begin, GoTo, TInv, Workers
      <4>2. pc'[r] \in {"test", "save", "write", "walk"}
        BY <4>1, FirstSteps, RequestFacts DEF Kinds
      <4> QED BY <4>2 DEF Listing
    <3>3. CASE Solve(r) /\ ~ Fetch(r)
      <4>1. Kind[r] # "fetch"
        BY <3>3 DEF TInv, Workers, AtOwnStep, Solve, Test, Enter, PlaceIn, Rename,
                    RemoveFile, Rmtree, Sweep, Rmdir, Get, Compress, Pack, Packed,
                    Size, Open, SendFails, SendEnds, Upload, SavePath, Conflict, Write
      <4> QED BY <4>1 DEF Listing
    <3> QED BY <1>2, <3>1, <3>2, <3>3
  <2> QED BY <2>1, <2>2, <2>3, <2>4 DEF WInv
<1> QED BY <1>1, <1>2 DEF Next

(* The list a client gets is right about every path that nobody touched    *)
(* during the walk (drive_utils.py:133-145).                               *)
THEOREM Lists == Spec => []ListsUntouched
<1>1. WInv => ListsUntouched
  BY DEF WInv, Listing, Right, ListsUntouched
<1> QED BY <1>1, InitTInv, NextTInv, InitWInv, NextWInv, PTL DEF Spec

-----------------------------------------------------------------------------
(* What a GET sends *)

(* The files of a folder and its archive, which is none of them            *)
LEMMA ArchiveApart ==
    ASSUME NEW r \in Request, IsFolder(r)
    PROVE  /\ ZipOf(Target[r]) \in Path
           /\ \A n \in Name : /\ Target[r] \o <<n>> \in Path
                              /\ Target[r] \o <<n>> # ZipOf(Target[r])
                              /\ Front(Target[r] \o <<n>>) = Target[r]
<1>1. Target[r] \in Folders
  BY DEF IsFolder, Folders
<1>2. Target[r] # Root /\ ZipOf(Target[r]) \in Path /\ Front(ZipOf(Target[r])) = Root
  BY <1>1, FolderFacts, ZipFacts
<1> HIDE DEF Root
<1>3. \A n \in Name : Target[r] \o <<n>> \in Path /\ Front(Target[r] \o <<n>>) = Target[r]
  BY <1>1, JoinFacts
<1> QED BY <1>2, <1>3

(* The file a GET sends is a path of the tree.                             *)
LEMMA SentPath ==
    ASSUME TInv, NEW r \in Request, pc[r] \in {"pack", "size", "open", "send"}
    PROVE  /\ src[r] \in Path /\ src[r] \in Seq(Name) /\ src[r] # Root
           /\ src[r] \in Reads(r) /\ Target[r] \in Reads(r)
           /\ Zipped(r) \/ pc[r] = "pack" => IsFolder(r) /\ src[r] = ZipOf(Target[r])
           /\ Kind[r] = "get"
<1>1. /\ Held(r) /\ Kind[r] = "get" /\ Target[r] \in Path
  BY RequestFacts DEF TInv, Workers, AtOwnStep
<1>2. Zipped(r) \/ pc[r] = "pack" => IsFolder(r) /\ src[r] = ZipOf(Target[r])
  BY <1>1 DEF Held, Zipped
<1>3. src[r] \in Path
  BY <1>1, <1>2, ArchiveApart DEF Zipped
<1> QED BY <1>1, <1>2, <1>3, PathFacts DEF Reads

(* What a folder holds is the same as long as nobody changes it.           *)
LEMMA SameFolder ==
    ASSUME NEW r \in Request, IsFolder(r),
           \A n \in Name : tree'[Target[r] \o <<n>>] = tree[Target[r] \o <<n>>]
    PROVE  /\ Children(Target[r])' = Children(Target[r])
           /\ Whole(Target[r])' = Whole(Target[r])
           /\ entries'[r] = entries[r] => Gathered(r)' = Gathered(r)
<1>1. Children(Target[r])' = Children(Target[r])
  BY DEF Children, Exists
<1>2. \A n \in Children(Target[r]) :
         tree'[Target[r] \o <<n>>] = tree[Target[r] \o <<n>>]
  BY DEF Children
<1>3. {tree'[Target[r] \o <<n>>] : n \in Children(Target[r])}
      = {tree[Target[r] \o <<n>>] : n \in Children(Target[r])}
  BY <1>2
<1>4. ASSUME entries'[r] = entries[r]
      PROVE  {tree'[Target[r] \o <<n>>] : n \in Children(Target[r]) \ entries'[r]}
             = {tree[Target[r] \o <<n>>] : n \in Children(Target[r]) \ entries[r]}
  BY <1>2, <1>4
<1> QED BY <1>1, <1>3, <1>4 DEF Whole, Gathered

(* A step of another worker does not set what this one has measured.       *)
LEMMA OthersMeasure ==
    ASSUME TInv, VInv, NEW r \in Request, Begin(r) \/ Solve(r)
    PROVE  /\ sized' \in [Request -> Content \cup {None}]
           /\ served' \in [Request -> Content \cup {None}]
           /\ \A s \in Request \ {r} : sized'[s] = sized[s] /\ served'[s] = served[s]
<1>0. /\ sized \in [Request -> Content \cup {None}]
      /\ served \in [Request -> Content \cup {None}]
  BY DEF VInv
<1>1. CASE Begin(r)
  BY <1>0, <1>1 DEF Begin
<1>2. CASE Size(r) \/ Open(r)
  <2>1. \A p : IsFile(p) => tree[p] \in Content
    BY TreeFacts DEF TInv, Content
  <2> QED BY <1>0, <1>2, <2>1 DEF Size, Open
<1>3. CASE Solve(r) /\ ~ Size(r) /\ ~ Open(r)
  <2>1. UNCHANGED <<sized, served>>
    <3>1. CASE Test(r) \/ Enter(r) \/ PlaceIn(r) \/ Rename(r) \/ RemoveFile(r)
      BY <3>1 DEF Test, Enter, PlaceIn, Rename, RemoveFile
    <3>2. CASE Rmtree(r) \/ Sweep(r) \/ Rmdir(r)
      BY <3>2 DEF Rmtree, Sweep, Rmdir
    <3>3. CASE Compress(r) \/ Pack(r) \/ Packed(r) \/ SendFails(r) \/ SendEnds(r)
      BY <3>3 DEF Compress, Pack, Packed, SendFails, SendEnds, history
    <3>4. CASE Upload(r) \/ Fetch(r)
      BY <3>4 DEF Upload, SavePath, Conflict, Write, Fetch, Walk, Descend, WalkEnds, history
    <3> QED BY <1>3, <3>1, <3>2, <3>3, <3>4 DEF Solve, Get
  <2> QED BY <1>0, <2>1
<1> QED BY <1>1, <1>2, <1>3

(* A step of another worker leaves what this one sends, or is seen.        *)
LEMMA OthersQuiet ==
    ASSUME TInv, CInv, WInv, NEW r \in Request, Begin(r) \/ Solve(r),
           NEW s \in Request, s # r, Working(s), Kind[s] = "get", Quiet(s)'
    PROVE  Quiet(s) /\ \A p \in Path \cap Reads(s) : tree'[p] = tree[p]
<1>1. Workers /\ pc'[s] = pc[s] /\ src'[s] = src[s] /\ pc[s] # "ready"
  BY OthersStay DEF TInv, Working
<1>2. crossed[s] \subseteq crossed'[s]
  BY <1>1, OthersDirectory
<1>3. ~ Diverted(s)
  BY <1>2 DEF Quiet, Diverted, InFolder
<1>4. touched[s] \subseteq touched'[s] /\ \A p \in Path \ touched'[s] : tree'[p] = tree[p]
  <2>1. ASSUME NEW t, Change(r, t)
        PROVE  /\ touched[s] \subseteq touched'[s]
               /\ \A p \in Path \ touched'[s] : tree'[p] = tree[p]
    BY <1>1, <2>1, ChangeSeen
  <2>2. CASE /\ tree' = tree
             /\ touched' = touched \/ touched' = [touched EXCEPT ![r] = {}]
    <3>1. touched'[s] = touched[s]
      BY <2>2 DEF WInv
    <3> QED BY <2>2, <3>1
  <2> QED BY <2>1, <2>2, StepSeen
<1>5. Reads(s)' = Reads(s)
  BY <1>1 DEF Reads
<1>6. touched'[s] \cap Reads(s) = {}
  BY <1>5 DEF Quiet
<1> QED BY <1>3, <1>4, <1>6 DEF Quiet

(* What this one has packed and measured is still so.                      *)
LEMMA OthersServing ==
    ASSUME TInv, CInv, WInv, VInv, NEW r \in Request, Begin(r) \/ Solve(r),
           NEW s \in Request, s # r
    PROVE  Serving(s)'
<1>1. /\ pc'[s] = pc[s] /\ src'[s] = src[s] /\ entries'[s] = entries[s]
      /\ sized'[s] = sized[s] /\ served'[s] = served[s] /\ Serving(s)
  BY OthersStay, OthersMeasure DEF TInv, VInv
<1> SUFFICES ASSUME Kind[s] = "get", Quiet(s)', pc[s] \in {"pack", "size", "open", "send"}
             PROVE  Serving(s)'
  BY <1>1 DEF Serving
<1>2. Quiet(s) /\ \A p \in Path \cap Reads(s) : tree'[p] = tree[p]
  BY OthersQuiet DEF Working
<1>3. /\ src[s] \in Path \cap Reads(s)
      /\ Zipped(s) \/ pc[s] = "pack" => IsFolder(s)
  BY SentPath
<1>4. tree'[src[s]] = tree[src[s]] /\ (Zipped(s)' <=> Zipped(s))
  BY <1>1, <1>2, <1>3 DEF Zipped
<1>5. IsFolder(s) => /\ Children(Target[s])' = Children(Target[s])
                     /\ Whole(Target[s])' = Whole(Target[s])
                     /\ Gathered(s)' = Gathered(s)
  <2>1. IsFolder(s) => \A n \in Name : Target[s] \o <<n>> \in Path \cap Reads(s)
    BY ArchiveApart DEF Reads
  <2> QED BY <1>1, <1>2, <2>1, SameFolder
<1> QED BY <1>1, <1>2, <1>3, <1>4, <1>5 DEF Serving

(* The archive of a folder is made, empty, and the folder listed           *)
(* (drive_utils.py:86-89).                                                 *)
LEMMA CompressServing ==
    ASSUME TInv, CInv, WInv, VInv, NEW r \in Request, Compress(r)
    PROVE  Serving(r)'
<1>1. /\ Workers /\ IsTree(tree) /\ Kind[r] = "get" /\ pc[r] = "zip" /\ IsFolder(r)
      /\ pc \in [Request -> Steps] /\ entries \in [Request -> SUBSET Name]
      /\ src \in [Request -> Seq(Name)]
  BY DEF TInv, Workers, AtOwnStep, Held, Compress
<1>2. /\ ZipOf(Target[r]) \in Path /\ ZipOf(Target[r]) \in Seq(Name)
      /\ ZipOf(Target[r]) # Root /\ Target[r] \in Seq(Name) /\ Target[r] # Root
  BY <1>1, ArchiveApart, PathFacts, WordTypes
<1> DEFINE z == Here(r, ZipOf(Target[r]))
<1>3. CASE pc' = [pc EXCEPT ![r] = "end"]
  BY <1>1, <1>3 DEF Serving
<1>4. CASE /\ Change(r, [tree EXCEPT ![z] = {}])
           /\ src' = [src EXCEPT ![r] = ZipOf(Target[r])]
           /\ entries' = [entries EXCEPT ![r] = Children(Here(r, Target[r]))]
           /\ pc' = [pc EXCEPT ![r] = "pack"]
  <2> SUFFICES ASSUME Quiet(r)'
               PROVE  Serving(r)'
    BY DEF Serving
  <2>1. ~ Diverted(r)
    BY DEF Quiet, Diverted, InFolder, Compress
  <2>2. z = ZipOf(Target[r]) /\ Here(r, Target[r]) = Target[r]
    BY <1>1, <1>2, <2>1, StraightPaths DEF Working
  <2>3. tree' = [tree EXCEPT ![ZipOf(Target[r])] = {}] /\ tree \in [Path -> Content]
    BY <1>1, <1>4, <2>2 DEF Change, IsTree
  <2>4. /\ tree'[ZipOf(Target[r])] = {}
        /\ \A n \in Name : tree'[Target[r] \o <<n>>] = tree[Target[r] \o <<n>>]
    BY <1>1, <1>2, <2>3, ArchiveApart
  <2>5. Children(Target[r])' = Children(Target[r])
    BY <1>1, <2>4, SameFolder
  <2>6. /\ pc'[r] = "pack" /\ src'[r] = ZipOf(Target[r])
        /\ entries'[r] = Children(Target[r])
    BY <1>1, <1>4, <2>2
  <2>7. Gathered(r)' = {}
    BY <2>5, <2>6 DEF Gathered
  <2> QED BY <2>4, <2>5, <2>6, <2>7 DEF Serving
<1> QED BY <1>3, <1>4 DEF Compress, Fail, Finish, GoTo

(* What is gathered is the content of files, and the archive is a file.    *)
LEMMA GatheredParts ==
    ASSUME TInv, VInv, NEW r \in Request, Kind[r] = "get", pc[r] = "pack", Quiet(r)
    PROVE  IsFile(src[r]) /\ src[r] \in Path /\ src[r] # Root
<1>1. /\ IsTree(tree) /\ IsFolder(r) /\ src[r] = ZipOf(Target[r]) /\ src[r] \in Path
      /\ src[r] # Root /\ tree[src[r]] = Gathered(r)
  BY SentPath DEF TInv, VInv, Serving
<1>2. ASSUME NEW n \in Children(Target[r])
      PROVE  tree[Target[r] \o <<n>>] \in SUBSET Part
  <2> DEFINE p == Target[r] \o <<n>>
  <2>1. p \in Path /\ Front(p) = Target[r] /\ tree[p] # Absent
    BY <1>1, ArchiveApart DEF Children, Exists
  <2>2. Target[r] # Root
    BY <1>1, FolderFacts DEF IsFolder, Folders
  <2>3. p \notin Folders
    BY <2>1, <2>2, FolderFacts
  <2>4. tree[p] \in Content /\ tree[p] # Dir
    BY <1>1, <2>1, <2>3 DEF IsTree
  <2> QED BY <2>1, <2>4, ContentFacts
<1>3. Gathered(r) \in SUBSET Part
  BY <1>2 DEF Gathered
<1>4. Gathered(r) # Absent /\ Gathered(r) # Dir
  BY <1>3, ContentFacts
<1> QED BY <1>1, <1>4 DEF IsFile, IsDir, Exists

(* Packing adds one file of the folder after another, and the rest of the  *)
(* archive at the end (drive_utils.py:89-93).                              *)
LEMMA PackServing ==
    ASSUME TInv, CInv, WInv, VInv, NEW r \in Request, Pack(r) \/ Packed(r)
    PROVE  Serving(r)'
<1>1. /\ Workers /\ IsTree(tree) /\ Kind[r] = "get" /\ pc[r] = "pack" /\ IsFolder(r)
      /\ pc \in [Request -> Steps] /\ entries \in [Request -> SUBSET Name]
      /\ src[r] = ZipOf(Target[r]) /\ Course(r) /\ Working(r)
  BY DEF TInv, CInv, Workers, AtOwnStep, Held, Pack, Packed, Working
<1>2. src' = src /\ crossed' = crossed /\ touched'[r] = touched[r]
  BY DEF Pack, Packed, Change, NoChange, history, WInv
<1>3. Quiet(r)' => Quiet(r)
  BY <1>2 DEF Quiet, Diverted, InFolder, Reads
<1> SUFFICES ASSUME Quiet(r), pc'[r] # "end"
             PROVE  Serving(r)'
  BY <1>3 DEF Serving
<1>4. dst[r] = src[r]
  BY <1>1 DEF Course, Quiet, Diverted, InFolder
<1>5. IsFile(src[r]) /\ src[r] \in Path /\ src[r] # Root
  BY <1>1, GatheredParts
<1>6. entries[r] \subseteq Children(Target[r]) /\ tree[src[r]] = Gathered(r)
  BY <1>1 DEF VInv, Serving
<1>7. ASSUME NEW parts, tree' = Into(dst[r], parts)
      PROVE  /\ tree'[src[r]] = tree[src[r]] \cup parts
             /\ \A n \in Name : tree'[Target[r] \o <<n>>] = tree[Target[r] \o <<n>>]
             /\ Children(Target[r])' = Children(Target[r])
             /\ Whole(Target[r])' = Whole(Target[r])
  <2>1. tree' = [tree EXCEPT ![src[r]] = @ \cup parts] /\ tree \in [Path -> Content]
    BY <1>1, <1>4, <1>5, <1>7 DEF Into, IsTree
  <2>2. /\ tree'[src[r]] = tree[src[r]] \cup parts
        /\ \A p \in Path \ {src[r]} : tree'[p] = tree[p]
    BY <1>5, <2>1
  <2>3. \A n \in Name : tree'[Target[r] \o <<n>>] = tree[Target[r] \o <<n>>]
    BY <1>1, <2>2, ArchiveApart
  <2> QED BY <1>1, <2>2, <2>3, SameFolder
<1>8. CASE Pack(r)
  <2>1. PICK n \in entries[r] :
           LET p == Here(r, Target[r] \o <<n>>) IN
           /\ entries' = [entries EXCEPT ![r] = @ \ {n}]
           /\ IF IsFile(p)
                THEN /\ Change(r, Into(dst[r], tree[p]))
                     /\ UNCHANGED <<pc, answer, excused>>
                ELSE /\ GoTo(r, "end") /\ NoChange
                     /\ answer' = [answer EXCEPT ![r] = "internal"]
                     /\ excused' = excused \cup {r}
    BY <1>8 DEF Pack
  <2>2. n \in Name /\ n \in Children(Target[r])
    BY <1>1, <1>6, <2>1
  <2>3. Here(r, Target[r] \o <<n>>) = Target[r] \o <<n>>
    <3>1. Target[r] \o <<n>> \in Path
      BY <1>1, <2>2, ArchiveApart
    <3>2. Target[r] \o <<n>> \in Seq(Name) /\ Target[r] \o <<n>> # Root
      BY <3>1, PathFacts
    <3> QED BY <1>1, <3>2, StraightPaths DEF Quiet
  <2>4. /\ tree' = Into(dst[r], tree[Target[r] \o <<n>>]) /\ pc' = pc
        /\ entries'[r] = entries[r] \ {n}
    BY <1>1, <2>1, <2>3 DEF Change, GoTo
  <2>5. /\ tree'[src[r]] = tree[src[r]] \cup tree[Target[r] \o <<n>>]
        /\ \A m \in Name : tree'[Target[r] \o <<m>>] = tree[Target[r] \o <<m>>]
        /\ Children(Target[r])' = Children(Target[r])
    BY <1>7, <2>4
  <2>6. Gathered(r)' = Gathered(r) \cup tree[Target[r] \o <<n>>]
    <3>1. Children(Target[r])' \ entries'[r] = (Children(Target[r]) \ entries[r]) \cup {n}
      BY <1>6, <2>2, <2>4, <2>5
    <3>2. Children(Target[r]) \subseteq Name
      BY DEF Children
    <3>3. Gathered(r)' = UNION {tree'[Target[r] \o <<m>>] :
                                m \in (Children(Target[r]) \ entries[r]) \cup {n}}
      BY <3>1 DEF Gathered
    <3> QED BY <2>2, <2>5, <3>2, <3>3 DEF Gathered
  <2> QED BY <1>1, <1>2, <1>6, <2>4, <2>5, <2>6 DEF Serving
<1>9. CASE Packed(r)
  <2>1. /\ tree' = Into(dst[r], {Archive}) /\ entries[r] = {}
        /\ pc'[r] = "size"
    BY <1>1, <1>9 DEF Packed, Change, GoTo
  <2>2. /\ tree'[src[r]] = tree[src[r]] \cup {Archive}
        /\ Whole(Target[r])' = Whole(Target[r])
    BY <1>7, <2>1
  <2>3. Whole(Target[r]) = Gathered(r) \cup {Archive}
    BY <2>1 DEF Whole, Gathered
  <2> QED BY <1>2, <1>6, <2>1, <2>2, <2>3 DEF Serving
<1> QED BY <1>8, <1>9

(* The file is measured, and then opened (drive_utils.py:60-73, 148-164).  *)
LEMMA OpenServing ==
    ASSUME TInv, CInv, WInv, VInv, NEW r \in Request, Size(r) \/ Open(r)
    PROVE  Serving(r)'
<1>1. /\ Workers /\ Kind[r] = "get" /\ pc[r] \in {"size", "open"} /\ Working(r)
      /\ pc \in [Request -> Steps] /\ Serving(r)
      /\ sized \in [Request -> Content \cup {None}]
      /\ served \in [Request -> Content \cup {None}]
  BY DEF TInv, VInv, Workers, AtOwnStep, Size, Open, Working
<1>2. /\ src' = src /\ crossed' = crossed /\ touched' = touched /\ tree' = tree
  BY DEF Size, Open, NoChange
<1>3. Quiet(r)' => Quiet(r)
  BY <1>2 DEF Quiet, Diverted, InFolder, Reads
<1> SUFFICES ASSUME Quiet(r), pc'[r] # "end"
             PROVE  Serving(r)'
  BY <1>3 DEF Serving
<1>4. Here(r, src[r]) = src[r]
  BY <1>1, SentPath, StraightPaths DEF Quiet
<1>5. Whole(Target[r])' = Whole(Target[r])
  BY <1>2 DEF Whole, Children, Exists
<1>6. Zipped(r)' <=> Zipped(r)
  BY <1>2 DEF Zipped
<1>7. CASE Size(r)
  <2>1. pc'[r] = "open" /\ sized'[r] = tree[src[r]] /\ pc[r] = "size"
    BY <1>1, <1>4, <1>7 DEF Size, Finish, GoTo
  <2> QED BY <1>1, <1>2, <1>5, <1>6, <2>1 DEF Serving
<1>8. CASE Open(r)
  <2>1. /\ pc'[r] = "send" /\ served'[r] = tree[src[r]] /\ sized' = sized
        /\ pc[r] = "open"
    BY <1>1, <1>4, <1>8 DEF Open, Finish, GoTo
  <2> QED BY <1>1, <1>2, <1>5, <1>6, <2>1 DEF Serving
<1> QED BY <1>7, <1>8

(* The other steps come before a file is measured, or end the transfer.    *)
LEMMA TestServing ==
    ASSUME TInv, NEW r \in Request,
           Begin(r) \/ Test(r) \/ SendFails(r) \/ SendEnds(r)
    PROVE  Serving(r)'
<1>1. pc \in [Request -> Steps] /\ src \in [Request -> Seq(Name)]
  BY DEF TInv, Workers
<1>2. CASE Begin(r)
  <2>1. pc' = [pc EXCEPT ![r] = FirstStep[Kind[r]]]
    BY <1>2 DEF Begin, GoTo
  <2>2. pc'[r] \in {"test", "save", "write", "walk"}
    BY <1>1, <2>1, FirstSteps, RequestFacts DEF Kinds
  <2> QED BY <2>2 DEF Serving
<1>3. CASE Test(r)
  <2>1. src' = [src EXCEPT ![r] = IF Kind[r] = "rename" THEN Base(r) ELSE Target[r]]
    BY <1>3 DEF Test
  <2>2. Kind[r] = "get" => ~ Zipped(r)'
    BY <1>1, <2>1 DEF Zipped
  <2>3. Kind[r] = "get" => pc'[r] \in {"end", "zip", "size"}
    BY <1>1, <1>3 DEF Test, Finish, GoTo
  <2> QED BY <2>2, <2>3 DEF Serving
<1>4. CASE SendFails(r) \/ SendEnds(r)
  <2>1. pc'[r] = "end"
    BY <1>1, <1>4 DEF SendFails, SendEnds, Finish, GoTo
  <2> QED BY <2>1 DEF Serving
<1> QED BY <1>2, <1>3, <1>4

(* Nothing is packed at the start.                                         *)
LEMMA InitVInv == Init => VInv
BY DEF Init, VInv, Serving

(* Every step keeps what a GET has packed and measured what it names.      *)
LEMMA NextVInv == TInv /\ CInv /\ WInv /\ VInv /\ [Next]_vars => VInv'
<1> SUFFICES ASSUME TInv, CInv, WInv, VInv, [Next]_vars
             PROVE  VInv'
  OBVIOUS
<1>1. CASE UNCHANGED vars
  <2>1. /\ tree' = tree /\ pc' = pc /\ src' = src /\ entries' = entries
        /\ crossed' = crossed /\ touched' = touched /\ sized' = sized /\ served' = served
    BY <1>1 DEF vars, worker, history
  <2>2. ASSUME NEW s \in Request
        PROVE  Serving(s)'
    <3>1. Children(Target[s])' = Children(Target[s])
      BY <2>1 DEF Children, Exists
    <3>2. Gathered(s)' = Gathered(s) /\ Whole(Target[s])' = Whole(Target[s])
      BY <2>1, <3>1 DEF Gathered, Whole
    <3>3. (Quiet(s)' <=> Quiet(s)) /\ (Zipped(s)' <=> Zipped(s))
      BY <2>1 DEF Quiet, Diverted, InFolder, Reads, Zipped
    <3> QED BY <2>1, <3>1, <3>2, <3>3 DEF VInv, Serving
  <2> QED BY <2>1, <2>2 DEF VInv
<1>2. ASSUME NEW r \in Request, Begin(r) \/ Solve(r)
      PROVE  VInv'
  <2>1. \A s \in Request \ {r} : Serving(s)'
    BY <1>2, OthersServing
  <2>2. Serving(r)'
    <3>1. CASE Begin(r) \/ Test(r) \/ SendFails(r) \/ SendEnds(r)
      BY <3>1, TestServing
    <3>2. CASE Compress(r) \/ Pack(r) \/ Packed(r) \/ Size(r) \/ Open(r)
      BY <3>2, CompressServing, PackServing, OpenServing
    <3>3. CASE Solve(r) /\ ~ Test(r) /\ ~ Get(r)
      <4>1. Kind[r] # "get"
        BY <3>3 DEF TInv, Workers, AtOwnStep, Solve, Enter, PlaceIn, Rename, RemoveFile,
                    Rmtree, Sweep, Rmdir, Upload, SavePath, Conflict, Write, Fetch,
                    Walk, Descend, WalkEnds
      <4> QED BY <4>1 DEF Serving
    <3> QED BY <1>2, <3>1, <3>2, <3>3 DEF Get
  <2> QED BY <1>2, <2>1, <2>2, OthersMeasure DEF VInv
<1> QED BY <1>1, <1>2 DEF Next

(* What goes out is the file, or the whole folder, that the GET names, of  *)
(* the announced size (server_resource.py:46-52, drive_spliter.py:44-56).  *)
THEOREM Serves == Spec => []ServesNamed
<1>1. TInv /\ VInv => ServesNamed
  <2> SUFFICES ASSUME TInv, VInv, NEW r \in Request, pc[r] = "send", Quiet(r)
               PROVE  /\ served[r] = IF Zipped(r) THEN Whole(Target[r])
                                                   ELSE tree[Target[r]]
                      /\ sized[r] = served[r]
    BY DEF ServesNamed, Quiet
  <2>1. Kind[r] = "get"
    BY SentPath
  <2> QED BY <2>1 DEF VInv, Serving, Zipped
<1> QED BY <1>1, InitTInv, NextTInv, InitCInv, NextCInv, InitWInv, NextWInv,
           InitVInv, NextVInv, PTL DEF Spec

-----------------------------------------------------------------------------
(* What a client is told *)

(* The front of what is named below a path is that path.                   *)
LEMMA FrontOfJoin ==
    ASSUME NEW p \in Seq(Name), NEW n \in Name
    PROVE  Front(p \o <<n>>) = p
<1> DEFINE q == Front(p \o <<n>>)
<1>1. q \in Seq(Name) /\ Len(q) = Len(p) /\ \A i \in 1 .. Len(p) : q[i] = p[i]
  BY DEF Front
<1>2. \A s, t \in Seq(Name) :
         Len(s) = Len(t) /\ (\A i \in 1 .. Len(s) : s[i] = t[i]) => s = t
  BY SeqEqual
<1> HIDE DEF q
<1>3. q = p
  BY <1>1, <1>2
<1> QED BY <1>3 DEF q

(* What is not a folder has nothing in it.                                 *)
LEMMA FilesAreLeaves ==
    ASSUME IsTree(tree), NEW p \in Path, tree[p] # Dir
    PROVE  Children(p) = {}
<1> SUFFICES ASSUME NEW n \in Name, p \o <<n>> \in Path, tree[p \o <<n>>] # Absent
             PROVE  FALSE
  BY DEF Children, Exists
<1>1. p \in Seq(Name) /\ p # Root
  BY PathFacts
<1>2. Front(p \o <<n>>) = p
  BY <1>1, FrontOfJoin
<1> QED BY <1>1, <1>2 DEF IsTree

(* A step of another worker does not answer this one's request.            *)
LEMMA OthersAnswer ==
    ASSUME AInv, NEW r \in Request, Begin(r) \/ Solve(r)
    PROVE  /\ answer' \in [Request -> Answers]
           /\ \A s \in Request \ {r} : answer'[s] = answer[s]
<1> SUFFICES \/ answer' = answer
             \/ \E a \in Answers : answer' = [answer EXCEPT ![r] = a]
  BY DEF AInv
<1> USE DEF Answers, Finish, Fail
<1>1. CASE Begin(r)
  BY <1>1 DEF Begin
<1>2. CASE Test(r) \/ Enter(r) \/ PlaceIn(r) \/ Rename(r)
  BY <1>2 DEF Test, Enter, PlaceIn, Rename
<1>3. CASE RemoveFile(r) \/ Rmtree(r) \/ Rmdir(r)
  BY <1>3 DEF RemoveFile, Rmtree, Rmdir
<1>4. CASE Sweep(r) \/ Pack(r)
  BY <1>4 DEF Sweep, Pack
<1>5. CASE Compress(r) \/ Packed(r)
  BY <1>5 DEF Compress, Packed
<1>6. CASE Size(r) \/ Open(r) \/ SendFails(r) \/ SendEnds(r)
  BY <1>6 DEF Size, Open, SendFails, SendEnds
<1>7. CASE Upload(r)
  BY <1>7 DEF Upload, SavePath, Conflict, Write
<1>8. CASE Fetch(r)
  BY <1>8 DEF Fetch, Walk, Descend, WalkEnds
<1> QED BY <1>1, <1>2, <1>3, <1>4, <1>5, <1>6, <1>7, <1>8 DEF Solve, Get

(* What another worker does after an answer is seen, or does not touch     *)
(* what was named.                                                         *)
LEMMA OthersAnswering ==
    ASSUME TInv, CInv, WInv, AInv, NEW r \in Request, Begin(r) \/ Solve(r),
           NEW s \in Request, s # r
    PROVE  Answering(s)'
<1>1. /\ pc'[s] = pc[s] /\ answer'[s] = answer[s] /\ changed'[s] = changed[s]
      /\ Answering(s)
  BY OthersStay, OthersAnswer, OthersChange DEF TInv, AInv
<1> SUFFICES ASSUME Kind[s] \in {"rename", "move", "delete"}, pc[s] = "end",
                    ~ Diverted(s)'
             PROVE  Truly(s)'
  BY <1>1 DEF Answering
<1>2. crossed[s] \subseteq crossed'[s]
  BY OthersDirectory DEF TInv
<1>3. ~ Diverted(s)
  BY <1>2 DEF Diverted, InFolder
<1>4. Truly(s)
  BY <1>1, <1>3 DEF Answering
<1>5. touched[s] \subseteq touched'[s] /\ \A p \in Path \ touched'[s] : tree'[p] = tree[p]
  <2>1. ASSUME NEW t, Change(r, t)
        PROVE  /\ touched[s] \subseteq touched'[s]
               /\ \A p \in Path \ touched'[s] : tree'[p] = tree[p]
    BY <1>1, <2>1, ChangeSeen
  <2>2. CASE /\ tree' = tree
             /\ touched' = touched \/ touched' = [touched EXCEPT ![r] = {}]
    <3>1. touched'[s] = touched[s]
      BY <2>2 DEF WInv
    <3> QED BY <2>2, <3>1
  <2> QED BY <2>1, <2>2, StepSeen
<1>6. Named(s)' = Named(s) /\ Goal(s)' = Goal(s)
  BY DEF Named, Goal, IsFolder, ZipOf
<1>7. ASSUME touched'[s] \cap Named(s) = {}
      PROVE  Done(s)' <=> Done(s)
  <2>1. \A p \in Named(s) : Exists(p)' <=> Exists(p)
    BY <1>5, <1>7 DEF Exists
  <2>2. \A p \in Named(s) : IsFile(p)' <=> IsFile(p)
    BY <1>5, <1>7 DEF IsFile, IsDir, Exists
  <2>3. Target[s] \in Named(s) /\ Goal(s) \subseteq Named(s)
    BY DEF Named, Goal
  <2>4. Kind[s] = "delete" => Children(Target[s])' = Children(Target[s])
    <3>1. Kind[s] = "delete" => \A n \in Name : Target[s] \o <<n>> \in Named(s)
      BY DEF Named
    <3> QED BY <2>1, <3>1 DEF Children
  <2> QED BY <1>6, <2>1, <2>2, <2>3, <2>4 DEF Done
<1>8. touched[s] \cap Named(s) # {} => touched'[s] \cap Named(s) # {}
  BY <1>5
<1> QED BY <1>1, <1>4, <1>6, <1>7, <1>8 DEF Truly, IsFolder

(* A handler that is refused before it changed anything says so            *)
(* (server_resource.py:78-106, 150-165).                                   *)
LEMMA RefusedAnswering ==
    ASSUME TInv, AInv, NEW r \in Request, changed[r] = {}, changed' = changed,
           NEW a \in {"internal", "bad_request", "not_found"}, Finish(r, a)
    PROVE  Answering(r)'
<1>1. answer' = [answer EXCEPT ![r] = a] /\ pc' = [pc EXCEPT ![r] = "end"]
  BY DEF Finish, GoTo
<1>2. answer'[r] = a
  BY <1>1 DEF AInv
<1>3. pc'[r] = "end"
  BY <1>1 DEF TInv, Workers
<1>4. Truly(r)'
  BY <1>2 DEF Truly
<1> QED BY <1>3, <1>4 DEF Answering

(* Before its last step a handler has changed nothing                      *)
LEMMA TestAnswering ==
    ASSUME TInv, CInv, AInv, NEW r \in Request,
           Test(r) \/ Enter(r) \/ PlaceIn(r)
    PROVE  Answering(r)'
<1>1. /\ changed[r] = {} /\ pc \in [Request -> Steps]
  BY DEF TInv, CInv, Workers, Course, Test, Enter, PlaceIn
<1>2. changed' = changed
  BY DEF Test, Enter, PlaceIn, NoChange
<1>3. \/ \E a \in {"internal", "bad_request", "not_found"} : Finish(r, a)
      \/ pc'[r] # "end"
  <2>1. CASE Test(r)
    <3>1. Kind[r] \in {"get", "rename", "move", "delete"}
      BY <2>1 DEF TInv, Workers, AtOwnStep, Test
    <3> QED BY <1>1, <2>1, <3>1 DEF Test, GoTo
  <2>2. CASE Enter(r)
    BY <1>1, <2>2 DEF Enter, GoTo
  <2>3. CASE PlaceIn(r)
    BY <1>1, <2>3 DEF PlaceIn, GoTo
  <2> QED BY <2>1, <2>2, <2>3
<1>4. CASE \E a \in {"internal", "bad_request", "not_found"} : Finish(r, a)
  BY <1>1, <1>2, <1>4, RefusedAnswering
<1>5. CASE pc'[r] # "end"
  BY <1>1, <1>2, <1>5 DEF Answering
<1> QED BY <1>3, <1>4, <1>5

(* A rename or a move is answered when the file is at its place            *)
(* (server_resource.py:85-92).                                             *)
LEMMA RenameAnswering ==
    ASSUME TInv, CInv, AInv, NEW r \in Request, Rename(r)
    PROVE  Answering(r)'
<1>0. PICK from, to : from = Here(r, src[r]) /\ to = Here(r, dst[r])
  OBVIOUS
<1>1. /\ Workers /\ IsTree(tree) /\ pc[r] = "rename" /\ Kind[r] \in {"rename", "move"}
      /\ changed[r] = {} /\ pc \in [Request -> Steps] /\ crossed' = crossed
      /\ dst[r] \in {Arg[r], Arg[r] \o Base(r)} /\ answer \in [Request -> Answers]
  BY DEF TInv, CInv, AInv, Workers, AtOwnStep, Course, Held, Rename
<1>2. CASE IsFile(from) /\ IsDir(Front(to)) /\ ~ IsDir(to)
  <2>1. /\ tree' = [tree EXCEPT ![from] = Absent, ![to] = tree[from]]
        /\ answer' = [answer EXCEPT ![r] = "changed"] /\ pc' = [pc EXCEPT ![r] = "end"]
    BY <1>0, <1>2 DEF Rename, Change, Finish, GoTo
  <2>2. answer'[r] = "changed" /\ pc'[r] = "end"
    BY <1>1, <2>1
  <2>3. from \in Path /\ tree[from] # Dir /\ tree[from] # Absent
    BY <1>1, <1>2, TreeFacts
  <2>4. to \in Path /\ to # Root
    <3>1. Front(to) \in {Root} \cup Folders
      BY <1>1, <1>2, TreeFacts
    <3>2. dst[r] \in Seq(Name) /\ dst[r] # Root
      BY <1>1, WordTypes
    <3>3. to \in Path
      BY <1>0, <1>1, <3>1, <3>2, HereFacts
    <3> QED BY <3>3, PathFacts
  <2>5. ~ Diverted(r) => from = Target[r] /\ to \in Goal(r)
    BY <1>0, <1>1, RenameWords
  <2>6. /\ tree'[to] = tree[from]
        /\ from # to => tree'[from] = Absent
    BY <1>1, <2>1, <2>3, <2>4 DEF IsTree
  <2>7. IsFile(to)'
    BY <2>3, <2>4, <2>6 DEF IsFile, IsDir, Exists
  <2>8. from = to \/ ~ Exists(from)'
    BY <2>6 DEF Exists
  <2>9. ~ Diverted(r) => Done(r)'
    <3>1. Goal(r)' = Goal(r)
      BY DEF Goal
    <3>2. ASSUME ~ Diverted(r)
          PROVE  \E p \in Goal(r)' : IsFile(p)' /\ (p = Target[r] \/ ~ Exists(Target[r])')
      BY <2>5, <2>7, <2>8, <3>1, <3>2
    <3> QED BY <1>1, <3>2 DEF Done
  <2>10. Diverted(r)' <=> Diverted(r)
    BY <1>1 DEF Diverted, InFolder
  <2> QED BY <2>2, <2>9, <2>10 DEF Answering, Truly
<1>3. CASE ~ (IsFile(from) /\ IsDir(Front(to)) /\ ~ IsDir(to))
  <2>1. Finish(r, "internal") /\ changed' = changed
    BY <1>0, <1>3 DEF Rename, Fail, NoChange
  <2> QED BY <1>1, <2>1, RefusedAnswering
<1> QED BY <1>2, <1>3

(* A deletion is answered when the file, or the folder with all that was   *)
(* in it, is gone (server_resource.py:148-165).                            *)
LEMMA DeleteAnswering ==
    ASSUME TInv, CInv, AInv, NEW r \in Request,
           RemoveFile(r) \/ Rmtree(r) \/ Sweep(r) \/ Rmdir(r)
    PROVE  Answering(r)'
<1>1. /\ Workers /\ IsTree(tree) /\ Kind[r] = "delete" /\ Held(r) /\ Working(r)
      /\ pc[r] \in {"remove", "rmtree", "sweep"} /\ crossed' = crossed
      /\ pc \in [Request -> Steps] /\ answer \in [Request -> Answers]
      /\ pc[r] \in {"remove", "rmtree"} => changed[r] = {}
  BY DEF TInv, CInv, AInv, Workers, Answering, AtOwnStep, RemoveFile, Rmtree, Sweep, Rmdir,
         Working
<1>2. Target[r] \in Path /\ Target[r] \in Seq(Name) /\ Target[r] # Root
  BY <1>1, RequestFacts, PathFacts
<1>3. ~ Diverted(r) => Here(r, Target[r]) = Target[r]
  BY <1>1, <1>2, StraightPaths
<1>4. Diverted(r)' <=> Diverted(r)
  BY <1>1 DEF Diverted, InFolder
<1>5. pc[r] = "sweep" => IsFolder(r)
  BY <1>1 DEF Held, IsFolder, Folders
<1>6. CASE pc'[r] # "end" /\ pc'[r] \notin {"remove", "rmtree"}
  BY <1>6 DEF Answering
<1>7. CASE Finish(r, "internal") /\ NoChange
  <2>1. pc'[r] = "end" /\ answer'[r] = "internal" /\ changed' = changed
    BY <1>1, <1>7 DEF Finish, GoTo, NoChange
  <2>2. changed'[r] = {} \/ IsFolder(r)
    BY <1>1, <1>5, <2>1
  <2> QED BY <1>1, <2>1, <2>2 DEF Answering, Truly, IsFolder
<1>8. ASSUME NEW p, p = Here(r, Target[r]), Children(p) = {},
             tree' = [tree EXCEPT ![p] = Absent], Finish(r, "deleted")
      PROVE  Answering(r)'
  <2>1. pc'[r] = "end" /\ answer'[r] = "deleted"
    BY <1>1, <1>8 DEF Finish, GoTo
  <2> SUFFICES ASSUME ~ Diverted(r)
               PROVE  Done(r)'
    BY <1>4, <2>1 DEF Answering, Truly
  <2>2. p = Target[r]
    BY <1>3, <1>8
  <2>3. tree'[Target[r]] = Absent /\ \A q \in Path \ {Target[r]} : tree'[q] = tree[q]
    BY <1>1, <1>2, <1>8, <2>2 DEF IsTree
  <2>4. \A q : Exists(q)' => Exists(q)
    BY <2>3 DEF Exists
  <2>5. Children(Target[r])' = {} /\ ~ Exists(Target[r])'
    BY <1>8, <2>2, <2>3, <2>4 DEF Children, Exists
  <2> QED BY <1>1, <2>5 DEF Done
<1>9. CASE RemoveFile(r)
  <2> DEFINE p == Here(r, Target[r])
  <2>1. CASE IsFile(p)
    <3>1. tree' = [tree EXCEPT ![p] = Absent] /\ Finish(r, "deleted")
      BY <1>9, <2>1 DEF RemoveFile, Change
    <3>2. Children(p) = {}
      <4>1. p \in Path /\ tree[p] # Dir
        BY <1>1, <2>1, TreeFacts
      <4> HIDE DEF p
      <4> QED BY <1>1, <4>1, FilesAreLeaves
    <3> QED BY <1>8, <3>1, <3>2
  <2>2. CASE ~ IsFile(p)
    BY <1>7, <1>9, <2>2 DEF RemoveFile, Fail
  <2> QED BY <2>1, <2>2
<1>10. CASE Rmtree(r)
  BY <1>1, <1>6, <1>7, <1>10 DEF Rmtree, Fail, GoTo
<1>11. CASE Sweep(r)
  <2>1. (Finish(r, "internal") /\ NoChange) \/ pc' = pc
    BY <1>11 DEF Sweep, Fail
  <2> QED BY <1>1, <1>6, <1>7, <1>11, <2>1 DEF Sweep
<1>12. CASE Rmdir(r)
  <2> DEFINE p == Here(r, Target[r])
  <2>1. CASE p # Root /\ IsDir(p) /\ Empty(p)
    <3>1. tree' = [tree EXCEPT ![p] = Absent] /\ Finish(r, "deleted")
      BY <1>12, <2>1 DEF Rmdir, Change
    <3> QED BY <1>8, <2>1, <3>1 DEF Empty
  <2>2. CASE ~ (p # Root /\ IsDir(p) /\ Empty(p))
    BY <1>7, <1>12, <2>2 DEF Rmdir, Fail
  <2> QED BY <2>1, <2>2
<1> QED BY <1>9, <1>10, <1>11, <1>12

(* Nobody was told anything at the start.                                  *)
LEMMA InitAInv == Init => AInv
BY DEF Init, AInv, Answering, Answers

(* Every step keeps the answers true.                                      *)
LEMMA NextAInv == TInv /\ CInv /\ WInv /\ AInv /\ [Next]_vars => AInv'
<1> SUFFICES ASSUME TInv, CInv, WInv, AInv, [Next]_vars
             PROVE  AInv'
  OBVIOUS
<1>1. CASE UNCHANGED vars
  <2>1. /\ tree' = tree /\ pc' = pc /\ answer' = answer /\ crossed' = crossed
        /\ touched' = touched /\ changed' = changed
    BY <1>1 DEF vars, worker, history
  <2>2. ASSUME NEW s \in Request
        PROVE  Answering(s)'
    <3>1. (Diverted(s)' <=> Diverted(s)) /\ (Done(s)' <=> Done(s))
      BY <2>1 DEF Diverted, InFolder, Done, Goal, Children, IsFile, IsDir, Exists
    <3>2. Named(s)' = Named(s)
      BY DEF Named, Goal, IsFolder, ZipOf
    <3> QED BY <2>1, <3>1, <3>2 DEF AInv, Answering, Truly, IsFolder
  <2> QED BY <2>1, <2>2 DEF AInv
<1>2. ASSUME NEW r \in Request, Begin(r) \/ Solve(r)
      PROVE  AInv'
  <2>1. \A s \in Request \ {r} : Answering(s)'
    BY <1>2, OthersAnswering
  <2>2. Answering(r)'
    <3>1. CASE Begin(r)
      <4>1. pc' = [pc EXCEPT ![r] = FirstStep[Kind[r]]] /\ pc \in [Request -> Steps]
        BY <3>1 DEF Begin, GoTo, TInv, Workers
      <4>2. pc'[r] \in {"test", "save", "write", "walk"}
        BY <4>1, FirstSteps, RequestFacts DEF Kinds
      <4> QED BY <4>2 DEF Answering
    <3>2. CASE Test(r) \/ Enter(r) \/ PlaceIn(r) \/ Rename(r)
      BY <3>2, TestAnswering, RenameAnswering
    <3>3. CASE RemoveFile(r) \/ Rmtree(r) \/ Sweep(r) \/ Rmdir(r)
      BY <3>3, DeleteAnswering
    <3>4. CASE Get(r) \/ Upload(r) \/ Fetch(r)
      <4>1. Kind[r] \notin {"rename", "move", "delete"}
        BY <3>4 DEF TInv, Workers, AtOwnStep, Get, Compress, Pack, Packed, Size, Open,
                    SendFails, SendEnds, Upload, SavePath, Conflict, Write, Fetch, Walk,
                    Descend, WalkEnds
      <4> QED BY <4>1 DEF Answering
    <3> QED BY <1>2, <3>1, <3>2, <3>3, <3>4 DEF Solve
  <2> QED BY <1>2, <2>1, <2>2, OthersAnswer DEF AInv
<1> QED BY <1>1, <1>2 DEF Next

(* A success means that the named file is where it was asked to be, a      *)
(* refusal that nothing was changed, but for a folder that was deleted in  *)
(* part (server_resource.py:76-106, 148-165).                              *)
THEOREM Answered == Spec => []AnswersTruly
<1>1. AInv => AnswersTruly
  BY DEF AInv, Answering, Truly, AnswersTruly
<1> QED BY <1>1, InitTInv, NextTInv, InitCInv, NextCInv, InitWInv, NextWInv,
           InitAInv, NextAInv, PTL DEF Spec

-----------------------------------------------------------------------------
(* What stays in the share *)

(* The path of an archive in the resource's folder                         *)
LEMMA ArchivePath ==
    ASSUME NEW f \in Folder
    PROVE  /\ ZipOf(<<f>>) \in Path /\ Front(ZipOf(<<f>>)) = Root
           /\ Last(ZipOf(<<f>>)) = ZipName[f] /\ ZipName[f] \in ZipNames
           /\ <<f>> \in Folders
<1>1. f \in Name /\ ZipName[f] \in Name
  BY ResourceAssumption
<1>2. Front(<<f>>) = Root /\ Last(<<f>>) = f
  BY <1>1, ShortPaths DEF Root
<1>3. ZipOf(<<f>>) = Root \o <<ZipName[f]>>
  BY <1>2 DEF ZipOf
<1> QED BY <1>1, <1>3, JoinFacts DEF ZipNames, Folders

(* A relative path ends with its own base name, in any directory.          *)
LEMMA HereLast ==
    ASSUME Workers, NEW r \in Request, NEW p \in Seq(Name), p # Root
    PROVE  Last(Here(r, p)) = Last(p)
<1>1. cwd[Server[r]] \in Seq(Name) /\ Len(cwd[Server[r]]) \in Nat
  <2>1. cwd[Server[r]] \in {Root} \cup Folders
    BY RequestFacts DEF Workers
  <2>2. CASE cwd[Server[r]] = Root
    BY <2>2 DEF Root
  <2>3. CASE cwd[Server[r]] \in Folders
    <3>1. cwd[Server[r]] \in Path
      BY <2>3, FolderFacts
    <3>2. cwd[Server[r]] \in Seq(Name)
      BY <3>1, PathFacts
    <3> QED BY <3>2
  <2> QED BY <2>1, <2>2, <2>3
<1>2. Len(p) \in Nat \ {0}
  BY DEF Root
<1>3. /\ Len(cwd[Server[r]] \o p) = Len(cwd[Server[r]]) + Len(p)
      /\ (cwd[Server[r]] \o p)[Len(cwd[Server[r]]) + Len(p)] = p[Len(p)]
  BY <1>1, <1>2
<1> QED BY <1>3 DEF Here, Last

(* A rename, or a block, makes no file with the name of an archive.        *)
LEMMA OtherNames ==
    ASSUME TInv, ArchivesUnnamed, NEW r \in Request
    PROVE  /\ pc[r] = "rename" => Last(Here(r, dst[r])) \notin ZipNames
           /\ Kind[r] = "block" =>
                 LET s == savePath[Server[r]] IN
                 Last(Here(r, (IF s = None THEN Root ELSE s) \o Base(r))) \notin ZipNames
<1>0. Workers
  BY DEF TInv
<1>1. ASSUME Kind[r] # "fetch", NEW p \in Seq(Name)
      PROVE  Last(p \o Base(r)) = Last(Target[r])
  <2>1. Base(r) = <<Last(Target[r])>> /\ Last(Target[r]) \in Name
    BY <1>1, RequestFacts
  <2>2. Len(p \o Base(r)) = Len(p) + 1 /\ (p \o Base(r))[Len(p) + 1] = Last(Target[r])
    BY <2>1
  <2> QED BY <2>2 DEF Last
<1>2. CASE pc[r] = "rename"
  <2>1. /\ Kind[r] \in {"rename", "move"} /\ dst[r] \in {Arg[r], Arg[r] \o Base(r)}
        /\ Held(r)
    BY <1>2 DEF TInv, Workers, AtOwnStep, Held
  <2>2. Arg[r] \in Seq(Name) /\ dst[r] \in Seq(Name) /\ dst[r] # Root
    BY <2>1, WordTypes
  <2>3. Last(dst[r]) \in {Last(Arg[r]), Last(Target[r])}
    BY <1>1, <2>1, <2>2
  <2>4. Last(Here(r, dst[r])) = Last(dst[r])
    BY <1>0, <2>2, HereLast
  <2>5. Last(Here(r, dst[r])) \notin ZipNames
    BY <2>1, <2>3, <2>4 DEF ArchivesUnnamed
  <2>6. Kind[r] # "block"
    BY <2>1
  <2> QED BY <2>5, <2>6
<1>3. CASE Kind[r] = "block"
  <2> DEFINE s == savePath[Server[r]]
             d == IF s = None THEN Root ELSE s
  <2>1. d \in Seq(Name) /\ d \o Base(r) \in Seq(Name) /\ d \o Base(r) # Root
    <3>1. s \in Path \cup {None}
      BY <1>0, RequestFacts DEF Workers
    <3>2. Root \in Seq(Name)
      BY DEF Root
    <3>3. s # None => s \in Seq(Name)
      BY <3>1, PathFacts
    <3> QED BY <1>0, <1>3, <3>2, <3>3, SaveWords
  <2> HIDE DEF d
  <2>2. Last(Here(r, d \o Base(r))) = Last(Target[r])
    BY <1>0, <1>1, <1>3, <2>1, HereLast
  <2>3. Last(Here(r, d \o Base(r))) \notin ZipNames
    BY <1>3, <2>2 DEF ArchivesUnnamed
  <2>4. pc[r] # "rename"
    BY <1>3 DEF TInv, Workers, AtOwnStep
  <2> QED BY <2>3, <2>4 DEF d
<1> QED BY <1>2, <1>3

Leaves(r, f) ==
    \/ tree'[ZipOf(<<f>>)] \in {tree[ZipOf(<<f>>)], Absent}
    \/ /\ tree'[ZipOf(<<f>>)] # Dir
       /\ Exists(ZipOf(<<f>>)) \/ Archiving(f, r)'

(* What a step leaves at the path of an archive: what was there, nothing,  *)
(* what was packed, or the new archive of a folder that is being zipped.   *)
LEMMA LeavesArchives ==
    ASSUME TInv, ArchivesUnnamed, NEW r \in Request, Begin(r) \/ Solve(r),
           NEW f \in Folder
    PROVE  Leaves(r, f)
<1> DEFINE z == ZipOf(<<f>>)
<1>1. /\ Workers /\ IsTree(tree) /\ tree \in [Path -> Content]
      /\ z \in Path /\ Front(z) = Root /\ Last(z) = ZipName[f] /\ Last(z) \in ZipNames
      /\ pc \in [Request -> Steps] /\ src \in [Request -> Seq(Name)]
  BY ArchivePath DEF TInv, IsTree, Workers
<1>2. ASSUME tree' = tree
      PROVE  Leaves(r, f)
  BY <1>2 DEF Leaves
<1>3. ASSUME NEW p, tree' = [tree EXCEPT ![p] = Absent]
      PROVE  Leaves(r, f)
  BY <1>1, <1>3 DEF Leaves
<1>4. CASE Begin(r) \/ Test(r) \/ Enter(r) \/ PlaceIn(r) \/ Rmtree(r)
  BY <1>2, <1>4 DEF Begin, Test, Enter, PlaceIn, Rmtree, Fail, NoChange
<1>5. CASE Size(r) \/ Open(r) \/ SendFails(r) \/ SavePath(r) \/ Conflict(r) \/ Fetch(r)
  BY <1>2, <1>5 DEF Size, Open, SendFails, SavePath, Conflict, Fetch, Walk, Descend,
                    WalkEnds, NoChange, history
<1>6. CASE RemoveFile(r) \/ Rmdir(r)
  <2>1. tree' = tree \/ tree' = [tree EXCEPT ![Here(r, Target[r])] = Absent]
    BY <1>6 DEF RemoveFile, Rmdir, Fail, NoChange, Change
  <2> QED BY <1>2, <1>3, <2>1
<1>7. CASE Sweep(r)
  <2>1. PICK n \in entries[r] :
           tree' = tree \/ tree' = [tree EXCEPT ![src[r] \o <<n>>] = Absent]
    BY <1>7 DEF Sweep, Fail, NoChange, Change
  <2> QED BY <1>2, <1>3, <2>1
<1>8. CASE SendEnds(r)
  <2>1. \/ tree' = tree
        \/ tree' = [tree EXCEPT ![Here(r, src[r])] = Absent]
    BY <1>8 DEF SendEnds, NoChange, Change, Without
  <2> QED BY <1>2, <1>3, <2>1
<1>9. CASE Rename(r)
  <2>1. \/ tree' = tree
        \/ tree' = [tree EXCEPT ![Here(r, src[r])] = Absent,
                                ![Here(r, dst[r])] = tree[Here(r, src[r])]]
    BY <1>9 DEF Rename, Fail, NoChange, Change
  <2>2. Here(r, dst[r]) # z
    BY <1>1, <1>9, OtherNames DEF Rename
  <2>3. tree'[z] \in {tree[z], Absent}
    <3> HIDE DEF z
    <3> QED BY <1>1, <2>1, <2>2
  <2> QED BY <2>3 DEF Leaves
<1>10. CASE Write(r)
  <2> DEFINE s == savePath[Server[r]]
             place == Here(r, (IF s = None THEN Root ELSE s) \o Base(r))
             cleared == Without(tree, Here(r, Base(r)))
  <2>1. Kind[r] = "block"
    BY <1>10 DEF TInv, Workers, AtOwnStep, Write
  <2>2. place # z
    BY <1>1, <2>1, OtherNames
  <2>3. tree' = cleared \/ \E c : tree' = [cleared EXCEPT ![place] = c]
    BY <1>10 DEF Write, Change
  <2>4. cleared \in [Path -> Content] /\ cleared[z] \in {tree[z], Absent}
    <3>1. IsTree(cleared)
      BY <1>1, WithoutTree
    <3> QED BY <1>1, <3>1 DEF Without, IsTree
  <2>5. tree'[z] = cleared[z]
    <3> HIDE DEF z, place, cleared
    <3> QED BY <1>1, <2>2, <2>3, <2>4
  <2> QED BY <2>4, <2>5 DEF Leaves
<1>11. CASE Pack(r) \/ Packed(r)
  <2>1. tree' = tree \/ \E q : \E parts \in SUBSET Part : tree' = Into(q, parts)
    <3>1. CASE Packed(r)
      <4>1. tree' = Into(dst[r], {Archive})
        BY <3>1 DEF Packed, Change
      <4>2. {Archive} \in SUBSET Part
        BY ResourceAssumption
      <4> QED BY <4>1, <4>2
    <3>2. CASE Pack(r)
      <4>1. PICK n \in entries[r] :
               \/ tree' = tree
               \/ /\ IsFile(Here(r, Target[r] \o <<n>>))
                  /\ tree' = Into(dst[r], tree[Here(r, Target[r] \o <<n>>)])
        BY <3>2 DEF Pack, Change, NoChange
      <4> DEFINE parts == tree[Here(r, Target[r] \o <<n>>)]
      <4>2. IsFile(Here(r, Target[r] \o <<n>>)) => parts \in SUBSET Part
        BY <1>1, TreeFacts
      <4> QED BY <4>1, <4>2
    <3> QED BY <1>11, <3>1, <3>2
  <2>2. ASSUME NEW q, NEW parts \in SUBSET Part, tree' = Into(q, parts)
        PROVE  Leaves(r, f)
    <3>1. tree'[z] = tree[z] \/ (IsFile(z) /\ tree'[z] = tree[z] \cup parts)
      BY <1>1, <2>2 DEF Into
    <3>2. IsFile(z) => Exists(z) /\ tree[z] \in SUBSET Part
      BY <1>1, TreeFacts DEF IsFile
    <3>3. IsFile(z) => tree[z] \cup parts # Dir
      <4>1. IsFile(z) => tree[z] \cup parts \in SUBSET Part
        BY <3>2
      <4> QED BY <4>1, ContentFacts
    <3> QED BY <3>1, <3>2, <3>3 DEF Leaves
  <2> QED BY <1>2, <2>1, <2>2
<1>12. CASE Compress(r)
  <2> DEFINE q == Here(r, ZipOf(Target[r]))
  <2>1. \/ tree' = tree
        \/ /\ tree' = [tree EXCEPT ![q] = {}]
           /\ src' = [src EXCEPT ![r] = ZipOf(Target[r])]
           /\ pc' = [pc EXCEPT ![r] = "pack"]
    BY <1>12 DEF Compress, Change, Fail, NoChange, GoTo
  <2>2. Kind[r] = "get" /\ \E g \in Folder : Target[r] = <<g>>
    BY <1>12 DEF TInv, Workers, AtOwnStep, Held, IsFolder, Compress
  <2>3. q = z => Target[r] = <<f>>
    <3>1. PICK g \in Folder : Target[r] = <<g>>
      BY <2>2
    <3>2. ZipOf(<<g>>) \in Seq(Name) /\ ZipOf(<<g>>) # Root /\ Last(ZipOf(<<g>>)) = ZipName[g]
      BY ArchivePath, PathFacts
    <3>3. Last(q) = ZipName[g]
      BY <1>1, <3>1, <3>2, HereLast
    <3>4. q = z => f = g
      BY <1>1, <3>3 DEF ArchivesUnnamed
    <3> QED BY <3>1, <3>4
  <2>4. {} # Dir
    BY ContentFacts
  <2>5. CASE q = z /\ tree' # tree
    <3>1. tree'[z] = {} /\ src'[r] = ZipOf(Target[r]) /\ pc'[r] = "pack"
      BY <1>1, <2>1, <2>5
    <3> QED BY <2>2, <2>3, <2>4, <2>5, <3>1 DEF Leaves, Archiving
  <2>6. CASE q # z \/ tree' = tree
    <3> HIDE DEF q, z
    <3>1. tree'[z] = tree[z]
      BY <1>1, <2>1, <2>6
    <3> QED BY <3>1 DEF Leaves, z
  <2> QED BY <2>5, <2>6
<1> QED BY <1>4, <1>5, <1>6, <1>7, <1>8, <1>9, <1>10, <1>11, <1>12 DEF Solve, Get, Upload

(* Who ended without removing what it should have removed stays excused.   *)
LEMMA ExcusedStay ==
    ASSUME NEW r \in Request, Begin(r) \/ Solve(r)
    PROVE  excused \subseteq excused'
<1> USE DEF Finish, Fail, history
<1>1. CASE Begin(r) \/ Test(r) \/ Enter(r) \/ PlaceIn(r) \/ Rename(r)
  BY <1>1 DEF Begin, Test, Enter, PlaceIn, Rename
<1>2. CASE RemoveFile(r) \/ Rmtree(r) \/ Sweep(r) \/ Rmdir(r)
  BY <1>2 DEF RemoveFile, Rmtree, Sweep, Rmdir
<1>3. CASE Compress(r) \/ Pack(r) \/ Packed(r)
  BY <1>3 DEF Compress, Pack, Packed
<1>4. CASE Size(r) \/ Open(r) \/ SendFails(r) \/ SendEnds(r)
  BY <1>4 DEF Size, Open, SendFails, SendEnds
<1>5. CASE Upload(r) \/ Fetch(r)
  BY <1>5 DEF Upload, SavePath, Conflict, Write, Fetch, Walk, Descend, WalkEnds
<1> QED BY <1>1, <1>2, <1>3, <1>4, <1>5 DEF Solve, Get

(* A worker that has an archive keeps it, removes it or is excused         *)
(* (drive_utils.py:94-112, drive_spliter.py:79-97).                        *)
LEMMA OwnArchive ==
    ASSUME TInv, CInv, NEW r \in Request, Begin(r) \/ Solve(r),
           NEW f \in Folder, Archiving(f, r), tree[ZipOf(<<f>>)] # Dir
    PROVE  Archiving(f, r)' \/ Excused(f, r)' \/ ~ Exists(ZipOf(<<f>>))'
<1> DEFINE z == ZipOf(<<f>>)
<1>1. /\ z \in Path /\ z # Root /\ z # <<f>> /\ ~ IsDir(z)
      /\ tree \in [Path -> Content]
      /\ pc \in [Request -> Steps] /\ src[r] = z /\ Target[r] = <<f>>
      /\ Kind[r] = "get" /\ Zipped(r) /\ ~ InFolder(r)
  <2>1. z \in Path /\ Last(z) = ZipName[f]
    BY ArchivePath
  <2>2. z # Root
    BY <2>1, PathFacts
  <2>3. ZipName[f] # f /\ Last(<<f>>) = f
    BY ShortPaths, ResourceAssumption
  <2>4. z # <<f>>
    BY <2>1, <2>3
  <2>5. ~ IsDir(z)
    BY <2>1, <2>2 DEF IsDir
  <2> HIDE DEF z
  <2> QED BY <2>1, <2>2, <2>4, <2>5
          DEF TInv, IsTree, Workers, Archiving, Zipped, InFolder, z
<1>2. ~ Diverted(r) => Here(r, z) = z
  <2>1. z \in Seq(Name)
    BY <1>1, PathFacts
  <2>2. Working(r) /\ pc[r] # "rename" /\ Kind[r] # "rename"
    BY <1>1 DEF Archiving, Working
  <2> HIDE DEF z
  <2> QED BY <1>1, <2>1, <2>2, StraightPaths
<1>3. ~ Diverted(r) /\ ~ IsFile(Here(r, z)) => ~ Exists(z)
  BY <1>1, <1>2 DEF IsFile
<1> HIDE DEF z
<1>4. ASSUME src' = src, pc'[r] \in {"pack", "size", "open", "send"}
      PROVE  Archiving(f, r)'
  BY <1>1, <1>4 DEF Archiving, z
<1>5. ASSUME NEW response, Finish(r, response), ~ Exists(z)' \/ Diverted(r)
      PROVE  Excused(f, r)' \/ ~ Exists(z)'
  BY <1>1, <1>5 DEF Finish, Excused
<1>6. CASE Pack(r)
  <2>1. \/ pc' = pc /\ src' = src
        \/ r \in excused'
    BY <1>6 DEF Pack
  <2>2. pc[r] = "pack"
    BY <1>6 DEF Pack
  <2> QED BY <1>1, <1>4, <2>1, <2>2 DEF Excused
<1>7. CASE Packed(r)
  BY <1>1, <1>4, <1>7 DEF Packed, GoTo
<1>8. CASE Size(r) \/ Open(r)
  <2>1. /\ src' = src /\ tree' = tree
        /\ \/ pc' = [pc EXCEPT ![r] = "open"] \/ pc' = [pc EXCEPT ![r] = "send"]
           \/ Finish(r, "internal") /\ ~ IsFile(Here(r, z))
    BY <1>1, <1>8 DEF Size, Open, NoChange, GoTo
  <2>2. CASE Finish(r, "internal") /\ ~ IsFile(Here(r, z))
    <3>1. ~ Diverted(r) => ~ Exists(z)'
      BY <1>3, <2>1, <2>2 DEF Exists
    <3> QED BY <1>5, <2>2, <3>1 DEF z
  <2> QED BY <1>1, <1>4, <2>1, <2>2
<1>9. CASE SendFails(r)
  BY <1>1, <1>9 DEF SendFails, Excused
<1>10. CASE SendEnds(r)
  <2>1. Finish(r, "content") /\ tree' = Without(tree, Here(r, z))
    BY <1>1, <1>10 DEF SendEnds, Change
  <2>2. ~ Diverted(r) => ~ Exists(z)'
    <3>1. ~ Diverted(r) => tree' = Without(tree, z)
      BY <1>2, <2>1
    <3>2. tree' = Without(tree, z) => tree'[z] = Absent
      BY <1>1 DEF Without, z
    <3> QED BY <3>1, <3>2 DEF Exists
  <2> QED BY <1>5, <2>1, <2>2 DEF z
<1>11. CASE ~ (Pack(r) \/ Packed(r) \/ Size(r) \/ Open(r) \/ SendFails(r) \/ SendEnds(r))
  <2>1. pc[r] \in {"pack", "size", "open", "send"}
    BY DEF Archiving
  <2> QED BY <1>11, <2>1
          DEF Begin, Solve, Test, Enter, PlaceIn, Rename, RemoveFile, Rmtree, Sweep,
              Rmdir, Get, Compress, Upload, SavePath, Conflict, Write, Fetch, Walk,
              Descend, WalkEnds
<1> QED BY <1>6, <1>7, <1>8, <1>9, <1>10, <1>11 DEF z

(* At the start there is no archive.                                       *)
LEMMA InitZInv == ArchivesUnnamed /\ Init => ZInv
<1> SUFFICES ASSUME ArchivesUnnamed, Init, NEW f \in Folder
             PROVE  tree[ZipOf(<<f>>)] # Dir /\ ~ Exists(ZipOf(<<f>>))
  BY DEF ZInv
<1>1. tree[ZipOf(<<f>>)] = Absent
  BY DEF Init, ArchivesUnnamed
<1> QED BY <1>1, ContentAssumption DEF Exists

(* Every step leaves each archive to a worker that removes it, or to one   *)
(* that is excused.                                                        *)
LEMMA NextZInv ==
    ArchivesUnnamed => (TInv /\ CInv /\ ZInv /\ [Next]_vars => ZInv')
<1> SUFFICES ASSUME ArchivesUnnamed, TInv, CInv, ZInv, [Next]_vars
             PROVE  ZInv'
  OBVIOUS
<1>1. CASE UNCHANGED vars
  BY <1>1 DEF vars, worker, history, ZInv, Exists, Archiving, Excused
<1>2. ASSUME NEW r \in Request, Begin(r) \/ Solve(r), NEW f \in Folder
      PROVE  /\ tree'[ZipOf(<<f>>)] # Dir
             /\ Exists(ZipOf(<<f>>))'
                   => \E s \in Request : Archiving(f, s)' \/ Excused(f, s)'
  <2>1. tree[ZipOf(<<f>>)] # Dir /\ ZipOf(<<f>>) \in Path /\ Absent # Dir
    BY ArchivePath, ContentAssumption DEF ZInv
  <2>2. Leaves(r, f)
    BY <1>2, LeavesArchives
  <2>3. tree'[ZipOf(<<f>>)] # Dir
    BY <2>1, <2>2 DEF Leaves
  <2>4. Exists(ZipOf(<<f>>))' => Exists(ZipOf(<<f>>)) \/ Archiving(f, r)'
    BY <2>1, <2>2 DEF Leaves, Exists
  <2>5. ASSUME NEW s \in Request, Archiving(f, s) \/ Excused(f, s), Exists(ZipOf(<<f>>))'
        PROVE  Archiving(f, s)' \/ Excused(f, s)'
    <3>1. CASE Excused(f, s)
      BY <1>2, <3>1, ExcusedStay DEF Excused
    <3>2. CASE Archiving(f, s) /\ s # r
      <4>1. pc'[s] = pc[s] /\ src'[s] = src[s]
        BY <1>2, <3>2, OthersStay DEF TInv
      <4> QED BY <3>2, <4>1 DEF Archiving
    <3>3. CASE Archiving(f, s) /\ s = r
      BY <1>2, <2>1, <2>5, <3>3, OwnArchive
    <3> QED BY <2>5, <3>1, <3>2, <3>3
  <2>6. Exists(ZipOf(<<f>>)) => \E s \in Request : Archiving(f, s) \/ Excused(f, s)
    BY DEF ZInv
  <2> QED BY <2>3, <2>4, <2>5, <2>6
<1> QED BY <1>1, <1>2 DEF Next, ZInv

(* No archive stays in the shared folder, once nobody works, but for the   *)
(* reasons that ArchivesRemoved names (drive_spliter.py:79-97), as long as *)
(* nobody uploads, renames or moves a file to the name of an archive.      *)
THEOREM Archives == ArchivesUnnamed => (Spec => []ArchivesRemoved)
<1>1. ZInv => ArchivesRemoved
  <2> SUFFICES ASSUME ZInv, \A r \in Request : ~ Working(r),
                      NEW f \in Folder, Exists(ZipOf(<<f>>))
               PROVE  \E r \in Request : Excused(f, r)
    BY DEF ArchivesRemoved, Excused
  <2>1. \A r \in Request : ~ Archiving(f, r)
    BY DEF Archiving, Working
  <2> QED BY <2>1 DEF ZInv
<1>2. SUFFICES ASSUME ArchivesUnnamed
               PROVE  Spec => []ArchivesRemoved
  OBVIOUS
<1> QED BY <1>1, <1>2, InitTInv, NextTInv, InitCInv, NextCInv, InitZInv, NextZInv,
           PTL DEF Spec
=============================================================================
