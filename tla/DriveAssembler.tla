--------------------------- MODULE DriveAssembler ---------------------------
(***************************************************************************)
(* The receiving side of a transfer (drive_assembler.py): worker threads   *)
(* hand over blocks in any order and, when the sender did not get an ACK,  *)
(* more than once; the assembler writes them to a file in order.  A call   *)
(* holds the lock, so it is one step; the call that finishes a transfer is *)
(* two, since the request is marked finished, which others see, before the *)
(* folder is extracted and the save path reset.  The save path is set      *)
(* outside the lock: on a client by the command line before it asks for    *)
(* the file, on a server by the worker of the PUT request, which runs      *)
(* beside the blocks of that upload and of others.                         *)
(***************************************************************************)
EXTENDS Integers, Sequences, FiniteSets

CONSTANTS
    Request,    \* general work ids
    Total,      \* number of blocks of each request
    Name,       \* base name of each request's file
    Zipped,     \* requests whose file is a compressed folder
    Folder,     \* folders the save path can name
    Existing,   \* files that exist at the start, as <<folder, name>>
    Overlap,    \* TRUE on a server, FALSE on a client
    MaxCopies   \* how often one block can be handed over

CONSTANTS NoPath, None, Absent, Old

ASSUME AssemblerAssumption ==
    /\ Total \in [Request -> Nat \ {0}]
    /\ Zipped \subseteq Request
    /\ NoPath \notin Folder
    /\ None \notin [total : Int, index : Nat, received : SUBSET Nat]
    /\ Overlap \in BOOLEAN
    /\ MaxCopies \in Nat

VARIABLES
    assembly,   \* __in_assembly
    savePath,   \* __save_path
    closing,    \* the place of the file whose completion holds the lock
    overall,    \* the pool's finished requests, as far as this object sets them
    files,      \* the file system: what each file holds
    begun,      \* requests whose save path was set
    copies,     \* history: how often each block was handed over
    written,    \* history: blocks written in the current assembly
    result      \* history: what the file held when the request finished

vars == <<assembly, savePath, closing, overall, files, begun, copies, written, result>>

Block(g) == 0 .. Total[g] - 1

(* The current directory is the resource's folder, here NoPath. *)
Place(dir, g) == <<dir, Name[g]>>
Places == {Place(dir, g) : dir \in Folder \cup {NoPath}, g \in Request}

Init ==
    /\ assembly = [g \in Request |-> None]
    /\ savePath = NoPath
    /\ closing = None
    /\ overall = {}
    /\ files = [p \in Places |-> IF p \in Existing THEN <<Old>> ELSE Absent]
    /\ begun = {}
    /\ copies = [g \in Request |-> [n \in Block(g) |-> 0]]
    /\ written = [g \in Request |-> <<>>]
    /\ result = [g \in Request |-> Absent]

-----------------------------------------------------------------------------
(* set_save_path: only a folder that exists is taken over.  The command    *)
(* line waits for the end of a download before the next one.               *)
SetSavePath(g) ==
    /\ g \notin begun
    /\ Overlap \/ begun \subseteq overall
    /\ begun' = begun \cup {g}
    /\ savePath' \in Folder \cup {savePath}
    /\ UNCHANGED <<assembly, closing, overall, files, copies, written, result>>

(* reset_save_path, on an exception of the PUT handler *)
ResetSavePath ==
    /\ Overlap
    /\ savePath' = NoPath
    /\ UNCHANGED <<assembly, closing, overall, files, begun, copies, written, result>>

(* ---- handle_packets ---- *)

NewAssembly == [total |-> -1, index |-> 0, received |-> {}]

(* A block is written when it is the next one ... *)
IsNext_OrLater(index, n) == index <= n
IsNext(index, n) == index = n

(* ... with the run of blocks buffered behind it. *)
RunEnd_NoRun(n, received) == n
RunEnd(n, received) ==
    CHOOSE m \in received : n .. m \subseteq received /\ m + 1 \notin received /\ m >= n

IsComplete_UnknownTotal(index, total) == index - 1 = total
IsComplete_PastTheEnd(index, total) == total # -1 /\ index > total + 1
IsComplete(index, total) == total # -1 /\ index - 1 = total

(* Lines 104-105: what a new assembly does to the file of that name in the *)
(* current directory                                                       *)
Removed(g) == [files EXCEPT ![Place(NoPath, g)] = Absent]

Appended(fs, p, blocks) ==
    [fs EXCEPT ![p] = IF @ = Absent THEN blocks ELSE @ \o blocks]

HandlePackets(g, n) ==
    LET fresh == assembly[g] = None
        old == IF fresh THEN NewAssembly ELSE assembly[g]
        total == IF n = Total[g] - 1 THEN n ELSE old.total
        received == old.received \cup {n}
        writes == IsNext(old.index, n)
        last == RunEnd(n, received)
        run == IF writes THEN [i \in 1 .. last - n + 1 |-> <<g, n + i - 1>>] ELSE <<>>
        index == IF writes THEN last + 1 ELSE old.index
        place == IF writes /\ savePath # NoPath THEN Place(savePath, g)
                                                ELSE Place(NoPath, g)
        before == IF fresh THEN Removed(g) ELSE files
        after == IF writes THEN Appended(before, place, run) ELSE before
        complete == IsComplete(index, total)
    IN
    /\ closing = None
    /\ Overlap \/ g \in begun
    /\ copies[g][n] < MaxCopies
    /\ copies' = [copies EXCEPT ![g][n] = @ + 1]
    /\ written' = [written EXCEPT ![g] = IF fresh THEN run ELSE @ \o run]
    /\ IF complete
         THEN /\ assembly' = [assembly EXCEPT ![g] = None]
              /\ overall' = overall \cup {g}
              /\ result' = [result EXCEPT ![g] = IF g \in overall THEN @ ELSE after[place]]
              /\ closing' = <<place, g>>
         ELSE /\ assembly' = [assembly EXCEPT ![g] =
                    [total |-> total, index |-> index,
                     received |-> IF writes THEN received \ (n .. last) ELSE received]]
              /\ UNCHANGED <<closing, overall, result>>
    /\ files' = after
    /\ UNCHANGED <<savePath, begun>>

(* The rest of the call that finished a transfer: a compressed folder is   *)
(* extracted and its file removed, and the save path is reset.             *)
Close ==
    /\ closing # None
    /\ files' = IF closing[2] \in Zipped THEN [files EXCEPT ![closing[1]] = Absent]
                                         ELSE files
    /\ savePath' = NoPath
    /\ closing' = None
    /\ UNCHANGED <<assembly, overall, begun, copies, written, result>>

-----------------------------------------------------------------------------
Next == \/ \E g \in Request : SetSavePath(g)
        \/ ResetSavePath
        \/ \E g \in Request : \E n \in Block(g) : HandlePackets(g, n)
        \/ Close

Spec == Init /\ [][Next]_vars

(* The sender repeats a block until it is acknowledged and a worker hands  *)
(* over whatever was acknowledged: every block comes at least once, also   *)
(* when others keep the lock busy.                                         *)
FairSpec ==
    /\ Spec
    /\ \A g \in Request : WF_vars(SetSavePath(g))
    /\ WF_vars(Close)
    /\ \A g \in Request : \A n \in Block(g) :
          SF_vars(copies[g][n] = 0 /\ HandlePackets(g, n))

-----------------------------------------------------------------------------
(* Properties *)

(* An open assembly waits for a block of its file and buffers blocks of    *)
(* its file only (the dictionaries of drive_assembler.py:96-100).          *)
TypeOK ==
    /\ \A g \in Request :
          \/ assembly[g] = None
          \/ /\ assembly[g].total \in Block(g) \cup {-1}
             /\ assembly[g].index \in Block(g)
             /\ assembly[g].received \subseteq Block(g)
    /\ savePath \in Folder \cup {NoPath}
    /\ overall \subseteq Request /\ begun \subseteq Request
    /\ closing \in (Places \X overall) \cup {None}

Upto(g, m) == [i \in 1 .. m |-> <<g, i - 1>>]

(* Whatever the order and the repetitions, one assembly writes the blocks  *)
(* 0, 1, 2, ... up to its write index, each exactly once.                  *)
WrittenInOrder == \A g \in Request :
    assembly[g] # None => written[g] = Upto(g, assembly[g].index)

(* The waiting command line is released only when the whole file was       *)
(* written (line 145).                                                     *)
FinishedWhole == \A g \in Request :
    g \in overall /\ assembly[g] = None => written[g] = Upto(g, Total[g])

(* The file at the place of a finished request held exactly its blocks:    *)
(* nothing of an older file of that name ("If the file already exists,     *)
(* delete it before downloading", line 103), no block in another place.    *)
ExactFile == \A g \in overall : result[g] = Upto(g, Total[g])

(* The assembler implements the abstract transfer: what it has written and *)
(* when it finishes depend only on which blocks came, not on their order,  *)
(* on copies or on other transfers (drive_assembler.py:94-145).            *)
Arrived == [g \in Request |-> IF assembly[g] = None THEN {}
               ELSE (0 .. assembly[g].index - 1) \cup assembly[g].received]
Transfer == INSTANCE FileTransfer WITH
    arrived <- Arrived, content <- written, finished <- overall
ImplementsTransfer == Transfer!Spec

(* Every transfer finishes once all its blocks have come. *)
Finishes == \A g \in Request : <>(g \in overall)

=============================================================================
