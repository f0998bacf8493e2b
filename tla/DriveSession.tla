---------------------------- MODULE DriveSession ----------------------------
(***************************************************************************)
(* A client at work: the loop of its command line (client.py), which asks  *)
(* for the list before every command, over a network that loses, copies    *)
(* and reorders, with the process that the server keeps for the client's   *)
(* address (server.py).  Tokens are counted from zero by each life of the  *)
(* client; the server's process outlives them.                             *)
(*                                                                         *)
(* The parts have modules of their own (TransactionPool, DriveAssembler,   *)
(* WorkerPool, ServerResource); here they are as coarse as the questions   *)
(* about their composition allow.  A message stays in the network once it  *)
(* was sent, whence every loss, copy and delay.                            *)
(***************************************************************************)
EXTENDS Integers, Sequences, FiniteSets, SequencesExt

CONSTANTS
    File,           \* files of the share at the start
    Blocks,         \* into how many blocks each is cut
    Folder,         \* folders of the user's home
    LastToken,      \* the last token one byte holds
    MaxEvents       \* bound: how many requests, restarts, transactions that
                    \* fail and copies that come after the first was solved

CONSTANTS None, Base

Token == 0 .. LastToken
Place == Folder \cup {Base}
Datagram == [kind : {"path", "block", "rst"}, token : Token, num : Nat, last : BOOLEAN,
            file : File \cup {None}, life : Nat]

ASSUME SessionAssumption ==
    /\ IsFiniteSet(File) /\ Blocks \in [File -> Nat]
    /\ LastToken \in Nat /\ MaxEvents \in Nat
    /\ Base \notin Folder
    /\ None \notin File \cup Place
    /\ None \notin [index : Nat, total : Int, held : SUBSET Datagram]

VARIABLES
    (* ---- the client ---- *)
    cli,        \* where the command line is
    cur,        \* the request it made last
    life, next, \* CURRENT_TOKEN + 1
    content,    \* __content_dict
    cwd, savePath,
    finished, failed,   \* of the transaction pool: overall, failed
    tasks,      \* _shared_work: accepted, not yet solved
    assembly, closing,
    disk,       \* blocks in the files of each folder
    (* ---- the server ---- *)
    share,
    work,       \* requests accepted, not yet solved
    sender,     \* the transfer under way of each token
    open,       \* its packets not yet acknowledged
    sfailed,    \* failed tokens
    (* ---- the network, and history ---- *)
    net, got, late, crossed, fails

client == <<cli, cur, life, next, content, cwd, savePath>>
pool == <<finished, failed, tasks>>
assembler == <<assembly, closing, disk>>
server == <<share, work, sender, open, sfailed>>
network == <<net, got, late, crossed, fails>>
vars == <<client, pool, assembler, server, network>>

Asks == {"fetch", "get", "delete"}
NoRequest == [kind |-> "none", token |-> -1, file |-> None, life |-> 0]
NoneYet == [req |-> NoRequest, place |-> None, clean |-> TRUE, kept |-> FALSE]

Init ==
    /\ cli = "top" /\ cur = NoneYet
    /\ life = 1 /\ next = 0
    /\ content = {} /\ cwd = "start" /\ savePath = None
    /\ finished = {} /\ failed = {} /\ tasks = {}
    /\ assembly = [t \in Token |-> None] /\ closing = FALSE
    /\ disk = [p \in Place |-> [f \in File |-> <<>>]]
    /\ share = File /\ work = {} /\ sender = [t \in Token |-> None]
    /\ open = {} /\ sfailed = {}
    /\ net = {} /\ got = {} /\ late = 0 /\ crossed = {} /\ fails = 0

Requests == {m \in net : m.kind \in Asks}
Room == Cardinality(Requests) + life - 1 + fails + late < MaxEvents

-----------------------------------------------------------------------------
(* The command line *)

(* The client ends, by Exit or killed, and is started again: everything it *)
(* knew is gone, the disk is not.                                          *)
Restart ==
    /\ Room
    /\ cli' = "top" /\ life' = life + 1 /\ next' = 0
    /\ cur' = NoneYet
    /\ content' = {} /\ cwd' = "start" /\ savePath' = None
    /\ finished' = {} /\ failed' = {} /\ tasks' = {}
    /\ assembly' = [t \in Token |-> None] /\ closing' = FALSE
    /\ crossed' = {}
    /\ UNCHANGED <<disk, server, net, got, late, fails>>

(* gen_token: one byte, or an exception that ends the command line *)
Ask(kind, file, place, then) ==
    LET m == [kind |-> kind, token |-> next, file |-> file, life |-> life] IN
    IF next \in Token
      THEN /\ Room
           /\ next' = next + 1
           /\ net' = net \cup {m}
           /\ cur' = [req |-> m, place |-> place, kept |-> place = None \/ cwd # "home",
                      clean |-> place = None \/ disk[place][file] = <<>>]
           /\ cli' = then
      ELSE cli' = "dead" /\ UNCHANGED <<next, net, cur>>

(* The first step of the loop; after a command, once a key was pressed. *)
FetchServerData ==
    /\ cli \in {"top", "done"}
    /\ content' = {} /\ cwd' = "start"
    /\ Ask("fetch", None, None, "listing")
    /\ UNCHANGED <<life, savePath, finished, failed, tasks, assembler, server,
                   got, late, crossed, fails>>

(* wait_util_finish *)
Return ==
    /\ cli \in {"listing", "loading"}
    /\ cur.req.token \in finished
    /\ cli' = IF cli = "listing" THEN "menu" ELSE "done"
    /\ UNCHANGED <<cur, life, next, content, cwd, savePath, pool, assembler, server,
                   network>>

(* download_file, up to its prompts ... *)
ChooseDownload ==
    /\ cli = "menu"
    /\ cwd' = "home"
    /\ cli' = IF content = {} THEN "done" ELSE "prompt"
    /\ cur' = [cur EXCEPT !.place = None, !.req = NoRequest]
    /\ UNCHANGED <<life, next, content, savePath, pool, assembler, server, network>>

(* ... and from there.  A folder that does not exist, where the current     *)
(* directory is, is silently ignored.                                      *)
Download ==
    /\ cli = "prompt"
    /\ \E f \in content, p \in Folder \cup {None} :
         /\ savePath' = IF p # None /\ cwd = "home" THEN p ELSE savePath
         /\ Ask("get", f, p, "loading")
    /\ UNCHANGED <<life, content, cwd, finished, failed, tasks, assembler, server,
                   got, late, crossed, fails>>

(* delete_file; rename_file and move_file wait no more than it does. *)
Delete ==
    /\ cli = "menu"
    /\ \/ \E f \in content : Ask("delete", f, None, "done")
       \/ content = {} /\ cli' = "done" /\ UNCHANGED <<next, net, cur>>
    /\ UNCHANGED <<life, content, cwd, savePath, finished, failed, tasks, assembler,
                   server, got, late, crossed, fails>>

-----------------------------------------------------------------------------
(* The server's process for this address *)

Key_NumOnly(m) == <<m.num>>
Key(m) == <<m.token, m.num>>
RequestKey(m) == <<m.token, m.kind = "delete">>
Packet(kind, t, n, last, f, l) ==
    [kind |-> kind, token |-> t, num |-> n, last |-> last, file |-> f, life |-> l]
Rst(t, l) == Packet("rst", t, 0, TRUE, None, l)

(* A message that was solved before is solved again, a bounded number of   *)
(* times.                                                                  *)
Copy(m) == m \in got => Room
Count(m) == /\ got' = got \cup {m}
            /\ late' = IF m \in got THEN late + 1 ELSE late

(* listen and the filter: a request of a failed token is not acknowledged, *)
(* one that has the key of a request being solved is, and goes no further. *)
Accept(m) ==
    /\ m \in net /\ m.kind \in Asks
    /\ m.token \notin sfailed
    /\ LET solving == {w \in work : RequestKey(w) = RequestKey(m)} IN
         /\ IF solving # {} THEN got' = got \cup {m} /\ UNCHANGED <<late, work>>
                            ELSE Copy(m) /\ Count(m) /\ work' = work \cup {m}
         /\ crossed' = IF m.life = life /\ solving \subseteq {m} THEN crossed
                                                             ELSE crossed \cup {m.token}
    /\ UNCHANGED <<client, pool, assembler, share, sender, open, sfailed, net, fails>>

(* The list is made, the file opened, when the request is solved. *)
PathsOf(m) == <<None>> \o SetToSeq(share)
Numbered(m, kind, files) ==
    [i \in 1 .. Len(files) |->
        Packet(kind, m.token, i - 1, i = Len(files), files[i], m.life)]

Packets(m) == IF m.kind = "fetch"
    THEN Numbered(m, "path", PathsOf(m))
    ELSE Numbered(m, "block", [i \in 1 .. Blocks[m.file] |-> m.file])

Solve(m) ==
    /\ m \in work /\ sender[m.token] = None
    /\ \/ /\ m.kind = "fetch" \/ (m.kind = "get" /\ m.file \in share)
          /\ IF Packets(m) = <<>>
               THEN work' = work \ {m} /\ UNCHANGED sender
               ELSE work' = work /\ sender' = [sender EXCEPT ![m.token] = Packets(m)]
          /\ UNCHANGED <<share, net>>
       \/ /\ m.kind = "delete" /\ m.file \in share
          /\ share' = share \ {m.file} /\ work' = work \ {m}
          /\ UNCHANGED <<sender, net>>
       \/ /\ m.kind # "fetch" /\ m.file \notin share
          /\ net' = net \cup {Rst(m.token, m.life)} /\ work' = work \ {m}
          /\ UNCHANGED <<share, sender>>
    /\ UNCHANGED <<client, pool, assembler, open, sfailed, got, late, crossed, fails>>

(* The last block of a file waits for all acknowledgements, the last path  *)
(* does not.                                                               *)
LastWaits(m) == m.kind = "block" /\ m.last

Solved(t) == work' = {w \in work : w.token # t \/ w.kind = "delete"}

SendNext(t) ==
    /\ sender[t] # None /\ t \notin sfailed
    /\ LET m == Head(sender[t]) IN
         /\ LastWaits(m) => open = {}
         /\ net' = net \cup {m}
         /\ open' = {x \in open : Key(x) # Key(m)} \cup {m}
         /\ sender' = [sender EXCEPT ![t] = IF m.last THEN None ELSE Tail(@)]
         /\ IF m.last THEN Solved(t) ELSE UNCHANGED work
    /\ UNCHANGED <<client, pool, assembler, share, sfailed, got, late, crossed, fails>>

(* handle_congestions says that the transfer failed. *)
GiveUp(t) ==
    /\ sender[t] # None /\ t \in sfailed
    /\ sender' = [sender EXCEPT ![t] = None]
    /\ Solved(t)
    /\ UNCHANGED <<client, pool, assembler, share, open, sfailed, network>>

(* An ACK, also one that was meant for an earlier life's packet *)
Ack(m) ==
    LET closed == {x \in open : Key(x) = Key(m)} IN
    /\ m \in got /\ m.kind \in {"path", "block"} /\ closed # {}
    /\ open' = open \ closed
    /\ crossed' = IF closed = {m} THEN crossed ELSE crossed \cup {m.token}
    /\ UNCHANGED <<client, pool, assembler, share, work, sender, sfailed, net, got,
                   late, fails>>

(* No ACK after the last retransmission: neither the command line nor the  *)
(* client hears of it.                                                     *)
Fail == Room /\ fails' = fails + 1

SenderFails(t) ==
    /\ \E m \in open : m.token = t
    /\ sfailed' = sfailed \cup {t}
    /\ open' = {m \in open : m.token # t}
    /\ Fail
    /\ UNCHANGED <<client, pool, assembler, share, work, sender, net, got, late,
                   crossed>>

(* Nor is there one for a request.  (An ACK does nothing but prevent this, *)
(* and any number of them may be lost.)                                    *)
RequestFails(m) ==
    /\ m \in Requests /\ m.life = life /\ m.token \notin failed
    /\ failed' = failed \cup {m.token}
    /\ Fail
    /\ UNCHANGED <<client, finished, tasks, assembler, server, net, got, late, crossed>>

-----------------------------------------------------------------------------
(* The client's filter and workers *)

Receive(m) ==
    /\ m \in net /\ m.kind \in {"path", "block"}
    /\ m.token \notin failed
    /\ IF Key(m) \in {Key(x) : x \in tasks}
         THEN got' = got \cup {m} /\ UNCHANGED <<tasks, late>>
         ELSE Copy(m) /\ Count(m) /\ tasks' = tasks \cup {m}
    /\ crossed' = IF m.life # life \/ (m.kind = "block" /\ m \in got \ tasks)
                    THEN crossed \cup {m.token} ELSE crossed
    /\ UNCHANGED <<client, finished, failed, assembler, server, net, fails>>

(* An RST finishes the request, and fails it.  Blocks of it that came      *)
(* before, in answer to another copy, are still handled.                   *)
ReceiveRst(m) ==
    /\ m \in net /\ m.kind = "rst" /\ m.token \notin finished \cap failed
    /\ finished' = finished \cup {m.token} /\ failed' = failed \cup {m.token}
    /\ crossed' = IF \/ m.life # life
                     \/ \E x \in got : x.kind = "block" /\ x.token = m.token /\ x.life = life
                    THEN crossed \cup {m.token} ELSE crossed
    /\ UNCHANGED <<client, tasks, assembler, server, net, got, late, fails>>

(* handle_paths, under the assembler's lock *)
Unlocked_Always == TRUE
Unlocked == ~ closing

HandlePath(m) ==
    /\ Unlocked
    /\ m \in tasks /\ m.kind = "path"
    /\ tasks' = tasks \ {m}
    /\ cwd' = "resource"
    /\ content' = content \cup ({m.file} \ {None})
    /\ finished' = IF m.last THEN finished \cup {m.token} ELSE finished
    /\ UNCHANGED <<cli, cur, life, next, savePath, failed, assembler, server,
                   network>>

(* handle_packets *)
NewAssembly == [index |-> 0, total |-> -1, held |-> {}]
Nums(held) == {x.num : x \in held}

Complete_OnLast(index, total) == total # -1
Complete(index, total) == total # -1 /\ index - 1 = total

HandleBlock(m) ==
    LET fresh == assembly[m.token] = None
        old == IF fresh THEN NewAssembly ELSE assembly[m.token]
        total == IF m.last THEN m.num ELSE old.total
        held == {x \in old.held : x.num # m.num} \cup {m}
        writes == old.index = m.num
        end == CHOOSE n \in Nums(held) : /\ m.num .. n \subseteq Nums(held)
                                         /\ n + 1 \notin Nums(held) /\ n >= m.num
        index == IF writes THEN end + 1 ELSE old.index
        run == [i \in 1 .. end - m.num + 1 |->
                    LET x == CHOOSE y \in held : y.num = m.num + i - 1
                    IN <<x.file, x.num>>]
        place == IF savePath = None THEN Base ELSE savePath
        cleared == IF fresh THEN [disk EXCEPT ![Base][m.file] = <<>>] ELSE disk
        complete == Complete(index, total)
    IN
    /\ ~ closing
    /\ m \in tasks /\ m.kind = "block"
    /\ tasks' = tasks \ {m}
    /\ cwd' = "resource"
    /\ disk' = IF writes THEN [cleared EXCEPT ![place][m.file] = @ \o run] ELSE cleared
    /\ assembly' = [assembly EXCEPT ![m.token] =
          IF complete THEN None
          ELSE [index |-> index, total |-> total,
                held |-> {x \in held : x.num >= index}]]
    /\ finished' = IF complete THEN finished \cup {m.token} ELSE finished
    /\ closing' = complete
    /\ UNCHANGED <<cli, cur, life, next, content, savePath, failed, server,
                   network>>

(* The rest of the last block's handling, the lock still held *)
ResetSavePath_Base == Base
ResetSavePath == None

Close ==
    /\ closing
    /\ closing' = FALSE /\ savePath' = ResetSavePath
    /\ UNCHANGED <<cli, cur, life, next, content, cwd, pool, assembly, disk, server,
                   network>>

-----------------------------------------------------------------------------
CommandLine == \/ FetchServerData \/ Return \/ ChooseDownload \/ Download
               \/ Delete
Process == \/ \E m \in net : Accept(m)
           \/ \E m \in work : Solve(m)
           \/ \E t \in Token : SendNext(t) \/ GiveUp(t) \/ SenderFails(t)
Workers == \/ \E m \in net : Receive(m) \/ ReceiveRst(m)
           \/ \E m \in tasks : HandlePath(m) \/ HandleBlock(m)
           \/ Close

Next == \/ Restart \/ CommandLine \/ Process \/ Workers
        \/ \E m \in got : Ack(m)
        \/ \E m \in net : RequestFails(m)

Spec == Init /\ [][Next]_vars

(* The network delivers what is sent again and again, and its ACK; threads *)
(* run.  The user may stay away, and nothing has to fail.                  *)
FairSpec ==
    /\ Spec
    /\ WF_vars(Return) /\ WF_vars(Close)
    /\ WF_vars(\E m \in net \ got : m.life = life /\ Accept(m))
    /\ WF_vars(\E m \in work : Solve(m))
    /\ WF_vars(\E t \in Token : SendNext(t))
    /\ WF_vars(\E m \in open : Receive(m))
    /\ WF_vars(\E m \in net : ReceiveRst(m))
    /\ WF_vars(\E m \in tasks : HandlePath(m) \/ HandleBlock(m))
    /\ WF_vars(\E m \in got : Ack(m))

-----------------------------------------------------------------------------
(* Properties *)

(* The sets of the pools hold what was really sent. *)
TypeOK ==
    /\ next \in 0 .. LastToken + 1
    /\ cli \in {"top", "listing", "menu", "prompt", "loading", "done", "dead"}
    /\ tasks \cup open \cup work \subseteq net
    /\ savePath \in Folder \cup {None}

Whole(f) == [i \in 1 .. Blocks[f] |-> <<f, i - 1>>]

(* A download that returned, and that the server did not refuse, left the  *)
(* whole file in the folder that was named, through any loss, copy and     *)
(* delay of its messages - unless the folder did not exist, a file of that *)
(* name was there before (drive_assembler.py:104), a path of the list came *)
(* late and moved the current directory under the prompts                  *)
(* (client_resource.py:103 against client.py:78 and drive_assembler.py:53),*)
(* a block came again after it was written, a download was refused after   *)
(* blocks of it had come (coap_worker_pool.py:179: they are handled during *)
(* the next one and reset its save path), or a message of an earlier life  *)
(* came, or held up a request of the same token (coap_config.py:185,       *)
(* coap_worker_pool.py:167).                                               *)
Delivered ==
    (/\ cli = "done" /\ cur.req.kind = "get" /\ cur.req.token \notin failed
     /\ cur.clean /\ ~ cur.kept /\ crossed = {})
    => disk[cur.place][cur.req.file] = Whole(cur.req.file)

(* While a download runs its save path is the one that was set for it,     *)
(* although the download before resets it after it was marked finished     *)
(* (drive_assembler.py:145, 153): the list fetched between them takes the  *)
(* lock that is held until then (line 70).                                 *)
SavePathKept ==
    (cli = "loading" /\ cur.req.token \notin finished /\ ~ cur.kept /\ crossed = {})
    => savePath = cur.place

Waiting == cli \in {"listing", "loading"}

(* The command line comes back from each wait (client.py:102, 227) if no   *)
(* transaction runs out of retransmissions - of which nobody tells it -,   *)
(* nothing of an earlier life or handled before crosses, and the file has  *)
(* at least one block.                                                     *)
Returns == Waiting ~>
    \/ ~ Waiting
    \/ fails > 0 \/ crossed # {}
    \/ cur.req.kind = "get" /\ Blocks[cur.req.file] = 0
=============================================================================
