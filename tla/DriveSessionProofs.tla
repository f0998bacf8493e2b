------------------------- MODULE DriveSessionProofs -------------------------
(***************************************************************************)
(* Proofs about DriveSession, for any share, any number of blocks, tokens, *)
(* lives of the client and messages.                                       *)
(***************************************************************************)
EXTENDS DriveSession, SequenceTheorems, FiniteSetTheorems, NaturalsInduction,
        WellFoundedInduction, TLAPS

-----------------------------------------------------------------------------
(* The invariant *)

(* What answers a request: the blocks of its file, a path of the list, an  *)
(* RST.                                                                    *)
Block(r, n) == Packet("block", r.token, n, n = Blocks[r.file] - 1, r.file, r.life)
Positions(r) == 0 .. Blocks[r.file] - 1
IsBlockOf(r, m) == r.kind = "get" /\ \E n \in Positions(r) : m = Block(r, n)
IsPathOf(r, m) == /\ r.kind = "fetch" /\ m \in Datagram
                  /\ m.kind = "path" /\ m.token = r.token /\ m.life = r.life
IsRstOf(r, m) == r.kind \in {"get", "delete"} /\ m = Rst(r.token, r.life)

IsRequest(m) ==
    /\ m \in [kind : Asks, token : Token, file : File \cup {None}, life : Nat]
    /\ m.kind # "fetch" => m.file \in File
    /\ m.life <= life /\ (m.life = life => m.token < next)
IsAnswer(m) == \E r \in Requests : IsBlockOf(r, m) \/ IsPathOf(r, m)

(* Every message is a request, or belongs to one; token and life tell      *)
(* requests apart.                                                         *)
Network ==
    /\ \A m \in net : IsRequest(m) \/ IsAnswer(m) \/ \E r \in Requests : IsRstOf(r, m)
    /\ \A r, s \in Requests : r.token = s.token /\ r.life = s.life => r = s
    /\ got \subseteq net

Server ==
    /\ share \subseteq File /\ work \subseteq Requests /\ open \subseteq net
    /\ sender \in [Token -> Seq(Datagram) \cup {None}]
    /\ \A t \in Token : sender[t] # None =>
          /\ sender[t] # <<>> /\ sender[t][Len(sender[t])].last
          /\ \A i \in 1 .. Len(sender[t]) : IsAnswer(sender[t][i])

(* Blocks that are held, and a bound on their numbers                      *)
Piece == {x \in Datagram : x.file \in File}
Bounded(held) == \E k \in Nat : \A x \in held : x.num <= k

Client ==
    /\ cli \in {"top", "listing", "menu", "prompt", "loading", "done", "dead"}
    /\ life \in Nat /\ next \in 0 .. LastToken + 1
    /\ content \subseteq File /\ savePath \in Folder \cup {None}
    /\ tasks \subseteq net /\ \A m \in tasks : IsAnswer(m)
    /\ tasks \cap {m \in net : m.kind = "block"} \subseteq got
    /\ disk \in [Place -> [File -> Seq(File \X Nat)]]
    /\ assembly \in [Token -> {None} \cup [index : Nat, total : Int, held : SUBSET Piece]]
    /\ \A t \in Token : assembly[t] # None => Bounded(assembly[t].held)
    /\ closing \in BOOLEAN
    /\ cur \in [req : Requests \cup {NoRequest}, place : Folder \cup {None},
                clean : BOOLEAN, kept : BOOLEAN]

NInv == Network /\ Server /\ Client

(* The downloads of this life, and how far the one under way has come      *)
Downloads == {r \in Requests : r.kind = "get" /\ r.life = life}
Handled(r) == {n \in Positions(r) : Block(r, n) \in got \ tasks}
Assembly(t) == IF assembly[t] = None THEN NewAssembly ELSE assembly[t]

(* The assembly of a download holds what was handled: the blocks below the *)
(* index, which were written, and those behind a gap.                      *)
Assembling(r) ==
    LET a == Assembly(r.token) IN
    /\ a.held = {Block(r, n) : n \in Nums(a.held)}
    /\ Nums(a.held) \subseteq Positions(r) /\ \A n \in Nums(a.held) : n > a.index
    /\ Handled(r) = (0 .. a.index - 1) \cup Nums(a.held)
    /\ a.index = 0 \/ a.index < Blocks[r.file]
    /\ a.total = IF Blocks[r.file] - 1 \in Handled(r) THEN Blocks[r.file] - 1 ELSE -1

(* No block of a finished download is left to handle, nor comes again      *)
(* without crossing.                                                       *)
Over(r) == \A n \in Positions(r) :
    Block(r, n) \notin tasks /\ (Block(r, n) \in got \/ r.token \in failed)

(* What this life has not asked for is not under way.                      *)
Early ==
    /\ \A m \in tasks : m.life = life
    /\ finished \subseteq {t \in Token : t < next}
    /\ \A t \in Token : t >= next => assembly[t] = None

(* The request made last is the one that the command line waits for.       *)
Asked ==
    /\ cli \in {"listing", "loading"} =>
          /\ cur.req \in Requests /\ cur.req.life = life
          /\ cur.req.kind = IF cli = "listing" THEN "fetch" ELSE "get"
    /\ cli = "done" /\ cur.req.kind = "get" => cur.req \in Downloads
    /\ cli \in {"menu", "prompt"} => cur.req.kind # "get"

(* Only the last download, and only while the command line waits for it,   *)
(* is not finished.                                                        *)
Progress == \A r \in Downloads :
    IF r.token \in finished THEN Over(r)
    ELSE cli = "loading" /\ cur.req = r /\ Assembling(r)

(* The lock is held at no other time than from the end of a download to    *)
(* the end of the next list.                                               *)
Locked == closing =>
    \/ cli = "loading" /\ cur.req.token \in finished
    \/ cli = "listing" /\ cur.req.token \notin finished
    \/ cli \in {"done", "dead"}

(* What the download under way has written, and where                      *)
First(f, k) == [i \in 1 .. k |-> <<f, i - 1>>]
Kept == cli = "loading" /\ cur.req.token \notin finished /\ ~ cur.kept =>
            savePath = cur.place /\ cur.place \in Folder
Written ==
    cli \in {"loading", "done"} /\ cur.req.kind = "get" /\ cur.clean /\ ~ cur.kept =>
        /\ cur.place \in Folder
        /\ cur.req.token \notin finished =>
              disk[cur.place][cur.req.file]
                  = First(cur.req.file, Assembly(cur.req.token).index)
        /\ cur.req.token \in finished /\ cur.req.token \notin failed =>
              disk[cur.place][cur.req.file] = Whole(cur.req.file)

Course == Early /\ Asked /\ Progress /\ Locked /\ Kept /\ Written

(* It holds while nothing crosses: then that is part of the invariant.     *)
Undisturbed == crossed = {} => Course

-----------------------------------------------------------------------------
(* Messages *)

(* The messages that answer a request, and what they tell of it            *)
LEMMA BlockFacts ==
    ASSUME NEW r, IsRequest(r), r.kind = "get"
    PROVE  /\ Blocks[r.file] \in Nat /\ Positions(r) \subseteq Nat
           /\ \A n \in Positions(r) :
                 /\ Block(r, n) \in Datagram
                 /\ Block(r, n).kind = "block" /\ Block(r, n).token = r.token
                 /\ Block(r, n).num = n /\ Block(r, n).file = r.file
                 /\ Block(r, n).life = r.life
                 /\ Block(r, n).last = (n = Blocks[r.file] - 1)
<1>1. r.file \in File /\ r.token \in Token /\ r.life \in Nat
  BY DEF IsRequest
<1>2. Blocks[r.file] \in Nat
  BY <1>1, SessionAssumption
<1>3. Positions(r) \subseteq Nat
  BY <1>2 DEF Positions
<1> QED BY <1>1, <1>2, <1>3 DEF Block, Packet, Datagram

(* Requests are typed, and no message is a request and an answer.          *)
LEMMA RequestFacts ==
    ASSUME Network
    PROVE  /\ \A r \in Requests :
                 /\ IsRequest(r) /\ r \in net /\ r.kind \in Asks
                 /\ r.token \in Token /\ r.life \in Nat
           /\ \A r \in Requests : \A m : IsBlockOf(r, m) =>
                 m.kind = "block" /\ m.token = r.token /\ m.life = r.life /\ m \in Datagram
           /\ \A r \in Requests : \A m : IsRstOf(r, m) =>
                 m.kind = "rst" /\ m.token = r.token /\ m.life = r.life
           /\ \A m : IsAnswer(m) => m \in Datagram /\ m.kind \in {"path", "block"}
           /\ \A m \in net : m.kind = "block" => \E r \in Requests : IsBlockOf(r, m)
           /\ \A m \in net : m.kind = "path" => \E r \in Requests : IsPathOf(r, m)
           /\ \A m \in net : m.kind = "rst" => \E r \in Requests : IsRstOf(r, m)
<1>1. ASSUME NEW m, \E r \in Requests : IsRstOf(r, m)
      PROVE  m.kind = "rst"
  BY <1>1 DEF IsRstOf, Rst, Packet
<1>2. ASSUME NEW r \in Requests
      PROVE  /\ IsRequest(r) /\ r \in net /\ r.kind \in Asks
             /\ r.token \in Token /\ r.life \in Nat
  <2>1. r \in net /\ r.kind \in Asks
    BY DEF Requests
  <2>2. \A s \in Requests : s \in net
    BY DEF Requests
  <2>3. IsRequest(r)
    <3>1. CASE IsAnswer(r)
      <4>1. r.kind \in {"block", "path"}
        BY <3>1 DEF IsAnswer, IsBlockOf, IsPathOf, Block, Packet
      <4> QED BY <2>1, <4>1 DEF Asks
    <3> QED BY <2>1, <3>1, <1>1 DEF Network, Asks
  <2> QED BY <2>1, <2>3 DEF IsRequest
<1>3. \A r \in Requests : \A m : IsBlockOf(r, m) =>
         m.kind = "block" /\ m.token = r.token /\ m.life = r.life /\ m \in Datagram
  BY <1>2, BlockFacts DEF IsBlockOf
<1>4. \A r \in Requests : \A m : IsRstOf(r, m) =>
         m.kind = "rst" /\ m.token = r.token /\ m.life = r.life
  BY DEF IsRstOf, Rst, Packet
<1>5. \A m : IsAnswer(m) => m \in Datagram /\ m.kind \in {"path", "block"}
  BY <1>3 DEF IsAnswer, IsPathOf
<1>6. \A m \in net : m.kind \in {"path", "block", "rst"} => m.kind \notin Asks
  BY DEF Asks
<1>7. \A m : IsRequest(m) => m.kind \in Asks
  BY DEF IsRequest
<1>8. \A r \in Requests : \A m : IsPathOf(r, m) => m.kind = "path"
  BY DEF IsPathOf
<1> QED BY <1>1, <1>2, <1>3, <1>4, <1>5, <1>6, <1>7, <1>8 DEF Network, IsAnswer
(* A message that answers a request still does when more were sent.        *)
LEMMA AnswersStay ==
    ASSUME Requests \subseteq Requests'
    PROVE  /\ \A m : IsAnswer(m) => IsAnswer(m)'
           /\ \A m : (\E r \in Requests : IsRstOf(r, m)) => (\E r \in Requests : IsRstOf(r, m))'
BY DEF IsAnswer, IsBlockOf, IsPathOf, IsRstOf, Positions, Block

(* A step that asks nothing: what it sends answers requests.               *)
LEMMA NetworkKept ==
    ASSUME Network, life \in Nat, NEW M, net' = net \cup M,
           \A m \in M : IsAnswer(m) \/ \E r \in Requests : IsRstOf(r, m),
           got' \subseteq net', \/ life' = life /\ next' = next
                                \/ life' = life + 1
    PROVE  Network' /\ Requests' = Requests
<1>1. \A m \in M : m.kind \notin Asks
  <2>1. \A m : IsAnswer(m) => m.kind \in {"path", "block"}
    BY RequestFacts
  <2>2. \A r \in Requests : \A m : IsRstOf(r, m) => m.kind = "rst"
    BY RequestFacts
  <2> QED BY <2>1, <2>2 DEF Asks
<1>2. Requests' = Requests
  BY <1>1 DEF Requests
<1>3. \A m : IsRequest(m) => IsRequest(m)'
  BY DEF IsRequest
<1>4. \A m \in net' : (IsRequest(m) \/ IsAnswer(m) \/ \E r \in Requests : IsRstOf(r, m))'
  BY <1>2, <1>3, AnswersStay DEF Network
<1>5. \A r, s \in Requests' : r.token = s.token /\ r.life = s.life => r = s
  BY <1>2 DEF Network
<1> QED BY <1>2, <1>4, <1>5 DEF Network

(* A step that sends nothing                                               *)
LEMMA NetworkSame ==
    ASSUME Network, life \in Nat, net' = net, got' \subseteq net,
           \/ life' = life /\ next' = next
           \/ life' = life + 1
    PROVE  Network' /\ Requests' = Requests
<1> DEFINE M == {}
<1>1. net' = net \cup M /\ \A m \in M : IsAnswer(m) \/ \E r \in Requests : IsRstOf(r, m)
  OBVIOUS
<1> HIDE DEF M
<1> QED BY <1>1, NetworkKept

(* The command line asks, with the next token of this life (client.py).    *)
LEMMA NetworkAsks ==
    ASSUME Network, life \in Nat, next \in Token, NEW kind \in Asks,
           NEW file \in File \cup {None}, kind = "fetch" \/ file \in File,
           net' = net \cup {[kind |-> kind, token |-> next, file |-> file, life |-> life]},
           next' = next + 1, life' = life, got' = got
    PROVE  /\ Network'
           /\ Requests' = Requests
                \cup {[kind |-> kind, token |-> next, file |-> file, life |-> life]}
<1> PICK q : q = [kind |-> kind, token |-> next, file |-> file, life |-> life]
  OBVIOUS
<1>0. next \in Nat /\ LastToken \in Nat
  BY SessionAssumption DEF Token
<1>1. Requests' = Requests \cup {q}
  BY DEF Requests
<1>2. IsRequest(q)'
  BY <1>0 DEF IsRequest
<1>3. \A m : IsRequest(m) => IsRequest(m)'
  BY <1>0 DEF IsRequest, Token
<1>4. \A m \in net' : (IsRequest(m) \/ IsAnswer(m) \/ \E r \in Requests : IsRstOf(r, m))'
  BY <1>1, <1>2, <1>3, AnswersStay DEF Network
<1>5. \A r \in Requests : ~ (r.token = q.token /\ r.life = q.life)
  BY <1>0, RequestFacts DEF IsRequest
<1>6. \A r, s \in Requests' : r.token = s.token /\ r.life = s.life => r = s
  BY <1>1, <1>5 DEF Network
<1>7. got' \subseteq net'
  BY DEF Network
<1> QED BY <1>1, <1>4, <1>6, <1>7 DEF Network

(* A set of files, put in some order                                       *)
LEMMA FilesInOrder ==
    ASSUME NEW S \in SUBSET File
    PROVE  SetToSeq(S) \in Seq(File)
<1>1. IsFiniteSet(S)
  BY SessionAssumption, FS_Subset
<1>2. Cardinality(S) \in Nat /\ ExistsBijection(1 .. Cardinality(S), S)
  BY <1>1, FS_CardinalityType
<1>3. \E f \in [1 .. Cardinality(S) -> S] : IsInjective(f)
  BY <1>2 DEF ExistsBijection, Bijection, Injection
<1>4. SetToSeq(S) \in [1 .. Cardinality(S) -> S]
  BY <1>3 DEF SetToSeq
<1> QED BY <1>2, <1>4

(* What the server sends in answer to a request: paths or blocks, the last *)
(* of them marked (drive_spliter.py:56-78, 108-128).                       *)
LEMMA PacketsFacts ==
    ASSUME NInv, NEW m \in Requests, m.kind \in {"fetch", "get"}, Packets(m) # <<>>
    PROVE  /\ Packets(m) \in Seq(Datagram) /\ Packets(m)[Len(Packets(m))].last
           /\ \A i \in 1 .. Len(Packets(m)) : IsAnswer(Packets(m)[i])
<1>0. IsRequest(m) /\ m.token \in Token /\ m.life \in Nat /\ share \subseteq File
  BY RequestFacts DEF NInv, Server
<1>1. CASE m.kind = "fetch"
  <2> DEFINE files == PathsOf(m)
  <2>1. files \in Seq(File \cup {None}) /\ Len(files) \in Nat
    <3>1. SetToSeq(share) \in Seq(File)
      BY <1>0, FilesInOrder
    <3>2. SetToSeq(share) \in Seq(File \cup {None}) /\ <<None>> \in Seq(File \cup {None})
      BY <3>1
    <3> QED BY <3>2 DEF PathsOf
  <2> HIDE DEF files
  <2>2. Packets(m) = [i \in 1 .. Len(files) |->
            Packet("path", m.token, i - 1, i = Len(files), files[i], m.life)]
    BY <1>1 DEF Packets, Numbered, files
  <2>3. \A i \in 1 .. Len(files) :
           Packets(m)[i] \in Datagram /\ IsPathOf(m, Packets(m)[i])
    BY <1>0, <1>1, <2>1, <2>2 DEF Packet, Datagram, IsPathOf
  <2>4. Packets(m) \in Seq(Datagram) /\ Len(Packets(m)) = Len(files)
    BY <2>1, <2>2, <2>3
  <2>5. Len(files) # 0
    BY <2>4, EmptySeq
  <2>6. \A i \in 1 .. Len(files) : IsAnswer(Packets(m)[i])
    BY <2>3 DEF IsAnswer
  <2>7. Packets(m)[Len(files)].last
    <3>1. Len(files) \in 1 .. Len(files)
      BY <2>1, <2>5
    <3>2. Packets(m)[Len(files)] = Packet("path", m.token, Len(files) - 1,
                                 Len(files) = Len(files), files[Len(files)], m.life)
      BY <2>2, <3>1, Zenon
    <3>3. Packets(m)[Len(files)].last = (Len(files) = Len(files))
      BY <3>2 DEF Packet
    <3> QED BY <3>3, Zenon
  <2> QED BY <2>4, <2>6, <2>7
<1>2. CASE m.kind = "get"
  <2> DEFINE k == Blocks[m.file]
  <2>1. k \in Nat /\ m.file \in File
    BY <1>0, <1>2, SessionAssumption DEF IsRequest
  <2>2. Len([i \in 1 .. k |-> m.file]) = k
    BY <2>1
  <2>3. Packets(m) = [i \in 1 .. k |->
            Packet("block", m.token, i - 1, i = k, m.file, m.life)]
    BY <1>2, <2>2 DEF Packets, Numbered
  <2>4. \A i \in 1 .. k : i - 1 \in Positions(m) /\ Packets(m)[i] = Block(m, i - 1)
    BY <2>1, <2>3 DEF Block, Positions
  <2>5. \A i \in 1 .. k :
           Packets(m)[i] \in Datagram /\ IsBlockOf(m, Packets(m)[i])
    BY <1>0, <1>2, <2>1, <2>4, BlockFacts DEF IsBlockOf
  <2> HIDE DEF k
  <2>6. Packets(m) \in Seq(Datagram) /\ Len(Packets(m)) = k
    BY <2>1, <2>3, <2>5
  <2>7. k # 0
    BY <2>6, EmptySeq
  <2>8. \A i \in 1 .. k : IsAnswer(Packets(m)[i])
    BY <2>5 DEF IsAnswer
  <2>9. Packets(m)[k].last
    <3>1. k \in 1 .. k
      BY <2>1, <2>7
    <3>2. Packets(m)[k] = Packet("block", m.token, k - 1, k = k, m.file, m.life)
      BY <2>3, <3>1, Zenon
    <3>3. Packets(m)[k].last = (k = k)
      BY <3>2 DEF Packet
    <3> QED BY <3>3, Zenon
  <2> QED BY <2>6, <2>8, <2>9
<1> QED BY <1>1, <1>2
-----------------------------------------------------------------------------
(* Messages and types, by each step *)

(* What the server does not touch stays right when more was sent.          *)
LEMMA ServerKept ==
    ASSUME Server, Requests \subseteq Requests', net \subseteq net', UNCHANGED server
    PROVE  Server'
<1>1. UNCHANGED <<share, work, sender, open>>
  BY DEF server
<1>2. \A m : IsAnswer(m) => IsAnswer(m)'
  BY AnswersStay
<1>3. \A t \in Token : sender'[t] # None =>
        \A i \in 1 .. Len(sender'[t]) : IsAnswer(sender[t][i])'
  BY <1>1, <1>2 DEF Server
<1>4. \A t \in Token : \A i : sender'[t][i] = sender[t][i]
  BY <1>1
<1> QED BY <1>1, <1>3, <1>4 DEF Server

(* Nor does what the client does not touch                                 *)
LEMMA ClientKept ==
    ASSUME Network, Client, Requests \subseteq Requests', net \subseteq net', got \subseteq got',
           tasks' \subseteq tasks, UNCHANGED <<disk, assembly, closing>>,
           cli' \in {"top", "listing", "menu", "prompt", "loading", "done", "dead"},
           life' \in Nat, next' \in 0 .. LastToken + 1,
           content' \subseteq File, savePath' \in Folder \cup {None},
           cur' \in [req : Requests' \cup {NoRequest}, place : Folder \cup {None},
                     clean : BOOLEAN, kept : BOOLEAN]
    PROVE  Client'
<1>1. \A m \in tasks' : IsAnswer(m)'
  BY AnswersStay DEF Client
<1>2. tasks' \subseteq net' /\ tasks' \cap {m \in net' : m.kind = "block"} \subseteq got'
  BY DEF Client
<1> QED BY <1>1, <1>2 DEF Client

(* The request made last stays a request.                                  *)
LEMMA CurStays ==
    ASSUME Client, Requests \subseteq Requests'
    PROVE  cur \in [req : Requests' \cup {NoRequest}, place : Folder \cup {None},
                    clean : BOOLEAN, kept : BOOLEAN]
BY DEF Client

(* At the start there are no messages.                                     *)
LEMMA InitNInv == Init => NInv
<1> SUFFICES ASSUME Init PROVE NInv
  OBVIOUS
<1>1. Requests = {}
  BY DEF Init, Requests
<1>2. Network
  BY <1>1 DEF Init, Network
<1>3. Server
  BY <1>1 DEF Init, Server
<1>4. Client
  <2>1. NoneYet \in [req : {NoRequest}, place : {None}, clean : BOOLEAN, kept : BOOLEAN]
    BY DEF NoneYet
  <2>2. next \in 0 .. LastToken + 1
    BY SessionAssumption DEF Init
  <2>3. disk \in [Place -> [File -> Seq(File \X Nat)]]
    BY DEF Init
  <2> QED BY <1>1, <2>1, <2>2, <2>3 DEF Init, Client
<1> QED BY <1>2, <1>3, <1>4 DEF NInv

(* A restart of the client                                                 *)
LEMMA RestartTypes ==
    ASSUME NInv, Restart
    PROVE  NInv' /\ Requests' = Requests
<1>1. /\ net' = net /\ got' = got /\ life' = life + 1 /\ life \in Nat
      /\ next' \in 0 .. LastToken + 1
  BY SessionAssumption DEF Restart, NInv, Client
<1>2. Network' /\ Requests' = Requests
  <2>1. got' \subseteq net
    BY <1>1 DEF NInv, Network
  <2> QED BY <1>1, <2>1, NetworkSame DEF NInv
<1>3. Server'
  BY <1>1, <1>2, ServerKept DEF NInv, Restart
<1>4. Client'
  <2>1. NoneYet \in [req : {NoRequest}, place : {None}, clean : BOOLEAN, kept : BOOLEAN]
    BY DEF NoneYet
  <2>2. cur' \in [req : Requests' \cup {NoRequest}, place : Folder \cup {None},
                  clean : BOOLEAN, kept : BOOLEAN]
    BY <2>1 DEF Restart
  <2>3. /\ tasks' = {} /\ disk' = disk /\ closing' = FALSE /\ cli' = "top"
        /\ content' = {} /\ savePath' = None
        /\ assembly' = [t \in Token |-> None]
    BY DEF Restart
  <2>4. /\ assembly' \in [Token -> {None} \cup [index : Nat, total : Int, held : SUBSET Piece]]
        /\ \A t \in Token : assembly'[t] = None
    BY <2>3
  <2>5. disk' \in [Place -> [File -> Seq(File \X Nat)]] /\ life' \in Nat
    BY <1>1, <2>3 DEF NInv, Client
  <2>6. /\ tasks' \subseteq net' /\ (\A m \in tasks : IsAnswer(m))'
        /\ (tasks \cap {m \in net : m.kind = "block"} \subseteq got)'
    BY <2>3
  <2> QED BY <1>1, <2>2, <2>3, <2>4, <2>5, <2>6 DEF Client
<1> QED BY <1>2, <1>3, <1>4 DEF NInv

(* A question of the command line, or its end when the tokens are used up  *)
LEMMA AskTypes ==
    ASSUME NInv, NEW kind \in Asks, NEW file \in File \cup {None},
           kind = "fetch" \/ file \in File, NEW place \in Folder \cup {None},
           NEW then \in {"listing", "loading", "done"}, Ask(kind, file, place, then),
           UNCHANGED <<life, tasks, assembler, server, got>>,
           content' \subseteq File, savePath' \in Folder \cup {None}
    PROVE  /\ NInv'
           /\ \/ /\ next \notin Token /\ cli' = "dead"
                 /\ UNCHANGED <<next, net, cur>> /\ Requests' = Requests
              \/ /\ next \in Token /\ next' = next + 1 /\ cli' = then
                 /\ cur'.req = [kind |-> kind, token |-> next, file |-> file, life |-> life]
                 /\ cur'.place = place
                 /\ cur'.kept = (place = None \/ cwd # "home")
                 /\ cur'.clean = (place = None \/ disk[place][file] = <<>>)
                 /\ Requests' = Requests \cup {cur'.req} /\ net \subseteq net'
<1>1. Network /\ life \in Nat /\ got' = got /\ life' = life /\ got \subseteq net
  BY DEF NInv, Client, Network
<1>2. CASE next \notin Token
  <2>1. cli' = "dead" /\ next' = next /\ net' = net /\ cur' = cur
    BY <1>2 DEF Ask
  <2>2. Network' /\ Requests' = Requests
    BY <1>1, <2>1, NetworkSame
  <2>3. Server'
    BY <2>1, <2>2, ServerKept DEF NInv
  <2>4. Client'
    BY <1>1, <2>1, <2>2, ClientKept, CurStays DEF NInv, Client, assembler
  <2> QED BY <1>2, <2>1, <2>2, <2>3, <2>4 DEF NInv
<1>3. CASE next \in Token
  <2> DEFINE q == [kind |-> kind, token |-> next, file |-> file, life |-> life]
  <2>1. /\ next' = next + 1 /\ net' = net \cup {q} /\ cli' = then
        /\ cur' = [req |-> q, place |-> place, kept |-> place = None \/ cwd # "home",
                   clean |-> place = None \/ disk[place][file] = <<>>]
    BY <1>3 DEF Ask
  <2>2. Network' /\ Requests' = Requests \cup {q}
    BY <1>1, <1>3, <2>1, NetworkAsks
  <2>3. Server'
    BY <2>1, <2>2, ServerKept DEF NInv
  <2>4. Client'
    <3>1. next' \in 0 .. LastToken + 1
      BY <1>3, <2>1, SessionAssumption DEF Token
    <3>2. cur' \in [req : Requests' \cup {NoRequest}, place : Folder \cup {None},
                    clean : BOOLEAN, kept : BOOLEAN]
      <4> HIDE DEF q
      <4> QED BY <2>1, <2>2
    <3> HIDE DEF q
    <3> QED BY <1>1, <2>1, <2>2, <3>1, <3>2, ClientKept DEF NInv, assembler
  <2>5. /\ cur'.req = q /\ cur'.place = place
        /\ cur'.kept = (place = None \/ cwd # "home")
        /\ cur'.clean = (place = None \/ disk[place][file] = <<>>)
    BY <2>1
  <2> QED BY <1>3, <2>1, <2>2, <2>3, <2>4, <2>5 DEF NInv
<1> QED BY <1>2, <1>3
(* A set of naturals that is not empty has a least element.                *)
LEMMA LeastNat ==
    ASSUME NEW T \in SUBSET Nat, T # {}
    PROVE  \E m \in T : \A k \in T : m <= k
<1> DEFINE R == {p \in Nat \X Nat : p[1] < p[2]}
<1>1. IsWellFoundedOn(R, Nat)
  BY NatLessThanWellFounded DEF OpToRel
<1>2. PICK m \in T : \A k \in T : <<k, m>> \notin R
  BY <1>1, WFMin, Zenon
<1>3. ASSUME NEW k \in T PROVE m <= k
  <2> k \in Nat /\ m \in Nat /\ ~ (k < m)
    BY <1>2
  <2> QED OBVIOUS
<1> QED BY <1>3

(* From a number in a bounded set a run of members goes up to a gap.       *)
LEMMA RunToGap ==
    ASSUME NEW S \in SUBSET Nat, NEW k \in Nat, \A i \in S : i <= k, NEW n \in S
    PROVE  \E e \in S : n .. e \subseteq S /\ e + 1 \notin S /\ e >= n
<1> DEFINE T == {i \in Nat : i > n /\ i \notin S}
<1>1. T # {} /\ T \in SUBSET Nat
  <2>1. k + 1 \in T
    OBVIOUS
  <2> QED BY <2>1
<1>2. PICK g \in T : \A i \in T : g <= i
  BY <1>1, LeastNat
<1>3. \A i \in n .. g - 1 : i \in S
  BY <1>2
<1>4. g - 1 \in S /\ n .. g - 1 \subseteq S /\ (g - 1) + 1 \notin S /\ g - 1 >= n
  BY <1>2, <1>3
<1> QED BY <1>4

(* What a block does to the assembly of its token, named part by part      *)
(* (drive_assembler.py:95-147)                                             *)
Holds(m) == {x \in Assembly(m.token).held : x.num # m.num} \cup {m}
RunEnd(m) == CHOOSE n \in Nums(Holds(m)) : /\ m.num .. n \subseteq Nums(Holds(m))
                                           /\ n + 1 \notin Nums(Holds(m)) /\ n >= m.num
Run(m) == [i \in 1 .. RunEnd(m) - m.num + 1 |->
              LET x == CHOOSE y \in Holds(m) : y.num = m.num + i - 1
              IN <<x.file, x.num>>]
Writes(m) == Assembly(m.token).index = m.num
Total(m) == IF m.last THEN m.num ELSE Assembly(m.token).total
Index(m) == IF Writes(m) THEN RunEnd(m) + 1 ELSE Assembly(m.token).index
Ends(m) == Complete(Index(m), Total(m))
Goal == IF savePath = None THEN Base ELSE savePath
Cleared(m) == IF assembly[m.token] = None THEN [disk EXCEPT ![Base][m.file] = <<>>] ELSE disk

LEMMA HandleBlockIs ==
    ASSUME NEW m, HandleBlock(m)
    PROVE  /\ ~ closing /\ m \in tasks /\ m.kind = "block"
           /\ tasks' = tasks \ {m}
           /\ disk' = IF Writes(m) THEN [Cleared(m) EXCEPT ![Goal][m.file] = @ \o Run(m)]
                                   ELSE Cleared(m)
           /\ assembly' = [assembly EXCEPT ![m.token] =
                 IF Ends(m) THEN None
                 ELSE [index |-> Index(m), total |-> Total(m),
                       held |-> {x \in Holds(m) : x.num >= Index(m)}]]
           /\ finished' = IF Ends(m) THEN finished \cup {m.token} ELSE finished
           /\ closing' = Ends(m)
           /\ UNCHANGED <<cli, cur, life, next, content, savePath, failed, server, network>>
BY DEF HandleBlock, Holds, RunEnd, Run, Writes, Total, Index, Ends, Goal, Cleared, Assembly

(* The parts have their types, and the run ends before a gap.              *)
LEMMA HandleBlockFacts ==
    ASSUME NInv, NEW m \in tasks, m.kind = "block"
    PROVE  /\ m \in Piece /\ m.token \in Token /\ m.num \in Nat /\ m.file \in File
           /\ Assembly(m.token) \in [index : Nat, total : Int, held : SUBSET Piece]
           /\ Holds(m) \in SUBSET Piece /\ Bounded(Holds(m)) /\ m \in Holds(m)
           /\ RunEnd(m) \in Nums(Holds(m)) /\ RunEnd(m) \in Nat /\ RunEnd(m) >= m.num
           /\ m.num .. RunEnd(m) \subseteq Nums(Holds(m))
           /\ RunEnd(m) + 1 \notin Nums(Holds(m))
           /\ Run(m) \in Seq(File \X Nat)
           /\ Index(m) \in Nat /\ Total(m) \in Int
<1>1. m \in Piece /\ m.token \in Token /\ m.num \in Nat /\ m.file \in File
  <2>1. PICK r \in Requests : IsBlockOf(r, m)
    BY RequestFacts DEF NInv, Client, IsAnswer, IsPathOf
  <2>2. m \in Datagram /\ m.file = r.file
    BY <2>1, RequestFacts, BlockFacts DEF NInv, IsBlockOf
  <2>3. r.file \in File
    BY <2>1, RequestFacts DEF NInv, IsRequest, IsBlockOf
  <2> QED BY <2>2, <2>3 DEF Piece, Datagram
<1>2. /\ Assembly(m.token) \in [index : Nat, total : Int, held : SUBSET Piece]
      /\ Bounded(Assembly(m.token).held)
  <2>1. CASE assembly[m.token] = None
    <3>1. NewAssembly \in [index : Nat, total : Int, held : SUBSET Piece]
      BY DEF NewAssembly
    <3>2. Bounded(NewAssembly.held)
      BY DEF NewAssembly, Bounded
    <3> QED BY <2>1, <3>1, <3>2 DEF Assembly
  <2>2. CASE assembly[m.token] # None
    BY <1>1, <2>2 DEF NInv, Client, Assembly
  <2> QED BY <2>1, <2>2
<1>3. Holds(m) \in SUBSET Piece /\ m \in Holds(m)
  BY <1>1, <1>2 DEF Holds
<1>4. PICK k \in Nat : \A x \in Holds(m) : x.num <= k
  <2>1. PICK j \in Nat : \A x \in Assembly(m.token).held : x.num <= j
    BY <1>2 DEF Bounded
  <2>2. \A x \in Holds(m) : x.num \in Nat
    BY <1>3 DEF Piece, Datagram
  <2>3. \A x \in Holds(m) : x.num <= j + m.num
    BY <1>1, <2>1, <2>2 DEF Holds
  <2> QED BY <1>1, <2>3
<1>5. /\ Nums(Holds(m)) \in SUBSET Nat /\ \A i \in Nums(Holds(m)) : i <= k
      /\ m.num \in Nums(Holds(m))
  BY <1>3, <1>4 DEF Nums, Piece, Datagram
<1>6. /\ RunEnd(m) \in Nums(Holds(m)) /\ RunEnd(m) >= m.num
      /\ m.num .. RunEnd(m) \subseteq Nums(Holds(m))
      /\ RunEnd(m) + 1 \notin Nums(Holds(m))
  <2>1. \E e \in Nums(Holds(m)) : /\ m.num .. e \subseteq Nums(Holds(m))
                                  /\ e + 1 \notin Nums(Holds(m)) /\ e >= m.num
    BY <1>5, RunToGap
  <2> QED BY <2>1 DEF RunEnd
<1>7. Run(m) \in Seq(File \X Nat)
  <2> DEFINE L == RunEnd(m) - m.num + 1
             X(i) == CHOOSE y \in Holds(m) : y.num = m.num + i - 1
  <2>1. L \in Nat
    BY <1>1, <1>5, <1>6
  <2>2. ASSUME NEW i \in 1 .. L
        PROVE  <<X(i).file, X(i).num>> \in File \X Nat
    <3>1. m.num + i - 1 \in Nums(Holds(m))
      BY <1>1, <1>5, <1>6, <2>2
    <3>2. \E y \in Holds(m) : y.num = m.num + i - 1
      BY <3>1 DEF Nums
    <3>3. X(i) \in Holds(m)
      BY <3>2
    <3> QED BY <1>3, <3>3 DEF Piece, Datagram
  <2>3. Run(m) = [i \in 1 .. L |-> <<X(i).file, X(i).num>>]
    BY DEF Run
  <2> HIDE DEF L, X
  <2> QED BY <2>1, <2>2, <2>3
<1>8. Index(m) \in Nat /\ Total(m) \in Int
  BY <1>1, <1>2, <1>5, <1>6 DEF Index, Total
<1>9. Bounded(Holds(m))
  BY <1>4 DEF Bounded
<1> QED BY <1>1, <1>2, <1>3, <1>5, <1>6, <1>7, <1>8, <1>9
(* The command line between its questions                                  *)
LEMMA MenuTypes ==
    ASSUME NInv, Return \/ ChooseDownload \/ Close
    PROVE  NInv' /\ Requests' = Requests
<1>1. /\ Network /\ Client /\ life \in Nat /\ got \subseteq net
      /\ UNCHANGED <<net, got, life, next, disk, assembly, tasks, content>> /\ UNCHANGED server
  BY DEF NInv, Client, Network, Return, ChooseDownload, Close, pool, assembler, network
<1>2. Network' /\ Requests' = Requests
  BY <1>1, NetworkSame
<1>3. Server'
  BY <1>1, <1>2, ServerKept DEF NInv
<1>4. cur' \in [req : Requests' \cup {NoRequest}, place : Folder \cup {None},
                clean : BOOLEAN, kept : BOOLEAN]
  <2>1. CASE Return \/ Close
    BY <1>1, <1>2, <2>1, CurStays DEF Return, Close
  <2>2. CASE ChooseDownload
    <3>1. cur' = [cur EXCEPT !.place = None, !.req = NoRequest]
      BY <2>2 DEF ChooseDownload
    <3> QED BY <1>1, <3>1 DEF Client
  <2> QED BY <2>1, <2>2
<1>5. /\ cli' \in {"top", "listing", "menu", "prompt", "loading", "done", "dead"}
      /\ savePath' \in Folder \cup {None} /\ closing' \in BOOLEAN
  BY <1>1 DEF Client, Return, ChooseDownload, Close, assembler, ResetSavePath
<1>6. Client'
  BY <1>1, <1>2, <1>4, <1>5 DEF Client, IsAnswer, IsBlockOf, IsPathOf, Positions, Block
<1> QED BY <1>2, <1>3, <1>6 DEF NInv

(* The steps of the server that send nothing, and the failures             *)
LEMMA AcceptTypes ==
    ASSUME NInv, (\E m \in net : Accept(m) \/ RequestFails(m)) \/ (\E m \in got : Ack(m))
                 \/ (\E t \in Token : GiveUp(t) \/ SenderFails(t))
    PROVE  NInv' /\ Requests' = Requests /\ UNCHANGED <<net, client, tasks, assembler>>
<1>1. /\ Network /\ Client /\ Server /\ life \in Nat /\ got \subseteq net
      /\ UNCHANGED <<net, client, tasks, assembler>>
  BY DEF NInv, Client, Network, Accept, RequestFails, Ack, GiveUp, SenderFails, pool, network
<1>2. /\ got \subseteq got' /\ got' \subseteq net /\ open' \subseteq net
      /\ share' = share /\ work' \subseteq Requests
      /\ \A t \in Token : sender'[t] \in {sender[t], None}
      /\ sender' \in [Token -> Seq(Datagram) \cup {None}]
  <2>1. CASE \E m \in net : Accept(m)
    BY <1>1, <2>1 DEF Accept, Count, Server, Requests
  <2>2. CASE \E m \in net : RequestFails(m)
    BY <1>1, <2>2 DEF RequestFails, server, Server
  <2>3. CASE \E m \in got : Ack(m)
    BY <1>1, <2>3 DEF Ack, Server
  <2>4. CASE \E t \in Token : GiveUp(t) \/ SenderFails(t)
    BY <1>1, <2>4 DEF GiveUp, SenderFails, Solved, network, Server
  <2> QED BY <2>1, <2>2, <2>3, <2>4
<1>3. Network' /\ Requests' = Requests
  BY <1>1, <1>2, NetworkSame DEF client
<1>4. Server'
  <2>1. \A m : IsAnswer(m) => IsAnswer(m)'
    BY <1>3, AnswersStay
  <2>2. ASSUME NEW t \in Token, sender'[t] # None
        PROVE  (/\ sender[t] # <<>> /\ sender[t][Len(sender[t])].last
                /\ \A i \in 1 .. Len(sender[t]) : IsAnswer(sender[t][i]))'
    <3>1. sender'[t] = sender[t] /\ sender[t] # None
      BY <1>2, <2>2
    <3>2. /\ sender[t] # <<>> /\ sender[t][Len(sender[t])].last
          /\ \A i \in 1 .. Len(sender[t]) : IsAnswer(sender[t][i])
      BY <1>1, <3>1 DEF Server
    <3>3. \A i \in 1 .. Len(sender[t]) : IsAnswer(sender'[t][i])
      BY <3>1, <3>2
    <3>4. (\A i \in 1 .. Len(sender[t]) : IsAnswer(sender[t][i]))'
      BY <2>1, <3>1, <3>3
    <3> QED BY <3>1, <3>2, <3>4
  <2>3. \A t \in Token : (sender[t] # None =>
          /\ sender[t] # <<>> /\ sender[t][Len(sender[t])].last
          /\ \A i \in 1 .. Len(sender[t]) : IsAnswer(sender[t][i]))'
    BY <2>2
  <2>4. share' \subseteq File /\ work' \subseteq Requests' /\ open' \subseteq net'
    BY <1>1, <1>2, <1>3 DEF Server
  <2> QED BY <1>2, <2>3, <2>4 DEF Server
<1>5. Client'
  <2>1. /\ UNCHANGED <<cli, life, next, content, savePath, cur, disk, assembly, closing, tasks>>
    BY <1>1 DEF client, assembler
  <2> QED BY <1>1, <1>2, <1>3, <2>1, ClientKept, CurStays DEF Client
<1> QED BY <1>1, <1>3, <1>4, <1>5 DEF NInv
(* The server solves a request: it refuses it, or prepares its answers     *)
(* (server_resource.py:42-106, 148-197).                                   *)
LEMMA SolveTypes ==
    ASSUME NInv, NEW m \in work, Solve(m)
    PROVE  /\ NInv' /\ Requests' = Requests /\ net \subseteq net'
           /\ UNCHANGED <<client, pool, assembler, got, crossed>>
<1>1. /\ Network /\ Client /\ Server /\ life \in Nat /\ got \subseteq net
      /\ m \in Requests /\ IsRequest(m) /\ m.token \in Token
      /\ UNCHANGED <<client, pool, assembler, got, crossed, open>>
  BY RequestFacts DEF NInv, Client, Server, Network, Solve
<1>2. Network' /\ Requests' = Requests /\ net \subseteq net'
  <2>1. CASE net' = net
    BY <1>1, <2>1, NetworkSame DEF client
  <2>2. CASE m.kind # "fetch" /\ net' = net \cup {Rst(m.token, m.life)}
    <3> DEFINE M == {Rst(m.token, m.life)}
    <3>1. \A x \in M : \E r \in Requests : IsRstOf(r, x)
      BY <1>1, <2>2 DEF IsRstOf, IsRequest, Asks
    <3> HIDE DEF M
    <3>2. net' = net \cup M
      BY <2>2 DEF M
    <3>3. got' \subseteq net' /\ life' = life /\ next' = next
      BY <1>1, <2>2 DEF client
    <3> QED BY <1>1, <3>1, <3>2, <3>3, NetworkKept
  <2> QED BY <2>1, <2>2 DEF Solve
<1>3. \/ sender' = sender
      \/ /\ sender' = [sender EXCEPT ![m.token] = Packets(m)]
         /\ m.kind \in {"fetch", "get"} /\ Packets(m) # <<>>
  BY DEF Solve
<1>4. share' \subseteq File /\ work' \subseteq Requests' /\ open' \subseteq net'
  BY <1>1, <1>2 DEF Solve, Server
<1>5. Server'
  <2>1. \A x : IsAnswer(x) => IsAnswer(x)'
    BY <1>2, AnswersStay
  <2>2. CASE sender' = sender
    <3>1. \A t \in Token : (sender[t] # None =>
            /\ sender[t] # <<>> /\ sender[t][Len(sender[t])].last
            /\ \A i \in 1 .. Len(sender[t]) : IsAnswer(sender[t][i]))'
      <4>1. ASSUME NEW t \in Token, sender'[t] # None
            PROVE  (/\ sender[t] # <<>> /\ sender[t][Len(sender[t])].last
                    /\ \A i \in 1 .. Len(sender[t]) : IsAnswer(sender[t][i]))'
        <5>1. \A i \in 1 .. Len(sender[t]) : IsAnswer(sender'[t][i])
          BY <1>1, <2>2, <4>1 DEF Server
        <5>2. (\A i \in 1 .. Len(sender[t]) : IsAnswer(sender[t][i]))'
          BY <2>1, <2>2, <5>1
        <5> QED BY <1>1, <2>2, <4>1, <5>2 DEF Server
      <4> QED BY <4>1
    <3>2. sender' \in [Token -> Seq(Datagram) \cup {None}]
      BY <1>1, <2>2 DEF Server
    <3> QED BY <1>4, <3>1, <3>2 DEF Server
  <2>3. CASE /\ sender' = [sender EXCEPT ![m.token] = Packets(m)]
             /\ m.kind \in {"fetch", "get"} /\ Packets(m) # <<>>
    <3>0. PICK s : s = Packets(m)
      OBVIOUS
    <3>1. /\ s \in Seq(Datagram) /\ s[Len(s)].last /\ s # <<>>
          /\ \A i \in 1 .. Len(s) : IsAnswer(s[i])
      BY <1>1, <2>3, <3>0, PacketsFacts
    <3>2. /\ \A t \in Token : sender'[t] = IF t = m.token THEN s ELSE sender[t]
          /\ sender' \in [Token -> Seq(Datagram) \cup {None}]
      BY <1>1, <2>3, <3>0, <3>1 DEF Server
    <3>3. ASSUME NEW t \in Token, sender'[t] # None
          PROVE  (/\ sender[t] # <<>> /\ sender[t][Len(sender[t])].last
                  /\ \A i \in 1 .. Len(sender[t]) : IsAnswer(sender[t][i]))'
      <4>1. PICK u : u = sender'[t]
        OBVIOUS
      <4>2. u # <<>> /\ u[Len(u)].last /\ \A i \in 1 .. Len(u) : IsAnswer(u[i])
        BY <1>1, <3>1, <3>2, <3>3, <4>1 DEF Server
      <4>3. \A i \in 1 .. Len(u) : IsAnswer(sender'[t][i])
        BY <4>1, <4>2
      <4>4. (\A i \in 1 .. Len(sender[t]) : IsAnswer(sender[t][i]))'
        BY <2>1, <4>1, <4>3
      <4> QED BY <4>1, <4>2, <4>4
    <3>4. \A t \in Token : (sender[t] # None =>
            /\ sender[t] # <<>> /\ sender[t][Len(sender[t])].last
            /\ \A i \in 1 .. Len(sender[t]) : IsAnswer(sender[t][i]))'
      BY <3>3
    <3> QED BY <1>4, <3>2, <3>4 DEF Server
  <2> QED BY <1>3, <2>2, <2>3
<1>6. Client'
  <2>1. UNCHANGED <<cli, life, next, content, savePath, cur, disk, assembly, closing, tasks>>
    BY <1>1 DEF client, assembler, pool
  <2> QED BY <1>1, <1>2, <2>1, ClientKept, CurStays DEF Client
<1> QED BY <1>1, <1>2, <1>5, <1>6 DEF NInv

(* The server sends the next packet (drive_spliter.py:66-89, 117-130).     *)
LEMMA SendNextTypes ==
    ASSUME NInv, NEW t \in Token, SendNext(t)
    PROVE  /\ NInv' /\ Requests' = Requests /\ net \subseteq net'
           /\ UNCHANGED <<client, pool, assembler, got, crossed>>
<1> DEFINE s == sender[t]
           m == Head(sender[t])
<1>1. /\ Network /\ Client /\ Server /\ life \in Nat /\ got \subseteq net
      /\ s # None /\ s # <<>> /\ s \in Seq(Datagram) /\ s[Len(s)].last
      /\ \A i \in 1 .. Len(s) : IsAnswer(s[i])
      /\ UNCHANGED <<client, pool, assembler, got, crossed, share>>
  BY DEF NInv, Client, Server, Network, SendNext
<1>2. /\ Len(s) \in Nat \ {0} /\ m = s[1] /\ IsAnswer(m)
  BY <1>1, EmptySeq
<1>3. net' = net \cup {m} /\ open' \subseteq open \cup {m} /\ work' \subseteq work
      /\ sender' = [sender EXCEPT ![t] = IF m.last THEN None ELSE Tail(s)]
  BY DEF SendNext, Solved
<1>4. Network' /\ Requests' = Requests
  <2> DEFINE M == {m}
  <2>1. (\A x \in M : IsAnswer(x)) /\ net' = net \cup M
    BY <1>2, <1>3
  <2> HIDE DEF M
  <2>2. got' \subseteq net' /\ life' = life /\ next' = next
    BY <1>1, <1>3 DEF client
  <2> QED BY <1>1, <2>1, <2>2, NetworkKept
<1>5. Server'
  <2>1. \A x : IsAnswer(x) => IsAnswer(x)'
    BY <1>4, AnswersStay
  <2>2. ~ m.last => /\ Tail(s) \in Seq(Datagram) /\ Tail(s) # <<>>
                    /\ Tail(s)[Len(Tail(s))].last
                    /\ \A i \in 1 .. Len(Tail(s)) : IsAnswer(Tail(s)[i])
    <3> SUFFICES ASSUME ~ m.last
                 PROVE  /\ Tail(s) \in Seq(Datagram) /\ Tail(s) # <<>>
                        /\ Tail(s)[Len(Tail(s))].last
                        /\ \A i \in 1 .. Len(Tail(s)) : IsAnswer(Tail(s)[i])
      OBVIOUS
    <3> HIDE DEF s
    <3>1. Len(s) # 1
      BY <1>1, <1>2
    <3>2. /\ Tail(s) \in Seq(Datagram) /\ Len(Tail(s)) = Len(s) - 1
          /\ \A i \in 1 .. Len(s) - 1 : Tail(s)[i] = s[i + 1]
      BY <1>1, <1>2
    <3>3. Tail(s)[Len(Tail(s))] = s[Len(s)]
      BY <1>2, <3>1, <3>2
    <3>4. Tail(s) # <<>>
      <4> DEFINE u == Tail(s)
      <4>1. Len(u) # 0
        BY <1>2, <3>1, <3>2
      <4>2. Len(<<>>) = 0
        BY EmptySeq
      <4> HIDE DEF u
      <4>3. u # <<>>
        BY <4>1, <4>2
      <4> QED BY <4>3 DEF u
    <3>5. \A i \in 1 .. Len(Tail(s)) : IsAnswer(Tail(s)[i])
      BY <1>1, <1>2, <3>2
    <3> QED BY <1>1, <3>2, <3>3, <3>4, <3>5
  <2>3. PICK w : w = IF m.last THEN None ELSE Tail(s)
    OBVIOUS
  <2>4. /\ \A q \in Token : sender'[q] = IF q = t THEN w ELSE sender[q]
        /\ sender' \in [Token -> Seq(Datagram) \cup {None}]
        /\ w # None => /\ w \in Seq(Datagram) /\ w # <<>> /\ w[Len(w)].last
                       /\ \A i \in 1 .. Len(w) : IsAnswer(w[i])
    BY <1>1, <1>3, <2>2, <2>3 DEF Server
  <2>5. ASSUME NEW q \in Token, sender'[q] # None
        PROVE  (/\ sender[q] # <<>> /\ sender[q][Len(sender[q])].last
                /\ \A i \in 1 .. Len(sender[q]) : IsAnswer(sender[q][i]))'
    <3>1. PICK u : u = sender'[q]
      OBVIOUS
    <3>2. u # <<>> /\ u[Len(u)].last /\ \A i \in 1 .. Len(u) : IsAnswer(u[i])
      BY <1>1, <2>4, <2>5, <3>1 DEF Server
    <3>3. \A i \in 1 .. Len(u) : IsAnswer(sender'[q][i])
      BY <3>1, <3>2
    <3>4. (\A i \in 1 .. Len(sender[q]) : IsAnswer(sender[q][i]))'
      BY <2>1, <3>1, <3>3
    <3> QED BY <3>1, <3>2, <3>4
  <2>6. \A q \in Token : (sender[q] # None =>
          /\ sender[q] # <<>> /\ sender[q][Len(sender[q])].last
          /\ \A i \in 1 .. Len(sender[q]) : IsAnswer(sender[q][i]))'
    BY <2>5
  <2>7. share' \subseteq File /\ work' \subseteq Requests' /\ open' \subseteq net'
    BY <1>1, <1>3, <1>4 DEF Server
  <2> QED BY <2>4, <2>6, <2>7 DEF Server
<1>6. Client'
  <2>1. UNCHANGED <<cli, life, next, content, savePath, cur, disk, assembly, closing, tasks>>
    BY <1>1 DEF client, assembler, pool
  <2>2. net \subseteq net'
    BY <1>3
  <2> QED BY <1>1, <1>4, <2>1, <2>2, ClientKept, CurStays DEF Client
<1> QED BY <1>1, <1>3, <1>4, <1>5, <1>6 DEF NInv
(* The client's filter accepts an answer (coap_worker_pool.py:141-170).    *)
LEMMA ReceiveTypes ==
    ASSUME NInv, NEW m \in net, Receive(m) \/ ReceiveRst(m)
    PROVE  NInv' /\ Requests' = Requests /\ UNCHANGED <<net, client, assembler, server>>
<1>1. /\ Network /\ Client /\ life \in Nat /\ got \subseteq net
      /\ UNCHANGED <<net, client, assembler, server>>
      /\ got \subseteq got' /\ got' \subseteq net
      /\ \/ tasks' = tasks
         \/ tasks' = tasks \cup {m} /\ m \in got' /\ m.kind \in {"path", "block"}
  BY DEF NInv, Client, Network, Receive, ReceiveRst, Count
<1>2. Network' /\ Requests' = Requests
  BY <1>1, NetworkSame DEF client
<1>3. Server'
  BY <1>1, <1>2, ServerKept DEF NInv
<1>4. Client'
  <2>1. UNCHANGED <<cli, life, next, content, savePath, cur, disk, assembly, closing>>
    BY <1>1 DEF client, assembler
  <2>2. \A x \in tasks' : IsAnswer(x)
    BY <1>1, RequestFacts DEF Client, IsAnswer
  <2>3. \A x : IsAnswer(x) => IsAnswer(x)'
    BY <1>2, AnswersStay
  <2>4. (\A x \in tasks : IsAnswer(x))'
    BY <2>2, <2>3
  <2>5. tasks' \subseteq net' /\ tasks' \cap {x \in net' : x.kind = "block"} \subseteq got'
    BY <1>1 DEF Client
  <2>6. cur' \in [req : Requests' \cup {NoRequest}, place : Folder \cup {None},
                  clean : BOOLEAN, kept : BOOLEAN]
    BY <1>1, <1>2, <2>1, CurStays
  <2> QED BY <1>1, <2>1, <2>4, <2>5, <2>6 DEF Client
<1> QED BY <1>1, <1>2, <1>3, <1>4 DEF NInv

(* A path enters the list (drive_assembler.py:63-78).                      *)
LEMMA HandlePathTypes ==
    ASSUME NInv, NEW m \in tasks, HandlePath(m)
    PROVE  NInv' /\ Requests' = Requests
<1>1. /\ Network /\ Client /\ life \in Nat /\ got \subseteq net
      /\ UNCHANGED <<net, got, life, next, disk, assembly, closing, cli, cur, savePath>>
      /\ UNCHANGED server /\ tasks' = tasks \ {m} /\ m \in Datagram
      /\ content' = content \cup ({m.file} \ {None})
  BY RequestFacts DEF NInv, Client, Network, HandlePath, assembler, network
<1>2. Network' /\ Requests' = Requests
  BY <1>1, NetworkSame
<1>3. Server'
  BY <1>1, <1>2, ServerKept DEF NInv
<1>4. content' \subseteq File
  BY <1>1 DEF Client, Datagram
<1>5. Client'
  BY <1>1, <1>2, <1>4, ClientKept, CurStays DEF Client
<1> QED BY <1>2, <1>3, <1>5 DEF NInv

(* A block enters its assembly (drive_assembler.py:89-154).                *)
LEMMA HandleBlockTypes ==
    ASSUME NInv, NEW m \in tasks, HandleBlock(m)
    PROVE  NInv' /\ Requests' = Requests
<1>1. /\ Network /\ Client /\ life \in Nat /\ got \subseteq net
      /\ UNCHANGED <<net, got, life, next, content, cli, cur, savePath>>
      /\ UNCHANGED server /\ tasks' = tasks \ {m} /\ m.kind = "block"
  BY HandleBlockIs DEF NInv, Client, Network, network
<1>2. Network' /\ Requests' = Requests
  BY <1>1, NetworkSame
<1>3. Server'
  BY <1>1, <1>2, ServerKept DEF NInv
<1>4. disk' \in [Place -> [File -> Seq(File \X Nat)]]
  <2>1. m.file \in File /\ Run(m) \in Seq(File \X Nat)
    BY <1>1, HandleBlockFacts
  <2>2. Goal \in Place /\ Base \in Place
    BY <1>1 DEF Goal, Client, Place
  <2>3. Cleared(m) \in [Place -> [File -> Seq(File \X Nat)]]
    <3>1. disk \in [Place -> [File -> Seq(File \X Nat)]]
      BY <1>1 DEF Client
    <3>2. <<>> \in Seq(File \X Nat)
      OBVIOUS
    <3> QED BY <2>1, <2>2, <3>1, <3>2 DEF Cleared
  <2>4. Cleared(m)[Goal][m.file] \o Run(m) \in Seq(File \X Nat)
    BY <2>1, <2>2, <2>3
  <2>5. disk' = Cleared(m)
        \/ disk' = [Cleared(m) EXCEPT ![Goal][m.file] = Cleared(m)[Goal][m.file] \o Run(m)]
    BY HandleBlockIs
  <2>6. PICK c : c = Cleared(m)
    OBVIOUS
  <2>7. PICK v : v = Cleared(m)[Goal][m.file] \o Run(m)
    OBVIOUS
  <2>8. PICK g : g = [c[Goal] EXCEPT ![m.file] = v]
    OBVIOUS
  <2>9. c \in [Place -> [File -> Seq(File \X Nat)]] /\ g \in [File -> Seq(File \X Nat)]
    BY <2>1, <2>2, <2>3, <2>4, <2>6, <2>7, <2>8
  <2>10. disk' = c \/ disk' = [c EXCEPT ![Goal] = g]
    BY <2>5, <2>6, <2>7, <2>8
  <2> HIDE DEF Goal
  <2> QED BY <2>2, <2>9, <2>10
<1>5. /\ assembly' \in [Token -> {None} \cup [index : Nat, total : Int, held : SUBSET Piece]]
      /\ \A t \in Token : assembly'[t] # None => Bounded(assembly'[t].held)
  <2> DEFINE a == [index |-> Index(m), total |-> Total(m),
                   held |-> {x \in Holds(m) : x.num >= Index(m)}]
             b == IF Ends(m) THEN None ELSE a
  <2>1. /\ m.token \in Token /\ Holds(m) \in SUBSET Piece /\ Bounded(Holds(m))
        /\ Index(m) \in Nat /\ Total(m) \in Int
    BY <1>1, HandleBlockFacts
  <2>2. a \in [index : Nat, total : Int, held : SUBSET Piece] /\ Bounded(a.held)
    BY <2>1 DEF Bounded
  <2>3. assembly' = [assembly EXCEPT ![m.token] = b]
    BY HandleBlockIs
  <2>4. b = None \/ b = a
    OBVIOUS
  <2> HIDE DEF a, b
  <2>5. \A t \in Token : assembly'[t] = IF t = m.token THEN b ELSE assembly[t]
    BY <1>1, <2>3 DEF Client
  <2>6. assembly' \in [Token -> {None} \cup [index : Nat, total : Int, held : SUBSET Piece]]
    BY <1>1, <2>1, <2>2, <2>3, <2>4 DEF Client
  <2>7. \A t \in Token : assembly'[t] # None => Bounded(assembly'[t].held)
    BY <1>1, <2>2, <2>4, <2>5 DEF Client
  <2> QED BY <2>6, <2>7
<1>6. closing' \in BOOLEAN
  BY HandleBlockIs DEF Ends, Complete
<1>7. Client'
  <2>1. \A x : IsAnswer(x) => IsAnswer(x)'
    BY <1>2, AnswersStay
  <2>2. (\A x \in tasks : IsAnswer(x))'
    BY <1>1, <2>1 DEF Client
  <2>3. tasks' \subseteq net' /\ tasks' \cap {x \in net' : x.kind = "block"} \subseteq got'
    BY <1>1 DEF Client
  <2>4. cur' \in [req : Requests' \cup {NoRequest}, place : Folder \cup {None},
                  clean : BOOLEAN, kept : BOOLEAN]
    BY <1>1, <1>2, CurStays
  <2>5. /\ cli' \in {"top", "listing", "menu", "prompt", "loading", "done", "dead"}
        /\ life' \in Nat /\ next' \in 0 .. LastToken + 1
        /\ content' \subseteq File /\ savePath' \in Folder \cup {None}
    BY <1>1 DEF Client
  <2> QED BY <1>4, <1>5, <1>6, <2>2, <2>3, <2>4, <2>5 DEF Client
<1> QED BY <1>2, <1>3, <1>7 DEF NInv

(* The questions of the command line                                       *)
LEMMA QuestionTypes ==
    ASSUME NInv, FetchServerData \/ Download \/ Delete
    PROVE  NInv'
<1>0. content \subseteq File /\ savePath \in Folder \cup {None}
  BY DEF NInv, Client
<1>1. CASE FetchServerData
  <2>1. Ask("fetch", None, None, "listing") /\ content' = {} /\ savePath' = savePath
        /\ UNCHANGED <<life, tasks, assembler, server, got>>
    BY <1>1 DEF FetchServerData
  <2> QED BY <1>0, <2>1, AskTypes DEF Asks
<1>2. CASE Download
  <2>1. PICK f \in content, p \in Folder \cup {None} :
           /\ savePath' = IF p # None /\ cwd = "home" THEN p ELSE savePath
           /\ Ask("get", f, p, "loading")
    BY <1>2 DEF Download
  <2>2. content' = content /\ UNCHANGED <<life, tasks, assembler, server, got>>
    BY <1>2 DEF Download
  <2>3. savePath' \in Folder \cup {None}
    BY <1>0, <2>1
  <2> QED BY <1>0, <2>1, <2>2, <2>3, AskTypes DEF Asks
<1>3. CASE Delete
  <2>1. content' = content /\ savePath' = savePath
        /\ UNCHANGED <<life, tasks, assembler, server, got>>
    BY <1>3 DEF Delete
  <2>2. CASE \E f \in content : Ask("delete", f, None, "done")
    BY <1>0, <2>1, <2>2, AskTypes DEF Asks
  <2>3. CASE cli' = "done" /\ UNCHANGED <<next, net, cur>>
    <3>1. /\ Network /\ Client /\ life \in Nat /\ got \subseteq net
      BY DEF NInv, Client, Network
    <3>2. Network' /\ Requests' = Requests
      BY <2>1, <2>3, <3>1, NetworkSame
    <3>3. Server'
      BY <2>1, <2>3, <3>2, ServerKept DEF NInv
    <3>4. Client'
      BY <1>0, <2>1, <2>3, <3>1, <3>2, ClientKept, CurStays DEF Client, assembler
    <3> QED BY <3>2, <3>3, <3>4 DEF NInv
  <2> QED BY <1>3, <2>2, <2>3 DEF Delete
<1> QED BY <1>1, <1>2, <1>3

(* Every step keeps the messages and the types.                            *)
LEMMA NextNInv == NInv /\ [Next]_vars => NInv'
<1> SUFFICES ASSUME NInv, [Next]_vars PROVE NInv'
  OBVIOUS
<1>1. CASE UNCHANGED vars
  <2>1. UNCHANGED <<net, got, life, next, disk, assembly, closing, cli, cur, savePath,
                    tasks, content>> /\ UNCHANGED server
    BY <1>1 DEF vars, client, pool, assembler, network
  <2>2. Network' /\ Requests' = Requests
    BY <2>1, NetworkSame DEF NInv, Network, Client
  <2>3. Server'
    BY <2>1, <2>2, ServerKept DEF NInv
  <2>4. Client'
    BY <2>1, <2>2, ClientKept, CurStays DEF NInv, Client
  <2> QED BY <2>2, <2>3, <2>4 DEF NInv
<1>2. CASE Next
  BY <1>2, RestartTypes, QuestionTypes, MenuTypes, AcceptTypes, SolveTypes, SendNextTypes,
     ReceiveTypes, HandlePathTypes, HandleBlockTypes
     DEF Next, CommandLine, Process, Workers
<1> QED BY <1>1, <1>2

(* The sets of the pools hold what was really sent, whatever is lost,      *)
(* copied or delayed (coap_worker_pool.py:141-170).                        *)
THEOREM TypeCorrect == Spec => []TypeOK
<1>1. NInv => TypeOK
  BY DEF NInv, Client, Server, Requests, TypeOK
<1> QED BY <1>1, InitNInv, NextNInv, PTL DEF Spec
-----------------------------------------------------------------------------
(* Downloads, while nothing crosses *)

(* Each block in the client's hands is one of a download of this life, and *)
(* of no other.                                                            *)
LEMMA DownloadFacts ==
    ASSUME NInv
    PROVE  /\ \A r \in Downloads :
                 /\ r \in Requests /\ IsRequest(r) /\ r.kind = "get" /\ r.life = life
                 /\ r.token \in Token /\ r.token < next /\ r.file \in File
                 /\ Blocks[r.file] \in Nat
           /\ \A r \in Downloads : \A n \in Positions(r) :
                 /\ Block(r, n).kind = "block" /\ Block(r, n).token = r.token
                 /\ Block(r, n).num = n /\ Block(r, n).file = r.file
                 /\ Block(r, n).life = life
                 /\ Block(r, n).last = (n = Blocks[r.file] - 1)
           /\ \A r, s \in Downloads : \A n \in Positions(r), k \in Positions(s) :
                 Block(r, n) = Block(s, k) => r = s /\ n = k
           /\ \A m \in net : m.kind = "block" /\ m.life = life =>
                 \E r \in Downloads : \E n \in Positions(r) : m = Block(r, n)
<1>1. ASSUME NEW r \in Downloads
      PROVE  /\ r \in Requests /\ IsRequest(r) /\ r.kind = "get" /\ r.life = life
             /\ r.token \in Token /\ r.token < next /\ r.file \in File
             /\ Blocks[r.file] \in Nat
  <2>1. r \in Requests /\ IsRequest(r) /\ r.kind = "get" /\ r.life = life
    BY RequestFacts DEF Downloads, NInv
  <2> QED BY <2>1, SessionAssumption DEF IsRequest
<1>2. ASSUME NEW r \in Downloads, NEW n \in Positions(r)
      PROVE  /\ Block(r, n).kind = "block" /\ Block(r, n).token = r.token
             /\ Block(r, n).num = n /\ Block(r, n).file = r.file
             /\ Block(r, n).life = life
             /\ Block(r, n).last = (n = Blocks[r.file] - 1)
  BY <1>1, BlockFacts
<1>3. ASSUME NEW r \in Downloads, NEW s \in Downloads,
             NEW n \in Positions(r), NEW k \in Positions(s), Block(r, n) = Block(s, k)
      PROVE  r = s /\ n = k
  BY <1>1, <1>2, <1>3 DEF NInv, Network
<1>4. ASSUME NEW m \in net, m.kind = "block", m.life = life
      PROVE  \E r \in Downloads : \E n \in Positions(r) : m = Block(r, n)
  <2>1. PICK r \in Requests : IsBlockOf(r, m)
    BY <1>4, RequestFacts DEF NInv
  <2>2. r \in Downloads
    BY <1>4, <2>1, RequestFacts DEF NInv, IsBlockOf, Downloads
  <2> QED BY <2>1, <2>2 DEF IsBlockOf
<1> QED BY <1>1, <1>2, <1>3, <1>4

(* A finished download stays over, one under way stays where it is.        *)
LEMMA OverStays ==
    ASSUME NEW r, Over(r), got \subseteq got', failed \subseteq failed',
           \A n \in Positions(r) : Block(r, n) \notin tasks'
    PROVE  Over(r)'
BY DEF Over, Positions, Block

LEMMA AssemblingStays ==
    ASSUME NEW r, Assembling(r), assembly'[r.token] = assembly[r.token],
           \A n \in Positions(r) :
               Block(r, n) \in got' \ tasks' <=> Block(r, n) \in got \ tasks
    PROVE  Assembling(r)'
<1>1. Handled(r)' = Handled(r)
  BY DEF Handled, Positions, Block
<1>2. Assembly(r.token)' = Assembly(r.token)
  BY DEF Assembly, NewAssembly
<1> QED BY <1>1, <1>2 DEF Assembling, Positions, Block, Nums

(* A step that changes nothing a download can see                          *)
LEMMA DownloadsStay ==
    ASSUME NInv, Early, Asked, Progress, Kept, Written,
           UNCHANGED <<cli, cur, life, next, savePath, assembly, disk>>, Requests' = Requests,
           got \subseteq got', failed \subseteq failed', finished \subseteq finished',
           \A m \in tasks' : m.life = life, finished' \subseteq {t \in Token : t < next},
           \A r \in Downloads : r.token \in finished' => r.token \in finished,
           \A r \in Downloads : \A n \in Positions(r) :
               /\ Block(r, n) \in tasks' => Block(r, n) \in tasks
               /\ Block(r, n) \in got' \ tasks' <=> Block(r, n) \in got \ tasks
    PROVE  Early' /\ Asked' /\ Progress' /\ Kept' /\ Written'
<1>1. Downloads' = Downloads
  BY DEF Downloads
<1>2. Early' /\ Asked'
  BY <1>1 DEF Early, Asked
<1>3. Progress'
  <2>1. ASSUME NEW r \in Downloads
        PROVE  (IF r.token \in finished THEN Over(r)
                ELSE cli = "loading" /\ cur.req = r /\ Assembling(r))'
    <3>1. CASE r.token \in finished'
      <4>1. Over(r) /\ \A n \in Positions(r) : Block(r, n) \notin tasks'
        BY <3>1 DEF Progress, Over
      <4> QED BY <3>1, <4>1, OverStays
    <3>2. CASE r.token \notin finished'
      <4>1. cli = "loading" /\ cur.req = r /\ Assembling(r)
        BY <3>2 DEF Progress
      <4> QED BY <3>2, <4>1, AssemblingStays
    <3> QED BY <3>1, <3>2
  <2> QED BY <1>1, <2>1 DEF Progress
<1>4. cli \in {"loading", "done"} /\ cur.req.kind = "get" => cur.req \in Downloads
  BY DEF Asked, Downloads
<1>5. Kept'
  BY DEF Kept
<1>6. Written'
  <2>1. Assembly(cur.req.token)' = Assembly(cur.req.token)
    BY DEF Assembly, NewAssembly
  <2> QED BY <1>4, <2>1 DEF Written, First, Whole
<1> QED BY <1>2, <1>3, <1>5, <1>6
(* At the start, no download                                               *)
LEMMA InitCourse == Init => Course
<1> SUFFICES ASSUME Init PROVE Course
  OBVIOUS
<1>1. Downloads = {}
  BY DEF Init, Downloads, Requests
<1> QED BY <1>1 DEF Init, Course, Early, Asked, Progress, Locked, Kept, Written

(* A new life begins with no download.                                     *)
LEMMA RestartCourse ==
    ASSUME NInv, Restart
    PROVE  Course'
<1>1. Requests' = Requests /\ life' = life + 1 /\ life \in Nat
  BY RestartTypes DEF NInv, Client, Restart
<1>2. Downloads' = {}
  BY <1>1, RequestFacts DEF Downloads, NInv, IsRequest
<1>3. /\ tasks' = {} /\ finished' = {} /\ closing' = FALSE /\ cli' = "top"
      /\ assembly' = [t \in Token |-> None]
  BY DEF Restart
<1> QED BY <1>2, <1>3 DEF Course, Early, Asked, Progress, Locked, Kept, Written

(* A question of the command line when all downloads of this life ended.   *)
LEMMA AskedNext ==
    ASSUME NInv, Course, \A r \in Downloads : r.token \in finished,
           next \in Token, next' = next + 1,
           UNCHANGED <<life, finished, failed, tasks, assembly, closing, got>>,
           Requests' = Requests \cup {cur'.req},
           cur'.req.token = next, cur'.req.life = life
    PROVE  /\ Early' /\ cur'.req.token \notin finished'
           /\ cur'.req.kind # "get" => Progress'
           /\ cur'.req \in Requests' /\ cur'.req.life = life'
<1>1. next \in Nat /\ \A t \in Token : t \in Nat
  BY SessionAssumption DEF Token
<1>2. Early' /\ cur'.req.token \notin finished'
  BY <1>1 DEF Course, Early
<1>3. ASSUME cur'.req.kind # "get" PROVE Progress'
  <2>1. Downloads' = Downloads
    BY <1>3 DEF Downloads
  <2>2. ASSUME NEW r \in Downloads PROVE Over(r)'
    <3>1. Over(r)
      BY DEF Course, Progress
    <3>2. \A n \in Positions(r) : Block(r, n) \notin tasks'
      BY <3>1 DEF Over
    <3> QED BY <3>1, <3>2, OverStays
  <2> QED BY <2>1, <2>2 DEF Progress
<1> QED BY <1>2, <1>3
(* Outside a wait all downloads of this life ended.                        *)
LEMMA AllOver ==
    ASSUME Course, cli # "loading" \/ cur.req.token \in finished
    PROVE  \A r \in Downloads : r.token \in finished /\ Over(r)
BY DEF Course, Progress

(* The command line ended for want of a token: nothing else changes.       *)
LEMMA DeadCourse ==
    ASSUME NInv, Course, cli' = "dead", Requests' = Requests,
           \A r \in Downloads : r.token \in finished,
           UNCHANGED <<life, next, finished, failed, tasks, assembly, got>>
    PROVE  Course'
<1>1. Downloads' = Downloads
  BY DEF Downloads
<1>2. ASSUME NEW r \in Downloads PROVE Over(r)'
  <2>1. Over(r)
    BY DEF Course, Progress
  <2>2. \A n \in Positions(r) : Block(r, n) \notin tasks'
    BY <2>1 DEF Over
  <2> QED BY <2>1, <2>2, OverStays
<1> QED BY <1>1, <1>2 DEF Course, Early, Asked, Progress, Locked, Kept, Written

(* The list is fetched (client.py:215-238).                                *)
LEMMA FetchCourse ==
    ASSUME NInv, Course, FetchServerData
    PROVE  Course'
<1>1. /\ cli \in {"top", "done"} /\ content' = {} /\ savePath' = savePath
      /\ Ask("fetch", None, None, "listing")
      /\ UNCHANGED <<life, finished, failed, tasks, assembly, closing, disk, got>>
      /\ UNCHANGED <<life, tasks, assembler, server, got>>
  BY DEF FetchServerData, assembler
<1>2. \A r \in Downloads : r.token \in finished
  BY <1>1, AllOver
<1>3. \/ /\ cli' = "dead" /\ UNCHANGED next /\ Requests' = Requests
      \/ /\ next \in Token /\ next' = next + 1 /\ cli' = "listing"
         /\ cur'.req = [kind |-> "fetch", token |-> next, file |-> None, life |-> life]
         /\ Requests' = Requests \cup {cur'.req}
  BY <1>1, AskTypes DEF Asks, NInv, Client
<1>4. CASE cli' = "dead" /\ UNCHANGED next /\ Requests' = Requests
  BY <1>1, <1>2, <1>4, DeadCourse
<1>5. CASE /\ next \in Token /\ next' = next + 1 /\ cli' = "listing"
           /\ cur'.req = [kind |-> "fetch", token |-> next, file |-> None, life |-> life]
           /\ Requests' = Requests \cup {cur'.req}
  <2>1. cur'.req.token = next /\ cur'.req.life = life /\ cur'.req.kind = "fetch"
    BY <1>5
  <2>2. /\ Early' /\ Progress' /\ cur'.req.token \notin finished'
        /\ cur'.req \in Requests' /\ cur'.req.life = life'
    BY <1>1, <1>2, <1>5, <2>1, AskedNext
  <2> QED BY <1>5, <2>1, <2>2 DEF Course, Asked, Locked, Kept, Written
<1> QED BY <1>3, <1>4, <1>5

(* A deletion is asked for, and not waited for (client.py:194-213).        *)
LEMMA DeleteCourse ==
    ASSUME NInv, Course, Delete
    PROVE  Course'
<1>1. /\ cli = "menu" /\ content' = content /\ savePath' = savePath
      /\ UNCHANGED <<life, finished, failed, tasks, assembly, closing, disk, got>>
      /\ UNCHANGED <<life, tasks, assembler, server, got>>
  BY DEF Delete, assembler
<1>2. \A r \in Downloads : r.token \in finished /\ Over(r)
  BY <1>1, AllOver
<1>3. CASE \E f \in content : Ask("delete", f, None, "done")
  <2>0. PICK f \in content : Ask("delete", f, None, "done")
    BY <1>3
  <2>1. \/ /\ cli' = "dead" /\ UNCHANGED next /\ Requests' = Requests
        \/ /\ next \in Token /\ next' = next + 1 /\ cli' = "done"
           /\ cur'.req = [kind |-> "delete", token |-> next, file |-> f, life |-> life]
           /\ Requests' = Requests \cup {cur'.req}
    BY <1>1, <2>0, AskTypes DEF Asks, NInv, Client
  <2>2. CASE cli' = "dead" /\ UNCHANGED next /\ Requests' = Requests
    BY <1>1, <1>2, <2>2, DeadCourse
  <2>3. CASE /\ next \in Token /\ next' = next + 1 /\ cli' = "done"
             /\ cur'.req = [kind |-> "delete", token |-> next, file |-> f, life |-> life]
             /\ Requests' = Requests \cup {cur'.req}
    <3>1. cur'.req.token = next /\ cur'.req.life = life /\ cur'.req.kind = "delete"
      BY <2>3
    <3>2. Early' /\ Progress'
      BY <1>1, <1>2, <2>3, <3>1, AskedNext
    <3> QED BY <2>3, <3>1, <3>2 DEF Course, Asked, Locked, Kept, Written
  <2> QED BY <2>1, <2>2, <2>3
<1>4. CASE cli' = "done" /\ UNCHANGED <<next, net, cur>>
  <2>1. Requests' = Requests /\ Downloads' = Downloads
    BY <1>1, <1>4 DEF Requests, Downloads
  <2>2. ASSUME NEW r \in Downloads PROVE Over(r)'
    <3>1. Over(r) /\ \A n \in Positions(r) : Block(r, n) \notin tasks'
      BY <1>1, <1>2 DEF Over
    <3> QED BY <1>1, <3>1, OverStays
  <2>3. Early' /\ Progress'
    BY <1>1, <1>2, <1>4, <2>1, <2>2 DEF Course, Early, Progress
  <2> QED BY <1>1, <1>4, <2>3 DEF Course, Asked, Locked, Kept, Written
<1> QED BY <1>1, <1>3, <1>4 DEF Delete
(* A download is asked for: nothing of its token came before, and the save *)
(* path is set for it (client.py:74-104).                                  *)
LEMMA DownloadCourse ==
    ASSUME NInv, Course, Download
    PROVE  Course'
<1>1. /\ cli = "prompt" /\ content' = content /\ cwd' = cwd
      /\ UNCHANGED <<life, finished, failed, tasks, assembly, closing, disk, got>>
      /\ UNCHANGED <<life, tasks, assembler, server, got>>
  BY DEF Download, assembler
<1>2. PICK f \in content, p \in Folder \cup {None} :
         /\ savePath' = IF p # None /\ cwd = "home" THEN p ELSE savePath
         /\ Ask("get", f, p, "loading")
  BY DEF Download
<1>3. /\ \A r \in Downloads : r.token \in finished /\ Over(r)
      /\ closing = FALSE
  BY <1>1, AllOver DEF Course, Locked, NInv, Client
<1>4. \/ /\ cli' = "dead" /\ UNCHANGED next /\ Requests' = Requests
      \/ /\ next \in Token /\ next' = next + 1 /\ cli' = "loading"
         /\ cur'.req = [kind |-> "get", token |-> next, file |-> f, life |-> life]
         /\ cur'.place = p /\ cur'.kept = (p = None \/ cwd # "home")
         /\ cur'.clean = (p = None \/ disk[p][f] = <<>>)
         /\ Requests' = Requests \cup {cur'.req}
  <2>1. f \in File /\ savePath \in Folder \cup {None}
    BY DEF NInv, Client
  <2>2. savePath' \in Folder \cup {None}
    BY <1>2, <2>1
  <2>3. content' \subseteq File
    BY <1>1 DEF NInv, Client
  <2> QED BY <1>1, <1>2, <2>1, <2>2, <2>3, AskTypes DEF Asks
<1>5. CASE cli' = "dead" /\ UNCHANGED next /\ Requests' = Requests
  BY <1>1, <1>3, <1>5, DeadCourse
<1>6. CASE /\ next \in Token /\ next' = next + 1 /\ cli' = "loading"
           /\ cur'.req = [kind |-> "get", token |-> next, file |-> f, life |-> life]
           /\ cur'.place = p /\ cur'.kept = (p = None \/ cwd # "home")
           /\ cur'.clean = (p = None \/ disk[p][f] = <<>>)
           /\ Requests' = Requests \cup {cur'.req}
  <2>0. PICK q : q = cur'.req
    OBVIOUS
  <2>1. /\ q.kind = "get" /\ q.token = next /\ q.file = f /\ q.life = life
        /\ f \in File /\ Blocks[f] \in Nat /\ next \in Nat /\ next \in Token
    BY <1>6, <2>0, SessionAssumption DEF NInv, Client
  <2>2. Early' /\ q \notin Requests /\ q.token \notin finished' /\ Requests' = Requests \cup {q}
    <3>1. Early' /\ q.token \notin finished'
      BY <1>1, <1>3, <1>6, <2>0, <2>1, AskedNext
    <3>2. \A r \in Requests : r.life = life => r.token < next
      BY RequestFacts DEF NInv, IsRequest
    <3>3. q \notin Requests
      BY <2>1, <3>2
    <3> QED BY <1>6, <2>0, <3>1, <3>3
  <2>3. Downloads' = Downloads \cup {q}
    BY <1>1, <2>1, <2>2 DEF Downloads
  <2>4. \A n \in Positions(q) : Block(q, n) \notin got
    <3> SUFFICES ASSUME NEW n \in Positions(q), Block(q, n) \in got
                 PROVE  FALSE
      OBVIOUS
    <3>1. /\ Block(q, n).kind = "block" /\ Block(q, n).token = next
          /\ Block(q, n).life = life
      BY <2>1 DEF Block, Packet
    <3>2. Block(q, n) \in net
      BY DEF NInv, Network
    <3>3. PICK r \in Downloads : \E k \in Positions(r) : Block(q, n) = Block(r, k)
      BY <3>1, <3>2, DownloadFacts
    <3>4. r.token = next /\ r.token < next
      BY <3>1, <3>3, DownloadFacts
    <3> QED BY <2>1, <3>4
  <2>5. Assembly(q.token)' = NewAssembly
    BY <1>1, <2>1 DEF Course, Early, Assembly, NewAssembly
  <2>6. Assembling(q)'
    <3>1. Handled(q)' = {}
      BY <1>1, <2>4 DEF Handled, Positions, Block
    <3>2. /\ Assembly(q.token)'.index = 0 /\ Assembly(q.token)'.total = -1
          /\ Assembly(q.token)'.held = {}
      BY <2>5 DEF NewAssembly
    <3>3. Nums({}) = {}
      BY DEF Nums
    <3>4. 0 .. 0 - 1 = {}
      OBVIOUS
    <3> QED BY <3>1, <3>2, <3>3, <3>4 DEF Assembling, Nums
  <2>7. ASSUME NEW r \in Downloads PROVE Over(r)' /\ r.token \in finished'
    <3>1. Over(r) /\ \A n \in Positions(r) : Block(r, n) \notin tasks'
      BY <1>1, <1>3 DEF Over
    <3> QED BY <1>1, <1>3, <3>1, OverStays
  <2>8. Progress'
    BY <1>6, <2>0, <2>2, <2>3, <2>6, <2>7 DEF Progress
  <2>9. Kept'
    BY <1>2, <1>6 DEF Kept
  <2>10. Written'
    <3>1. ASSUME cur'.clean, ~ cur'.kept
          PROVE  p \in Folder /\ disk'[p][f] = First(f, 0)
      <4>1. p # None /\ p \in Folder /\ disk'[p][f] = <<>>
        BY <1>1, <1>6, <3>1
      <4>2. First(f, 0) = <<>>
        <5>1. First(f, 0) \in Seq(File \X Nat) /\ Len(First(f, 0)) = 0
          BY <2>1 DEF First
        <5> QED BY <5>1, EmptySeq
      <4> QED BY <4>1, <4>2
    <3>2. Assembly(cur.req.token)'.index = 0
      BY <2>0, <2>5 DEF NewAssembly
    <3>3. cur'.req.file = f /\ cur'.place = p /\ cur'.req.token \notin finished'
      BY <1>6, <2>0, <2>1, <2>2
    <3> QED BY <3>1, <3>2, <3>3 DEF Written, First
  <2>11. Asked' /\ Locked'
    BY <1>1, <1>3, <1>6, <2>0, <2>1, <2>2 DEF Asked, Locked
  <2> QED BY <2>2, <2>8, <2>9, <2>10, <2>11 DEF Course
<1> QED BY <1>4, <1>5, <1>6
(* The command line between its questions, and the end of a download, when *)
(* the save path is reset                                                  *)
LEMMA MenuCourse ==
    ASSUME NInv, Course, Return \/ ChooseDownload \/ Close
    PROVE  Course'
<1>1. /\ UNCHANGED <<life, next, finished, failed, tasks, assembly, disk, got>>
      /\ Requests' = Requests /\ Downloads' = Downloads
  BY MenuTypes DEF Return, ChooseDownload, Close, pool, assembler, network, Downloads
<1>2. \A r \in Downloads : r.token \in finished /\ Over(r)
  <2>1. cli # "loading" \/ cur.req.token \in finished
    BY DEF Return, ChooseDownload, Close, Course, Locked
  <2> QED BY <2>1, AllOver
<1>3. ASSUME NEW r \in Downloads PROVE Over(r)'
  <2>1. Over(r) /\ \A n \in Positions(r) : Block(r, n) \notin tasks'
    BY <1>1, <1>2 DEF Over
  <2> QED BY <1>1, <2>1, OverStays
<1>4. Early' /\ Progress'
  BY <1>1, <1>2, <1>3 DEF Course, Early, Progress
<1>5. CASE Return
  <2>1. /\ cli \in {"listing", "loading"} /\ cur.req.token \in finished /\ cur' = cur
        /\ cli' = IF cli = "listing" THEN "menu" ELSE "done"
        /\ closing' = closing /\ savePath' = savePath
    BY <1>5 DEF Return, assembler
  <2>2. Asked' /\ Locked' /\ Kept'
    BY <1>1, <2>1 DEF Course, Asked, Locked, Kept, Downloads
  <2>3. Written'
    <3>1. cli' \in {"loading", "done"} /\ cur'.req.kind = "get" => cli = "loading"
      BY <2>1 DEF Course, Asked
    <3> QED BY <1>1, <2>1, <3>1 DEF Course, Written, First, Whole
  <2> QED BY <1>4, <2>2, <2>3 DEF Course
<1>6. CASE ChooseDownload
  <2>1. /\ cli = "menu" /\ cli' \in {"done", "prompt"} /\ closing' = closing
        /\ cur' = [cur EXCEPT !.place = None, !.req = NoRequest]
    BY <1>6 DEF ChooseDownload, assembler
  <2>2. cur'.req.kind = "none"
    BY <2>1 DEF NInv, Client, NoRequest
  <2>3. ~ closing
    BY <2>1 DEF Course, Locked
  <2> QED BY <1>4, <2>1, <2>2, <2>3 DEF Course, Asked, Locked, Kept, Written
<1>7. CASE Close
  <2>1. closing /\ closing' = FALSE /\ UNCHANGED <<cli, cur>>
    BY <1>7 DEF Close
  <2>2. Asked' /\ Locked' /\ Kept'
    BY <1>1, <2>1 DEF Course, Asked, Locked, Kept
  <2>3. Written'
    <3>1. Assembly(cur.req.token)' = Assembly(cur.req.token)
      BY <1>1, <2>1 DEF Assembly, NewAssembly
    <3> QED BY <1>1, <2>1, <3>1 DEF Course, Written, First, Whole
  <2> QED BY <1>4, <2>2, <2>3 DEF Course
<1> QED BY <1>5, <1>6, <1>7

(* The steps of the server, and the failures: nothing a download sees      *)
LEMMA ServerCourse ==
    ASSUME NInv, Course,
           \/ \E m \in net : Accept(m) \/ RequestFails(m)
           \/ \E m \in got : Ack(m)
           \/ \E m \in work : Solve(m)
           \/ \E t \in Token : SendNext(t) \/ GiveUp(t) \/ SenderFails(t)
    PROVE  Course'
<1>1. /\ UNCHANGED <<client, tasks, assembler, finished>> /\ Requests' = Requests
      /\ got \subseteq got' /\ failed \subseteq failed' /\ got' \subseteq got \cup Requests
  <2>1. CASE \E m \in net : Accept(m)
    BY <2>1, AcceptTypes DEF Accept, Count, Requests, pool
  <2>2. CASE \E m \in net : RequestFails(m)
    BY <2>2, AcceptTypes DEF RequestFails
  <2>3. CASE \E m \in got : Ack(m)
    BY <2>3, AcceptTypes DEF Ack, pool
  <2>4. CASE \E t \in Token : GiveUp(t) \/ SenderFails(t)
    BY <2>4, AcceptTypes DEF GiveUp, SenderFails, pool, network
  <2>5. CASE \E m \in work : Solve(m)
    BY <2>5, SolveTypes DEF pool
  <2>6. CASE \E t \in Token : SendNext(t)
    BY <2>6, SendNextTypes DEF pool
  <2> QED BY <2>1, <2>2, <2>3, <2>4, <2>5, <2>6
<1>2. UNCHANGED <<cli, cur, life, next, savePath, assembly, disk, closing, tasks, finished>>
  BY <1>1 DEF client, assembler
<1>3. ASSUME NEW r \in Downloads, NEW n \in Positions(r)
      PROVE  Block(r, n) \in got' \ tasks' <=> Block(r, n) \in got \ tasks
  <2>1. Block(r, n) \notin Requests
    <3>1. Block(r, n).kind = "block"
      BY DownloadFacts
    <3>2. \A q \in Requests : q.kind \in Asks
      BY DEF Requests
    <3> QED BY <3>1, <3>2 DEF Asks
  <2> QED BY <1>1, <1>2, <2>1
<1>4. Early' /\ Asked' /\ Progress' /\ Kept' /\ Written'
  BY <1>1, <1>2, <1>3, DownloadsStay DEF Course, Early
<1>5. Locked'
  BY <1>2 DEF Course, Locked
<1> QED BY <1>4, <1>5 DEF Course

(* A path is handled: it belongs to no download (drive_assembler.py:63).   *)
LEMMA PathCourse ==
    ASSUME NInv, Course, NEW m \in tasks, HandlePath(m)
    PROVE  Course'
<1>1. /\ UNCHANGED <<cli, cur, life, next, savePath, assembly, disk, closing, failed, got>>
      /\ tasks' = tasks \ {m} /\ m.kind = "path" /\ closing = FALSE
      /\ finished' = finished \/ finished' = finished \cup {m.token}
      /\ Requests' = Requests
  BY HandlePathTypes DEF HandlePath, Unlocked, assembler, network, NInv, Client
<1>2. PICK s \in Requests : IsPathOf(s, m)
  BY <1>1, RequestFacts DEF NInv, Client
<1>3. /\ s.kind = "fetch" /\ s.token = m.token /\ s.life = life
      /\ m.token < next /\ m.token \in Token
  BY <1>2, RequestFacts DEF NInv, Course, Early, IsPathOf, IsRequest
<1>4. \A r \in Downloads : r.token # m.token
  BY <1>2, <1>3, DownloadFacts DEF NInv, Network
<1>5. finished' \subseteq {t \in Token : t < next}
  BY <1>1, <1>3 DEF Course, Early
<1>6. \A r \in Downloads : \A n \in Positions(r) : Block(r, n) # m
  BY <1>1, DownloadFacts
<1>7. Early' /\ Asked' /\ Progress' /\ Kept' /\ Written'
  BY <1>1, <1>4, <1>5, <1>6, DownloadsStay DEF Course, Early
<1>8. Locked'
  BY <1>1 DEF Locked
<1> QED BY <1>7, <1>8 DEF Course
(* The client's filter accepts an answer of this life that was not handled *)
(* before: no block of a finished download (coap_worker_pool.py:141-170).  *)
LEMMA ReceiveCourse ==
    ASSUME NInv, Course, NEW m \in net, Receive(m), m.life = life,
           ~ (m.kind = "block" /\ m \in got \ tasks)
    PROVE  Course'
<1>1. /\ UNCHANGED <<cli, cur, life, next, savePath, assembly, disk, closing, failed, finished>>
      /\ Requests' = Requests /\ got' = got \cup {m} /\ m.token \notin failed
      /\ m.kind \in {"path", "block"}
  BY ReceiveTypes DEF Receive, Count, client, assembler
<1>2. \/ tasks' = tasks /\ \E x \in tasks : Key(x) = Key(m)
      \/ tasks' = tasks \cup {m} /\ ~ \E x \in tasks : Key(x) = Key(m)
  BY DEF Receive
<1>3. Locked' /\ \A x \in tasks' : x.life = life
  BY <1>1, <1>2 DEF Course, Locked, Early
<1>4. CASE m.kind = "path"
  <2>1. \A r \in Downloads : \A n \in Positions(r) : Block(r, n) # m
    BY <1>4, DownloadFacts
  <2>2. Early' /\ Asked' /\ Progress' /\ Kept' /\ Written'
    BY <1>1, <1>2, <1>3, <2>1, DownloadsStay DEF Course, Early
  <2> QED BY <1>3, <2>2 DEF Course
<1>5. CASE m.kind = "block"
  <2>0. PICK r \in Downloads : \E n \in Positions(r) : m = Block(r, n)
    BY <1>5, DownloadFacts
  <2>1. PICK n \in Positions(r) : m = Block(r, n)
    BY <2>0
  <2>2. r.token = m.token /\ r.life = life /\ r \in Requests /\ m.num = n
    BY <2>1, DownloadFacts
  <2>3. CASE tasks' = tasks /\ \E x \in tasks : Key(x) = Key(m)
    <3>1. PICK x \in tasks : Key(x) = Key(m)
      BY <2>3
    <3>2. x.token = m.token /\ x.num = m.num /\ x.life = life
      BY <3>1 DEF Key, Course, Early
    <3>3. PICK s \in Requests : IsBlockOf(s, x) \/ IsPathOf(s, x)
      BY DEF NInv, Client, IsAnswer
    <3>4. s.token = x.token /\ s.life = x.life
      BY <3>3, RequestFacts DEF NInv, IsPathOf
    <3>5. s = r
      BY <2>2, <3>2, <3>4 DEF NInv, Network
    <3>6. \E k \in Positions(r) : x = Block(r, k)
      BY <2>1, <3>3, <3>5, DownloadFacts DEF IsBlockOf, IsPathOf
    <3>7. x = m
      BY <2>1, <2>2, <3>2, <3>6, DownloadFacts
    <3>8. m \in got
      BY <1>5, <3>7 DEF NInv, Client
    <3>9. got' = got
      BY <1>1, <3>8
    <3>10. Early' /\ Asked' /\ Progress' /\ Kept' /\ Written'
      BY <1>1, <1>3, <2>3, <3>9, DownloadsStay DEF Course, Early
    <3> QED BY <1>3, <3>10 DEF Course
  <2>4. CASE tasks' = tasks \cup {m} /\ ~ \E x \in tasks : Key(x) = Key(m)
    <3>1. m \notin tasks /\ m \notin got
      BY <1>5, <2>4
    <3>2. r.token \notin finished
      BY <1>1, <2>1, <2>2, <3>1 DEF Course, Progress, Over
    <3>3. cli = "loading" /\ cur.req = r /\ Assembling(r)
      BY <3>2 DEF Course, Progress
    <3>4. Assembling(r)'
      <4>1. \A k \in Positions(r) :
               Block(r, k) \in got' \ tasks' <=> Block(r, k) \in got \ tasks
        BY <1>1, <2>4, <3>1
      <4> QED BY <1>1, <3>3, <4>1, AssemblingStays
    <3>5. ASSUME NEW s \in Downloads, s # r
          PROVE  s.token \in finished /\ Over(s)'
      <4>1. s.token \in finished /\ Over(s)
        BY <3>3, <3>5 DEF Course, Progress
      <4>2. \A k \in Positions(s) : Block(s, k) # m
        BY <2>1, <3>5, DownloadFacts
      <4>3. \A k \in Positions(s) : Block(s, k) \notin tasks'
        BY <2>4, <4>1, <4>2 DEF Over
      <4> QED BY <1>1, <4>1, <4>3, OverStays
    <3>6. Downloads' = Downloads
      BY <1>1 DEF Downloads
    <3>7. Progress'
      BY <1>1, <3>2, <3>3, <3>4, <3>5, <3>6 DEF Progress
    <3>8. Early' /\ Asked' /\ Kept'
      BY <1>1, <1>3, <3>6 DEF Course, Early, Asked, Kept
    <3>9. Written'
      <4>1. Assembly(cur.req.token)' = Assembly(cur.req.token)
        BY <1>1 DEF Assembly, NewAssembly
      <4> QED BY <1>1, <4>1 DEF Course, Written, First, Whole
    <3> QED BY <1>3, <3>7, <3>8, <3>9 DEF Course
  <2> QED BY <1>2, <2>3, <2>4
<1> QED BY <1>1, <1>4, <1>5

(* An RST ends a request of which no block came, and fails it              *)
(* (coap_worker_pool.py:178-180).                                          *)
LEMMA RstCourse ==
    ASSUME NInv, Course, NEW m \in net, ReceiveRst(m), m.life = life,
           ~ \E x \in got : x.kind = "block" /\ x.token = m.token /\ x.life = life
    PROVE  Course'
<1>1. /\ UNCHANGED <<cli, cur, life, next, savePath, assembly, disk, closing, tasks, got>>
      /\ Requests' = Requests /\ Downloads' = Downloads
      /\ finished' = finished \cup {m.token} /\ failed' = failed \cup {m.token}
      /\ m.kind = "rst"
  BY ReceiveTypes DEF ReceiveRst, client, assembler, Downloads
<1>2. PICK s \in Requests : IsRstOf(s, m)
  BY <1>1, RequestFacts DEF NInv
<1>3. /\ s.kind \in {"get", "delete"} /\ s.token = m.token /\ s.life = life
      /\ m.token < next /\ m.token \in Token
  BY <1>2, RequestFacts DEF NInv, IsRstOf, IsRequest
<1>4. \A r \in Requests : r.token = m.token /\ r.life = life => r = s
  BY <1>3 DEF NInv, Network
<1>5. Early' /\ Asked'
  BY <1>1, <1>3 DEF Course, Early, Asked
<1>6. Progress'
  <2>1. ASSUME NEW r \in Downloads, r.token = m.token
        PROVE  Over(r)'
    <3>1. \A n \in Positions(r) : Block(r, n) \notin got
      BY <2>1, DownloadFacts
    <3>2. \A n \in Positions(r) : Block(r, n) \notin tasks
      <4> SUFFICES ASSUME NEW n \in Positions(r), Block(r, n) \in tasks
                   PROVE  FALSE
        OBVIOUS
      <4>1. Block(r, n).kind = "block"
        BY DownloadFacts
      <4>2. Block(r, n) \in got
        BY <4>1 DEF NInv, Client
      <4> QED BY <3>1, <4>2
    <3> QED BY <1>1, <2>1, <3>2 DEF Over, Positions, Block
  <2>2. ASSUME NEW r \in Downloads, r.token # m.token
        PROVE  (IF r.token \in finished THEN Over(r)
                ELSE cli = "loading" /\ cur.req = r /\ Assembling(r))'
    <3>1. CASE r.token \in finished
      <4>1. Over(r) /\ \A n \in Positions(r) : Block(r, n) \notin tasks'
        BY <1>1, <3>1 DEF Course, Progress, Over
      <4> QED BY <1>1, <3>1, <4>1, OverStays
    <3>2. CASE r.token \notin finished
      <4>1. cli = "loading" /\ cur.req = r /\ Assembling(r)
        BY <3>2 DEF Course, Progress
      <4> QED BY <1>1, <2>2, <3>2, <4>1, AssemblingStays
    <3> QED BY <3>1, <3>2
  <2>3. \A r \in Downloads : r.token = m.token => r.token \in finished'
    BY <1>1
  <2> QED BY <1>1, <2>1, <2>2, <2>3 DEF Progress
<1>7. Locked'
  <2>1. cli = "listing" => cur.req.token # m.token
    BY <1>3, <1>4 DEF Course, Asked
  <2> QED BY <1>1, <2>1 DEF Course, Locked
<1>8. Kept'
  BY <1>1 DEF Course, Kept
<1>9. Written'
  <2>1. Assembly(cur.req.token)' = Assembly(cur.req.token)
    BY <1>1 DEF Assembly, NewAssembly
  <2> QED BY <1>1, <2>1 DEF Course, Written, First, Whole
<1> QED BY <1>5, <1>6, <1>7, <1>8, <1>9 DEF Course
(* A block that waits belongs to the download under way.                   *)
LEMMA BlockComes ==
    ASSUME NInv, Course, NEW m \in tasks, m.kind = "block"
    PROVE  \E r \in Downloads : /\ \E n \in Positions(r) : m = Block(r, n)
                                /\ r.token \notin finished /\ r.token = m.token
                                /\ cli = "loading" /\ cur.req = r /\ Assembling(r)
<1>1. m \in net /\ m.life = life
  BY DEF NInv, Client, Course, Early
<1>2. PICK r \in Downloads : \E n \in Positions(r) : m = Block(r, n)
  BY <1>1, DownloadFacts
<1>3. r.token \notin finished /\ r.token = m.token
  BY <1>2, DownloadFacts DEF Course, Progress, Over
<1> QED BY <1>2, <1>3 DEF Course, Progress

(* The numbers of a run: what is written and what is held of a file of b   *)
(* blocks, when the block n comes where the index i is.                    *)
LEMMA RunArithmetic ==
    ASSUME NEW b \in Nat, NEW S \in SUBSET (0 .. b - 1), NEW n \in 0 .. b - 1,
           \A k \in S : k > n, NEW e \in S \cup {n}, n .. e \subseteq S \cup {n},
           e + 1 \notin S \cup {n}
    PROVE  /\ (0 .. n - 1) \cup (S \cup {n}) = (0 .. e) \cup {k \in S \cup {n} : k >= e + 1}
           /\ \A k \in S \cup {n} : k >= e + 1 => k > e + 1
           /\ e \in n .. b - 1
<1>1. e \in n .. b - 1
  OBVIOUS
<1>2. \A k \in S \cup {n} : k >= e + 1 => k > e + 1
  OBVIOUS
<1>3. ASSUME NEW k \in (0 .. n - 1) \cup (S \cup {n})
      PROVE  k \in (0 .. e) \cup {j \in S \cup {n} : j >= e + 1}
  BY <1>1
<1>4. ASSUME NEW k \in 0 .. e
      PROVE  k \in (0 .. n - 1) \cup (S \cup {n})
  <2>1. CASE k < n
    BY <2>1
  <2>2. CASE k >= n
    <3>1. k \in n .. e
      BY <1>1, <2>2
    <3> QED BY <3>1
  <2> QED BY <1>1, <2>1, <2>2
<1> QED BY <1>1, <1>2, <1>3, <1>4

(* What the block does to the assembly of its download                     *)
LEMMA BlockHolds ==
    ASSUME NInv, NEW r \in Downloads, NEW n \in Positions(r), NEW m \in tasks,
           m = Block(r, n), Assembling(r)
    PROVE  /\ Nums(Holds(m)) = Nums(Assembly(r.token).held) \cup {n}
           /\ Nums(Holds(m)) \subseteq Positions(r)
           /\ Holds(m) = {Block(r, k) : k \in Nums(Holds(m))}
           /\ n \notin Handled(r) /\ n >= Assembly(r.token).index
           /\ Assembly(r.token).index \in Nat
<1> DEFINE a == Assembly(r.token)
<1>1. /\ m.num = n /\ m.token = r.token /\ m.kind = "block"
      /\ \A k \in Positions(r) : Block(r, k).num = k
      /\ Positions(r) \subseteq Nat
  BY DownloadFacts DEF Positions
<1>2. a \in [index : Nat, total : Int, held : SUBSET Piece]
  BY <1>1, HandleBlockFacts
<1>3. n \notin Handled(r)
  BY DEF Handled
<1>4. /\ a.held = {Block(r, k) : k \in Nums(a.held)} /\ Nums(a.held) \subseteq Positions(r)
      /\ Handled(r) = (0 .. a.index - 1) \cup Nums(a.held)
  BY DEF Assembling
<1>5. n \notin Nums(a.held) /\ n >= a.index
  BY <1>1, <1>2, <1>3, <1>4
<1>6. \A x \in a.held : x.num # n
  BY <1>5 DEF Nums
<1>7. Holds(m) = a.held \cup {m}
  BY <1>1, <1>6 DEF Holds
<1> HIDE DEF a
<1>8. Nums(Holds(m)) = Nums(a.held) \cup {n}
  BY <1>1, <1>7 DEF Nums
<1>9. Holds(m) = {Block(r, k) : k \in Nums(Holds(m))}
  BY <1>4, <1>7, <1>8
<1> QED BY <1>2, <1>3, <1>4, <1>5, <1>8, <1>9 DEF a
(* Handling the block n of the download under way (drive_assembler.py:     *)
(* 111-147): it is handled from then on, and ends the download exactly     *)
(* when all of its blocks are.                                             *)
LEMMA BlockHandled ==
    ASSUME NInv, NEW r \in Downloads, NEW n \in Positions(r), NEW m \in tasks,
           m = Block(r, n), Assembling(r), HandleBlock(m)
    PROVE  /\ Ends(m) => Writes(m) /\ Index(m) = Blocks[r.file]
                         /\ \A k \in Positions(r) : Block(r, k) \in got' \ tasks'
           /\ ~ Ends(m) => Assembling(r)' /\ Assembly(r.token)'.index = Index(m)
           /\ Writes(m) => n = Assembly(r.token).index /\ Index(m) \in Nat /\ Index(m) > n
                           /\ n .. Index(m) - 1 \subseteq Nums(Holds(m))
           /\ ~ Writes(m) => Index(m) = Assembly(r.token).index
<1> DEFINE i == Assembly(r.token).index
           b == Blocks[r.file]
           S == Nums(Assembly(r.token).held)
           H == Nums(Holds(m))
           e == RunEnd(m)
<1>1. /\ m.num = n /\ m.token = r.token /\ m.kind = "block" /\ m.last = (n = b - 1)
      /\ b \in Nat /\ r.token \in Token /\ n \in 0 .. b - 1 /\ b - 1 \in 0 .. b - 1
      /\ \A k \in Positions(r) : Block(r, k).num = k
      /\ Positions(r) = 0 .. b - 1
  <2>1. /\ m.num = n /\ m.token = r.token /\ m.kind = "block" /\ m.last = (n = b - 1)
        /\ r.token \in Token /\ \A k \in Positions(r) : Block(r, k).num = k
    BY DownloadFacts
  <2>2. b \in Nat /\ Positions(r) = 0 .. b - 1 /\ n \in Positions(r)
    BY DownloadFacts DEF Positions
  <2> HIDE DEF b
  <2>3. b - 1 \in 0 .. b - 1
    BY <2>2
  <2> QED BY <2>1, <2>2, <2>3
<1>2. /\ H = S \cup {n} /\ H \subseteq 0 .. b - 1 /\ S \subseteq 0 .. b - 1
      /\ Holds(m) = {Block(r, k) : k \in H}
      /\ n \notin Handled(r) /\ n >= i /\ i \in Nat
  BY <1>1, BlockHolds
<1>3. /\ \A k \in S : k > i
      /\ Handled(r) = (0 .. i - 1) \cup S
      /\ i = 0 \/ i < b
      /\ Assembly(r.token).total = IF b - 1 \in Handled(r) THEN b - 1 ELSE -1
  BY DEF Assembling
<1>4. /\ e \in H /\ e \in Nat /\ e >= n /\ n .. e \subseteq H /\ e + 1 \notin H
  BY <1>1, HandleBlockFacts
<1>5. /\ Writes(m) <=> i = n
      /\ i = n => Index(m) = e + 1
      /\ i # n => Index(m) = i
      /\ Total(m) = IF n = b - 1 THEN b - 1 ELSE Assembly(r.token).total
      /\ Ends(m) <=> Total(m) # -1 /\ Index(m) - 1 = Total(m)
  BY <1>1 DEF Writes, Index, Total, Ends, Complete
<1>6. Handled(r)' = (0 .. i - 1) \cup H
  <2>1. tasks' = tasks \ {m} /\ got' = got
    BY HandleBlockIs DEF network
  <2>2. \A k \in Positions(r) : Block(r, k) = m <=> k = n
    BY <1>1
  <2>3. m \in got
    BY <1>1 DEF NInv, Client
  <2>4. Handled(r)' = Handled(r) \cup {n}
    BY <2>1, <2>2, <2>3 DEF Handled, Positions, Block
  <2> QED BY <1>2, <1>3, <2>4
<1>7. Total(m) = IF b - 1 \in Handled(r)' THEN b - 1 ELSE -1
  <2>1. b - 1 \in Handled(r)' <=> b - 1 \in Handled(r) \/ n = b - 1
    BY <1>2, <1>3, <1>6
  <2> QED BY <1>3, <1>5, <2>1
<1>8. ~ Ends(m) => /\ Assembly(r.token)'.index = Index(m)
                   /\ Assembly(r.token)'.total = Total(m)
                   /\ Assembly(r.token)'.held = {x \in Holds(m) : x.num >= Index(m)}
  <2>1. ASSUME ~ Ends(m)
        PROVE  assembly'[r.token] = [index |-> Index(m), total |-> Total(m),
                       held |-> {x \in Holds(m) : x.num >= Index(m)}]
    BY <1>1, <2>1, HandleBlockIs DEF NInv, Client
  <2>2. ASSUME ~ Ends(m) PROVE assembly'[r.token] # None
    <3>1. [index |-> Index(m), total |-> Total(m),
                       held |-> {x \in Holds(m) : x.num >= Index(m)}]
             \in [index : Nat, total : Int, held : SUBSET Datagram]
      BY <1>1, HandleBlockFacts DEF Piece
    <3> QED BY <2>1, <2>2, <3>1, SessionAssumption
  <2> QED BY <2>1, <2>2 DEF Assembly
<1> HIDE DEF i, b, S, H, e
<1>9. CASE i = n
  <2>1. /\ Handled(r)' = (0 .. e) \cup {k \in H : k >= e + 1}
        /\ \A k \in H : k >= e + 1 => k > e + 1
        /\ e \in n .. b - 1
    <3>1. S \in SUBSET (0 .. b - 1) /\ \A k \in S : k > n
      BY <1>2, <1>3, <1>9
    <3> QED BY <1>1, <1>2, <1>4, <1>6, <1>9, <3>1, RunArithmetic
  <2>2. Ends(m) <=> e = b - 1
    <3>1. b - 1 \in Handled(r)' <=> b - 1 = e \/ b - 1 \in H
      BY <1>1, <1>4, <2>1
    <3>2. Total(m) # -1 <=> Total(m) = b - 1
      BY <1>1, <1>7
    <3>3. e = b - 1 => Ends(m)
      BY <1>1, <1>4, <1>5, <1>7, <1>9, <3>1, <3>2
    <3>4. Ends(m) => e = b - 1
      BY <1>1, <1>4, <1>5, <1>9, <3>2
    <3> QED BY <3>3, <3>4
  <2>3. CASE Ends(m)
    <3>1. \A k \in 0 .. b - 1 : k \in Handled(r)'
      BY <1>1, <2>1, <2>2, <2>3
    <3>2. \A k \in Positions(r) : Block(r, k) \in got' \ tasks'
      BY <1>1, <3>1 DEF Handled, Positions, Block
    <3>3. /\ Writes(m) /\ Index(m) = b /\ b > n /\ n .. b - 1 \subseteq H
      BY <1>1, <1>4, <1>5, <1>9, <2>2, <2>3
    <3> QED BY <1>1, <1>9, <2>3, <3>2, <3>3 DEF b, H, i
  <2>4. CASE ~ Ends(m)
    <3> DEFINE h == {x \in Holds(m) : x.num >= e + 1}
    <3>1. h = {Block(r, k) : k \in {j \in H : j >= e + 1}}
      <4>1. ASSUME NEW x \in Holds(m), x.num >= e + 1
            PROVE  x \in {Block(r, k) : k \in {j \in H : j >= e + 1}}
        BY <1>1, <1>2, <4>1
      <4>2. ASSUME NEW k \in H, k >= e + 1
            PROVE  Block(r, k) \in Holds(m) /\ Block(r, k).num = k
        BY <1>1, <1>2, <4>2
      <4> QED BY <4>1, <4>2
    <3>2. Nums(h) = {j \in H : j >= e + 1}
      <4>1. \A k \in H : Block(r, k).num = k
        BY <1>1, <1>2
      <4>2. \A k \in {j \in H : j >= e + 1} : Block(r, k).num = k
        BY <4>1
      <4> HIDE DEF h
      <4> QED BY <3>1, <4>2 DEF Nums
    <3>3. /\ h = {Block(r, k) : k \in Nums(h)} /\ Nums(h) \subseteq Positions(r)
          /\ \A k \in Nums(h) : k > e + 1
          /\ Handled(r)' = (0 .. (e + 1) - 1) \cup Nums(h)
      <4> HIDE DEF h
      <4>1. h = {Block(r, k) : k \in Nums(h)}
        BY <3>1, <3>2
      <4>2. Nums(h) \subseteq Positions(r) /\ \A k \in Nums(h) : k > e + 1
        BY <1>1, <1>2, <2>1, <3>2
      <4>3. (e + 1) - 1 = e
        BY <1>4
      <4> QED BY <2>1, <3>2, <4>1, <4>2, <4>3
    <3>4. e + 1 < b
      BY <1>1, <1>4, <2>1, <2>2, <2>4
    <3>5. /\ Assembly(r.token)'.index = e + 1 /\ Assembly(r.token)'.total = Total(m)
          /\ Assembly(r.token)'.held = h
      BY <1>5, <1>8, <1>9, <2>4
    <3> HIDE DEF h
    <3>6. Assembling(r)'
      BY <1>7, <3>3, <3>4, <3>5 DEF Assembling, Positions, Nums, Block, b
    <3>7. /\ Writes(m) /\ Index(m) = e + 1 /\ e + 1 \in Nat /\ e + 1 > n
          /\ n .. (e + 1) - 1 \subseteq H
      BY <1>1, <1>4, <1>5, <1>9
    <3> QED BY <1>9, <2>4, <3>5, <3>6, <3>7 DEF H, i
  <2> QED BY <2>3, <2>4
<1>10. CASE i # n
  <2>1. ~ Ends(m)
    BY <1>1, <1>2, <1>3, <1>5, <1>7, <1>10
  <2>2. \A x \in Holds(m) : x.num >= i
    BY <1>1, <1>2, <1>3
  <2>3. /\ Assembly(r.token)'.index = i /\ Assembly(r.token)'.total = Total(m)
        /\ Assembly(r.token)'.held = Holds(m)
    BY <1>5, <1>8, <1>10, <2>1, <2>2
  <2>4. Assembling(r)'
    <3>1. /\ H \subseteq Positions(r) /\ \A k \in H : k > i
      BY <1>1, <1>2, <1>3, <1>10
    <3>2. Holds(m) = {Block(r, k) : k \in Nums(Holds(m))} /\ H = Nums(Holds(m))
      BY <1>2 DEF H
    <3> QED BY <1>3, <1>6, <1>7, <2>3, <3>1, <3>2 DEF Assembling, Positions, Nums, Block, b
  <2> QED BY <1>5, <1>10, <2>1, <2>3, <2>4 DEF i
<1> QED BY <1>9, <1>10
(* The run that a block closes continues the file (drive_assembler.py:     *)
(* 120-133).                                                               *)
LEMMA RunContinues ==
    ASSUME NInv, NEW r \in Downloads, NEW n \in Positions(r), NEW m \in tasks,
           m = Block(r, n), Assembling(r), Writes(m)
    PROVE  First(r.file, n) \o Run(m) = First(r.file, Index(m))
<1> DEFINE f == r.file
           e == RunEnd(m)
           X(i) == CHOOSE y \in Holds(m) : y.num = n + i - 1
<1>1. /\ m.num = n /\ m.kind = "block" /\ n \in Nat /\ f \in File
      /\ \A k \in Positions(r) : Block(r, k).num = k /\ Block(r, k).file = f
      /\ \A k \in Positions(r) : k \in Nat
  BY DownloadFacts DEF Positions
<1>2. /\ Nums(Holds(m)) \subseteq Positions(r)
      /\ Holds(m) = {Block(r, k) : k \in Nums(Holds(m))}
  BY BlockHolds
<1>3. e \in Nat /\ e >= n /\ n .. e \subseteq Nums(Holds(m)) /\ Index(m) = e + 1
  BY <1>1, HandleBlockFacts DEF Index
<1> HIDE DEF e, f
<1>4. ASSUME NEW i \in 1 .. e - n + 1
      PROVE  X(i).file = f /\ X(i).num = n + i - 1
  <2>1. n + i - 1 \in Nums(Holds(m))
    BY <1>1, <1>3
  <2>2. \E y \in Holds(m) : y.num = n + i - 1
    BY <2>1 DEF Nums
  <2>3. X(i) \in Holds(m) /\ X(i).num = n + i - 1
    BY <2>2
  <2> HIDE DEF X
  <2>4. PICK k \in Nums(Holds(m)) : X(i) = Block(r, k)
    BY <1>2, <2>3
  <2> QED BY <1>1, <1>2, <2>3, <2>4
<1>5. Run(m) = [i \in 1 .. e - n + 1 |-> <<f, n + i - 1>>]
  <2>1. Run(m) = [i \in 1 .. e - n + 1 |-> <<X(i).file, X(i).num>>]
    BY <1>1 DEF Run, e
  <2> HIDE DEF X
  <2> QED BY <1>4, <2>1
<1> DEFINE u == First(f, n)
           v == Run(m)
           w == First(f, e + 1)
           V == File \X Nat
<1>6. u \in Seq(V) /\ Len(u) = n /\ \A i \in 1 .. n : u[i] = <<f, i - 1>>
  BY <1>1 DEF First, f
<1>7. /\ v \in Seq(V) /\ Len(v) = e - n + 1
      /\ \A i \in 1 .. e - n + 1 : v[i] = <<f, n + i - 1>>
  BY <1>1, <1>3, <1>5 DEF f
<1>8. w \in Seq(V) /\ Len(w) = e + 1 /\ \A i \in 1 .. e + 1 : w[i] = <<f, i - 1>>
  BY <1>1, <1>3 DEF First, f
<1> HIDE DEF u, v, w, V
<1>9. u \o v \in Seq(V) /\ Len(u \o v) = e + 1
  BY <1>1, <1>3, <1>6, <1>7
<1>10. ASSUME NEW i \in 1 .. e + 1 PROVE (u \o v)[i] = w[i]
  <2>0. i \in Nat /\ n \in Nat
    BY <1>1, <1>3
  <2>1. CASE i <= n
    <3>1. (u \o v)[i] = u[i]
      BY <1>1, <1>3, <1>6, <1>7, <2>1, ConcatProperties
    <3>2. i \in 1 .. n
      BY <1>1, <1>3, <2>1
    <3>3. u[i] = <<f, i - 1>> /\ w[i] = <<f, i - 1>>
      BY <1>6, <1>8, <3>2
    <3> QED BY <3>1, <3>3
  <2>2. CASE i > n
    <3>1. (u \o v)[i] = v[i - n]
      BY <1>1, <1>3, <1>6, <1>7, <2>2, ConcatProperties
    <3>2. i - n \in 1 .. e - n + 1 /\ n + (i - n) - 1 = i - 1
      BY <1>1, <1>3, <2>2
    <3>3. v[i - n] = <<f, n + (i - n) - 1>>
      BY <1>7, <3>2
    <3> QED BY <1>8, <3>1, <3>2, <3>3
  <2>3. i <= n \/ i > n
    BY <2>0
  <2> QED BY <2>1, <2>2, <2>3, Zenon
<1>11. u \o v = w
  BY <1>3, <1>8, <1>9, <1>10, SeqEqual
<1> QED BY <1>3, <1>11 DEF u, v, w, f
(* A block is handled: the download goes on, or ends with all of its       *)
(* blocks handled and written.                                             *)
LEMMA BlockCourse ==
    ASSUME NInv, Course, NEW m \in tasks, HandleBlock(m)
    PROVE  Course'
<1>1. /\ tasks' = tasks \ {m} /\ m.kind = "block" /\ got' = got
      /\ UNCHANGED <<cli, cur, life, next, savePath, failed>>
      /\ assembly' = [assembly EXCEPT ![m.token] =
            IF Ends(m) THEN None
            ELSE [index |-> Index(m), total |-> Total(m),
                  held |-> {x \in Holds(m) : x.num >= Index(m)}]]
      /\ finished' = IF Ends(m) THEN finished \cup {m.token} ELSE finished
      /\ closing' = Ends(m)
  BY HandleBlockIs DEF network
<1>2. PICK r \in Downloads : /\ \E n \in Positions(r) : m = Block(r, n)
                             /\ r.token \notin finished /\ r.token = m.token
                             /\ cli = "loading" /\ cur.req = r /\ Assembling(r)
  BY <1>1, BlockComes
<1>3. PICK n \in Positions(r) : m = Block(r, n)
  BY <1>2
<1>4. /\ r.token \in Token /\ r.token < next /\ r.kind = "get" /\ r.file \in File
      /\ m.file = r.file /\ Blocks[r.file] \in Nat
  BY <1>3, DownloadFacts
<1>5. Requests' = Requests /\ Downloads' = Downloads
  BY <1>1, HandleBlockTypes DEF Downloads
<1>6. Early'
  <2>1. \A t \in Token : t # r.token => assembly'[t] = assembly[t]
    BY <1>1, <1>2 DEF NInv, Client
  <2>2. \A t \in Token : t >= next => t # r.token /\ assembly[t] = None
    <3>1. next \in Nat /\ r.token \in Nat
      BY <1>4, SessionAssumption DEF NInv, Client, Token
    <3> QED BY <1>4, <3>1 DEF Course, Early
  <2>3. finished' \subseteq {t \in Token : t < next}
    BY <1>1, <1>2, <1>4 DEF Course, Early
  <2> QED BY <1>1, <2>1, <2>2, <2>3 DEF Course, Early
<1>7. Asked' /\ Locked'
  BY <1>1, <1>2, <1>5 DEF Course, Asked, Locked
<1>8. Progress'
  <2>1. ASSUME NEW s \in Downloads, s # r
        PROVE  s.token \in finished' /\ Over(s)'
    <3>1. s.token \in finished /\ Over(s)
      BY <1>2, <2>1 DEF Course, Progress
    <3>2. \A k \in Positions(s) : Block(s, k) \notin tasks'
      BY <1>1, <3>1 DEF Over
    <3> QED BY <1>1, <3>1, <3>2, OverStays
  <2>2. CASE Ends(m)
    <3>1. \A k \in Positions(r) : Block(r, k) \in got' \ tasks'
      BY <1>2, <1>3, <2>2, BlockHandled
    <3>2. Over(r)'
      BY <3>1 DEF Over, Positions, Block
    <3>3. r.token \in finished'
      BY <1>1, <1>2, <2>2
    <3> QED BY <1>5, <2>1, <3>2, <3>3 DEF Progress
  <2>3. CASE ~ Ends(m)
    <3>1. Assembling(r)'
      BY <1>2, <1>3, <2>3, BlockHandled
    <3>2. cli' = "loading" /\ cur'.req = r /\ r.token \notin finished'
      BY <1>1, <1>2, <2>3
    <3> QED BY <1>5, <2>1, <3>1, <3>2 DEF Progress
  <2> QED BY <2>2, <2>3
<1>9. Kept'
  BY <1>1 DEF Course, Kept
<1>10. Written'
  <2> SUFFICES ASSUME cur.clean, ~ cur.kept
               PROVE  /\ cur.place \in Folder
                      /\ r.token \notin finished' =>
                            disk'[cur.place][r.file]
                                = First(r.file, Assembly(r.token)'.index)
                      /\ r.token \in finished' =>
                            disk'[cur.place][r.file] = Whole(r.file)
    BY <1>1, <1>2 DEF Written, First, Whole
  <2>1. savePath = cur.place /\ cur.place \in Folder /\ Goal = cur.place
    BY <1>2, SessionAssumption DEF Course, Kept, Goal, Place
  <2>2. disk[cur.place][r.file] = First(r.file, Assembly(r.token).index)
    BY <1>2, <1>4 DEF Course, Written
  <2>3. Cleared(m)[cur.place][r.file] = disk[cur.place][r.file]
    BY <1>4, <2>1, SessionAssumption DEF Cleared, NInv, Client, Place
  <2>4. disk'[cur.place][r.file] = First(r.file, Index(m))
    <3>1. CASE Writes(m)
      <4>1. n = Assembly(r.token).index
        BY <1>2, <1>3, <3>1, BlockHandled
      <4>2. First(r.file, n) \o Run(m) = First(r.file, Index(m))
        BY <1>2, <1>3, <3>1, RunContinues
      <4>3. PICK c : c = Cleared(m)
        OBVIOUS
      <4>4. disk' = [c EXCEPT ![cur.place][r.file] = c[cur.place][r.file] \o Run(m)]
        BY <1>4, <2>1, <3>1, <4>3, HandleBlockIs
      <4>5. c \in [Place -> [File -> Seq(File \X Nat)]]
        <5>1. disk \in [Place -> [File -> Seq(File \X Nat)]] /\ <<>> \in Seq(File \X Nat)
          BY DEF NInv, Client
        <5> QED BY <1>4, <4>3, <5>1 DEF Cleared
      <4>6. disk'[cur.place][r.file] = c[cur.place][r.file] \o Run(m)
        BY <1>4, <2>1, <4>4, <4>5 DEF Place
      <4> QED BY <2>2, <2>3, <4>1, <4>2, <4>3, <4>6
    <3>2. CASE ~ Writes(m)
      <4>1. disk' = Cleared(m) /\ Index(m) = Assembly(r.token).index
        BY <1>2, <1>3, <3>2, HandleBlockIs, BlockHandled
      <4> QED BY <2>2, <2>3, <4>1
    <3> QED BY <3>1, <3>2
  <2>5. CASE Ends(m)
    <3>1. Index(m) = Blocks[r.file] /\ r.token \in finished'
      BY <1>1, <1>2, <1>3, <2>5, BlockHandled
    <3> QED BY <2>1, <2>4, <3>1 DEF First, Whole
  <2>6. CASE ~ Ends(m)
    <3>1. Assembly(r.token)'.index = Index(m) /\ r.token \notin finished'
      BY <1>1, <1>2, <1>3, <2>6, BlockHandled
    <3> QED BY <2>1, <2>4, <3>1
  <2> QED BY <2>5, <2>6
<1> QED BY <1>6, <1>7, <1>8, <1>9, <1>10 DEF Course
(* Every step that does not cross keeps the downloads on their course.     *)
LEMMA NextUndisturbed == NInv /\ Undisturbed /\ [Next]_vars => Undisturbed'
<1> SUFFICES ASSUME NInv, Undisturbed, [Next]_vars, crossed' = {}
             PROVE  Course'
  BY DEF Undisturbed
<1>1. CASE Restart
  BY <1>1, RestartCourse
<1>2. CASE CommandLine
  <2>1. Course
    BY <1>2 DEF Undisturbed, CommandLine, FetchServerData, Return, ChooseDownload,
       Download, Delete, network
  <2> QED BY <1>2, <2>1, FetchCourse, MenuCourse, DownloadCourse, DeleteCourse
          DEF CommandLine
<1>3. CASE Process \/ (\E m \in got : Ack(m)) \/ (\E m \in net : RequestFails(m))
  <2>1. crossed = {}
    <3>1. CASE \E m \in net : Accept(m) \/ RequestFails(m)
      BY <3>1 DEF Accept, RequestFails
    <3>2. CASE \E m \in got : Ack(m)
      BY <3>2 DEF Ack
    <3>3. CASE \E m \in work : Solve(m)
      BY <3>3, SolveTypes
    <3>4. CASE \E t \in Token : SendNext(t)
      BY <3>4, SendNextTypes
    <3>5. CASE \E t \in Token : GiveUp(t) \/ SenderFails(t)
      BY <3>5 DEF GiveUp, SenderFails, network
    <3> QED BY <1>3, <3>1, <3>2, <3>3, <3>4, <3>5 DEF Process
  <2> QED BY <1>3, <2>1, ServerCourse DEF Undisturbed, Process
<1>4. CASE \E m \in net : Receive(m)
  <2>1. PICK m \in net : Receive(m)
    BY <1>4
  <2>2. /\ crossed = {} /\ m.life = life
        /\ ~ (m.kind = "block" /\ m \in got \ tasks)
    BY <2>1 DEF Receive
  <2> QED BY <2>1, <2>2, ReceiveCourse DEF Undisturbed
<1>5. CASE \E m \in net : ReceiveRst(m)
  <2>1. PICK m \in net : ReceiveRst(m)
    BY <1>5
  <2>2. /\ crossed = {} /\ m.life = life
        /\ ~ \E x \in got : x.kind = "block" /\ x.token = m.token /\ x.life = life
    BY <2>1 DEF ReceiveRst
  <2> QED BY <2>1, <2>2, RstCourse DEF Undisturbed
<1>6. CASE \E m \in tasks : HandlePath(m)
  BY <1>6, PathCourse DEF Undisturbed, HandlePath, network
<1>7. CASE \E m \in tasks : HandleBlock(m)
  BY <1>7, BlockCourse, HandleBlockIs DEF Undisturbed, network
<1>8. CASE Close
  BY <1>8, MenuCourse DEF Undisturbed, Close, network
<1>9. CASE UNCHANGED vars
  <2>1. /\ UNCHANGED <<cli, cur, life, next, savePath, assembly, disk, closing, tasks,
                       finished, failed, got, net, crossed>>
    BY <1>9 DEF vars, client, pool, assembler, network
  <2>2. Course /\ Requests' = Requests
    BY <2>1 DEF Undisturbed, Requests
  <2>3. Early' /\ Asked' /\ Progress' /\ Kept' /\ Written'
    BY <2>1, <2>2, DownloadsStay DEF Course, Early
  <2>4. Locked'
    BY <2>1, <2>2 DEF Course, Locked
  <2> QED BY <2>3, <2>4 DEF Course
<1> QED BY <1>1, <1>2, <1>3, <1>4, <1>5, <1>6, <1>7, <1>8, <1>9 DEF Next, Workers

(* The invariant holds of every behaviour.                                 *)
LEMMA Always == Spec => [](NInv /\ Undisturbed)
<1>1. Init => NInv /\ Undisturbed
  BY InitNInv, InitCourse DEF Undisturbed
<1> QED BY <1>1, NextNInv, NextUndisturbed, PTL DEF Spec

(* A download that returned and was not refused left the whole file in the *)
(* folder that was named, through any loss, copy and delay, whatever the   *)
(* numbers of files, blocks, commands and restarts (client.py:74-104,      *)
(* drive_assembler.py:89-154).                                             *)
THEOREM Downloaded == Spec => []Delivered
<1>1. NInv /\ Undisturbed => Delivered
  <2> SUFFICES ASSUME NInv, Undisturbed, cli = "done", cur.req.kind = "get",
                      cur.req.token \notin failed, cur.clean, ~ cur.kept, crossed = {}
               PROVE  disk[cur.place][cur.req.file] = Whole(cur.req.file)
    BY DEF Delivered
  <2>1. Course
    BY DEF Undisturbed
  <2>2. cur.req \in Downloads
    BY <2>1 DEF Course, Asked
  <2>3. cur.req.token \in finished
    BY <2>1, <2>2 DEF Course, Progress
  <2> QED BY <2>1, <2>3 DEF Course, Written
<1> QED BY <1>1, Always, PTL

(* While a download runs, its save path is the one set for it, although    *)
(* the download before resets it late (drive_assembler.py:145, 153).       *)
THEOREM SavePathStays == Spec => []SavePathKept
<1>1. NInv /\ Undisturbed => SavePathKept
  BY DEF Undisturbed, Course, Kept, SavePathKept
<1> QED BY <1>1, Always, PTL
=============================================================================
