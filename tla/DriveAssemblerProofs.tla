------------------------ MODULE DriveAssemblerProofs ------------------------
(***************************************************************************)
(* Proofs about DriveAssembler, for any set of requests, any length of     *)
(* their files, and any number of copies of a block in any order.          *)
(***************************************************************************)
EXTENDS DriveAssembler, SequenceTheorems, NaturalsInduction, WellFoundedInduction, TLAPS

-----------------------------------------------------------------------------
(* The run of buffered blocks *)

(* A set of naturals that is not empty has a least element.                *)
LEMMA LeastNat ==
    ASSUME NEW T \in SUBSET Nat, T # {}
    PROVE  \E m \in T : \A k \in T : m <= k
<1> DEFINE R == {p \in Nat \X Nat : p[1] < p[2]}
<1>1. IsWellFoundedOn(R, Nat)
  BY NatLessThanWellFounded DEF OpToRel
<1>2. PICK m \in T : \A k \in T : <<k, m>> \notin R
  BY <1>1, WFMin, Zenon
<1>3. ASSUME NEW k \in T PROVE m <= k
  <2> k \in Nat /\ m \in Nat /\ ~ (k < m)
    BY <1>2
  <2> QED OBVIOUS
<1> QED BY <1>3

(* Among the blocks of a file that came, the run that starts at one of     *)
(* them has an end (drive_assembler.py:120-123).                           *)
LEMMA RunEndFacts ==
    ASSUME NEW m \in Nat, NEW S, S \subseteq 0 .. m, NEW n \in S
    PROVE  /\ RunEnd(n, S) \in S
           /\ n .. RunEnd(n, S) \subseteq S
           /\ RunEnd(n, S) + 1 \notin S
           /\ RunEnd(n, S) >= n
<1> DEFINE T == {k \in Nat : k > n /\ k \notin S}
<1>1. m + 1 \in T /\ T \in SUBSET Nat
  OBVIOUS
<1>2. PICK gap \in T : \A k \in T : gap <= k
  BY <1>1, LeastNat
<1>3. /\ gap - 1 \in S
      /\ n .. gap - 1 \subseteq S
      /\ (gap - 1) + 1 \notin S
      /\ gap - 1 >= n
  BY <1>2
<1> QED BY <1>3 DEF RunEnd

(* A sequence is put together from its beginning and its rest.             *)
LEMMA InOrder ==
    ASSUME NEW S, NEW front \in Seq(S), NEW run \in Seq(S), NEW whole \in Seq(S),
           Len(whole) = Len(front) + Len(run),
           \A i \in 1 .. Len(front) : front[i] = whole[i],
           \A i \in 1 .. Len(run) : run[i] = whole[Len(front) + i]
    PROVE  front \o run = whole
<1> DEFINE both == front \o run
<1>1. /\ both \in Seq(S)
      /\ Len(both) = Len(whole)
      /\ \A i \in 1 .. Len(whole) :
            both[i] = IF i <= Len(front) THEN front[i] ELSE run[i - Len(front)]
  BY ConcatProperties
<1> HIDE DEF both
<1>2. \A i \in 1 .. Len(whole) : both[i] = whole[i]
  <2> TAKE i \in 1 .. Len(whole)
  <2>1. CASE i <= Len(front)
    BY <1>1, <2>1
  <2>2. CASE i > Len(front)
    <3>1. i - Len(front) \in 1 .. Len(run) /\ Len(front) + (i - Len(front)) = i
      BY <2>2
    <3>2. run[i - Len(front)] = whole[i]
      BY <3>1
    <3> QED BY <1>1, <2>2, <3>2
  <2> QED BY <2>1, <2>2
<1>3. both = whole
  BY <1>1, <1>2, SeqEqual
<1> QED BY <1>3 DEF both

(* The blocks written so far, followed by the next run, are the blocks up  *)
(* to the end of that run (drive_assembler.py:129-134).                    *)
LEMMA UptoExtends ==
    ASSUME NEW g, NEW m \in Nat, NEW k \in Nat
    PROVE  Upto(g, m) \o [i \in 1 .. k |-> <<g, m + i - 1>>] = Upto(g, m + k)
<1> DEFINE B == {g} \X Int
<1> DEFINE front == Upto(g, m)
<1> DEFINE run == [i \in 1 .. k |-> <<g, m + i - 1>>]
<1> DEFINE whole == Upto(g, m + k)
<1>1. /\ front \in Seq(B) /\ Len(front) = m
      /\ run \in Seq(B) /\ Len(run) = k
      /\ whole \in Seq(B) /\ Len(whole) = m + k
  BY DEF Upto
<1>2. \A i \in 1 .. m : front[i] = whole[i]
  BY DEF Upto
<1>3. \A i \in 1 .. k : run[i] = whole[m + i]
  BY DEF Upto
<1> HIDE DEF B, front, run, whole
<1>4. front \o run = whole
  BY <1>1, <1>2, <1>3, InOrder
<1> QED BY <1>4 DEF front, run, whole

-----------------------------------------------------------------------------
(* The invariant *)

(* An open assembly does not have the block it waits for, and it knows the *)
(* number of blocks exactly when the last one is buffered.                 *)
Entries(g) ==
    {e \in [total : Block(g) \cup {-1}, index : Block(g), received : SUBSET Block(g)] :
        /\ e.index \notin e.received
        /\ e.total = IF Total[g] - 1 \in e.received THEN Total[g] - 1 ELSE -1}

Assembling ==
    /\ assembly = [g \in Request |-> assembly[g]]
    /\ written = [g \in Request |-> written[g]]
    /\ \A g \in Request : assembly[g] \in Entries(g) \cup {None}

IInv == TypeOK /\ Assembling /\ WrittenInOrder /\ FinishedWhole

(* What is known of an entry, and that it is not the mark of an absent one *)
(* (drive_assembler.py:95-100).                                            *)
LEMMA EntryFacts ==
    ASSUME NEW g \in Request, NEW e \in Entries(g)
    PROVE  /\ e # None
           /\ e.total \in Block(g) \cup {-1} /\ e.index \in Block(g)
           /\ e.received \subseteq Block(g) /\ e.index \notin e.received
           /\ e.total = IF Total[g] - 1 \in e.received THEN Total[g] - 1 ELSE -1
BY AssemblerAssumption DEF Entries, Block

(* An entry is made of its parts.                                          *)
LEMMA MakeEntry ==
    ASSUME NEW g \in Request,
           NEW index \in Block(g), NEW received \in SUBSET Block(g),
           index \notin received,
           NEW total,
           total = IF Total[g] - 1 \in received THEN Total[g] - 1 ELSE -1
    PROVE  [total |-> total, index |-> index, received |-> received] \in Entries(g)
BY AssemblerAssumption DEF Entries, Block

(* The assembly a call works on: __setup opens the one that is not there.  *)
Opened(g) == IF assembly[g] = None THEN NewAssembly ELSE assembly[g]

(* The blocks that came, when the assembly is open and when it is not      *)
(* (drive_assembler.py:94-100).                                            *)
LEMMA OpenedFacts ==
    ASSUME IInv, NEW g \in Request
    PROVE  /\ Opened(g) \in Entries(g)
           /\ Arrived[g] = (0 .. Opened(g).index - 1) \cup Opened(g).received
           /\ Upto(g, Opened(g).index) = IF assembly[g] = None THEN <<>> ELSE written[g]
<1> USE DEF IInv, Assembling, Opened
<1>0. Total[g] \in Nat \ {0}
  BY AssemblerAssumption
<1>1. CASE assembly[g] = None
  <2>1. NewAssembly \in Entries(g)
    BY <1>0 DEF NewAssembly, Entries, Block
  <2>2. NewAssembly.index = 0 /\ NewAssembly.received = {} /\ Upto(g, 0) = <<>>
    BY DEF NewAssembly, Upto
  <2>3. (0 .. 0 - 1) \cup {} = {}
    OBVIOUS
  <2> QED BY <1>1, <2>1, <2>2, <2>3 DEF Arrived
<1>2. CASE assembly[g] # None
  BY <1>2 DEF Arrived, WrittenInOrder
<1> QED BY <1>1, <1>2

-----------------------------------------------------------------------------
(* One block *)

(* What a call with block n does to the assembly of request g, in terms of *)
(* the set of blocks that came: it writes up to the first block that is    *)
(* missing, and it finishes the request when none is                       *)
(* (drive_assembler.py:94-145).                                            *)
Advance(g, n) ==
    LET now == Arrived[g] \cup {n} IN
    \E m \in 0 .. Total[g] :
        /\ m \notin now /\ 0 .. m - 1 \subseteq now
        /\ written' = [written EXCEPT ![g] = Upto(g, m)]
        /\ \/ /\ now = Block(g) /\ m = Total[g]
              /\ assembly' = [assembly EXCEPT ![g] = None]
              /\ overall' = overall \cup {g}
           \/ /\ now # Block(g)
              /\ overall' = overall /\ closing' = closing
              /\ \E e \in Entries(g) :
                    /\ e.index = m /\ now = (0 .. m - 1) \cup e.received
                    /\ assembly' = [assembly EXCEPT ![g] = e]

(* A call with a block does this, from every state of the invariant        *)
(* (drive_assembler.py:94-145).                                            *)
LEMMA HandleAdvances ==
    ASSUME IInv, NEW g \in Request, NEW n \in Block(g), HandlePackets(g, n)
    PROVE  Advance(g, n)
<1> DEFINE old == Opened(g)
<1> DEFINE now == Arrived[g] \cup {n}
<1> DEFINE received == old.received \cup {n}
<1> DEFINE total == IF n = Total[g] - 1 THEN n ELSE old.total
<1> DEFINE last == RunEnd(n, received)
<1> DEFINE run == [i \in 1 .. last - n + 1 |-> <<g, n + i - 1>>]
<1>0. Total[g] \in Nat \ {0} /\ Block(g) = 0 .. Total[g] - 1
  BY AssemblerAssumption DEF Block
<1>1. /\ old.index \in Block(g)
      /\ old.received \subseteq Block(g) /\ old.index \notin old.received
      /\ old.total = IF Total[g] - 1 \in old.received THEN Total[g] - 1 ELSE -1
  BY OpenedFacts, EntryFacts
<1>2. now = (0 .. old.index - 1) \cup received
  BY OpenedFacts
<1>3. total = IF Total[g] - 1 \in received THEN Total[g] - 1 ELSE -1
  BY <1>0, <1>1
<1>4. received \subseteq Block(g) /\ now \subseteq Block(g) /\ n \in received
  BY <1>0, <1>1, <1>2
<1>5. /\ written' = [written EXCEPT ![g] =
             IF assembly[g] = None THEN (IF old.index = n THEN run ELSE <<>>)
                                   ELSE @ \o (IF old.index = n THEN run ELSE <<>>)]
      /\ IF IsComplete(IF old.index = n THEN last + 1 ELSE old.index, total)
           THEN /\ assembly' = [assembly EXCEPT ![g] = None]
                /\ overall' = overall \cup {g}
           ELSE /\ assembly' = [assembly EXCEPT ![g] =
                      [total |-> total,
                       index |-> IF old.index = n THEN last + 1 ELSE old.index,
                       received |-> IF old.index = n THEN received \ (n .. last)
                                                     ELSE received]]
                /\ overall' = overall /\ closing' = closing
  BY DEF HandlePackets, IsNext, Opened
<1>6. CASE old.index = n
  <2>1. /\ last \in received /\ n .. last \subseteq received
        /\ last + 1 \notin received /\ last >= n
    <3> HIDE DEF received
    <3>1. Total[g] - 1 \in Nat /\ received \subseteq 0 .. Total[g] - 1
      BY <1>0, <1>4
    <3> QED BY <3>1, <1>4, RunEndFacts
  <2> DEFINE m == last + 1
  <2> HIDE DEF last
  <2>2. last \in 0 .. Total[g] - 1 /\ n \in Nat
    BY <1>0, <1>4, <2>1
  <2>3. m \in 0 .. Total[g] /\ m \notin now /\ 0 .. m - 1 \subseteq now
    <3> HIDE DEF now, received
    <3>1. /\ m \in 0 .. Total[g] /\ m \notin 0 .. old.index - 1
          /\ 0 .. m - 1 = (0 .. n - 1) \cup (n .. last)
      BY <1>0, <1>6, <2>1, <2>2
    <3> QED BY <1>2, <1>6, <2>1, <3>1
  <2>4. Upto(g, n) \o run = Upto(g, m)
    <3>1. n \in Nat /\ last - n + 1 \in Nat /\ n + (last - n + 1) = m
      BY <1>0, <2>1, <2>2
    <3>2. Upto(g, n) \o run = Upto(g, n + (last - n + 1))
      BY <3>1, UptoExtends
    <3> QED BY <3>1, <3>2
  <2>5. IsComplete(m, total) <=> m = Total[g]
    <3> HIDE DEF received, total
    <3> QED BY <1>0, <1>3, <2>1, <2>2 DEF IsComplete
  <2>6. now = Block(g) <=> m = Total[g]
    <3> HIDE DEF now
    <3>1. CASE m = Total[g]
      BY <1>0, <1>4, <2>3, <3>1
    <3>2. CASE m # Total[g]
      BY <1>0, <2>3, <3>2
    <3> QED BY <3>1, <3>2
  <2>7. written' = [written EXCEPT ![g] = Upto(g, m)]
    <3>1. run \in Seq({g} \X Int)
      BY <2>2
    <3>2. assembly[g] = None => Upto(g, n) = <<>>
      BY <1>6, OpenedFacts
    <3>3. assembly[g] # None => Upto(g, n) = written[g]
      BY <1>6, OpenedFacts
    <3>4. <<>> \o run = run
      BY <3>1, ConcatEmptySeq
    <3> HIDE DEF run
    <3> QED BY <1>5, <1>6, <2>4, <3>2, <3>3, <3>4
  <2>8. CASE m = Total[g]
    BY <1>5, <1>6, <2>3, <2>5, <2>6, <2>7, <2>8 DEF Advance
  <2>9. CASE m # Total[g]
    <3> DEFINE rest == received \ (n .. last)
    <3> DEFINE e == [total |-> total, index |-> m, received |-> rest]
    <3>1. m \in Block(g) /\ rest \in SUBSET Block(g) /\ m \notin rest
      BY <1>0, <1>4, <2>1, <2>3, <2>9
    <3>2. total = IF Total[g] - 1 \in rest THEN Total[g] - 1 ELSE -1
      BY <1>0, <1>3, <2>2, <2>3, <2>9
    <3>3. e \in Entries(g)
      BY <3>1, <3>2, MakeEntry
    <3>4. now = (0 .. m - 1) \cup rest
      <4> HIDE DEF received
      <4>1. 0 .. m - 1 = (0 .. n - 1) \cup (n .. last)
        BY <2>1, <2>2
      <4> QED BY <1>2, <1>6, <2>1, <4>1
    <3>5. assembly' = [assembly EXCEPT ![g] = e] /\ overall' = overall /\ closing' = closing
      BY <1>5, <1>6, <2>5, <2>9
    <3>6. e.index = m /\ e.received = rest
      OBVIOUS
    <3> HIDE DEF e, rest, now, m
    <3> QED BY <2>3, <2>6, <2>7, <2>9, <3>3, <3>4, <3>5, <3>6 DEF Advance, now
  <2> QED BY <2>8, <2>9
<1>7. CASE old.index # n
  <2> DEFINE m == old.index
  <2>1. m \in 0 .. Total[g] /\ m \notin now /\ 0 .. m - 1 \subseteq now /\ now # Block(g)
    BY <1>0, <1>1, <1>2, <1>7
  <2>2. ~ IsComplete(m, total)
    BY <1>0, <1>1, <1>3 DEF IsComplete
  <2>3. written' = [written EXCEPT ![g] = Upto(g, m)]
    <3>1. assembly[g] # None => written[g] = Upto(g, m) /\ written[g] \o <<>> = written[g]
      BY <2>1, OpenedFacts, ConcatEmptySeq DEF Upto
    <3> QED BY <1>5, <1>7, <3>1, OpenedFacts
  <2> DEFINE e == [total |-> total, index |-> m, received |-> received]
  <2>4. e \in Entries(g)
    BY <1>1, <1>3, <1>4, <1>7, MakeEntry
  <2>5. assembly' = [assembly EXCEPT ![g] = e] /\ overall' = overall /\ closing' = closing
    BY <1>5, <1>7, <2>2
  <2>6. e.index = m /\ now = (0 .. m - 1) \cup e.received
    BY <1>2
  <2> HIDE DEF e, now, m
  <2> QED BY <2>1, <2>3, <2>4, <2>5, <2>6 DEF Advance, now
<1> QED BY <1>6, <1>7

-----------------------------------------------------------------------------
(* The invariant holds always *)

(* No block came at the start.                                             *)
LEMMA InitIInv == Init => IInv
<1> SUFFICES ASSUME Init PROVE IInv
  OBVIOUS
<1>1. TypeOK /\ WrittenInOrder /\ FinishedWhole
  BY DEF Init, TypeOK, WrittenInOrder, FinishedWhole
<1>2. Assembling
  BY DEF Init, Assembling
<1> QED BY <1>1, <1>2 DEF IInv

(* A call with a block keeps the invariant (drive_assembler.py:94-145).    *)
LEMMA HandleIInv ==
    ASSUME IInv, NEW g \in Request, NEW n \in Block(g), HandlePackets(g, n)
    PROVE  IInv'
<1>0. savePath' = savePath /\ begun' = begun
  BY DEF HandlePackets
<1>1. PICK m \in 0 .. Total[g] :
        /\ written' = [written EXCEPT ![g] = Upto(g, m)]
        /\ \/ /\ m = Total[g]
              /\ assembly' = [assembly EXCEPT ![g] = None]
              /\ overall' = overall \cup {g}
           \/ /\ overall' = overall /\ closing' = closing
              /\ \E e \in Entries(g) :
                    e.index = m /\ assembly' = [assembly EXCEPT ![g] = e]
  BY HandleAdvances DEF Advance
<1>2. PICK a \in Entries(g) \cup {None} :
        /\ assembly' = [assembly EXCEPT ![g] = a]
        /\ \/ a = None /\ m = Total[g] /\ overall' = overall \cup {g}
           \/ a \in Entries(g) /\ a.index = m /\ overall' = overall
  BY <1>1
<1>3. /\ assembly'[g] = a /\ written'[g] = Upto(g, m)
      /\ \A h \in Request \ {g} :
            assembly'[h] = assembly[h] /\ written'[h] = written[h]
  BY <1>1, <1>2 DEF IInv, Assembling
<1>4. Assembling'
  BY <1>1, <1>2 DEF IInv, Assembling
<1>5. WrittenInOrder'
  BY <1>2, <1>3 DEF IInv, WrittenInOrder
<1>6. FinishedWhole'
  <2>1. a \in Entries(g) => a # None
    BY EntryFacts
  <2> QED BY <1>2, <1>3, <2>1 DEF IInv, FinishedWhole
<1>7. TypeOK'
  <2>1. overall' \subseteq Request /\ overall \subseteq overall'
    BY <1>2 DEF IInv, TypeOK
  <2>2. closing' \in (Places \X overall') \cup {None}
    <3>1. Place(savePath, g) \in Places /\ Place(NoPath, g) \in Places
      BY DEF IInv, TypeOK, Places
    <3>2. \/ closing' = closing
          \/ /\ g \in overall'
             /\ closing' \in {<<Place(savePath, g), g>>, <<Place(NoPath, g), g>>}
      BY DEF HandlePackets
    <3>3. closing \in (Places \X overall) \cup {None}
      BY DEF IInv, TypeOK
    <3> QED BY <2>1, <3>1, <3>2, <3>3
  <2>3. ASSUME NEW h \in Request
        PROVE  \/ assembly'[h] = None
               \/ /\ assembly'[h].total \in Block(h) \cup {-1}
                  /\ assembly'[h].index \in Block(h)
                  /\ assembly'[h].received \subseteq Block(h)
    BY <1>4, EntryFacts DEF Assembling
  <2> QED BY <1>0, <2>1, <2>2, <2>3 DEF IInv, TypeOK
<1> QED BY <1>4, <1>5, <1>6, <1>7 DEF IInv

(* Every step keeps the invariant.                                         *)
LEMMA NextIInv == IInv /\ [Next]_vars => IInv'
<1> SUFFICES ASSUME IInv, [Next]_vars PROVE IInv'
  OBVIOUS
<1> USE DEF IInv, TypeOK, Assembling, WrittenInOrder, FinishedWhole
<1>1. ASSUME NEW g \in Request, SetSavePath(g) PROVE IInv'
  BY <1>1 DEF SetSavePath
<1>2. CASE ResetSavePath
  BY <1>2 DEF ResetSavePath
<1>3. ASSUME NEW g \in Request, NEW n \in Block(g), HandlePackets(g, n) PROVE IInv'
  BY <1>3, HandleIInv
<1>4. CASE Close
  BY <1>4 DEF Close
<1>5. CASE UNCHANGED vars
  BY <1>5 DEF vars
<1> QED BY <1>1, <1>2, <1>3, <1>4, <1>5 DEF Next

(* The invariant holds in every state.                                     *)
LEMMA AlwaysIInv == Spec => []IInv
BY InitIInv, NextIInv, PTL DEF Spec

(* The state of the assembler has its types: an open assembly waits for a  *)
(* block of its file and buffers blocks of its file only                   *)
(* (drive_assembler.py:96-100).                                            *)
THEOREM TypeCorrect == Spec => []TypeOK
<1>1. IInv => TypeOK
  BY DEF IInv
<1> QED BY <1>1, AlwaysIInv, PTL

(* Whatever the order and the copies in which the workers hand the blocks  *)
(* over, they are written once each and in order                           *)
(* (drive_assembler.py:118-136).                                           *)
THEOREM Ordered == Spec => []WrittenInOrder
<1>1. IInv => WrittenInOrder
  BY DEF IInv
<1> QED BY <1>1, AlwaysIInv, PTL

(* A request is marked finished only when its whole file was written       *)
(* (drive_assembler.py:138-145).                                           *)
THEOREM Whole == Spec => []FinishedWhole
<1>1. IInv => FinishedWhole
  BY DEF IInv
<1> QED BY <1>1, AlwaysIInv, PTL

-----------------------------------------------------------------------------
(* The refinement of FileTransfer *)

(* What the abstract transfer has written is what the assembler has: the   *)
(* blocks before the first one that is missing.                            *)
LEMMA GapIsUnique ==
    ASSUME NEW g \in Request, NEW m \in 0 .. Total[g], NEW S,
           m \notin S, 0 .. m - 1 \subseteq S
    PROVE  Transfer!UpToGap(g, S) = Upto(g, m)
<1>0. Total[g] \in Nat
  BY AssemblerAssumption
<1>1. ASSUME NEW k \in 0 .. Total[g], k \notin S, 0 .. k - 1 \subseteq S
      PROVE  k = m
  <2>1. ~ (k < m) /\ ~ (m < k)
    BY <1>0, <1>1
  <2> QED BY <1>0, <2>1
<1>2. (CHOOSE k \in 0 .. Total[g] : k \notin S /\ 0 .. k - 1 \subseteq S) = m
  BY <1>1
<1> QED BY <1>2 DEF Transfer!UpToGap, Upto

(* A call with a block is the reception of that block.                     *)
LEMMA HandleReceives ==
    ASSUME IInv, NEW g \in Request, NEW n \in Block(g), HandlePackets(g, n)
    PROVE  Transfer!Receive(g, n)
<1> DEFINE now == Arrived[g] \cup {n}
<1>1. PICK m \in 0 .. Total[g] :
        /\ m \notin now /\ 0 .. m - 1 \subseteq now
        /\ written' = [written EXCEPT ![g] = Upto(g, m)]
        /\ \/ /\ now = Block(g)
              /\ assembly' = [assembly EXCEPT ![g] = None]
              /\ overall' = overall \cup {g}
           \/ /\ now # Block(g)
              /\ overall' = overall
              /\ \E e \in Entries(g) :
                    /\ e.index = m /\ now = (0 .. m - 1) \cup e.received
                    /\ assembly' = [assembly EXCEPT ![g] = e]
  BY HandleAdvances DEF Advance
<1>2. written' = [written EXCEPT ![g] = Transfer!UpToGap(g, now)]
  BY <1>1, GapIsUnique
<1>3. CASE now = Block(g)
  <2>1. Arrived' = [Arrived EXCEPT ![g] = {}]
    BY <1>1, <1>3 DEF Arrived, IInv, Assembling
  <2> QED BY <1>1, <1>2, <1>3, <2>1 DEF Transfer!Receive, Transfer!Block, Block
<1>4. CASE now # Block(g)
  <2>1. PICK e \in Entries(g) :
          /\ e.index = m /\ now = (0 .. m - 1) \cup e.received
          /\ assembly' = [assembly EXCEPT ![g] = e]
    BY <1>1, <1>4
  <2>2. Arrived' = [Arrived EXCEPT ![g] = now]
    BY <2>1, EntryFacts DEF Arrived, IInv, Assembling
  <2> QED BY <1>1, <1>2, <1>4, <2>2 DEF Transfer!Receive, Transfer!Block, Block
<1> QED BY <1>3, <1>4

(* The assembler implements the abstract transfer: a call with a block is  *)
(* the reception of that block, and everything else it does is a step the  *)
(* transfer does not see (drive_assembler.py:80-153).                      *)
THEOREM Implements == Spec => ImplementsTransfer
<1>1. Init => Transfer!Init
  BY DEF Init, Transfer!Init, Arrived
<1>2. IInv /\ [Next]_vars => [Transfer!Next]_(Transfer!vars)
  <2> SUFFICES ASSUME IInv, [Next]_vars
               PROVE  [Transfer!Next]_(Transfer!vars)
    OBVIOUS
  <2>1. ASSUME NEW g \in Request, NEW n \in Block(g), HandlePackets(g, n)
        PROVE  Transfer!Next
    BY <2>1, HandleReceives DEF Transfer!Next, Transfer!Block, Block
  <2>2. ASSUME UNCHANGED <<assembly, overall, written>>
        PROVE  UNCHANGED Transfer!vars
    BY <2>2 DEF Transfer!vars, Arrived
  <2>3. ASSUME NEW g \in Request, SetSavePath(g)
        PROVE  UNCHANGED <<assembly, overall, written>>
    BY <2>3 DEF SetSavePath
  <2>4. CASE ResetSavePath \/ Close \/ UNCHANGED vars
    BY <2>2, <2>4 DEF ResetSavePath, Close, vars
  <2> QED BY <2>1, <2>2, <2>3, <2>4 DEF Next
<1> QED BY <1>1, <1>2, AlwaysIInv, PTL DEF Spec, ImplementsTransfer, Transfer!Spec
=============================================================================
