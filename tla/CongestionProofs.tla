--------------------------- MODULE CongestionProofs ---------------------------
(***************************************************************************)
(* The size of the dictionary of TransactionPool, for any finite set of    *)
(* requests and any limit.                                                 *)
(***************************************************************************)
EXTENDS TransactionPoolProofs, FiniteSetTheorems

(* What may be inserted without another test for room: the message of a    *)
(* sender past the test, and the request the command line has not inserted *)
Past == {g \in Request : wpc[g] \in {"drain", "send", "lookup", "insert"}}
Waiting == {g \in Uploads : cpc[g] \in {"ready", "lookup", "insert"}}
Pledged == {KeyOf(g) : g \in Past} \cup {<<g, 0>> : g \in Waiting}

(* A transaction the solver can send again, or that may become one *)
Live == (pending \ stale) \cup Pledged

CInv ==
    /\ IsFiniteSet(pending) /\ IsFiniteSet(snap)
    /\ Cardinality(Live) <= Limit
    /\ Cardinality(pending \cup Pledged) <= 2 * Limit

-----------------------------------------------------------------------------
(* Sizes *)

(* The keys of distinct requests are at most as many as the requests.      *)
LEMMA ImageSize ==
    ASSUME NEW S, NEW T, NEW f \in [S -> T], IsFiniteSet(S)
    PROVE  /\ IsFiniteSet({f[x] : x \in S})
           /\ Cardinality({f[x] : x \in S}) <= Cardinality(S)
<1> DEFINE I == {f[x] : x \in S}
<1>1. f \in Surjection(S, I)
  BY DEF Surjection
<1> QED BY <1>1, FS_Surjection

(* A part of a finite set, and two finite sets together                    *)
LEMMA Sizes ==
    ASSUME NEW S, NEW T, IsFiniteSet(S), IsFiniteSet(T)
    PROVE  /\ IsFiniteSet(S \cup T)
           /\ Cardinality(S) \in Nat /\ Cardinality(T) \in Nat
           /\ Cardinality(S \cup T) \in Nat
           /\ Cardinality(S \cup T) <= Cardinality(S) + Cardinality(T)
           /\ \A R : R \subseteq S =>
                 IsFiniteSet(R) /\ Cardinality(R) \in Nat
                 /\ Cardinality(R) <= Cardinality(S)
<1>1. /\ IsFiniteSet(S \cup T)
      /\ Cardinality(S \cup T) = Cardinality(S) + Cardinality(T) - Cardinality(S \cap T)
  BY FS_Union
<1>2. \A R : R \subseteq S => IsFiniteSet(R) /\ Cardinality(R) <= Cardinality(S)
  BY FS_Subset
<1>3. IsFiniteSet(S \cap T)
  BY <1>2
<1>4. \A R : IsFiniteSet(R) => Cardinality(R) \in Nat
  BY FS_CardinalityType
<1> QED BY <1>1, <1>2, <1>3, <1>4

(* The numbers of requests and uploads                                     *)
LEMMA ConstantFacts ==
    /\ IsFiniteSet(Uploads) /\ IsFiniteSet(Request)
    /\ Cardinality(Request) \in Nat /\ Cardinality(Uploads) \in Nat
    /\ MaxPending \in Nat \ {0} /\ Limit \in Nat
    /\ Limit = MaxPending - 1 + Cardinality(Request) + Cardinality(Uploads)
<1>1. IsFiniteSet(Request) /\ Uploads \subseteq Request
  BY RequestAssumption
<1>2. IsFiniteSet(Uploads)
  BY <1>1, FS_Subset
<1>3. Cardinality(Request) \in Nat /\ Cardinality(Uploads) \in Nat
  BY <1>1, <1>2, FS_CardinalityType
<1> QED BY <1>1, <1>2, <1>3, BoundAssumption DEF Limit

(* Each sender and each upload has pledged one message at most             *)
(* (coap_transaction_pool.py:43-49, 73-74).                                *)
LEMMA PledgedSize ==
    /\ IsFiniteSet(Pledged)
    /\ Cardinality(Pledged) \in Nat
    /\ Cardinality(Pledged) <= Cardinality(Request) + Cardinality(Uploads)
<1> DEFINE f == [g \in Past |-> KeyOf(g)]
           z == [g \in Waiting |-> <<g, 0>>]
           A == {f[g] : g \in Past}
           Z == {z[g] : g \in Waiting}
<1>1. /\ IsFiniteSet(Past) /\ Cardinality(Past) <= Cardinality(Request)
      /\ IsFiniteSet(Waiting) /\ Cardinality(Waiting) <= Cardinality(Uploads)
  <2>1. Past \in SUBSET Request /\ Waiting \in SUBSET Uploads
    BY DEF Past, Waiting
  <2> QED BY <2>1, ConstantFacts, FS_Subset
<1>2. IsFiniteSet(A) /\ Cardinality(A) <= Cardinality(Past)
  <2>1. f \in [Past -> A]
    OBVIOUS
  <2> HIDE DEF f
  <2> QED BY <1>1, <2>1, ImageSize
<1>3. IsFiniteSet(Z) /\ Cardinality(Z) <= Cardinality(Waiting)
  <2>1. z \in [Waiting -> Z]
    OBVIOUS
  <2> HIDE DEF z
  <2> QED BY <1>1, <2>1, ImageSize
<1>4. Pledged = A \cup Z
  BY DEF Pledged
<1>5. /\ Cardinality(A) \in Nat /\ Cardinality(Z) \in Nat
      /\ Cardinality(Past) \in Nat /\ Cardinality(Waiting) \in Nat
  BY <1>1, <1>2, <1>3, FS_CardinalityType
<1> HIDE DEF A, Z
<1>6. /\ IsFiniteSet(A \cup Z) /\ Cardinality(A \cup Z) \in Nat
      /\ Cardinality(A \cup Z) <= Cardinality(A) + Cardinality(Z)
  BY <1>2, <1>3, Sizes
<1> QED BY <1>1, <1>2, <1>3, <1>4, <1>5, <1>6, ConstantFacts

-----------------------------------------------------------------------------
(* Steps *)

(* Nothing is added that was not in the dictionary or pledged.             *)
LEMMA NothingAdded ==
    ASSUME CInv,
           pending' \cup Pledged' \subseteq pending \cup Pledged,
           Live' \subseteq Live,
           snap' \in {snap, pending, {}}
    PROVE  CInv'
<1>1. IsFiniteSet(pending \cup Pledged)
  BY PledgedSize, Sizes DEF CInv
<1>2. Live \subseteq pending \cup Pledged
  BY DEF Live
<1>3. IsFiniteSet(Live)
  BY <1>1, <1>2, FS_Subset
<1>4. /\ IsFiniteSet(pending') /\ IsFiniteSet(snap')
  <2>1. pending' \subseteq pending \cup Pledged
    OBVIOUS
  <2>2. IsFiniteSet(pending')
    BY <1>1, <2>1, FS_Subset
  <2> QED BY <2>2, FS_EmptySet DEF CInv
<1>5. /\ Cardinality(Live') <= Cardinality(Live)
      /\ Cardinality(Live') \in Nat /\ Cardinality(Live) \in Nat
  BY <1>3, Sizes
<1>6. /\ Cardinality(pending' \cup Pledged') <= Cardinality(pending \cup Pledged)
      /\ Cardinality(pending' \cup Pledged') \in Nat
      /\ Cardinality(pending \cup Pledged) \in Nat
  BY <1>1, Sizes
<1>7. Limit \in Nat /\ Limit' = Limit
  BY ConstantFacts DEF Limit
<1> QED BY <1>4, <1>5, <1>6, <1>7 DEF CInv

(* A sender passes the test for room (coap_transaction_pool.py:43-44).     *)
LEMMA RoomTested ==
    ASSUME CInv, NEW g \in Request, WaitRoom(g)
    PROVE  CInv'
<1>1. UNCHANGED <<pending, stale, snap>>
  BY DEF WaitRoom, pool, solver
<1>2. Cardinality(pending) \in Nat /\ Cardinality(pending) <= MaxPending - 1
  BY FS_CardinalityType, ConstantFacts DEF WaitRoom, HasRoom, CInv
<1>3. /\ IsFiniteSet(Pledged') /\ Cardinality(Pledged') \in Nat
      /\ Cardinality(Pledged') <= Cardinality(Request) + Cardinality(Uploads)
  <2>1. (/\ IsFiniteSet(Pledged)
         /\ Cardinality(Pledged) \in Nat
         /\ Cardinality(Pledged) <= Cardinality(Request) + Cardinality(Uploads))'
    BY PledgedSize, PTL
  <2> QED BY <2>1
<1>4. /\ IsFiniteSet(pending \cup Pledged')
      /\ Cardinality(pending \cup Pledged') \in Nat
      /\ Cardinality(pending \cup Pledged') <= Limit
  BY <1>2, <1>3, Sizes, ConstantFacts DEF CInv
<1>5. Cardinality(Live') \in Nat /\ Cardinality(Live') <= Limit
  <2>1. Live' \subseteq pending \cup Pledged'
    BY <1>1 DEF Live
  <2>2. Cardinality(Live') \in Nat /\ Cardinality(Live') <= Cardinality(pending \cup Pledged')
    BY <1>4, <2>1, Sizes
  <2> QED BY <1>4, <2>2, ConstantFacts
<1>6. Limit \in Nat /\ Limit' = Limit
  BY ConstantFacts DEF Limit
<1> QED BY <1>1, <1>4, <1>5, <1>6 DEF CInv

(* The solver builds the dictionary anew: the keys that come back were in  *)
(* the one it iterated over, which had the same size, and its keys were    *)
(* all live (coap_transaction_pool.py:182-185).                            *)
LEMMA Rebuilt ==
    ASSUME CInv, CleanEnd
    PROVE  CInv'
<1>1. /\ pending' \subseteq pending \cup snap /\ stale' = pending' /\ snap' = {}
      /\ stale \cap pending = {} /\ Cardinality(pending) = Cardinality(snap)
      /\ wpc' = wpc /\ cpc' = cpc /\ blk' = blk
  BY DEF CleanEnd, sender
<1>2. Pledged' = Pledged
  BY <1>1 DEF Pledged, Past, Waiting, KeyOf
<1>3. Live = pending \cup Pledged /\ Live' = Pledged
  BY <1>1, <1>2 DEF Live
<1>4. /\ IsFiniteSet(Live) /\ Cardinality(Live) \in Nat
      /\ Cardinality(Live) <= Limit
  BY <1>3, PledgedSize, Sizes DEF CInv
<1>5. /\ IsFiniteSet(Live \cup snap) /\ Cardinality(Live \cup snap) \in Nat
      /\ Cardinality(Live \cup snap) <= Cardinality(Live) + Cardinality(snap)
      /\ Cardinality(snap) \in Nat
  BY <1>4, Sizes DEF CInv
<1>6. Cardinality(snap) <= Cardinality(Live) /\ Cardinality(Pledged) <= Cardinality(Live)
  <2>1. pending \subseteq Live /\ Pledged \subseteq Live
    BY <1>3
  <2> QED BY <1>1, <1>4, <2>1, Sizes
<1>7. pending' \cup Pledged' \subseteq Live \cup snap
  BY <1>1, <1>2, <1>3
<1>8. /\ IsFiniteSet(pending') /\ Cardinality(pending' \cup Pledged') \in Nat
      /\ Cardinality(pending' \cup Pledged') <= Cardinality(Live \cup snap)
  <2>1. pending' \subseteq Live \cup snap
    BY <1>7
  <2> QED BY <1>5, <1>7, <2>1, Sizes
<1>9. Limit \in Nat /\ Limit' = Limit /\ IsFiniteSet(snap')
  BY <1>1, ConstantFacts, FS_EmptySet DEF Limit
<1> QED BY <1>3, <1>4, <1>5, <1>6, <1>8, <1>9, PledgedSize DEF CInv

(* The other steps of a sender add the message it pledged, if any          *)
(* (coap_transaction_pool.py:60-74).                                       *)
LEMMA SenderAdds ==
    ASSUME CInv, TypeOK, NEW g \in Request, Worker(g), ~ WaitRoom(g)
    PROVE  CInv'
<1>1. /\ cpc' = cpc /\ snap' = snap
      /\ \A h \in Request : h # g => wpc'[h] = wpc[h] /\ blk'[h] = blk[h]
  BY DEF TypeOK, Worker, ResolvePath, Await, CheckFailed, WaitDrained, Send, Lookup,
         InsertKey, FinishOverall, Advance, GoTo, sender, pool, solver
<1>2. /\ wpc'[g] \in {"drain", "send", "lookup", "insert"}
            => g \in Past /\ blk'[g] = blk[g]
      /\ \/ pending' = pending /\ stale' = stale
         \/ g \in Past /\ pending' = pending \cup {KeyOf(g)}
            /\ stale' = stale \ {KeyOf(g)}
  BY DEF TypeOK, Worker, ResolvePath, Await, CheckFailed, WaitDrained, Send, Lookup,
         InsertKey, FinishOverall, Advance, Insert, GoTo, sender, pool, Past
<1>3. Pledged' \subseteq Pledged
  BY <1>1, <1>2 DEF Pledged, Past, Waiting, KeyOf
<1>4. g \in Past => KeyOf(g) \in Pledged
  BY DEF Pledged
<1> QED BY <1>1, <1>2, <1>3, <1>4, NothingAdded DEF Live

(* The command line adds the request it pledged, if any                    *)
(* (coap_worker_pool.py:218-233).                                          *)
LEMMA CliAdds ==
    ASSUME CInv, TypeOK, NEW g \in Uploads, Cli(g)
    PROVE  CInv'
<1>1. /\ wpc' = wpc /\ blk' = blk /\ snap' = snap
      /\ \A h \in Uploads : h # g => cpc'[h] = cpc[h]
  BY DEF TypeOK, Cli, CliSend, CliLookup, CliInsert, CliReturn, CliGoTo, sender,
         pool, solver
<1>2. /\ cpc'[g] \in {"ready", "lookup", "insert"} => g \in Waiting
      /\ \/ pending' = pending /\ stale' = stale
         \/ g \in Waiting /\ pending' = pending \cup {<<g, 0>>}
            /\ stale' = stale \ {<<g, 0>>}
  BY DEF TypeOK, Cli, CliSend, CliLookup, CliInsert, CliReturn, CliGoTo, Insert,
         pool, Waiting
<1>3. Pledged' \subseteq Pledged
  BY <1>1, <1>2 DEF Pledged, Past, Waiting, KeyOf
<1>4. g \in Waiting => <<g, 0>> \in Pledged
  BY DEF Pledged
<1> QED BY <1>1, <1>2, <1>3, <1>4, NothingAdded DEF Live

(* The solver adds nothing but in CleanEnd                                 *)
(* (coap_transaction_pool.py:83-104).                                      *)
LEMMA SolverAdds ==
    ASSUME CInv, Solver, ~ CleanEnd
    PROVE  CInv'
<1>1. /\ wpc' = wpc /\ blk' = blk /\ cpc' = cpc
      /\ pending' = pending /\ stale' = stale /\ snap' \in {snap, pending, {}}
  BY DEF Solver, SolveBegin, ScanNext, ScanEnd, SolverRaises, RunNoAction,
         RunRetransmit, RunGiveUp, MarkFailed, CleanBegin, CleanRaises,
         ClearFinished, SolverDies, sender, pool
<1>2. Pledged' = Pledged
  BY <1>1 DEF Pledged, Past, Waiting, KeyOf
<1> QED BY <1>1, <1>2, NothingAdded DEF Live

(* The filter only deletes (coap_transaction_pool.py:106-119).             *)
LEMMA FilterAdds ==
    ASSUME CInv, Filter
    PROVE  CInv'
<1>1. /\ wpc' = wpc /\ blk' = blk /\ cpc' = cpc /\ snap' = snap
      /\ \/ pending' = pending /\ stale' = stale
         \/ pending' = pending \ {fkey} /\ stale' = stale \ {fkey}
  BY DEF Filter, FilterInternal, ReceiveAck, ReceiveRst, FindPending, DeletePending,
         FilterRaises, RstFinishes, sender, pool, solver
<1>2. Pledged' = Pledged
  BY <1>1 DEF Pledged, Past, Waiting, KeyOf
<1> QED BY <1>1, <1>2, NothingAdded DEF Live

(* The dictionary is empty at the start.                                   *)
LEMMA InitCInv == Init => CInv
<1> SUFFICES ASSUME Init PROVE CInv
  OBVIOUS
<1>1. pending = {} /\ snap = {} /\ IsFiniteSet({})
  BY FS_EmptySet DEF Init
<1>2. Live = Pledged /\ pending \cup Pledged = Pledged
  BY <1>1 DEF Live
<1> QED BY <1>1, <1>2, PledgedSize, ConstantFacts DEF CInv

(* Every step keeps the dictionary within its bounds.                      *)
LEMMA NextCInv == CInv /\ TypeOK /\ [Next]_vars => CInv'
<1> SUFFICES ASSUME CInv, TypeOK, [Next]_vars PROVE CInv'
  OBVIOUS
<1>1. ASSUME NEW g \in Request, Worker(g) PROVE CInv'
  BY <1>1, RoomTested, SenderAdds
<1>2. ASSUME NEW g \in Uploads, Cli(g) PROVE CInv'
  BY <1>2, CliAdds
<1>3. CASE Solver
  BY <1>3, Rebuilt, SolverAdds
<1>4. CASE Filter
  BY <1>4, FilterAdds
<1>5. CASE UNCHANGED vars
  <2>1. Pledged' = Pledged
    BY <1>5 DEF vars, sender, Pledged, Past, Waiting, KeyOf
  <2>2. UNCHANGED <<pending, stale, snap>>
    BY <1>5 DEF vars, pool, solver
  <2> QED BY <2>1, <2>2, NothingAdded DEF Live
<1> QED BY <1>1, <1>2, <1>3, <1>4, <1>5 DEF Next

(* The transactions that can still be sent are at most as many as the      *)
(* limit allows, and one more for each request and each upload; with the   *)
(* keys that come back when the solver builds the dictionary anew, twice   *)
(* as many (coap_transaction_pool.py:43-44, 182-185).                      *)
THEOREM Congestion == Spec => []CongestionBound
<1>1. CInv => CongestionBound
  <2> SUFFICES ASSUME CInv PROVE CongestionBound
    OBVIOUS
  <2>1. /\ (pending \ stale) \cup Admitted \subseteq Live
        /\ pending \cup Admitted \subseteq pending \cup Pledged
        /\ Live \subseteq pending \cup Pledged
    BY DEF Admitted, Live, Pledged, Past
  <2>2. IsFiniteSet(pending \cup Pledged)
    BY PledgedSize, Sizes DEF CInv
  <2>3. IsFiniteSet(Live)
    BY <2>1, <2>2, FS_Subset
  <2>4. /\ Cardinality((pending \ stale) \cup Admitted) <= Cardinality(Live)
        /\ Cardinality((pending \ stale) \cup Admitted) \in Nat
        /\ Cardinality(Live) \in Nat
    BY <2>1, <2>3, Sizes
  <2>5. /\ Cardinality(pending \cup Admitted) <= Cardinality(pending \cup Pledged)
        /\ Cardinality(pending \cup Admitted) \in Nat
        /\ Cardinality(pending \cup Pledged) \in Nat
    BY <2>1, <2>2, Sizes
  <2> QED BY <2>4, <2>5, ConstantFacts DEF CInv, CongestionBound
<1>2. Spec => []TypeOK
  BY TypeCorrect, PTL
<1> QED BY <1>1, <1>2, InitCInv, NextCInv, PTL DEF Spec
=============================================================================
