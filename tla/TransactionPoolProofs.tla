------------------------ MODULE TransactionPoolProofs ------------------------
(***************************************************************************)
(* Proofs about TransactionPool, for any set of requests, any number of    *)
(* messages and any limits.                                                *)
(***************************************************************************)
EXTENDS TransactionPool, TLAPS

(* The keys the solver and the filter hold are keys while they use them.   *)
Holding ==
    /\ spc \in {"run", "mark", "clean", "rebuild"} => cur \in Key
    /\ fpc \in {"member", "delete", "overall"} => fkey \in Key

(* A mark of completion comes from an ACK, the filter deletes what was     *)
(* acknowledged, and a request is cleaned after it was marked failed.      *)
Causes ==
    /\ finished \subseteq acked
    /\ fpc \in {"member", "delete"} => fkey \in acked
    /\ spc \in {"clean", "rebuild"} => cur[1] \in failed

(* The thread that registers a message has not sent it yet. *)
Unsent(k) == IF k[2] = 0
               THEN cpc[k[1]] = "ready"
               ELSE \/ k[2] > blk[k[1]]
                    \/ /\ k[2] = blk[k[1]]
                       /\ wpc[k[1]] \in {"path", "await", "absent", "check",
                                         "room", "drain", "send", "aborted"}

(* It has sent it and has not inserted it yet. *)
InFlight(k) == IF k[2] = 0
                 THEN cpc[k[1]] \in {"lookup", "insert"}
                 ELSE k[2] = blk[k[1]] /\ wpc[k[1]] \in {"lookup", "insert"}

(* How often each message was sent, by the progress of its registration *)
Sending == \A k \in Key :
    /\ Unsent(k) <=> sends[k] = 0
    /\ InFlight(k) => sends[k] = 1 /\ k \notin pending /\ k \notin snap
    /\ k \in pending \cup snap => sends[k] > 0
    /\ sends[k] <= 1 + counter[k]
    /\ sends[k] <= 1 + MaxRetransmit

(* A sender past the wait of the last message found the others delivered.  *)
Delivered(g) == \A i \in 1 .. (Messages[g] - 1) : <<g, i>> \in acked \/ g \in failed
PastDrain == \A g \in Request \ Paths :
    blk[g] = Messages[g] /\ wpc[g] \in {"send", "lookup", "insert", "finish", "done"}
        => Delivered(g)

(* The last steps of a sender belong to its last message. *)
AtEnd == \A g \in Request :
    /\ wpc[g] \in {"drain", "finish", "done"} => blk[g] = Messages[g]
    /\ wpc[g] \in {"drain", "finish"} => g \notin Paths

IInv == TypeOK /\ Holding /\ Causes /\ Sending /\ Tracked /\ PastDrain /\ AtEnd

-----------------------------------------------------------------------------
(* Keys *)

(* What a key is made of: a request and a position in it                   *)
(* (coap_packet.py:257-261).                                               *)
LEMMA KeyFacts ==
    ASSUME NEW k \in Key
    PROVE  /\ k = <<k[1], k[2]>>
           /\ k[1] \in Request
           /\ k[2] \in Nat
           /\ k[2] = 0 => k[1] \in Uploads
           /\ k[2] # 0 => k[2] \in 1 .. Messages[k[1]]
<1>1. CASE k \in Uploads \X {0}
  BY <1>1, RequestAssumption
<1>2. CASE \E g \in Request : k \in {g} \X (1 .. Messages[g])
  BY <1>2, BoundAssumption
<1> QED BY <1>1, <1>2 DEF Key

(* Every message of a request, and the request of an upload, has a key.    *)
LEMMA MakeKey ==
    /\ \A g \in Request : \A i \in 1 .. Messages[g] : <<g, i>> \in Key
    /\ \A g \in Uploads : <<g, 0>> \in Key
BY DEF Key

(* The key a sender works on is a key of its request.                      *)
LEMMA KeyOfIsKey ==
    ASSUME TypeOK, NEW g \in Request
    PROVE  KeyOf(g) \in Key /\ KeyOf(g)[1] = g /\ KeyOf(g)[2] = blk[g]
BY MakeKey DEF TypeOK, KeyOf

-----------------------------------------------------------------------------
(* Types *)

(* The pool starts with its types (coap_transaction_pool.py:19-26).        *)
LEMMA InitTypes == Init => TypeOK /\ Holding
BY MakeKey, RequestAssumption, BoundAssumption
   DEF Init, TypeOK, Holding, WorkerStep, CliStep, SolverStep, FilterStep

(* A step of a sending loop keeps the types (drive_spliter.py:59-100).     *)
LEMMA SenderTypes ==
    ASSUME TypeOK, Holding, NEW g \in Request, Worker(g)
    PROVE  TypeOK' /\ Holding'
<1> USE DEF TypeOK, Holding, WorkerStep, GoTo, pool, sender, solver, filter, history
<1>0. KeyOf(g) \in Key /\ KeyOf(g)[1] = g
  BY KeyOfIsKey
<1>1. CASE ResolvePath(g) \/ Await(g) \/ CheckFailed(g) \/ WaitRoom(g) \/ WaitDrained(g) \/ FinishOverall(g)
  BY <1>1 DEF ResolvePath, Await, CheckFailed, WaitRoom, WaitDrained, FinishOverall
<1>2. CASE Send(g)
  BY <1>0, <1>2 DEF Send, Transmit
<1>3. CASE Lookup(g)
  BY <1>0, <1>3, BoundAssumption DEF Lookup, Advance
<1>4. CASE InsertKey(g)
  BY <1>0, <1>4, BoundAssumption DEF InsertKey, Insert, Advance
<1> QED BY <1>1, <1>2, <1>3, <1>4 DEF Worker

(* A step of the command line keeps the types                              *)
(* (coap_worker_pool.py:218-233).                                          *)
LEMMA CliTypes ==
    ASSUME TypeOK, Holding, NEW g \in Uploads, Cli(g)
    PROVE  TypeOK' /\ Holding'
<1> USE DEF TypeOK, Holding, CliStep, CliGoTo, pool, sender, solver, filter, history
<1>0. <<g, 0>> \in Key /\ g \in Request
  BY MakeKey, RequestAssumption
<1>1. CASE CliSend(g)
  BY <1>0, <1>1 DEF CliSend, Transmit
<1>2. CASE CliLookup(g) \/ CliReturn(g)
  BY <1>0, <1>2 DEF CliLookup, CliReturn
<1>3. CASE CliInsert(g)
  BY <1>0, <1>3 DEF CliInsert, Insert
<1> QED BY <1>1, <1>2, <1>3 DEF Cli

(* A step of the solver keeps the types and its hold on a key              *)
(* (coap_transaction_pool.py:83-104).                                      *)
LEMMA SolverTypes ==
    ASSUME TypeOK, Holding, Solver
    PROVE  TypeOK' /\ Holding'
<1> USE DEF TypeOK, Holding, SolverStep, pool, sender, solver, filter, history
<1>1. CASE SolveBegin \/ ScanNext \/ ScanEnd
  BY <1>1 DEF SolveBegin, ScanNext, ScanEnd, Oldest
<1>2. CASE SolverRaises \/ CleanRaises
  BY <1>2 DEF SolverRaises, CleanRaises, SolverDies
<1>3. CASE RunNoAction
  BY <1>3 DEF RunNoAction
<1>4. CASE RunRetransmit
  <2> /\ cur \in Key /\ cur[1] \in Request
    BY <1>4, KeyFacts DEF RunRetransmit
  <2> QED BY <1>4 DEF RunRetransmit, Transmit
<1>5. CASE RunGiveUp \/ CleanBegin
  BY <1>5 DEF RunGiveUp, CleanBegin
<1>6. CASE MarkFailed
  BY <1>6, KeyFacts DEF MarkFailed
<1>7. CASE CleanEnd
  BY <1>7 DEF CleanEnd
<1>8. CASE ClearFinished
  BY <1>8 DEF ClearFinished
<1> QED BY <1>1, <1>2, <1>3, <1>4, <1>5, <1>6, <1>7, <1>8 DEF Solver

(* A step of the filter keeps the types and its hold on a key              *)
(* (coap_transaction_pool.py:106-119).                                     *)
LEMMA FilterTypes ==
    ASSUME TypeOK, Holding, Filter
    PROVE  TypeOK' /\ Holding'
<1> USE DEF TypeOK, Holding, FilterStep, pool, sender, solver, filter, history
<1>1. CASE \E k \in Key : ReceiveAck(k)
  BY <1>1 DEF ReceiveAck
<1>2. ASSUME NEW g \in Rejected, ReceiveRst(g)
      PROVE  TypeOK' /\ Holding'
  <2> g \in Request /\ <<g, 1>> \in Key
    BY RequestAssumption, BoundAssumption, MakeKey
  <2> QED BY <1>2 DEF ReceiveRst
<1>3. CASE FindPending \/ DeletePending \/ FilterRaises
  BY <1>3 DEF FindPending, DeletePending, FilterRaises
<1>4. CASE RstFinishes
  BY <1>4, KeyFacts DEF RstFinishes
<1> QED BY <1>1, <1>2, <1>3, <1>4 DEF Filter, FilterInternal

(* A stuttering step changes nothing.                                      *)
LEMMA StutterTypes ==
    ASSUME TypeOK, Holding, UNCHANGED vars
    PROVE  TypeOK' /\ Holding'
BY DEF TypeOK, Holding, vars, pool, sender, solver, filter, history

(* Every step keeps the types.                                             *)
LEMMA NextTypes == TypeOK /\ Holding /\ [Next]_vars => TypeOK' /\ Holding'
BY SenderTypes, CliTypes, SolverTypes, FilterTypes, StutterTypes DEF Next

(* Every variable keeps its type, and the solver and the filter only ever  *)
(* work on keys (coap_transaction_pool.py:19-26, 84-104, 106-119).         *)
THEOREM TypeCorrect == Spec => [](TypeOK /\ Holding)
<1>1. Init => TypeOK /\ Holding
  BY InitTypes
<1>2. TypeOK /\ Holding /\ [Next]_vars => (TypeOK /\ Holding)'
  BY NextTypes
<1> QED BY <1>1, <1>2, PTL DEF Spec

-----------------------------------------------------------------------------
(* Causes *)

(* Marks come from ACKs, deletions from marks, cleaning from failures.     *)
LEMMA NextCauses == IInv /\ [Next]_vars => Causes'
<1> SUFFICES ASSUME IInv, [Next]_vars PROVE Causes'
  OBVIOUS
<1> USE DEF IInv, Causes
<1> USE DEF pool, sender, solver, filter, history
<1>1. ASSUME NEW g \in Request, Worker(g) PROVE Causes'
  <2>1. CASE ResolvePath(g) \/ Await(g) \/ CheckFailed(g) \/ WaitRoom(g) \/ WaitDrained(g) \/ FinishOverall(g)
    BY <2>1 DEF ResolvePath, Await, CheckFailed, WaitRoom, WaitDrained, FinishOverall
  <2>2. CASE Send(g) \/ Lookup(g) \/ InsertKey(g)
    BY <2>2 DEF Send, Lookup, InsertKey
  <2> QED BY <1>1, <2>1, <2>2 DEF Worker
<1>2. ASSUME NEW g \in Uploads, Cli(g) PROVE Causes'
  BY <1>2 DEF Cli, CliSend, CliLookup, CliInsert, CliReturn
<1>3. CASE Solver
  <2>1. CASE SolveBegin \/ ScanNext \/ ScanEnd \/ RunNoAction \/ RunRetransmit \/ RunGiveUp
    BY <2>1 DEF SolveBegin, ScanNext, ScanEnd, RunNoAction, RunRetransmit, RunGiveUp
  <2>2. CASE SolverRaises \/ CleanRaises
    BY <2>2 DEF SolverRaises, CleanRaises, SolverDies
  <2>3. CASE MarkFailed \/ CleanBegin \/ CleanEnd \/ ClearFinished
    BY <2>3 DEF MarkFailed, CleanBegin, CleanEnd, ClearFinished
  <2> QED BY <1>3, <2>1, <2>2, <2>3 DEF Solver
<1>4. CASE Filter
  BY <1>4 DEF Filter, FilterInternal, ReceiveAck, ReceiveRst, FindPending,
              DeletePending, FilterRaises, RstFinishes
<1>5. CASE UNCHANGED vars
  BY <1>5 DEF vars
<1> QED BY <1>1, <1>2, <1>3, <1>4, <1>5 DEF Next

-----------------------------------------------------------------------------
(* Sending: a step of a sender disturbs the keys of its own request only,  *)
(* one of the command line the key at position 0 only.                     *)

(* A sending loop sends each message once before it inserts it             *)
(* (coap_transaction_pool.py:64-74).                                       *)
LEMMA SenderSending ==
    ASSUME IInv, NEW g \in Request, Worker(g)
    PROVE  Sending'
<1> USE DEF IInv, TypeOK, Sending, Unsent, InFlight, GoTo, KeyOf
<1> USE DEF pool, sender, solver, filter, history
<1> USE KeyOfIsKey, KeyFacts
<1>1. CASE ResolvePath(g) \/ Await(g) \/ CheckFailed(g) \/ WaitRoom(g) \/ WaitDrained(g)
  BY <1>1 DEF ResolvePath, Await, CheckFailed, WaitRoom, WaitDrained
<1>2. CASE FinishOverall(g)
  BY <1>2 DEF FinishOverall
<1>3. CASE Send(g)
  <2>1. /\ KeyOf(g) \in Key /\ KeyOf(g)[1] = g /\ KeyOf(g)[2] = blk[g]
        /\ blk[g] # 0 /\ Unsent(KeyOf(g)) /\ sends[KeyOf(g)] = 0
    BY <1>3, BoundAssumption DEF Send
  <2>2. /\ sends' = [sends EXCEPT ![KeyOf(g)] = 1]
        /\ wpc' = [wpc EXCEPT ![g] = "lookup"]
        /\ UNCHANGED <<pool, blk, cpc, snap>>
    BY <1>3, <2>1 DEF Send, Transmit
  <2>3. ASSUME NEW k \in Key, k # KeyOf(g)
        PROVE  /\ sends'[k] = sends[k]
               /\ Unsent(k)' <=> Unsent(k)
               /\ InFlight(k)' => InFlight(k)
    <3>1. k[1] = g => k[2] # blk[g]
      BY <2>3
    <3> QED BY <2>1, <2>2, <2>3, <3>1
  <2>4. /\ sends'[KeyOf(g)] = 1
        /\ ~ Unsent(KeyOf(g))'
        /\ KeyOf(g) \notin pending \cup snap
    BY <2>1, <2>2
  <2> HIDE DEF Unsent, InFlight
  <2>5. ASSUME NEW k \in Key
        PROVE  (/\ Unsent(k) <=> sends[k] = 0
                /\ InFlight(k) => sends[k] = 1 /\ k \notin pending /\ k \notin snap
                /\ k \in pending \cup snap => sends[k] > 0
                /\ sends[k] <= 1 + counter[k]
                /\ sends[k] <= 1 + MaxRetransmit)'
    <3>1. CASE k = KeyOf(g)
      BY <2>2, <2>4, <3>1, BoundAssumption
    <3>2. CASE k # KeyOf(g)
      BY <2>2, <2>3, <3>2
    <3> QED BY <3>1, <3>2
  <2> QED BY <2>5
<1>4. CASE Lookup(g)
  <2>1. ASSUME NEW k \in Key
        PROVE  (Unsent(k)' <=> Unsent(k)) /\ (InFlight(k)' => InFlight(k))
    <3>1. CASE NeedsInsertion(KeyOf(g))
      BY <1>4, <3>1 DEF Lookup
    <3>2. CASE ~ NeedsInsertion(KeyOf(g)) /\ blk[g] < Messages[g]
      BY <1>4, <3>2 DEF Lookup, Advance
    <3>3. CASE ~ NeedsInsertion(KeyOf(g)) /\ ~ blk[g] < Messages[g]
      BY <1>4, <3>3 DEF Lookup, Advance
    <3> QED BY <3>1, <3>2, <3>3
  <2>2. UNCHANGED <<pool, snap, sends>>
    BY <1>4 DEF Lookup
  <2> HIDE DEF Unsent, InFlight
  <2> QED BY <2>1, <2>2
<1>5. CASE InsertKey(g)
  BY <1>5, BoundAssumption DEF InsertKey, Insert, Advance
<1> QED BY <1>1, <1>2, <1>3, <1>4, <1>5 DEF Worker

(* So does the command line with the request of an upload.                 *)
LEMMA CliSending ==
    ASSUME IInv, NEW g \in Uploads, Cli(g)
    PROVE  Sending'
<1> USE DEF IInv, TypeOK, Sending, Unsent, InFlight, CliGoTo
<1> USE DEF pool, sender, solver, filter, history
<1> USE KeyFacts, MakeKey
<1>1. CASE CliSend(g)
  BY <1>1, BoundAssumption DEF CliSend, Transmit
<1>2. CASE CliLookup(g) \/ CliReturn(g)
  BY <1>2 DEF CliLookup, CliReturn
<1>3. CASE CliInsert(g)
  BY <1>3, BoundAssumption DEF CliInsert, Insert
<1> QED BY <1>1, <1>2, <1>3 DEF Cli

(* The solver counts each datagram it sends (coap_transaction.py:86-101).  *)
LEMMA SolverSending ==
    ASSUME IInv, Solver
    PROVE  Sending'
<1> USE DEF IInv, TypeOK, Holding, Sending, Unsent, InFlight
<1> USE DEF pool, sender, solver, filter, history
<1>1. CASE SolveBegin \/ ScanNext \/ ScanEnd \/ RunNoAction
  BY <1>1 DEF SolveBegin, ScanNext, ScanEnd, RunNoAction
<1>2. CASE SolverRaises \/ CleanRaises
  BY <1>2 DEF SolverRaises, CleanRaises, SolverDies
<1>3. CASE RunRetransmit
  BY <1>3, BoundAssumption DEF RunRetransmit, Transmit, Usable, WithinLimit
<1>4. CASE RunGiveUp
  BY <1>4 DEF RunGiveUp
<1>5. CASE MarkFailed \/ CleanBegin \/ ClearFinished
  BY <1>5 DEF MarkFailed, CleanBegin, ClearFinished
<1>6. CASE CleanEnd
  BY <1>6 DEF CleanEnd
<1> QED BY <1>1, <1>2, <1>3, <1>4, <1>5, <1>6 DEF Solver

(* Every step keeps the count of datagrams.                                *)
LEMMA NextSending == IInv /\ [Next]_vars => Sending'
<1> SUFFICES ASSUME IInv, [Next]_vars PROVE Sending'
  OBVIOUS
<1>1. CASE Filter
  BY <1>1 DEF Filter, FilterInternal, ReceiveAck, ReceiveRst, FindPending,
              DeletePending, FilterRaises, RstFinishes, IInv, Sending, Unsent,
              InFlight, pool, sender, solver, filter, history
<1>2. CASE UNCHANGED vars
  BY <1>2 DEF vars, IInv, Sending, Unsent, InFlight, pool, sender, solver,
              filter, history
<1> QED BY <1>1, <1>2, SenderSending, CliSending, SolverSending DEF Next

-----------------------------------------------------------------------------
(* Tracked *)

(* A sending loop leaves a message only in the dictionary or acknowledged  *)
(* (coap_transaction_pool.py:73-74).                                       *)
LEMMA SenderTracked ==
    ASSUME IInv, NEW g \in Request, Worker(g)
    PROVE  Tracked'
<1> USE DEF IInv, TypeOK, Causes, Tracked, Added, GoTo, KeyOf
<1> USE DEF pool, sender, solver, filter, history
<1> USE KeyFacts
<1>1. CASE ResolvePath(g) \/ Await(g) \/ CheckFailed(g) \/ WaitRoom(g) \/ WaitDrained(g) \/ Send(g)
  BY <1>1 DEF ResolvePath, Await, CheckFailed, WaitRoom, WaitDrained, Send
<1>2. CASE FinishOverall(g)
  BY <1>2 DEF FinishOverall
<1>3. CASE Lookup(g)
  BY <1>3, BoundAssumption DEF Lookup, Advance, NeedsInsertion
<1>4. CASE InsertKey(g)
  BY <1>4, BoundAssumption DEF InsertKey, Insert, Advance
<1> QED BY <1>1, <1>2, <1>3, <1>4 DEF Worker

(* So does the command line.                                               *)
LEMMA CliTracked ==
    ASSUME IInv, NEW g \in Uploads, Cli(g)
    PROVE  Tracked'
<1> USE DEF IInv, TypeOK, Causes, Tracked, Added, CliGoTo
<1> USE DEF pool, sender, solver, filter, history
<1> USE KeyFacts
<1>1. CASE CliSend(g) \/ CliReturn(g)
  BY <1>1 DEF CliSend, CliReturn
<1>2. CASE CliLookup(g)
  BY <1>2 DEF CliLookup, NeedsInsertion
<1>3. CASE CliInsert(g)
  BY <1>3 DEF CliInsert, Insert
<1> QED BY <1>1, <1>2, <1>3 DEF Cli

(* No step, of the filter or the solver either, forgets a message.         *)
LEMMA NextTracked == IInv /\ [Next]_vars => Tracked'
<1> SUFFICES ASSUME IInv, [Next]_vars PROVE Tracked'
  OBVIOUS
<1> USE DEF pool, sender, solver, filter, history
<1>1. CASE Solver
  <2> USE DEF IInv, Causes, Tracked, Added
  <2>1. CASE SolveBegin \/ ScanNext \/ ScanEnd \/ RunNoAction \/ RunRetransmit \/ RunGiveUp
    BY <2>1 DEF SolveBegin, ScanNext, ScanEnd, RunNoAction, RunRetransmit, RunGiveUp
  <2>2. CASE SolverRaises \/ CleanRaises
    BY <2>2 DEF SolverRaises, CleanRaises
  <2>3. CASE MarkFailed \/ CleanBegin \/ ClearFinished
    BY <2>3 DEF MarkFailed, CleanBegin, ClearFinished
  <2>4. CASE CleanEnd
    BY <2>4 DEF CleanEnd, OfOther
  <2> QED BY <1>1, <2>1, <2>2, <2>3, <2>4 DEF Solver
<1>2. CASE Filter
  BY <1>2 DEF Filter, FilterInternal, ReceiveAck, ReceiveRst, FindPending,
              DeletePending, FilterRaises, RstFinishes, IInv, Causes, Tracked, Added
<1>3. CASE UNCHANGED vars
  BY <1>3 DEF vars, IInv, Tracked, Added
<1> QED BY <1>1, <1>2, <1>3, SenderTracked, CliTracked DEF Next

-----------------------------------------------------------------------------
(* PastDrain and AtEnd *)

(* A sender passes the wait for an empty dictionary only when its earlier  *)
(* messages were delivered (coap_transaction_pool.py:46-49).               *)
LEMMA SenderPastDrain ==
    ASSUME IInv, NEW g \in Request, Worker(g)
    PROVE  PastDrain' /\ AtEnd'
<1> USE DEF IInv, TypeOK, PastDrain, AtEnd, Delivered, GoTo
<1> USE DEF pool, sender, solver, filter, history
<1>1. CASE ResolvePath(g) \/ Await(g) \/ CheckFailed(g)
  BY <1>1 DEF ResolvePath, Await, CheckFailed
<1>2. CASE WaitRoom(g)
  BY <1>2 DEF WaitRoom, LastPacket
<1>3. CASE WaitDrained(g)
  <2>1. Delivered(g)
    BY <1>3, MakeKey, BoundAssumption DEF WaitDrained, Tracked, Added
  <2> QED BY <1>3, <2>1 DEF WaitDrained
<1>4. CASE Send(g) \/ FinishOverall(g)
  BY <1>4 DEF Send, FinishOverall
<1>5. CASE Lookup(g)
  BY <1>5, BoundAssumption DEF Lookup, Advance
<1>6. CASE InsertKey(g)
  BY <1>6, BoundAssumption DEF InsertKey, Advance
<1> QED BY <1>1, <1>2, <1>3, <1>4, <1>5, <1>6 DEF Worker

(* Every step keeps what the wait established.                             *)
LEMMA NextPastDrain == IInv /\ [Next]_vars => PastDrain' /\ AtEnd'
<1> SUFFICES ASSUME IInv, [Next]_vars PROVE PastDrain' /\ AtEnd'
  OBVIOUS
<1> USE DEF pool, sender, solver, filter, history
<1>1. ASSUME UNCHANGED sender, acked \subseteq acked', failed \subseteq failed'
      PROVE  PastDrain' /\ AtEnd'
  BY <1>1 DEF IInv, PastDrain, AtEnd, Delivered
<1>2. ASSUME NEW g \in Uploads, Cli(g)
      PROVE  UNCHANGED sender /\ acked \subseteq acked' /\ failed \subseteq failed'
  BY <1>2 DEF Cli, CliSend, CliLookup, CliInsert, CliReturn
<1>3. CASE Solver
  <2>1. UNCHANGED sender /\ acked \subseteq acked' /\ failed \subseteq failed'
    BY <1>3 DEF Solver, SolveBegin, ScanNext, ScanEnd, SolverRaises, RunNoAction,
                RunRetransmit, RunGiveUp, MarkFailed, CleanBegin, CleanEnd,
                CleanRaises, ClearFinished
  <2> QED BY <1>1, <2>1
<1>4. CASE Filter
  <2>1. UNCHANGED sender /\ acked \subseteq acked' /\ failed \subseteq failed'
    BY <1>4 DEF Filter, FilterInternal, ReceiveAck, ReceiveRst, FindPending,
                DeletePending, FilterRaises, RstFinishes
  <2> QED BY <1>1, <2>1
<1>5. CASE UNCHANGED vars
  BY <1>1, <1>5 DEF vars
<1> QED BY <1>1, <1>2, <1>3, <1>4, <1>5, SenderPastDrain DEF Next

-----------------------------------------------------------------------------
(* The invariant holds at the start.                                       *)
LEMMA InitIInv == Init => IInv
<1> SUFFICES ASSUME Init PROVE IInv
  OBVIOUS
<1>1. TypeOK /\ Holding
  BY InitTypes
<1>2. Causes
  BY DEF Init, Causes
<1>3. Sending /\ Tracked
  BY KeyFacts, BoundAssumption DEF Init, Sending, Unsent, InFlight, Tracked, Added
<1>4. PastDrain /\ AtEnd
  BY DEF Init, PastDrain, AtEnd
<1> QED BY <1>1, <1>2, <1>3, <1>4 DEF IInv

(* The inductive invariant: types, the cause of every mark, how far each   *)
(* message got, that none is forgotten, and what the wait of the last      *)
(* message established.                                                    *)
THEOREM Inductive == Spec => []IInv
<1>1. IInv /\ [Next]_vars => IInv'
  BY NextTypes, NextCauses, NextSending, NextTracked, NextPastDrain DEF IInv
<1> QED BY InitIInv, <1>1, PTL DEF Spec

-----------------------------------------------------------------------------
(* What follows for the user of the pool *)

(* No message is forgotten between the sender that inserts it, the filter  *)
(* that deletes it and the solver that builds the dictionary anew          *)
(* (coap_transaction_pool.py:73-74, 115-119, 186-189).                     *)
THEOREM NothingForgotten == Spec => []Tracked
<1>1. IInv => Tracked
  BY DEF IInv
<1> QED BY <1>1, Inductive, PTL

(* The last message of a file leaves after all the others were             *)
(* acknowledged, or for a failed request (coap_transaction_pool.py:46-49). *)
THEOREM Barrier == Spec => []LastBlockBarrier
<1>1. ASSUME IInv, NEW g \in Request \ Paths, sends[<<g, Messages[g]>>] > 0
      PROVE  Delivered(g)
  <2> DEFINE k == <<g, Messages[g]>>
  <2>1. Messages[g] \in Nat \ {0} /\ k \in Key /\ blk[g] \in 1 .. Messages[g]
    BY <1>1, MakeKey, BoundAssumption DEF IInv, TypeOK
  <2>2. ~ Unsent(k)
    BY <1>1, <2>1 DEF IInv, TypeOK, Sending
  <2>3. blk[g] = Messages[g] /\ wpc[g] \in {"lookup", "insert", "finish", "done"}
    BY <1>1, <2>1, <2>2 DEF IInv, TypeOK, WorkerStep, Unsent
  <2> QED BY <1>1, <2>3 DEF IInv, PastDrain
<1>2. IInv => LastBlockBarrier
  BY <1>1 DEF LastBlockBarrier, Delivered
<1> QED BY <1>2, Inductive, PTL

(* A message is sent at most 1 + MAX_RETRANSMIT times                      *)
(* (coap_transaction.py:91-102 under the races of the pool).               *)
THEOREM BoundedSending == Spec => []RetransmitBound
<1>1. IInv => RetransmitBound
  BY DEF IInv, Sending, RetransmitBound
<1> QED BY <1>1, Inductive, PTL

-----------------------------------------------------------------------------
(* After a failure.  A request that failed was sent before, so the command *)
(* line is past its own send; what is left is one step of the sender and   *)
(* one of the solver, each past the test that would have stopped it.       *)
SenderMaySend(g) == wpc[g] \in {"room", "drain", "send"}
SolverMaySend(g) == spc = "run" /\ cur[1] = g

StillToCome(g) == (IF SenderMaySend(g) THEN 1 ELSE 0)
                  + (IF SolverMaySend(g) THEN 1 ELSE 0)

LateInv == \A g \in Request :
    /\ late[g] + StillToCome(g) <= 2
    /\ g \notin failed => late[g] = 0

(* An upload begins with its request. *)
UploadOrder == \A g \in Uploads :
    /\ IF wpc[g] \in {"path", "await", "absent"} THEN blk[g] = 1 ELSE <<g, 0>> \in acked
    /\ <<g, 0>> \in acked => cpc[g] # "ready"
    /\ g \in failed => cpc[g] # "ready"

(* wait_util_finish returns for a request that failed or was sent. *)
OverallInv ==
    /\ \A g \in overall : g \in failed \/ (wpc[g] = "done" /\ g \notin Paths)
    /\ fpc = "overall" => fkey[1] \in failed
    /\ \A g \in Uploads : cpc[g] = "out" => g \in overall

JInv == IInv /\ LateInv /\ UploadOrder /\ OverallInv

(* The larger invariant holds at the start.                                *)
LEMMA InitJInv == Init => JInv
<1> SUFFICES ASSUME Init PROVE JInv
  OBVIOUS
<1>1. LateInv
  BY DEF Init, LateInv, StillToCome, SenderMaySend, SolverMaySend
<1>2. UploadOrder /\ OverallInv
  BY RequestAssumption DEF Init, UploadOrder, OverallInv
<1> QED BY <1>1, <1>2, InitIInv DEF JInv

(* A request of which a message was sent is past the command line's send. *)
LEMMA SentPastCli ==
    ASSUME JInv, NEW g \in Uploads, NEW k \in Key, k[1] = g, sends[k] > 0
    PROVE  cpc[g] # "ready"
<1> SUFFICES ASSUME cpc[g] = "ready" PROVE FALSE
  OBVIOUS
<1>1. g \in Request /\ wpc[g] \in {"path", "await", "absent"} /\ blk[g] = 1
  BY RequestAssumption DEF JInv, UploadOrder
<1>2. Unsent(k)
  BY <1>1, KeyFacts DEF Unsent
<1> QED BY <1>2 DEF JInv, IInv, Sending

(* A worker starts an upload after its request was acknowledged            *)
(* (client_resource.py:92-94).                                             *)
LEMMA NextUploadOrder == JInv /\ [Next]_vars => UploadOrder'
<1> SUFFICES ASSUME JInv, [Next]_vars PROVE UploadOrder'
  OBVIOUS
<1> USE DEF JInv, IInv, TypeOK, UploadOrder
<1> USE DEF pool, sender, solver, filter, history
<1>1. ASSUME NEW g \in Request, Worker(g) PROVE UploadOrder'
  <2> USE RequestAssumption DEF GoTo
  <2>1. CASE ResolvePath(g) \/ Await(g)
    BY <2>1 DEF ResolvePath, Await, Causes
  <2>2. CASE CheckFailed(g) \/ WaitRoom(g) \/ WaitDrained(g)
    BY <2>2 DEF CheckFailed, WaitRoom, WaitDrained
  <2>3. CASE Send(g) \/ FinishOverall(g)
    BY <2>3 DEF Send, FinishOverall
  <2>4. CASE Lookup(g) \/ InsertKey(g)
    BY <2>4 DEF Lookup, InsertKey, Advance
  <2> QED BY <1>1, <2>1, <2>2, <2>3, <2>4 DEF Worker
<1>2. ASSUME NEW g \in Uploads, Cli(g) PROVE UploadOrder'
  BY <1>2 DEF Cli, CliSend, CliLookup, CliInsert, CliReturn, CliGoTo
<1>3. CASE Solver
  <2>1. CASE MarkFailed
    <3>1. cur \in Key /\ sends[cur] > 0
      BY <2>1 DEF MarkFailed, Holding, Usable, Sending
    <3> QED BY <2>1, <3>1, SentPastCli DEF MarkFailed
  <2>2. UNCHANGED <<sender, cpc, acked>> /\ (failed' = failed \/ MarkFailed)
    BY <1>3 DEF Solver, SolveBegin, ScanNext, ScanEnd, SolverRaises, RunNoAction,
                RunRetransmit, RunGiveUp, MarkFailed, CleanBegin, CleanEnd,
                CleanRaises, ClearFinished
  <2> QED BY <2>1, <2>2
<1>4. CASE Filter
  <2>1. ASSUME NEW k \in Key, ReceiveAck(k) PROVE UploadOrder'
    BY <2>1, SentPastCli DEF ReceiveAck
  <2>2. ASSUME NEW g \in Rejected, ReceiveRst(g) PROVE UploadOrder'
    BY <2>2, SentPastCli DEF ReceiveRst
  <2>3. CASE FilterInternal
    BY <2>3 DEF FilterInternal, FindPending, DeletePending, FilterRaises, RstFinishes
  <2> QED BY <1>4, <2>1, <2>2, <2>3 DEF Filter
<1>5. CASE UNCHANGED vars
  BY <1>5 DEF vars
<1> QED BY <1>1, <1>2, <1>3, <1>4, <1>5 DEF Next

(* A request is marked finished by its sender at the end, or by an RST     *)
(* that marked it failed (coap_worker_pool.py:179-182).                    *)
LEMMA NextOverallInv == JInv /\ [Next]_vars => OverallInv'
<1> SUFFICES ASSUME JInv, [Next]_vars PROVE OverallInv'
  OBVIOUS
<1> USE DEF JInv, IInv, TypeOK, OverallInv
<1> USE DEF pool, sender, solver, filter, history
<1>1. ASSUME NEW g \in Request, Worker(g) PROVE OverallInv'
  <2>1. CASE ResolvePath(g) \/ Await(g) \/ CheckFailed(g) \/ WaitRoom(g) \/ WaitDrained(g) \/ Send(g)
    BY <2>1 DEF ResolvePath, Await, CheckFailed, WaitRoom, WaitDrained, Send, GoTo
  <2>2. CASE Lookup(g) \/ InsertKey(g)
    BY <2>2 DEF Lookup, InsertKey, Advance, GoTo
  <2>3. CASE FinishOverall(g)
    BY <2>3 DEF FinishOverall, GoTo, AtEnd
  <2> QED BY <1>1, <2>1, <2>2, <2>3 DEF Worker
<1>2. ASSUME NEW g \in Uploads, Cli(g) PROVE OverallInv'
  BY <1>2 DEF Cli, CliSend, CliLookup, CliInsert, CliReturn, CliGoTo
<1>3. CASE Solver
  <2>1. UNCHANGED <<sender, cpc, overall, filter>> /\ failed \subseteq failed'
    BY <1>3 DEF Solver, SolveBegin, ScanNext, ScanEnd, SolverRaises, RunNoAction,
                RunRetransmit, RunGiveUp, MarkFailed, CleanBegin, CleanEnd,
                CleanRaises, ClearFinished
  <2> QED BY <2>1
<1>4. CASE Filter
  BY <1>4, RequestAssumption DEF Filter, FilterInternal, ReceiveAck, ReceiveRst,
              FindPending, DeletePending, FilterRaises, RstFinishes
<1>5. CASE UNCHANGED vars
  BY <1>5 DEF vars
<1> QED BY <1>1, <1>2, <1>3, <1>4, <1>5 DEF Next

(* After a failure the sender and the solver have one datagram each left.  *)
LEMMA NextLateInv == JInv /\ [Next]_vars => LateInv'
<1> SUFFICES ASSUME JInv, [Next]_vars PROVE LateInv'
  OBVIOUS
<1> USE DEF JInv, IInv, TypeOK, LateInv, StillToCome, SenderMaySend, SolverMaySend
<1> USE DEF pool, sender, solver, filter, history
<1>1. ASSUME NEW g \in Request, Worker(g) PROVE LateInv'
  <2> USE DEF GoTo
  <2>1. CASE ResolvePath(g) \/ Await(g) \/ WaitRoom(g) \/ WaitDrained(g) \/ FinishOverall(g)
    BY <2>1 DEF ResolvePath, Await, WaitRoom, WaitDrained, FinishOverall
  <2>2. CASE CheckFailed(g)
    BY <2>2 DEF CheckFailed
  <2>3. CASE Send(g)
    BY <2>3, KeyOfIsKey DEF Send, Transmit
  <2>4. CASE Lookup(g) \/ InsertKey(g)
    BY <2>4 DEF Lookup, InsertKey, Advance
  <2> QED BY <1>1, <2>1, <2>2, <2>3, <2>4 DEF Worker
<1>2. ASSUME NEW g \in Uploads, Cli(g) PROVE LateInv'
  <2>1. CASE CliSend(g)
    BY <2>1, RequestAssumption DEF CliSend, Transmit, UploadOrder
  <2>2. CASE CliLookup(g) \/ CliInsert(g) \/ CliReturn(g)
    BY <2>2 DEF CliLookup, CliInsert, CliReturn
  <2> QED BY <1>2, <2>1, <2>2 DEF Cli
<1>3. CASE Solver
  <2>1. CASE SolveBegin \/ ScanEnd \/ RunNoAction \/ RunGiveUp
    BY <2>1 DEF SolveBegin, ScanEnd, RunNoAction, RunGiveUp
  <2>2. CASE ScanNext
    BY <2>2 DEF ScanNext, Runnable
  <2>3. CASE RunRetransmit
    BY <2>3, KeyFacts DEF RunRetransmit, Transmit, Holding
  <2>4. CASE SolverRaises \/ CleanRaises
    BY <2>4 DEF SolverRaises, CleanRaises, SolverDies
  <2>5. CASE MarkFailed \/ CleanBegin \/ CleanEnd \/ ClearFinished
    BY <2>5 DEF MarkFailed, CleanBegin, CleanEnd, ClearFinished
  <2> QED BY <1>3, <2>1, <2>2, <2>3, <2>4, <2>5 DEF Solver
<1>4. CASE Filter
  BY <1>4 DEF Filter, FilterInternal, ReceiveAck, ReceiveRst, FindPending,
              DeletePending, FilterRaises, RstFinishes
<1>5. CASE UNCHANGED vars
  BY <1>5 DEF vars
<1> QED BY <1>1, <1>2, <1>3, <1>4, <1>5 DEF Next

(* The larger invariant holds always.                                      *)
LEMMA InductiveJ == Spec => []JInv
<1>1. IInv /\ [Next]_vars => IInv'
  BY NextTypes, NextCauses, NextSending, NextTracked, NextPastDrain DEF IInv
<1>2. JInv /\ [Next]_vars => JInv'
  BY <1>1, NextUploadOrder, NextOverallInv, NextLateInv DEF JInv
<1> QED BY InitJInv, <1>2, PTL DEF Spec

(* After a request is marked failed at most two of its datagrams still go  *)
(* out (the tests of coap_transaction_pool.py:39 and 88, and what each     *)
(* thread may still do after passing its own).                             *)
THEOREM FailureStopsSending == Spec => []StopsAfterFailure
<1>1. JInv => StopsAfterFailure
  BY DEF JInv, IInv, TypeOK, LateInv, StillToCome, StopsAfterFailure
<1> QED BY <1>1, InductiveJ, PTL

(* wait_util_finish lets an upload's caller go on only for a request that  *)
(* failed, or whose file was delivered but for its last message            *)
(* (coap_transaction_pool.py:144-152 with drive_spliter.py:79-100).        *)
THEOREM UploadReturn == Spec => []ReturnAfterUpload
<1>1. ASSUME JInv, NEW g \in Uploads, cpc[g] = "out", g \notin failed
      PROVE  /\ \A i \in 0 .. (Messages[g] - 1) : <<g, i>> \in acked
             /\ sends[<<g, Messages[g]>>] > 0
  <2>1. g \in Request /\ Messages[g] \in Nat \ {0}
    BY RequestAssumption, BoundAssumption
  <2>2. wpc[g] = "done" /\ blk[g] = Messages[g] /\ g \notin Paths
    BY <1>1, <2>1 DEF JInv, OverallInv, IInv, AtEnd
  <2>3. <<g, 0>> \in acked
    BY <1>1, <2>2 DEF JInv, UploadOrder
  <2>4. Delivered(g)
    BY <1>1, <2>1, <2>2 DEF JInv, IInv, PastDrain
  <2> DEFINE k == <<g, Messages[g]>>
  <2>5. k \in Key
    BY <2>1, MakeKey
  <2>6. ~ Unsent(k) /\ sends[k] \in Nat
    BY <1>1, <2>1, <2>2, <2>5 DEF Unsent, JInv, IInv, TypeOK
  <2>7. sends[k] > 0
    BY <1>1, <2>5, <2>6 DEF JInv, IInv, Sending
  <2> QED BY <1>1, <2>1, <2>3, <2>4, <2>7 DEF Delivered
<1>2. JInv => ReturnAfterUpload
  BY <1>1 DEF ReturnAfterUpload
<1> QED BY <1>2, InductiveJ, PTL

=============================================================================
