--------------------------- MODULE TransactionPool ---------------------------
(***************************************************************************)
(* The pool of outstanding confirmable messages of one process             *)
(* (coap_transaction_pool.py), with the threads that share it without a    *)
(* lock:                                                                   *)
(*                                                                         *)
(*   - one sender per request, a worker thread inside drive_spliter.py;    *)
(*   - the command line thread, which registers the request of an upload   *)
(*     and waits for its end (client.py, coap_worker_pool.py:218-233);     *)
(*   - the solver thread, which retransmits and gives up;                  *)
(*   - the filter thread, which applies the ACK and RST datagrams.         *)
(*                                                                         *)
(* One action is one statement of the source, or the statements up to the  *)
(* next access to shared state or the next call that blocks: a switch      *)
(* between threads can happen between any two actions.  The peer is        *)
(* abstracted by what it may send: an ACK for any message that was sent,   *)
(* any number of times, at any later moment or never, and an RST for the   *)
(* requests it rejects.                                                    *)
(***************************************************************************)
EXTENDS Naturals, FiniteSets

CONSTANTS
    Request,        \* general work ids: (address, token)
    Paths,          \* requests answered by split_on_paths_and_send
    Uploads,        \* requests this process issued and whose file it sends
    Rejected,       \* requests the peer may answer with an RST
    Messages,       \* number of messages of each request
    MaxPending,     \* COAP_CONCURRENT_TRANSACTIONS
    MaxRetransmit   \* MAX_RETRANSMIT

ASSUME RequestAssumption == /\ Paths \subseteq Request
                            /\ Uploads \subseteq Request \ Paths
                            /\ Rejected \subseteq Request
                            /\ IsFiniteSet(Request)
ASSUME BoundAssumption == /\ Messages \in [Request -> Nat \ {0}]
                          /\ MaxPending \in Nat \ {0}
                          /\ MaxRetransmit \in Nat

(* A work id, abstracted to the request and the message's position in it.  *)
(* Position 0 is the request itself, registered by the command line.       *)
Key == (UNION {{g} \X (1 .. Messages[g]) : g \in Request})
          \cup (Uploads \X {0})
NoKey == <<>>

VARIABLES
    (* ---- the pool's dictionaries ---- *)
    failed,     \* __failed_transactions
    overall,    \* __overall_finished_transactions
    finished,   \* __finished_transactions
    pending,    \* the keys of __transaction_dict
    stale,      \* those whose value is a time stamp, not a CoapTransaction
    counter,    \* retransmission_counter of each CoapTransaction
    (* ---- the senders ---- *)
    wpc, blk,   \* next step, and position of the message being sent
    (* ---- the command line ---- *)
    cpc,
    (* ---- the solver ---- *)
    spc, todo, cur, snap,   \* next step, rest of keys_copy, key, dict iterated
    (* ---- the filter ---- *)
    fpc, fkey,
    (* ---- history: read by the properties and the peer only ---- *)
    sends,      \* datagrams carrying each message
    acked,      \* keys finish_transaction was called with
    late        \* datagrams of a request sent after it was marked failed

pool == <<failed, overall, finished, pending, stale, counter>>
sender == <<wpc, blk>>
solver == <<spc, todo, cur, snap>>
filter == <<fpc, fkey>>
history == <<sends, acked, late>>
vars == <<pool, sender, cpc, solver, filter, history>>

WorkerStep == {"path", "await", "absent", "check", "room", "drain", "send",
               "lookup", "insert", "finish", "done", "aborted"}
CliStep == {"ready", "lookup", "insert", "wait", "out"}
SolverStep == {"idle", "scan", "run", "mark", "clean", "rebuild", "clear", "dead"}
FilterStep == {"idle", "member", "delete", "overall", "dead"}

(* The key a sender is working on. *)
KeyOf_CountedFromZero(g) == <<g, blk[g] - 1>>
KeyOf(g) == <<g, blk[g]>>

Init ==
    /\ failed = {} /\ overall = {} /\ finished = {}
    /\ pending = {} /\ stale = {}
    /\ counter = [k \in Key |-> 0]
    /\ wpc = [g \in Request |-> IF g \in Uploads THEN "path" ELSE "check"]
    /\ blk = [g \in Request |-> 1]
    /\ cpc = [g \in Uploads |-> "ready"]
    /\ spc = "idle" /\ todo = {} /\ cur = NoKey /\ snap = {}
    /\ fpc = "idle" /\ fkey = NoKey
    /\ sends = [k \in Key |-> 0]
    /\ acked = {}
    /\ late = [g \in Request |-> 0]

-----------------------------------------------------------------------------
(* add_transaction, shared by the senders and the command line *)

(* packet.send(), and the same datagram sent again by run_transaction *)
Transmit(k) ==
    /\ sends' = [sends EXCEPT ![k] = @ + 1]
    /\ late' = [late EXCEPT ![k[1]] = IF k[1] \in failed THEN @ + 1 ELSE @]

(* "if key not in finished": an ACK may have come before the insertion. *)
NeedsInsertion_ByRequest(k) == \A j \in finished : j[1] # k[1]
NeedsInsertion(k) == k \notin finished

(* transaction_dict[key] = CoapTransaction(...) *)
Insert(k) ==
    /\ pending' = pending \cup {k}
    /\ stale' = stale \ {k}
    /\ counter' = [counter EXCEPT ![k] = 0]

-----------------------------------------------------------------------------
(* Senders: split_on_bytes_and_send and split_on_paths_and_send *)

GoTo(g, step) == wpc' = [wpc EXCEPT ![g] = step]

(* The last-packet flag the loop passes to handle_congestions; the loop    *)
(* over paths compares index - 1 with the length, which is never equal.    *)
LastPacket_ComparedPastTheEnd(g) == g \notin Paths /\ blk[g] - 1 = Messages[g]
LastPacket(g) == g \notin Paths /\ blk[g] = Messages[g]

(* The upload's worker looks for the file the user named.  If there is     *)
(* none it returns, while the request goes to the peer all the same.       *)
ResolvePath(g) ==
    /\ wpc[g] = "path"
    /\ \E exists \in BOOLEAN : GoTo(g, IF exists THEN "await" ELSE "absent")
    /\ UNCHANGED <<pool, blk, cpc, solver, filter, history>>

(* The upload's worker spins until the request itself is acknowledged. *)
Await(g) ==
    /\ wpc[g] = "await"
    /\ <<g, 0>> \in finished
    /\ GoTo(g, "check")
    /\ UNCHANGED <<pool, blk, cpc, solver, filter, history>>

CheckFailed(g) ==
    /\ wpc[g] = "check"
    /\ GoTo(g, IF g \in failed THEN "aborted" ELSE "room")
    /\ UNCHANGED <<pool, blk, cpc, solver, filter, history>>

HasRoom_OffByOne == Cardinality(pending) <= MaxPending
HasRoom == Cardinality(pending) < MaxPending

(* Spins while the dictionary is full. *)
WaitRoom(g) ==
    /\ wpc[g] = "room"
    /\ HasRoom
    /\ GoTo(g, IF LastPacket(g) THEN "drain" ELSE "send")
    /\ UNCHANGED <<pool, blk, cpc, solver, filter, history>>

(* Spins while the dictionary holds anything, of any request. *)
WaitDrained(g) ==
    /\ wpc[g] = "drain"
    /\ pending = {}
    /\ GoTo(g, "send")
    /\ UNCHANGED <<pool, blk, cpc, solver, filter, history>>

Send(g) ==
    /\ wpc[g] = "send"
    /\ Transmit(KeyOf(g))
    /\ GoTo(g, "lookup")
    /\ UNCHANGED <<pool, blk, cpc, solver, filter, acked>>

(* The loop moves to the next message, or leaves it. *)
Advance_SkipsFinish(g) ==
    IF blk[g] < Messages[g]
      THEN GoTo(g, "check") /\ blk' = [blk EXCEPT ![g] = @ + 1]
      ELSE GoTo(g, "done") /\ blk' = blk
Advance(g) ==
    IF blk[g] < Messages[g]
      THEN GoTo(g, "check") /\ blk' = [blk EXCEPT ![g] = @ + 1]
      ELSE GoTo(g, IF g \in Paths THEN "done" ELSE "finish") /\ blk' = blk

Lookup(g) ==
    /\ wpc[g] = "lookup"
    /\ IF NeedsInsertion(KeyOf(g))
         THEN GoTo(g, "insert") /\ blk' = blk
         ELSE Advance(g)
    /\ UNCHANGED <<pool, cpc, solver, filter, history>>

InsertKey(g) ==
    /\ wpc[g] = "insert"
    /\ Insert(KeyOf(g))
    /\ Advance(g)
    /\ UNCHANGED <<failed, overall, finished, cpc, solver, filter, history>>

(* finish_overall_transaction, right after the last message was sent *)
FinishOverall(g) ==
    /\ wpc[g] = "finish"
    /\ overall' = overall \cup {g}
    /\ GoTo(g, "done")
    /\ UNCHANGED <<failed, finished, pending, stale, counter, blk, cpc, solver,
                   filter, history>>

Worker(g) == \/ ResolvePath(g) \/ Await(g)
             \/ CheckFailed(g) \/ WaitRoom(g) \/ WaitDrained(g)
             \/ Send(g) \/ Lookup(g) \/ InsertKey(g) \/ FinishOverall(g)

-----------------------------------------------------------------------------
(* Command line: _handle_internal_task, then wait_util_finish.  One thread *)
(* issues the uploads one after the other, and no congestion check is made.*)

CliGoTo(g, step) == cpc' = [cpc EXCEPT ![g] = step]

CliSend(g) ==
    /\ cpc[g] = "ready"
    /\ \A h \in Uploads : cpc[h] \in {"ready", "out"}
    /\ Transmit(<<g, 0>>)
    /\ CliGoTo(g, "lookup")
    /\ UNCHANGED <<pool, sender, solver, filter, acked>>

CliLookup(g) ==
    /\ cpc[g] = "lookup"
    /\ CliGoTo(g, IF NeedsInsertion(<<g, 0>>) THEN "insert" ELSE "wait")
    /\ UNCHANGED <<pool, sender, solver, filter, history>>

CliInsert(g) ==
    /\ cpc[g] = "insert"
    /\ Insert(<<g, 0>>)
    /\ CliGoTo(g, "wait")
    /\ UNCHANGED <<failed, overall, finished, sender, solver, filter, history>>

CliReturn(g) ==
    /\ cpc[g] = "wait"
    /\ g \in overall
    /\ CliGoTo(g, "out")
    /\ UNCHANGED <<pool, sender, solver, filter, history>>

Cli(g) == CliSend(g) \/ CliLookup(g) \/ CliInsert(g) \/ CliReturn(g)

-----------------------------------------------------------------------------
(* Solver: solve_transactions, called once a second.  An exception leaves  *)
(* the loop of __handle_transactions, so the thread ends ("dead").         *)

(* Nothing is done, not even the clearing, when the dictionary is empty. *)
SolveBegin ==
    /\ spc = "idle"
    /\ pending # {}
    /\ todo' = pending
    /\ spc' = "scan"
    /\ UNCHANGED <<pool, sender, cpc, cur, snap, filter, history>>

(* keys_copy is in insertion order: by position within a request. *)
Oldest(S) == {k \in S : \A j \in S : j[1] = k[1] => k[2] <= j[2]}

(* "not failed and not finished" *)
Runnable_UnlessFinished(k) == k \notin finished
Runnable(k) == k[1] \notin failed /\ k \notin finished

ScanNext ==
    /\ spc = "scan"
    /\ \E k \in Oldest(todo) :
         /\ todo' = todo \ {k}
         /\ IF Runnable(k) THEN spc' = "run" /\ cur' = k
                           ELSE spc' = "scan" /\ cur' = cur
    /\ UNCHANGED <<pool, sender, cpc, snap, filter, history>>

ScanEnd ==
    /\ spc = "scan"
    /\ todo = {}
    /\ spc' = "clear"
    /\ UNCHANGED <<pool, sender, cpc, todo, cur, snap, filter, history>>

(* transaction_dict[key] is a CoapTransaction. *)
Usable(k) == k \in pending /\ k \notin stale

SolverDies == spc' = "dead" /\ todo' = {} /\ cur' = NoKey /\ snap' = {}

(* KeyError or AttributeError at one of the lookups of the loop's body *)
SolverRaises ==
    /\ spc \in {"run", "mark", "clean"}
    /\ ~ Usable(cur)
    /\ SolverDies
    /\ UNCHANGED <<pool, sender, cpc, filter, history>>

(* run_transaction: the timeout has not elapsed *)
RunNoAction ==
    /\ spc = "run"
    /\ Usable(cur)
    /\ spc' = "scan"
    /\ cur' = NoKey
    /\ UNCHANGED <<pool, sender, cpc, todo, snap, filter, history>>

WithinLimit_OffByOne(k) == counter[k] <= MaxRetransmit
WithinLimit(k) == counter[k] + 1 <= MaxRetransmit

(* run_transaction: the timeout has elapsed, the message is sent again *)
RunRetransmit ==
    /\ spc = "run"
    /\ Usable(cur)
    /\ WithinLimit(cur)
    /\ counter' = [counter EXCEPT ![cur] = @ + 1]
    /\ Transmit(cur)
    /\ spc' = "scan"
    /\ cur' = NoKey
    /\ UNCHANGED <<failed, overall, finished, pending, stale, sender, cpc,
                   todo, snap, filter, acked>>

(* run_transaction: a limit is reached.  The time span can pass its limit  *)
(* at any count (module CoapTransaction keeps the time).                   *)
RunGiveUp ==
    /\ spc = "run"
    /\ Usable(cur)
    /\ counter' = [counter EXCEPT ![cur] = @ + 1]
    /\ todo' = {}               \* the case ends with a break
    /\ spc' = "mark"
    /\ UNCHANGED <<failed, overall, finished, pending, stale, sender, cpc,
                   cur, snap, filter, history>>

(* set_overall_transaction_failure *)
MarkFailed ==
    /\ spc = "mark"
    /\ Usable(cur)
    /\ failed' = failed \cup {cur[1]}
    /\ spc' = "clean"
    /\ UNCHANGED <<overall, finished, pending, stale, counter, sender, cpc,
                   todo, cur, snap, filter, history>>

(* clean_failed_transactions starts iterating over the dictionary ... *)
CleanBegin ==
    /\ spc = "clean"
    /\ Usable(cur)
    /\ snap' = pending
    /\ spc' = "rebuild"
    /\ UNCHANGED <<pool, sender, cpc, todo, cur, filter, history>>

(* The entries the new dictionary keeps *)
OfOther_Everything(k) == TRUE
OfOther(k) == k[1] # cur[1]

(* ... and binds a new one, whose values are time stamps.  Keys deleted    *)
(* after they were visited come back.                                      *)
CleanEnd ==
    /\ spc = "rebuild"
    /\ Cardinality(pending) = Cardinality(snap)
    /\ stale \cap pending = {}
    /\ \E visited \in SUBSET (snap \ pending) :
         pending' = {k \in pending \cup visited : OfOther(k)}
    /\ stale' = pending'
    /\ spc' = "clear"
    /\ cur' = NoKey
    /\ snap' = {}
    /\ UNCHANGED <<failed, overall, finished, counter, sender, cpc, todo,
                   filter, history>>

(* RuntimeError if the dictionary changed size while it was iterated,      *)
(* AttributeError if one of its values is a time stamp                     *)
CleanRaises ==
    /\ spc = "rebuild"
    /\ pending # snap \/ stale \cap pending # {}
    /\ SolverDies
    /\ UNCHANGED <<pool, sender, cpc, filter, history>>

ClearFinished ==
    /\ spc = "clear"
    /\ finished' = {}
    /\ spc' = "idle"
    /\ UNCHANGED <<failed, overall, pending, stale, counter, sender, cpc, todo,
                   cur, snap, filter, history>>

Solver == \/ SolveBegin \/ ScanNext \/ ScanEnd \/ SolverRaises
          \/ RunNoAction \/ RunRetransmit \/ RunGiveUp
          \/ MarkFailed \/ CleanBegin \/ CleanEnd \/ CleanRaises
          \/ ClearFinished

-----------------------------------------------------------------------------
(* Filter: the ACK and RST cases of __coap_format_filter *)

(* finish_transaction marks the key first ... *)
ReceiveAck(k) ==
    /\ fpc = "idle"
    /\ sends[k] > 0
    /\ finished' = finished \cup {k}
    /\ acked' = acked \cup {k}
    /\ fkey' = k
    /\ fpc' = "member"
    /\ UNCHANGED <<failed, overall, pending, stale, counter, sender, cpc,
                   solver, sends, late>>

(* ... then looks it up in the dictionary ... *)
FindPending ==
    /\ fpc = "member"
    /\ IF fkey \in pending THEN fpc' = "delete" /\ fkey' = fkey
                          ELSE fpc' = "idle" /\ fkey' = NoKey
    /\ UNCHANGED <<pool, sender, cpc, solver, history>>

(* ... and deletes it, from the dictionary of this moment *)
DeletePending ==
    /\ fpc = "delete"
    /\ fkey \in pending
    /\ pending' = pending \ {fkey}
    /\ stale' = stale \ {fkey}
    /\ fpc' = "idle"
    /\ fkey' = NoKey
    /\ UNCHANGED <<failed, overall, finished, counter, sender, cpc, solver,
                   history>>

FilterRaises ==
    /\ fpc = "delete"
    /\ fkey \notin pending
    /\ fpc' = "dead"
    /\ fkey' = NoKey
    /\ UNCHANGED <<pool, sender, cpc, solver, history>>

(* The peer can only reject a request of which it has seen a message. *)
ReceiveRst(g) ==
    /\ fpc = "idle"
    /\ \E k \in Key : k[1] = g /\ sends[k] > 0
    /\ failed' = failed \cup {g}
    /\ fkey' = <<g, 1>>
    /\ fpc' = "overall"
    /\ UNCHANGED <<overall, finished, pending, stale, counter, sender, cpc,
                   solver, history>>

RstFinishes ==
    /\ fpc = "overall"
    /\ overall' = overall \cup {fkey[1]}
    /\ fpc' = "idle"
    /\ fkey' = NoKey
    /\ UNCHANGED <<failed, finished, pending, stale, counter, sender, cpc,
                   solver, history>>

FilterInternal == FindPending \/ DeletePending \/ FilterRaises \/ RstFinishes

Filter == \/ \E k \in Key : ReceiveAck(k)
          \/ \E g \in Rejected : ReceiveRst(g)
          \/ FilterInternal

-----------------------------------------------------------------------------
Next == \/ \E g \in Request : Worker(g)
        \/ \E g \in Uploads : Cli(g)
        \/ Solver
        \/ Filter

Spec == Init /\ [][Next]_vars

(***************************************************************************)
(* Fairness.  Every thread is scheduled again and again: the senders and   *)
(* the command line spin or poll, the solver and the filter loop.  The     *)
(* solver polls once a second while the timeout of a message is fixed      *)
(* between two retransmissions, so a message polled again and again is     *)
(* found late again and again: strong fairness of its two outcomes.        *)
(* Nothing is assumed of the peer, which may never answer.                 *)
(***************************************************************************)
Fairness ==
    /\ \A g \in Request : WF_vars(Worker(g))
    /\ \A g \in Uploads : WF_vars(Cli(g))
    /\ WF_vars(Solver)
    /\ WF_vars(FilterInternal)
    /\ \A k \in Key : SF_vars(cur = k /\ (RunRetransmit \/ RunGiveUp))

FairSpec == Spec /\ Fairness

-----------------------------------------------------------------------------
(* Properties *)

(* The dictionaries hold requests and keys of real messages, and every     *)
(* thread is at a step it has (coap_transaction_pool.py:19-26).            *)
TypeOK ==
    /\ failed \subseteq Request /\ overall \subseteq Request
    /\ finished \subseteq Key /\ pending \subseteq Key /\ stale \subseteq Key
    /\ counter \in [Key -> Nat]
    /\ wpc \in [Request -> WorkerStep]
    /\ blk \in [Request -> Nat] /\ \A g \in Request : blk[g] \in 1 .. Messages[g]
    /\ cpc \in [Uploads -> CliStep]
    /\ spc \in SolverStep /\ todo \subseteq Key /\ cur \in Key \cup {NoKey}
    /\ snap \subseteq Key
    /\ fpc \in FilterStep /\ fkey \in Key \cup {NoKey}
    /\ sends \in [Key -> Nat] /\ acked \subseteq Key
    /\ late \in [Request -> Nat]

(* add_transaction returned for this message. *)
Added(k) == IF k[2] = 0 THEN cpc[k[1]] \in {"wait", "out"}
            ELSE \/ k[2] < blk[k[1]]
                 \/ k[2] = blk[k[1]] /\ wpc[k[1]] \in {"finish", "done"}

(* No message is forgotten: once add_transaction returned, the message is  *)
(* in the dictionary, or was acknowledged, or its request failed.  The     *)
(* lookup of lines 73-74, the deletions of the filter and the dictionary   *)
(* the solver builds anew all race on this.                                *)
Tracked == \A k \in Key :
    Added(k) => k \in pending \/ k \in acked \/ k[1] \in failed

(* The last message of a file leaves only when every earlier one was       *)
(* acknowledged or the request failed: what the wait on an empty           *)
(* dictionary (pool:46-49) is there for.                                   *)
LastBlockBarrier == \A g \in Request \ Paths :
    sends[<<g, Messages[g]>>] > 0 =>
        \A i \in 1 .. (Messages[g] - 1) : <<g, i>> \in acked \/ g \in failed

(* At most 1 + MAX_RETRANSMIT datagrams carry a message, whatever threads  *)
(* insert it, delete it or rebuild the dictionary meanwhile.               *)
RetransmitBound == \A k \in Key : sends[k] <= 1 + MaxRetransmit

(* Senders past the test for room, whose message is not yet inserted *)
Admitted == {KeyOf(g) : g \in {h \in Request :
                wpc[h] \in {"drain", "send", "lookup", "insert"}}}

(* How far the limit of line 43 is exceeded: each sender tests before any  *)
(* of them inserts, and the command line does not test.  That bounds the   *)
(* transactions the solver can still send.  With the keys that come back   *)
(* when the solver builds the dictionary anew it holds up to twice as many.*)
Limit == MaxPending - 1 + Cardinality(Request) + Cardinality(Uploads)
CongestionBound ==
    /\ Cardinality((pending \ stale) \cup Admitted) <= Limit
    /\ Cardinality(pending \cup Admitted) <= 2 * Limit

(* Once a request is marked failed at most two more of its datagrams go    *)
(* out: one of its sender, past the check of line 39, and one of the       *)
(* solver, past the check of line 88.                                      *)
StopsAfterFailure == \A g \in Request : late[g] <= 2

(* The command line gets back from an upload only when the request failed, *)
(* or when all the messages but the last were acknowledged and the last    *)
(* one was sent (wait_util_finish against the spliter's line 100).         *)
ReturnAfterUpload == \A g \in Uploads :
    cpc[g] = "out" =>
        \/ g \in failed
        \/ /\ \A i \in 0 .. (Messages[g] - 1) : <<g, i>> \in acked
           /\ sends[<<g, Messages[g]>>] > 0

(* Giving up one request keeps the transactions of the others: a message   *)
(* that still waits for its ACK is still held as a CoapTransaction, so     *)
(* that the solver can send it again (pool:177-185).                       *)
OthersKept == \A k \in Key :
    Added(k) => Usable(k) \/ k \in acked \/ k[1] \in failed

(* Every sender leaves its loop even if the peer never answers, as long as *)
(* the solver thread and the filter thread live ("Wait until all           *)
(* transactions are finished", pool:47).                                   *)
SendersEnd ==
    (\A g \in Request : <>(wpc[g] \in {"done", "aborted"}))
        \/ <>(spc = "dead" \/ fpc = "dead")

(* The command line gets back from every upload, but for three ways to be  *)
(* left waiting while both threads live: there is no such file, which only *)
(* a debug line says (client_resource.py:90); the request times out, which *)
(* marks it failed and never finished (pool:94-95, 151); or its ACK is     *)
(* seen and the mark is cleared (pool:104) before the worker looks at it   *)
(* (client_resource.py:92).                                                *)
UploadEnds == \A g \in Uploads :
    \/ <>(cpc[g] = "out")
    \/ <>(wpc[g] = "absent")
    \/ <>[](g \in failed \ overall)
    \/ <>[](wpc[g] = "await" /\ <<g, 0>> \in acked)
    \/ <>(spc = "dead" \/ fpc = "dead")

=============================================================================
