----------------------------- MODULE WorkerPool -----------------------------
(***************************************************************************)
(* The worker pool (coap_worker_pool.py, coap_worker.py): the filter       *)
(* thread hands confirmable and non-confirmable messages to workers and    *)
(* drops the copies of a message in work, the workers solve them from      *)
(* queues of their own, the reaper stops workers it takes for idle, and    *)
(* the command line starts a worker for each task of its own.  On a client *)
(* the command line also stops the pool, and so does the main thread when  *)
(* it sees that the pool no longer runs.  All share the marks of           *)
(* _shared_work and the list of workers without a lock.                    *)
(***************************************************************************)
EXTENDS Naturals, Sequences, FiniteSets, SequencesExt

CONSTANTS
    Task,           \* work ids of received messages
    Internal,       \* work ids of the command line's own tasks
    Heavy,          \* tasks solved under heavy_work (GET and PUT)
    Raising,        \* tasks whose handler may raise (on a client only)
    Exiter,         \* threads that call the pool's stop(): none on a server
    MaxQueue,       \* COAP_WORKER_QUEUE_SIZE
    MaxCopies,      \* bound: how often one message is received
    MaxWorkers,     \* bound: how many workers are ever created
    Dummy           \* the empty packet that wakes a stopped worker

ASSUME PoolAssumption ==
    /\ Task \cap Internal = {} /\ Dummy \notin Task \cup Internal
    /\ Heavy \subseteq Task /\ Raising \subseteq Task \cup Internal
    /\ Exiter \subseteq {"cli", "main"}
    /\ MaxQueue \in Nat \ {0} /\ MaxCopies \in Nat /\ MaxWorkers \in Nat

Worker == 1 .. MaxWorkers
AnyTask == Task \cup Internal
Stopper == Exiter \cup {"reaper"}     \* the callers of a worker's stop()

VARIABLES
    marked,     \* _shared_work
    list,       \* __workers
    up,         \* the pool's __is_running
    closed,     \* the socket is closed
    created,    \* number of workers created so far
    (* ---- each worker ---- *)
    wpc, queue, task, running, heavy,
    idle,       \* get_idle_time() exceeds the allowed idle time
    (* ---- the filter ---- *)
    fpc, fpacket, fworker,
    (* ---- the command line ---- *)
    ipc, itask, iworker,
    (* ---- the threads that stop workers ---- *)
    spc, position, victim,
    (* ---- history ---- *)
    copies,     \* how often each message was received
    issued      \* tasks of its own the command line has started

worker == <<wpc, queue, task, running, heavy, idle>>
dispatch == <<fpc, fpacket, fworker>>
internal == <<ipc, itask, iworker>>
stoppers == <<up, closed, spc, position, victim>>
history == <<copies, issued>>
vars == <<marked, list, created, worker, dispatch, internal, stoppers, history>>

NoWorker == 0

Init ==
    /\ marked = {} /\ list = <<>> /\ created = 0
    /\ up = TRUE /\ closed = FALSE
    /\ wpc = [w \in Worker |-> "none"]
    /\ queue = [w \in Worker |-> <<>>]
    /\ task = [w \in Worker |-> Dummy]
    /\ running = [w \in Worker |-> TRUE]
    /\ heavy = [w \in Worker |-> FALSE]
    /\ idle = [w \in Worker |-> FALSE]
    /\ fpc = "receive" /\ fpacket = Dummy /\ fworker = NoWorker
    /\ ipc = "ready" /\ itask = Dummy /\ iworker = NoWorker
    /\ spc = [p \in Stopper |-> IF p = "reaper" THEN "wait" ELSE "off"]
    /\ position = [p \in Stopper |-> 1]
    /\ victim = [p \in Stopper |-> NoWorker]
    /\ copies = [t \in Task |-> 0]
    /\ issued = {}

-----------------------------------------------------------------------------
(* Filter: the CON and NON cases of __coap_format_filter *)

IsNew_Always(t) == TRUE
IsNew(t) == t \notin marked

(* The loop's condition is read after a packet, not while one is awaited.  *)
NextRound == IF up THEN "receive" ELSE "ended"

(* The ACK is sent first, which raises when the socket is closed.  Then:   *)
(* "if packet.work_id() not in self._shared_work"                          *)
Receive(t) ==
    /\ fpc = "receive"
    /\ copies[t] < MaxCopies
    /\ copies' = [copies EXCEPT ![t] = @ + 1]
    /\ IF closed THEN fpc' = "ended" /\ fpacket' = fpacket
       ELSE IF IsNew(t) THEN fpc' = "choose" /\ fpacket' = t
       ELSE fpc' = NextRound /\ fpacket' = fpacket
    /\ UNCHANGED <<marked, list, created, worker, fworker, internal, stoppers, issued>>

(* __choose_worker: the light worker with the shortest queue, which is     *)
(* not full, the first of them in the list ...                             *)
Light == {w \in ToSet(list) : ~ heavy[w] /\ Len(queue[w]) < MaxQueue}
Before(v, w) == \E i, j \in DOMAIN list : i < j /\ list[i] = v /\ list[j] = w
Best(w) ==
    /\ w \in Light
    /\ \A v \in Light \ {w} : \/ Len(queue[w]) < Len(queue[v])
                              \/ Len(queue[w]) = Len(queue[v]) /\ Before(w, v)

ChooseListed ==
    /\ fpc = "choose"
    /\ \E w \in Worker : Best(w) /\ fworker' = w
    /\ fpc' = "submit"
    /\ UNCHANGED <<marked, list, created, worker, fpacket, internal, stoppers, history>>

(* ... or a new one, started and appended to the list. *)
ChooseNew ==
    /\ fpc = "choose"
    /\ Light = {}
    /\ created < MaxWorkers
    /\ created' = created + 1
    /\ wpc' = [wpc EXCEPT ![created'] = "get"]
    /\ list' = Append(list, created')
    /\ fworker' = created'
    /\ fpc' = "submit"
    /\ UNCHANGED <<marked, queue, task, running, heavy, idle, fpacket, internal,
                   stoppers, history>>

(* The task is submitted first, and marked as in work afterwards. *)
Submit ==
    /\ fpc = "submit"
    /\ queue' = [queue EXCEPT ![fworker] = Append(@, fpacket)]
    /\ fpc' = "mark"
    /\ UNCHANGED <<marked, list, created, wpc, task, running, heavy, idle,
                   fpacket, fworker, internal, stoppers, history>>

MarkedAfter_Forgotten(t) == marked
MarkedAfter_Worker(t) == marked \cup {fworker}
MarkedAfter(t) == marked \cup {t}

Mark ==
    /\ fpc = "mark"
    /\ marked' = MarkedAfter(fpacket)
    /\ fpc' = NextRound /\ fpacket' = Dummy /\ fworker' = NoWorker
    /\ UNCHANGED <<list, created, worker, internal, stoppers, history>>

Filter == (\E t \in Task : Receive(t)) \/ ChooseListed \/ ChooseNew \/ Submit \/ Mark

-----------------------------------------------------------------------------
(* Command line: _handle_internal_task with needs_internal_computation *)

Exiting == \E p \in Exiter : spc[p] # "off"

StartInternal(t) ==
    /\ ipc = "ready" /\ ~ Exiting
    /\ t \notin issued
    /\ issued' = issued \cup {t}
    /\ created < MaxWorkers
    /\ created' = created + 1
    /\ wpc' = [wpc EXCEPT ![created'] = "get"]
    /\ queue' = [queue EXCEPT ![created'] = <<t>>]
    /\ ipc' = "append" /\ itask' = t /\ iworker' = created'
    /\ UNCHANGED <<marked, list, task, running, heavy, idle, dispatch, stoppers, copies>>

AppendWorker ==
    /\ ipc = "append"
    /\ list' = Append(list, iworker)
    /\ ipc' = "mark"
    /\ UNCHANGED <<marked, created, worker, dispatch, itask, iworker, stoppers, history>>

MarkInternal ==
    /\ ipc = "mark"
    /\ marked' = marked \cup {itask}
    /\ ipc' = "ready" /\ itask' = Dummy /\ iworker' = NoWorker
    /\ UNCHANGED <<list, created, worker, dispatch, stoppers, history>>

Cli == (\E t \in Internal : StartInternal(t)) \/ AppendWorker \/ MarkInternal

-----------------------------------------------------------------------------
(* Workers: CoapWorker.run *)

Get(w) ==
    /\ wpc[w] = "get"
    /\ queue[w] # <<>>
    /\ task' = [task EXCEPT ![w] = Head(queue[w])]
    /\ queue' = [queue EXCEPT ![w] = Tail(@)]
    /\ wpc' = [wpc EXCEPT ![w] = "check"]
    /\ UNCHANGED <<marked, list, created, running, heavy, idle, dispatch,
                   internal, stoppers, history>>

(* A stopped worker leaves with the task in its hand and those queued. *)
Leave(w) ==
    /\ wpc[w] = "check"
    /\ ~ running[w]
    /\ wpc' = [wpc EXCEPT ![w] = "ended"]
    /\ UNCHANGED <<marked, list, created, queue, task, running, heavy, idle,
                   dispatch, internal, stoppers, history>>

(* The timer is reset before the task is solved. *)
Start(w) ==
    /\ wpc[w] = "check"
    /\ running[w]
    /\ idle' = [idle EXCEPT ![w] = FALSE]
    /\ heavy' = [heavy EXCEPT ![w] = task[w] \in Heavy]
    /\ wpc' = [wpc EXCEPT ![w] = "solve"]
    /\ UNCHANGED <<marked, list, created, queue, task, running, dispatch,
                   internal, stoppers, history>>

Solve(w) ==
    /\ wpc[w] = "solve"
    /\ heavy' = [heavy EXCEPT ![w] = FALSE]
    /\ wpc' = [wpc EXCEPT ![w] = "pop"]
    /\ UNCHANGED <<marked, list, created, queue, task, running, idle, dispatch,
                   internal, stoppers, history>>

(* An exception of a handler ends the thread: it stays in the list, with   *)
(* its mark and its load, and nobody serves its queue.                     *)
Raise(w) ==
    /\ wpc[w] = "solve"
    /\ task[w] \in Raising
    /\ wpc' = [wpc EXCEPT ![w] = "crashed"]
    /\ UNCHANGED <<marked, list, created, queue, task, running, heavy, idle,
                   dispatch, internal, stoppers, history>>

AfterTask_End(w) == "ended"
AfterTask(w) == IF running[w] THEN "get" ELSE "ended"

(* The mark is removed if it is there, and the loop's condition tested. *)
Pop(w) ==
    /\ wpc[w] = "pop"
    /\ marked' = marked \ {task[w]}
    /\ task' = [task EXCEPT ![w] = Dummy]
    /\ wpc' = [wpc EXCEPT ![w] = AfterTask(w)]
    /\ UNCHANGED <<list, created, queue, running, heavy, idle, dispatch,
                   internal, stoppers, history>>

Work(w) == Get(w) \/ Leave(w) \/ Start(w) \/ Solve(w) \/ Raise(w) \/ Pop(w)

Ended(w) == wpc[w] \in {"ended", "crashed"}

(* The allowed idle time passes since the last reset of the timer, which   *)
(* only the reaper reads.                                                  *)
IdleTimePasses(w) ==
    /\ w \in ToSet(list) /\ spc["reaper"] # "ended"
    /\ ~ idle[w]
    /\ idle' = [idle EXCEPT ![w] = TRUE]
    /\ UNCHANGED <<marked, list, created, wpc, queue, task, running, heavy,
                   dispatch, internal, stoppers, history>>

-----------------------------------------------------------------------------
(* Reaper: __handle_workers, a loop over the list it removes from *)

Without_Kept(l, i) == l
Without(l, i) == RemoveAt(l, i)

MayReap_Last(w) == idle[w]
MayReap(w) == idle[w] /\ Len(list) > 1

ReapBegin ==
    /\ spc["reaper"] = "wait"
    /\ list # <<>>
    /\ spc' = [spc EXCEPT !["reaper"] = "scan"]
    /\ position' = [position EXCEPT !["reaper"] = 1]
    /\ UNCHANGED <<marked, list, up, closed, created, worker, dispatch, internal,
                   victim, history>>

(* The iterator moves on by position, so that the worker after a removed   *)
(* one is passed over.                                                     *)
ReapNext ==
    /\ spc["reaper"] = "scan"
    /\ position["reaper"] <= Len(list)
    /\ LET w == list[position["reaper"]] IN
         IF MayReap(w)
           THEN /\ list' = Without(list, position["reaper"])
                /\ victim' = [victim EXCEPT !["reaper"] = w]
                /\ spc' = [spc EXCEPT !["reaper"] = "stop"]
           ELSE UNCHANGED <<list, victim, spc>>
    /\ position' = [position EXCEPT !["reaper"] = @ + 1]
    /\ UNCHANGED <<marked, up, closed, created, worker, dispatch, internal, history>>

ReapEnd ==
    /\ spc["reaper"] = "scan"
    /\ position["reaper"] > Len(list)
    /\ spc' = [spc EXCEPT !["reaper"] = IF up THEN "wait" ELSE "ended"]
    /\ position' = [position EXCEPT !["reaper"] = 1]
    /\ UNCHANGED <<marked, list, up, closed, created, worker, dispatch, internal,
                   victim, history>>

-----------------------------------------------------------------------------
(* CoapWorker.stop, called by the reaper and by the pool's stop(): the     *)
(* flag and the dummy task, which no other thread tells apart, then the    *)
(* join                                                                    *)

Woken_Not(q) == q
Woken(q) == Append(q, Dummy)

StopFlag(w) ==
    /\ running' = [running EXCEPT ![w] = FALSE]
    /\ queue' = [queue EXCEPT ![w] = Woken(@)]

ReapStop ==
    /\ spc["reaper"] = "stop"
    /\ StopFlag(victim["reaper"])
    /\ spc' = [spc EXCEPT !["reaper"] = "join"]
    /\ UNCHANGED <<marked, list, up, closed, created, wpc, task, heavy, idle,
                   dispatch, internal, position, victim, history>>

StopJoin(p) ==
    /\ spc[p] = "join"
    /\ Ended(victim[p])
    /\ spc' = [spc EXCEPT ![p] = IF p = "reaper" THEN "scan" ELSE "each"]
    /\ victim' = [victim EXCEPT ![p] = NoWorker]
    /\ UNCHANGED <<marked, list, up, closed, created, worker, dispatch, internal,
                   position, history>>

Reaper == ReapBegin \/ ReapNext \/ ReapEnd \/ ReapStop

-----------------------------------------------------------------------------
(* CoapWorkerPool.stop, called by the command line on Exit, and by the     *)
(* main thread once listen() sees the cleared flag                         *)

StopBegin(p) ==
    /\ spc[p] = "off"
    /\ IF p = "main" THEN ~ up ELSE ipc = "ready"
    /\ up' = FALSE
    /\ spc' = [spc EXCEPT ![p] = "each"]
    /\ UNCHANGED <<marked, list, closed, created, worker, dispatch, internal,
                   position, victim, history>>

(* A loop over the list, which others change, stops each worker ...        *)
StopNext(p) ==
    /\ spc[p] = "each"
    /\ position[p] <= Len(list)
    /\ StopFlag(list[position[p]])
    /\ victim' = [victim EXCEPT ![p] = list[position[p]]]
    /\ position' = [position EXCEPT ![p] = @ + 1]
    /\ spc' = [spc EXCEPT ![p] = "join"]
    /\ UNCHANGED <<marked, list, up, closed, created, wpc, task, heavy, idle,
                   dispatch, internal, history>>

StopRest(p) ==
    /\ spc[p] = "each"
    /\ position[p] > Len(list)
    /\ position' = [position EXCEPT ![p] = 1]
    /\ spc' = [spc EXCEPT ![p] = "rest"]
    /\ UNCHANGED <<marked, list, up, closed, created, worker, dispatch, internal,
                   victim, history>>

(* ... a second one joins them all, the socket is closed and sys.exit()    *)
(* ends the thread.                                                        *)
StopEnd(p) ==
    /\ spc[p] = "rest"
    /\ \A w \in ToSet(list) : Ended(w)
    /\ closed' = TRUE
    /\ spc' = [spc EXCEPT ![p] = "out"]
    /\ UNCHANGED <<marked, list, up, created, worker, dispatch, internal, position,
                   victim, history>>

StopPool(p) == StopNext(p) \/ StopRest(p) \/ StopEnd(p)

-----------------------------------------------------------------------------
Next == \/ Filter \/ Cli \/ Reaper
        \/ \E p \in Stopper : StopJoin(p)
        \/ \E p \in Exiter : StopBegin(p) \/ StopPool(p)
        \/ \E w \in Worker : Work(w)
        \/ \E w \in Worker : IdleTimePasses(w)

Spec == Init /\ [][Next]_vars

(* Every thread is scheduled; no message has to come, no time to pass.     *)
FairSpec ==
    /\ Spec
    /\ \A w \in Worker : WF_vars(Work(w))
    /\ WF_vars(ChooseListed \/ ChooseNew \/ Submit \/ Mark)
    /\ WF_vars(AppendWorker \/ MarkInternal)
    /\ WF_vars(ReapNext \/ ReapEnd \/ ReapStop)
    /\ \A p \in Stopper : WF_vars(StopJoin(p))
    /\ \A p \in Exiter : WF_vars(StopPool(p)) /\ WF_vars(~ up /\ StopBegin(p))

-----------------------------------------------------------------------------
(* Properties *)

(* The marks are work ids, the list holds created workers, and every       *)
(* thread is at a step it has (coap_worker_pool.py:44-69).                 *)
TypeOK ==
    /\ marked \subseteq AnyTask
    /\ list \in Seq(Worker) /\ created \in 0 .. MaxWorkers
    /\ wpc \in [Worker -> {"none", "get", "check", "solve", "pop", "ended", "crashed"}]
    /\ \A w \in Worker : queue[w] \in Seq(AnyTask \cup {Dummy})
    /\ task \in [Worker -> AnyTask \cup {Dummy}]
    /\ running \in [Worker -> BOOLEAN] /\ heavy \in [Worker -> BOOLEAN]
    /\ idle \in [Worker -> BOOLEAN]
    /\ fpc \in {"receive", "choose", "submit", "mark", "ended"}
    /\ fpacket \in Task \cup {Dummy} /\ fworker \in Worker \cup {NoWorker}
    /\ ipc \in {"ready", "append", "mark"}
    /\ itask \in Internal \cup {Dummy} /\ iworker \in Worker \cup {NoWorker}
    /\ up \in BOOLEAN /\ closed \in BOOLEAN
    /\ spc \in [Stopper -> {"wait", "scan", "stop", "join", "ended",
                            "off", "each", "rest", "out"}]
    /\ position \in [Stopper -> Nat \ {0}]
    /\ victim \in [Stopper -> Worker \cup {NoWorker}]

(* A task is in the hands of a worker: queued, or taken and not yet solved *)
InQueue(t, w) == \E i \in DOMAIN queue[w] : queue[w][i] = t
InHand(t, w) == task[w] = t /\ wpc[w] \in {"check", "solve"}

(* No two workers ever hold the same message, and none holds it twice:     *)
(* the mark keeps the copies out from the submission until the message is  *)
(* solved, although it is set after the submission and removed by another  *)
(* thread (worker_pool:167-169, worker:73-74).                             *)
SolvedByOne == \A t \in AnyTask :
    /\ \A v, w \in Worker :
          (InQueue(t, v) \/ InHand(t, v)) /\ (InQueue(t, w) \/ InHand(t, w)) => v = w
    /\ \A w \in Worker :
          /\ Cardinality({i \in DOMAIN queue[w] : queue[w][i] = t}) <= 1
          /\ ~ (InQueue(t, w) /\ InHand(t, w))

(* No worker is in the list twice, and while the pool runs the one being   *)
(* stopped is not in it, so it gets no new task from a later choice.       *)
StoppedIsUnlisted ==
    /\ \A i, j \in DOMAIN list : list[i] = list[j] => i = j
    /\ \A w \in Worker : ~ running[w] /\ up => w \notin ToSet(list)

(* The reaper never takes the last worker. *)
OneStays == [][list # <<>> => list' # <<>>]_vars

(* A worker that is flagged is joined: the dummy task wakes the one that   *)
(* waits for a task, and two callers can stop the same one.  So stop() of  *)
(* the pool returns to the command line and to the main thread, unless the *)
(* filter creates a worker behind their first loop: the second one joins   *)
(* it and nobody has stopped it (worker_pool:248-254).                     *)
StopReturns ==
    /\ spc["reaper"] = "stop" ~> spc["reaper"] = "scan"
    /\ ~ up ~> \/ \A p \in Exiter : spc[p] = "out"
              \/ \E p \in Exiter : \E w \in ToSet(list) : spc[p] = "rest" /\ running[w]

(* What is submitted is solved, unless its worker is stopped or ended by   *)
(* an exception.                                                           *)
Held(t) == \E w \in Worker :
    running[w] /\ wpc[w] # "crashed" /\ (InQueue(t, w) \/ InHand(t, w))
Served == \A t \in AnyTask : Held(t) ~> ~ Held(t)

(* A worker that ended has no task left: the reaper stops only workers     *)
(* that have none, "elapsed time since the last task was processed"        *)
(* (coap_worker.py:53).                                                    *)
NothingDropped == \A t \in AnyTask : \A w \in Worker :
    wpc[w] = "ended" => ~ InQueue(t, w) /\ task[w] # t

=============================================================================
