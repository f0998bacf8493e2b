-------------------------- MODULE WorkerPoolProofs --------------------------
(***************************************************************************)
(* Proofs about WorkerPool, for any messages and tasks, any number of      *)
(* workers, any length of their queues and any threads that stop them.     *)
(***************************************************************************)
EXTENDS WorkerPool, SequenceTheorems, FiniteSetTheorems, TLAPS

(* What the threads hold while they use it *)
Holding ==
    /\ queue \in [Worker -> Seq(AnyTask \cup {Dummy})]
    /\ fpc \in {"choose", "submit", "mark"} => fpacket \in Task
    /\ fpc = "submit" => fworker \in Worker
    /\ ipc \in {"append", "mark"} => itask \in Internal /\ iworker \in Worker
    /\ spc["reaper"] = "stop" => victim["reaper"] \in Worker

TInv == TypeOK /\ Holding

(* A task is in a queue, and there once only. *)
Has(t, q) == \E i \in DOMAIN q : q[i] = t
Once(t, q) == \A i, j \in DOMAIN q : q[i] = t /\ q[j] = t => i = j

(* A task is with a worker until its mark is removed. *)
InWork(t, w) == task[w] = t /\ wpc[w] \in {"check", "solve", "pop"}
With(t, w) == Has(t, queue[w]) \/ InWork(t, w)

(* A message that is with a worker is marked, or about to be; a task of    *)
(* the command line is started once.                                       *)
Known(t) == IF t \in Internal THEN t \in issued
                              ELSE t \in marked \/ (fpc = "mark" /\ fpacket = t)
MarkedInTime == \A t \in AnyTask : \A w \in Worker : With(t, w) => Known(t)

(* What the filter is about to submit is with nobody. *)
Unassigned ==
    fpc \in {"choose", "submit"} => \A w \in Worker : ~ With(fpacket, w)

(* A task is with one worker, and there in one place. *)
Alone == \A t \in AnyTask : \A v, w \in Worker : With(t, v) /\ With(t, w) => v = w
OnePlace == \A t \in AnyTask : \A w \in Worker :
    Once(t, queue[w]) /\ ~ (Has(t, queue[w]) /\ InWork(t, w))

SInv == TInv /\ MarkedInTime /\ Unassigned /\ Alone /\ OnePlace

(* The list holds workers that were created; the one the command line is   *)
(* about to append and the one the reaper is about to stop are not in it,  *)
(* and they are not the same.                                              *)
Distinct(s) == \A i, j \in DOMAIN s : s[i] = s[j] => i = j
Listed ==
    /\ \A w \in ToSet(list) : w <= created
    /\ Distinct(list)
    /\ ipc = "append" => iworker <= created /\ iworker \notin ToSet(list)
    /\ spc["reaper"] = "stop" =>
          /\ victim["reaper"] <= created /\ victim["reaper"] \notin ToSet(list)
          /\ ipc = "append" => victim["reaper"] # iworker

(* Only workers that were created are stopped, while the pool runs only    *)
(* unlisted ones, and the pool's own stop() begins by clearing its flag.   *)
Flagged ==
    /\ \A w \in Worker : ~ running[w] => w <= created
    /\ \A w \in Worker : ~ running[w] /\ up => w \notin ToSet(list)
    /\ up /\ ipc = "append" => running[iworker]
    /\ \A p \in Exiter : spc[p] \in {"each", "rest", "out"} => ~ up
    /\ \A p \in Exiter : spc[p] = "join" => ~ up
    /\ spc["reaper"] \notin {"each", "rest"}

LInv == TInv /\ Listed /\ Flagged

-----------------------------------------------------------------------------
(* Sequences *)

(* A list without the element at a position: the ones behind it move up.   *)
LEMMA RemoveAtFacts ==
    ASSUME NEW S, NEW s \in Seq(S), NEW i \in 1 .. Len(s)
    PROVE  /\ RemoveAt(s, i) \in Seq(S)
           /\ Len(RemoveAt(s, i)) = Len(s) - 1
           /\ \A j \in 1 .. Len(s) - 1 :
                 RemoveAt(s, i)[j] = IF j < i THEN s[j] ELSE s[j + 1]
<1> DEFINE front == SubSeq(s, 1, i - 1)
<1> DEFINE rest == SubSeq(s, i + 1, Len(s))
<1>1. /\ front \in Seq(S) /\ Len(front) = i - 1
      /\ \A j \in 1 .. i - 1 : front[j] = s[j]
  BY SubSeqProperties, ElementOfSeq
<1>2. /\ rest \in Seq(S) /\ Len(rest) = Len(s) - i
      /\ \A j \in 1 .. Len(s) - i : rest[j] = s[i + j]
  BY SubSeqProperties, ElementOfSeq
<1> HIDE DEF front, rest
<1>3. /\ front \o rest \in Seq(S)
      /\ Len(front \o rest) = Len(s) - 1
      /\ \A j \in 1 .. Len(s) - 1 :
            (front \o rest)[j] = IF j <= i - 1 THEN front[j] ELSE rest[j - (i - 1)]
  <2>1. /\ front \o rest \in Seq(S)
        /\ Len(front \o rest) = Len(front) + Len(rest)
        /\ \A j \in 1 .. Len(front) + Len(rest) :
              (front \o rest)[j] = IF j <= Len(front) THEN front[j]
                                                      ELSE rest[j - Len(front)]
    BY <1>1, <1>2, ConcatProperties
  <2>2. Len(front) + Len(rest) = Len(s) - 1
    BY <1>1, <1>2
  <2> QED BY <1>1, <2>1, <2>2
<1>4. ASSUME NEW j \in 1 .. Len(s) - 1
      PROVE  (front \o rest)[j] = IF j < i THEN s[j] ELSE s[j + 1]
  <2>1. CASE j < i
    <3>1. j \in 1 .. i - 1 /\ j <= i - 1
      BY <2>1
    <3> QED BY <1>1, <1>3, <2>1, <3>1
  <2>2. CASE ~ (j < i)
    <3>1. j - (i - 1) \in 1 .. Len(s) - i /\ i + (j - (i - 1)) = j + 1 /\ ~ (j <= i - 1)
      BY <2>2
    <3>2. rest[j - (i - 1)] = s[j + 1]
      BY <1>2, <3>1
    <3> QED BY <1>3, <2>2, <3>1, <3>2
  <2> QED BY <2>1, <2>2
<1>5. RemoveAt(s, i) = front \o rest
  BY DEF RemoveAt, front, rest
<1> QED BY <1>3, <1>4, <1>5

(* What a task added at the end of a queue changes                         *)
(* (coap_worker.py:87-94).                                                 *)
LEMMA AppendFacts ==
    ASSUME NEW S, NEW q \in Seq(S), NEW e \in S, NEW t
    PROVE  /\ Append(q, e) \in Seq(S)
           /\ Has(t, Append(q, e)) <=> Has(t, q) \/ e = t
           /\ Once(t, q) /\ (e = t => ~ Has(t, q)) => Once(t, Append(q, e))
<1> DEFINE a == Append(q, e)
<1>1. /\ a \in Seq(S) /\ Len(a) = Len(q) + 1
      /\ \A i \in 1 .. Len(q) : a[i] = q[i]
      /\ a[Len(q) + 1] = e
  BY AppendProperties
<1>2. /\ DOMAIN q = 1 .. Len(q) /\ DOMAIN a = 1 .. Len(q) + 1
      /\ Len(q) \in Nat
  BY <1>1, LenProperties
<1> HIDE DEF a
<1>3. Has(t, a) <=> Has(t, q) \/ e = t
  BY <1>1, <1>2 DEF Has
<1>4. ASSUME Once(t, q), e = t => ~ Has(t, q), NEW i \in DOMAIN a, NEW j \in DOMAIN a,
             a[i] = t, a[j] = t
      PROVE  i = j
  BY <1>1, <1>2, <1>4 DEF Once, Has
<1>5. Once(t, q) /\ (e = t => ~ Has(t, q)) => Once(t, a)
  BY <1>4 DEF Once
<1> QED BY <1>1, <1>3, <1>5 DEF a

(* What taking the first task of a queue changes (coap_worker.py:65).      *)
LEMMA TailFacts ==
    ASSUME NEW S, NEW q \in Seq(S), q # <<>>, NEW t
    PROVE  /\ Has(t, Tail(q)) => Has(t, q)
           /\ Head(q) = t => Has(t, q)
           /\ Once(t, q) => Once(t, Tail(q))
           /\ Once(t, q) /\ Head(q) = t => ~ Has(t, Tail(q))
<1>1. /\ Len(q) \in Nat \ {0} /\ DOMAIN q = 1 .. Len(q) /\ Head(q) = q[1]
      /\ DOMAIN Tail(q) = 1 .. Len(q) - 1
      /\ \A i \in 1 .. Len(q) - 1 : Tail(q)[i] = q[i + 1]
  BY HeadTailProperties, LenProperties, EmptySeq
<1>2. \A i \in DOMAIN Tail(q) : i + 1 \in DOMAIN q /\ Tail(q)[i] = q[i + 1] /\ i + 1 # 1
  BY <1>1
<1>3. 1 \in DOMAIN q
  BY <1>1
<1>4. Has(t, Tail(q)) => Has(t, q)
  BY <1>2 DEF Has
<1>5. Head(q) = t => Has(t, q)
  BY <1>1, <1>3 DEF Has
<1>6. Once(t, q) => Once(t, Tail(q))
  <2> SUFFICES ASSUME Once(t, q), NEW i \in DOMAIN Tail(q), NEW j \in DOMAIN Tail(q),
                      Tail(q)[i] = t, Tail(q)[j] = t
               PROVE  i = j
    BY DEF Once
  <2>1. i + 1 = j + 1
    BY <1>2 DEF Once
  <2> QED BY <1>1, <2>1
<1>7. Once(t, q) /\ Head(q) = t => ~ Has(t, Tail(q))
  BY <1>1, <1>2, <1>3 DEF Once, Has
<1> QED BY <1>4, <1>5, <1>6, <1>7

(* A queue with one task                                                   *)
LEMMA SingleFacts ==
    ASSUME NEW e, NEW t
    PROVE  /\ Has(t, <<e>>) <=> e = t
           /\ Once(t, <<e>>)
<1>1. DOMAIN <<e>> = {1} /\ <<e>>[1] = e
  OBVIOUS
<1> QED BY <1>1 DEF Has, Once

(* A list of workers that gets a new one at its end                        *)
LEMMA DistinctAppend ==
    ASSUME NEW S, NEW s \in Seq(S), NEW e \in S, Distinct(s), e \notin ToSet(s)
    PROVE  Distinct(Append(s, e)) /\ ToSet(Append(s, e)) = ToSet(s) \cup {e}
<1> DEFINE a == Append(s, e)
<1>1. /\ Len(a) = Len(s) + 1 /\ a[Len(s) + 1] = e
      /\ \A i \in 1 .. Len(s) : a[i] = s[i]
      /\ DOMAIN s = 1 .. Len(s) /\ DOMAIN a = 1 .. Len(s) + 1 /\ Len(s) \in Nat
  BY AppendProperties, LenProperties
<1> HIDE DEF a
<1>2. Distinct(a)
  BY <1>1 DEF Distinct, ToSet
<1>3. ToSet(a) = ToSet(s) \cup {e}
  BY <1>1 DEF ToSet
<1> QED BY <1>2, <1>3 DEF a

(* A list that loses the worker at a position                              *)
(* (coap_worker_pool.py:119-120).                                          *)
LEMMA DistinctRemoveAt ==
    ASSUME NEW S, NEW s \in Seq(S), NEW i \in 1 .. Len(s), Distinct(s)
    PROVE  /\ Distinct(RemoveAt(s, i))
           /\ ToSet(RemoveAt(s, i)) \subseteq ToSet(s)
           /\ s[i] \notin ToSet(RemoveAt(s, i))
<1> DEFINE a == RemoveAt(s, i)
<1> DEFINE at(j) == IF j < i THEN j ELSE j + 1
<1>1. /\ Len(a) = Len(s) - 1 /\ a \in Seq(S)
      /\ \A j \in 1 .. Len(s) - 1 : a[j] = IF j < i THEN s[j] ELSE s[j + 1]
  BY RemoveAtFacts
<1> HIDE DEF a
<1>2. DOMAIN s = 1 .. Len(s) /\ DOMAIN a = 1 .. Len(s) - 1 /\ Len(s) \in Nat
  BY <1>1, LenProperties
<1>3. \A j \in DOMAIN a : at(j) \in DOMAIN s /\ a[j] = s[at(j)] /\ at(j) # i
  BY <1>1, <1>2
<1>4. \A j, k \in DOMAIN a : at(j) = at(k) => j = k
  BY <1>2
<1> HIDE DEF at
<1>5. Distinct(a)
  BY <1>3, <1>4 DEF Distinct
<1>6. ToSet(a) \subseteq ToSet(s)
  BY <1>3 DEF ToSet
<1>7. s[i] \notin ToSet(a)
  BY <1>2, <1>3 DEF Distinct, ToSet
<1> QED BY <1>5, <1>6, <1>7 DEF a

-----------------------------------------------------------------------------
(* Types *)

(* The pool starts without workers (coap_worker_pool.py:31-69).            *)
LEMMA InitTypes == Init => TInv
<1> SUFFICES ASSUME Init PROVE TInv
  OBVIOUS
<1> USE PoolAssumption DEF Init, NoWorker
<1>1. /\ list \in Seq(Worker) /\ created \in 0 .. MaxWorkers
      /\ queue \in [Worker -> Seq(AnyTask \cup {Dummy})]
      /\ task \in [Worker -> AnyTask \cup {Dummy}]
  OBVIOUS
<1>2. /\ spc \in [Stopper -> {"wait", "scan", "stop", "join", "ended",
                              "off", "each", "rest", "out"}]
      /\ position \in [Stopper -> Nat \ {0}]
      /\ victim \in [Stopper -> Worker \cup {NoWorker}]
      /\ spc["reaper"] = "wait"
  BY DEF Stopper
<1>3. /\ wpc \in [Worker -> {"none", "get", "check", "solve", "pop", "ended", "crashed"}]
      /\ running \in [Worker -> BOOLEAN] /\ heavy \in [Worker -> BOOLEAN]
      /\ idle \in [Worker -> BOOLEAN]
  OBVIOUS
<1>4. TypeOK
  BY <1>1, <1>2, <1>3 DEF TypeOK
<1> QED BY <1>1, <1>2, <1>4 DEF TInv, Holding

(* A step of the filter keeps the types (coap_worker_pool.py:137-174).     *)
LEMMA FilterTypes ==
    ASSUME TInv, Filter
    PROVE  TInv'
<1> USE PoolAssumption
<1> USE DEF TInv, TypeOK, Holding, AnyTask, NoWorker, worker, dispatch, internal,
            stoppers, history
<1>1. ASSUME NEW t \in Task, Receive(t) PROVE TInv'
  BY <1>1 DEF Receive, NextRound
<1>2. CASE ChooseListed
  BY <1>2 DEF ChooseListed
<1>3. CASE ChooseNew
  BY <1>3 DEF ChooseNew, Worker
<1>4. CASE Submit
  BY <1>4 DEF Submit
<1>5. CASE Mark
  BY <1>5 DEF Mark, MarkedAfter, NextRound
<1> QED BY <1>1, <1>2, <1>3, <1>4, <1>5 DEF Filter

(* A step of the command line keeps the types                              *)
(* (coap_worker_pool.py:218-232).                                          *)
LEMMA CliTypes ==
    ASSUME TInv, Cli
    PROVE  TInv'
<1> USE PoolAssumption
<1> USE DEF TInv, TypeOK, Holding, AnyTask, NoWorker, worker, dispatch, internal,
            stoppers, history
<1>1. ASSUME NEW t \in Internal, StartInternal(t) PROVE TInv'
  <2>1. created' \in Worker /\ created' \in 0 .. MaxWorkers
    BY <1>1 DEF StartInternal, Worker
  <2>2. <<t>> \in Seq(AnyTask \cup {Dummy})
    OBVIOUS
  <2>3. /\ queue' \in [Worker -> Seq(AnyTask \cup {Dummy})]
        /\ wpc' \in [Worker -> {"none", "get", "check", "solve", "pop", "ended",
                               "crashed"}]
    BY <1>1, <2>1, <2>2 DEF StartInternal
  <2>4. t \in Internal /\ ipc' = "append" /\ itask' = t /\ iworker' = created'
    BY <1>1 DEF StartInternal
  <2> QED BY <1>1, <2>1, <2>3, <2>4 DEF StartInternal
<1>2. CASE AppendWorker
  BY <1>2 DEF AppendWorker
<1>3. CASE MarkInternal
  BY <1>3 DEF MarkInternal
<1> QED BY <1>1, <1>2, <1>3 DEF Cli

(* A step of a worker keeps the types (coap_worker.py:60-74).              *)
LEMMA WorkTypes ==
    ASSUME TInv, NEW w \in Worker, Work(w) \/ IdleTimePasses(w)
    PROVE  TInv'
<1> USE PoolAssumption
<1> USE DEF TInv, TypeOK, Holding, AnyTask, NoWorker, worker, dispatch, internal,
            stoppers, history
<1>1. CASE Get(w)
  <2>1. Head(queue[w]) \in AnyTask \cup {Dummy} /\ Tail(queue[w]) \in Seq(AnyTask \cup {Dummy})
    BY <1>1, HeadTailProperties DEF Get
  <2> QED BY <1>1, <2>1 DEF Get
<1>2. CASE Leave(w)
  BY <1>2 DEF Leave
<1>3. CASE Start(w)
  BY <1>3 DEF Start
<1>4. CASE Solve(w)
  BY <1>4 DEF Solve
<1>5. CASE Raise(w)
  BY <1>5 DEF Raise
<1>6. CASE Pop(w)
  BY <1>6 DEF Pop, AfterTask
<1>7. CASE IdleTimePasses(w)
  BY <1>7 DEF IdleTimePasses
<1> QED BY <1>1, <1>2, <1>3, <1>4, <1>5, <1>6, <1>7 DEF Work

(* The flag and the dummy task of a stopped worker have their types        *)
(* (coap_worker.py:83-84).                                                 *)
LEMMA StopFlagTypes ==
    ASSUME TInv, NEW w \in Worker, StopFlag(w)
    PROVE  /\ running' \in [Worker -> BOOLEAN]
           /\ queue' \in [Worker -> Seq(AnyTask \cup {Dummy})]
BY DEF TInv, TypeOK, Holding, StopFlag, Woken

(* A step of the reaper keeps the types (coap_worker_pool.py:113-123).     *)
LEMMA ReaperTypes ==
    ASSUME TInv, Reaper
    PROVE  TInv'
<1> USE PoolAssumption
<1> USE DEF TInv, TypeOK, Holding, AnyTask, NoWorker, worker, dispatch, internal,
            stoppers, history, Stopper
<1>1. CASE ReapBegin
  BY <1>1 DEF ReapBegin
<1>2. CASE ReapNext
  <2>1. /\ position["reaper"] \in 1 .. Len(list)
        /\ list[position["reaper"]] \in Worker
    BY <1>2, ElementOfSeq DEF ReapNext
  <2>2. RemoveAt(list, position["reaper"]) \in Seq(Worker)
    BY <2>1, RemoveAtFacts
  <2> QED BY <1>2, <2>1, <2>2 DEF ReapNext, Without
<1>3. CASE ReapEnd
  BY <1>3 DEF ReapEnd
<1>4. CASE ReapStop
  <2>1. /\ running' \in [Worker -> BOOLEAN]
        /\ queue' \in [Worker -> Seq(AnyTask \cup {Dummy})]
    BY <1>4, StopFlagTypes DEF ReapStop
  <2> QED BY <1>4, <2>1 DEF ReapStop
<1> QED BY <1>1, <1>2, <1>3, <1>4 DEF Reaper

(* The end of a join, and a step of the pool's stop(), keep the types      *)
(* (coap_worker_pool.py:242-258).                                          *)
LEMMA StopTypes ==
    ASSUME TInv, NEW p \in Stopper,
           StopJoin(p) \/ (p \in Exiter /\ (StopBegin(p) \/ StopPool(p)))
    PROVE  TInv'
<1> USE PoolAssumption
<1> USE DEF TInv, TypeOK, Holding, AnyTask, NoWorker, worker, dispatch, internal,
            stoppers, history, Stopper
<1>1. CASE StopJoin(p)
  BY <1>1 DEF StopJoin
<1>2. CASE p \in Exiter /\ StopBegin(p)
  BY <1>2 DEF StopBegin
<1>3. CASE p \in Exiter /\ StopNext(p)
  <2>1. position[p] \in 1 .. Len(list) /\ list[position[p]] \in Worker
    BY <1>3, ElementOfSeq DEF StopNext
  <2>2. /\ running' \in [Worker -> BOOLEAN]
        /\ queue' \in [Worker -> Seq(AnyTask \cup {Dummy})]
    BY <1>3, <2>1, StopFlagTypes DEF StopNext
  <2>3. /\ spc' = [spc EXCEPT ![p] = "join"]
        /\ victim' = [victim EXCEPT ![p] = list[position[p]]]
        /\ position' = [position EXCEPT ![p] = @ + 1]
    BY <1>3 DEF StopNext
  <2>4. UNCHANGED <<marked, list, up, closed, created, wpc, task, heavy, idle, dispatch, internal>>
    BY <1>3 DEF StopNext
  <2>5. spc' \in [Stopper -> {"wait", "scan", "stop", "join", "ended",
                              "off", "each", "rest", "out"}]
    BY <2>3
  <2>6. victim' \in [Stopper -> Worker \cup {NoWorker}] /\ position' \in [Stopper -> Nat \ {0}]
    BY <2>1, <2>3
  <2>7. spc'["reaper"] = "stop" => victim'["reaper"] \in Worker
    BY <2>3, <2>1
  <2> QED BY <2>2, <2>4, <2>5, <2>6, <2>7
<1>4. CASE p \in Exiter /\ StopRest(p)
  BY <1>4 DEF StopRest
<1>5. CASE p \in Exiter /\ StopEnd(p)
  BY <1>5 DEF StopEnd
<1> QED BY <1>1, <1>2, <1>3, <1>4, <1>5 DEF StopPool

(* Every step keeps the types.                                             *)
LEMMA NextTypes == TInv /\ [Next]_vars => TInv'
<1> SUFFICES ASSUME TInv, [Next]_vars PROVE TInv'
  OBVIOUS
<1>1. CASE UNCHANGED vars
  BY <1>1 DEF vars, worker, dispatch, internal, stoppers, history, TInv, TypeOK,
              Holding, InQueue
<1>2. ASSUME NEW p \in Exiter, StopBegin(p) \/ StopPool(p) PROVE TInv'
  BY <1>2, StopTypes DEF Stopper
<1> QED BY <1>1, <1>2, FilterTypes, CliTypes, WorkTypes, ReaperTypes, StopTypes DEF Next

(* Every thread of the pool is at a step it has, the marks are work ids,   *)
(* and the list and the queues hold workers and tasks                      *)
(* (coap_worker_pool.py:31-69).                                            *)
THEOREM TypeCorrect == Spec => []TypeOK
<1>1. TInv => TypeOK
  BY DEF TInv
<1> QED BY <1>1, InitTypes, NextTypes, PTL DEF Spec

-----------------------------------------------------------------------------
(* One worker for a task *)

(* No task is with a worker at the start.                                  *)
LEMMA InitSInv == Init => SInv
<1> SUFFICES ASSUME Init PROVE SInv
  OBVIOUS
<1>1. \A t \in AnyTask : \A w \in Worker : ~ With(t, w) /\ ~ Has(t, queue[w])
  BY DEF Init, With, Has, InWork
<1>2. \A t \in AnyTask : \A w \in Worker : Once(t, queue[w])
  BY DEF Init, Once
<1>3. fpc = "receive"
  BY DEF Init
<1> QED BY <1>1, <1>2, <1>3, InitTypes
       DEF SInv, MarkedInTime, Unassigned, Alone, OnePlace

(* A step that hands no task to a worker and forgets no mark keeps what is *)
(* known of the tasks.                                                     *)
LEMMA NothingHanded ==
    ASSUME SInv, TInv',
           \A t \in AnyTask : \A w \in Worker : With(t, w)' => With(t, w),
           OnePlace',
           marked \subseteq marked', issued \subseteq issued',
           fpc' = fpc \/ (fpc = "choose" /\ fpc' = "submit"),
           fpacket' = fpacket
    PROVE  SInv'
<1>1. MarkedInTime' /\ Alone'
  BY DEF SInv, MarkedInTime, Known, Alone
<1>2. Unassigned'
  BY DEF SInv, Unassigned, TInv, Holding, AnyTask
<1> QED BY <1>1, <1>2 DEF SInv

(* A step that leaves the queues and the workers alone hands nothing over. *)
LEMMA SameHands ==
    ASSUME SInv, UNCHANGED <<queue, task, wpc>>
    PROVE  /\ OnePlace'
           /\ \A t, w : With(t, w)' <=> With(t, w)
BY DEF SInv, OnePlace, With, InWork

(* The filter hands a message over that nobody has, and marks it before it *)
(* looks at the next one (coap_worker_pool.py:165-174).                    *)
LEMMA FilterAlone ==
    ASSUME SInv, TInv', Filter
    PROVE  SInv'
<1> USE DEF worker, dispatch, internal, stoppers, history
<1>1. ASSUME NEW t \in Task, Receive(t) PROVE SInv'
  <2>1. UNCHANGED <<queue, task, wpc, marked, issued>>
    BY <1>1 DEF Receive
  <2>2. OnePlace' /\ \A s, w : With(s, w)' <=> With(s, w)
    BY <2>1, SameHands
  <2>3. fpc = "receive" /\ t \in AnyTask /\ t \notin Internal
    BY <1>1, PoolAssumption DEF Receive, AnyTask
  <2>4. fpc' # "submit" /\ fpc' # "mark" /\ (fpc' = "choose" => fpacket' = t /\ t \notin marked)
    BY <1>1 DEF Receive, IsNew, NextRound
  <2>5. MarkedInTime' /\ Alone'
    BY <2>1, <2>2, <2>3 DEF SInv, MarkedInTime, Known, Alone
  <2>6. Unassigned'
    BY <2>2, <2>3, <2>4 DEF SInv, MarkedInTime, Known, Unassigned
  <2> QED BY <2>2, <2>5, <2>6 DEF SInv
<1>2. CASE ChooseListed
  BY <1>2, SameHands, NothingHanded DEF ChooseListed
<1>3. CASE ChooseNew
  <2>1. /\ UNCHANGED <<queue, task, marked, issued, fpacket>>
        /\ fpc = "choose" /\ fpc' = "submit"
        /\ \A w \in Worker : wpc'[w] \in {wpc[w], "get"}
    BY <1>3 DEF ChooseNew, SInv, TInv, TypeOK
  <2>2. \A t \in AnyTask : \A w \in Worker :
           (With(t, w)' => With(t, w)) /\ (InWork(t, w)' => InWork(t, w))
    BY <2>1 DEF With, InWork
  <2>3. OnePlace'
    BY <2>1, <2>2 DEF SInv, OnePlace
  <2> QED BY <2>1, <2>2, <2>3, NothingHanded
<1>4. CASE Submit
  <2>1. /\ UNCHANGED <<task, wpc, marked, issued, fpacket>>
        /\ fpc = "submit" /\ fpc' = "mark" /\ fworker \in Worker /\ fpacket \in Task
        /\ queue' = [queue EXCEPT ![fworker] = Append(@, fpacket)]
    BY <1>4 DEF Submit, SInv, TInv, Holding
  <2>2. \A w \in Worker \ {fworker} : queue'[w] = queue[w]
    BY <2>1 DEF SInv, TInv, Holding
  <2>3. /\ queue'[fworker] = Append(queue[fworker], fpacket)
        /\ queue[fworker] \in Seq(AnyTask \cup {Dummy}) /\ fpacket \in AnyTask \cup {Dummy}
    BY <2>1 DEF SInv, TInv, Holding, AnyTask
  <2>4. \A w \in Worker : ~ With(fpacket, w)
    BY <2>1 DEF SInv, Unassigned
  <2>5. ASSUME NEW t \in AnyTask
        PROVE  /\ Has(t, queue'[fworker]) <=> Has(t, queue[fworker]) \/ fpacket = t
               /\ Once(t, queue'[fworker])
    BY <2>1, <2>3, <2>4, AppendFacts DEF SInv, OnePlace, With
  <2>6. \A t, w : InWork(t, w)' <=> InWork(t, w)
    BY <2>1 DEF InWork
  <2>7. \A t \in AnyTask : \A w \in Worker :
           With(t, w)' => With(t, w) \/ (t = fpacket /\ w = fworker)
    BY <2>2, <2>5, <2>6 DEF With
  <2>8. OnePlace'
    <3> SUFFICES ASSUME NEW t \in AnyTask, NEW w \in Worker
                 PROVE  Once(t, queue'[w]) /\ ~ (Has(t, queue'[w]) /\ InWork(t, w)')
      BY DEF OnePlace
    <3>1. CASE w = fworker
      BY <2>4, <2>5, <2>6, <3>1 DEF SInv, OnePlace, With
    <3>2. CASE w # fworker
      BY <2>2, <2>6, <3>2 DEF SInv, OnePlace
    <3> QED BY <3>1, <3>2
  <2>9. MarkedInTime'
    BY <2>1, <2>7, PoolAssumption DEF SInv, MarkedInTime, Known
  <2>10. Alone'
    BY <2>1, <2>4, <2>7 DEF SInv, Alone
  <2> QED BY <2>1, <2>8, <2>9, <2>10 DEF SInv, Unassigned
<1>5. CASE Mark
  <2>1. /\ UNCHANGED <<queue, task, wpc, issued>>
        /\ fpc = "mark" /\ fpc' \in {"receive", "ended"}
        /\ marked' = marked \cup {fpacket}
    BY <1>5 DEF Mark, MarkedAfter, NextRound
  <2>2. OnePlace' /\ \A s, w : With(s, w)' <=> With(s, w)
    BY <2>1, SameHands
  <2> QED BY <2>1, <2>2 DEF SInv, MarkedInTime, Known, Alone, Unassigned
<1> QED BY <1>1, <1>2, <1>3, <1>4, <1>5 DEF Filter

(* The command line hands a task over that it has not started before       *)
(* (coap_worker_pool.py:218-232).                                          *)
LEMMA CliAlone ==
    ASSUME SInv, TInv', Cli
    PROVE  SInv'
<1> USE DEF worker, dispatch, internal, stoppers, history
<1>1. ASSUME NEW t \in Internal, StartInternal(t) PROVE SInv'
  <2>0. PICK n \in Worker : n = created + 1
    BY <1>1 DEF StartInternal, SInv, TInv, TypeOK, Worker
  <2>1. /\ UNCHANGED <<task, marked, fpc, fpacket>>
        /\ queue' = [queue EXCEPT ![n] = <<t>>] /\ wpc' = [wpc EXCEPT ![n] = "get"]
        /\ t \notin issued /\ issued' = issued \cup {t}
    BY <1>1, <2>0 DEF StartInternal
  <2>2. \A w \in Worker \ {n} : queue'[w] = queue[w] /\ wpc'[w] = wpc[w]
    BY <2>1 DEF SInv, TInv, TypeOK, Holding
  <2>3. queue'[n] = <<t>> /\ wpc'[n] = "get"
    BY <2>1 DEF SInv, TInv, TypeOK, Holding
  <2>4. t \in AnyTask /\ \A w \in Worker : ~ With(t, w)
    BY <2>1 DEF SInv, MarkedInTime, Known, AnyTask
  <2>5. \A s : (Has(s, queue'[n]) <=> t = s) /\ Once(s, queue'[n]) /\ ~ InWork(s, n)'
    BY <2>3, SingleFacts DEF InWork
  <2>6. \A s : \A w \in Worker \ {n} : InWork(s, w)' <=> InWork(s, w)
    BY <2>1, <2>2 DEF InWork
  <2>7. \A s \in AnyTask : \A w \in Worker :
           With(s, w)' => \/ w # n /\ s # t /\ With(s, w)
                          \/ w = n /\ s = t
    <3> TAKE s \in AnyTask
    <3> TAKE w \in Worker
    <3>1. CASE w = n
      BY <2>5, <3>1 DEF With
    <3>2. CASE w # n
      BY <2>2, <2>4, <2>6, <3>2 DEF With
    <3> QED BY <3>1, <3>2
  <2>8. OnePlace'
    <3> SUFFICES ASSUME NEW s \in AnyTask, NEW w \in Worker
                 PROVE  Once(s, queue'[w]) /\ ~ (Has(s, queue'[w]) /\ InWork(s, w)')
      BY DEF OnePlace
    <3>1. CASE w = n
      BY <2>5, <3>1
    <3>2. CASE w # n
      BY <2>2, <2>6, <3>2 DEF SInv, OnePlace
    <3> QED BY <3>1, <3>2
  <2>9. MarkedInTime'
    BY <2>1, <2>7 DEF SInv, MarkedInTime, Known
  <2>10. Alone'
    BY <2>7 DEF SInv, Alone
  <2>11. Unassigned'
    <3> SUFFICES ASSUME fpc \in {"choose", "submit"}, NEW w \in Worker,
                        NEW s, s = fpacket
                 PROVE  ~ With(s, w)'
      BY <2>1 DEF Unassigned, With, InWork
    <3>1. s \in AnyTask /\ s # t
      BY PoolAssumption DEF SInv, TInv, Holding, AnyTask
    <3>2. ~ With(s, w)
      BY DEF SInv, Unassigned
    <3> QED BY <2>7, <3>1, <3>2
  <2> QED BY <2>8, <2>9, <2>10, <2>11 DEF SInv
<1>2. CASE AppendWorker
  BY <1>2, SameHands, NothingHanded DEF AppendWorker
<1>3. CASE MarkInternal
  BY <1>3, SameHands, NothingHanded DEF MarkInternal
<1> QED BY <1>1, <1>2, <1>3 DEF Cli

(* A worker takes a task from its queue and forgets its mark only when it  *)
(* has solved it (coap_worker.py:60-74).                                   *)
LEMMA WorkAlone ==
    ASSUME SInv, TInv', NEW w \in Worker, Work(w)
    PROVE  SInv'
<1> USE DEF worker, dispatch, internal, stoppers, history
<1> DEFINE Else == /\ \A v \in Worker \ {w} : task'[v] = task[v] /\ wpc'[v] = wpc[v]
                   /\ \A v \in Worker \ {w} : queue'[v] = queue[v]
<1>0. ASSUME Else, UNCHANGED <<issued, fpc, fpacket>>, marked \subseteq marked',
             \A t \in AnyTask : With(t, w)' => With(t, w),
             \A t \in AnyTask : Once(t, queue'[w]) /\ ~ (Has(t, queue'[w]) /\ InWork(t, w)')
      PROVE  SInv'
  <2>1. \A t \in AnyTask : \A v \in Worker : With(t, v)' => With(t, v)
    BY <1>0 DEF With, InWork
  <2>2. OnePlace'
    BY <1>0 DEF SInv, OnePlace, InWork
  <2> QED BY <1>0, <2>1, <2>2, NothingHanded
<1>1. CASE Get(w)
  <2>1. /\ queue[w] \in Seq(AnyTask \cup {Dummy}) /\ queue[w] # <<>>
        /\ queue'[w] = Tail(queue[w]) /\ task'[w] = Head(queue[w]) /\ wpc'[w] = "check"
        /\ Else /\ UNCHANGED <<issued, fpc, fpacket, marked>>
    BY <1>1 DEF Get, SInv, TInv, TypeOK, Holding
  <2>2. ASSUME NEW t \in AnyTask
        PROVE  /\ With(t, w)' => With(t, w)
               /\ Once(t, queue'[w]) /\ ~ (Has(t, queue'[w]) /\ InWork(t, w)')
    <3>1. Once(t, queue[w])
      BY DEF SInv, OnePlace
    <3>2. /\ Has(t, Tail(queue[w])) => Has(t, queue[w])
          /\ Head(queue[w]) = t => Has(t, queue[w])
          /\ Once(t, Tail(queue[w]))
          /\ Head(queue[w]) = t => ~ Has(t, Tail(queue[w]))
      BY <2>1, <3>1, TailFacts
    <3> QED BY <2>1, <3>2 DEF With, InWork
  <2> HIDE DEF Else
  <2> QED BY <1>0, <2>1, <2>2
<1>2. CASE Leave(w) \/ Start(w) \/ Solve(w) \/ Raise(w)
  <2>1. /\ UNCHANGED <<queue, task, issued, fpc, fpacket, marked>> /\ Else
        /\ wpc'[w] \in {"check", "solve", "pop"} => wpc[w] \in {"check", "solve", "pop"}
    <3>1. CASE Leave(w)
      BY <3>1 DEF Leave, SInv, TInv, TypeOK
    <3>2. CASE Start(w)
      BY <3>2 DEF Start, SInv, TInv, TypeOK
    <3>3. CASE Solve(w)
      BY <3>3 DEF Solve, SInv, TInv, TypeOK
    <3>4. CASE Raise(w)
      BY <3>4 DEF Raise, SInv, TInv, TypeOK
    <3> QED BY <1>2, <3>1, <3>2, <3>3, <3>4
  <2>2. \A t \in AnyTask : (With(t, w)' => With(t, w)) /\ (InWork(t, w)' => InWork(t, w))
    BY <2>1 DEF With, InWork
  <2>3. \A t \in AnyTask : Once(t, queue'[w]) /\ ~ (Has(t, queue'[w]) /\ InWork(t, w)')
    BY <2>1, <2>2 DEF SInv, OnePlace
  <2> HIDE DEF Else
  <2> QED BY <1>0, <2>1, <2>2, <2>3
<1>3. CASE Pop(w)
  <2>1. /\ UNCHANGED <<queue, issued, fpc, fpacket>> /\ Else
        /\ marked' = marked \ {task[w]} /\ wpc[w] = "pop"
        /\ wpc'[w] \in {"get", "ended"}
    BY <1>3 DEF Pop, AfterTask, SInv, TInv, TypeOK
  <2>2. \A t : ~ InWork(t, w)'
    BY <2>1 DEF InWork
  <2>3. \A t \in AnyTask : \A v \in Worker : With(t, v)' => With(t, v)
    BY <2>1, <2>2 DEF With, InWork
  <2>4. \A t \in AnyTask : \A v \in Worker : With(t, v)' => t # task[w]
    <3> SUFFICES ASSUME NEW t \in AnyTask, NEW v \in Worker, With(t, v)', t = task[w]
                 PROVE  FALSE
      OBVIOUS
    <3>1. InWork(t, w) /\ With(t, w)
      BY <2>1 DEF InWork, With
    <3>2. v = w
      BY <2>3, <3>1 DEF SInv, Alone
    <3>3. Has(t, queue[w])
      BY <2>1, <2>2, <3>2 DEF With
    <3> QED BY <3>1, <3>3 DEF SInv, OnePlace
  <2>5. MarkedInTime'
    BY <2>1, <2>3, <2>4 DEF SInv, MarkedInTime, Known
  <2>6. OnePlace'
    BY <2>1, <2>2 DEF SInv, OnePlace, InWork
  <2>7. Alone' /\ Unassigned'
    BY <2>1, <2>3 DEF SInv, Alone, Unassigned, TInv, Holding, AnyTask
  <2> QED BY <2>5, <2>6, <2>7 DEF SInv
<1> QED BY <1>1, <1>2, <1>3 DEF Work

(* The dummy task that wakes a stopped worker is none of the tasks         *)
(* (coap_worker.py:83-84).                                                 *)
LEMMA StopFlagAlone ==
    ASSUME SInv, TInv', NEW w \in Worker, StopFlag(w),
           UNCHANGED <<task, wpc, marked, issued, fpc, fpacket>>
    PROVE  SInv'
<1>1. /\ queue[w] \in Seq(AnyTask \cup {Dummy})
      /\ queue'[w] = Append(queue[w], Dummy)
      /\ \A v \in Worker \ {w} : queue'[v] = queue[v]
  BY DEF StopFlag, Woken, SInv, TInv, Holding
<1>2. \A t, v : InWork(t, v)' <=> InWork(t, v)
  BY DEF InWork
<1>3. ASSUME NEW t \in AnyTask
      PROVE  (Has(t, queue'[w]) <=> Has(t, queue[w])) /\ Once(t, queue'[w])
  <2>1. Dummy # t /\ Once(t, queue[w])
    BY PoolAssumption DEF AnyTask, SInv, OnePlace
  <2> QED BY <1>1, <2>1, AppendFacts
<1>4. \A t \in AnyTask : \A v \in Worker : With(t, v)' => With(t, v)
  BY <1>1, <1>2, <1>3 DEF With
<1>5. OnePlace'
  BY <1>1, <1>2, <1>3 DEF SInv, OnePlace
<1> QED BY <1>4, <1>5, NothingHanded

(* Every step keeps a task with one worker at most.                        *)
LEMMA NextSInv == SInv /\ [Next]_vars => SInv'
<1> SUFFICES ASSUME SInv, [Next]_vars PROVE SInv'
  OBVIOUS
<1> USE DEF worker, dispatch, internal, stoppers, history
<1>0. TInv'
  BY NextTypes DEF SInv
<1>1. CASE Filter \/ Cli
  BY <1>0, <1>1, FilterAlone, CliAlone
<1>2. ASSUME NEW w \in Worker, Work(w) PROVE SInv'
  BY <1>0, <1>2, WorkAlone
<1>3. ASSUME UNCHANGED <<queue, task, wpc, marked, issued, fpc, fpacket>>
      PROVE  SInv'
  BY <1>0, <1>3, SameHands, NothingHanded
<1>4. ASSUME NEW w \in Worker, IdleTimePasses(w) PROVE SInv'
  BY <1>3, <1>4 DEF IdleTimePasses
<1>5. CASE ReapBegin \/ ReapEnd
  BY <1>3, <1>5 DEF ReapBegin, ReapEnd
<1>6. CASE ReapNext
  BY <1>3, <1>6 DEF ReapNext
<1>7. CASE ReapStop
  BY <1>0, <1>7, StopFlagAlone DEF ReapStop, SInv, TInv, Holding
<1>8. ASSUME NEW p \in Stopper, StopJoin(p) PROVE SInv'
  BY <1>3, <1>8 DEF StopJoin
<1>9. ASSUME NEW p \in Exiter, StopBegin(p) \/ StopRest(p) \/ StopEnd(p) PROVE SInv'
  BY <1>3, <1>9 DEF StopBegin, StopRest, StopEnd
<1>10. ASSUME NEW p \in Exiter, StopNext(p) PROVE SInv'
  <2>1. list[position[p]] \in Worker
    BY <1>10, ElementOfSeq DEF StopNext, SInv, TInv, TypeOK, Stopper
  <2> QED BY <1>0, <1>10, <2>1, StopFlagAlone DEF StopNext
<1>11. CASE UNCHANGED vars
  BY <1>3, <1>11 DEF vars
<1> QED BY <1>1, <1>2, <1>4, <1>5, <1>6, <1>7, <1>8, <1>9, <1>10, <1>11
       DEF Next, Reaper, StopPool

(* No two workers ever hold the same message and none holds it twice,      *)
(* although its mark is set after the submission and removed by another    *)
(* thread (coap_worker_pool.py:167-169, coap_worker.py:73-74).             *)
THEOREM OneSolver == Spec => []SolvedByOne
<1>1. ASSUME SInv PROVE SolvedByOne
  <2> SUFFICES ASSUME NEW t \in AnyTask
               PROVE  /\ \A v, w \in Worker :
                            /\ InQueue(t, v) \/ InHand(t, v)
                            /\ InQueue(t, w) \/ InHand(t, w)
                            => v = w
                      /\ \A w \in Worker :
                            /\ Cardinality({i \in DOMAIN queue[w] : queue[w][i] = t}) <= 1
                            /\ ~ (InQueue(t, w) /\ InHand(t, w))
    BY DEF SolvedByOne
  <2>1. \A w \in Worker : (InQueue(t, w) <=> Has(t, queue[w])) /\ (InHand(t, w) => InWork(t, w))
    BY DEF InQueue, Has, InHand, InWork
  <2>2. \A v, w \in Worker :
           (InQueue(t, v) \/ InHand(t, v)) /\ (InQueue(t, w) \/ InHand(t, w)) => v = w
    BY <1>1, <2>1 DEF SInv, Alone, With
  <2>3. ASSUME NEW w \in Worker
        PROVE  Cardinality({i \in DOMAIN queue[w] : queue[w][i] = t}) <= 1
    <3> DEFINE places == {i \in DOMAIN queue[w] : queue[w][i] = t}
    <3>1. \A i, j \in places : i = j
      BY <1>1 DEF SInv, OnePlace, Once
    <3>2. CASE places = {}
      BY <3>2, FS_EmptySet
    <3>3. CASE places # {}
      <4>1. PICK i : places = {i}
        BY <3>1, <3>3
      <4>2. Cardinality({i}) = 1
        BY FS_Singleton
      <4> QED BY <4>1, <4>2
    <3> QED BY <3>2, <3>3
  <2>4. \A w \in Worker : ~ (InQueue(t, w) /\ InHand(t, w))
    BY <1>1, <2>1 DEF SInv, OnePlace
  <2> QED BY <2>2, <2>3, <2>4
<1> QED BY <1>1, InitSInv, NextSInv, PTL DEF Spec

-----------------------------------------------------------------------------
(* The list of workers *)

(* No worker is in the list, or flagged, at the start.                     *)
LEMMA InitLInv == Init => LInv
<1> SUFFICES ASSUME Init PROVE LInv
  OBVIOUS
<1>1. ToSet(list) = {} /\ Distinct(list)
  BY DEF Init, ToSet, Distinct
<1>2. /\ spc["reaper"] = "wait" /\ ipc = "ready"
      /\ \A p \in Exiter : spc[p] = "off"
      /\ \A w \in Worker : running[w]
  BY PoolAssumption DEF Init, Stopper
<1> QED BY <1>1, <1>2, InitTypes DEF LInv, Listed, Flagged

(* A step that leaves the list, the flags and the threads that use them    *)
(* alone                                                                   *)
LEMMA SameList ==
    ASSUME LInv, TInv', UNCHANGED <<list, created, running, up, spc, victim>>,
           ipc' # "append" \/ UNCHANGED <<ipc, iworker>>
    PROVE  LInv'
BY DEF LInv, Listed, Flagged, TInv

(* A new worker is in no list and nobody stops it                          *)
(* (coap_worker_pool.py:94-98).                                            *)
LEMMA Fresh ==
    ASSUME LInv, NEW n \in Worker, n = created + 1
    PROVE  /\ n \notin ToSet(list) /\ running[n]
           /\ spc["reaper"] = "stop" => victim["reaper"] # n
           /\ \A w \in ToSet(list) : w <= n
<1>1. n > created /\ created \in Nat /\ \A w \in Worker : w <= created => w # n /\ w <= n
  BY DEF LInv, TInv, TypeOK, Worker
<1>2. ToSet(list) \subseteq Worker
  BY LenProperties, ElementOfSeq DEF LInv, TInv, TypeOK, ToSet
<1> QED BY <1>1, <1>2 DEF LInv, TInv, TypeOK, Listed, Flagged

(* The filter adds a worker it has created (coap_worker_pool.py:94-98).    *)
LEMMA FilterListed ==
    ASSUME LInv, TInv', Filter
    PROVE  LInv'
<1> USE DEF worker, dispatch, internal, stoppers, history
<1>1. ASSUME NEW t \in Task, Receive(t) PROVE LInv'
  BY <1>1, SameList DEF Receive
<1>2. CASE ChooseListed \/ Submit \/ Mark
  BY <1>2, SameList DEF ChooseListed, Submit, Mark
<1>3. CASE ChooseNew
  <2>0. PICK n \in Worker : n = created + 1
    BY <1>3 DEF ChooseNew, LInv, TInv, TypeOK, Worker
  <2>1. /\ created' = n /\ list' = Append(list, n)
        /\ UNCHANGED <<running, up, spc, victim, ipc, iworker>>
    BY <1>3, <2>0 DEF ChooseNew
  <2>2. Distinct(list') /\ ToSet(list') = ToSet(list) \cup {n}
    BY <2>0, <2>1, Fresh, DistinctAppend DEF LInv, Listed, TInv, TypeOK
  <2>3. created \in Nat /\ Worker \subseteq Nat
    BY DEF LInv, TInv, TypeOK, Worker
  <2>4. Listed'
    <3>1. \A w \in ToSet(list') : w <= created'
      BY <2>0, <2>1, <2>2, <2>3, Fresh
    <3>2. ASSUME ipc = "append" PROVE iworker <= created' /\ iworker \notin ToSet(list')
      <4>1. iworker \in Nat /\ iworker <= created /\ iworker \notin ToSet(list)
        BY <3>2, <2>3 DEF LInv, Listed, TInv, Holding
      <4>2. iworker <= n /\ iworker # n
        BY <4>1, <2>0, <2>3
      <4> QED BY <4>1, <4>2, <2>1, <2>2
    <3>3. ASSUME spc["reaper"] = "stop"
          PROVE  /\ victim["reaper"] <= created' /\ victim["reaper"] \notin ToSet(list')
                 /\ ipc = "append" => victim["reaper"] # iworker
      <4>1. /\ victim["reaper"] \in Nat /\ victim["reaper"] <= created
            /\ victim["reaper"] \notin ToSet(list)
            /\ ipc = "append" => victim["reaper"] # iworker
        BY <3>3, <2>3 DEF LInv, Listed, TInv, Holding
      <4>2. victim["reaper"] <= n /\ victim["reaper"] # n
        BY <4>1, <2>0, <2>3
      <4> QED BY <4>1, <4>2, <2>1, <2>2
    <3> QED BY <2>1, <2>2, <3>1, <3>2, <3>3 DEF Listed
  <2>5. Flagged'
    BY <2>0, <2>1, <2>2, <2>3, Fresh DEF LInv, Flagged
  <2> QED BY <2>4, <2>5 DEF LInv
<1> QED BY <1>1, <1>2, <1>3 DEF Filter

(* The command line appends a worker it has started before                 *)
(* (coap_worker_pool.py:227-231).                                          *)
LEMMA CliListed ==
    ASSUME LInv, TInv', Cli
    PROVE  LInv'
<1> USE DEF worker, dispatch, internal, stoppers, history
<1>1. ASSUME NEW t \in Internal, StartInternal(t) PROVE LInv'
  <2>0. PICK n \in Worker : n = created + 1
    BY <1>1 DEF StartInternal, LInv, TInv, TypeOK, Worker
  <2>1. /\ created' = n /\ ipc' = "append" /\ iworker' = n
        /\ UNCHANGED <<list, running, up, spc, victim>>
    BY <1>1, <2>0 DEF StartInternal
  <2>2. created \in Nat /\ Worker \subseteq Nat
    BY DEF LInv, TInv, TypeOK, Worker
  <2>3. Listed'
    <3>1. spc["reaper"] = "stop" => victim["reaper"] <= n
      <4>1. spc["reaper"] = "stop" =>
               victim["reaper"] \in Nat /\ victim["reaper"] <= created
        BY <2>2 DEF LInv, Listed, TInv, Holding
      <4> QED BY <4>1, <2>0, <2>2
    <3> QED BY <2>0, <2>1, <2>2, <3>1, Fresh DEF LInv, Listed
  <2>4. Flagged'
    BY <2>0, <2>1, <2>2, Fresh DEF LInv, Flagged
  <2> QED BY <2>3, <2>4 DEF LInv
<1>2. CASE AppendWorker
  <2>1. /\ ipc = "append" /\ ipc' = "mark" /\ list' = Append(list, iworker)
        /\ UNCHANGED <<created, running, up, spc, victim, iworker>>
    BY <1>2 DEF AppendWorker
  <2>2. iworker \in Worker /\ iworker \notin ToSet(list) /\ iworker <= created
    BY <2>1 DEF LInv, Listed, TInv, Holding
  <2>3. Distinct(list') /\ ToSet(list') = ToSet(list) \cup {iworker}
    BY <2>1, <2>2, DistinctAppend DEF LInv, Listed, TInv, TypeOK
  <2>4. Listed'
    BY <2>1, <2>2, <2>3 DEF LInv, Listed
  <2>5. Flagged'
    BY <2>1, <2>2, <2>3 DEF LInv, Flagged
  <2> QED BY <2>4, <2>5 DEF LInv
<1>3. CASE MarkInternal
  BY <1>3, SameList DEF MarkInternal
<1> QED BY <1>1, <1>2, <1>3 DEF Cli

(* The reaper takes a worker out of the list before it stops it            *)
(* (coap_worker_pool.py:119-122).                                          *)
LEMMA ReaperListed ==
    ASSUME LInv, TInv', Reaper
    PROVE  LInv'
<1> USE DEF worker, dispatch, internal, stoppers, history
<1>0. spc \in [Stopper -> {"wait", "scan", "stop", "join", "ended",
                           "off", "each", "rest", "out"}] /\ "reaper" \in Stopper
      /\ "reaper" \notin Exiter /\ Exiter \subseteq Stopper
  BY PoolAssumption DEF LInv, TInv, TypeOK, Stopper
<1>1. ASSUME UNCHANGED <<list, created, running, up, victim, ipc, iworker>>,
             \A p \in Exiter : spc'[p] = spc[p],
             spc'["reaper"] \in {"wait", "scan", "ended", "join"}
      PROVE  LInv'
  BY <1>1 DEF LInv, Listed, Flagged
<1>2. CASE ReapBegin
  BY <1>0, <1>1, <1>2 DEF ReapBegin
<1>3. CASE ReapEnd
  BY <1>0, <1>1, <1>3 DEF ReapEnd
<1>4. CASE ReapNext
  <2> DEFINE i == position["reaper"]
  <2>1. i \in 1 .. Len(list)
    BY <1>0, <1>4 DEF ReapNext, LInv, TInv, TypeOK
  <2>2. CASE MayReap(list[i])
    <3>1. /\ list' = RemoveAt(list, i) /\ spc' = [spc EXCEPT !["reaper"] = "stop"]
          /\ victim' = [victim EXCEPT !["reaper"] = list[i]]
          /\ UNCHANGED <<created, running, up, ipc, iworker>>
      BY <1>4, <2>2 DEF ReapNext, Without
    <3>2. /\ spc'["reaper"] = "stop" /\ victim'["reaper"] = list[i]
          /\ \A p \in Exiter : spc'[p] = spc[p]
      BY <1>0, <3>1 DEF LInv, TInv, TypeOK
    <3>3. list[i] \in ToSet(list)
      BY <2>1, LenProperties DEF ToSet, LInv, TInv, TypeOK
    <3>4. /\ Distinct(list') /\ ToSet(list') \subseteq ToSet(list)
          /\ list[i] \notin ToSet(list')
      BY <2>1, <3>1, DistinctRemoveAt DEF LInv, Listed, TInv, TypeOK
    <3> HIDE DEF i
    <3>5. Listed'
      BY <3>1, <3>2, <3>3, <3>4 DEF LInv, Listed
    <3>6. Flagged'
      BY <3>1, <3>2, <3>4 DEF LInv, Flagged
    <3> QED BY <3>5, <3>6 DEF LInv
  <2>3. CASE ~ MayReap(list[i])
    BY <1>4, <2>3, SameList DEF ReapNext
  <2> QED BY <2>2, <2>3
<1>5. CASE ReapStop
  <2>1. /\ spc["reaper"] = "stop" /\ victim["reaper"] \in Worker
        /\ running' = [running EXCEPT ![victim["reaper"]] = FALSE]
        /\ spc' = [spc EXCEPT !["reaper"] = "join"]
        /\ UNCHANGED <<list, created, up, victim, ipc, iworker>>
    BY <1>5 DEF ReapStop, StopFlag, LInv, TInv, Holding
  <2>2. spc'["reaper"] = "join" /\ \A p \in Exiter : spc'[p] = spc[p]
    BY <1>0, <2>1
  <2>3. \A w \in Worker : ~ running'[w] => ~ running[w] \/ w = victim["reaper"]
    BY <2>1 DEF LInv, TInv, TypeOK
  <2>4. ipc = "append" => running'[iworker] = running[iworker]
    BY <2>1 DEF LInv, Listed, TInv, TypeOK, Holding
  <2>5. Listed'
    BY <2>1, <2>2 DEF LInv, Listed
  <2>6. Flagged'
    BY <2>1, <2>2, <2>3, <2>4 DEF LInv, Flagged, Listed
  <2> QED BY <2>5, <2>6 DEF LInv
<1> QED BY <1>2, <1>3, <1>4, <1>5 DEF Reaper

(* The pool's stop() flags listed workers, after it has cleared the pool's *)
(* flag (coap_worker_pool.py:246-254).                                     *)
LEMMA StopListed ==
    ASSUME LInv, TInv', NEW p \in Stopper,
           StopJoin(p) \/ (p \in Exiter /\ (StopBegin(p) \/ StopPool(p)))
    PROVE  LInv'
<1> USE DEF worker, dispatch, internal, stoppers, history
<1>0. spc \in [Stopper -> {"wait", "scan", "stop", "join", "ended",
                           "off", "each", "rest", "out"}] /\ "reaper" \in Stopper
      /\ "reaper" \notin Exiter /\ Exiter \subseteq Stopper
  BY PoolAssumption DEF LInv, TInv, TypeOK, Stopper
<1>1. CASE StopJoin(p)
  <2>1. /\ UNCHANGED <<list, created, running, up, ipc, iworker>> /\ spc[p] = "join"
        /\ spc'[p] = IF p = "reaper" THEN "scan" ELSE "each"
        /\ \A q \in Stopper \ {p} : spc'[q] = spc[q] /\ victim'[q] = victim[q]
    BY <1>0, <1>1 DEF StopJoin, LInv, TInv, TypeOK
  <2>2. p # "reaper" => p \in Exiter
    BY DEF Stopper
  <2>3. Listed'
    BY <1>0, <2>1 DEF LInv, Listed
  <2>4. Flagged'
    BY <1>0, <2>1, <2>2 DEF LInv, Flagged
  <2> QED BY <2>3, <2>4 DEF LInv
<1>2. CASE p \in Exiter /\ StopBegin(p)
  <2>1. /\ UNCHANGED <<list, created, running, victim, ipc, iworker>> /\ up' = FALSE
        /\ spc'["reaper"] = spc["reaper"]
    BY <1>0, <1>2 DEF StopBegin
  <2> QED BY <2>1 DEF LInv, Listed, Flagged
<1>3. CASE p \in Exiter /\ StopNext(p)
  <2>1. /\ UNCHANGED <<list, created, up, ipc, iworker>> /\ ~ up
        /\ spc'["reaper"] = spc["reaper"] /\ victim'["reaper"] = victim["reaper"]
        /\ running' = [running EXCEPT ![list[position[p]]] = FALSE]
    BY <1>0, <1>3 DEF StopNext, StopFlag, LInv, Flagged, TInv, TypeOK
  <2>2. position[p] \in 1 .. Len(list)
    BY <1>0, <1>3 DEF StopNext, LInv, TInv, TypeOK
  <2>3. list[position[p]] \in ToSet(list)
    BY <2>2, LenProperties DEF ToSet, LInv, TInv, TypeOK
  <2>4. \A w \in Worker : ~ running'[w] => w <= created
    BY <2>1, <2>3 DEF LInv, Listed, Flagged, TInv, TypeOK
  <2> QED BY <2>1, <2>4 DEF LInv, Listed, Flagged
<1>4. CASE p \in Exiter /\ (StopRest(p) \/ StopEnd(p))
  <2>1. /\ UNCHANGED <<list, created, running, up, victim, ipc, iworker>>
        /\ spc[p] \in {"each", "rest"}
        /\ spc'["reaper"] = spc["reaper"]
    BY <1>0, <1>4 DEF StopRest, StopEnd
  <2>2. ~ up
    BY <1>4, <2>1 DEF LInv, Flagged
  <2> QED BY <2>1, <2>2 DEF LInv, Listed, Flagged
<1> QED BY <1>1, <1>2, <1>3, <1>4 DEF StopPool

(* Every step keeps the list free of stopped workers.                      *)
LEMMA NextLInv == LInv /\ [Next]_vars => LInv'
<1> SUFFICES ASSUME LInv, [Next]_vars PROVE LInv'
  OBVIOUS
<1> USE DEF worker, dispatch, internal, stoppers, history
<1>0. TInv'
  BY NextTypes DEF LInv
<1>1. CASE Filter \/ Cli \/ Reaper
  BY <1>0, <1>1, FilterListed, CliListed, ReaperListed
<1>2. ASSUME NEW w \in Worker, Work(w) PROVE LInv'
  <2>1. UNCHANGED <<list, created, running, up, spc, victim, ipc, iworker>>
    BY <1>2 DEF Work, Get, Leave, Start, Solve, Raise, Pop
  <2> QED BY <1>0, <2>1, SameList
<1>3. ASSUME NEW w \in Worker, IdleTimePasses(w) PROVE LInv'
  BY <1>0, <1>3, SameList DEF IdleTimePasses
<1>4. ASSUME NEW p \in Stopper, StopJoin(p) PROVE LInv'
  BY <1>0, <1>4, StopListed
<1>5. ASSUME NEW p \in Exiter, StopBegin(p) \/ StopPool(p) PROVE LInv'
  BY <1>0, <1>5, StopListed DEF Stopper
<1>6. CASE UNCHANGED vars
  BY <1>0, <1>6, SameList DEF vars
<1> QED BY <1>1, <1>2, <1>3, <1>4, <1>5, <1>6 DEF Next

(* No worker is twice in the list, and while the pool runs the one that is *)
(* being stopped is not in it and gets no task from a later choice         *)
(* (coap_worker_pool.py:94-98, 119-122, 227-231).                          *)
THEOREM Unlisted == Spec => []StoppedIsUnlisted
<1>1. LInv => StoppedIsUnlisted
  BY DEF LInv, Listed, Flagged, Distinct, StoppedIsUnlisted
<1> QED BY <1>1, InitLInv, NextLInv, PTL DEF Spec

(* The reaper never takes the last worker out of the list, whatever the    *)
(* others do to the list meanwhile (coap_worker_pool.py:119-121).          *)
THEOREM LastOneStays == Spec => OneStays
<1> USE DEF worker, dispatch, internal, stoppers, history
<1>1. ASSUME TInv, [Next]_vars, list # <<>>
      PROVE  list' # <<>>
  <2>0. list \in Seq(Worker) /\ created \in 0 .. MaxWorkers
    BY <1>1 DEF TInv, TypeOK
  <2>1. CASE Filter
    <3>1. \A n \in Worker : Append(list, n) # <<>>
      BY <2>0, AppendProperties
    <3>2. CASE ChooseNew
      <4>1. PICK n \in Worker : n = created + 1
        BY <2>0, <3>2, PoolAssumption DEF ChooseNew, Worker
      <4> QED BY <3>1, <3>2, <4>1 DEF ChooseNew
    <3>3. CASE ChooseListed \/ Submit \/ Mark
      BY <1>1, <3>3 DEF ChooseListed, Submit, Mark
    <3>4. CASE \E t \in Task : Receive(t)
      BY <1>1, <3>4 DEF Receive
    <3> QED BY <2>1, <3>2, <3>3, <3>4 DEF Filter
  <2>2. CASE Cli
    <3>1. CASE AppendWorker
      <4>1. iworker \in Worker /\ list' = Append(list, iworker)
        BY <1>1, <3>1 DEF AppendWorker, TInv, Holding
      <4> QED BY <2>0, <4>1, AppendProperties
    <3>2. CASE MarkInternal \/ \E t \in Internal : StartInternal(t)
      BY <1>1, <3>2 DEF MarkInternal, StartInternal
    <3> QED BY <2>2, <3>1, <3>2 DEF Cli
  <2>3. CASE Reaper
    <3>1. CASE ReapNext
      <4>1. CASE MayReap(list[position["reaper"]])
        <5>1. /\ list' = RemoveAt(list, position["reaper"]) /\ Len(list) > 1
              /\ position["reaper"] \in 1 .. Len(list)
          BY <1>1, <3>1, <4>1 DEF ReapNext, MayReap, Without, TInv, TypeOK, Stopper
        <5>2. Len(list') = Len(list) - 1
          BY <2>0, <5>1, RemoveAtFacts
        <5>3. Len(<<>>) = 0 /\ Len(list) \in Nat
          BY <2>0, EmptySeq, LenProperties
        <5> QED BY <5>1, <5>2, <5>3
      <4>2. CASE ~ MayReap(list[position["reaper"]])
        BY <1>1, <3>1, <4>2 DEF ReapNext
      <4> QED BY <4>1, <4>2
    <3>2. CASE ReapBegin \/ ReapEnd \/ ReapStop
      BY <1>1, <3>2 DEF ReapBegin, ReapEnd, ReapStop
    <3> QED BY <2>3, <3>1, <3>2 DEF Reaper
  <2>4. ASSUME NEW p \in Stopper, StopJoin(p) PROVE list' = list
    BY <2>4 DEF StopJoin
  <2>5. ASSUME NEW p \in Exiter, StopBegin(p) \/ StopPool(p) PROVE list' = list
    BY <2>5 DEF StopBegin, StopPool, StopNext, StopRest, StopEnd
  <2>6. ASSUME NEW w \in Worker, Work(w) \/ IdleTimePasses(w) PROVE list' = list
    BY <2>6 DEF Work, Get, Leave, Start, Solve, Raise, Pop, IdleTimePasses
  <2>7. CASE UNCHANGED vars
    BY <1>1, <2>7 DEF vars
  <2> QED BY <1>1, <2>1, <2>2, <2>3, <2>4, <2>5, <2>6, <2>7 DEF Next
<1>2. TInv /\ [Next]_vars => [list # <<>> => list' # <<>>]_vars
  BY <1>1
<1> QED BY <1>2, InitTypes, NextTypes, PTL DEF Spec, OneStays
=============================================================================
