------------------------ MODULE CoapTransactionProofs ------------------------
(***************************************************************************)
(* Proofs about CoapTransaction for every ACK_TIMEOUT and every limit on   *)
(* the time between two polls.                                             *)
(***************************************************************************)
EXTENDS CoapTransaction, TLAPS

(* The bounds on the time span and the value of the timeout, for every     *)
(* value of the counter: a timeout that expires is found late by at most   *)
(* the time between two polls.                                             *)
Stage(c, pow) ==
    counter = c =>
        /\ timeout = pow * AckTimeout
        /\ span >= (pow - 1) * AckTimeout + c
        /\ span <= (pow - 1) * AckTimeout + c * limit

Stages == /\ Stage(0, 1) /\ Stage(1, 2) /\ Stage(2, 4)
          /\ Stage(3, 8) /\ Stage(4, 16) /\ Stage(5, 32)

(* The clock of the message is what its timer counted. *)
Clock == age = span + elapsed

(* A message that is not given up is within its limits. *)
Alive == status # "failed" =>
    /\ counter \in 0 .. 4
    /\ sent = counter + 1
    /\ elapsed <= timeout + gap
    /\ 2 * span <= TwiceMaxSpan

GivenUp == status = "failed" =>
    /\ counter \in 1 .. 5
    /\ sent = counter
    /\ elapsed = 0
    /\ counter = 5 \/ 2 * span > TwiceMaxSpan

TInv == TypeOK /\ Stages /\ Clock /\ Alive /\ GivenUp

(* The invariant holds when the timer starts.                              *)
LEMMA InitTInv == Init => TInv
BY TimeAssumption DEF Init, TInv, TypeOK, Stages, Stage, Clock, Alive, GivenUp,
                      MaxRetransmit, TwiceMaxSpan

(* A timeout that passed leads to the next stage                           *)
(* (coap_transaction.py:81-89).                                            *)
LEMMA ExpireStages == TInv /\ Expire => Stages' /\ Clock' /\ counter' \in 1 .. 5
<1> SUFFICES ASSUME TInv, Expire PROVE Stages' /\ Clock' /\ counter' \in 1 .. 5
  OBVIOUS
<1> USE TimeAssumption
<1>1. /\ counter \in 0 .. 4
      /\ span \in Nat /\ elapsed \in Nat /\ timeout \in Nat /\ limit \in Nat
      /\ elapsed > timeout /\ elapsed <= timeout + limit
  BY DEF TInv, TypeOK, Alive, Expire
<1>2. /\ span' = span + elapsed /\ timeout' = 2 * timeout
      /\ counter' = counter + 1 /\ elapsed' = 0 /\ UNCHANGED <<limit, age>>
  BY DEF Expire, Backoff
<1>3. Clock'
  BY <1>1, <1>2 DEF TInv, Clock
<1>4. Stages'
  BY <1>1, <1>2 DEF TInv, Stages, Stage
<1> QED BY <1>1, <1>2, <1>3, <1>4

(* Every step keeps the invariant.                                         *)
LEMMA NextTInv == TInv /\ [Next]_vars => TInv'
<1> SUFFICES ASSUME TInv, [Next]_vars PROVE TInv'
  OBVIOUS
<1> USE TimeAssumption
<1> USE DEF TInv, TypeOK, Stages, Stage, Clock, Alive, GivenUp, MaxRetransmit,
            TwiceMaxSpan
<1>1. CASE Tick
  BY <1>1 DEF Tick
<1>2. CASE Ack
  BY <1>2 DEF Ack, timer
<1>3. CASE PollEarly
  BY <1>3 DEF PollEarly, timer
<1>4. CASE PollRetransmit
  <2>1. Stages' /\ Clock' /\ counter' \in 1 .. 5
    BY <1>4, ExpireStages DEF PollRetransmit
  <2>2. TypeOK'
    BY <1>4, <2>1 DEF PollRetransmit, Expire, Backoff, LimitReached
  <2>3. Alive' /\ GivenUp'
    BY <1>4, <2>1 DEF PollRetransmit, Expire, Backoff, LimitReached
  <2> QED BY <2>1, <2>2, <2>3
<1>5. CASE PollFail
  <2>1. Stages' /\ Clock' /\ counter' \in 1 .. 5
    BY <1>5, ExpireStages DEF PollFail
  <2>2. TypeOK'
    BY <1>5, <2>1 DEF PollFail, Expire, Backoff
  <2>3. Alive' /\ GivenUp'
    BY <1>5, <2>1 DEF PollFail, Expire, LimitReached
  <2> QED BY <2>1, <2>2, <2>3
<1>6. CASE UNCHANGED vars
  BY <1>6 DEF vars, timer
<1> QED BY <1>1, <1>2, <1>3, <1>4, <1>5, <1>6 DEF Next, Poll

(* The invariant holds always.                                             *)
LEMMA AlwaysTInv == Spec => []TInv
BY InitTInv, NextTInv, PTL DEF Spec

(* The timer's counter and the number of datagrams stay within the limit   *)
(* of coap_transaction.py:91-93, and the others are naturals.              *)
THEOREM TypeCorrect == Spec => []TypeOK
<1>1. TInv => TypeOK
  BY DEF TInv
<1> QED BY <1>1, AlwaysTInv, PTL

(* Exponential backoff (coap_transaction.py:81-102): the datagram n + 1    *)
(* leaves later than (2^n - 1) ACK_TIMEOUT after the first one.            *)
THEOREM Backoffs == Spec => []SpacedOut
<1>1. ASSUME TInv PROVE SpacedOut
  <2>1. sent \in {counter, counter + 1} /\ counter \in 0 .. 5 /\ sent \in 1 .. 5
    BY <1>1 DEF TInv, TypeOK, Alive, GivenUp, MaxRetransmit
  <2>2. age >= span /\ span \in Nat /\ age \in Nat
    BY <1>1 DEF TInv, TypeOK, Clock
  <2>3. /\ sent = 1 => span >= 0
        /\ sent = 2 => span >= AckTimeout + 1
        /\ sent = 3 => span >= 3 * AckTimeout + 2
        /\ sent = 4 => span >= 7 * AckTimeout + 3
        /\ sent = 5 => span >= 15 * AckTimeout + 4
    BY <1>1, <2>1, <2>2, TimeAssumption DEF TInv, Stages, Stage
  <2>4. 2 ^ 0 = 1 /\ 2 ^ 1 = 2 /\ 2 ^ 2 = 4 /\ 2 ^ 3 = 8 /\ 2 ^ 4 = 16
    OBVIOUS
  <2>5. CASE sent = 1 BY <2>2, <2>3, <2>4, <2>5, TimeAssumption DEF SpacedOut
  <2>6. CASE sent = 2 BY <2>2, <2>3, <2>4, <2>6, TimeAssumption DEF SpacedOut
  <2>7. CASE sent = 3 BY <2>2, <2>3, <2>4, <2>7, TimeAssumption DEF SpacedOut
  <2>8. CASE sent = 4 BY <2>2, <2>3, <2>4, <2>8, TimeAssumption DEF SpacedOut
  <2>9. CASE sent = 5 BY <2>2, <2>3, <2>4, <2>9, TimeAssumption DEF SpacedOut
  <2> QED BY <2>1, <2>5, <2>6, <2>7, <2>8, <2>9
<1> QED BY <1>1, AlwaysTInv, PTL

(* A peer is never given up before MAX_RETRANSMISSION_SPAN, however late   *)
(* the solver polls (coap_transaction.py:92-98).                           *)
THEOREM NeverTooSoon == Spec => []GivenUpLate
<1>1. TInv => GivenUpLate
  BY TimeAssumption DEF TInv, TypeOK, GivenUp, Clock, Stages, Stage, GivenUpLate,
                        TwiceMaxSpan
<1> QED BY <1>1, AlwaysTInv, PTL

(* With a punctual solver every message gets its MAX_RETRANSMIT            *)
(* retransmissions: the span limit of line 92 never bites before the       *)
(* counter does.                                                           *)
THEOREM FullEffort == Spec => []AllAttempts
<1>1. ASSUME TInv, Punctual, status = "failed"
      PROVE  sent = 1 + MaxRetransmit /\ age > 31 * AckTimeout
  <2>1. counter = 5
    BY <1>1, TimeAssumption DEF TInv, TypeOK, GivenUp, Stages, Stage, Punctual,
                                TwiceMaxSpan
  <2> QED BY <1>1, <2>1, TimeAssumption DEF TInv, TypeOK, GivenUp, Stages, Stage,
                                            Clock, MaxRetransmit
<1> QED BY <1>1, AlwaysTInv, PTL DEF AllAttempts

(* With a punctual solver the outcome of a message is known within         *)
(* MAX_RETRANSMISSION_WAIT of its first datagram.                          *)
THEOREM KnownInTime == Spec => []InTime
<1>1. ASSUME TInv, Punctual PROVE 2 * age <= TwiceMaxWait
  <2>1. CASE status = "failed"
    BY <1>1, <2>1, TimeAssumption DEF TInv, TypeOK, GivenUp, Stages, Stage, Clock,
                                      Punctual, TwiceMaxWait
  <2>2. CASE status # "failed"
    BY <1>1, <2>2, TimeAssumption DEF TInv, TypeOK, Alive, Stages, Stage, Clock,
                                      Punctual, TwiceMaxWait
  <2> QED BY <2>1, <2>2
<1> QED BY <1>1, AlwaysTInv, PTL DEF InTime

=============================================================================
