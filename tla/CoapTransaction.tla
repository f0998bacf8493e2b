--------------------------- MODULE CoapTransaction ---------------------------
(***************************************************************************)
(* The retransmission timer of one confirmable message                     *)
(* (coap_transaction.py), polled by the solver thread of the pool.  Time   *)
(* is counted in ticks; the solver polls a transaction at moments it does  *)
(* not choose, at most "limit" ticks apart (one second of wait, the length *)
(* of a pass over the other transactions, and the scheduler).  A poll      *)
(* takes less than a tick.                                                 *)
(***************************************************************************)
EXTENDS Naturals

CONSTANTS
    AckTimeout,     \* ACK_TIMEOUT in ticks
    Limits          \* the longest times between two polls to consider

ASSUME TimeAssumption == AckTimeout \in Nat \ {0} /\ Limits \subseteq Nat \ {0}

MaxRetransmit == 4                              \* MAX_RETRANSMIT

(* MAX_RETRANSMISSION_SPAN and MAX_RETRANSMISSION_WAIT, doubled because    *)
(* ACK_RANDOM_FACTOR is 3/2                                                *)
TwiceMaxSpan_NoRandomFactor == 2 * 15 * AckTimeout
TwiceMaxSpan == 3 * 15 * AckTimeout
TwiceMaxWait == 3 * 31 * AckTimeout

VARIABLES
    status,     \* "waiting", "acked" or "failed"
    elapsed,    \* time since __timer was reset
    timeout,    \* __ack_timeout
    span,       \* __transmit_time_span
    counter,    \* __retransmission_counter
    limit,      \* longest time between two polls, fixed in a behaviour
    gap,        \* time since the last poll
    sent,       \* history: datagrams sent, the first one included
    age         \* history: time since the first datagram

timer == <<elapsed, timeout, span, counter>>
vars == <<status, timer, limit, gap, sent, age>>

(* add_transaction sends, then the constructor starts the timer. *)
Init ==
    /\ status = "waiting"
    /\ elapsed = 0 /\ timeout = AckTimeout /\ span = 0 /\ counter = 0
    /\ limit \in Limits /\ gap = 0
    /\ sent = 1 /\ age = 0

Tick ==
    /\ status = "waiting"
    /\ gap < limit
    /\ elapsed' = elapsed + 1
    /\ gap' = gap + 1
    /\ age' = age + 1
    /\ UNCHANGED <<status, timeout, span, counter, limit, sent>>

(* The filter deletes the transaction from the pool. *)
Ack ==
    /\ status = "waiting"
    /\ status' = "acked"
    /\ UNCHANGED <<timer, limit, gap, sent, age>>

(* run_transaction returns NO_ACTION. *)
PollEarly ==
    /\ status = "waiting"
    /\ elapsed <= timeout
    /\ gap' = 0
    /\ UNCHANGED <<status, timer, limit, sent, age>>

(* The timeout after one that passed *)
Backoff_Constant(t) == t
Backoff_Fourfold(t) == 4 * t
Backoff(t) == 2 * t

(* The test after the updates of lines 82-86 *)
LimitReached_OffByOne(s, c) == 2 * s > TwiceMaxSpan \/ c >= MaxRetransmit
LimitReached_OneMore(s, c) == c > MaxRetransmit + 1
LimitReached(s, c) == 2 * s > TwiceMaxSpan \/ c > MaxRetransmit

Expire ==
    /\ status = "waiting"
    /\ elapsed > timeout
    /\ span' = span + elapsed
    /\ timeout' = Backoff(timeout)
    /\ counter' = counter + 1
    /\ elapsed' = 0
    /\ gap' = 0
    /\ UNCHANGED <<limit, age>>

(* run_transaction returns RETRANSMISSION. *)
PollRetransmit ==
    /\ Expire
    /\ ~ LimitReached(span', counter')
    /\ sent' = sent + 1
    /\ UNCHANGED status

(* run_transaction sends FAILED_REQUEST and returns FAILED_TRANSACTION;    *)
(* the solver then removes the request's transactions.                     *)
PollFail ==
    /\ Expire
    /\ LimitReached(span', counter')
    /\ status' = "failed"
    /\ UNCHANGED sent

Poll_NeverGivesUp == PollEarly \/ PollRetransmit
Poll == PollEarly \/ PollRetransmit \/ PollFail

Next == Tick \/ Ack \/ Poll

Spec == Init /\ [][Next]_vars

(* Time passes and the solver polls, as long as its thread lives. *)
FairSpec == Spec /\ WF_vars(Tick) /\ WF_vars(Poll)

-----------------------------------------------------------------------------
(* Properties *)

(* The counter and the datagrams stay within the limit of                  *)
(* coap_transaction.py:91-93, and polls come as often as assumed.          *)
TypeOK ==
    /\ status \in {"waiting", "acked", "failed"}
    /\ elapsed \in Nat /\ timeout \in Nat /\ span \in Nat
    /\ counter \in 0 .. MaxRetransmit + 1
    /\ limit \in Limits /\ gap \in 0 .. limit
    /\ sent \in 1 .. MaxRetransmit + 1 /\ age \in Nat

(* Exponential backoff over the whole life of the message: the datagram    *)
(* number n + 1 leaves later than (2^n - 1) ACK_TIMEOUT after the first,   *)
(* however irregularly the solver polls.                                   *)
SpacedOut == age >= (2 ^ (sent - 1) - 1) * AckTimeout + (sent - 1)

(* The peer is given up only after MAX_RETRANSMISSION_SPAN, however seldom *)
(* the solver polls.                                                       *)
GivenUpLate == status = "failed" => 2 * age > TwiceMaxSpan

(* When the solver comes by at least every 15/8 ACK_TIMEOUT, no delay of   *)
(* the polls makes the span limit bite before the last retransmission ...  *)
Punctual == 8 * limit <= 15 * AckTimeout
AllAttempts ==
    Punctual /\ status = "failed" =>
        sent = 1 + MaxRetransmit /\ age > 31 * AckTimeout

(* ... and the outcome is known within MAX_RETRANSMISSION_WAIT, a constant *)
(* the code defines and never uses.                                        *)
InTime == Punctual => 2 * age <= TwiceMaxWait

(* A message does not wait for ever, if the solver lives. *)
Ends == <>(status # "waiting")

=============================================================================
