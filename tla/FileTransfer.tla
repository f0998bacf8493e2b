---------------------------- MODULE FileTransfer ----------------------------
(***************************************************************************)
(* What the receiving side of a transfer promises, whatever order and      *)
(* however often the blocks come: the file holds the blocks from the first *)
(* to the last before the first gap, and the transfer is finished exactly  *)
(* when the last gap closes.  A block that comes after that begins a new   *)
(* transfer of the same request.                                           *)
(***************************************************************************)
EXTENDS Naturals, Sequences

CONSTANTS Request, Total

VARIABLES
    arrived,    \* blocks of the transfer in progress
    content,    \* what the transfer in progress, or the last one, has written
    finished    \* requests whose file was once whole

vars == <<arrived, content, finished>>

Block(g) == 0 .. Total[g] - 1

(* The blocks before the first gap *)
UpToGap(g, S) ==
    LET gap == CHOOSE n \in 0 .. Total[g] : n \notin S /\ 0 .. n - 1 \subseteq S
    IN  [i \in 1 .. gap |-> <<g, i - 1>>]

Init == /\ arrived = [g \in Request |-> {}]
        /\ content = [g \in Request |-> <<>>]
        /\ finished = {}

Receive(g, n) ==
    LET now == arrived[g] \cup {n} IN
    /\ content' = [content EXCEPT ![g] = UpToGap(g, now)]
    /\ IF now = Block(g)
         THEN arrived' = [arrived EXCEPT ![g] = {}] /\ finished' = finished \cup {g}
         ELSE arrived' = [arrived EXCEPT ![g] = now] /\ finished' = finished

Next == \E g \in Request : \E n \in Block(g) : Receive(g, n)

Spec == Init /\ [][Next]_vars

=============================================================================
