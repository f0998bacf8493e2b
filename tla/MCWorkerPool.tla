---------------------------- MODULE MCWorkerPool ----------------------------
(***************************************************************************)
(* Instances of WorkerPool for TLC: received messages t1 and t2, of which  *)
(* one is heavy, and a task u of the command line.                         *)
(***************************************************************************)
EXTENDS WorkerPool

CONSTANTS t1, t2, u
=============================================================================
