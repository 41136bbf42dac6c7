----------------------------- MODULE MCQueueBox -----------------------------
(***************************************************************************)
(* Instances of QueueBox for TLC.  As in the daemon, one thread enqueues   *)
(* (the management worker) and one thread at a time dequeues from a name   *)
(* (the sending workers of a destination hold its m_client).  The names a  *)
(* and b share a list of queuebox and have different hashes.               *)
(***************************************************************************)
EXTENDS QueueBox, TLC

CONSTANTS p1, c1, c2, a, b

MCHash == (a :> 1) @@ (b :> 3)
MCDest == (c1 :> a) @@ (c2 :> b)

=============================================================================
