-------------------------- MODULE MCSendingWorker --------------------------
(* Instances of SendingWorker for TLC. *)
EXTENDS SendingWorker

CONSTANTS c1, c2, q1, topic

=============================================================================
