---------------------------- MODULE MessageQueue ----------------------------
(***************************************************************************)
(* What queue.c promises to the threads that call enqueue() and dequeue(): *)
(* one FIFO per hash value of a queue name.  The promise is weaker than    *)
(* that of a plain FIFO in the two places where the code is weaker:        *)
(*                                                                         *)
(*  - a call may be refused when memory runs out (Reject);                 *)
(*  - a message may be stranded, accepted and never handed out, but only   *)
(*    the very first message a thread puts under a hash (Strand).          *)
(*                                                                         *)
(* QueueBox is the detailed specification; it implements this one.         *)
(***************************************************************************)
EXTENDS Naturals, Sequences

CONSTANTS
  Producers,   \* the threads that call enqueue()
  Data,        \* the messages
  Hashes       \* the values get_hash() takes on the names in use

VARIABLES
  pending,     \* pending[h]: the messages waiting under hash h, oldest first
  taken,       \* taken[h]: the messages handed out for hash h, in order
  lost,        \* lost[h]: the messages accepted under h and stranded
  failed,      \* the messages refused with RET_ERROR
  used         \* the pairs <<p, h>> such that p has put a message under h

vars == <<pending, taken, lost, failed, used>>

Init ==
  /\ pending = [h \in Hashes |-> <<>>]
  /\ taken = [h \in Hashes |-> <<>>]
  /\ lost = [h \in Hashes |-> {}]
  /\ failed = {}
  /\ used = {}

(* enqueue() accepts d. *)
Put(p, h, d) ==
  /\ pending' = [pending EXCEPT ![h] = Append(@, d)]
  /\ used' = used \cup {<<p, h>>}
  /\ UNCHANGED <<taken, lost, failed>>

(* enqueue() reports success, but nobody will ever find d. *)
Strand(p, h, d) ==
  /\ <<p, h>> \notin used
  /\ lost' = [lost EXCEPT ![h] = @ \cup {d}]
  /\ used' = used \cup {<<p, h>>}
  /\ UNCHANGED <<pending, taken, failed>>

(* enqueue() returns RET_ERROR. *)
Reject(d) ==
  /\ failed' = failed \cup {d}
  /\ UNCHANGED <<pending, taken, lost, used>>

(* dequeue() returns a message. *)
Take(h) ==
  /\ pending[h] # <<>>
  /\ pending' = [pending EXCEPT ![h] = Tail(@)]
  /\ taken' = [taken EXCEPT ![h] = Append(@, Head(pending[h]))]
  /\ UNCHANGED <<lost, failed, used>>

Next ==
  \/ \E p \in Producers, h \in Hashes, d \in Data : Put(p, h, d) \/ Strand(p, h, d)
  \/ \E d \in Data : Reject(d)
  \/ \E h \in Hashes : Take(h)

Spec == Init /\ [][Next]_vars

=============================================================================
