----------------------------- MODULE Management -----------------------------
(***************************************************************************)
(* The management worker (src/lib/stomp_management_worker.c) and the       *)
(* handlers it calls (src/lib/stomp_proto_*.c): connection threads put     *)
(* complete frames into one bucket, and the only worker takes them out and *)
(* carries them out, one after the other.                                  *)
(*                                                                         *)
(* A frame keeps the number of the socket it came from.  Its connection    *)
(* may be gone, and the number given to another one, when the frame is     *)
(* carried out, and replies are sent to whoever has that number then.  The *)
(* worker sends them itself, with a send() that waits while the client     *)
(* does not read, and nobody else carries out frames meanwhile.            *)
(*                                                                         *)
(* persist_frame(), enqueue() and the register_*_worker() functions are    *)
(* the borders of this module: what they are given is recorded, in order.  *)
(* Of the sending workers there is what this worker can notice: the thread *)
(* of a topic frees the frames it takes out of the queue.                  *)
(***************************************************************************)
EXTENDS Naturals, Sequences, SequencesExt, FiniteSets, FiniteSetsExt

CONSTANTS
  Conns,        \* the connections made during the run
  MaxFrames,    \* bound: the frames sent during the run
  Commands,     \* Commands[c]: the commands with their headers that c may send
  Dests,        \* the destinations; those in Topics begin with "/topic/"
  Topics,
  Tids,         \* the contents of transaction headers that are not empty
  StoredTids,   \* the contents the tid field of a transaction may have
  Absent        \* the value of a header that is not there

Ids == 1 .. MaxFrames
Headers ==
  [cmd : {"SEND", "SUBSCRIBE", "UNSUBSCRIBE", "CONNECT", "STOMP", "DISCONNECT",
          "BEGIN", "COMMIT", "ABORT", "ACK", "NACK"},
   dest : Dests \cup {Absent},
   tid : Tids \cup {<<>>, Absent},
   receipt : {"", "id", Absent},
   reply_to : {"name", "too long", Absent}]

ASSUME CommandsAssumption ==
  /\ MaxFrames \in Nat
  /\ IsFiniteSet(Conns)
  /\ Absent \notin Dests \cup Tids
  /\ Topics \subseteq Dests
  /\ <<>> \notin Tids
  /\ \A c \in Conns : Commands[c] \subseteq Headers

VARIABLES
  sock,         \* sock[c]: the number of the socket of c, 0 before accept() and after close()
  gone,         \* the connections that are closed
  sent,         \* the frames made so far; frames are known by their position
  taken,        \* taken[d]: how many frames the thread of topic d has taken and freed
  bucket,       \* stomp_frame_bucket.h_frame
  pc,           \* where the management worker is
  frame,        \* the frame it works on, or 0
  persisting,   \* persisting[d]: what persist_frame() was given for d, in order
  queued,       \* queued[d]: what enqueue() was given for d, in order
  registered,   \* the workers register_*_worker() was asked for
  connected,    \* the connections in STATE_CONNECTED
  replies,      \* the replies sent, each with the connections it reached
  freed,        \* the frames given to free_frame()
  transactions, committing, ran, discarded   \* those of Transaction

borders == <<persisting, queued, registered, connected, replies>>
tvars == <<transactions, committing, ran, discarded>>
connvars == <<sock, gone, sent, taken>>
vars == <<connvars, bucket, pc, frame, borders, freed, tvars>>

(* handler_stomp_send() never sets frame->transaction_callback. *)
transaction_callback(f) == "NULL"

T == INSTANCE Transaction WITH Frames <- Ids, Callback <- transaction_callback

Init ==
  /\ sock = [c \in Conns |-> 0]
  /\ gone = {}
  /\ sent = <<>>
  /\ taken = [d \in Dests |-> 0]
  /\ bucket = <<>>
  /\ pc = "idle"
  /\ frame = 0
  /\ persisting = [d \in Dests |-> <<>>]
  /\ queued = [d \in Dests |-> <<>>]
  /\ registered = {}
  /\ connected = {}
  /\ replies = {}
  /\ freed = {}
  /\ T!Init

-----------------------------------------------------------------------------
(* The connection threads.  The kernel gives the lowest free number. *)
Owners(fd) == {c \in Conns : fd # 0 /\ sock[c] = fd}
FreeFd == Min({fd \in 1 .. Cardinality(Conns) : Owners(fd) = {}})

Accept(c) ==
  /\ sock[c] = 0 /\ c \notin gone
  /\ sock' = [sock EXCEPT ![c] = FreeFd]
  /\ UNCHANGED <<gone, sent, taken, bucket, pc, frame, borders, freed, tvars>>

(* Mutant: the thread takes the socket accept() returned last, not its own. *)
PushLastAccepted(c, h) ==
  /\ sock[c] # 0
  /\ Len(sent) < MaxFrames
  /\ sent' = Append(sent, [conn |-> c, sock |-> Max({sock[o] : o \in Conns}), h |-> h])
  /\ bucket' = Append(bucket, Len(sent'))
  /\ UNCHANGED <<sock, gone, taken, pc, frame, borders, freed, tvars>>

(* Mutant: list_add() in place of list_add_tail(). *)
PushInFront(c, h) ==
  /\ sock[c] # 0
  /\ Len(sent) < MaxFrames
  /\ sent' = Append(sent, [conn |-> c, sock |-> sock[c], h |-> h])
  /\ bucket' = <<Len(sent')>> \o bucket
  /\ UNCHANGED <<sock, gone, taken, pc, frame, borders, freed, tvars>>

(* prepare_frame() ... frame_finish(): a frame is complete. *)
Push(c, h) ==
  /\ sock[c] # 0
  /\ Len(sent) < MaxFrames
  /\ sent' = Append(sent, [conn |-> c, sock |-> sock[c], h |-> h])
  /\ bucket' = Append(bucket, Len(sent'))
  /\ UNCHANGED <<sock, gone, taken, pc, frame, borders, freed, tvars>>

(* connection_co_worker() closes the socket when the handler has returned. *)
Close(c) ==
  /\ sock[c] # 0
  /\ sock' = [sock EXCEPT ![c] = 0]
  /\ gone' = gone \cup {c}
  /\ UNCHANGED <<sent, taken, bucket, pc, frame, borders, freed, tvars>>

(* The thread of a topic, which runs once somebody has subscribed: it      *)
(* takes a frame, sends it to the subscribers (left out here) and frees it.*)
multicast_worker(d) ==
  /\ d \in Topics
  /\ \E w \in registered : w.kind = "multicast" /\ w.name = d
  /\ taken[d] < Len(queued[d])
  /\ taken' = [taken EXCEPT ![d] = @ + 1]
  /\ freed' = freed \cup {queued[d][taken[d] + 1]}
  /\ UNCHANGED <<sock, gone, sent, bucket, pc, frame, borders, tvars>>

-----------------------------------------------------------------------------
(* Mutant: list_first_entry() without the test for an empty list. *)
TakeUnchecked ==
  /\ pc = "idle"
  /\ \/ bucket # <<>> /\ frame' = Head(bucket) /\ bucket' = Tail(bucket)
     \/ bucket = <<>> /\ frame' = MaxFrames + 1 /\ UNCHANGED bucket
  /\ pc' = "handle"
  /\ UNCHANGED <<connvars, borders, freed, tvars>>

(* Mutant: the test for an empty list takes a list of one frame for empty. *)
TakeUnlessSingle ==
  /\ pc = "idle" /\ Len(bucket) > 1
  /\ frame' = Head(bucket)
  /\ bucket' = Tail(bucket)
  /\ pc' = "handle"
  /\ UNCHANGED <<connvars, borders, freed, tvars>>

(* The worker's loop, whose polls of an empty bucket change nothing. *)
get_frame_from_bucket ==
  /\ pc = "idle" /\ bucket # <<>>
  /\ frame' = Head(bucket)
  /\ bucket' = Tail(bucket)
  /\ pc' = "handle"
  /\ UNCHANGED <<connvars, borders, freed, tvars>>

(* What iterate_header() finds in the headers of the frame. *)
Hdr == sent[frame].h

(* handle_frame() has found the handler for the command. *)
Handling(cmds) == pc = "handle" /\ Hdr.cmd \in cmds

(* The handler returns the frame, and the frame lives on. *)
KeepFrame == pc' = "idle" /\ frame' = 0 /\ UNCHANGED freed

(* The handler returns NULL, and handle_frame() frees the frame. *)
FreeFrame == pc' = "idle" /\ frame' = 0 /\ freed' = freed \cup {frame}

(* stomp_send_error(), stomp_send_receipt(), send_connected_msg(): send()  *)
(* has begun, to whoever has the number.  A client that has not read what  *)
(* it was sent before, so that the buffers are full, makes it wait.        *)
ReplyTo(what, fd) ==
  /\ replies' = replies \cup {[frame |-> frame, what |-> what, to |-> Owners(fd),
                               stale |-> frame \in freed]}
  /\ pc' = "reply" \/ (Owners(fd) # {} /\ pc' = "blocked")
  /\ UNCHANGED <<frame, freed>>

Reply(what) == ReplyTo(what, sent[frame].sock)

register_worker(kind, name) ==
  registered' = registered \cup
    {[frame |-> frame, kind |-> kind, name |-> name, sock |-> sent[frame].sock]}

-----------------------------------------------------------------------------
(* handler_stomp_send() as far as the two ways part. *)
TooLong == Hdr.reply_to = "too long"

register_reply_worker ==
  IF Hdr.reply_to = "name" THEN register_worker("reply", <<"name", sent[frame].conn>>)
                           ELSE UNCHANGED registered

SendInvalid ==
  /\ Handling({"SEND"}) /\ TooLong
  /\ Reply("ERROR")
  /\ UNCHANGED <<connvars, bucket, persisting, queued, registered, connected, tvars>>

SendNowhere ==
  /\ Handling({"SEND"}) /\ ~TooLong /\ Hdr.dest = Absent
  /\ register_reply_worker
  /\ Reply("ERROR")
  /\ UNCHANGED <<connvars, bucket, persisting, queued, connected, tvars>>

(* handler_stomp_send() gives the frame away, and returns it. *)
Kept == Hdr.cmd = "SEND" /\ ~TooLong /\ Hdr.dest # Absent
SendValid == pc = "handle" /\ Kept

(* Mutant: a SEND that asks for a receipt goes to the queue unpersisted. *)
SendUnpersisted ==
  /\ SendValid /\ Hdr.tid = Absent
  /\ register_reply_worker
  /\ IF Hdr.receipt = Absent THEN persisting' = [persisting EXCEPT ![Hdr.dest] = Append(@, frame)]
                             ELSE UNCHANGED persisting
  /\ pc' = "enqueue"
  /\ UNCHANGED <<connvars, bucket, frame, queued, connected, replies, freed, tvars>>

(* persist_frame(), which ends with pthread_yield() ... *)
SendPersist ==
  /\ SendValid /\ Hdr.tid = Absent
  /\ register_reply_worker
  /\ persisting' = [persisting EXCEPT ![Hdr.dest] = Append(@, frame)]
  /\ pc' = "enqueue"
  /\ UNCHANGED <<connvars, bucket, frame, queued, connected, replies, freed, tvars>>

(* ... then enqueue(), after which the frame is no longer the handler's ... *)
SendEnqueue ==
  /\ pc = "enqueue"
  /\ queued' = [queued EXCEPT ![Hdr.dest] = Append(@, frame)]
  /\ \/ Hdr.receipt = Absent /\ KeepFrame
     \/ Hdr.receipt # Absent /\ pc' = "receipt" /\ UNCHANGED <<frame, freed>>
  /\ UNCHANGED <<connvars, bucket, persisting, registered, connected, replies, tvars>>

(* ... and the receipt, for which the handler reads frame->sock.  Of a     *)
(* frame that has been freed it reads whatever is in that memory now.      *)
SendReceipt ==
  /\ pc = "receipt"
  /\ \E fd \in IF frame \in freed THEN 0 .. Cardinality(Conns) ELSE {sent[frame].sock} :
       ReplyTo("RECEIPT", fd)
  /\ UNCHANGED <<connvars, bucket, persisting, queued, registered, connected, tvars>>

(* Mutant: the handler returns NULL after transaction_add(). *)
SendTransactionFreed ==
  /\ SendValid /\ Hdr.tid # Absent
  /\ register_reply_worker
  /\ T!transaction_add(Hdr.tid, frame)
  /\ FreeFrame
  /\ UNCHANGED <<connvars, bucket, persisting, queued, connected, replies>>

(* The result of transaction_add() is not looked at: the receipt is sent   *)
(* also when there is no such transaction.                                 *)
SendTransaction ==
  /\ SendValid /\ Hdr.tid # Absent
  /\ register_reply_worker
  /\ T!transaction_add(Hdr.tid, frame)
  /\ \/ Hdr.receipt = Absent /\ KeepFrame /\ UNCHANGED replies
     \/ Hdr.receipt # Absent /\ Reply("RECEIPT")
  /\ UNCHANGED <<connvars, bucket, persisting, queued, connected>>

(* The client that send() waits for reads, or is gone.  Nothing makes a    *)
(* client do either; that our side closes the socket does not wake send(). *)
Unblock ==
  /\ pc = "blocked"
  /\ pc' = "reply"
  /\ UNCHANGED <<connvars, bucket, frame, borders, freed, tvars>>

(* The last send() of a reply returns, and the handler with it. *)
SendReturns ==
  /\ pc = "reply"
  /\ \/ Kept /\ KeepFrame
     \/ ~Kept /\ FreeFrame
  /\ UNCHANGED <<connvars, bucket, borders, tvars>>

-----------------------------------------------------------------------------
(* BEGIN, COMMIT and ABORT refuse an empty and a missing header alike. *)
TransactionRefused ==
  /\ Handling({"BEGIN", "COMMIT", "ABORT"})
  /\ Hdr.tid \in {<<>>, Absent}
  /\ Reply("ERROR")
  /\ UNCHANGED <<connvars, bucket, persisting, queued, registered, connected, tvars>>

WithTid(cmd) == Handling({cmd}) /\ Hdr.tid \notin {<<>>, Absent}

handler_stomp_begin ==
  /\ WithTid("BEGIN")
  /\ T!transaction_start(Hdr.tid)
  /\ FreeFrame
  /\ UNCHANGED <<connvars, bucket, borders>>

handler_stomp_abort ==
  /\ WithTid("ABORT")
  /\ T!transaction_abort(Hdr.tid)
  /\ FreeFrame
  /\ UNCHANGED <<connvars, bucket, borders>>

handler_stomp_commit ==
  /\ WithTid("COMMIT")
  /\ T!transaction_commit(Hdr.tid)
  /\ IF T!Known(Hdr.tid) THEN pc' = "commit" /\ UNCHANGED <<frame, freed>>
                         ELSE FreeFrame
  /\ UNCHANGED <<connvars, bucket, borders>>

(* transaction_commit() returns.  No frame has a callback, so that no      *)
(* round of its loop does anything.                                        *)
CommitReturn ==
  /\ pc = "commit"
  /\ T!CommitEnds
  /\ FreeFrame
  /\ UNCHANGED <<connvars, bucket, borders>>

-----------------------------------------------------------------------------
handler_stomp_connect ==
  /\ Handling({"CONNECT", "STOMP"})
  /\ connected' = connected \cup {sent[frame].conn}
  /\ Reply("CONNECTED")
  /\ UNCHANGED <<connvars, bucket, persisting, queued, registered, tvars>>

handler_stomp_disconnect ==
  /\ Handling({"DISCONNECT"})
  /\ \/ Hdr.receipt = "" /\ Reply("ERROR")
     \/ Hdr.receipt = "id" /\ Reply("RECEIPT")
     \/ Hdr.receipt = Absent /\ FreeFrame /\ UNCHANGED replies
  /\ UNCHANGED <<connvars, bucket, persisting, queued, registered, connected, tvars>>

handler_stomp_subscribe ==
  /\ Handling({"SUBSCRIBE"})
  /\ \/ Hdr.dest = Absent /\ Reply("ERROR") /\ UNCHANGED registered
     \/ /\ Hdr.dest # Absent
        /\ register_worker(IF Hdr.dest \in Topics THEN "multicast" ELSE "unicast", Hdr.dest)
        /\ FreeFrame
        /\ UNCHANGED replies
  /\ UNCHANGED <<connvars, bucket, persisting, queued, connected, tvars>>

(* The subscriber is looked for in a list to which nothing is ever added:  *)
(* nobody calls register_subscriber().                                     *)
handler_stomp_unsubscribe ==
  /\ Handling({"UNSUBSCRIBE"})
  /\ FreeFrame
  /\ UNCHANGED <<connvars, bucket, borders, tvars>>

(* ACK and NACK look at their headers and do nothing yet. *)
handler_stomp_ack ==
  /\ Handling({"ACK"})
  /\ FreeFrame
  /\ UNCHANGED <<connvars, bucket, borders, tvars>>

handler_stomp_nack ==
  /\ Handling({"NACK"})
  /\ FreeFrame
  /\ UNCHANGED <<connvars, bucket, borders, tvars>>

-----------------------------------------------------------------------------
handle_frame ==
  \/ SendInvalid \/ SendNowhere \/ SendPersist \/ SendEnqueue \/ SendReceipt
  \/ SendTransaction \/ SendReturns
  \/ TransactionRefused \/ handler_stomp_begin \/ handler_stomp_abort
  \/ handler_stomp_commit \/ CommitReturn
  \/ handler_stomp_connect \/ handler_stomp_disconnect
  \/ handler_stomp_subscribe \/ handler_stomp_unsubscribe
  \/ handler_stomp_ack \/ handler_stomp_nack

stomp_management_worker == get_frame_from_bucket \/ handle_frame

Next ==
  \/ \E c \in Conns : Accept(c) \/ Close(c) \/ \E h \in Commands[c] : Push(c, h)
  \/ Unblock
  \/ \E d \in Dests : multicast_worker(d)
  \/ stomp_management_worker

Spec == Init /\ [][Next]_vars

(* The worker's thread keeps running unless a send() holds it; clients     *)
(* need not do anything, not even read.                                    *)
FairSpec == Spec /\ WF_vars(stomp_management_worker)

-----------------------------------------------------------------------------
FrameObject == [conn : Conns, sock : 1 .. Cardinality(Conns), h : Headers]

(* The shape of the state; the frame at hand is an existing one. *)
TypeOK ==
  /\ sock \in [Conns -> 0 .. Cardinality(Conns)]
  /\ gone \subseteq Conns
  /\ sent \in Seq(FrameObject) /\ Len(sent) <= MaxFrames
  /\ taken \in [Dests -> Nat] /\ \A d \in Dests : taken[d] <= Len(queued[d])
  /\ bucket \in Seq(DOMAIN sent)
  /\ persisting \in [Dests -> Seq(DOMAIN sent)] /\ queued \in [Dests -> Seq(DOMAIN sent)]
  /\ \A x \in registered \cup replies : x.frame \in DOMAIN sent
  /\ freed \subseteq DOMAIN sent
  /\ pc \in {"idle", "handle", "enqueue", "receipt", "reply", "blocked", "commit"}
  /\ frame \in DOMAIN sent \cup {0}
  /\ (frame = 0) = (pc = "idle")
  /\ (pc = "commit") = (committing # 0)
  /\ T!TypeOK

(* The worker still uses a frame that it has given away. *)
Borrowed == pc = "receipt" \/ (pc \in {"reply", "blocked"} /\ Kept)
InHand == IF Borrowed THEN 0 ELSE frame

(* Where a frame is; queue positions are told apart. *)
Held(i) == {t \in DOMAIN transactions : i \in T!FramesOf(t)}
InQueue(i) ==
  UNION {{<<d, k>> : k \in {n \in DOMAIN queued[d] : n > taken[d] /\ queued[d][n] = i}} :
           d \in Dests}
Places(i) ==
  {<<"bucket">> : x \in Range(bucket) \cap {i}} \cup {<<"hand">> : x \in {InHand} \cap {i}}
  \cup {<<"freed">> : x \in freed \cap {i}} \cup {<<"queue", q>> : q \in InQueue(i)}
  \cup {<<"held", t>> : t \in Held(i)} \cup {<<"dropped">> : x \in discarded \cap {i}}

(* Every frame is in exactly one place, from the moment it is complete:    *)
(* in the bucket, in the worker's hands, once in one queue, in one open    *)
(* transaction, dropped with one (and leaked), or freed.  So no frame that *)
(* a queue or a transaction still leads to has been freed.  The worker     *)
(* uses a freed frame only for the receipt of a SEND to a topic, whose     *)
(* thread may have freed it since enqueue().                               *)
OnePlace ==
  /\ \A i \in DOMAIN sent : \E p \in Places(i) : Places(i) = {p}
  /\ frame \in freed => Borrowed /\ Hdr.dest \in Topics

(* What a queue holds was given to the persistence worker before, for the  *)
(* same destination and in the same order: update_index_sent() never meets *)
(* a frame that is not accounted for.                                      *)
PersistedFirst == \A d \in Dests : IsPrefix(queued[d], persisting[d])

(* Frames of one connection reach a queue in the order they were sent.     *)
OrderKept ==
  \A d \in Dests : \A j \in DOMAIN queued[d] : \A i \in 1 .. j - 1 :
    sent[queued[d][i]].conn = sent[queued[d][j]].conn => queued[d][i] < queued[d][j]

(* A reply, and a worker started for a client, reach another connection    *)
(* than the one that asked only if that one is closed, so that its number  *)
(* may mean somebody else, or if the reply is the receipt of a SEND to a   *)
(* topic whose frame was freed before its number was read.                 *)
AnotherOnlyAfterClose ==
  /\ \A r \in replies :
       \/ r.to \subseteq {sent[r.frame].conn}
       \/ sent[r.frame].conn \in gone
       \/ r.stale /\ r.what = "RECEIPT" /\ sent[r.frame].h.dest \in Topics
  /\ \A w \in registered :
       Owners(w.sock) \subseteq {sent[w.frame].conn} \/ sent[w.frame].conn \in gone

Handled(i) == i \in DOMAIN sent /\ i \notin Range(bucket) /\ i # frame

(* send() waits for a client. *)
Blocked == pc = "blocked"

(* Every complete frame is carried out, whatever the other connections     *)
(* send and whoever hangs up, unless a COMMIT has frames to commit         *)
(* (transaction_commit() goes round for ever on a frame without a          *)
(* callback), or a client that never reads again leaves the worker waiting *)
(* in send(): one such client holds up all the others.                     *)
HandledOrSpinning ==
  \A i \in Ids : <>[]Blocked \/ ((i \in DOMAIN sent) ~> (Handled(i) \/ T!Spinning))

(* What handle_frame() says of itself: the frame that came in is processed *)
(* by the handler for it.  A COMMIT of a transaction with a SEND in it     *)
(* never is, nor is anything after it, also when every client reads.       *)
EveryFrameHandled ==
  \A i \in Ids : <>[]Blocked \/ ((i \in DOMAIN sent) ~> Handled(i))

=============================================================================
