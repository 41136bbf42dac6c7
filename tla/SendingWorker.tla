---------------------------- MODULE SendingWorker ----------------------------
(***************************************************************************)
(* The sending workers (src/lib/stomp_sending_worker.c) and the sockets    *)
(* they write to (src/lib/connection.c, the stomp_send_*() functions of    *)
(* src/lib/stomp.c).                                                       *)
(*                                                                         *)
(* The management worker asks for a worker when it carries out a SUBSCRIBE *)
(* or a SEND with a reply-to header.  Each client of a queue, and each     *)
(* reply-to destination, has a thread of its own; a topic has one thread   *)
(* for all its clients, made together with its destination group.  All of  *)
(* them poll dequeue(), which is the FIFO that QueueBox implements.        *)
(*                                                                         *)
(* A socket is a number, and a message goes out in several send() calls    *)
(* without a lock: what arrives at a client is the sequence of the pieces  *)
(* written to the number it owned at that moment.                          *)
(***************************************************************************)
EXTENDS Naturals, Sequences, SequencesExt, FiniteSets, FiniteSetsExt

CONSTANTS
  Conns,        \* the connections made during the run
  Queues,       \* destinations that do not begin with "/topic/"
  Topics,       \* destinations that do
  Repliers,     \* the connections that send a reply-to header
  MaxFrames,    \* bound: the frames enqueued during the run
  MaxClients,   \* bound: the client_info_t objects made during the run
  Parts         \* the number of send() calls a message is cut into

(* A reply-to name is made unique with the identifier of the connection,   *)
(* so that a connection stands for its own reply-to destination.           *)
Dests == Queues \cup Topics \cup Repliers
Ids == 1 .. MaxFrames
Clients == 1 .. MaxClients

(* The threads: that of a client of a queue, and that of a topic. *)
Workers == Clients \cup Topics

ASSUME SendingAssumption ==
  /\ MaxFrames \in Nat /\ MaxClients \in Nat
  /\ Parts \in Nat \ {0}
  /\ IsFiniteSet(Conns) /\ Repliers \subseteq Conns
  /\ Queues \cap Topics = {} /\ (Queues \cup Topics) \cap Conns = {}
  /\ Clients \cap Dests = {}

VARIABLES
  fd,           \* fd[c]: the number accept() returned for c, 0 before
  open,         \* the connections that are not closed
  dest,         \* dest[f]: where frame f was enqueued; frames are numbered in order
  queue,        \* queue[d]: the frames waiting under d
  groups,       \* worker_manager.head: the destinations that have a group
  clients,      \* the client_info_t objects, each with the connection that asked for it
  h_client,     \* h_client[d]: the clients of the group, in order
  manager,      \* what the management worker is in the middle of
  worker,       \* worker[w]: where the thread is, and its local variables
  wire,         \* wire[c]: the pieces that were written to c
  counted,      \* counted[d]: the frames given to update_index_sent() for d
  freed,        \* the frames given to free_frame()
  audience      \* audience[f]: the clients to be served when f was dequeued

sockets == <<fd, open>>
history == <<counted, freed, audience>>
registry == <<groups, clients, h_client>>
vars == <<sockets, dest, queue, registry, manager, worker, wire, history>>

Idle == [do |-> "idle"]
NoThread == [pc |-> "none", frame |-> 0, client |-> 0, next |-> 0, part |-> 0]

Init ==
  /\ fd = [c \in Conns |-> 0]
  /\ open = {}
  /\ dest = <<>>
  /\ queue = [d \in Dests |-> <<>>]
  /\ groups = {}
  /\ clients = <<>>
  /\ h_client = [d \in Dests |-> <<>>]
  /\ manager = Idle
  /\ worker = [w \in Workers |-> NoThread]
  /\ wire = [c \in Conns |-> <<>>]
  /\ counted = [d \in Dests |-> <<>>]
  /\ freed = {}
  /\ audience = [f \in Ids |-> {}]

-----------------------------------------------------------------------------
(* Sockets.  The kernel gives the lowest free number. *)
Owners(sock) == {c \in open : fd[c] = sock}
FreeFd == Min({n \in 1 .. Cardinality(Conns) : Owners(n) = {}})

do_connection_worker(c) ==
  /\ fd[c] = 0
  /\ fd' = [fd EXCEPT ![c] = FreeFd]
  /\ open' = open \cup {c}
  /\ UNCHANGED <<dest, queue, registry, manager, worker, wire, history>>

connection_co_worker(c) ==
  /\ c \in open
  /\ open' = open \ {c}
  /\ UNCHANGED <<fd, dest, queue, registry, manager, worker, wire, history>>

is_socket_valid(sock) == Owners(sock) # {}

(* send() to a number that nobody owns fails, and nobody looks. *)
send_msg(sock, piece) ==
  wire' = [c \in Conns |-> IF c \in Owners(sock) THEN Append(wire[c], piece) ELSE wire[c]]

-----------------------------------------------------------------------------
(* The management worker.  It may carry out the frame of a connection that *)
(* is closed by then, and uses the number the connection had.              *)
enqueue(d) ==
  /\ manager = Idle /\ Len(dest) < MaxFrames
  /\ d \in Repliers => d \in groups
  /\ dest' = Append(dest, d)
  /\ queue' = [queue EXCEPT ![d] = Append(@, Len(dest'))]
  /\ UNCHANGED <<sockets, registry, manager, worker, wire, history>>

(* search_dest_group() finds the group of the same name, if there is one. *)
search_dest_group(d) == d \in groups
initialize_dest_group(d) == groups' = groups \cup {d}

CanRegister(c) == manager = Idle /\ fd[c] # 0 /\ Len(clients) < MaxClients

(* alloc_client_info() and list_add_tail() under m_client *)
AddClient(c, d) ==
  /\ clients' = Append(clients, [conn |-> c, sock |-> fd[c], dest |-> d])
  /\ h_client' = [h_client EXCEPT ![d] = Append(@, Len(clients'))]

(* pthread_create() *)
Start(w, k) == worker' = [worker EXCEPT ![w] = [NoThread EXCEPT !.pc = "loop", !.client = k]]

register_unicast_worker(c, d) ==
  /\ CanRegister(c) /\ d \in Queues
  /\ initialize_dest_group(d)
  /\ AddClient(c, d)
  /\ Start(Len(clients'), Len(clients'))
  /\ UNCHANGED <<sockets, dest, queue, manager, wire, history>>

(* A second SEND with the same reply-to finds the group and adds nothing. *)
register_reply_worker(c) ==
  /\ CanRegister(c) /\ c \in Repliers /\ ~search_dest_group(c)
  /\ initialize_dest_group(c)
  /\ AddClient(c, c)
  /\ Start(Len(clients'), Len(clients'))
  /\ UNCHANGED <<sockets, dest, queue, manager, wire, history>>

(* The thread of a new group runs before the client is in the list. *)
register_multicast_worker(c, d) ==
  /\ CanRegister(c) /\ d \in Topics
  /\ initialize_dest_group(d)
  /\ IF search_dest_group(d) THEN UNCHANGED worker ELSE Start(d, 0)
  /\ manager' = [do |-> "add", conn |-> c, dest |-> d]
  /\ UNCHANGED <<sockets, dest, queue, clients, h_client, wire, history>>

RegisterClient ==
  /\ manager.do = "add"
  /\ AddClient(manager.conn, manager.dest)
  /\ manager' = Idle
  /\ UNCHANGED <<sockets, dest, queue, groups, worker, wire, history>>

-----------------------------------------------------------------------------
(* The threads.  DestOf(w) is dgroup->destination. *)
DestOf(w) == IF w \in Topics THEN w ELSE clients[w].dest
Goto(w, pc) == worker' = [worker EXCEPT ![w].pc = pc]

(* Mutant: the thread of a client does not test its socket. *)
CheckNothing(w) ==
  /\ worker[w].pc = "loop"
  /\ Goto(w, IF w \in Topics /\ h_client[w] = <<>> THEN "exit" ELSE "take")
  /\ UNCHANGED <<sockets, dest, queue, registry, manager, wire, history>>

(* The loop conditions: is_socket_valid() for the thread of a client,      *)
(* ! list_empty(h_client) for that of a topic.                             *)
CheckLoop(w) ==
  /\ worker[w].pc = "loop"
  /\ IF w \in Topics THEN Goto(w, IF h_client[w] = <<>> THEN "exit" ELSE "take")
     ELSE Goto(w, IF is_socket_valid(clients[w].sock) THEN "take" ELSE "exit")
  /\ UNCHANGED <<sockets, dest, queue, registry, manager, wire, history>>

(* The entry behind k in the list, 0 for the end of the list. *)
NextClient(d, k) ==
  LET s == h_client[d]
      later == {s[j] : j \in {i \in 2 .. Len(s) : s[i - 1] = k}}
  IN  IF later = {} THEN 0 ELSE CHOOSE n \in later : TRUE

(* The loop over the clients of a topic comes to the client k. *)
Visit(w, k) == [worker[w] EXCEPT !.pc = "each", !.client = k, !.next = NextClient(w, k)]

(* A frame is there: send it, or go through the clients. *)
Taken(w, f) ==
  /\ worker' = [worker EXCEPT ![w] =
       [(IF w \in Topics THEN Visit(w, Head(h_client[w])) ELSE [worker[w] EXCEPT !.pc = "send"])
         EXCEPT !.frame = f, !.part = 1]]
  /\ audience' = [audience EXCEPT ![f] = IF w \in Topics THEN Range(h_client[w]) ELSE {w}]

(* Mutant: the result of dequeue() is used without the test for NULL. *)
DequeueUnchecked(w) ==
  /\ worker[w].pc = "take"
  /\ LET q == queue[DestOf(w)]
     IN  \/ q = <<>> /\ Goto(w, "send") /\ UNCHANGED <<queue, audience>>
         \/ q # <<>> /\ Taken(w, Head(q)) /\ queue' = [queue EXCEPT ![DestOf(w)] = Tail(q)]
  /\ UNCHANGED <<sockets, dest, registry, manager, wire, counted, freed>>

(* Mutant: the entry is read and not removed. *)
DequeuePeek(w) ==
  /\ worker[w].pc = "take"
  /\ LET q == queue[DestOf(w)]
     IN  \/ q = <<>> /\ Goto(w, "loop") /\ UNCHANGED <<queue, audience>>
         \/ q # <<>> /\ Taken(w, Head(q)) /\ UNCHANGED queue
  /\ UNCHANGED <<sockets, dest, registry, manager, wire, counted, freed>>

(* Mutant: the newest entry is taken. *)
DequeueLast(w) ==
  /\ worker[w].pc = "take"
  /\ LET q == queue[DestOf(w)]
     IN  \/ q = <<>> /\ Goto(w, "loop") /\ UNCHANGED <<queue, audience>>
         \/ q # <<>> /\ Taken(w, Last(q)) /\ queue' = [queue EXCEPT ![DestOf(w)] = Front(q)]
  /\ UNCHANGED <<sockets, dest, registry, manager, wire, counted, freed>>

(* Mutant: the thread ends when there is nothing to send. *)
DequeueOrEnd(w) ==
  /\ worker[w].pc = "take"
  /\ LET q == queue[DestOf(w)]
     IN  \/ q = <<>> /\ Goto(w, "exit") /\ UNCHANGED <<queue, audience>>
         \/ q # <<>> /\ Taken(w, Head(q)) /\ queue' = [queue EXCEPT ![DestOf(w)] = Tail(q)]
  /\ UNCHANGED <<sockets, dest, registry, manager, wire, counted, freed>>

dequeue(w) ==
  /\ worker[w].pc = "take"
  /\ LET q == queue[DestOf(w)]
     IN  \/ q = <<>> /\ Goto(w, "loop") /\ UNCHANGED <<queue, audience>>
         \/ q # <<>> /\ Taken(w, Head(q)) /\ queue' = [queue EXCEPT ![DestOf(w)] = Tail(q)]
  /\ UNCHANGED <<sockets, dest, registry, manager, wire, counted, freed>>

(* list_for_each_entry_safe() goes on to the entry it read beforehand. *)
Advance(w) ==
  worker' = [worker EXCEPT ![w] =
    IF worker[w].next = 0 THEN [@ EXCEPT !.pc = "count"]
                          ELSE [Visit(w, worker[w].next) EXCEPT !.part = 1]]

(* A client of a topic that is still there gets the message. *)
ClientValid(w) ==
  /\ w \in Topics /\ worker[w].pc = "each"
  /\ is_socket_valid(clients[worker[w].client].sock)
  /\ Goto(w, "send")
  /\ UNCHANGED <<sockets, dest, queue, registry, manager, wire, history>>

list_del(s, k) == RemoveAt(s, CHOOSE i \in DOMAIN s : s[i] = k)

(* Mutant: the loop ends at the entry it has unlinked. *)
ClientGoneStop(w) ==
  /\ w \in Topics /\ worker[w].pc = "each"
  /\ ~is_socket_valid(clients[worker[w].client].sock)
  /\ h_client' = [h_client EXCEPT ![w] = list_del(@, worker[w].client)]
  /\ Goto(w, "count")
  /\ UNCHANGED <<sockets, dest, queue, groups, clients, manager, wire, history>>

(* One that has gone is unlinked. *)
ClientGone(w) ==
  /\ w \in Topics /\ worker[w].pc = "each"
  /\ ~is_socket_valid(clients[worker[w].client].sock)
  /\ h_client' = [h_client EXCEPT ![w] = list_del(@, worker[w].client)]
  /\ Advance(w)
  /\ UNCHANGED <<sockets, dest, queue, groups, clients, manager, wire, history>>

Piece(w) ==
  [writer |-> w, client |-> worker[w].client, frame |-> worker[w].frame, part |-> worker[w].part]
SentPart(w, last) ==
  IF worker[w].part < last THEN worker' = [worker EXCEPT ![w].part = @ + 1]
  ELSE IF w \in Topics THEN Advance(w) ELSE Goto(w, "count")

(* Mutant: the socket of the client that came last to the group is used. *)
SendToLast(w) ==
  /\ worker[w].pc = "send"
  /\ send_msg(clients[Last(h_client[DestOf(w)])].sock, Piece(w))
  /\ SentPart(w, Parts)
  /\ UNCHANGED <<sockets, dest, queue, registry, manager, history>>

(* Mutant: the NUL behind the message is forgotten. *)
SendUnterminated(w) ==
  /\ worker[w].pc = "send"
  /\ send_msg(clients[worker[w].client].sock, Piece(w))
  /\ SentPart(w, Parts - 1)
  /\ UNCHANGED <<sockets, dest, queue, registry, manager, history>>

(* One send() of a message; the results are not looked at. *)
stomp_send_message(w) ==
  /\ worker[w].pc = "send"
  /\ send_msg(clients[worker[w].client].sock, Piece(w))
  /\ SentPart(w, Parts)
  /\ UNCHANGED <<sockets, dest, queue, registry, manager, history>>

(* update_index_sent(); only the thread of a topic frees the frame. *)
SendingDone(w) ==
  /\ worker[w].pc = "count"
  /\ counted' = [counted EXCEPT ![DestOf(w)] = Append(@, worker[w].frame)]
  /\ freed' = IF w \in Topics THEN freed \cup {worker[w].frame} ELSE freed
  /\ worker' = [worker EXCEPT ![w].pc = "loop", ![w].frame = 0, ![w].next = 0, ![w].part = 0]
  /\ UNCHANGED <<sockets, dest, queue, registry, manager, wire, audience>>

-----------------------------------------------------------------------------
Thread(w) ==
  \/ CheckLoop(w) \/ dequeue(w) \/ ClientValid(w) \/ ClientGone(w)
  \/ stomp_send_message(w) \/ SendingDone(w)

Manager ==
  \/ \E d \in Dests : enqueue(d)
  \/ \E c \in Conns :
       \/ \E d \in Queues : register_unicast_worker(c, d)
       \/ \E d \in Topics : register_multicast_worker(c, d)
       \/ register_reply_worker(c)
  \/ RegisterClient

Next ==
  \/ \E c \in Conns : do_connection_worker(c) \/ connection_co_worker(c)
  \/ Manager
  \/ \E w \in Workers : Thread(w)

Spec == Init /\ [][Next]_vars

(* What a thread does without waiting for a client. *)
Unaided(w) ==
  CheckLoop(w) \/ dequeue(w) \/ ClientValid(w) \/ ClientGone(w) \/ SendingDone(w)

(* A thread keeps running outside of send(), and the management worker     *)
(* ends what it has begun, where it calls no send().  send() returns when  *)
(* there is room in the socket, and there is none for as long as the       *)
(* client does not read; that our side closes the socket meanwhile does    *)
(* not wake it.  So whether it ever returns is up to the client, and so is *)
(* what clients ask for, and when they leave.                              *)
FairSpec ==
  /\ Spec
  /\ \A w \in Workers : WF_vars(Unaided(w))
  /\ WF_vars(RegisterClient)

-----------------------------------------------------------------------------
ClientInfo == [conn : Conns, sock : 1 .. Cardinality(Conns), dest : Dests]
ManagerState == {Idle} \cup [do : {"add"}, conn : Conns, dest : Topics]
ThreadState ==
  [pc : {"none", "loop", "take", "each", "send", "count", "exit"}, frame : Ids \cup {0},
   client : Clients \cup {0}, next : Clients \cup {0}, part : 0 .. Parts]
WirePiece == [writer : Workers, client : Clients, frame : Ids, part : 1 .. Parts]

(* The shape of the state; a thread that sends has a frame and a client.   *)
TypeOK ==
  /\ fd \in [Conns -> 0 .. Cardinality(Conns)] /\ open \subseteq Conns
  /\ dest \in Seq(Dests) /\ Len(dest) <= MaxFrames /\ groups \subseteq Dests
  /\ queue \in [Dests -> Seq(Ids)] /\ counted \in [Dests -> Seq(Ids)]
  /\ \A d \in Dests : Range(queue[d]) \cup Range(counted[d]) \subseteq DOMAIN dest
  /\ clients \in Seq(ClientInfo) /\ Len(clients) <= MaxClients
  /\ \A k \in DOMAIN clients : clients[k].dest \in groups
  /\ h_client \in [Dests -> Seq(Clients)]
  /\ \A d \in Dests : Range(h_client[d]) \subseteq DOMAIN clients
  /\ manager \in ManagerState
  /\ worker \in [Workers -> ThreadState]
  /\ \A w \in Workers : worker[w].pc \in {"each", "send"} =>
       worker[w].frame \in DOMAIN dest /\ worker[w].client \in DOMAIN clients
  /\ wire \in [Conns -> Seq(WirePiece)]
  /\ freed \subseteq DOMAIN dest /\ audience \in [Ids -> SUBSET Clients]

(* Where a frame is. *)
Holders(f) == {w \in Workers : worker[w].frame = f}
Positions(s, f) == {i \in DOMAIN s : s[i] = f}

(* A frame is in its queue, in the hands of one thread, or counted, and    *)
(* only one of these, once: two threads never send the same frame, each    *)
(* frame adds to index_sent once however many clients a topic has, and a   *)
(* frame that was freed is in nobody's hands.                              *)
OneHolder ==
  \A f \in DOMAIN dest :
    /\ Cardinality(Positions(queue[dest[f]], f)) + Cardinality(Holders(f))
         + Cardinality(Positions(counted[dest[f]], f)) = 1
    /\ f \in freed => dest[f] \in Topics /\ f \in Range(counted[dest[f]])

Copies(f, k, p) ==
  {i \in DOMAIN wire[clients[k].conn] :
     LET x == wire[clients[k].conn][i] IN x.client = k /\ x.frame = f /\ x.part = p}

(* When a frame counts as sent, every client that was to get it, and whose *)
(* connection has not been closed since, has got all parts of it, once: a  *)
(* client of a topic that leaves in the middle, or comes in the middle,    *)
(* takes nothing from the others, and a frame of a queue is lost only with *)
(* the client whose thread took it.                                        *)
CountedWasDelivered ==
  \A f \in DOMAIN dest : f \in Range(counted[dest[f]]) =>
    \A k \in audience[f] : clients[k].conn \in open =>
      \A p \in 1 .. Parts : Cardinality(Copies(f, k, p)) = 1

(* What a thread sends for a client reaches another connection only after  *)
(* the client's own has been closed and its number was given out again.    *)
AnotherOnlyAfterClose ==
  \A c \in Conns : \A i \in DOMAIN wire[c] :
    LET k == wire[c][i].client
    IN  clients[k].conn = c \/ clients[k].conn \notin open

(* A client gets the messages of its destination in the order in which     *)
(* they were enqueued, none of them again, also when several threads take  *)
(* from the queue and when the list of a topic changes under the loop.     *)
InOrder ==
  \A c \in Conns : \A j \in DOMAIN wire[c] : \A i \in 1 .. j - 1 :
    LET x == wire[c][i]
        y == wire[c][j]
    IN  x.client = y.client /\ x.part = 1 /\ y.part = 1 => x.frame < y.frame

(* s is made of messages, each behind the end of the one before. *)
Whole(s) ==
  \A i \in DOMAIN s :
    IF s[i].part = 1 THEN i = 1 \/ s[i - 1].part = Parts
                     ELSE i > 1 /\ [s[i - 1] EXCEPT !.part = @ + 1] = s[i]

Begins(s) == {i \in DOMAIN s : s[i].part = 1}
FromFirst(s) == IF Begins(s) = {} THEN <<>> ELSE SubSeq(s, Min(Begins(s)), Len(s))
Reused(c) == \E o \in Conns \ {c} : fd[o] # 0 /\ fd[o] = fd[c] /\ o \notin open

(* A client finds one message inside another only if two threads write to  *)
(* its socket, and the rest of a message it did not see begin only if its  *)
(* number was another's before, whose message was being sent.              *)
WholeUnlessShared ==
  \A c \in Conns :
    (\A i, j \in DOMAIN wire[c] : wire[c][i].writer = wire[c][j].writer) =>
      Whole(wire[c]) \/ (Reused(c) /\ Whole(FromFirst(wire[c])))

Queued(f) == f \in DOMAIN dest /\ f \in Range(queue[dest[f]])
Waiting(f, k) ==
  /\ Queued(f) /\ k \in DOMAIN clients
  /\ clients[k].dest = dest[f] /\ clients[k].conn \in open
Left(k) == k \in DOMAIN clients /\ clients[k].conn \notin open
Deserted(f) == f \in DOMAIN dest /\ dest[f] \in Topics /\ worker[dest[f]].pc = "exit"

(* The thread that takes frames for the client k is inside a send(). *)
ThreadOf(k) == IF clients[k].dest \in Topics THEN clients[k].dest ELSE k
InSend(k) == k \in DOMAIN clients /\ worker[ThreadOf(k)].pc = "send"

(* A frame for which a client is there is taken from its queue, unless the *)
(* client leaves, the thread of the topic has ended, or the thread that    *)
(* takes frames for this client stays in one send() for ever, as it does   *)
(* when that client, or another one of the same topic, stops reading.  The *)
(* threads of other queues, and of other clients of this queue, do not     *)
(* matter.                                                                 *)
Served ==
  \A f \in Ids, k \in Clients :
    \/ <>[]InSend(k)
    \/ Waiting(f, k) ~> (~Queued(f) \/ Left(k) \/ Deserted(f))

(* A thread ends when its client has left, unless the number of the socket *)
(* belongs to somebody else by the time the thread looks, or the thread    *)
(* stays in the send() that it had begun.                                  *)
ThreadEnds ==
  \A k \in Clients :
    \/ <>[]InSend(k)
    \/ (Left(k) /\ clients[k].dest \notin Topics)
         ~> (worker[k].pc = "exit" \/ (Left(k) /\ is_socket_valid(clients[k].sock)))

(* What the test of topics expects: a frame sent to a topic reaches the    *)
(* clients that have subscribed to it, as long as all of them read.  It    *)
(* does not if the thread of the topic looked at the list while it was     *)
(* empty.                                                                  *)
TopicServed ==
  \A f \in Ids, k \in Clients :
    <>[]InSend(k) \/ (Waiting(f, k) ~> (~Queued(f) \/ Left(k)))

=============================================================================
