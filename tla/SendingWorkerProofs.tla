------------------------- MODULE SendingWorkerProofs ------------------------
(***************************************************************************)
(* Proofs about SendingWorker, for any connections, destinations, numbers  *)
(* of frames and clients, and number of pieces of a message.               *)
(***************************************************************************)
EXTENDS SendingWorker, SequenceLemmas, FiniteSetTheorems

(* Sockets: open connections have numbers of their own, and a client keeps *)
(* the number its connection had.                                          *)
SocketInv ==
  /\ \A c \in open : fd[c] # 0
  /\ \A c, e \in open : fd[c] = fd[e] => c = e
  /\ \A k \in DOMAIN clients : clients[k].sock = fd[clients[k].conn]
  /\ manager # Idle => /\ fd[manager.conn] # 0 /\ manager.dest \in groups
                       /\ Len(clients) < MaxClients

(* The lists of clients are in the order in which the clients came. *)
ListInv ==
  \A d \in Dests :
    /\ Growing(h_client[d])
    /\ \A j \in DOMAIN h_client[d] : clients[h_client[d][j]].dest = d

(* The queues are in the order in which the frames came. *)
QueueInv ==
  \A d \in Dests :
    /\ Growing(queue[d])
    /\ \A j \in DOMAIN queue[d] : dest[queue[d][j]] = d
    /\ \A j \in DOMAIN counted[d] : dest[counted[d][j]] = d

Sending == {"each", "send"}

(* A thread that sends.  Only the thread of a topic unlinks clients, so    *)
(* that the one it is at and the one it read beforehand are in the list.   *)
Listed(d, k) == \E j \in DOMAIN h_client[d] : h_client[d][j] = k
ThreadInv(w) ==
  LET t == worker[w]
  IN  /\ w \in Clients => t.next = 0
      /\ w \in Clients /\ t.pc # "none" =>
           /\ w \in DOMAIN clients /\ t.client = w /\ clients[w].dest \notin Topics
           /\ t.pc # "each"
      /\ w \in Topics /\ t.pc # "none" => w \in groups
      /\ w \in Topics /\ t.pc = "take" => h_client[w] # <<>>
      /\ w \in Topics /\ t.pc \in Sending =>
           Listed(w, t.client) /\ (t.next # 0 => Listed(w, t.next))
      /\ t.frame # 0 <=> t.pc \in Sending \cup {"count"}
      /\ t.frame # 0 =>
           /\ t.frame \in DOMAIN dest /\ dest[t.frame] = DestOf(w)
           /\ \A j \in DOMAIN queue[DestOf(w)] : t.frame < queue[DestOf(w)][j]
      /\ t.pc \in Sending =>
           /\ t.part # 0 /\ t.client \in DOMAIN clients /\ clients[t.client].dest = DestOf(w)
           /\ t.pc = "each" => t.part = 1
           /\ t.next # 0 => /\ w \in Topics /\ t.client < t.next
                            /\ t.next \in DOMAIN clients /\ clients[t.next].dest = w

Inv == TypeOK /\ SocketInv /\ ListInv /\ QueueInv /\ \A w \in Workers : ThreadInv(w)

-----------------------------------------------------------------------------
LEMMA Constants ==
  /\ Cardinality(Conns) \in Nat
  /\ Clients \cap Topics = {} /\ Topics \subseteq Dests /\ Queues \subseteq Dests
  /\ Repliers \subseteq Dests /\ Repliers \subseteq Conns
  /\ Queues \cap Topics = {} /\ Repliers \cap Topics = {}
  /\ Ids \subseteq Nat \ {0} /\ Clients \subseteq Nat \ {0} /\ 0 \notin Ids /\ 0 \notin Clients
  /\ Parts \in Nat \ {0}
<1>1. Cardinality(Conns) \in Nat
  BY SendingAssumption, FS_CardinalityType
<1> QED BY <1>1, SendingAssumption DEF Dests, Ids, Clients

(* The kernel has a number left for a connection that was not accepted. *)
LEMMA FreeFdIsFree ==
  ASSUME TypeOK, SocketInv, NEW c \in Conns, fd[c] = 0
  PROVE  FreeFd \in 1 .. Cardinality(Conns) /\ Owners(FreeFd) = {}
<1> DEFINE N == Cardinality(Conns)
           free == {n \in 1 .. N : Owners(n) = {}}
<1>1. IsFiniteSet(Conns) /\ N \in Nat
  BY SendingAssumption, FS_CardinalityType
<1>2. free # {}
  <2> SUFFICES ASSUME \A n \in 1 .. N : Owners(n) # {}
               PROVE  FALSE
    OBVIOUS
  <2> DEFINE g == [n \in 1 .. N |-> CHOOSE o \in Conns : fd[o] = n]
             rest == Conns \ {c}
  <2>1. \A n \in 1 .. N : g[n] \in Conns /\ fd[g[n]] = n
    BY DEF Owners, TypeOK
  <2>2. g \in Injection(1 .. N, rest)
    <3>1. \A n \in 1 .. N : g[n] \in rest
      BY <2>1, <1>1
    <3>2. \A x, y \in 1 .. N : g[x] = g[y] => x = y
      BY <2>1
    <3> HIDE DEF g, rest
    <3>3. DOMAIN g = 1 .. N /\ g = [x \in 1 .. N |-> g[x]]
      BY DEF g
    <3> QED BY <3>1, <3>2, <3>3 DEF Injection, IsInjective
  <2>3. IsFiniteSet(rest) /\ Cardinality(rest) = N - 1
    BY <1>1, FS_RemoveElement
  <2>4. Cardinality(1 .. N) = N
    BY <1>1, FS_Interval
  <2>5. N <= Cardinality(rest)
    <3> HIDE DEF rest
    <3> QED BY <2>2, <2>3, <2>4, FS_Injection
  <2> QED BY <1>1, <2>3, <2>5
<1>3. free \in SUBSET Nat
  OBVIOUS
<1>4. PICK k \in free : \A j \in free : k <= j
  <2> HIDE DEF free
  <2> QED BY <1>2, <1>3, Least
<1>5. FreeFd \in free
  BY <1>4 DEF FreeFd, Min
<1> QED BY <1>5

(* A client's connection is a connection, with the number it had. *)
LEMMA ClientType ==
  ASSUME TypeOK, NEW k \in DOMAIN clients
  PROVE  /\ clients[k].conn \in Conns /\ clients[k].sock \in 1 .. Cardinality(Conns)
         /\ clients[k].dest \in Dests /\ clients[k].dest \in groups /\ k \in Clients
<1>1. clients[k] \in ClientInfo
  BY DEF TypeOK
<1>2. k \in Clients
  BY SendingAssumption DEF TypeOK, Clients
<1> QED BY <1>1, <1>2 DEF ClientInfo, TypeOK

LEMMA ThreadType ==
  ASSUME TypeOK, NEW w \in Workers
  PROVE  /\ worker[w] \in ThreadState
         /\ worker[w].pc \in {"none", "loop", "take", "each", "send", "count", "exit"}
         /\ worker[w].frame \in Ids \cup {0} /\ worker[w].client \in Clients \cup {0}
         /\ worker[w].next \in Clients \cup {0} /\ worker[w].part \in 0 .. Parts
<1>1. worker[w] \in ThreadState
  BY DEF TypeOK
<1> QED BY <1>1 DEF ThreadState

(* The destination a thread serves is one. *)
LEMMA DestOfType ==
  ASSUME Inv, NEW w \in Workers, worker[w].pc # "none"
  PROVE  DestOf(w) \in Dests
<1>1. CASE w \in Topics
  BY <1>1, Constants DEF DestOf
<1>2. CASE w \notin Topics
  <2>1. w \in Clients
    BY <1>2 DEF Workers
  <2>2. w \in DOMAIN clients
    BY <2>1 DEF Inv, ThreadInv
  <2> QED BY <1>2, <2>2, ClientType DEF DestOf, Inv
<1> QED BY <1>1, <1>2

LEMMA SequenceTypes ==
  ASSUME TypeOK, NEW d \in Dests
  PROVE  queue[d] \in Seq(Nat) /\ counted[d] \in Seq(Nat) /\ h_client[d] \in Seq(Nat)
<1>1. Ids \subseteq Nat /\ Clients \subseteq Nat
  BY Constants
<1>2. queue[d] \in Seq(Ids) /\ counted[d] \in Seq(Ids) /\ h_client[d] \in Seq(Clients)
  BY DEF TypeOK
<1> QED BY <1>1, <1>2, SeqMonotonic

(* What one step may do to what the others rely on. *)
MoreClients == DOMAIN clients \subseteq DOMAIN clients'
               /\ \A k \in DOMAIN clients : clients'[k] = clients[k]
MoreFrames == DOMAIN dest \subseteq DOMAIN dest' /\ \A f \in DOMAIN dest : dest'[f] = dest[f]
LessQueued ==
  \A d \in Dests : \A j \in DOMAIN queue'[d] :
    (\E i \in DOMAIN queue[d] : queue'[d][j] = queue[d][i]) \/ queue'[d][j] = Len(dest) + 1

ListKept(d) ==
  \A j \in DOMAIN h_client[d] : \E i \in DOMAIN h_client'[d] : h_client'[d][i] = h_client[d][j]

LEMMA NothingMore ==
  /\ UNCHANGED h_client => \A d \in Dests : ListKept(d)
  /\ UNCHANGED clients => MoreClients
  /\ UNCHANGED dest => MoreFrames
  /\ UNCHANGED queue => LessQueued
BY DEF MoreClients, MoreFrames, LessQueued, ListKept

(* A thread that does nothing keeps its invariant. *)
LEMMA ThreadKeeps ==
  ASSUME Inv, NEW w \in Workers, worker'[w] = worker[w],
         MoreClients, MoreFrames, LessQueued, groups \subseteq groups',
         w \in Topics => ListKept(w)
  PROVE  ThreadInv(w)'
<1> DEFINE t == worker[w]
<1>1. ThreadInv(w)
  BY DEF Inv
<1>2. w \in Clients /\ t.pc # "none" => w \in DOMAIN clients
  BY <1>1 DEF ThreadInv
<1>3. t.pc # "none" => DestOf(w)' = DestOf(w)
  BY <1>2 DEF MoreClients, DestOf, Workers
<1>4. DOMAIN dest = 1 .. Len(dest) /\ Len(dest) \in Nat
  BY DEF Inv, TypeOK
<1>5. t.frame # 0 => /\ t.pc # "none" /\ t.frame \in DOMAIN dest /\ dest'[t.frame] = dest[t.frame]
                     /\ t.frame \in DOMAIN dest'
  BY <1>1 DEF ThreadInv, MoreFrames, Sending
<1>6. t.frame # 0 => \A j \in DOMAIN queue'[DestOf(w)] : t.frame < queue'[DestOf(w)][j]
  <2> SUFFICES ASSUME t.frame # 0, NEW j \in DOMAIN queue'[DestOf(w)]
               PROVE  t.frame < queue'[DestOf(w)][j]
    OBVIOUS
  <2>1. DestOf(w) \in Dests
    BY <1>5, DestOfType
  <2>2. CASE queue'[DestOf(w)][j] = Len(dest) + 1
    BY <1>4, <1>5, <2>2
  <2>3. CASE \E i \in DOMAIN queue[DestOf(w)] : queue'[DestOf(w)][j] = queue[DestOf(w)][i]
    BY <1>1, <2>3 DEF ThreadInv
  <2> QED BY <2>1, <2>2, <2>3 DEF LessQueued
<1>7. /\ w \in Topics /\ t.pc = "take" => h_client'[w] # <<>>
      /\ w \in Topics => \A k : Listed(w, k) => Listed(w, k)'
  <2>1. SUFFICES ASSUME w \in Topics
        PROVE  /\ t.pc = "take" => h_client'[w] # <<>>
               /\ \A k : Listed(w, k) => Listed(w, k)'
    OBVIOUS
  <2>2. w \in Dests /\ h_client[w] \in Seq(Clients)
    BY <2>1, Constants DEF Inv, TypeOK
  <2>3. h_client[w] # <<>> => 1 \in DOMAIN h_client[w]
    BY <2>2
  <2>4. h_client'[w] = <<>> => DOMAIN h_client'[w] = {}
    OBVIOUS
  <2> QED BY <1>1, <2>1, <2>3, <2>4 DEF ThreadInv, ListKept, Listed
<1>8. ASSUME NEW k, w \in Topics, Listed(w, k) PROVE Listed(w, k)'
  BY <1>7, <1>8
<1> QED BY <1>1, <1>2, <1>3, <1>5, <1>6, <1>7, <1>8 DEF ThreadInv, MoreClients, Sending

-----------------------------------------------------------------------------
(* The connection threads. *)
LEMMA AcceptInv ==
  ASSUME Inv, NEW c \in Conns, do_connection_worker(c)
  PROVE  Inv'
<1>1. /\ UNCHANGED <<dest, queue, groups, clients, h_client, manager, worker, wire>>
      /\ UNCHANGED <<counted, freed, audience>>
  BY DEF do_connection_worker, registry, history
<1>2. TypeOK /\ SocketInv /\ fd[c] = 0 /\ open' = open \cup {c}
  BY DEF do_connection_worker, Inv
<1>3. FreeFd \in 1 .. Cardinality(Conns) /\ \A e \in open : fd[e] # FreeFd
  BY <1>2, FreeFdIsFree DEF Owners
<1>4. \A e \in Conns : fd'[e] = IF e = c THEN FreeFd ELSE fd[e]
  BY DEF do_connection_worker, Inv, TypeOK
<1>5. fd' \in [Conns -> 0 .. Cardinality(Conns)] /\ open' \subseteq Conns
  BY <1>2, <1>3 DEF do_connection_worker, TypeOK
<1>6. TypeOK'
  BY <1>1, <1>2, <1>5 DEF TypeOK
<1>7. SocketInv'
  <2>1. FreeFd # 0 /\ open \subseteq Conns /\ c \notin open
    BY <1>2, <1>3 DEF SocketInv, TypeOK
  <2>2. /\ \A e \in open' : fd'[e] # 0
        /\ \A b, e \in open' : fd'[b] = fd'[e] => b = e
    BY <1>2, <1>3, <1>4, <2>1 DEF SocketInv
  <2>3. \A k \in DOMAIN clients : clients[k].conn \in Conns /\ clients[k].conn # c
    BY <1>2, Constants, ClientType DEF SocketInv
  <2>4. manager # Idle => manager.conn \in Conns /\ manager.conn # c
    BY <1>2 DEF SocketInv, TypeOK, ManagerState
  <2> QED BY <1>1, <1>2, <1>4, <2>2, <2>3, <2>4 DEF SocketInv
<1>8. ListInv' /\ QueueInv'
  BY <1>1 DEF Inv, ListInv, QueueInv, Growing
<1>9. ASSUME NEW w \in Workers PROVE ThreadInv(w)'
  <2>1. w \in Topics => ListKept(w)
    BY <1>1, Constants, NothingMore
  <2> QED BY <1>1, <2>1, NothingMore, ThreadKeeps
<1> QED BY <1>6, <1>7, <1>8, <1>9 DEF Inv

LEMMA CloseInv ==
  ASSUME Inv, NEW c \in Conns, connection_co_worker(c)
  PROVE  Inv'
<1>1. /\ UNCHANGED <<fd, dest, queue, groups, clients, h_client, manager, worker, wire>>
      /\ UNCHANGED <<counted, freed, audience>> /\ open' = open \ {c}
  BY DEF connection_co_worker, registry, history
<1>2. TypeOK'
  BY <1>1 DEF Inv, TypeOK
<1>3. SocketInv' /\ ListInv' /\ QueueInv'
  BY <1>1 DEF Inv, SocketInv, ListInv, QueueInv, Growing
<1>4. ASSUME NEW w \in Workers PROVE ThreadInv(w)'
  <2>1. w \in Topics => ListKept(w)
    BY <1>1, Constants, NothingMore
  <2> QED BY <1>1, <2>1, NothingMore, ThreadKeeps
<1> QED BY <1>2, <1>3, <1>4 DEF Inv

(* enqueue(): the new frame is the youngest. *)
LEMMA EnqueueIs ==
  ASSUME Inv, NEW d \in Dests, enqueue(d)
  PROVE  LET n == Len(dest) + 1
         IN  /\ n \in Ids /\ Len(dest) \in Nat /\ DOMAIN dest = 1 .. Len(dest)
             /\ dest' \in Seq(Dests) /\ Len(dest') = n /\ n <= MaxFrames
             /\ DOMAIN dest' = DOMAIN dest \cup {n} /\ n \notin DOMAIN dest
             /\ dest'[n] = d /\ MoreFrames
             /\ queue' \in [Dests -> Seq(Ids)]
             /\ queue'[d] = Append(queue[d], n)
             /\ \A e \in Dests : e # d => queue'[e] = queue[e]
             /\ \A j \in DOMAIN queue'[d] : \/ j \in DOMAIN queue[d] /\ queue'[d][j] = queue[d][j]
                                            \/ j = Len(queue[d]) + 1 /\ queue'[d][j] = n
             /\ DOMAIN queue[d] \subseteq DOMAIN queue'[d] /\ Len(queue[d]) + 1 \in DOMAIN queue'[d]
             /\ \A j \in DOMAIN queue[d] : queue'[d][j] = queue[d][j]
             /\ queue'[d][Len(queue[d]) + 1] = n
<1> DEFINE n == Len(dest) + 1
<1>1. dest \in Seq(Dests) /\ queue \in [Dests -> Seq(Ids)] /\ Len(dest) < MaxFrames
  BY DEF Inv, TypeOK, enqueue
<1>2. n \in Ids /\ n <= MaxFrames /\ Len(dest) \in Nat
  BY <1>1, SendingAssumption DEF Ids
<1>3. dest' = Append(dest, d) /\ queue' = [queue EXCEPT ![d] = Append(@, Len(dest'))]
  BY DEF enqueue
<1>4. /\ dest' \in Seq(Dests) /\ Len(dest') = n
      /\ DOMAIN dest = 1 .. Len(dest) /\ DOMAIN dest' = 1 .. Len(dest) + 1
      /\ dest'[n] = d /\ \A f \in DOMAIN dest : dest'[f] = dest[f]
  BY <1>1, <1>3
<1>5. DOMAIN dest' = DOMAIN dest \cup {n} /\ n \notin DOMAIN dest
  BY <1>2, <1>4
<1>6. queue' = [queue EXCEPT ![d] = Append(queue[d], n)]
  BY <1>3, <1>4
<1> HIDE DEF n
<1>7. queue[d] \in Seq(Ids) /\ Append(queue[d], n) \in Seq(Ids)
  BY <1>1, <1>2
<1>8. /\ queue' \in [Dests -> Seq(Ids)] /\ queue'[d] = Append(queue[d], n)
      /\ \A e \in Dests : e # d => queue'[e] = queue[e]
  BY <1>1, <1>6, <1>7
<1>9. \A j \in DOMAIN queue'[d] : \/ j \in DOMAIN queue[d] /\ queue'[d][j] = queue[d][j]
                                  \/ j = Len(queue[d]) + 1 /\ queue'[d][j] = n
  BY <1>2, <1>7, <1>8, AppendElements
<1>10. /\ DOMAIN queue[d] \subseteq DOMAIN queue'[d] /\ Len(queue[d]) + 1 \in DOMAIN queue'[d]
       /\ \A j \in DOMAIN queue[d] : queue'[d][j] = queue[d][j]
       /\ queue'[d][Len(queue[d]) + 1] = n
  <2>1. /\ Len(queue[d]) \in Nat /\ DOMAIN queue[d] = 1 .. Len(queue[d])
        /\ DOMAIN queue'[d] = 1 .. Len(queue[d]) + 1
        /\ \A k \in 1 .. Len(queue[d]) : queue'[d][k] = queue[d][k]
        /\ queue'[d][Len(queue[d]) + 1] = n
    BY <1>2, <1>7, <1>8, AppendIs
  <2>2. DOMAIN queue[d] \subseteq DOMAIN queue'[d] /\ Len(queue[d]) + 1 \in DOMAIN queue'[d]
    BY <2>1
  <2> QED BY <2>1, <2>2
<1> QED BY <1>2, <1>4, <1>5, <1>8, <1>9, <1>10 DEF n, MoreFrames

LEMMA EnqueueInv ==
  ASSUME Inv, NEW d \in Dests, enqueue(d)
  PROVE  Inv' /\ MoreFrames /\ LessQueued
<1> PICK n : n = Len(dest) + 1
  OBVIOUS
<1>1. /\ n \in Ids /\ Len(dest) \in Nat /\ DOMAIN dest = 1 .. Len(dest)
      /\ dest' \in Seq(Dests) /\ Len(dest') = n /\ n <= MaxFrames
      /\ DOMAIN dest' = DOMAIN dest \cup {n} /\ n \notin DOMAIN dest
      /\ dest'[n] = d /\ MoreFrames
      /\ queue' \in [Dests -> Seq(Ids)]
      /\ queue'[d] = Append(queue[d], n)
      /\ \A e \in Dests : e # d => queue'[e] = queue[e]
      /\ \A j \in DOMAIN queue'[d] : \/ j \in DOMAIN queue[d] /\ queue'[d][j] = queue[d][j]
                                     \/ j = Len(queue[d]) + 1 /\ queue'[d][j] = n
  BY EnqueueIs
<1>2. /\ UNCHANGED <<fd, open, groups, clients, h_client, manager, worker, wire>>
      /\ UNCHANGED <<counted, freed, audience>>
  BY DEF enqueue, sockets, registry, history
<1>3. \A e \in Dests : \A j \in DOMAIN queue'[e] :
        (j \in DOMAIN queue[e] /\ queue'[e][j] = queue[e][j]) \/ (e = d /\ queue'[e][j] = n)
  BY <1>1
<1>4. LessQueued
  BY <1>3 DEF LessQueued
<1>5. TypeOK'
  <2>1. \A e \in Dests : Range(queue'[e]) \cup Range(counted[e]) \subseteq DOMAIN dest'
    <3>1. /\ \A e \in Dests : \A j \in DOMAIN queue[e] : queue[e][j] \in DOMAIN dest
          /\ \A e \in Dests : \A j \in DOMAIN counted[e] : counted[e][j] \in DOMAIN dest
      BY DEF Inv, TypeOK, Range
    <3>2. DOMAIN dest' = DOMAIN dest \cup {n}
      BY <1>1
    <3>3. \A e \in Dests : \A j \in DOMAIN queue'[e] : queue'[e][j] \in DOMAIN dest'
      BY <1>3, <3>1, <3>2
    <3>4. \A e \in Dests : \A j \in DOMAIN counted[e] : counted[e][j] \in DOMAIN dest'
      BY <3>1, <3>2
    <3> QED BY <3>3, <3>4 DEF Range
  <2>2. \A w \in Workers : worker[w].pc \in {"each", "send"} =>
          worker[w].frame \in DOMAIN dest' /\ worker[w].client \in DOMAIN clients
    BY <1>1 DEF Inv, TypeOK
  <2>3. freed \subseteq DOMAIN dest'
    BY <1>1 DEF Inv, TypeOK
  <2> QED BY <1>1, <1>2, <2>1, <2>2, <2>3 DEF Inv, TypeOK
<1>6. SocketInv' /\ ListInv'
  BY <1>2 DEF Inv, SocketInv, ListInv, Growing
<1>7. QueueInv'
  <2>1. \A e \in Dests : \A j \in DOMAIN queue[e] : queue[e][j] \in DOMAIN dest /\ queue[e][j] < n
    <3>1. \A e \in Dests : \A j \in DOMAIN queue[e] : queue[e][j] \in DOMAIN dest
      BY DEF Inv, TypeOK, Range
    <3> QED BY <1>1, <3>1
  <2>2. \A e \in Dests : \A j \in DOMAIN counted[e] : counted[e][j] \in DOMAIN dest
    BY DEF Inv, TypeOK, Range
  <2>3. Growing(queue'[d])
    <3>1. queue[d] \in Seq(Nat) /\ n \in Nat /\ Growing(queue[d])
      BY <1>1, Constants, SequenceTypes DEF Inv, QueueInv
    <3>2. Growing(Append(queue[d], n))
      BY <2>1, <3>1, AppendGrows
    <3> QED BY <1>1, <3>2
  <2>4. \A e \in Dests : Growing(queue'[e])
    BY <1>1, <2>3 DEF Inv, QueueInv
  <2>5. \A e \in Dests : \A j \in DOMAIN queue'[e] : dest'[queue'[e][j]] = e
    <3>1. dest'[n] = d /\ \A f \in DOMAIN dest : dest'[f] = dest[f]
      BY <1>1 DEF MoreFrames
    <3>2. \A e \in Dests : \A j \in DOMAIN queue[e] : dest[queue[e][j]] = e
      BY DEF Inv, QueueInv
    <3> QED BY <1>3, <2>1, <3>1, <3>2
  <2>6. \A e \in Dests : \A j \in DOMAIN counted[e] : dest'[counted[e][j]] = e
    BY <1>1, <2>2 DEF Inv, QueueInv, MoreFrames
  <2> QED BY <1>2, <2>4, <2>5, <2>6 DEF QueueInv, Growing
<1>8. ASSUME NEW w \in Workers PROVE ThreadInv(w)'
  <2>1. w \in Topics => ListKept(w)
    BY <1>2, Constants, NothingMore
  <2> QED BY <1>1, <1>2, <1>4, <2>1, NothingMore, ThreadKeeps
<1> QED BY <1>1, <1>4, <1>5, <1>6, <1>7, <1>8 DEF Inv

(* The management worker registers a client. *)
NewClient(c, d, n) ==
  /\ n \in Clients /\ n \notin DOMAIN clients /\ Len(clients') = n /\ n <= MaxClients
  /\ clients' \in Seq(ClientInfo) /\ DOMAIN clients' = DOMAIN clients \cup {n}
  /\ clients'[n] = [conn |-> c, sock |-> fd[c], dest |-> d]
  /\ MoreClients /\ \A k \in DOMAIN clients : k < n
  /\ h_client' \in [Dests -> Seq(Clients)]
  /\ h_client'[d] = Append(h_client[d], n)
  /\ \A e \in Dests : e # d => h_client'[e] = h_client[e]
  /\ \A j \in DOMAIN h_client'[d] :
       \/ j \in DOMAIN h_client[d] /\ h_client'[d][j] = h_client[d][j]
       \/ j = Len(h_client[d]) + 1 /\ h_client'[d][j] = n

LEMMA AddClientNew ==
  ASSUME Inv, NEW c \in Conns, fd[c] # 0, Len(clients) < MaxClients, NEW d \in Dests,
         AddClient(c, d)
  PROVE  NewClient(c, d, Len(clients) + 1)
<1> DEFINE n == Len(clients) + 1
           new == [conn |-> c, sock |-> fd[c], dest |-> d]
<1>1. clients \in Seq(ClientInfo) /\ h_client \in [Dests -> Seq(Clients)]
  BY DEF Inv, TypeOK
<1>2. n \in Clients /\ n <= MaxClients /\ Len(clients) \in Nat
  BY <1>1, SendingAssumption DEF Clients
<1>3. new \in ClientInfo
  BY Constants DEF Inv, TypeOK, ClientInfo
<1>4. clients' = Append(clients, new) /\ h_client' = [h_client EXCEPT ![d] = Append(@, Len(clients'))]
  BY DEF AddClient
<1> HIDE DEF new
<1>5. /\ clients' \in Seq(ClientInfo) /\ Len(clients') = n
      /\ DOMAIN clients = 1 .. Len(clients) /\ DOMAIN clients' = 1 .. Len(clients) + 1
      /\ clients'[n] = new /\ \A k \in DOMAIN clients : clients'[k] = clients[k]
  BY <1>1, <1>3, <1>4
<1>6. DOMAIN clients' = DOMAIN clients \cup {n} /\ n \notin DOMAIN clients
      /\ \A k \in DOMAIN clients : k < n
  BY <1>2, <1>5
<1>7. h_client' = [h_client EXCEPT ![d] = Append(h_client[d], n)]
  BY <1>4, <1>5
<1> HIDE DEF n
<1>8. h_client[d] \in Seq(Clients) /\ Append(h_client[d], n) \in Seq(Clients)
  BY <1>1, <1>2
<1>9. /\ h_client' \in [Dests -> Seq(Clients)] /\ h_client'[d] = Append(h_client[d], n)
      /\ \A e \in Dests : e # d => h_client'[e] = h_client[e]
  BY <1>1, <1>7, <1>8
<1>10. \A j \in DOMAIN h_client'[d] :
         \/ j \in DOMAIN h_client[d] /\ h_client'[d][j] = h_client[d][j]
         \/ j = Len(h_client[d]) + 1 /\ h_client'[d][j] = n
  BY <1>2, <1>8, <1>9, AppendElements
<1>11. NewClient(c, d, n)
  BY <1>2, <1>5, <1>6, <1>9, <1>10 DEF new, MoreClients, NewClient
<1> QED BY <1>11 DEF n

LEMMA AddClientIs ==
  ASSUME Inv, NEW c \in Conns, fd[c] # 0, Len(clients) < MaxClients, NEW d \in Dests,
         AddClient(c, d)
  PROVE  LET n == Len(clients) + 1
         IN  /\ n \in Clients /\ n \notin DOMAIN clients /\ Len(clients') = n /\ n <= MaxClients
             /\ clients' \in Seq(ClientInfo) /\ DOMAIN clients' = DOMAIN clients \cup {n}
             /\ clients'[n] = [conn |-> c, sock |-> fd[c], dest |-> d]
             /\ MoreClients /\ \A k \in DOMAIN clients : k < n
             /\ h_client' \in [Dests -> Seq(Clients)]
             /\ h_client'[d] = Append(h_client[d], n)
             /\ \A e \in Dests : e # d => h_client'[e] = h_client[e]
             /\ \A j \in DOMAIN h_client'[d] :
                  \/ j \in DOMAIN h_client[d] /\ h_client'[d][j] = h_client[d][j]
                  \/ j = Len(h_client[d]) + 1 /\ h_client'[d][j] = n
BY AddClientNew DEF NewClient

(* ... which concerns the types and the lists; the threads follow. *)
LEMMA AddClientInv ==
  ASSUME Inv, NEW c \in Conns, fd[c] # 0, Len(clients) < MaxClients, NEW d \in Dests,
         AddClient(c, d), d \in groups', groups \subseteq groups', groups' \subseteq Dests,
         UNCHANGED <<fd, open, dest, queue, wire, counted, freed, audience>>,
         manager' = Idle, worker' \in [Workers -> ThreadState],
         \A w \in Workers : worker'[w] = worker[w] \/ worker'[w].pc = "loop"
  PROVE  /\ TypeOK' /\ SocketInv' /\ ListInv' /\ QueueInv'
         /\ \A w \in Workers : worker'[w] = worker[w] => ThreadInv(w)'
<1> PICK n : n = Len(clients) + 1
  OBVIOUS
<1>1. /\ n \in Clients /\ n \notin DOMAIN clients /\ Len(clients') = n /\ n <= MaxClients
      /\ clients' \in Seq(ClientInfo) /\ DOMAIN clients' = DOMAIN clients \cup {n}
      /\ clients'[n] = [conn |-> c, sock |-> fd[c], dest |-> d]
      /\ MoreClients /\ \A k \in DOMAIN clients : k < n
      /\ h_client' \in [Dests -> Seq(Clients)]
      /\ h_client'[d] = Append(h_client[d], n)
      /\ \A e \in Dests : e # d => h_client'[e] = h_client[e]
      /\ \A j \in DOMAIN h_client'[d] :
           \/ j \in DOMAIN h_client[d] /\ h_client'[d][j] = h_client[d][j]
           \/ j = Len(h_client[d]) + 1 /\ h_client'[d][j] = n
  <2>1. NewClient(c, d, n)
    BY AddClientNew
  <2> QED BY <2>1 DEF NewClient
<1>2. clients'[n].conn = c /\ clients'[n].sock = fd[c] /\ clients'[n].dest = d
  BY <1>1
<1>3. DOMAIN clients' = DOMAIN clients \cup {n} /\ \A k \in DOMAIN clients : clients'[k] = clients[k]
  BY <1>1 DEF MoreClients
<1>4. \A e \in Dests : \A j \in DOMAIN h_client'[e] :
        (j \in DOMAIN h_client[e] /\ h_client'[e][j] = h_client[e][j]) \/ (e = d /\ h_client'[e][j] = n)
  BY <1>1
<1>5. \A e \in Dests : \A j \in DOMAIN h_client[e] : h_client[e][j] \in DOMAIN clients
  BY DEF Inv, TypeOK, Range
<1>6. TypeOK'
  <2>1. \A e \in Dests : Range(h_client'[e]) \subseteq DOMAIN clients'
    BY <1>3, <1>4, <1>5 DEF Range
  <2>2. \A k \in DOMAIN clients' : clients'[k].dest \in groups'
    <3>1. \A k \in DOMAIN clients : clients[k].dest \in groups
      BY DEF Inv, TypeOK
    <3> QED BY <1>2, <1>3, <3>1
  <2>3. \A w \in Workers : worker'[w].pc \in {"each", "send"} =>
          worker'[w].frame \in DOMAIN dest /\ worker'[w].client \in DOMAIN clients'
    BY <1>3 DEF Inv, TypeOK
  <2>4. manager' \in ManagerState
    BY DEF ManagerState
  <2>5. clients' \in Seq(ClientInfo) /\ Len(clients') <= MaxClients
        /\ h_client' \in [Dests -> Seq(Clients)]
    BY <1>1
  <2> QED BY <2>1, <2>2, <2>3, <2>4, <2>5 DEF Inv, TypeOK
<1>7. SocketInv'
  BY <1>2, <1>3 DEF Inv, SocketInv
<1>8. ListInv'
  <2>1. \A e \in Dests : \A j \in DOMAIN h_client'[e] : clients'[h_client'[e][j]].dest = e
    <3>1. \A e \in Dests : \A j \in DOMAIN h_client[e] : clients[h_client[e][j]].dest = e
      BY DEF Inv, ListInv
    <3> QED BY <1>2, <1>3, <1>4, <1>5, <3>1
  <2>2. Growing(h_client'[d])
    <3>1. h_client[d] \in Seq(Nat) /\ n \in Nat /\ Growing(h_client[d])
      BY <1>1, Constants, SequenceTypes DEF Inv, ListInv
    <3>2. \A j \in DOMAIN h_client[d] : h_client[d][j] < n
      BY <1>1, <1>5
    <3>3. Growing(Append(h_client[d], n))
      BY <3>1, <3>2, AppendGrows
    <3> QED BY <1>1, <3>3
  <2>3. \A e \in Dests : Growing(h_client'[e])
    BY <1>1, <2>2 DEF Inv, ListInv
  <2> QED BY <2>1, <2>3 DEF ListInv, Growing
<1>9. QueueInv'
  BY DEF Inv, QueueInv, Growing
<1>10. ASSUME NEW w \in Workers, worker'[w] = worker[w] PROVE ThreadInv(w)'
  <2>1. w \in Topics => ListKept(w)
    <3> SUFFICES ASSUME w \in Topics, NEW j \in DOMAIN h_client[w]
                 PROVE  \E i \in DOMAIN h_client'[w] : h_client'[w][i] = h_client[w][j]
      BY DEF ListKept
    <3>1. w \in Dests
      BY Constants
    <3>2. CASE w # d
      BY <1>1, <3>1, <3>2
    <3>3. CASE w = d
      <4>1. h_client[d] \in Seq(Clients)
        BY DEF Inv, TypeOK
      <4>2. j \in DOMAIN Append(h_client[d], n) /\ Append(h_client[d], n)[j] = h_client[d][j]
        BY <1>1, <3>3, <4>1
      <4> QED BY <1>1, <3>3, <4>2
    <3> QED BY <3>2, <3>3
  <2> QED BY <1>1, <1>10, <2>1, NothingMore, ThreadKeeps
<1> QED BY <1>6, <1>7, <1>8, <1>9, <1>10

(* pthread_create() *)
LEMMA StartIs ==
  ASSUME TypeOK, NEW w \in Workers, NEW k \in Clients \cup {0}, Start(w, k)
  PROVE  /\ worker' \in [Workers -> ThreadState]
         /\ worker'[w].pc = "loop" /\ worker'[w].frame = 0 /\ worker'[w].client = k
         /\ worker'[w].next = 0
         /\ \A v \in Workers : v # w => worker'[v] = worker[v]
<1> DEFINE r == [NoThread EXCEPT !.pc = "loop", !.client = k]
<1>1. NoThread \in ThreadState /\ NoThread.frame = 0 /\ NoThread.next = 0
  BY Constants DEF NoThread, ThreadState
<1>2. r \in ThreadState /\ r.pc = "loop" /\ r.frame = 0 /\ r.client = k /\ r.next = 0
  <2>1. \A t \in ThreadState :
          LET u == [t EXCEPT !.pc = "loop", !.client = k]
          IN  u \in ThreadState /\ u.pc = "loop" /\ u.frame = t.frame /\ u.client = k
              /\ u.next = t.next
    BY DEF ThreadState
  <2> QED BY <1>1, <2>1
<1>3. worker' = [worker EXCEPT ![w] = r]
  BY DEF Start
<1> HIDE DEF r
<1> QED BY <1>2, <1>3 DEF TypeOK

(* The thread of a client. *)
LEMMA RegisterInv ==
  ASSUME Inv, NEW c \in Conns,
         \/ \E d \in Queues : register_unicast_worker(c, d)
         \/ register_reply_worker(c)
  PROVE  Inv'
<1>1. PICK d \in Queues \cup Repliers :
        /\ CanRegister(c) /\ initialize_dest_group(d) /\ AddClient(c, d)
        /\ Start(Len(clients'), Len(clients'))
        /\ UNCHANGED <<sockets, dest, queue, manager, wire, history>>
  BY DEF register_unicast_worker, register_reply_worker
<1>2. d \in Dests /\ d \notin Topics /\ fd[c] # 0 /\ Len(clients) < MaxClients
  BY <1>1, Constants DEF CanRegister
<1> PICK n : n = Len(clients) + 1
  OBVIOUS
<1>3. /\ n \in Clients /\ Len(clients') = n /\ n \in DOMAIN clients'
      /\ clients'[n] = [conn |-> c, sock |-> fd[c], dest |-> d]
  BY <1>1, <1>2, AddClientIs
<1>4. /\ worker' \in [Workers -> ThreadState]
      /\ worker'[n].pc = "loop" /\ worker'[n].frame = 0 /\ worker'[n].client = n
      /\ worker'[n].next = 0
      /\ \A v \in Workers : v # n => worker'[v] = worker[v]
  BY <1>1, <1>3, StartIs DEF Inv, Workers
<1>5. /\ d \in groups' /\ groups \subseteq groups' /\ groups' \subseteq Dests
      /\ UNCHANGED <<fd, open, dest, queue, wire, counted, freed, audience>> /\ manager' = Idle
  BY <1>1, <1>2 DEF initialize_dest_group, sockets, history, Inv, TypeOK, CanRegister
<1>6. /\ TypeOK' /\ SocketInv' /\ ListInv' /\ QueueInv'
      /\ \A w \in Workers : worker'[w] = worker[w] => ThreadInv(w)'
  BY <1>1, <1>2, <1>4, <1>5, AddClientInv
<1>7. ThreadInv(n)'
  <2>1. n \notin Topics /\ clients'[n].dest = d
    BY <1>3, Constants
  <2> QED BY <1>2, <1>3, <1>4, <2>1 DEF ThreadInv, Sending
<1> QED BY <1>4, <1>6, <1>7 DEF Inv

(* The second half of register_multicast_worker(). *)
LEMMA RegisterClientInv == ASSUME Inv, RegisterClient PROVE Inv'
<1>1. manager # Idle /\ manager \in ManagerState
  BY DEF RegisterClient, Idle, Inv, TypeOK
<1>2. manager.conn \in Conns /\ manager.dest \in Dests /\ manager.dest \in groups
      /\ fd[manager.conn] # 0
  BY <1>1, Constants DEF ManagerState, Inv, SocketInv
<1>3. /\ Len(clients) < MaxClients /\ AddClient(manager.conn, manager.dest) /\ manager' = Idle
      /\ UNCHANGED <<fd, open, dest, queue, groups, worker, wire, counted, freed, audience>>
  BY <1>1 DEF RegisterClient, sockets, history, Inv, SocketInv
<1>4. worker' \in [Workers -> ThreadState] /\ groups' \subseteq Dests
  BY <1>3 DEF Inv, TypeOK
<1>5. /\ TypeOK' /\ SocketInv' /\ ListInv' /\ QueueInv'
      /\ \A w \in Workers : worker'[w] = worker[w] => ThreadInv(w)'
  BY <1>2, <1>3, <1>4, AddClientInv
<1> QED BY <1>3, <1>5 DEF Inv

(* The first half: a new group gets its thread. *)
LEMMA MulticastInv ==
  ASSUME Inv, NEW c \in Conns, NEW d \in Topics, register_multicast_worker(c, d)
  PROVE  Inv'
<1>1. /\ UNCHANGED <<fd, open, dest, queue, clients, h_client, wire, counted, freed, audience>>
      /\ groups' = groups \cup {d} /\ manager = Idle /\ fd[c] # 0 /\ Len(clients) < MaxClients
      /\ manager' = [do |-> "add", conn |-> c, dest |-> d]
      /\ d \in Dests /\ d \in Workers
  BY Constants DEF register_multicast_worker, initialize_dest_group, sockets, history, CanRegister,
     Workers
<1>2. /\ worker' \in [Workers -> ThreadState]
      /\ \A v \in Workers : v # d => worker'[v] = worker[v]
      /\ worker'[d] = worker[d] \/ (worker'[d].pc = "loop" /\ worker'[d].frame = 0)
  <2>1. CASE UNCHANGED worker
    BY <2>1 DEF Inv, TypeOK
  <2>2. CASE Start(d, 0)
    BY <1>1, <2>2, StartIs DEF Inv
  <2> QED BY <2>1, <2>2 DEF register_multicast_worker
<1>3. manager'.conn = c /\ manager'.dest = d /\ manager' \in ManagerState
  BY <1>1 DEF ManagerState
<1>4. TypeOK'
  <2>1. \A k \in DOMAIN clients : clients[k].dest \in groups'
    BY <1>1 DEF Inv, TypeOK
  <2>2. \A w \in Workers : worker'[w].pc \in {"each", "send"} =>
          worker'[w].frame \in DOMAIN dest /\ worker'[w].client \in DOMAIN clients
    BY <1>2 DEF Inv, TypeOK
  <2> QED BY <1>1, <1>2, <1>3, <2>1, <2>2 DEF Inv, TypeOK
<1>5. SocketInv' /\ ListInv' /\ QueueInv'
  BY <1>1, <1>3 DEF Inv, SocketInv, ListInv, QueueInv, Growing
<1>6. ASSUME NEW w \in Workers PROVE ThreadInv(w)'
  <2>1. CASE worker'[w] = worker[w]
    <3>1. w \in Topics => ListKept(w)
      BY <1>1, Constants, NothingMore
    <3> QED BY <1>1, <2>1, <3>1, NothingMore, ThreadKeeps
  <2>2. CASE w = d /\ worker'[d].pc = "loop" /\ worker'[d].frame = 0
    <3>1. d \notin Clients /\ d \in groups'
      BY <1>1, Constants
    <3> QED BY <2>2, <3>1 DEF ThreadInv, Sending
  <2> QED BY <1>2, <2>1, <2>2
<1> QED BY <1>4, <1>5, <1>6 DEF Inv

-----------------------------------------------------------------------------
(* The threads.  What a step of a thread leaves alone. *)
LEMMA ThreadStep ==
  ASSUME Inv, NEW w \in Workers, \A v \in Workers : v # w => worker'[v] = worker[v],
         UNCHANGED <<fd, open, dest, groups, clients, manager>>, LessQueued,
         \A v \in Topics : v # w => h_client'[v] = h_client[v],
         TypeOK', ListInv', QueueInv', ThreadInv(w)'
  PROVE  Inv'
<1>1. SocketInv'
  BY DEF Inv, SocketInv
<1>2. ASSUME NEW v \in Workers, v # w PROVE ThreadInv(v)'
  <2>1. v \in Topics => ListKept(v)
    BY <1>2 DEF ListKept
  <2> QED BY <1>2, <2>1, NothingMore, ThreadKeeps
<1> QED BY <1>1, <1>2 DEF Inv

(* ... when it only changes its own state. *)
LEMMA OwnStep ==
  ASSUME Inv, NEW w \in Workers, worker' \in [Workers -> ThreadState],
         \A v \in Workers : v # w => worker'[v] = worker[v],
         UNCHANGED <<fd, open, dest, queue, groups, clients, h_client, manager>>,
         UNCHANGED <<counted, freed, audience>>,
         wire' \in [Conns -> Seq(WirePiece)], ThreadInv(w)'
  PROVE  Inv'
<1>1. ListInv' /\ QueueInv'
  BY DEF Inv, ListInv, QueueInv, Growing
<1>2. \A v \in Workers : worker'[v].pc \in {"each", "send"} =>
        worker'[v].frame \in DOMAIN dest /\ worker'[v].client \in DOMAIN clients
  <2>1. worker'[w].pc \in {"each", "send"} =>
          worker'[w].frame \in DOMAIN dest' /\ worker'[w].client \in DOMAIN clients'
    BY DEF ThreadInv, Sending
  <2>2. ASSUME NEW v \in Workers, v # w, worker[v].pc \in {"each", "send"}
        PROVE  worker[v].frame \in DOMAIN dest /\ worker[v].client \in DOMAIN clients
    BY <2>2 DEF Inv, TypeOK
  <2> QED BY <2>1, <2>2
<1>3. TypeOK'
  BY <1>2 DEF Inv, TypeOK
<1> QED BY <1>1, <1>3, NothingMore, ThreadStep

PCs == {"none", "loop", "take", "each", "send", "count", "exit"}

LEMMA GotoIs ==
  ASSUME TypeOK, NEW w \in Workers, NEW p \in PCs, Goto(w, p)
  PROVE  /\ worker' \in [Workers -> ThreadState]
         /\ worker'[w].pc = p /\ worker'[w].frame = worker[w].frame
         /\ worker'[w].client = worker[w].client /\ worker'[w].next = worker[w].next
         /\ worker'[w].part = worker[w].part
         /\ \A v \in Workers : v # w => worker'[v] = worker[v]
<1> DEFINE r == [worker[w] EXCEPT !.pc = p]
<1>1. \A t \in ThreadState :
        LET u == [t EXCEPT !.pc = p]
        IN  /\ u \in ThreadState /\ u.pc = p /\ u.frame = t.frame /\ u.client = t.client
            /\ u.next = t.next /\ u.part = t.part
  BY DEF ThreadState, PCs
<1>2. /\ r \in ThreadState /\ r.pc = p /\ r.frame = worker[w].frame
      /\ r.client = worker[w].client /\ r.next = worker[w].next /\ r.part = worker[w].part
  BY <1>1, ThreadType
<1>3. worker' = [worker EXCEPT ![w] = r]
  BY DEF Goto
<1> HIDE DEF r
<1> QED BY <1>2, <1>3 DEF TypeOK

LEMMA WorkerCases ==
  ASSUME NEW w \in Workers
  PROVE  \/ w \in Topics /\ w \notin Clients /\ w \in Dests /\ DestOf(w) = w
         \/ w \in Clients /\ w \notin Topics /\ DestOf(w) = clients[w].dest
BY Constants DEF Workers, DestOf

LEMMA CheckLoopInv == ASSUME Inv, NEW w \in Workers, CheckLoop(w) PROVE Inv'
<1>1. /\ UNCHANGED <<fd, open, dest, queue, groups, clients, h_client, manager, wire>>
      /\ UNCHANGED <<counted, freed, audience>> /\ worker[w].pc = "loop"
  BY DEF CheckLoop, sockets, registry, history
<1>2. PICK p \in {"take", "exit"} :
        Goto(w, p) /\ (w \in Topics /\ p = "take" => h_client[w] # <<>>)
  <2>1. CASE w \in Topics /\ h_client[w] = <<>>
    BY <2>1 DEF CheckLoop
  <2>2. CASE w \in Topics /\ h_client[w] # <<>>
    BY <2>2 DEF CheckLoop
  <2>3. CASE w \notin Topics /\ is_socket_valid(clients[w].sock)
    BY <2>3 DEF CheckLoop
  <2>4. CASE w \notin Topics /\ ~is_socket_valid(clients[w].sock)
    BY <2>4 DEF CheckLoop
  <2> QED BY <2>1, <2>2, <2>3, <2>4
<1>3. /\ worker' \in [Workers -> ThreadState]
      /\ worker'[w].pc = p /\ worker'[w].frame = worker[w].frame
      /\ worker'[w].client = worker[w].client /\ worker'[w].next = worker[w].next
      /\ \A v \in Workers : v # w => worker'[v] = worker[v]
  BY <1>2, GotoIs DEF Inv, PCs
<1>4. ThreadInv(w) /\ wire' \in [Conns -> Seq(WirePiece)]
  BY <1>1 DEF Inv, TypeOK
<1>5. ThreadInv(w)'
  BY <1>1, <1>2, <1>3, <1>4 DEF ThreadInv, Sending
<1> QED BY <1>1, <1>3, <1>4, <1>5, OwnStep

LEMMA ClientValidInv == ASSUME Inv, NEW w \in Workers, ClientValid(w) PROVE Inv'
<1>1. /\ UNCHANGED <<fd, open, dest, queue, groups, clients, h_client, manager, wire>>
      /\ UNCHANGED <<counted, freed, audience>> /\ worker[w].pc = "each" /\ w \in Topics
  BY DEF ClientValid, sockets, registry, history
<1>2. /\ worker' \in [Workers -> ThreadState]
      /\ worker'[w].pc = "send" /\ worker'[w].frame = worker[w].frame
      /\ worker'[w].client = worker[w].client /\ worker'[w].next = worker[w].next
      /\ worker'[w].part = worker[w].part
      /\ \A v \in Workers : v # w => worker'[v] = worker[v]
  BY GotoIs DEF Inv, PCs, ClientValid
<1>3. ThreadInv(w) /\ wire' \in [Conns -> Seq(WirePiece)]
  BY <1>1 DEF Inv, TypeOK
<1>4. DestOf(w)' = DestOf(w)
  BY <1>1 DEF DestOf
<1>5. ThreadInv(w)'
  BY <1>1, <1>2, <1>3, <1>4 DEF ThreadInv, Sending, Listed
<1> QED BY <1>1, <1>2, <1>3, <1>5, OwnStep

(* The entry behind k in the list is a younger client of the destination. *)
LEMMA NextClientIs ==
  ASSUME Inv, NEW d \in Dests, NEW k, NextClient(d, k) # 0
  PROVE  /\ NextClient(d, k) \in DOMAIN clients /\ NextClient(d, k) \in Clients
         /\ clients[NextClient(d, k)].dest = d
         /\ k < NextClient(d, k)
         /\ \E j \in DOMAIN h_client[d] :
              /\ j # 1 /\ j - 1 \in DOMAIN h_client[d] /\ h_client[d][j - 1] = k
              /\ h_client[d][j] = NextClient(d, k)
<1> DEFINE s == h_client[d]
           later == {s[j] : j \in {i \in 2 .. Len(s) : s[i - 1] = k}}
<1>1. NextClient(d, k) \in later
  BY DEF NextClient
<1>2. PICK j \in 2 .. Len(s) : s[j - 1] = k /\ NextClient(d, k) = s[j]
  BY <1>1
<1>3. s \in Seq(Clients)
  BY DEF Inv, TypeOK
<1>4. j \in DOMAIN s /\ j - 1 \in DOMAIN s /\ j # 1 /\ j - 1 \in 1 .. j - 1
  BY <1>3
<1>5. s[j - 1] < s[j] /\ clients[s[j]].dest = d
  BY <1>4 DEF Inv, ListInv, Growing
<1>6. s[j] \in DOMAIN clients
  BY <1>4 DEF Inv, TypeOK, Range
<1> QED BY <1>2, <1>4, <1>5, <1>6, ClientType DEF Inv

(* The loop over the clients of a topic, one step on. *)
LEMMA VisitIs ==
  ASSUME Inv, NEW w \in Topics, NEW k \in Clients
  PROVE  LET u == Visit(w, k)
         IN  /\ u \in ThreadState /\ u.pc = "each" /\ u.client = k
             /\ u.next = NextClient(w, k)
             /\ u.frame = worker[w].frame /\ u.part = worker[w].part
<1>1. w \in Workers /\ w \in Dests
  BY Constants DEF Workers
<1>2. NextClient(w, k) \in Clients \cup {0}
  BY <1>1, NextClientIs
<1>3. PICK n \in Clients \cup {0} : n = NextClient(w, k)
  BY <1>2
<1>4. \A t \in ThreadState :
        LET u == [t EXCEPT !.pc = "each", !.client = k, !.next = n]
        IN  /\ u \in ThreadState /\ u.pc = "each" /\ u.client = k /\ u.next = n
            /\ u.frame = t.frame /\ u.part = t.part
  BY DEF ThreadState
<1>5. worker[w] \in ThreadState
  BY <1>1, ThreadType DEF Inv
<1>6. LET u == [worker[w] EXCEPT !.pc = "each", !.client = k, !.next = n]
      IN  /\ u \in ThreadState /\ u.pc = "each" /\ u.client = k /\ u.next = n
          /\ u.frame = worker[w].frame /\ u.part = worker[w].part
  BY <1>4, <1>5
<1>7. Visit(w, k) = [worker[w] EXCEPT !.pc = "each", !.client = k, !.next = n]
  BY <1>3 DEF Visit
<1> QED BY <1>3, <1>6, <1>7

LEMMA AdvanceIs ==
  ASSUME Inv, NEW w \in Topics, worker[w].pc \in Sending, Advance(w)
  PROVE  /\ worker' \in [Workers -> ThreadState]
         /\ worker'[w].frame = worker[w].frame
         /\ worker[w].next = 0 => worker'[w].pc = "count" /\ worker'[w].client = worker[w].client
         /\ worker[w].next # 0 =>
              /\ worker'[w].pc = "each" /\ worker'[w].client = worker[w].next
              /\ worker'[w].next = NextClient(w, worker[w].next) /\ worker'[w].part = 1
         /\ \A v \in Workers : v # w => worker'[v] = worker[v]
<1> DEFINE n == worker[w].next
<1>0. w \in Workers /\ worker[w] \in ThreadState /\ n \in Clients \cup {0}
  BY ThreadType DEF Inv, Workers
<1>1. CASE n = 0
  <2> DEFINE r == [worker[w] EXCEPT !.pc = "count"]
  <2>1. \A t \in ThreadState :
          LET u == [t EXCEPT !.pc = "count"]
          IN  u \in ThreadState /\ u.pc = "count" /\ u.frame = t.frame /\ u.client = t.client
    BY DEF ThreadState
  <2>2. r \in ThreadState /\ r.pc = "count" /\ r.frame = worker[w].frame
        /\ r.client = worker[w].client
    BY <1>0, <2>1
  <2>3. worker' = [worker EXCEPT ![w] = r]
    BY <1>1 DEF Advance
  <2> HIDE DEF r
  <2> QED BY <1>0, <1>1, <2>2, <2>3 DEF Inv, TypeOK
<1>2. CASE n # 0
  <2> DEFINE r == [Visit(w, n) EXCEPT !.part = 1]
  <2>1. \A t \in ThreadState :
          LET u == [t EXCEPT !.part = 1]
          IN  /\ u \in ThreadState /\ u.pc = t.pc /\ u.frame = t.frame /\ u.client = t.client
              /\ u.next = t.next /\ u.part = 1
    BY Constants DEF ThreadState
  <2>2. n \in Clients
    BY <1>0, <1>2
  <2>3. LET u == Visit(w, n)
        IN  /\ u \in ThreadState /\ u.pc = "each" /\ u.client = n
            /\ u.next = NextClient(w, n) /\ u.frame = worker[w].frame
    BY <2>2, VisitIs
  <2>4. /\ r \in ThreadState /\ r.pc = "each" /\ r.frame = worker[w].frame /\ r.client = n
        /\ r.next = NextClient(w, n) /\ r.part = 1
    BY <2>1, <2>3
  <2>5. worker' = [worker EXCEPT ![w] = r]
    BY <1>2 DEF Advance
  <2> HIDE DEF r
  <2> QED BY <1>0, <1>2, <2>4, <2>5 DEF Inv, TypeOK
<1> QED BY <1>1, <1>2

(* list_del() of an entry that is in the list. *)
LEMMA ListDelIs ==
  ASSUME Inv, NEW d \in Dests, NEW k, Listed(d, k)
  PROVE  LET t == list_del(h_client[d], k)
         IN  /\ t \in Seq(Clients) /\ Growing(t)
             /\ \A j \in DOMAIN t : \E i \in DOMAIN h_client[d] : t[j] = h_client[d][i]
             /\ \A i \in DOMAIN h_client[d] : h_client[d][i] # k =>
                  \E j \in DOMAIN t : t[j] = h_client[d][i]
<1> DEFINE s == h_client[d]
           n == CHOOSE i \in DOMAIN s : s[i] = k
           t == RemoveAt(s, n)
<1>1. s \in Seq(Clients) /\ n \in DOMAIN s /\ s[n] = k /\ Growing(s)
  BY DEF Inv, TypeOK, ListInv, Listed
<1>2. DOMAIN s = 1 .. Len(s) /\ Len(s) \in Nat /\ \A i \in DOMAIN s : s[i] \in Nat
  <2>1. s \in Seq(Nat)
    BY SequenceTypes DEF Inv
  <2> HIDE DEF s
  <2> QED BY <2>1
<1>3. list_del(s, k) = t
  BY DEF list_del
<1> HIDE DEF n, s
<1>4. /\ t \in Seq(Clients) /\ Len(t) = Len(s) - 1
      /\ \A j \in 1 .. Len(s) - 1 : t[j] = IF j < n THEN s[j] ELSE s[j + 1]
  BY <1>1, <1>2, RemoveAtIs
<1>5. DOMAIN t = 1 .. Len(s) - 1
  BY <1>4
<1> HIDE DEF t
<1>6. Growing(t)
  <2> SUFFICES ASSUME NEW j \in DOMAIN t, NEW i \in 1 .. j - 1 PROVE t[i] < t[j]
    BY DEF Growing
  <2>1. PICK a \in DOMAIN s, b \in DOMAIN s : t[i] = s[a] /\ t[j] = s[b] /\ a \in 1 .. b - 1
    <3>1. i \in 1 .. Len(s) - 1 /\ i < j /\ j \in 1 .. Len(s) - 1
      BY <1>2, <1>5
    <3>2. t[i] = (IF i < n THEN s[i] ELSE s[i + 1]) /\ t[j] = (IF j < n THEN s[j] ELSE s[j + 1])
      BY <1>4, <3>1
    <3>3. i \in DOMAIN s /\ i + 1 \in DOMAIN s /\ j \in DOMAIN s /\ j + 1 \in DOMAIN s
          /\ i \in 1 .. j - 1 /\ i \in 1 .. (j + 1) - 1 /\ i + 1 \in 1 .. (j + 1) - 1
      BY <1>2, <3>1
    <3>4. ~(j < n /\ ~(i < n))
      BY <1>1, <1>2, <3>1
    <3> QED BY <3>2, <3>3, <3>4
  <2> QED BY <1>1, <2>1 DEF Growing
<1>7. \A j \in DOMAIN t : \E i \in DOMAIN s : t[j] = s[i]
  <2> SUFFICES ASSUME NEW j \in 1 .. Len(s) - 1 PROVE \E i \in DOMAIN s : t[j] = s[i]
    BY <1>5
  <2>1. t[j] = IF j < n THEN s[j] ELSE s[j + 1]
    BY <1>4
  <2>2. j \in DOMAIN s /\ j + 1 \in DOMAIN s
    BY <1>2
  <2> QED BY <2>1, <2>2
<1>8. ASSUME NEW i \in DOMAIN s, s[i] # k PROVE \E j \in DOMAIN t : t[j] = s[i]
  <2>1. CASE i < n
    <3>1. i \in 1 .. Len(s) - 1
      BY <1>1, <1>2, <2>1
    <3> QED BY <1>4, <1>5, <2>1, <3>1
  <2>2. CASE i > n
    <3>1. i - 1 \in 1 .. Len(s) - 1 /\ ~(i - 1 < n) /\ (i - 1) + 1 = i
      BY <1>1, <1>2, <2>2
    <3>2. t[i - 1] = s[i]
      BY <1>4, <3>1
    <3> QED BY <1>5, <3>1, <3>2
  <2> QED BY <1>1, <1>2, <1>8, <2>1, <2>2
<1> QED BY <1>3, <1>4, <1>6, <1>7, <1>8 DEF s

(* The thread of a topic goes on to the next client, or has sent the frame. *)
LEMMA AdvanceInv ==
  ASSUME Inv, NEW w \in Topics, worker[w].pc \in Sending, Advance(w),
         UNCHANGED <<dest, queue, groups, clients>>,
         \A k \in Clients : Listed(w, k) /\ k # worker[w].client => Listed(w, k)'
  PROVE  ThreadInv(w)'
<1> PICK n : n = worker[w].next
  OBVIOUS
<1> PICK m : m = NextClient(w, n)
  OBVIOUS
<1>0. w \in Workers /\ w \in Dests /\ w \notin Clients
  BY Constants DEF Workers
<1>1. /\ worker'[w].frame = worker[w].frame
      /\ n = 0 => worker'[w].pc = "count" /\ worker'[w].client = worker[w].client
      /\ n # 0 => /\ worker'[w].pc = "each" /\ worker'[w].client = n
                  /\ worker'[w].next = m /\ worker'[w].part = 1
  BY AdvanceIs
<1>2. ThreadInv(w) /\ DestOf(w) = w /\ DestOf(w)' = w
  BY <1>0 DEF Inv, DestOf
<1>3. worker[w].frame # 0 /\ w \in groups
  BY <1>2 DEF ThreadInv, Sending
<1>4. CASE n = 0
  BY <1>0, <1>1, <1>2, <1>3, <1>4 DEF ThreadInv, Sending
<1>5. CASE n # 0
  <2>1. /\ n \in DOMAIN clients /\ clients[n].dest = w /\ worker[w].client < n /\ Listed(w, n)
        /\ worker[w].client \in DOMAIN clients
    BY <1>2, <1>5 DEF ThreadInv
  <2>2. n \in Nat /\ worker[w].client \in Nat /\ n \in Clients
    BY <2>1, ClientType, Constants DEF Inv
  <2>3. m # 0 => m \in DOMAIN clients /\ m \in Clients /\ clients[m].dest = w /\ n < m /\ Listed(w, m)
    BY <1>0, NextClientIs DEF Listed
  <2>4. m # 0 => m \in Nat
    BY <2>3, Constants
  <2>5. n # worker[w].client /\ (m # 0 => m # worker[w].client)
    BY <2>1, <2>2, <2>3, <2>4
  <2>6. Listed(w, n)'
    BY <2>1, <2>2, <2>5
  <2>7. m # 0 => Listed(w, m)'
    BY <2>3, <2>5
  <2> QED BY <1>0, <1>1, <1>2, <1>3, <1>5, <2>1, <2>3, <2>6, <2>7 DEF ThreadInv, Sending
<1> QED BY <1>4, <1>5

LEMMA ClientGoneInv == ASSUME Inv, NEW w \in Workers, ClientGone(w) PROVE Inv'
<1>1. /\ UNCHANGED <<fd, open, dest, queue, groups, clients, manager, wire>>
      /\ UNCHANGED <<counted, freed, audience>> /\ worker[w].pc = "each" /\ w \in Topics /\ Advance(w)
      /\ h_client' = [h_client EXCEPT ![w] = list_del(h_client[w], worker[w].client)]
  BY DEF ClientGone, sockets, history
<1>2. w \in Dests /\ w \in Topics /\ worker[w].pc \in Sending
  BY <1>1, Constants DEF Sending
<1> PICK t : t = list_del(h_client[w], worker[w].client)
  OBVIOUS
<1>3. Listed(w, worker[w].client)
  BY <1>2 DEF Inv, ThreadInv
<1>4. /\ t \in Seq(Clients) /\ Growing(t)
      /\ \A j \in DOMAIN t : \E i \in DOMAIN h_client[w] : t[j] = h_client[w][i]
      /\ \A i \in DOMAIN h_client[w] : h_client[w][i] # worker[w].client =>
           \E j \in DOMAIN t : t[j] = h_client[w][i]
  <2> PICK k : k = worker[w].client
    OBVIOUS
  <2>1. Listed(w, k) /\ t = list_del(h_client[w], k)
    BY <1>3
  <2>2. /\ t \in Seq(Clients) /\ Growing(t)
        /\ \A j \in DOMAIN t : \E i \in DOMAIN h_client[w] : t[j] = h_client[w][i]
        /\ \A i \in DOMAIN h_client[w] : h_client[w][i] # k => \E j \in DOMAIN t : t[j] = h_client[w][i]
    BY <1>2, <2>1, ListDelIs
  <2> QED BY <2>2
<1>5. /\ h_client' \in [Dests -> Seq(Clients)] /\ h_client'[w] = t
      /\ \A d \in Dests : d # w => h_client'[d] = h_client[d]
  BY <1>1, <1>2, <1>4 DEF Inv, TypeOK
<1>6. ASSUME NEW k \in Clients, Listed(w, k), k # worker[w].client PROVE Listed(w, k)'
  BY <1>4, <1>5, <1>6 DEF Listed
<1>7. ThreadInv(w)'
  BY <1>1, <1>2, <1>6, AdvanceInv
<1>8. worker' \in [Workers -> ThreadState] /\ \A v \in Workers : v # w => worker'[v] = worker[v]
  BY <1>1, <1>2, AdvanceIs
<1>9. \A d \in Dests : \A j \in DOMAIN h_client'[d] :
        \E i \in DOMAIN h_client[d] : h_client'[d][j] = h_client[d][i]
  BY <1>4, <1>5
<1>10. ListInv' /\ QueueInv'
  <2>1. \A d \in Dests : Growing(h_client'[d])
    BY <1>4, <1>5 DEF Inv, ListInv
  <2>2. \A d \in Dests : \A j \in DOMAIN h_client'[d] : clients[h_client'[d][j]].dest = d
    BY <1>9 DEF Inv, ListInv
  <2>3. ListInv'
    BY <1>1, <2>1, <2>2 DEF ListInv, Growing
  <2>4. QueueInv'
    BY <1>1 DEF Inv, QueueInv, Growing
  <2> QED BY <2>3, <2>4
<1>11. TypeOK'
  <2>1. \A d \in Dests : Range(h_client'[d]) \subseteq DOMAIN clients
    <3>1. \A d \in Dests : \A j \in DOMAIN h_client[d] : h_client[d][j] \in DOMAIN clients
      BY DEF Inv, TypeOK, Range
    <3> QED BY <1>9, <3>1 DEF Range
  <2>2. worker'[w].pc \in {"each", "send"} =>
          worker'[w].frame \in DOMAIN dest /\ worker'[w].client \in DOMAIN clients
    BY <1>1, <1>7 DEF ThreadInv, Sending
  <2>3. \A v \in Workers : worker'[v].pc \in {"each", "send"} =>
          worker'[v].frame \in DOMAIN dest /\ worker'[v].client \in DOMAIN clients
    BY <1>8, <2>2 DEF Inv, TypeOK
  <2> QED BY <1>1, <1>5, <1>8, <2>1, <2>3 DEF Inv, TypeOK
<1>12. \A v \in Topics : v # w => h_client'[v] = h_client[v]
  BY <1>5, Constants
<1> QED BY <1>1, <1>7, <1>8, <1>10, <1>11, <1>12, NothingMore, ThreadStep

(* A frame was there. *)
LEMMA TakenIs ==
  ASSUME Inv, NEW w \in Workers, worker[w].pc = "take", NEW f \in Ids, Taken(w, f)
  PROVE  /\ worker' \in [Workers -> ThreadState]
         /\ worker'[w].frame = f /\ worker'[w].part = 1
         /\ w \in Topics =>
              /\ worker'[w].pc = "each" /\ worker'[w].client = h_client[w][1]
              /\ worker'[w].next = NextClient(w, h_client[w][1]) /\ 1 \in DOMAIN h_client[w]
         /\ w \notin Topics =>
              worker'[w].pc = "send" /\ worker'[w].client = w /\ worker'[w].next = 0
         /\ \A v \in Workers : v # w => worker'[v] = worker[v]
<1>1. \A t \in ThreadState :
        LET u == [t EXCEPT !.frame = f, !.part = 1]
        IN  /\ u \in ThreadState /\ u.pc = t.pc /\ u.frame = f /\ u.client = t.client
            /\ u.next = t.next /\ u.part = 1
  <2>1. 1 \in 0 .. Parts
    BY Constants
  <2> QED BY <2>1 DEF ThreadState
<1>2. CASE w \in Topics
  <2>1. w \in Dests /\ h_client[w] \in Seq(Clients) /\ h_client[w] # <<>>
    BY <1>2, Constants DEF Inv, TypeOK, ThreadInv
  <2>2. PICK k \in Clients : k = Head(h_client[w]) /\ k = h_client[w][1] /\ 1 \in DOMAIN h_client[w]
    BY <2>1
  <2>3. LET u == Visit(w, k)
        IN  /\ u \in ThreadState /\ u.pc = "each" /\ u.client = k /\ u.next = NextClient(w, k)
    BY <1>2, VisitIs
  <2> DEFINE r == [Visit(w, k) EXCEPT !.frame = f, !.part = 1]
  <2>4. /\ r \in ThreadState /\ r.pc = "each" /\ r.client = k /\ r.next = NextClient(w, k)
        /\ r.frame = f /\ r.part = 1
    BY <1>1, <2>3
  <2>5. worker' = [worker EXCEPT ![w] = r]
    BY <1>2, <2>2 DEF Taken
  <2> HIDE DEF r
  <2> QED BY <1>2, <2>2, <2>4, <2>5 DEF Inv, TypeOK
<1>3. CASE w \notin Topics
  <2>1. \A t \in ThreadState :
          LET u == [t EXCEPT !.pc = "send"]
          IN  u \in ThreadState /\ u.pc = "send" /\ u.client = t.client /\ u.next = t.next
    BY DEF ThreadState
  <2>2. worker[w] \in ThreadState /\ worker[w].client = w /\ worker[w].next = 0
    BY <1>3 DEF Inv, TypeOK, ThreadInv, Workers
  <2> DEFINE q == [worker[w] EXCEPT !.pc = "send"]
  <2>3. q \in ThreadState /\ q.pc = "send" /\ q.client = w /\ q.next = 0
    BY <2>1, <2>2
  <2>4. worker' = [worker EXCEPT ![w] = [q EXCEPT !.frame = f, !.part = 1]]
    BY <1>3 DEF Taken
  <2> HIDE DEF q
  <2> DEFINE r == [q EXCEPT !.frame = f, !.part = 1]
  <2>5. /\ r \in ThreadState /\ r.pc = "send" /\ r.client = w /\ r.next = 0
        /\ r.frame = f /\ r.part = 1
    BY <1>1, <2>3
  <2>6. worker' = [worker EXCEPT ![w] = r]
    BY <2>4
  <2> HIDE DEF r
  <2> QED BY <1>3, <2>5, <2>6 DEF Inv, TypeOK
<1> QED BY <1>2, <1>3

LEMMA DequeueIs ==
  ASSUME Inv, NEW w \in Workers, dequeue(w)
  PROVE  \/ UNCHANGED <<queue, audience>> /\ Goto(w, "loop")
         \/ \E f \in DOMAIN dest :
              /\ Taken(w, f) /\ f \in Ids /\ dest[f] = DestOf(w)
              /\ queue' \in [Dests -> Seq(Ids)]
              /\ \A d \in Dests : d # DestOf(w) => queue'[d] = queue[d]
              /\ 1 \in DOMAIN queue[DestOf(w)] /\ queue[DestOf(w)][1] = f
              /\ DOMAIN queue'[DestOf(w)] = 1 .. Len(queue[DestOf(w)]) - 1
              /\ DOMAIN queue[DestOf(w)] = 1 .. Len(queue[DestOf(w)])
              /\ Len(queue[DestOf(w)]) \in Nat
              /\ \A j \in 1 .. Len(queue[DestOf(w)]) - 1 :
                   queue'[DestOf(w)][j] = queue[DestOf(w)][j + 1]
<1> PICK d : d = DestOf(w)
  OBVIOUS
<1> PICK q : q = queue[d]
  OBVIOUS
<1>1. d \in Dests /\ q \in Seq(Ids) /\ q \in Seq(Nat)
  BY DestOfType, SequenceTypes DEF dequeue, Inv, TypeOK
<1>2. CASE q = <<>>
  BY <1>2 DEF dequeue
<1>3. CASE q # <<>>
  <2>1. Taken(w, Head(q)) /\ queue' = [queue EXCEPT ![d] = Tail(q)]
    BY <1>3 DEF dequeue
  <2>2. /\ Len(q) \in Nat \ {0} /\ DOMAIN q = 1 .. Len(q) /\ Head(q) = q[1]
        /\ Tail(q) \in Seq(Ids) /\ DOMAIN Tail(q) = 1 .. Len(q) - 1
        /\ \A k \in 1 .. Len(q) - 1 : Tail(q)[k] = q[k + 1]
    BY <1>1, <1>3, TailIs
  <2>3. PICK f : f = Head(q)
    OBVIOUS
  <2>4. 1 \in DOMAIN q /\ f = q[1]
    BY <2>2, <2>3
  <2>5. f \in DOMAIN dest /\ f \in Ids /\ dest[f] = d
    BY <1>1, <2>4 DEF Inv, TypeOK, QueueInv, Range
  <2>6. /\ queue' \in [Dests -> Seq(Ids)] /\ queue'[d] = Tail(q)
        /\ \A e \in Dests : e # d => queue'[e] = queue[e]
    BY <1>1, <2>1, <2>2 DEF Inv, TypeOK
  <2>7. Taken(w, f)
    BY <2>1, <2>3
  <2> QED BY <2>2, <2>4, <2>5, <2>6, <2>7
<1> QED BY <1>2, <1>3

LEMMA DequeueInv == ASSUME Inv, NEW w \in Workers, dequeue(w) PROVE Inv'
<1>1. /\ UNCHANGED <<fd, open, dest, groups, clients, h_client, manager, wire>>
      /\ UNCHANGED <<counted, freed>> /\ worker[w].pc = "take"
  BY DEF dequeue, sockets, registry
<1>2. CASE UNCHANGED <<queue, audience>> /\ Goto(w, "loop")
  <2>1. /\ worker' \in [Workers -> ThreadState]
        /\ worker'[w].pc = "loop" /\ worker'[w].frame = worker[w].frame
        /\ worker'[w].client = worker[w].client /\ worker'[w].next = worker[w].next
        /\ \A v \in Workers : v # w => worker'[v] = worker[v]
    BY <1>2, GotoIs DEF Inv, PCs
  <2>2. ThreadInv(w) /\ wire' \in [Conns -> Seq(WirePiece)]
    BY <1>1 DEF Inv, TypeOK
  <2>3. ThreadInv(w)'
    BY <1>1, <2>1, <2>2 DEF ThreadInv, Sending
  <2> QED BY <1>1, <1>2, <2>1, <2>2, <2>3, OwnStep
<1>3. CASE ~(UNCHANGED <<queue, audience>> /\ Goto(w, "loop"))
  <2> PICK d : d = DestOf(w)
    OBVIOUS
  <2> PICK q : q = queue[d]
    OBVIOUS
  <2>1. PICK f \in DOMAIN dest :
          /\ Taken(w, f) /\ f \in Ids /\ dest[f] = d
          /\ queue' \in [Dests -> Seq(Ids)]
          /\ \A e \in Dests : e # d => queue'[e] = queue[e]
          /\ 1 \in DOMAIN q /\ q[1] = f
          /\ DOMAIN queue'[d] = 1 .. Len(q) - 1 /\ DOMAIN q = 1 .. Len(q) /\ Len(q) \in Nat
          /\ \A j \in 1 .. Len(q) - 1 : queue'[d][j] = q[j + 1]
    BY <1>3, DequeueIs
  <2>2. /\ worker' \in [Workers -> ThreadState]
        /\ worker'[w].frame = f /\ worker'[w].part = 1
        /\ w \in Topics =>
             /\ worker'[w].pc = "each" /\ worker'[w].client = h_client[w][1]
             /\ worker'[w].next = NextClient(w, h_client[w][1]) /\ 1 \in DOMAIN h_client[w]
        /\ w \notin Topics =>
             worker'[w].pc = "send" /\ worker'[w].client = w /\ worker'[w].next = 0
        /\ \A v \in Workers : v # w => worker'[v] = worker[v]
    BY <1>1, <2>1, TakenIs
  <2>3. d \in Dests /\ d = DestOf(w)' /\ ThreadInv(w)
    BY <1>1, DestOfType DEF DestOf, Inv
  <2>4. \A j \in DOMAIN queue'[d] : /\ j + 1 \in DOMAIN q /\ queue'[d][j] = q[j + 1]
                                    /\ 1 \in 1 .. (j + 1) - 1 /\ j \in Nat
    BY <2>1
  <2>5. Growing(q) /\ \A j \in DOMAIN q : dest[q[j]] = d /\ q[j] \in DOMAIN dest /\ q[j] \in Ids
    BY <2>3 DEF Inv, QueueInv, TypeOK, Range
  <2>6. \A j \in DOMAIN queue'[d] : f < queue'[d][j]
    BY <2>1, <2>4, <2>5 DEF Growing
  <2>7. \A e \in Dests : \A j \in DOMAIN queue'[e] :
          \E i \in DOMAIN queue[e] : queue'[e][j] = queue[e][i]
    <3> SUFFICES ASSUME NEW e \in Dests, NEW j \in DOMAIN queue'[e]
                 PROVE  \E i \in DOMAIN queue[e] : queue'[e][j] = queue[e][i]
      OBVIOUS
    <3>1. CASE e # d
      BY <2>1, <3>1
    <3>2. CASE e = d
      <4>1. queue'[d][j] = q[j + 1] /\ j + 1 \in DOMAIN q
        BY <2>4, <3>2
      <4> QED BY <3>2, <4>1
    <3> QED BY <3>1, <3>2
  <2>8. LessQueued
    BY <2>7 DEF LessQueued
  <2>9. QueueInv'
    <3>1. Growing(queue'[d])
      <4> SUFFICES ASSUME NEW j \in DOMAIN queue'[d], NEW i \in 1 .. j - 1
                   PROVE  queue'[d][i] < queue'[d][j]
        BY DEF Growing
      <4>1. i \in DOMAIN queue'[d] /\ i + 1 \in 1 .. (j + 1) - 1
        <5>1. PICK z \in Nat : z = Len(q) /\ DOMAIN queue'[d] = 1 .. z - 1
          BY <2>1
        <5>2. j \in 1 .. z - 1
          BY <5>1
        <5>3. i \in 1 .. z - 1 /\ i + 1 \in 1 .. (j + 1) - 1
          BY <5>2
        <5> QED BY <5>1, <5>3
      <4> QED BY <2>4, <2>5, <4>1 DEF Growing
    <3>2. \A e \in Dests : Growing(queue'[e])
      BY <2>1, <3>1 DEF Inv, QueueInv
    <3>3. \A e \in Dests : \A j \in DOMAIN queue'[e] : dest[queue'[e][j]] = e
      BY <2>7 DEF Inv, QueueInv
    <3> QED BY <1>1, <3>2, <3>3 DEF Inv, QueueInv, Growing
  <2>10. ListInv'
    BY <1>1 DEF Inv, ListInv, Growing
  <2>11. ThreadInv(w)'
    <3>1. CASE w \in Topics
      <4> PICK k : k = h_client[w][1]
        OBVIOUS
      <4> PICK n : n = NextClient(w, k)
        OBVIOUS
      <4>1. w \in Dests /\ w \notin Clients /\ w \in groups /\ d = w
        BY <1>1, <2>3, <3>1, Constants DEF ThreadInv, DestOf
      <4>2. k \in DOMAIN clients /\ clients[k].dest = w /\ Listed(w, k)
        BY <2>2, <3>1, <4>1 DEF Inv, TypeOK, Range, ListInv, Listed
      <4>3. n # 0 => n \in DOMAIN clients /\ clients[n].dest = w /\ k < n /\ Listed(w, n)
        BY <4>1, NextClientIs DEF Listed
      <4>4. \A m : Listed(w, m) <=> Listed(w, m)'
        BY <1>1 DEF Listed
      <4> QED BY <1>1, <2>1, <2>2, <2>3, <2>6, <3>1, <4>1, <4>2, <4>3, <4>4, Constants
              DEF ThreadInv, Sending
    <3>2. CASE w \notin Topics
      <4>1. /\ w \in Clients /\ w \in DOMAIN clients /\ clients[w].dest \notin Topics
            /\ clients[w].dest = d
        BY <1>1, <2>3, <3>2 DEF ThreadInv, DestOf, Workers
      <4> QED BY <1>1, <2>1, <2>2, <2>3, <2>6, <3>2, <4>1, Constants DEF ThreadInv, Sending
    <3> QED BY <3>1, <3>2
  <2>12. audience' \in [Ids -> SUBSET Clients]
    <3>1. PICK a : a = IF w \in Topics THEN Range(h_client[w]) ELSE {w}
      OBVIOUS
    <3>2. a \in SUBSET Clients
      <4>1. CASE w \in Topics
        BY <3>1, <4>1, Constants DEF Range, Inv, TypeOK
      <4>2. CASE w \notin Topics
        BY <3>1, <4>2 DEF Workers
      <4> QED BY <4>1, <4>2
    <3>3. audience' = [audience EXCEPT ![f] = a]
      BY <2>1, <3>1 DEF Taken
    <3> QED BY <2>1, <3>2, <3>3 DEF Inv, TypeOK
  <2>13. TypeOK'
    <3>1. \A e \in Dests : Range(queue'[e]) \cup Range(counted[e]) \subseteq DOMAIN dest
      <4>1. /\ \A e \in Dests : \A j \in DOMAIN queue[e] : queue[e][j] \in DOMAIN dest
            /\ \A e \in Dests : Range(counted[e]) \subseteq DOMAIN dest
        BY DEF Inv, TypeOK, Range
      <4>2. \A e \in Dests : Range(queue'[e]) \subseteq DOMAIN dest
        BY <2>7, <4>1 DEF Range
      <4> QED BY <4>1, <4>2
    <3>2. worker'[w].pc \in {"each", "send"} =>
            worker'[w].frame \in DOMAIN dest /\ worker'[w].client \in DOMAIN clients
      BY <1>1, <2>11 DEF ThreadInv, Sending
    <3>3. \A v \in Workers : worker'[v].pc \in {"each", "send"} =>
            worker'[v].frame \in DOMAIN dest /\ worker'[v].client \in DOMAIN clients
      BY <2>2, <3>2 DEF Inv, TypeOK
    <3> QED BY <1>1, <2>1, <2>2, <2>12, <3>1, <3>3 DEF Inv, TypeOK
  <2> QED BY <1>1, <2>2, <2>8, <2>9, <2>10, <2>11, <2>13, NothingMore, ThreadStep
<1> QED BY <1>2, <1>3

(* What send() does: the piece is appended to what the owners got. *)
LEMMA SendIs ==
  ASSUME Inv, NEW w \in Workers, stomp_send_message(w)
  PROVE  /\ Piece(w) \in WirePiece
         /\ Piece(w).writer = w /\ Piece(w).client = worker[w].client
         /\ Piece(w).frame = worker[w].frame /\ Piece(w).part = worker[w].part
         /\ wire' \in [Conns -> Seq(WirePiece)]
         /\ \A c \in Conns :
              wire'[c] = IF c \in Owners(clients[worker[w].client].sock)
                         THEN Append(wire[c], Piece(w)) ELSE wire[c]
<1>1. worker[w].pc \in Sending
  BY DEF stomp_send_message, Sending
<1>2. /\ worker[w].client \in DOMAIN clients /\ worker[w].frame \in DOMAIN dest
      /\ worker[w].frame # 0 /\ worker[w].part # 0
  BY <1>1 DEF Inv, ThreadInv
<1>3. worker[w].client \in Clients /\ worker[w].frame \in Ids /\ worker[w].part \in 1 .. Parts
  BY <1>2, ClientType, ThreadType, Constants DEF Inv
<1>4. Piece(w) \in WirePiece
  BY <1>3 DEF Piece, WirePiece
<1>5. /\ Piece(w).writer = w /\ Piece(w).client = worker[w].client
      /\ Piece(w).frame = worker[w].frame /\ Piece(w).part = worker[w].part
  BY DEF Piece
<1> PICK x : x = Piece(w)
  OBVIOUS
<1> PICK o : o = Owners(clients[worker[w].client].sock)
  OBVIOUS
<1>6. wire' = [c \in Conns |-> IF c \in o THEN Append(wire[c], x) ELSE wire[c]]
  BY DEF stomp_send_message, send_msg
<1>7. \A c \in Conns : wire[c] \in Seq(WirePiece) /\ Append(wire[c], x) \in Seq(WirePiece)
  BY <1>4 DEF Inv, TypeOK
<1>8. /\ wire' \in [Conns -> Seq(WirePiece)]
      /\ \A c \in Conns : wire'[c] = IF c \in o THEN Append(wire[c], x) ELSE wire[c]
  BY <1>6, <1>7
<1> QED BY <1>4, <1>5, <1>8

(* Where the thread is after one piece. *)
LEMMA SentPartIs ==
  ASSUME Inv, NEW w \in Workers, worker[w].pc = "send", SentPart(w, Parts)
  PROVE  \/ /\ worker[w].part < Parts /\ worker' \in [Workers -> ThreadState]
            /\ worker'[w].pc = "send" /\ worker'[w].frame = worker[w].frame
            /\ worker'[w].client = worker[w].client /\ worker'[w].next = worker[w].next
            /\ worker'[w].part = worker[w].part + 1
            /\ \A v \in Workers : v # w => worker'[v] = worker[v]
         \/ w \in Topics /\ Advance(w) /\ worker[w].part = Parts
         \/ w \notin Topics /\ Goto(w, "count") /\ worker[w].part = Parts
<1>1. worker[w] \in ThreadState /\ worker[w].part \in 0 .. Parts /\ Parts \in Nat
  BY ThreadType, Constants DEF Inv
<1>2. CASE worker[w].part < Parts
  <2> PICK n : n = worker[w].part + 1
    OBVIOUS
  <2>1. n \in 0 .. Parts
    BY <1>1, <1>2
  <2> DEFINE r == [worker[w] EXCEPT !.part = n]
  <2>2. \A t \in ThreadState :
          LET u == [t EXCEPT !.part = n]
          IN  /\ u \in ThreadState /\ u.pc = t.pc /\ u.frame = t.frame /\ u.client = t.client
              /\ u.next = t.next /\ u.part = n
    BY <2>1 DEF ThreadState
  <2>3. /\ r \in ThreadState /\ r.pc = "send" /\ r.frame = worker[w].frame
        /\ r.client = worker[w].client /\ r.next = worker[w].next /\ r.part = n
    BY <1>1, <2>2
  <2>4. worker' = [worker EXCEPT ![w] = r]
    BY <1>2 DEF SentPart
  <2> HIDE DEF r
  <2> QED BY <1>2, <2>3, <2>4 DEF Inv, TypeOK
<1>3. CASE ~(worker[w].part < Parts)
  <2>1. worker[w].part = Parts
    BY <1>1, <1>3
  <2> QED BY <1>3, <2>1 DEF SentPart
<1> QED BY <1>2, <1>3

LEMMA SendInv == ASSUME Inv, NEW w \in Workers, stomp_send_message(w) PROVE Inv'
<1>1. /\ UNCHANGED <<fd, open, dest, queue, groups, clients, h_client, manager>>
      /\ UNCHANGED <<counted, freed, audience>>
      /\ worker[w].pc = "send" /\ worker[w].pc \in Sending /\ SentPart(w, Parts)
  BY DEF stomp_send_message, sockets, registry, history, Sending
<1>2. wire' \in [Conns -> Seq(WirePiece)]
  BY SendIs
<1>3. ThreadInv(w) /\ DestOf(w)' = DestOf(w) /\ \A k : Listed(w, k) <=> Listed(w, k)'
  BY <1>1 DEF Inv, DestOf, Listed
<1>4. CASE /\ worker[w].part < Parts /\ worker' \in [Workers -> ThreadState]
           /\ worker'[w].pc = "send" /\ worker'[w].frame = worker[w].frame
           /\ worker'[w].client = worker[w].client /\ worker'[w].next = worker[w].next
           /\ worker'[w].part = worker[w].part + 1
           /\ \A v \in Workers : v # w => worker'[v] = worker[v]
  <2>1. worker[w].part + 1 # 0
    BY ThreadType, Constants DEF Inv
  <2>2. ThreadInv(w)'
    BY <1>1, <1>3, <1>4, <2>1 DEF ThreadInv, Sending
  <2> QED BY <1>1, <1>2, <1>4, <2>2, OwnStep
<1>5. CASE w \in Topics /\ Advance(w)
  <2>1. ThreadInv(w)'
    BY <1>1, <1>3, <1>5, AdvanceInv
  <2>2. worker' \in [Workers -> ThreadState] /\ \A v \in Workers : v # w => worker'[v] = worker[v]
    BY <1>1, <1>5, AdvanceIs
  <2> QED BY <1>1, <1>2, <2>1, <2>2, OwnStep
<1>6. CASE w \notin Topics /\ Goto(w, "count")
  <2>1. /\ worker' \in [Workers -> ThreadState]
        /\ worker'[w].pc = "count" /\ worker'[w].frame = worker[w].frame
        /\ worker'[w].client = worker[w].client /\ worker'[w].next = worker[w].next
        /\ \A v \in Workers : v # w => worker'[v] = worker[v]
    BY <1>6, GotoIs DEF Inv, PCs
  <2>2. ThreadInv(w)'
    BY <1>1, <1>3, <1>6, <2>1 DEF ThreadInv, Sending
  <2> QED BY <1>1, <1>2, <2>1, <2>2, OwnStep
<1> QED BY <1>1, <1>4, <1>5, <1>6, SentPartIs

(* update_index_sent() *)
LEMMA DoneIs ==
  ASSUME Inv, NEW w \in Workers, SendingDone(w)
  PROVE  /\ UNCHANGED <<fd, open, dest, queue, groups, clients, h_client, manager, wire, audience>>
         /\ DestOf(w) \in Dests
         /\ worker[w].frame \in DOMAIN dest /\ worker[w].frame # 0 /\ dest[worker[w].frame] = DestOf(w)
         /\ freed' = IF w \in Topics THEN freed \cup {worker[w].frame} ELSE freed
         /\ worker' \in [Workers -> ThreadState]
         /\ worker'[w].pc = "loop" /\ worker'[w].frame = 0 /\ worker'[w].next = 0
         /\ worker'[w].client = worker[w].client
         /\ \A v \in Workers : v # w => worker'[v] = worker[v]
         /\ counted' \in [Dests -> Seq(Ids)]
         /\ counted'[DestOf(w)] = Append(counted[DestOf(w)], worker[w].frame)
         /\ \A d \in Dests : d # DestOf(w) => counted'[d] = counted[d]
<1>1. /\ UNCHANGED <<fd, open, dest, queue, groups, clients, h_client, manager, wire, audience>>
      /\ freed' = IF w \in Topics THEN freed \cup {worker[w].frame} ELSE freed
      /\ worker[w].pc = "count"
  BY DEF SendingDone, sockets, registry
<1>2. /\ worker[w].frame \in DOMAIN dest /\ worker[w].frame # 0 /\ dest[worker[w].frame] = DestOf(w)
      /\ DestOf(w) \in Dests
  BY <1>1, DestOfType DEF Inv, ThreadInv
<1>3. worker[w].frame \in Ids /\ worker[w] \in ThreadState
  BY <1>2, ThreadType DEF Inv
<1>4. /\ counted' \in [Dests -> Seq(Ids)]
      /\ counted'[DestOf(w)] = Append(counted[DestOf(w)], worker[w].frame)
      /\ \A d \in Dests : d # DestOf(w) => counted'[d] = counted[d]
  <2> PICK d : d = DestOf(w)
    OBVIOUS
  <2> PICK f : f = worker[w].frame
    OBVIOUS
  <2>1. counted' = [counted EXCEPT ![d] = Append(counted[d], f)] /\ d \in Dests
    BY <1>2 DEF SendingDone
  <2>2. counted[d] \in Seq(Ids) /\ Append(counted[d], f) \in Seq(Ids)
    BY <1>3, <2>1 DEF Inv, TypeOK
  <2>3. /\ counted' \in [Dests -> Seq(Ids)] /\ counted'[d] = Append(counted[d], f)
        /\ \A e \in Dests : e # d => counted'[e] = counted[e]
    BY <2>1, <2>2 DEF Inv, TypeOK
  <2> QED BY <2>3
<1>5. /\ worker' \in [Workers -> ThreadState]
      /\ worker'[w].pc = "loop" /\ worker'[w].frame = 0 /\ worker'[w].next = 0
      /\ worker'[w].client = worker[w].client
      /\ \A v \in Workers : v # w => worker'[v] = worker[v]
  <2> DEFINE r == [worker[w] EXCEPT !.pc = "loop", !.frame = 0, !.next = 0, !.part = 0]
  <2>1. \A t \in ThreadState :
          LET u == [t EXCEPT !.pc = "loop", !.frame = 0, !.next = 0, !.part = 0]
          IN  /\ u \in ThreadState /\ u.pc = "loop" /\ u.frame = 0 /\ u.client = t.client
              /\ u.next = 0
    <3>1. 0 \in 0 .. Parts
      BY Constants
    <3> QED BY <3>1 DEF ThreadState
  <2>2. r \in ThreadState /\ r.pc = "loop" /\ r.frame = 0 /\ r.client = worker[w].client /\ r.next = 0
    BY <1>3, <2>1
  <2>3. worker' = [worker EXCEPT ![w] = r]
    BY DEF SendingDone, Inv, TypeOK
  <2> HIDE DEF r
  <2> QED BY <2>2, <2>3 DEF Inv, TypeOK
<1> QED BY <1>1, <1>2, <1>4, <1>5

(* The frames counted afterwards. *)
LEMMA DoneCounted ==
  ASSUME Inv, NEW w \in Workers, SendingDone(w), NEW d \in Dests, NEW j \in DOMAIN counted'[d]
  PROVE  \/ j \in DOMAIN counted[d] /\ counted'[d][j] = counted[d][j]
         \/ d = DestOf(w) /\ counted'[d][j] = worker[w].frame /\ j = Len(counted[d]) + 1
<1>1. CASE d # DestOf(w)
  BY <1>1, DoneIs
<1>2. CASE d = DestOf(w)
  <2> PICK f : f = worker[w].frame
    OBVIOUS
  <2>1. counted'[d] = Append(counted[d], f) /\ f \in Ids /\ counted[d] \in Seq(Ids)
    BY <1>2, DoneIs, ThreadType DEF Inv, TypeOK
  <2> QED BY <1>2, <2>1, AppendElements
<1> QED BY <1>1, <1>2

LEMMA DoneInv == ASSUME Inv, NEW w \in Workers, SendingDone(w) PROVE Inv'
<1> PICK f : f = worker[w].frame
  OBVIOUS
<1>1. /\ UNCHANGED <<fd, open, dest, queue, groups, clients, h_client, manager, wire, audience>>
      /\ f \in DOMAIN dest /\ dest[f] = DestOf(w)
      /\ freed' = IF w \in Topics THEN freed \cup {f} ELSE freed
      /\ worker' \in [Workers -> ThreadState]
      /\ worker'[w].pc = "loop" /\ worker'[w].frame = 0 /\ worker'[w].next = 0
      /\ worker'[w].client = worker[w].client
      /\ \A v \in Workers : v # w => worker'[v] = worker[v]
      /\ counted' \in [Dests -> Seq(Ids)]
  BY DoneIs
<1>2. \A d \in Dests : \A j \in DOMAIN counted'[d] :
        \/ j \in DOMAIN counted[d] /\ counted'[d][j] = counted[d][j]
        \/ d = DestOf(w) /\ counted'[d][j] = f
  BY DoneCounted
<1>3. ListInv' /\ QueueInv'
  <2>1. \A d \in Dests : \A j \in DOMAIN counted'[d] : dest[counted'[d][j]] = d
    BY <1>1, <1>2 DEF Inv, QueueInv
  <2>2. QueueInv'
    BY <1>1, <2>1 DEF Inv, QueueInv, Growing
  <2> QED BY <1>1, <2>2 DEF Inv, ListInv, Growing
<1>4. ThreadInv(w)'
  <2>1. ThreadInv(w) /\ worker[w].pc = "count"
    BY DEF Inv, SendingDone
  <2> QED BY <1>1, <2>1 DEF ThreadInv, Sending
<1>5. TypeOK'
  <2>1. \A d \in Dests : Range(queue[d]) \cup Range(counted'[d]) \subseteq DOMAIN dest
    <3>1. /\ \A d \in Dests : \A j \in DOMAIN counted[d] : counted[d][j] \in DOMAIN dest
          /\ \A d \in Dests : Range(queue[d]) \subseteq DOMAIN dest
      BY DEF Inv, TypeOK, Range
    <3>2. \A d \in Dests : Range(counted'[d]) \subseteq DOMAIN dest
      BY <1>1, <1>2, <3>1 DEF Range
    <3> QED BY <3>1, <3>2
  <2>2. \A v \in Workers : worker'[v].pc \in {"each", "send"} =>
          worker'[v].frame \in DOMAIN dest /\ worker'[v].client \in DOMAIN clients
    BY <1>1 DEF Inv, TypeOK
  <2>3. freed' \subseteq DOMAIN dest
    BY <1>1 DEF Inv, TypeOK
  <2> QED BY <1>1, <2>1, <2>2, <2>3 DEF Inv, TypeOK
<1> QED BY <1>1, <1>3, <1>4, <1>5, NothingMore, ThreadStep

-----------------------------------------------------------------------------
LEMMA InvInit == Init => Inv
<1> SUFFICES ASSUME Init PROVE Inv
  OBVIOUS
<1>1. NoThread \in ThreadState /\ NoThread.pc = "none" /\ NoThread.frame = 0 /\ NoThread.next = 0
  BY Constants DEF NoThread, ThreadState
<1>2. /\ worker \in [Workers -> ThreadState]
      /\ \A w \in Workers : worker[w].pc = "none" /\ worker[w].frame = 0 /\ worker[w].next = 0
  <2> HIDE DEF NoThread
  <2> QED BY <1>1 DEF Init
<1>3. /\ \A d \in Dests : queue[d] = <<>> /\ counted[d] = <<>> /\ h_client[d] = <<>>
      /\ dest = <<>> /\ clients = <<>> /\ open = {} /\ manager = Idle
      /\ freed = {} /\ groups = {}
  BY DEF Init
<1>4. DOMAIN <<>> = {} /\ Range(<<>>) = {} /\ \A S : <<>> \in Seq(S) /\ Len(<<>>) = 0
  BY DEF Range
<1>5. Growing(<<>>)
  BY <1>4 DEF Growing
<1>6. TypeOK
  <2>1. fd \in [Conns -> 0 .. Cardinality(Conns)]
    BY Constants DEF Init
  <2>2. /\ queue \in [Dests -> Seq(Ids)] /\ counted \in [Dests -> Seq(Ids)]
        /\ h_client \in [Dests -> Seq(Clients)] /\ wire \in [Conns -> Seq(WirePiece)]
        /\ audience \in [Ids -> SUBSET Clients]
    BY <1>4 DEF Init
  <2>3. manager \in ManagerState
    BY <1>3 DEF ManagerState
  <2>4. /\ dest \in Seq(Dests) /\ Len(dest) <= MaxFrames
        /\ clients \in Seq(ClientInfo) /\ Len(clients) <= MaxClients
    BY <1>3, <1>4, SendingAssumption
  <2> QED BY <1>2, <1>3, <1>4, <2>1, <2>2, <2>3, <2>4 DEF TypeOK
<1>7. SocketInv /\ ListInv /\ QueueInv
  BY <1>3, <1>4, <1>5 DEF SocketInv, ListInv, QueueInv
<1>8. \A w \in Workers : ThreadInv(w)
  BY <1>2 DEF ThreadInv, Sending
<1> QED BY <1>6, <1>7, <1>8 DEF Inv

LEMMA InvStutter == ASSUME Inv, UNCHANGED vars PROVE Inv'
<1>1. /\ UNCHANGED <<fd, open, dest, queue, groups, clients, h_client, manager, worker, wire>>
      /\ UNCHANGED <<counted, freed, audience>>
  BY DEF vars, sockets, registry, history
<1>2. TypeOK' /\ SocketInv'
  BY <1>1 DEF Inv, TypeOK, SocketInv
<1>3. ListInv' /\ QueueInv'
  BY <1>1 DEF Inv, ListInv, QueueInv, Growing
<1>4. ASSUME NEW w \in Workers PROVE ThreadInv(w)'
  <2>1. w \in Topics => ListKept(w)
    BY <1>1, Constants, NothingMore
  <2> QED BY <1>1, <2>1, NothingMore, ThreadKeeps
<1> QED BY <1>2, <1>3, <1>4 DEF Inv

LEMMA InvNext == Inv /\ [Next]_vars => Inv'
<1> SUFFICES ASSUME Inv, [Next]_vars PROVE Inv'
  OBVIOUS
<1>1. ASSUME NEW c \in Conns, do_connection_worker(c) PROVE Inv'
  BY <1>1, AcceptInv
<1>2. ASSUME NEW c \in Conns, connection_co_worker(c) PROVE Inv'
  BY <1>2, CloseInv
<1>3. ASSUME NEW d \in Dests, enqueue(d) PROVE Inv'
  BY <1>3, EnqueueInv
<1>4. ASSUME NEW c \in Conns, NEW d \in Queues, register_unicast_worker(c, d) PROVE Inv'
  BY <1>4, RegisterInv
<1>5. ASSUME NEW c \in Conns, NEW d \in Topics, register_multicast_worker(c, d) PROVE Inv'
  BY <1>5, MulticastInv
<1>6. ASSUME NEW c \in Conns, register_reply_worker(c) PROVE Inv'
  BY <1>6, RegisterInv
<1>7. ASSUME RegisterClient PROVE Inv'
  BY <1>7, RegisterClientInv
<1>8. ASSUME NEW w \in Workers, Thread(w) PROVE Inv'
  BY <1>8, CheckLoopInv, DequeueInv, ClientValidInv, ClientGoneInv, SendInv, DoneInv DEF Thread
<1>9. ASSUME UNCHANGED vars PROVE Inv'
  BY <1>9, InvStutter
<1> QED BY <1>1, <1>2, <1>3, <1>4, <1>5, <1>6, <1>7, <1>8, <1>9 DEF Next, Manager

LEMMA Invariant == Spec => []Inv
BY InvInit, InvNext, PTL DEF Spec

(* TypeOK in every state, for any number of connections, destinations,     *)
(* frames, clients and pieces: a thread that sends has a frame that was    *)
(* enqueued and a client that is registered.                               *)
THEOREM TypeCorrect == Spec => []TypeOK
<1>1. Inv => TypeOK
  BY DEF Inv
<1> QED BY <1>1, Invariant, PTL

-----------------------------------------------------------------------------
(* Where a frame is: one place only. *)
Waits(f) == \E j \in DOMAIN queue[dest[f]] : queue[dest[f]][j] = f
Held(f) == \E w \in Workers : worker[w].frame = f
WasCounted(f) == \E j \in DOMAIN counted[dest[f]] : counted[dest[f]][j] = f
One(f) ==
  /\ Waits(f) \/ Held(f) \/ WasCounted(f)
  /\ Waits(f) => ~Held(f) /\ ~WasCounted(f)
  /\ Held(f) => ~WasCounted(f)
  /\ \A v, w \in Workers : worker[v].frame = f /\ worker[w].frame = f => v = w
  /\ \A i, j \in DOMAIN counted[dest[f]] :
       counted[dest[f]][i] = f /\ counted[dest[f]][j] = f => i = j
  /\ f \in freed => dest[f] \in Topics /\ WasCounted(f)
OneInv == \A f \in DOMAIN dest : One(f)

(* The steps that move no frame. *)
QuietThread(w) ==
  CheckLoop(w) \/ ClientValid(w) \/ ClientGone(w) \/ stomp_send_message(w)
Quiet ==
  \/ \E c \in Conns : do_connection_worker(c) \/ connection_co_worker(c)
  \/ \E c \in Conns : register_reply_worker(c) \/ \E d \in Queues : register_unicast_worker(c, d)
  \/ \E c \in Conns, d \in Topics : register_multicast_worker(c, d)
  \/ RegisterClient
  \/ \E w \in Workers : QuietThread(w)
  \/ UNCHANGED vars

(* The step of a thread that moves no frame. *)
LEMMA QuietThreadIs ==
  ASSUME Inv, NEW w \in Workers, QuietThread(w)
  PROVE  /\ UNCHANGED <<fd, open, dest, queue, groups, clients, counted, freed, audience>>
         /\ worker' \in [Workers -> ThreadState]
         /\ worker'[w].frame = worker[w].frame
         /\ \A v \in Workers : v # w => worker'[v] = worker[v]
<1>1. CASE CheckLoop(w)
  <2>1. PICK p \in {"take", "exit"} : Goto(w, p)
    BY <1>1 DEF CheckLoop
  <2> QED BY <1>1, <2>1, GotoIs DEF Inv, PCs, CheckLoop, sockets, registry, history
<1>2. CASE ClientValid(w)
  BY <1>2, GotoIs DEF Inv, PCs, ClientValid, sockets, registry, history
<1>3. CASE ClientGone(w)
  BY <1>3, AdvanceIs DEF ClientGone, Sending, sockets, history
<1>4. CASE stomp_send_message(w)
  <2>1. /\ UNCHANGED <<fd, open, dest, queue, groups, clients, counted, freed, audience>>
        /\ worker[w].pc = "send" /\ worker[w].pc \in Sending /\ SentPart(w, Parts)
    BY <1>4 DEF stomp_send_message, sockets, registry, history, Sending
  <2>2. w \in Topics /\ Advance(w) =>
          /\ worker' \in [Workers -> ThreadState] /\ worker'[w].frame = worker[w].frame
          /\ \A v \in Workers : v # w => worker'[v] = worker[v]
    BY <2>1, AdvanceIs
  <2>3. Goto(w, "count") =>
          /\ worker' \in [Workers -> ThreadState] /\ worker'[w].frame = worker[w].frame
          /\ \A v \in Workers : v # w => worker'[v] = worker[v]
    BY GotoIs DEF Inv, PCs
  <2> QED BY <2>1, <2>2, <2>3, SentPartIs
<1> QED BY <1>1, <1>2, <1>3, <1>4 DEF QuietThread

(* A thread that is started was none before. *)
LEMMA StartFresh ==
  ASSUME Inv, NEW w \in Workers, worker[w].pc = "none", NEW k \in Clients \cup {0}, Start(w, k)
  PROVE  /\ worker' \in [Workers -> ThreadState]
         /\ worker'[w].pc = "loop" /\ worker'[w].frame = 0 /\ worker[w].frame = 0
         /\ \A v \in Workers : v # w => worker'[v] = worker[v]
<1>1. worker[w].frame = 0
  BY DEF Inv, ThreadInv, Sending
<1> QED BY <1>1, StartIs DEF Inv

LEMMA QuietIs ==
  ASSUME Inv, Quiet
  PROVE  /\ UNCHANGED <<dest, queue, counted, freed, audience>>
         /\ \A v \in Workers : worker'[v].frame = worker[v].frame
<1>1. CASE \E c \in Conns : do_connection_worker(c) \/ connection_co_worker(c)
  BY <1>1 DEF do_connection_worker, connection_co_worker, history
<1>2. CASE \E c \in Conns : register_reply_worker(c) \/ \E d \in Queues : register_unicast_worker(c, d)
  <2>1. PICK c \in Conns, d \in Queues \cup Repliers :
          /\ CanRegister(c) /\ AddClient(c, d) /\ Start(Len(clients'), Len(clients'))
          /\ UNCHANGED <<dest, queue, counted, freed, audience>>
    BY <1>2 DEF register_unicast_worker, register_reply_worker, history
  <2> PICK n : n = Len(clients) + 1
    OBVIOUS
  <2>2. d \in Dests /\ fd[c] # 0 /\ Len(clients) < MaxClients
    BY <2>1, Constants DEF CanRegister
  <2>3. n \in Clients /\ n \notin DOMAIN clients /\ Len(clients') = n /\ n \in Workers
    BY <2>1, <2>2, AddClientIs DEF Workers
  <2>4. worker[n].pc = "none"
    BY <2>3 DEF Inv, ThreadInv
  <2> QED BY <2>1, <2>3, <2>4, StartFresh
<1>3. CASE \E c \in Conns, d \in Topics : register_multicast_worker(c, d)
  <2>1. PICK c \in Conns, d \in Topics : register_multicast_worker(c, d)
    BY <1>3
  <2>2. UNCHANGED <<dest, queue, counted, freed, audience>> /\ d \in Workers
    BY <2>1 DEF register_multicast_worker, history, Workers
  <2>3. UNCHANGED worker \/ (d \notin groups /\ Start(d, 0))
    BY <2>1 DEF register_multicast_worker, search_dest_group
  <2>4. d \notin groups => worker[d].pc = "none"
    BY <2>2 DEF Inv, ThreadInv
  <2> QED BY <2>2, <2>3, <2>4, StartFresh
<1>4. CASE RegisterClient
  BY <1>4 DEF RegisterClient, history
<1>5. CASE \E w \in Workers : QuietThread(w)
  BY <1>5, QuietThreadIs
<1>6. CASE UNCHANGED vars
  BY <1>6 DEF vars, history
<1> QED BY <1>1, <1>2, <1>3, <1>4, <1>5, <1>6 DEF Quiet

LEMMA NextCases ==
  ASSUME [Next]_vars
  PROVE  \/ Quiet \/ \E d \in Dests : enqueue(d)
         \/ \E w \in Workers : dequeue(w) \/ SendingDone(w)
BY DEF Next, Manager, Thread, Quiet, QuietThread

LEMMA OneKeeps ==
  ASSUME OneInv, UNCHANGED <<dest, queue, counted, freed>>,
         \A v \in Workers : worker'[v].frame = worker[v].frame
  PROVE  OneInv'
<1>1. ASSUME NEW f \in DOMAIN dest PROVE One(f)'
  <2>1. One(f)
    BY <1>1 DEF OneInv
  <2>2. (Waits(f) <=> Waits(f)') /\ (Held(f) <=> Held(f)') /\ (WasCounted(f) <=> WasCounted(f)')
    BY DEF Waits, Held, WasCounted
  <2> QED BY <2>1, <2>2 DEF One
<1> QED BY <1>1 DEF OneInv

LEMMA FrameKnown ==
  ASSUME Inv, NEW w \in Workers, worker[w].frame # 0
  PROVE  worker[w].frame \in DOMAIN dest /\ dest[worker[w].frame] = DestOf(w)
BY DEF Inv, ThreadInv

LEMMA CountedKnown ==
  ASSUME Inv, NEW d \in Dests, NEW j \in DOMAIN counted[d]
  PROVE  counted[d][j] \in DOMAIN dest /\ dest[counted[d][j]] = d
BY DEF Inv, TypeOK, QueueInv, Range

LEMMA FrameNumbers ==
  ASSUME TypeOK, NEW f \in DOMAIN dest
  PROVE  f \in Ids /\ f \in Nat \ {0} /\ dest[f] \in Dests /\ DOMAIN dest = 1 .. Len(dest)
BY SendingAssumption DEF TypeOK, Ids

LEMMA OneEnqueue == ASSUME Inv, OneInv, NEW d \in Dests, enqueue(d) PROVE OneInv'
<1> PICK n : n = Len(dest) + 1
  OBVIOUS
<1>1. /\ DOMAIN dest' = DOMAIN dest \cup {n} /\ n \notin DOMAIN dest
      /\ dest'[n] = d /\ MoreFrames /\ n \in Ids
      /\ \A e \in Dests : e # d => queue'[e] = queue[e]
      /\ \A j \in DOMAIN queue'[d] : \/ j \in DOMAIN queue[d] /\ queue'[d][j] = queue[d][j]
                                     \/ j = Len(queue[d]) + 1 /\ queue'[d][j] = n
      /\ DOMAIN queue[d] \subseteq DOMAIN queue'[d] /\ Len(queue[d]) + 1 \in DOMAIN queue'[d]
      /\ \A j \in DOMAIN queue[d] : queue'[d][j] = queue[d][j]
      /\ queue'[d][Len(queue[d]) + 1] = n
  BY EnqueueIs
<1>2. UNCHANGED <<worker, counted, freed>>
  BY DEF enqueue, history
<1>3. One(n)'
  <2>1. Waits(n)'
    BY <1>1 DEF Waits
  <2>2. \A w \in Workers : worker[w].frame # n
    BY <1>1, Constants, FrameKnown
  <2>3. \A j \in DOMAIN counted[d] : counted[d][j] # n
    BY <1>1, CountedKnown
  <2>4. n \notin freed
    BY <1>1 DEF Inv, TypeOK
  <2>5. ~Held(n)' /\ ~WasCounted(n)'
    BY <1>1, <1>2, <2>2, <2>3 DEF Held, WasCounted
  <2> QED BY <1>1, <1>2, <2>1, <2>2, <2>3, <2>4, <2>5 DEF One
<1>4. ASSUME NEW f \in DOMAIN dest PROVE One(f)'
  <2>1. One(f) /\ dest'[f] = dest[f] /\ dest[f] \in Dests /\ f # n
    BY <1>1, FrameNumbers DEF OneInv, MoreFrames, Inv
  <2>2. Waits(f) <=> Waits(f)'
    <3>1. CASE dest[f] # d
      BY <1>1, <2>1, <3>1 DEF Waits
    <3>2. CASE dest[f] = d
      BY <1>1, <2>1, <3>2 DEF Waits
    <3> QED BY <3>1, <3>2
  <2>3. (Held(f) <=> Held(f)') /\ (WasCounted(f) <=> WasCounted(f)')
    BY <1>2, <2>1 DEF Held, WasCounted
  <2> QED BY <1>2, <2>1, <2>2, <2>3 DEF One
<1> QED BY <1>1, <1>3, <1>4 DEF OneInv

(* dequeue(): the frame is in no queue any more, and in one thread's hands. *)
LEMMA OneDequeue == ASSUME Inv, OneInv, NEW w \in Workers, dequeue(w) PROVE OneInv'
<1>1. UNCHANGED <<dest, counted, freed>> /\ worker[w].pc = "take" /\ worker[w].frame = 0
  BY DEF dequeue, Inv, ThreadInv, Sending
<1>2. CASE UNCHANGED queue /\ Goto(w, "loop")
  <2>1. \A v \in Workers : worker'[v].frame = worker[v].frame
    BY <1>2, GotoIs DEF Inv, PCs
  <2> QED BY <1>1, <1>2, <2>1, OneKeeps
<1>3. CASE ~(UNCHANGED <<queue, audience>> /\ Goto(w, "loop"))
  <2> PICK d : d = DestOf(w)
    OBVIOUS
  <2> PICK q : q = queue[d]
    OBVIOUS
  <2>1. PICK f \in DOMAIN dest :
          /\ Taken(w, f) /\ f \in Ids /\ dest[f] = d
          /\ \A e \in Dests : e # d => queue'[e] = queue[e]
          /\ 1 \in DOMAIN q /\ q[1] = f
          /\ DOMAIN queue'[d] = 1 .. Len(q) - 1 /\ DOMAIN q = 1 .. Len(q) /\ Len(q) \in Nat
          /\ \A j \in 1 .. Len(q) - 1 : queue'[d][j] = q[j + 1]
    BY <1>3, DequeueIs
  <2>2. worker'[w].frame = f /\ \A v \in Workers : v # w => worker'[v] = worker[v]
    BY <1>1, <2>1, TakenIs
  <2>3. Waits(f) /\ One(f) /\ d \in Dests
    BY <2>1, FrameNumbers DEF Waits, OneInv, Inv
  <2>4. \A v \in Workers : worker'[v].frame = f => v = w
    BY <2>2, <2>3 DEF One, Held
  <2>5. ~Waits(f)'
    <3>1. Growing(q)
      BY <2>3 DEF Inv, QueueInv
    <3>2. ASSUME NEW j \in DOMAIN queue'[d] PROVE queue'[d][j] # f
      <4>1. j + 1 \in DOMAIN q /\ 1 \in 1 .. (j + 1) - 1 /\ queue'[d][j] = q[j + 1]
        BY <2>1
      <4>2. q[1] < q[j + 1] /\ q[1] \in Nat
        BY <2>1, <2>3, <3>1, <4>1, Constants DEF Growing
      <4> QED BY <2>1, <4>1, <4>2
    <3> QED BY <1>1, <2>1, <3>2 DEF Waits
  <2>6. One(f)'
    <3>1. Held(f)' /\ ~WasCounted(f)' /\ f \notin freed'
      BY <1>1, <2>2, <2>3 DEF Held, WasCounted, One
    <3> QED BY <1>1, <2>3, <2>4, <2>5, <3>1 DEF One
  <2>7. ASSUME NEW g \in DOMAIN dest, g # f PROVE One(g)'
    <3>1. One(g) /\ g # 0 /\ dest[g] \in Dests
      BY <2>7, FrameNumbers DEF OneInv, Inv
    <3>2. \A v \in Workers : worker'[v].frame = g <=> worker[v].frame = g
      BY <1>1, <2>2, <2>7, <3>1
    <3>3. Waits(g) <=> Waits(g)'
      <4>1. CASE dest[g] # d
        BY <1>1, <2>1, <3>1, <4>1 DEF Waits
      <4>2. CASE dest[g] = d
        <5>1. \A j \in DOMAIN queue'[d] : j + 1 \in DOMAIN q /\ queue'[d][j] = q[j + 1]
          BY <2>1
        <5>2. ASSUME NEW i \in DOMAIN q, q[i] = g PROVE \E j \in DOMAIN queue'[d] : queue'[d][j] = g
          <6>1. i - 1 \in DOMAIN queue'[d] /\ (i - 1) + 1 = i
            BY <2>1, <2>7, <5>2
          <6> QED BY <2>1, <5>2, <6>1
        <5> QED BY <1>1, <4>2, <5>1, <5>2 DEF Waits
      <4> QED BY <4>1, <4>2
    <3>4. (Held(g) <=> Held(g)') /\ (WasCounted(g) <=> WasCounted(g)')
      BY <1>1, <3>2 DEF Held, WasCounted
    <3> QED BY <1>1, <3>1, <3>2, <3>3, <3>4 DEF One
  <2> QED BY <1>1, <2>6, <2>7 DEF OneInv
<1> QED BY <1>2, <1>3

(* update_index_sent(): the thread lets go of the frame it counts. *)
LEMMA OneDone == ASSUME Inv, OneInv, NEW w \in Workers, SendingDone(w) PROVE OneInv'
<1> PICK d : d = DestOf(w)
  OBVIOUS
<1> PICK f : f = worker[w].frame
  OBVIOUS
<1>1. /\ UNCHANGED <<dest, queue>> /\ d \in Dests /\ f \in DOMAIN dest /\ f # 0 /\ dest[f] = d
      /\ freed' = IF w \in Topics THEN freed \cup {f} ELSE freed
      /\ worker'[w].frame = 0 /\ \A v \in Workers : v # w => worker'[v] = worker[v]
      /\ counted'[d] = Append(counted[d], f)
      /\ \A e \in Dests : e # d => counted'[e] = counted[e]
  BY DoneIs
<1>2. /\ counted[d] \in Seq(Ids) /\ f \in Ids
  BY <1>1, FrameNumbers DEF Inv, TypeOK
<1> PICK n : n = Len(counted[d]) + 1
  OBVIOUS
<1>3. /\ n \in DOMAIN counted'[d] /\ counted'[d][n] = f
      /\ DOMAIN counted[d] \subseteq DOMAIN counted'[d]
      /\ \A j \in DOMAIN counted[d] : counted'[d][j] = counted[d][j]
      /\ \A j \in DOMAIN counted'[d] : j \in DOMAIN counted[d] \/ j = n
  <2>1. /\ Len(counted[d]) \in Nat /\ DOMAIN counted[d] = 1 .. Len(counted[d])
        /\ DOMAIN counted'[d] = 1 .. Len(counted[d]) + 1
        /\ \A k \in 1 .. Len(counted[d]) : counted'[d][k] = counted[d][k]
        /\ counted'[d][Len(counted[d]) + 1] = f
    BY <1>1, <1>2, AppendIs
  <2>2. /\ n \in DOMAIN counted'[d] /\ DOMAIN counted[d] \subseteq DOMAIN counted'[d]
        /\ \A j \in DOMAIN counted'[d] : j \in DOMAIN counted[d] \/ j = n
    BY <2>1
  <2> QED BY <2>1, <2>2
<1>4. One(f) /\ Held(f) /\ ~Waits(f) /\ ~WasCounted(f)
  BY <1>1 DEF OneInv, One, Held
<1>5. One(f)'
  <2>1. ~Held(f)'
    BY <1>1, <1>4 DEF One, Held
  <2>2. WasCounted(f)' /\ ~Waits(f)'
    BY <1>1, <1>3, <1>4 DEF WasCounted, Waits
  <2>3. \A i, j \in DOMAIN counted'[d] : counted'[d][i] = f /\ counted'[d][j] = f => i = j
    BY <1>1, <1>3, <1>4 DEF WasCounted
  <2>4. f \in freed' => dest[f] \in Topics
    BY <1>1, <1>4 DEF One, DestOf
  <2>5. \A v \in Workers : worker'[v].frame # f
    BY <2>1 DEF Held
  <2> QED BY <1>1, <2>1, <2>2, <2>3, <2>4, <2>5 DEF One
<1>6. ASSUME NEW g \in DOMAIN dest, g # f PROVE One(g)'
  <2>1. One(g) /\ g # 0 /\ dest[g] \in Dests
    BY <1>6, FrameNumbers DEF OneInv, Inv
  <2>2. \A v \in Workers : worker'[v].frame = g <=> worker[v].frame = g
    BY <1>1, <1>6, <2>1
  <2>3. /\ WasCounted(g) <=> WasCounted(g)'
        /\ \A i, j \in DOMAIN counted'[dest[g]] :
             counted'[dest[g]][i] = g /\ counted'[dest[g]][j] = g => i = j
    <3>1. CASE dest[g] # d
      BY <1>1, <2>1, <3>1 DEF WasCounted, One
    <3>2. CASE dest[g] = d
      <4>1. \A j \in DOMAIN counted'[d] : counted'[d][j] = g =>
              j \in DOMAIN counted[d] /\ counted[d][j] = g
        BY <1>3, <1>6
      <4>2. \A i, j \in DOMAIN counted[d] : counted[d][i] = g /\ counted[d][j] = g => i = j
        BY <2>1, <3>2 DEF One
      <4>3. UNCHANGED dest
        BY <1>1
      <4>4. WasCounted(g) <=> WasCounted(g)'
        BY <1>3, <3>2, <4>1, <4>3 DEF WasCounted
      <4> QED BY <3>2, <4>1, <4>2, <4>4
    <3> QED BY <3>1, <3>2
  <2>4. (Held(g) <=> Held(g)') /\ (Waits(g) <=> Waits(g)') /\ (g \in freed' => g \in freed)
    BY <1>1, <1>6, <2>2 DEF Held, Waits
  <2> QED BY <1>1, <2>1, <2>2, <2>3, <2>4 DEF One
<1> QED BY <1>1, <1>5, <1>6 DEF OneInv

LEMMA OneInvariant == Spec => []OneInv
<1>1. Init => OneInv
  BY DEF Init, OneInv
<1>2. Inv /\ OneInv /\ [Next]_vars => OneInv'
  <2> SUFFICES ASSUME Inv, OneInv, [Next]_vars PROVE OneInv'
    OBVIOUS
  <2>1. CASE Quiet
    BY <2>1, QuietIs, OneKeeps
  <2> QED BY <2>1, NextCases, OneEnqueue, OneDequeue, OneDone
<1> QED BY <1>1, <1>2, Invariant, PTL DEF Spec

(* OneHolder: two threads never send the same frame, it counts as sent     *)
(* once, and a frame that free_frame() got is in nobody's hands, for any   *)
(* number of threads that take from the same queue.                        *)
THEOREM OneHolderAlways == Spec => []OneHolder
<1>1. Inv /\ OneInv => OneHolder
  <2> SUFFICES ASSUME Inv, OneInv, NEW f \in DOMAIN dest
               PROVE  /\ Cardinality(Positions(queue[dest[f]], f)) + Cardinality(Holders(f))
                           + Cardinality(Positions(counted[dest[f]], f)) = 1
                      /\ f \in freed => dest[f] \in Topics /\ f \in Range(counted[dest[f]])
    BY DEF OneHolder
  <2> PICK q : q = Positions(queue[dest[f]], f)
    OBVIOUS
  <2> PICK h : h = Holders(f)
    OBVIOUS
  <2> PICK n : n = Positions(counted[dest[f]], f)
    OBVIOUS
  <2>1. One(f) /\ dest[f] \in Dests
    BY FrameNumbers DEF OneInv, Inv
  <2>2. /\ ~Waits(f) => q = {}
        /\ ~Held(f) => h = {}
        /\ ~WasCounted(f) => n = {}
    BY DEF Waits, Held, WasCounted, Positions, Holders
  <2>3. Waits(f) => \E x : q = {x}
    <3>1. SUFFICES ASSUME Waits(f) PROVE \E x : q = {x}
      OBVIOUS
    <3>2. PICK j \in DOMAIN queue[dest[f]] : queue[dest[f]][j] = f
      BY <3>1 DEF Waits
    <3>3. queue[dest[f]] \in Seq(Nat) /\ Growing(queue[dest[f]])
      BY <2>1, SequenceTypes DEF Inv, QueueInv
    <3>4. \A i \in DOMAIN queue[dest[f]] : queue[dest[f]][i] = f => i = j
      <4> PICK s : s = queue[dest[f]]
        OBVIOUS
      <4>1. s \in Seq(Nat) /\ Growing(s) /\ j \in DOMAIN s /\ s[j] = f
        BY <3>2, <3>3
      <4>2. f \in Nat /\ DOMAIN s \subseteq Nat \ {0}
        BY <4>1
      <4>3. ASSUME NEW i \in DOMAIN s, s[i] = f, i # j PROVE FALSE
        <5>1. i \in 1 .. j - 1 \/ j \in 1 .. i - 1
          BY <4>1, <4>2, <4>3
        <5> QED BY <4>1, <4>2, <4>3, <5>1 DEF Growing
      <4> QED BY <4>3
    <3> QED BY <3>2, <3>4 DEF Positions
  <2>4. Held(f) => \E x : h = {x}
    BY <2>1 DEF Held, Holders, One
  <2>5. WasCounted(f) => \E x : n = {x}
    <3>1. SUFFICES ASSUME WasCounted(f) PROVE \E x : n = {x}
      OBVIOUS
    <3>2. PICK j \in DOMAIN counted[dest[f]] : counted[dest[f]][j] = f
      BY <3>1 DEF WasCounted
    <3>3. \A i \in DOMAIN counted[dest[f]] : counted[dest[f]][i] = f => i = j
      BY <2>1, <3>2 DEF One
    <3> QED BY <3>2, <3>3 DEF Positions
  <2>6. Cardinality({}) = 0 /\ \A x : Cardinality({x}) = 1
    BY FS_EmptySet, FS_Singleton
  <2>7. CASE Waits(f)
    <3>1. Cardinality(q) = 1 /\ h = {} /\ n = {}
      BY <2>1, <2>2, <2>3, <2>6, <2>7 DEF One
    <3>2. Cardinality(h) = 0 /\ Cardinality(n) = 0
      BY <2>6, <3>1
    <3>3. Cardinality(q) + Cardinality(h) + Cardinality(n) = 1
      BY <3>1, <3>2
    <3> QED BY <2>1, <2>7, <3>3 DEF One
  <2>8. CASE Held(f)
    <3>1. Cardinality(h) = 1 /\ q = {} /\ n = {}
      BY <2>1, <2>2, <2>4, <2>6, <2>8 DEF One
    <3>2. Cardinality(q) = 0 /\ Cardinality(n) = 0
      BY <2>6, <3>1
    <3>3. Cardinality(q) + Cardinality(h) + Cardinality(n) = 1
      BY <3>1, <3>2
    <3> QED BY <2>1, <2>8, <3>3 DEF One
  <2>9. CASE WasCounted(f)
    <3>1. Cardinality(n) = 1 /\ q = {} /\ h = {}
      BY <2>1, <2>2, <2>5, <2>6, <2>9 DEF One
    <3>2. Cardinality(q) = 0 /\ Cardinality(h) = 0
      BY <2>6, <3>1
    <3>3. Cardinality(q) + Cardinality(h) + Cardinality(n) = 1
      BY <3>1, <3>2
    <3>4. f \in Range(counted[dest[f]])
      BY <2>9 DEF WasCounted, Range
    <3> QED BY <2>1, <3>3, <3>4 DEF One
  <2> QED BY <2>1, <2>7, <2>8, <2>9 DEF One
<1> QED BY <1>1, Invariant, OneInvariant, PTL

-----------------------------------------------------------------------------
(* What every step keeps. *)
LEMMA Grows ==
  ASSUME Inv, [Next]_vars
  PROVE  MoreClients /\ MoreFrames /\ LessQueued
<1>1. ASSUME NEW c \in Conns, NEW d \in Dests, fd[c] # 0, Len(clients) < MaxClients, AddClient(c, d)
      PROVE  MoreClients
  BY <1>1, AddClientIs
<1>2. CASE \E c \in Conns : do_connection_worker(c) \/ connection_co_worker(c)
  BY <1>2, NothingMore DEF do_connection_worker, connection_co_worker, registry
<1>3. CASE \E c \in Conns : register_reply_worker(c) \/ \E d \in Queues : register_unicast_worker(c, d)
  <2>1. PICK c \in Conns, d \in Queues \cup Repliers :
          CanRegister(c) /\ AddClient(c, d) /\ UNCHANGED <<dest, queue>>
    BY <1>3 DEF register_unicast_worker, register_reply_worker
  <2> QED BY <1>1, <2>1, NothingMore, Constants DEF CanRegister
<1>4. CASE \E c \in Conns, d \in Topics : register_multicast_worker(c, d)
  BY <1>4, NothingMore DEF register_multicast_worker
<1>5. CASE RegisterClient
  <2>1. manager # Idle /\ manager \in ManagerState
    BY <1>5 DEF RegisterClient, Idle, Inv, TypeOK
  <2>2. /\ manager.conn \in Conns /\ manager.dest \in Dests
        /\ fd[manager.conn] # 0 /\ Len(clients) < MaxClients
    BY <2>1, Constants DEF ManagerState, Inv, SocketInv
  <2> QED BY <1>1, <1>5, <2>2, NothingMore DEF RegisterClient
<1>6. CASE \E w \in Workers : QuietThread(w)
  BY <1>6, QuietThreadIs, NothingMore
<1>7. CASE UNCHANGED vars
  BY <1>7, NothingMore DEF vars, registry
<1>8. CASE \E d \in Dests : enqueue(d)
  BY <1>8, EnqueueInv, NothingMore DEF enqueue, registry
<1>9. CASE \E w \in Workers : SendingDone(w)
  BY <1>9, NothingMore DEF SendingDone, registry
<1>10. CASE \E w \in Workers : dequeue(w)
  <2>1. PICK w \in Workers : dequeue(w)
    BY <1>10
  <2>2. UNCHANGED <<dest, clients>>
    BY <2>1 DEF dequeue, registry
  <2>3. LessQueued
    <3> PICK d : d = DestOf(w)
      OBVIOUS
    <3> PICK q : q = queue[d]
      OBVIOUS
    <3>1. CASE UNCHANGED queue
      BY <3>1, NothingMore
    <3>2. CASE ~ UNCHANGED queue
      <4>1. /\ \A e \in Dests : e # d => queue'[e] = queue[e]
            /\ DOMAIN queue'[d] = 1 .. Len(q) - 1 /\ DOMAIN q = 1 .. Len(q) /\ Len(q) \in Nat
            /\ \A j \in 1 .. Len(q) - 1 : queue'[d][j] = q[j + 1]
        BY <2>1, <3>2, DequeueIs
      <4>2. \A j \in DOMAIN queue'[d] : j + 1 \in DOMAIN q /\ queue'[d][j] = q[j + 1]
        BY <4>1
      <4>3. \A e \in Dests : \A j \in DOMAIN queue'[e] :
              \E i \in DOMAIN queue[e] : queue'[e][j] = queue[e][i]
        <5> SUFFICES ASSUME NEW e \in Dests, NEW j \in DOMAIN queue'[e]
                     PROVE  \E i \in DOMAIN queue[e] : queue'[e][j] = queue[e][i]
          OBVIOUS
        <5>1. CASE e = d
          BY <4>2, <5>1
        <5>2. CASE e # d
          BY <4>1, <5>2
        <5> QED BY <5>1, <5>2
      <4> QED BY <4>3 DEF LessQueued
    <3> QED BY <3>1, <3>2
  <2> QED BY <2>2, <2>3, NothingMore
<1> QED BY <1>2, <1>3, <1>4, <1>5, <1>6, <1>7, <1>8, <1>9, <1>10, NextCases DEF Quiet

(* How a thread goes on: with nothing, with the same frame, not yet done   *)
(* with it and not to an earlier client or piece, or with a frame that     *)
(* waited.                                                                 *)
Moves(w) ==
  \/ worker'[w].frame = 0
  \/ /\ worker'[w].frame = worker[w].frame
     /\ worker'[w].pc \in Sending =>
          /\ worker[w].pc \in Sending
          /\ \/ worker[w].client < worker'[w].client
             \/ worker'[w].client = worker[w].client /\ worker[w].part <= worker'[w].part
  \/ \E j \in DOMAIN queue[DestOf(w)] : queue[DestOf(w)][j] = worker'[w].frame

LEMMA MovesStutter ==
  ASSUME Inv, NEW w \in Workers, worker'[w] = worker[w]
  PROVE  Moves(w)
<1>1. worker[w].part \in Nat
  BY ThreadType, Constants DEF Inv
<1> QED BY <1>1 DEF Moves

LEMMA AdvanceMoves ==
  ASSUME Inv, NEW w \in Topics, worker[w].pc \in Sending, Advance(w)
  PROVE  Moves(w)
<1>1. w \in Workers /\ (worker[w].next # 0 => worker[w].client < worker[w].next)
  BY DEF Inv, ThreadInv, Workers
<1> QED BY <1>1, AdvanceIs DEF Moves, Sending

LEMMA QuietThreadMoves == ASSUME Inv, NEW w \in Workers, QuietThread(w) PROVE Moves(w)
<1>0. worker[w].part \in Nat /\ ThreadInv(w)
  BY ThreadType, Constants DEF Inv
<1>1. CASE CheckLoop(w)
  <2>1. worker'[w].frame = worker[w].frame /\ worker[w].pc = "loop"
    BY <1>1, QuietThreadIs DEF QuietThread, CheckLoop
  <2> QED BY <1>0, <2>1 DEF ThreadInv, Moves, Sending
<1>2. CASE ClientValid(w)
  <2>1. /\ worker[w].pc = "each" /\ worker'[w].frame = worker[w].frame
        /\ worker'[w].client = worker[w].client /\ worker'[w].part = worker[w].part
    BY <1>2, GotoIs DEF Inv, PCs, ClientValid
  <2> QED BY <1>0, <2>1 DEF Moves, Sending
<1>3. CASE ClientGone(w)
  BY <1>3, AdvanceMoves DEF ClientGone, Sending
<1>4. CASE stomp_send_message(w)
  <2>1. worker[w].pc = "send" /\ worker[w].pc \in Sending /\ SentPart(w, Parts)
    BY <1>4 DEF stomp_send_message, Sending
  <2>2. w \in Topics /\ Advance(w) => Moves(w)
    BY <2>1, AdvanceMoves
  <2>3. Goto(w, "count") => Moves(w)
    BY GotoIs DEF Inv, PCs, Moves, Sending
  <2>4. /\ worker'[w].frame = worker[w].frame /\ worker'[w].client = worker[w].client
        /\ worker'[w].part = worker[w].part + 1
        => Moves(w)
    BY <1>0, <2>1 DEF Moves
  <2> QED BY <2>1, <2>2, <2>3, <2>4, SentPartIs
<1> QED BY <1>1, <1>2, <1>3, <1>4 DEF QuietThread

LEMMA AllMove == ASSUME Inv, [Next]_vars, NEW w \in Workers PROVE Moves(w)
<1>1. CASE Quiet
  <2>1. CASE \E v \in Workers : QuietThread(v)
    BY <2>1, QuietThreadMoves, QuietThreadIs, MovesStutter
  <2>2. CASE \E c \in Conns : register_reply_worker(c) \/ \E d \in Queues : register_unicast_worker(c, d)
    <3>1. PICK c \in Conns, d \in Queues \cup Repliers :
            CanRegister(c) /\ AddClient(c, d) /\ Start(Len(clients'), Len(clients'))
      BY <2>2 DEF register_unicast_worker, register_reply_worker
    <3> PICK n : n = Len(clients) + 1
      OBVIOUS
    <3>2. d \in Dests /\ fd[c] # 0 /\ Len(clients) < MaxClients
      BY <3>1, Constants DEF CanRegister
    <3>3. n \in Clients /\ Len(clients') = n /\ n \in Workers
      BY <3>1, <3>2, AddClientIs DEF Workers
    <3>4. worker'[w].frame = 0 \/ worker'[w] = worker[w]
      BY <3>1, <3>3, StartIs DEF Inv
    <3> QED BY <3>4, MovesStutter DEF Moves
  <2>3. CASE \E c \in Conns, d \in Topics : register_multicast_worker(c, d)
    <3>1. PICK d \in Topics : UNCHANGED worker \/ Start(d, 0)
      BY <2>3 DEF register_multicast_worker
    <3>2. worker'[w].frame = 0 \/ worker'[w] = worker[w]
      BY <3>1, StartIs DEF Inv, Workers
    <3> QED BY <3>2, MovesStutter DEF Moves
  <2>4. CASE UNCHANGED worker
    BY <2>4, MovesStutter
  <2>5. \/ UNCHANGED worker \/ \E v \in Workers : QuietThread(v)
        \/ \E c \in Conns, d \in Topics : register_multicast_worker(c, d)
        \/ \E c \in Conns : register_reply_worker(c) \/ \E d \in Queues : register_unicast_worker(c, d)
    BY <1>1 DEF Quiet, do_connection_worker, connection_co_worker, RegisterClient, vars
  <2> QED BY <2>1, <2>2, <2>3, <2>4, <2>5
<1>2. CASE \E d \in Dests : enqueue(d)
  BY <1>2, MovesStutter DEF enqueue
<1>3. CASE \E v \in Workers : SendingDone(v)
  BY <1>3, DoneIs, MovesStutter DEF Moves
<1>4. CASE \E v \in Workers : dequeue(v)
  <2>1. PICK v \in Workers : dequeue(v)
    BY <1>4
  <2>2. worker[v].pc = "take" /\ worker[v].frame = 0
    BY <2>1 DEF dequeue, Inv, ThreadInv, Sending
  <2>3. CASE Goto(v, "loop")
    BY <2>2, <2>3, GotoIs, MovesStutter DEF Inv, PCs, Moves
  <2>4. CASE ~ Goto(v, "loop")
    <3>1. PICK f \in DOMAIN dest :
            /\ Taken(v, f) /\ f \in Ids
            /\ 1 \in DOMAIN queue[DestOf(v)] /\ queue[DestOf(v)][1] = f
      BY <2>1, <2>4, DequeueIs
    <3>2. worker'[v].frame = f /\ (w # v => worker'[w] = worker[w])
      BY <2>2, <3>1, TakenIs
    <3> QED BY <3>1, <3>2, MovesStutter DEF Moves
  <2> QED BY <2>3, <2>4
<1> QED BY <1>1, <1>2, <1>3, <1>4, NextCases

-----------------------------------------------------------------------------
(* What has been written: the frames of the client's destination, all of   *)
(* them before those that wait and not after the one its thread is at, and *)
(* to another connection only when the client's own was closed.            *)
WriterOf(k) == IF clients[k].dest \in Topics THEN clients[k].dest ELSE k
Known(x) ==
  /\ x.client \in DOMAIN clients /\ x.frame \in DOMAIN dest
  /\ dest[x.frame] = clients[x.client].dest
  /\ \A j \in DOMAIN queue[clients[x.client].dest] : x.frame < queue[clients[x.client].dest][j]
Passed(x) ==
  LET t == worker[WriterOf(x.client)]
  IN  /\ t.frame # 0 => x.frame <= t.frame
      /\ t.pc \in Sending /\ x.frame = t.frame =>
           x.client < t.client \/ (x.client = t.client /\ x.part < t.part)
Mine(c, x) == clients[x.client].conn = c \/ clients[x.client].conn \notin open
WireInv == \A c \in Conns : \A i \in DOMAIN wire[c] :
             Known(wire[c][i]) /\ Passed(wire[c][i]) /\ Mine(c, wire[c][i])

LEMMA WriterOfIs ==
  ASSUME Inv, NEW k \in DOMAIN clients
  PROVE  WriterOf(k) \in Workers /\ DestOf(WriterOf(k)) = clients[k].dest
<1>1. k \in Clients /\ k \notin Topics
  BY ClientType, Constants DEF Inv
<1> QED BY <1>1 DEF WriterOf, DestOf, Workers

LEMMA NaturalFields ==
  /\ \A x \in WirePiece : x.client \in Nat /\ x.frame \in Nat /\ x.part \in Nat \ {0}
                           /\ x.client \in Clients /\ x.frame \in Ids
  /\ \A t \in ThreadState : t.client \in Nat /\ t.frame \in Nat /\ t.part \in Nat
<1>1. \A x \in WirePiece : x.client \in Clients /\ x.frame \in Ids /\ x.part \in 1 .. Parts
  BY DEF WirePiece
<1>2. \A t \in ThreadState : t.client \in Clients \cup {0} /\ t.frame \in Ids \cup {0} /\ t.part \in 0 .. Parts
  BY DEF ThreadState
<1>3. 1 .. Parts \subseteq Nat \ {0} /\ 0 .. Parts \subseteq Nat
  BY Constants
<1>4. Clients \subseteq Nat /\ Ids \subseteq Nat /\ 0 \in Nat
  BY Constants
<1> QED BY <1>1, <1>2, <1>3, <1>4

LEMMA PieceType ==
  ASSUME TypeOK, NEW c \in Conns, NEW i \in DOMAIN wire[c]
  PROVE  /\ wire[c][i] \in WirePiece /\ wire[c][i].client \in Nat /\ wire[c][i].frame \in Nat
         /\ wire[c][i].part \in Nat \ {0} /\ wire[c][i].client \in Clients
         /\ wire[c][i].frame \in Ids
<1>1. wire[c][i] \in WirePiece
  BY DEF TypeOK
<1> QED BY <1>1, NaturalFields

(* A connection that has clients was accepted before. *)
LEMMA OpenBefore ==
  ASSUME Inv, [Next]_vars, NEW k \in DOMAIN clients, clients[k].conn \in open'
  PROVE  clients[k].conn \in open
<1>1. CASE \E c \in Conns : do_connection_worker(c)
  <2>1. PICK c \in Conns : fd[c] = 0 /\ open' = open \cup {c}
    BY <1>1 DEF do_connection_worker
  <2>2. fd[clients[k].conn] # 0
    BY ClientType, Constants DEF Inv, SocketInv
  <2> QED BY <2>1, <2>2
<1>2. CASE \E c \in Conns : connection_co_worker(c)
  BY <1>2 DEF connection_co_worker
<1>3. CASE UNCHANGED open
  BY <1>3
<1>4. \/ UNCHANGED open \/ \E c \in Conns : do_connection_worker(c) \/ connection_co_worker(c)
  <2>1. CASE UNCHANGED vars
    BY <2>1 DEF vars, sockets
  <2>2. CASE Manager
    BY <2>2 DEF Manager, enqueue, register_unicast_worker, register_multicast_worker,
       register_reply_worker, RegisterClient, sockets
  <2>3. CASE \E w \in Workers : Thread(w)
    BY <2>3 DEF Thread, CheckLoop, dequeue, ClientValid, ClientGone, stomp_send_message,
       SendingDone, sockets
  <2> QED BY <2>1, <2>2, <2>3 DEF Next
<1> QED BY <1>1, <1>2, <1>3, <1>4

LEMMA PieceKeeps ==
  ASSUME Inv, [Next]_vars, NEW c \in Conns, NEW x \in WirePiece, Known(x), Passed(x), Mine(c, x)
  PROVE  Known(x)' /\ Passed(x)' /\ Mine(c, x)'
<1> PICK k : k = x.client
  OBVIOUS
<1> PICK w : w = WriterOf(k)
  OBVIOUS
<1>1. MoreClients /\ MoreFrames /\ LessQueued
  BY Grows
<1>2. k \in DOMAIN clients /\ x.frame \in DOMAIN dest /\ dest[x.frame] = clients[k].dest
  BY DEF Known
<1>3. clients'[k] = clients[k] /\ k \in DOMAIN clients' /\ WriterOf(k)' = w
  BY <1>1, <1>2 DEF MoreClients, WriterOf
<1>4. w \in Workers /\ DestOf(w) = clients[k].dest /\ clients[k].dest \in Dests
  BY <1>2, WriterOfIs, ClientType DEF Inv
<1>5. x.client \in Nat /\ x.frame \in Nat /\ x.part \in Nat
  BY NaturalFields
<1>6. Known(x)'
  <2>1. x.frame \in DOMAIN dest' /\ dest'[x.frame] = dest[x.frame]
    BY <1>1, <1>2 DEF MoreFrames
  <2>2. x.frame < Len(dest) + 1
    BY <1>2 DEF Inv, TypeOK
  <2>3. \A j \in DOMAIN queue'[clients[k].dest] : x.frame < queue'[clients[k].dest][j]
    BY <1>1, <1>4, <2>2 DEF Known, LessQueued
  <2> QED BY <1>2, <1>3, <2>1, <2>3 DEF Known
<1>7. Passed(x)'
  <2>1. Moves(w) /\ Inv'
    BY <1>4, AllMove, InvNext
  <2>2. worker'[w] \in ThreadState /\ worker[w] \in ThreadState
    BY <1>4, <2>1 DEF Inv, TypeOK
  <2>3. /\ worker'[w].client \in Nat /\ worker[w].client \in Nat
        /\ worker'[w].part \in Nat /\ worker[w].part \in Nat
        /\ worker'[w].frame \in Nat /\ worker[w].frame \in Nat
    BY <2>2, NaturalFields
  <2>4. /\ worker[w].frame # 0 => x.frame <= worker[w].frame
        /\ worker[w].pc \in Sending /\ x.frame = worker[w].frame =>
             \/ x.client < worker[w].client
             \/ x.client = worker[w].client /\ x.part < worker[w].part
    BY DEF Passed
  <2>5. worker'[w].pc \in Sending => worker'[w].frame # 0
    BY <1>4, <2>1 DEF Inv, ThreadInv
  <2>6. /\ worker'[w].frame # 0 => x.frame <= worker'[w].frame
        /\ worker'[w].pc \in Sending /\ x.frame = worker'[w].frame =>
             \/ x.client < worker'[w].client
             \/ x.client = worker'[w].client /\ x.part < worker'[w].part
    <3>1. CASE worker'[w].frame = 0
      BY <2>5, <3>1
    <3>2. CASE \E j \in DOMAIN queue[DestOf(w)] : queue[DestOf(w)][j] = worker'[w].frame
      <4>1. x.frame < worker'[w].frame
        BY <1>4, <3>2 DEF Known
      <4> QED BY <1>5, <2>3, <4>1
    <3>3. CASE /\ worker'[w].frame = worker[w].frame
               /\ worker'[w].pc \in Sending =>
                    /\ worker[w].pc \in Sending
                    /\ \/ worker[w].client < worker'[w].client
                       \/ worker'[w].client = worker[w].client /\ worker[w].part <= worker'[w].part
      BY <1>5, <2>3, <2>4, <3>3
    <3> QED BY <2>1, <3>1, <3>2, <3>3 DEF Moves
  <2> QED BY <1>3, <2>6 DEF Passed
<1>8. Mine(c, x)'
  BY <1>2, <1>3, OpenBefore DEF Mine
<1> QED BY <1>6, <1>7, <1>8

(* The piece that is being written. *)
LEMMA NewPiece ==
  ASSUME Inv, NEW w \in Workers, stomp_send_message(w), NEW c \in Conns,
         c \in Owners(clients[worker[w].client].sock), NEW x, x = Piece(w)
  PROVE  Known(x)' /\ Passed(x)' /\ Mine(c, x)' /\ Known(x) /\ WriterOf(x.client) = w
<1> PICK k : k = worker[w].client
  OBVIOUS
<1>0. /\ x.client = k /\ x.frame = worker[w].frame /\ x.part = worker[w].part /\ x \in WirePiece
  BY SendIs
<1>1. /\ UNCHANGED <<fd, open, dest, queue, groups, clients, h_client, manager>>
      /\ worker[w].pc = "send" /\ worker[w].pc \in Sending /\ SentPart(w, Parts)
  BY DEF stomp_send_message, sockets, registry, Sending
<1>2. /\ ThreadInv(w) /\ worker[w].frame # 0 /\ k \in DOMAIN clients /\ clients[k].dest = DestOf(w)
      /\ worker[w].frame \in DOMAIN dest /\ dest[worker[w].frame] = DestOf(w)
      /\ \A j \in DOMAIN queue[DestOf(w)] : worker[w].frame < queue[DestOf(w)][j]
  BY <1>1 DEF Inv, ThreadInv
<1>3. Known(x)
  BY <1>0, <1>2 DEF Known
<1>4. Known(x)'
  BY <1>0, <1>1, <1>2 DEF Known
<1>5. WriterOf(k) = w
  <2>1. CASE w \in Topics
    BY <1>2, <2>1 DEF DestOf, WriterOf
  <2>2. CASE w \notin Topics
    BY <1>1, <1>2, <2>2 DEF ThreadInv, WriterOf, Workers
  <2> QED BY <2>1, <2>2
<1>6. WriterOf(k)' = w
  BY <1>1, <1>5 DEF WriterOf
<1>7. Passed(x)'
  <2>1. /\ worker[w].client \in Nat /\ worker[w].part \in Nat /\ worker[w].frame \in Nat
        /\ x.frame \in Nat
    BY <1>0, NaturalFields, ThreadType DEF Inv
  <2>2. worker'[w].frame = worker[w].frame
    BY QuietThreadIs DEF QuietThread
  <2>3. worker'[w].pc \in Sending =>
          \/ k < worker'[w].client
          \/ k = worker'[w].client /\ x.part < worker'[w].part
    <3>1. CASE worker'[w].client = worker[w].client /\ worker'[w].part = worker[w].part + 1
      BY <1>0, <2>1, <3>1
    <3>2. CASE w \in Topics /\ Advance(w)
      <4>1. worker[w].next # 0 => k < worker[w].next
        BY <1>1, <1>2 DEF ThreadInv
      <4> QED BY <1>1, <3>2, <4>1, AdvanceIs DEF Sending
    <3>3. CASE Goto(w, "count")
      BY <3>3, GotoIs DEF Inv, PCs, Sending
    <3> QED BY <1>1, <3>1, <3>2, <3>3, SentPartIs
  <2>4. x.frame <= worker'[w].frame
    BY <1>0, <2>1, <2>2
  <2> QED BY <1>0, <1>6, <2>3, <2>4 DEF Passed
<1>8. Mine(c, x)'
  <2>1. clients[k].conn \in Conns /\ clients[k].sock = fd[clients[k].conn]
    BY <1>2, ClientType DEF Inv, SocketInv
  <2>2. c \in open /\ fd[c] = clients[k].sock
    BY DEF Owners
  <2>3. clients[k].conn \in open => clients[k].conn = c
    BY <2>1, <2>2 DEF Inv, SocketInv
  <2> QED BY <1>0, <1>1, <2>3 DEF Mine
<1> QED BY <1>0, <1>3, <1>4, <1>5, <1>7, <1>8

(* What reaches a connection in one step. *)
LEMMA WireSteps ==
  ASSUME Inv, [Next]_vars, NEW c \in Conns, wire'[c] # wire[c]
  PROVE  \E w \in Workers :
           /\ stomp_send_message(w) /\ c \in Owners(clients[worker[w].client].sock)
           /\ wire'[c] = Append(wire[c], Piece(w)) /\ Piece(w) \in WirePiece
<1>1. \E w \in Workers : stomp_send_message(w)
  <2>1. CASE UNCHANGED vars
    BY <2>1 DEF vars
  <2>2. CASE Manager
    BY <2>2 DEF Manager, enqueue, register_unicast_worker, register_multicast_worker,
       register_reply_worker, RegisterClient
  <2>3. CASE \E w \in Workers : Thread(w)
    BY <2>3 DEF Thread, CheckLoop, dequeue, ClientValid, ClientGone, SendingDone
  <2>4. CASE \E b \in Conns : do_connection_worker(b) \/ connection_co_worker(b)
    BY <2>4 DEF do_connection_worker, connection_co_worker
  <2> QED BY <2>1, <2>2, <2>3, <2>4 DEF Next
<1> QED BY <1>1, SendIs

(* The order in which a client gets the frames. *)
InOrderAt(c) ==
  \A j \in DOMAIN wire[c] : \A i \in 1 .. j - 1 :
    wire[c][i].client = wire[c][j].client /\ wire[c][i].part = 1 /\ wire[c][j].part = 1
      => wire[c][i].frame < wire[c][j].frame

WireAt(c) == \A i \in DOMAIN wire[c] :
               Known(wire[c][i]) /\ Passed(wire[c][i]) /\ Mine(c, wire[c][i])

LEMMA WireNext ==
  ASSUME Inv, WireInv, [Next]_vars, NEW c \in Conns, InOrderAt(c)
  PROVE  WireAt(c)' /\ InOrderAt(c)'
<1>1. ASSUME NEW i \in DOMAIN wire[c], NEW x, x = wire[c][i]
      PROVE  Known(x)' /\ Passed(x)' /\ Mine(c, x)'
  <2>1. x \in WirePiece
    BY <1>1, PieceType DEF Inv
  <2>2. Known(x) /\ Passed(x) /\ Mine(c, x)
    BY <1>1 DEF WireInv
  <2> QED BY <2>1, <2>2, PieceKeeps
<1>2. ASSUME NEW j \in DOMAIN wire'[c], NEW x, x = wire'[c][j],
             Known(x)' /\ Passed(x)' /\ Mine(c, x)'
      PROVE  (Known(wire[c][j]) /\ Passed(wire[c][j]) /\ Mine(c, wire[c][j]))'
  BY <1>2 DEF Known, Passed, Mine, WriterOf
<1>3. CASE wire'[c] = wire[c]
  <2>1. ASSUME NEW j \in DOMAIN wire'[c]
        PROVE  (Known(wire[c][j]) /\ Passed(wire[c][j]) /\ Mine(c, wire[c][j]))'
    <3> PICK x : x = wire[c][j]
      OBVIOUS
    <3>1. Known(x)' /\ Passed(x)' /\ Mine(c, x)'
      BY <1>1, <1>3
    <3> QED BY <1>2, <1>3, <3>1
  <2>2. InOrderAt(c)'
    BY <1>3 DEF InOrderAt
  <2> QED BY <2>1, <2>2 DEF WireAt
<1>4. CASE wire'[c] # wire[c]
  <2>1. PICK w \in Workers :
           /\ stomp_send_message(w) /\ c \in Owners(clients[worker[w].client].sock)
           /\ wire'[c] = Append(wire[c], Piece(w)) /\ Piece(w) \in WirePiece
    BY <1>4, WireSteps
  <2> PICK y : y = Piece(w)
    OBVIOUS
  <2> PICK s : s = wire[c]
    OBVIOUS
  <2>2. s \in Seq(WirePiece) /\ y \in WirePiece /\ wire'[c] = Append(s, y)
    BY <2>1 DEF Inv, TypeOK
  <2>3. /\ Len(s) \in Nat /\ DOMAIN s = 1 .. Len(s) /\ DOMAIN wire'[c] = 1 .. Len(s) + 1
        /\ \A k \in 1 .. Len(s) : wire'[c][k] = s[k]
        /\ wire'[c][Len(s) + 1] = y
    BY <2>2, AppendIs
  <2> PICK n : n = Len(s) + 1
    OBVIOUS
  <2>4. \A j \in DOMAIN wire'[c] :
          (j \in DOMAIN s /\ wire'[c][j] = s[j]) \/ (j = n /\ wire'[c][j] = y)
    BY <2>3
  <2>5. Known(y)' /\ Passed(y)' /\ Mine(c, y)' /\ Known(y) /\ WriterOf(y.client) = w
    BY <2>1, NewPiece
  <2>6. ASSUME NEW j \in DOMAIN wire'[c]
        PROVE  (Known(wire[c][j]) /\ Passed(wire[c][j]) /\ Mine(c, wire[c][j]))'
    <3> PICK x : x = wire'[c][j]
      OBVIOUS
    <3>1. CASE j \in DOMAIN s /\ x = s[j]
      <4>1. Known(x)' /\ Passed(x)' /\ Mine(c, x)'
        BY <1>1, <3>1
      <4> QED BY <1>2, <4>1
    <3>2. CASE x = y
      BY <1>2, <2>5, <3>2
    <3> QED BY <2>4, <3>1, <3>2
  <2>7. WireAt(c)'
    BY <2>6 DEF WireAt
  <2>8. ASSUME NEW i \in DOMAIN s, s[i].client = y.client, s[i].part = 1, y.part = 1
        PROVE  s[i].frame < y.frame
    <3> PICK x : x = s[i]
      OBVIOUS
    <3>1. x.client = y.client /\ x.part = 1
      BY <2>8
    <3>2. x \in WirePiece /\ Passed(x)
      BY PieceType DEF WireInv, Inv
    <3>3. worker[w].pc \in Sending /\ worker[w].frame # 0
      BY <2>1 DEF stomp_send_message, Sending, Inv, ThreadInv
    <3>4. y.frame = worker[w].frame /\ y.client = worker[w].client /\ y.part = worker[w].part
      BY <2>1, SendIs
    <3>5. WriterOf(x.client) = w
      BY <2>5, <3>1
    <3>6. /\ x.frame <= worker[w].frame
          /\ x.frame = worker[w].frame =>
               x.client < worker[w].client \/ (x.client = worker[w].client /\ x.part < worker[w].part)
      BY <3>2, <3>3, <3>5 DEF Passed
    <3>7. x.frame \in Nat /\ x.client \in Nat /\ y.frame \in Nat
      BY <2>2, <3>2, NaturalFields
    <3>8. x.frame # y.frame
      BY <2>8, <3>1, <3>4, <3>6, <3>7
    <3> QED BY <3>4, <3>6, <3>7, <3>8
  <2>9. ASSUME NEW j \in DOMAIN wire'[c], NEW i \in 1 .. j - 1,
               wire'[c][i].client = wire'[c][j].client,
               wire'[c][i].part = 1, wire'[c][j].part = 1
        PROVE  wire'[c][i].frame < wire'[c][j].frame
    <3>1. i \in DOMAIN s /\ wire'[c][i] = s[i]
      BY <2>3
    <3>2. CASE j \in DOMAIN s /\ wire'[c][j] = s[j]
      BY <2>9, <3>1, <3>2 DEF InOrderAt
    <3>3. CASE wire'[c][j] = y
      BY <2>8, <2>9, <3>1, <3>3
    <3> QED BY <2>4, <3>2, <3>3
  <2>10. InOrderAt(c)'
    BY <2>9 DEF InOrderAt
  <2> QED BY <2>7, <2>10
<1> QED BY <1>3, <1>4

LEMMA WireInvariant == Spec => [](WireInv /\ \A c \in Conns : InOrderAt(c))
<1>1. Init => WireInv /\ \A c \in Conns : InOrderAt(c)
  <2> SUFFICES ASSUME Init PROVE \A c \in Conns : DOMAIN wire[c] = {}
    BY DEF WireInv, InOrderAt
  <2> QED BY DEF Init
<1>2. Inv /\ WireInv /\ (\A c \in Conns : InOrderAt(c)) /\ [Next]_vars
        => (WireInv /\ \A c \in Conns : InOrderAt(c))'
  <2> SUFFICES ASSUME Inv, WireInv, \A c \in Conns : InOrderAt(c), [Next]_vars
               PROVE  (WireInv /\ \A c \in Conns : InOrderAt(c))'
    OBVIOUS
  <2>1. ASSUME NEW c \in Conns PROVE WireAt(c)' /\ InOrderAt(c)'
    BY WireNext
  <2>2. WireInv'
    BY <2>1 DEF WireInv, WireAt
  <2> QED BY <2>1, <2>2
<1> QED BY <1>1, <1>2, Invariant, PTL DEF Spec

(* InOrder: a client gets the messages of its destination in the order in  *)
(* which they were enqueued, none of them again, however many threads take *)
(* from the queue, however the list of a topic changes and whatever number *)
(* of pieces a message is cut into.                                        *)
THEOREM InOrderAlways == Spec => []InOrder
<1>1. (\A c \in Conns : InOrderAt(c)) => InOrder
  BY DEF InOrderAt, InOrder
<1> QED BY <1>1, WireInvariant, PTL

(* AnotherOnlyAfterClose: send() reaches another connection only once the  *)
(* client's own was closed, although the threads keep the bare number of   *)
(* the socket and the kernel gives numbers out again.                      *)
THEOREM AnotherConnection == Spec => []AnotherOnlyAfterClose
<1>1. WireInv => AnotherOnlyAfterClose
  BY DEF WireInv, Mine, AnotherOnlyAfterClose
<1> QED BY <1>1, WireInvariant, PTL

-----------------------------------------------------------------------------
(* What is delivered, and what a thread still has to deliver of the frame  *)
(* in its hands: the clients before the one it is at have got all pieces,  *)
(* this one those before the current, and the ones behind are ahead of the *)
(* loop, at the entry it read beforehand or after it.                      *)
Delivered(f, k, p) == \E i : Copies(f, k, p) = {i}
ToServe(w, f, k) ==
  LET t == worker[w]
  IN  /\ WriterOf(k) = w
      /\ \A p \in 1 .. Parts :
           t.pc = "count" \/ k < t.client \/ (k = t.client /\ p < t.part) => Delivered(f, k, p)
      /\ t.pc \in Sending /\ t.client < k => t.next # 0 /\ t.next <= k /\ Listed(w, k)
ServeInv(w) ==
  \A f \in Ids : worker[w].frame = f =>
    \A k \in audience[f] : clients[k].conn \in open => ToServe(w, f, k)
CountedInv(f) ==
  WasCounted(f) =>
    \A k \in audience[f] : clients[k].conn \in open => \A p \in 1 .. Parts : Delivered(f, k, p)
AudienceInv ==
  /\ \A f \in Ids : \A k \in audience[f] : k \in DOMAIN clients
  /\ \A w \in Workers : ServeInv(w)
  /\ \A f \in DOMAIN dest : CountedInv(f)

(* The entry behind one of the list is the next of those after it. *)
LEMMA NextClientMin ==
  ASSUME Inv, NEW d \in Dests, NEW m, NEW k, Listed(d, m), Listed(d, k), m < k
  PROVE  NextClient(d, m) # 0 /\ NextClient(d, m) <= k
<1> DEFINE s == h_client[d]
           later == {s[j] : j \in {i \in 2 .. Len(s) : s[i - 1] = m}}
<1>1. s \in Seq(Clients) /\ s \in Seq(Nat) /\ Growing(s)
  BY SequenceTypes DEF Inv, TypeOK, ListInv
<1>2. DOMAIN s = 1 .. Len(s) /\ Len(s) \in Nat /\ \A i \in DOMAIN s : s[i] \in Nat /\ s[i] \in Clients
  <2> HIDE DEF s
  <2> QED BY <1>1
<1>3. PICK a \in DOMAIN s, b \in DOMAIN s : s[a] = m /\ s[b] = k
  BY DEF Listed
<1>4. NextClient(d, m) = IF later = {} THEN 0 ELSE CHOOSE n \in later : TRUE
  BY DEF NextClient
<1> HIDE DEF s
<1>5. \A i, j \in DOMAIN s : i < j => s[i] < s[j]
  BY <1>1, <1>2 DEF Growing
<1>6. a < b
  <2>1. CASE a = b
    BY <1>2, <1>3, <2>1
  <2>2. CASE b < a
    BY <1>2, <1>3, <1>5, <2>2
  <2> QED BY <1>2, <2>1, <2>2
<1>7. a + 1 \in 2 .. Len(s) /\ (a + 1) - 1 = a
  BY <1>2, <1>6
<1>8. \A i \in 2 .. Len(s) : s[i - 1] = m => i = a + 1
  <2> SUFFICES ASSUME NEW i \in 2 .. Len(s), s[i - 1] = m PROVE i = a + 1
    OBVIOUS
  <2>1. i - 1 \in DOMAIN s
    BY <1>2
  <2>2. ~(i - 1 < a) /\ ~(a < i - 1)
    BY <1>2, <1>3, <1>5, <2>1
  <2> QED BY <1>2, <2>1, <2>2
<1>9. later = {s[a + 1]}
  BY <1>3, <1>7, <1>8
<1>10. NextClient(d, m) = s[a + 1]
  BY <1>4, <1>9
<1>11. a + 1 \in DOMAIN s /\ s[a + 1] \in Clients /\ s[a + 1] <= s[b]
  <2>1. a + 1 \in DOMAIN s
    BY <1>2, <1>7
  <2>2. CASE a + 1 = b
    BY <1>2, <2>1, <2>2
  <2>3. CASE a + 1 < b
    BY <1>2, <1>5, <2>1, <2>3
  <2> QED BY <1>2, <1>6, <2>1, <2>2, <2>3
<1> QED BY <1>3, <1>10, <1>11, Constants

(* A piece that was delivered once is not sent again. *)
LEMMA DeliveredKeeps ==
  ASSUME Inv, WireInv, [Next]_vars, NEW k \in DOMAIN clients, NEW f, NEW p, Delivered(f, k, p)
  PROVE  Delivered(f, k, p)'
<1> PICK c : c = clients[k].conn
  OBVIOUS
<1>1. c \in Conns /\ clients'[k].conn = c
  BY ClientType, Grows DEF Inv, MoreClients
<1>2. PICK i : Copies(f, k, p) = {i}
  BY DEF Delivered
<1>3. CASE wire'[c] = wire[c]
  <2>1. Copies(f, k, p)' = {i}
    BY <1>1, <1>2, <1>3 DEF Copies
  <2> QED BY <2>1 DEF Delivered
<1>4. CASE wire'[c] # wire[c]
  <2>1. PICK w \in Workers :
           /\ stomp_send_message(w) /\ c \in Owners(clients[worker[w].client].sock)
           /\ wire'[c] = Append(wire[c], Piece(w)) /\ Piece(w) \in WirePiece
    BY <1>1, <1>4, WireSteps
  <2> PICK y : y = Piece(w)
    OBVIOUS
  <2> PICK s : s = wire[c]
    OBVIOUS
  <2>2. s \in Seq(WirePiece) /\ y \in WirePiece /\ wire'[c] = Append(s, y)
    BY <1>1, <2>1 DEF Inv, TypeOK
  <2>3. /\ Len(s) \in Nat /\ DOMAIN s = 1 .. Len(s) /\ DOMAIN wire'[c] = 1 .. Len(s) + 1
        /\ \A j \in 1 .. Len(s) : wire'[c][j] = s[j]
        /\ wire'[c][Len(s) + 1] = y
    BY <2>2, AppendIs
  <2>4. i \in DOMAIN s /\ s[i].client = k /\ s[i].frame = f /\ s[i].part = p
        /\ \A j \in DOMAIN s : s[j].client = k /\ s[j].frame = f /\ s[j].part = p => j = i
    BY <1>2 DEF Copies
  <2>5. ~(y.client = k /\ y.frame = f /\ y.part = p)
    <3> SUFFICES ASSUME y.client = k, y.frame = f, y.part = p PROVE FALSE
      OBVIOUS
    <3> PICK x : x = s[i]
      OBVIOUS
    <3>1. x \in WirePiece /\ Passed(x) /\ x.client = k /\ x.frame = f /\ x.part = p
      BY <1>1, <2>4, PieceType DEF WireInv, Inv
    <3>2. WriterOf(k) = w
      BY <1>1, <2>1, NewPiece
    <3>3. y.frame = worker[w].frame /\ y.client = worker[w].client /\ y.part = worker[w].part
      BY <2>1, SendIs
    <3>4. worker[w].pc \in Sending
      BY <2>1 DEF stomp_send_message, Sending
    <3>5. k < k \/ p < p
      BY <3>1, <3>2, <3>3, <3>4 DEF Passed
    <3>6. k \in Nat /\ p \in Nat
      BY <2>2, NaturalFields
    <3> QED BY <3>5, <3>6
  <2>6. Copies(f, k, p)' = {i}
    <3>1. i \in DOMAIN wire'[c] /\ wire'[c][i] = s[i]
      BY <2>3, <2>4
    <3>2. ASSUME NEW j \in DOMAIN wire'[c], wire'[c][j].client = k, wire'[c][j].frame = f,
                 wire'[c][j].part = p
          PROVE  j = i
      <4>1. j # Len(s) + 1
        BY <2>3, <2>5, <3>2
      <4>2. j \in DOMAIN s /\ wire'[c][j] = s[j]
        BY <2>3, <4>1
      <4> QED BY <2>4, <3>2, <4>2
    <3>3. Copies(f, k, p)' = {j \in DOMAIN wire'[c] : /\ wire'[c][j].client = k
                                                      /\ wire'[c][j].frame = f /\ wire'[c][j].part = p}
      BY <1>1 DEF Copies
    <3> QED BY <2>4, <3>1, <3>2, <3>3
  <2> QED BY <2>6 DEF Delivered
<1> QED BY <1>3, <1>4

LEMMA PieceAppended ==
  ASSUME NEW s \in Seq(WirePiece), NEW y \in WirePiece
  PROVE  /\ Len(s) \in Nat /\ DOMAIN s = 1 .. Len(s) /\ DOMAIN Append(s, y) = 1 .. Len(s) + 1
         /\ \A j \in 1 .. Len(s) : Append(s, y)[j] = s[j]
         /\ Append(s, y)[Len(s) + 1] = y
BY AppendIs

(* The piece being sent arrives, if the connection of the client is open. *)
LEMMA SentDelivers ==
  ASSUME Inv, WireInv, NEW w \in Workers, stomp_send_message(w),
         NEW k, k = worker[w].client, clients[k].conn \in open,
         NEW f, f = worker[w].frame, NEW p, p = worker[w].part
  PROVE  Delivered(f, k, p)'
<1> PICK c : c = clients[k].conn
  OBVIOUS
<1> PICK y : y = Piece(w)
  OBVIOUS
<1> PICK s : s = wire[c]
  OBVIOUS
<1>1. k \in DOMAIN clients /\ UNCHANGED clients /\ worker[w].pc \in Sending
  BY DEF Inv, ThreadInv, stomp_send_message, Sending, registry
<1>2. c \in Conns /\ c \in Owners(clients[k].sock)
  BY <1>1, ClientType DEF Owners, Inv, SocketInv
<1>3. /\ s \in Seq(WirePiece) /\ y \in WirePiece /\ wire'[c] = Append(s, y)
      /\ y.client = k /\ y.frame = f /\ y.part = p
  BY <1>2, SendIs DEF Inv, TypeOK
<1>4. /\ Len(s) \in Nat /\ DOMAIN s = 1 .. Len(s) /\ DOMAIN wire'[c] = 1 .. Len(s) + 1
      /\ \A j \in 1 .. Len(s) : wire'[c][j] = s[j]
      /\ wire'[c][Len(s) + 1] = y
  <2>1. s \in Seq(WirePiece) /\ y \in WirePiece /\ wire'[c] = Append(s, y)
    BY <1>3
  <2>2. s \in Seq(WirePiece) /\ y \in WirePiece
    BY <2>1
  <2>3. /\ Len(s) \in Nat /\ DOMAIN s = 1 .. Len(s) /\ DOMAIN Append(s, y) = 1 .. Len(s) + 1
    BY <2>2, PieceAppended
  <2>4. \A j \in 1 .. Len(s) : Append(s, y)[j] = s[j]
    BY <2>2, PieceAppended
  <2>5. Append(s, y)[Len(s) + 1] = y
    BY <2>2, PieceAppended
  <2>6. PICK z : z = Append(s, y)
    OBVIOUS
  <2>7. DOMAIN z = 1 .. Len(s) + 1 /\ (\A j \in 1 .. Len(s) : z[j] = s[j]) /\ z[Len(s) + 1] = y
    BY <2>3, <2>4, <2>5, <2>6
  <2>8. wire'[c] = z
    BY <2>1, <2>6
  <2> QED BY <2>3, <2>7, <2>8
<1>5. ASSUME NEW j \in DOMAIN s, s[j].client = k, s[j].frame = f, s[j].part = p PROVE FALSE
  <2> PICK x : x = s[j]
    OBVIOUS
  <2>1. x \in WirePiece /\ Passed(x) /\ x.client = k /\ x.frame = f /\ x.part = p
    BY <1>2, <1>5, PieceType DEF WireInv, Inv
  <2>2. WriterOf(k) = w
    BY <1>2, <1>3, NewPiece
  <2>3. k < k \/ p < p
    BY <1>1, <2>1, <2>2 DEF Passed
  <2>4. k \in Nat /\ p \in Nat
    BY <1>3, NaturalFields
  <2> QED BY <2>3, <2>4
<1>6. Copies(f, k, p)' = {Len(s) + 1}
  <2>1. Copies(f, k, p)' = {j \in DOMAIN wire'[c] : /\ wire'[c][j].client = k
                                                    /\ wire'[c][j].frame = f /\ wire'[c][j].part = p}
    BY <1>1 DEF Copies
  <2>2. Len(s) + 1 \in DOMAIN wire'[c]
    <3>1. PICK l \in Nat : l = Len(s) /\ DOMAIN wire'[c] = 1 .. l + 1
      BY <1>4
    <3>2. l + 1 \in 1 .. l + 1
      OBVIOUS
    <3> QED BY <3>1, <3>2
  <2>3. ASSUME NEW j \in DOMAIN wire'[c], wire'[c][j].client = k, wire'[c][j].frame = f,
               wire'[c][j].part = p
        PROVE  j = Len(s) + 1
    <3>1. j \in DOMAIN s => wire'[c][j] = s[j]
      <4>1. DOMAIN s = 1 .. Len(s) /\ \A n \in 1 .. Len(s) : wire'[c][n] = s[n]
        BY <1>4
      <4> QED BY <4>1
    <3>2. j \notin DOMAIN s
      BY <1>5, <2>3, <3>1
    <3>3. j \in DOMAIN s \/ j = Len(s) + 1
      <4>1. PICK l \in Nat : l = Len(s) /\ DOMAIN s = 1 .. l /\ DOMAIN wire'[c] = 1 .. l + 1
        BY <1>4
      <4>2. \A n \in 1 .. l + 1 : n \in 1 .. l \/ n = l + 1
        OBVIOUS
      <4> QED BY <4>1, <4>2
    <3> QED BY <3>2, <3>3
  <2>4. y.client = k /\ y.frame = f /\ y.part = p
    BY <1>3
  <2>5. /\ wire'[c][Len(s) + 1].client = k /\ wire'[c][Len(s) + 1].frame = f
        /\ wire'[c][Len(s) + 1].part = p
    BY <1>4, <2>4
  <2>6. \A j : j \in Copies(f, k, p)' <=> j = Len(s) + 1
    BY <2>1, <2>2, <2>3, <2>5
  <2> QED BY <2>6
<1> QED BY <1>6 DEF Delivered

(* Only the thread of a topic takes a client out of its list. *)
LEMMA ListSteps ==
  ASSUME Inv, [Next]_vars, NEW v \in Topics
  PROVE  ListKept(v) \/ ClientGone(v)
<1>0. v \in Dests
  BY Constants
<1>1. ASSUME NEW c \in Conns, NEW d \in Dests, fd[c] # 0, Len(clients) < MaxClients, AddClient(c, d)
      PROVE  ListKept(v)
  <2> PICK n : n = Len(clients) + 1
    OBVIOUS
  <2>1. /\ n \in Clients /\ h_client'[d] = Append(h_client[d], n)
        /\ \A e \in Dests : e # d => h_client'[e] = h_client[e]
    <3>1. NewClient(c, d, Len(clients) + 1)
      BY <1>1, AddClientNew
    <3>2. NewClient(c, d, n)
      BY <3>1
    <3> QED BY <3>2 DEF NewClient
  <2>2. CASE v # d
    BY <1>0, <2>1, <2>2 DEF ListKept
  <2>3. CASE v = d
    <3>1. h_client[d] \in Seq(Clients)
      BY DEF Inv, TypeOK
    <3>2. \A j \in DOMAIN h_client[d] : /\ j \in DOMAIN Append(h_client[d], n)
                                        /\ Append(h_client[d], n)[j] = h_client[d][j]
      BY <2>1, <3>1
    <3> QED BY <2>1, <2>3, <3>2 DEF ListKept
  <2> QED BY <2>2, <2>3
<1>2. CASE \E c \in Conns : register_reply_worker(c) \/ \E d \in Queues : register_unicast_worker(c, d)
  <2>1. PICK c \in Conns, d \in Queues \cup Repliers : CanRegister(c) /\ AddClient(c, d)
    BY <1>2 DEF register_unicast_worker, register_reply_worker
  <2> QED BY <1>1, <2>1, Constants DEF CanRegister
<1>3. CASE RegisterClient
  <2>1. manager # Idle /\ manager \in ManagerState
    BY <1>3 DEF RegisterClient, Idle, Inv, TypeOK
  <2>2. /\ manager.conn \in Conns /\ manager.dest \in Dests
        /\ fd[manager.conn] # 0 /\ Len(clients) < MaxClients
    BY <2>1, Constants DEF ManagerState, Inv, SocketInv
  <2> QED BY <1>1, <1>3, <2>2 DEF RegisterClient
<1>4. CASE \E w \in Workers : ClientGone(w)
  <2>1. PICK w \in Workers : ClientGone(w)
    BY <1>4
  <2>2. h_client' = [h_client EXCEPT ![w] = list_del(@, worker[w].client)]
    BY <2>1 DEF ClientGone
  <2>3. v # w => h_client'[v] = h_client[v]
    BY <1>0, <2>2 DEF Inv, TypeOK
  <2> QED BY <2>1, <2>3 DEF ListKept
<1>5. CASE UNCHANGED h_client
  BY <1>0, <1>5, NothingMore
<1>6. \/ UNCHANGED h_client \/ RegisterClient \/ \E w \in Workers : ClientGone(w)
      \/ \E c \in Conns : register_reply_worker(c) \/ \E d \in Queues : register_unicast_worker(c, d)
  <2>1. CASE UNCHANGED vars
    BY <2>1 DEF vars, registry
  <2>2. CASE Manager
    BY <2>2 DEF Manager, enqueue, register_multicast_worker, registry
  <2>3. CASE \E w \in Workers : Thread(w)
    BY <2>3 DEF Thread, CheckLoop, dequeue, ClientValid, stomp_send_message, SendingDone, registry
  <2>4. CASE \E b \in Conns : do_connection_worker(b) \/ connection_co_worker(b)
    BY <2>4 DEF do_connection_worker, connection_co_worker, registry
  <2> QED BY <2>1, <2>2, <2>3, <2>4 DEF Next
<1> QED BY <1>2, <1>3, <1>4, <1>5, <1>6

(* What a thread has to deliver when the others make a step. *)
LEMMA ServeKeeps ==
  ASSUME Inv, WireInv, AudienceInv, [Next]_vars, NEW w \in Workers, worker'[w] = worker[w],
         w \in Topics => ListKept(w),
         worker[w].frame # 0 => audience'[worker[w].frame] = audience[worker[w].frame]
  PROVE  ServeInv(w)'
<1> SUFFICES ASSUME NEW f \in Ids, worker[w].frame = f, NEW k \in audience'[f], clients'[k].conn \in open'
             PROVE  ToServe(w, f, k)'
  BY DEF ServeInv
<1>0. k \in audience[f]
  BY Constants
<1>1. k \in DOMAIN clients
  BY <1>0 DEF AudienceInv
<1>2. clients'[k] = clients[k] /\ clients[k].conn \in open
  BY <1>1, Grows, OpenBefore DEF MoreClients
<1>3. ToServe(w, f, k)
  BY <1>0, <1>2 DEF AudienceInv, ServeInv
<1>4. WriterOf(k)' = w
  BY <1>2, <1>3 DEF ToServe, WriterOf
<1>5. ASSUME NEW p \in 1 .. Parts, Delivered(f, k, p) PROVE Delivered(f, k, p)'
  BY <1>1, <1>5, DeliveredKeeps
<1>6. ASSUME worker[w].pc \in Sending, worker[w].client < k
      PROVE  worker[w].next # 0 /\ worker[w].next <= k /\ Listed(w, k)'
  <2>1. worker[w].next # 0 /\ worker[w].next <= k /\ Listed(w, k)
    BY <1>3, <1>6 DEF ToServe
  <2>2. w \in Topics
    BY <1>6, <2>1 DEF Inv, ThreadInv
  <2> QED BY <2>1, <2>2 DEF ListKept, Listed
<1> QED BY <1>3, <1>4, <1>5, <1>6 DEF ToServe

(* What a thread has delivered stays so during its own step. *)
LEMMA ServedSoFar ==
  ASSUME Inv, WireInv, AudienceInv, [Next]_vars, NEW w \in Workers, NEW f \in Ids, f = worker[w].frame,
         UNCHANGED audience, NEW k \in audience'[f], clients'[k].conn \in open'
  PROVE  /\ k \in DOMAIN clients /\ k \in Nat /\ clients'[k] = clients[k] /\ clients[k].conn \in open
         /\ k \in audience[f] /\ ToServe(w, f, k) /\ WriterOf(k)' = w
         /\ \A p \in 1 .. Parts : Delivered(f, k, p) => Delivered(f, k, p)'
<1>1. k \in DOMAIN clients
  BY DEF AudienceInv
<1>2. clients'[k] = clients[k] /\ clients[k].conn \in open /\ k \in Nat
  BY <1>1, Grows, OpenBefore, ClientType, Constants DEF MoreClients, Inv
<1>3. ToServe(w, f, k)
  BY <1>2 DEF AudienceInv, ServeInv
<1>4. WriterOf(k)' = w
  BY <1>2, <1>3 DEF ToServe, WriterOf
<1>5. ASSUME NEW p \in 1 .. Parts, Delivered(f, k, p) PROVE Delivered(f, k, p)'
  BY <1>1, <1>5, DeliveredKeeps
<1> QED BY <1>1, <1>2, <1>3, <1>4, <1>5

(* The loop goes on when the client it is at has got all pieces. *)
LEMMA AdvanceServes ==
  ASSUME Inv, WireInv, AudienceInv, [Next]_vars, NEW w \in Topics, worker[w].pc \in Sending, Advance(w),
         UNCHANGED audience,
         \A k \in Clients : Listed(w, k) /\ k # worker[w].client => Listed(w, k)',
         NEW f, f = worker[w].frame, NEW e, e = worker[w].client,
         e \in audience[f] /\ clients[e].conn \in open =>
           \A p \in 1 .. Parts : Delivered(f, e, p)'
  PROVE  ServeInv(w)'
<1> PICK n : n = worker[w].next
  OBVIOUS
<1>1. /\ worker'[w].frame = f
      /\ n = 0 => worker'[w].pc = "count"
      /\ n # 0 => /\ worker'[w].pc = "each" /\ worker'[w].client = n
                  /\ worker'[w].next = NextClient(w, n) /\ worker'[w].part = 1
  BY AdvanceIs
<1>2. w \in Workers /\ w \in Dests /\ f \in Ids
  <2>1. w \in Workers /\ w \in Dests
    BY Constants DEF Workers
  <2>2. f # 0
    BY <2>1 DEF Inv, ThreadInv
  <2> QED BY <2>1, <2>2, ThreadType DEF Inv
<1>3. ASSUME NEW k \in audience'[f], clients'[k].conn \in open' PROVE ToServe(w, f, k)'
  <2>1. /\ k \in DOMAIN clients /\ k \in Nat /\ clients'[k] = clients[k] /\ clients[k].conn \in open
        /\ k \in audience[f] /\ ToServe(w, f, k) /\ WriterOf(k)' = w
        /\ \A p \in 1 .. Parts : Delivered(f, k, p) => Delivered(f, k, p)'
    BY <1>2, <1>3, ServedSoFar
  <2>2. /\ k < e => \A p \in 1 .. Parts : Delivered(f, k, p)
        /\ e < k => n # 0 /\ n <= k /\ Listed(w, k)
    BY <2>1 DEF ToServe
  <2>3. k \in Clients
    BY <2>1, ClientType DEF Inv
  <2>4. /\ e \in DOMAIN clients /\ (n # 0 => e < n /\ n \in DOMAIN clients /\ Listed(w, n))
    BY <1>2 DEF Inv, ThreadInv
  <2>5. e \in Nat /\ n \in Nat
    <3>1. e \in Clients \cup {0} /\ n \in Clients \cup {0}
      BY <1>2, ThreadType DEF Inv
    <3>2. Clients \subseteq Nat /\ 0 \in Nat
      BY Constants
    <3> QED BY <3>1, <3>2
  <2>6. ~(e < k) => \A p \in 1 .. Parts : Delivered(f, k, p)'
    <3>1. CASE k < e
      BY <2>1, <2>2, <3>1
    <3>2. CASE k = e
      BY <2>1, <3>2
    <3> QED BY <2>1, <2>5, <3>1, <3>2
  <2>7. CASE n = 0
    <3>1. \A p \in 1 .. Parts : Delivered(f, k, p)'
      BY <2>2, <2>6, <2>7
    <3>2. worker'[w].pc = "count" /\ worker'[w].frame = f
      BY <1>1, <2>7
    <3> QED BY <2>1, <3>1, <3>2 DEF ToServe, Sending
  <2>8. CASE n # 0
    <3>1. /\ worker'[w].pc = "each" /\ worker'[w].frame = f /\ worker'[w].client = n
          /\ worker'[w].part = 1 /\ worker'[w].next = NextClient(w, n)
      BY <1>1, <2>8
    <3>2. k < n => \A p \in 1 .. Parts : Delivered(f, k, p)'
      BY <2>1, <2>2, <2>5, <2>6
    <3>3. n < k => NextClient(w, n) # 0 /\ NextClient(w, n) <= k /\ Listed(w, k)'
      <4> SUFFICES ASSUME n < k PROVE NextClient(w, n) # 0 /\ NextClient(w, n) <= k /\ Listed(w, k)'
        OBVIOUS
      <4>1. e < k /\ k # e
        BY <2>1, <2>4, <2>5, <2>8
      <4>2. Listed(w, k) /\ Listed(w, n)
        BY <2>2, <2>4, <2>8, <4>1
      <4>3. Listed(w, k)'
        BY <2>3, <4>1, <4>2
      <4> QED BY <1>2, <4>2, <4>3, NextClientMin
    <3>4. \A p \in 1 .. Parts : ~(p < 1)
      OBVIOUS
    <3> QED BY <2>1, <3>1, <3>2, <3>3, <3>4 DEF ToServe, Sending
  <2> QED BY <2>7, <2>8
<1> QED BY <1>1, <1>2, <1>3 DEF ServeInv

LEMMA GoneServes ==
  ASSUME Inv, WireInv, AudienceInv, [Next]_vars, NEW w \in Workers, ClientGone(w)
  PROVE  ServeInv(w)'
<1> PICK f : f = worker[w].frame
  OBVIOUS
<1> PICK e : e = worker[w].client
  OBVIOUS
<1>1. /\ w \in Topics /\ worker[w].pc \in Sending /\ Advance(w) /\ UNCHANGED <<audience, clients, open>>
      /\ ~is_socket_valid(clients[e].sock)
      /\ h_client' = [h_client EXCEPT ![w] = list_del(h_client[w], e)]
  BY DEF ClientGone, Sending, history, sockets
<1>2. w \in Dests /\ Listed(w, e) /\ e \in DOMAIN clients
  BY <1>1, Constants DEF Inv, ThreadInv
<1>3. clients[e].conn \notin open
  BY <1>1, <1>2 DEF is_socket_valid, Owners, Inv, SocketInv
<1>4. ASSUME NEW k \in Clients, Listed(w, k), k # e PROVE Listed(w, k)'
  <2> PICK t : t = list_del(h_client[w], e)
    OBVIOUS
  <2>1. \A i \in DOMAIN h_client[w] : h_client[w][i] # e => \E j \in DOMAIN t : t[j] = h_client[w][i]
    BY <1>2, ListDelIs
  <2>2. h_client'[w] = t
    BY <1>1, <1>2 DEF Inv, TypeOK
  <2> QED BY <1>4, <2>1, <2>2 DEF Listed
<1> QED BY <1>1, <1>3, <1>4, AdvanceServes

LEMMA ValidServes ==
  ASSUME Inv, WireInv, AudienceInv, [Next]_vars, NEW w \in Workers, ClientValid(w)
  PROVE  ServeInv(w)'
<1> PICK f : f = worker[w].frame
  OBVIOUS
<1>1. /\ worker[w].pc = "each" /\ UNCHANGED <<audience, h_client>>
      /\ worker'[w].pc = "send" /\ worker'[w].frame = f
      /\ worker'[w].client = worker[w].client /\ worker'[w].next = worker[w].next
      /\ worker'[w].part = worker[w].part
  BY GotoIs DEF Inv, PCs, ClientValid, history, registry
<1>2. ASSUME f \in Ids, NEW k \in audience'[f], clients'[k].conn \in open' PROVE ToServe(w, f, k)'
  <2>1. /\ ToServe(w, f, k) /\ WriterOf(k)' = w
        /\ \A p \in 1 .. Parts : Delivered(f, k, p) => Delivered(f, k, p)'
    BY <1>1, <1>2, ServedSoFar
  <2>2. \A p \in 1 .. Parts :
          k < worker'[w].client \/ (k = worker'[w].client /\ p < worker'[w].part) => Delivered(f, k, p)'
    BY <1>1, <2>1 DEF ToServe
  <2>3. worker'[w].client < k => worker'[w].next # 0 /\ worker'[w].next <= k /\ Listed(w, k)'
    BY <1>1, <2>1 DEF ToServe, Sending, Listed
  <2> QED BY <1>1, <2>1, <2>2, <2>3 DEF ToServe
<1> QED BY <1>1, <1>2 DEF ServeInv

LEMMA SendServes ==
  ASSUME Inv, WireInv, AudienceInv, [Next]_vars, NEW w \in Workers, stomp_send_message(w)
  PROVE  ServeInv(w)'
<1> PICK f : f = worker[w].frame
  OBVIOUS
<1> PICK e : e = worker[w].client
  OBVIOUS
<1> PICK q : q = worker[w].part
  OBVIOUS
<1>1. /\ UNCHANGED <<fd, open, dest, queue, groups, clients, h_client, manager, audience>>
      /\ worker[w].pc = "send" /\ worker[w].pc \in Sending /\ SentPart(w, Parts)
  BY DEF stomp_send_message, sockets, registry, history, Sending
<1>2. f \in Ids /\ e \in DOMAIN clients /\ q \in Nat /\ q # 0
  BY <1>1, ThreadType, NaturalFields DEF Inv, ThreadInv
<1>3. e \in Nat
  BY <1>2, ClientType, Constants DEF Inv
<1>4. ASSUME NEW k \in audience'[f], clients'[k].conn \in open'
      PROVE  /\ ToServe(w, f, k) /\ WriterOf(k)' = w /\ k \in Nat /\ k \in DOMAIN clients
             /\ \A p \in 1 .. Parts : Delivered(f, k, p) => Delivered(f, k, p)'
             /\ k = e => \A p \in 1 .. Parts : p <= q => Delivered(f, k, p)'
  <2>1. /\ ToServe(w, f, k) /\ WriterOf(k)' = w /\ k \in Nat /\ k \in DOMAIN clients
        /\ clients[k].conn \in open
        /\ \A p \in 1 .. Parts : Delivered(f, k, p) => Delivered(f, k, p)'
    BY <1>1, <1>2, <1>4, ServedSoFar
  <2>2. k = e => Delivered(f, k, q)'
    BY <2>1, SentDelivers
  <2>3. ASSUME k = e, NEW p \in 1 .. Parts, p <= q PROVE Delivered(f, k, p)'
    <3>1. CASE p = q
      BY <2>2, <2>3, <3>1
    <3>2. CASE p < q
      <4>1. Delivered(f, k, p)
        BY <2>1, <2>3, <3>2 DEF ToServe
      <4> QED BY <2>1, <4>1
    <3> QED BY <1>2, <2>3, <3>1, <3>2
  <2> QED BY <2>1, <2>3
<1>5. CASE /\ worker'[w].pc = "send" /\ worker'[w].frame = worker[w].frame
           /\ worker'[w].client = worker[w].client /\ worker'[w].next = worker[w].next
           /\ worker'[w].part = worker[w].part + 1
  <2>1. ASSUME NEW k \in audience'[f], clients'[k].conn \in open' PROVE ToServe(w, f, k)'
    <3>1. /\ ToServe(w, f, k) /\ WriterOf(k)' = w
          /\ \A p \in 1 .. Parts : Delivered(f, k, p) => Delivered(f, k, p)'
          /\ k = e => \A p \in 1 .. Parts : p <= q => Delivered(f, k, p)'
      BY <1>4, <2>1
    <3>2. \A p \in 1 .. Parts : k < e \/ (k = e /\ p < q + 1) => Delivered(f, k, p)'
      <4>1. \A p \in 1 .. Parts : p < q + 1 => p <= q
        BY <1>2
      <4> QED BY <3>1, <4>1 DEF ToServe
    <3>3. e < k => worker[w].next # 0 /\ worker[w].next <= k /\ Listed(w, k)'
      BY <1>1, <3>1 DEF ToServe, Listed
    <3> QED BY <1>5, <3>1, <3>2, <3>3 DEF ToServe
  <2> QED BY <1>5, <2>1 DEF ServeInv
<1>6. CASE w \in Topics /\ Advance(w) /\ worker[w].part = Parts
  <2>1. ASSUME e \in audience[f], clients[e].conn \in open, NEW p \in 1 .. Parts
        PROVE  Delivered(f, e, p)'
    <3>1. p <= q
      BY <1>6
    <3> QED BY <1>1, <1>4, <2>1, <3>1
  <2>2. \A k \in Clients : Listed(w, k) /\ k # worker[w].client => Listed(w, k)'
    BY <1>1 DEF Listed
  <2> QED BY <1>1, <1>6, <2>1, <2>2, AdvanceServes
<1>7. CASE w \notin Topics /\ Goto(w, "count") /\ worker[w].part = Parts
  <2>1. worker'[w].pc = "count" /\ worker'[w].frame = f
    BY <1>7, GotoIs DEF Inv, PCs
  <2>2. ASSUME NEW k \in audience'[f], clients'[k].conn \in open' PROVE ToServe(w, f, k)'
    <3>1. /\ ToServe(w, f, k) /\ WriterOf(k)' = w
          /\ k = e => \A p \in 1 .. Parts : p <= q => Delivered(f, k, p)'
      BY <1>4, <2>2
    <3>2. WriterOf(k) = w /\ e = w
      BY <1>1, <1>7, <3>1 DEF ToServe, Inv, ThreadInv, Workers
    <3>3. k = e
      BY <1>7, <3>2 DEF WriterOf
    <3>4. \A p \in 1 .. Parts : p <= q
      BY <1>7
    <3> QED BY <2>1, <3>1, <3>3, <3>4 DEF ToServe, Sending
  <2> QED BY <2>1, <2>2 DEF ServeInv
<1> QED BY <1>1, <1>5, <1>6, <1>7, SentPartIs

(* dequeue(): the frame is for the clients that are in the list, which the *)
(* loop begins with the first of.                                          *)
LEMMA TakenServes ==
  ASSUME Inv, NEW w \in Workers, worker[w].pc = "take", NEW f \in DOMAIN dest, f \in Ids,
         Taken(w, f), UNCHANGED <<clients, h_client>>
  PROVE  ServeInv(w)' /\ \A k \in audience'[f] : k \in DOMAIN clients
<1>1. /\ worker'[w].frame = f /\ worker'[w].part = 1
      /\ w \in Topics =>
           /\ worker'[w].pc = "each" /\ worker'[w].client = h_client[w][1]
           /\ worker'[w].next = NextClient(w, h_client[w][1]) /\ 1 \in DOMAIN h_client[w]
      /\ w \notin Topics =>
           worker'[w].pc = "send" /\ worker'[w].client = w /\ worker'[w].next = 0
  BY TakenIs
<1>2. audience'[f] = IF w \in Topics THEN Range(h_client[w]) ELSE {w}
  BY DEF Taken, Inv, TypeOK
<1>3. \A p \in 1 .. Parts : ~(p < 1)
  OBVIOUS
<1>4. CASE w \in Topics
  <2> PICK m : m = h_client[w][1]
    OBVIOUS
  <2>1. w \in Dests /\ Listed(w, m)
    BY <1>1, <1>4, Constants DEF Listed
  <2>2. ASSUME NEW k \in audience'[f]
        PROVE  /\ k \in DOMAIN clients /\ Listed(w, k) /\ ~(k < m) /\ WriterOf(k) = w
    <3>1. PICK j \in DOMAIN h_client[w] : h_client[w][j] = k
      BY <1>2, <1>4, <2>2 DEF Range
    <3>2. k \in DOMAIN clients /\ clients[k].dest = w
      BY <2>1, <3>1 DEF Inv, TypeOK, ListInv, Range
    <3>3. h_client[w] \in Seq(Nat) /\ Growing(h_client[w])
      BY <2>1, SequenceTypes DEF Inv, ListInv
    <3>4. ~(k < m)
      <4>1. j = 1 \/ 1 \in 1 .. j - 1
        BY <3>1, <3>3
      <4>2. k = m \/ m < k
        BY <3>1, <3>3, <4>1 DEF Growing
      <4>3. m \in Nat /\ k \in Nat
        BY <1>1, <1>4, <3>1, <3>3
      <4> QED BY <4>2, <4>3
    <3> QED BY <1>4, <3>1, <3>2, <3>4 DEF Listed, WriterOf
  <2>3. ASSUME NEW k \in audience'[f] PROVE ToServe(w, f, k)'
    <3>1. k \in DOMAIN clients /\ Listed(w, k) /\ ~(k < m) /\ WriterOf(k) = w
      BY <2>2, <2>3
    <3>2. WriterOf(k)' = w /\ Listed(w, k)'
      BY <3>1 DEF WriterOf, Listed
    <3>3. m < k => NextClient(w, m) # 0 /\ NextClient(w, m) <= k
      BY <2>1, <3>1, NextClientMin
    <3>4. worker'[w].pc = "each" /\ worker'[w].client = m /\ worker'[w].next = NextClient(w, m)
      BY <1>1, <1>4
    <3> QED BY <1>1, <1>3, <3>1, <3>2, <3>3, <3>4 DEF ToServe
  <2> QED BY <1>1, <2>2, <2>3 DEF ServeInv
<1>5. CASE w \notin Topics
  <2>1. /\ w \in Clients /\ w \in DOMAIN clients /\ clients[w].dest \notin Topics /\ w \in Nat
    BY <1>5, Constants DEF Inv, ThreadInv, Workers
  <2>2. WriterOf(w)' = w
    BY <2>1 DEF WriterOf
  <2>3. ToServe(w, f, w)'
    BY <1>1, <1>3, <1>5, <2>1, <2>2 DEF ToServe
  <2> QED BY <1>1, <1>2, <1>5, <2>1, <2>3 DEF ServeInv
<1> QED BY <1>4, <1>5

(* The frames that were counted stay delivered. *)
LEMMA CountedKeeps ==
  ASSUME Inv, WireInv, AudienceInv, [Next]_vars, NEW f \in DOMAIN dest, WasCounted(f),
         audience'[f] = audience[f]
  PROVE  CountedInv(f)'
<1> SUFFICES ASSUME NEW k \in audience[f], clients'[k].conn \in open', NEW p \in 1 .. Parts
             PROVE  Delivered(f, k, p)'
  BY DEF CountedInv
<1>1. k \in DOMAIN clients
  BY FrameNumbers DEF AudienceInv, Inv
<1>2. clients[k].conn \in open
  BY <1>1, Grows, OpenBefore DEF MoreClients
<1>3. Delivered(f, k, p)
  BY <1>2 DEF AudienceInv, CountedInv
<1> QED BY <1>1, <1>3, DeliveredKeeps

LEMMA AudienceQuiet ==
  ASSUME Inv, WireInv, AudienceInv, [Next]_vars, Quiet
  PROVE  AudienceInv'
<1>1. /\ UNCHANGED <<dest, queue, counted, freed, audience>>
      /\ \A v \in Workers : worker'[v].frame = worker[v].frame
  BY QuietIs
<1>2. \A f \in Ids : \A k \in audience'[f] : k \in DOMAIN clients'
  BY <1>1, Grows DEF AudienceInv, MoreClients
<1>3. ASSUME NEW f \in DOMAIN dest PROVE CountedInv(f)'
  <2>1. CASE WasCounted(f)
    BY <1>1, <2>1, CountedKeeps
  <2>2. CASE ~WasCounted(f)
    BY <1>1, <2>2 DEF CountedInv, WasCounted
  <2> QED BY <2>1, <2>2
<1>4. ASSUME NEW v \in Workers PROVE ServeInv(v)'
  <2>1. CASE worker'[v] = worker[v] /\ (v \in Topics => ListKept(v))
    BY <1>1, <2>1, ServeKeeps
  <2>2. CASE QuietThread(v)
    <3>1. CASE CheckLoop(v)
      <4>1. worker'[v].frame = 0
        BY <1>1, <3>1 DEF CheckLoop, Inv, ThreadInv, Sending
      <4> QED BY <4>1, Constants DEF ServeInv
    <3> QED BY <2>2, <3>1, ValidServes, GoneServes, SendServes DEF QuietThread
  <2>3. CASE worker'[v].frame = 0
    BY <2>3, Constants DEF ServeInv
  <2>4. CASE ~QuietThread(v) /\ worker'[v].frame # 0
    <3>1. v \in Topics => ListKept(v)
      BY <2>4, ListSteps DEF QuietThread
    <3>2. worker'[v] = worker[v]
      <4>1. CASE \E w \in Workers : QuietThread(w)
        BY <2>4, <4>1, QuietThreadIs
      <4>2. CASE \E c \in Conns : register_reply_worker(c) \/ \E d \in Queues : register_unicast_worker(c, d)
        <5>1. PICK c \in Conns, d \in Queues \cup Repliers :
                CanRegister(c) /\ AddClient(c, d) /\ Start(Len(clients'), Len(clients'))
          BY <4>2 DEF register_unicast_worker, register_reply_worker
        <5> PICK n : n = Len(clients) + 1
          OBVIOUS
        <5>2. d \in Dests /\ fd[c] # 0 /\ Len(clients) < MaxClients
          BY <5>1, Constants DEF CanRegister
        <5>3. n \in Clients /\ Len(clients') = n /\ n \in Workers
          BY <5>1, <5>2, AddClientIs DEF Workers
        <5> QED BY <2>4, <5>1, <5>3, StartIs DEF Inv
      <4>3. CASE \E c \in Conns, d \in Topics : register_multicast_worker(c, d)
        <5>1. PICK d \in Topics : UNCHANGED worker \/ Start(d, 0)
          BY <4>3 DEF register_multicast_worker
        <5> QED BY <2>4, <5>1, StartIs DEF Inv, Workers
      <4> QED BY <4>1, <4>2, <4>3 DEF Quiet, do_connection_worker, connection_co_worker,
              RegisterClient, vars
    <3> QED BY <2>1, <3>1, <3>2
  <2> QED BY <2>2, <2>3, <2>4
<1> QED BY <1>1, <1>2, <1>3, <1>4 DEF AudienceInv

LEMMA AudienceEnqueue ==
  ASSUME Inv, WireInv, AudienceInv, [Next]_vars, NEW d \in Dests, enqueue(d)
  PROVE  AudienceInv'
<1> PICK n : n = Len(dest) + 1
  OBVIOUS
<1>1. UNCHANGED <<worker, audience, counted, h_client>>
  BY DEF enqueue, history, registry
<1>2. /\ DOMAIN dest' = DOMAIN dest \cup {n} /\ n \notin DOMAIN dest /\ dest'[n] = d
      /\ \A f \in DOMAIN dest : dest'[f] = dest[f]
  BY EnqueueIs DEF MoreFrames
<1>3. \A f \in Ids : \A k \in audience'[f] : k \in DOMAIN clients'
  BY <1>1, Grows DEF AudienceInv, MoreClients
<1>4. ASSUME NEW v \in Workers PROVE ServeInv(v)'
  <2>1. v \in Topics => ListKept(v)
    BY <1>1, Constants, NothingMore
  <2> QED BY <1>1, <2>1, ServeKeeps
<1>5. CountedInv(n)'
  BY <1>1, <1>2, CountedKnown DEF CountedInv, WasCounted
<1>6. ASSUME NEW f \in DOMAIN dest PROVE CountedInv(f)'
  <2>1. CASE WasCounted(f)
    BY <1>1, <2>1, CountedKeeps
  <2>2. CASE ~WasCounted(f)
    BY <1>1, <1>2, <2>2 DEF CountedInv, WasCounted
  <2> QED BY <2>1, <2>2
<1> QED BY <1>2, <1>3, <1>4, <1>5, <1>6 DEF AudienceInv

LEMMA AudienceDequeue ==
  ASSUME Inv, OneInv, WireInv, AudienceInv, [Next]_vars, NEW w \in Workers, dequeue(w)
  PROVE  AudienceInv'
<1>1. /\ UNCHANGED <<dest, counted, clients, h_client>> /\ worker[w].pc = "take"
      /\ worker[w].frame = 0
  BY DEF dequeue, registry, Inv, ThreadInv, Sending
<1>2. \A v \in Topics : ListKept(v)
  BY <1>1, Constants, NothingMore
<1>3. CASE UNCHANGED <<queue, audience>> /\ Goto(w, "loop")
  <2>1. worker'[w].frame = 0 /\ \A v \in Workers : v # w => worker'[v] = worker[v]
    BY <1>1, <1>3, GotoIs DEF Inv, PCs
  <2>2. ASSUME NEW v \in Workers PROVE ServeInv(v)'
    <3>1. CASE v = w
      BY <2>1, <3>1, Constants DEF ServeInv
    <3>2. CASE v # w
      BY <1>2, <1>3, <2>1, <3>2, ServeKeeps
    <3> QED BY <3>1, <3>2
  <2>3. ASSUME NEW f \in DOMAIN dest PROVE CountedInv(f)'
    <3>1. CASE WasCounted(f)
      BY <1>3, <3>1, CountedKeeps
    <3>2. CASE ~WasCounted(f)
      BY <1>1, <3>2 DEF CountedInv, WasCounted
    <3> QED BY <3>1, <3>2
  <2> QED BY <1>1, <1>3, <2>2, <2>3 DEF AudienceInv
<1>4. CASE ~(UNCHANGED <<queue, audience>> /\ Goto(w, "loop"))
  <2>1. PICK f \in DOMAIN dest :
          /\ Taken(w, f) /\ f \in Ids /\ dest[f] = DestOf(w)
          /\ 1 \in DOMAIN queue[DestOf(w)] /\ queue[DestOf(w)][1] = f
    BY <1>4, DequeueIs
  <2>2. Waits(f) /\ One(f)
    BY <2>1 DEF Waits, OneInv
  <2>3. ~WasCounted(f) /\ \A v \in Workers : worker[v].frame # f
    BY <2>2 DEF One, Held
  <2>4. \A g \in Ids : g # f => audience'[g] = audience[g]
    BY <2>1 DEF Taken, Inv, TypeOK
  <2>5. ServeInv(w)' /\ \A k \in audience'[f] : k \in DOMAIN clients
    BY <1>1, <2>1, TakenServes
  <2>6. \A v \in Workers : v # w => worker'[v] = worker[v]
    BY <1>1, <2>1, TakenIs
  <2>7. ASSUME NEW v \in Workers, v # w PROVE ServeInv(v)'
    <3>1. worker[v].frame # 0 => worker[v].frame \in Ids /\ worker[v].frame # f
      BY <2>3, ThreadType DEF Inv
    <3> QED BY <1>2, <2>4, <2>6, <2>7, <3>1, ServeKeeps
  <2>8. ASSUME NEW g \in DOMAIN dest PROVE CountedInv(g)'
    <3>1. CASE WasCounted(g)
      <4>1. g # f /\ g \in Ids
        BY <2>3, <3>1, FrameNumbers DEF Inv
      <4> QED BY <2>4, <3>1, <4>1, CountedKeeps
    <3>2. CASE ~WasCounted(g)
      BY <1>1, <3>2 DEF CountedInv, WasCounted
    <3> QED BY <3>1, <3>2
  <2>9. \A g \in Ids : \A k \in audience'[g] : k \in DOMAIN clients'
    BY <1>1, <2>4, <2>5 DEF AudienceInv
  <2> QED BY <1>1, <2>5, <2>7, <2>8, <2>9 DEF AudienceInv
<1> QED BY <1>3, <1>4

LEMMA AudienceDone ==
  ASSUME Inv, WireInv, AudienceInv, [Next]_vars, NEW w \in Workers, SendingDone(w)
  PROVE  AudienceInv'
<1> PICK f : f = worker[w].frame
  OBVIOUS
<1>1. /\ UNCHANGED <<dest, clients, h_client, audience, open>> /\ worker[w].pc = "count"
      /\ f \in DOMAIN dest /\ dest[f] = DestOf(w)
      /\ worker'[w].frame = 0 /\ \A v \in Workers : v # w => worker'[v] = worker[v]
  BY DoneIs DEF SendingDone
<1>2. ASSUME NEW v \in Workers PROVE ServeInv(v)'
  <2>1. CASE v = w
    BY <1>1, <2>1, Constants DEF ServeInv
  <2>2. CASE v # w
    <3>1. v \in Topics => ListKept(v)
      BY <1>1, Constants, NothingMore
    <3> QED BY <1>1, <2>2, <3>1, ServeKeeps
  <2> QED BY <2>1, <2>2
<1>3. f \in Ids
  BY <1>1, FrameNumbers DEF Inv
<1>4. CountedInv(f)'
  <2> SUFFICES ASSUME NEW k \in audience[f], clients[k].conn \in open, NEW p \in 1 .. Parts
               PROVE  Delivered(f, k, p)'
    BY <1>1 DEF CountedInv
  <2>1. k \in DOMAIN clients
    BY <1>3 DEF AudienceInv
  <2>2. Delivered(f, k, p)
    BY <1>1, <1>3 DEF AudienceInv, ServeInv, ToServe
  <2> QED BY <2>1, <2>2, DeliveredKeeps
<1>5. ASSUME NEW g \in DOMAIN dest, g # f PROVE CountedInv(g)'
  <2>1. CASE WasCounted(g)
    BY <1>1, <2>1, CountedKeeps
  <2>2. CASE ~WasCounted(g)
    <3>1. dest[g] \in Dests
      BY FrameNumbers DEF Inv
    <3>2. \A j \in DOMAIN counted'[dest[g]] : counted'[dest[g]][j] # g
      BY <1>5, <2>2, <3>1, DoneCounted DEF WasCounted
    <3> QED BY <1>1, <3>2 DEF CountedInv, WasCounted
  <2> QED BY <2>1, <2>2
<1> QED BY <1>1, <1>2, <1>4, <1>5 DEF AudienceInv

LEMMA AudienceInvariant == Spec => []AudienceInv
<1>1. Init => AudienceInv
  <2> SUFFICES ASSUME Init PROVE AudienceInv
    OBVIOUS
  <2>1. NoThread.frame = 0
    BY DEF NoThread
  <2>2. \A w \in Workers : worker[w].frame = 0
    <3> HIDE DEF NoThread
    <3> QED BY <2>1 DEF Init
  <2>3. DOMAIN dest = {} /\ \A f \in Ids : audience[f] = {}
    BY DEF Init
  <2> QED BY <2>2, <2>3, Constants DEF AudienceInv, ServeInv
<1>2. Inv /\ OneInv /\ WireInv /\ AudienceInv /\ [Next]_vars => AudienceInv'
  <2> SUFFICES ASSUME Inv, OneInv, WireInv, AudienceInv, [Next]_vars PROVE AudienceInv'
    OBVIOUS
  <2> QED BY NextCases, AudienceQuiet, AudienceEnqueue, AudienceDequeue, AudienceDone
<1> QED BY <1>1, <1>2, Invariant, OneInvariant, WireInvariant, PTL DEF Spec

(* CountedWasDelivered: when update_index_sent() counts a frame, every     *)
(* client of the destination that was there when it was dequeued, and is   *)
(* still connected, has got each piece of it exactly once, whatever        *)
(* clients came or were unlinked while the list was gone through.          *)
THEOREM Delivery == Spec => []CountedWasDelivered
<1>1. AudienceInv => CountedWasDelivered
  <2> SUFFICES ASSUME AudienceInv, NEW f \in DOMAIN dest, f \in Range(counted[dest[f]]),
                      NEW k \in audience[f], clients[k].conn \in open, NEW p \in 1 .. Parts
               PROVE  Cardinality(Copies(f, k, p)) = 1
    BY DEF CountedWasDelivered
  <2>1. WasCounted(f)
    BY DEF Range, WasCounted
  <2>2. Delivered(f, k, p)
    BY <2>1 DEF AudienceInv, CountedInv
  <2> QED BY <2>2, FS_Singleton DEF Delivered
<1> QED BY <1>1, AudienceInvariant, PTL

-----------------------------------------------------------------------------
(* The messages on a socket that one thread writes to: every piece behind  *)
(* the one before it, the thread going on where it stopped, and a message  *)
(* that is met in the middle only on a number another connection had.      *)
LastPiece(c) == wire[c][Len(wire[c])]
Follows(x, y) ==
  \/ y.part = 1 /\ x.part = Parts
  \/ /\ y.part # 1 /\ y.part = x.part + 1
     /\ y.writer = x.writer /\ y.client = x.client /\ y.frame = x.frame
Chained(s) == \A i \in 2 .. Len(s) : Follows(s[i - 1], s[i])
Sole(c, w) == \A i \in DOMAIN wire[c] : wire[c][i].writer = w
Continues(w, x) ==
  /\ worker[w].pc = "send" /\ worker[w].client = x.client /\ worker[w].frame = x.frame
  /\ worker[w].part = x.part + 1
MessageInv(c, w) ==
  Sole(c, w) =>
    /\ Chained(wire[c])
    /\ Len(wire[c]) # 0 => wire[c][1].part = 1 \/ Reused(c)
    /\ c \in open /\ Len(wire[c]) # 0 => LastPiece(c).part = Parts \/ Continues(w, LastPiece(c))
    /\ /\ c \in open /\ worker[w].pc = "send" /\ worker[w].part # 1
       /\ clients[worker[w].client].sock = fd[c]
       => IF Len(wire[c]) = 0 THEN Reused(c) ELSE Continues(w, LastPiece(c))
NumberInv == \A c \in Conns : \A i \in DOMAIN wire[c] : clients[wire[c][i].client].sock = fd[c]
MessagesInv == NumberInv /\ \A c \in Conns, w \in Workers : MessageInv(c, w)

(* A number is given to a connection once. *)
LEMMA FdSteps ==
  ASSUME Inv, [Next]_vars, NEW c \in Conns
  PROVE  \/ fd[c] = 0 /\ do_connection_worker(c)
         \/ fd'[c] = fd[c] /\ (c \in open' => c \in open)
<1>1. CASE \E b \in Conns : do_connection_worker(b)
  <2>1. PICK b \in Conns : do_connection_worker(b)
    BY <1>1
  <2>2. fd[b] = 0 /\ open' = open \cup {b} /\ (b # c => fd'[c] = fd[c])
    BY <2>1 DEF do_connection_worker, Inv, TypeOK
  <2> QED BY <2>1, <2>2
<1>2. CASE \E b \in Conns : connection_co_worker(b)
  BY <1>2 DEF connection_co_worker
<1>3. CASE UNCHANGED <<fd, open>>
  BY <1>3
<1>4. \/ UNCHANGED <<fd, open>> \/ \E b \in Conns : do_connection_worker(b) \/ connection_co_worker(b)
  <2>1. CASE UNCHANGED vars
    BY <2>1 DEF vars, sockets
  <2>2. CASE Manager
    BY <2>2 DEF Manager, enqueue, register_unicast_worker, register_multicast_worker,
       register_reply_worker, RegisterClient, sockets
  <2>3. CASE \E w \in Workers : Thread(w)
    BY <2>3 DEF Thread, CheckLoop, dequeue, ClientValid, ClientGone, stomp_send_message,
       SendingDone, sockets
  <2> QED BY <2>1, <2>2, <2>3 DEF Next
<1> QED BY <1>1, <1>2, <1>3, <1>4

LEMMA ReusedKeeps ==
  ASSUME Inv, [Next]_vars, NEW c \in Conns, Reused(c)
  PROVE  Reused(c)'
<1>1. PICK o \in Conns \ {c} : fd[o] # 0 /\ fd[o] = fd[c] /\ o \notin open
  BY DEF Reused
<1>2. fd'[o] = fd[o] /\ o \notin open' /\ fd'[c] = fd[c]
  BY <1>1, FdSteps
<1> QED BY <1>1, <1>2 DEF Reused

(* Only send() moves a thread that is in the middle of a message. *)
LEMMA SendSteps ==
  ASSUME Inv, [Next]_vars, NEW w \in Workers, worker'[w] # worker[w]
  PROVE  /\ worker[w].pc = "send" => stomp_send_message(w)
         /\ worker'[w].pc = "send" =>
              \/ worker'[w].part = 1
              \/ /\ stomp_send_message(w) /\ worker'[w].client = worker[w].client
                 /\ worker'[w].frame = worker[w].frame /\ worker'[w].part = worker[w].part + 1
<1>1. CASE Thread(w)
  <2>1. CASE CheckLoop(w)
    <3>1. PICK p \in {"take", "exit"} : Goto(w, p)
      BY <2>1 DEF CheckLoop
    <3> QED BY <2>1, <3>1, GotoIs DEF Inv, PCs, CheckLoop
  <2>2. CASE dequeue(w)
    <3>1. worker[w].pc = "take"
      BY <2>2 DEF dequeue
    <3>2. CASE Goto(w, "loop")
      BY <3>1, <3>2, GotoIs DEF Inv, PCs
    <3>3. CASE ~ Goto(w, "loop")
      <4>1. PICK f \in Ids : Taken(w, f)
        BY <2>2, <3>3, DequeueIs
      <4> QED BY <3>1, <4>1, TakenIs
    <3> QED BY <3>2, <3>3
  <2>3. CASE ClientValid(w)
    <3>1. worker[w].pc = "each" /\ worker'[w].part = worker[w].part
      BY <2>3, GotoIs DEF Inv, PCs, ClientValid
    <3>2. worker[w].part = 1
      BY <3>1 DEF Inv, ThreadInv, Sending
    <3> QED BY <3>1, <3>2
  <2>4. CASE ClientGone(w)
    BY <2>4, AdvanceIs DEF ClientGone, Sending
  <2>5. CASE stomp_send_message(w)
    <3>1. worker[w].pc = "send" /\ worker[w].pc \in Sending /\ SentPart(w, Parts)
      BY <2>5 DEF stomp_send_message, Sending
    <3>2. w \in Topics /\ Advance(w) => worker'[w].pc # "send"
      BY <3>1, AdvanceIs
    <3>3. Goto(w, "count") => worker'[w].pc # "send"
      BY GotoIs DEF Inv, PCs
    <3> QED BY <2>5, <3>1, <3>2, <3>3, SentPartIs
  <2>6. CASE SendingDone(w)
    BY <2>6, DoneIs DEF SendingDone
  <2> QED BY <1>1, <2>1, <2>2, <2>3, <2>4, <2>5, <2>6 DEF Thread
<1>2. CASE \E v \in Workers : v # w /\ Thread(v)
  <2>1. PICK v \in Workers : v # w /\ Thread(v)
    BY <1>2
  <2>2. CASE QuietThread(v)
    BY <2>1, <2>2, QuietThreadIs
  <2>3. CASE SendingDone(v)
    BY <2>1, <2>3, DoneIs
  <2>4. CASE dequeue(v)
    <3>1. CASE Goto(v, "loop")
      BY <2>1, <3>1, GotoIs DEF Inv, PCs
    <3>2. CASE ~ Goto(v, "loop")
      <4>1. PICK f \in Ids : Taken(v, f)
        BY <2>4, <3>2, DequeueIs
      <4> QED BY <2>1, <2>4, <4>1, TakenIs DEF dequeue
    <3> QED BY <3>1, <3>2
  <2> QED BY <2>1, <2>2, <2>3, <2>4 DEF Thread, QuietThread
<1>3. CASE \E c \in Conns : register_reply_worker(c) \/ \E d \in Queues : register_unicast_worker(c, d)
  <2>1. PICK c \in Conns, d \in Queues \cup Repliers :
          CanRegister(c) /\ AddClient(c, d) /\ Start(Len(clients'), Len(clients'))
    BY <1>3 DEF register_unicast_worker, register_reply_worker
  <2> PICK n : n = Len(clients) + 1
    OBVIOUS
  <2>2. d \in Dests /\ fd[c] # 0 /\ Len(clients) < MaxClients
    BY <2>1, Constants DEF CanRegister
  <2>3. n \in Clients /\ Len(clients') = n /\ n \in Workers /\ n \notin DOMAIN clients
    BY <2>1, <2>2, AddClientIs DEF Workers
  <2>4. w = n /\ worker'[w].pc = "loop"
    BY <2>1, <2>3, StartIs DEF Inv
  <2>5. worker[n].pc = "none"
    BY <2>3 DEF Inv, ThreadInv
  <2> QED BY <2>4, <2>5
<1>4. CASE \E c \in Conns, d \in Topics : register_multicast_worker(c, d)
  <2>1. PICK d \in Topics : d \notin groups /\ Start(d, 0)
    BY <1>4 DEF register_multicast_worker, search_dest_group
  <2>2. w = d /\ worker'[w].pc = "loop"
    BY <2>1, StartIs DEF Inv, Workers
  <2>3. worker[d].pc = "none"
    BY <2>1, <2>2 DEF Inv, ThreadInv
  <2> QED BY <2>2, <2>3
<1>5. \/ UNCHANGED worker \/ \E v \in Workers : Thread(v)
      \/ \E c \in Conns : register_reply_worker(c) \/ \E d \in Queues : register_unicast_worker(c, d)
      \/ \E c \in Conns, d \in Topics : register_multicast_worker(c, d)
  BY DEF Next, Manager, enqueue, RegisterClient, do_connection_worker, connection_co_worker, vars
<1> QED BY <1>1, <1>2, <1>3, <1>4, <1>5

LEMMA NumberNext ==
  ASSUME Inv, WireInv, MessagesInv, [Next]_vars
  PROVE  NumberInv'
<1> SUFFICES ASSUME NEW c \in Conns, NEW i \in DOMAIN wire'[c]
             PROVE  clients'[wire'[c][i].client].sock = fd'[c]
  BY DEF NumberInv
<1>1. ASSUME NEW j \in DOMAIN wire[c], NEW x, x = wire[c][j] PROVE clients'[x.client].sock = fd'[c]
  <2>1. x.client \in DOMAIN clients
    BY <1>1 DEF WireInv, Known
  <2>2. clients'[x.client] = clients[x.client]
    BY <2>1, Grows DEF MoreClients
  <2>3. clients[x.client].sock = fd[c]
    BY <1>1 DEF MessagesInv, NumberInv
  <2>4. fd[c] # 0
    <3>1. clients[x.client].sock \in 1 .. Cardinality(Conns)
      BY <2>1, ClientType DEF Inv
    <3> QED BY <2>3, <3>1, Constants
  <2> QED BY <2>2, <2>3, <2>4, FdSteps
<1>2. CASE wire'[c] = wire[c]
  BY <1>1, <1>2
<1>3. CASE wire'[c] # wire[c]
  <2>1. PICK w \in Workers :
           /\ stomp_send_message(w) /\ c \in Owners(clients[worker[w].client].sock)
           /\ wire'[c] = Append(wire[c], Piece(w)) /\ Piece(w) \in WirePiece
    BY <1>3, WireSteps
  <2> PICK y : y = Piece(w)
    OBVIOUS
  <2> PICK s : s = wire[c]
    OBVIOUS
  <2>2. s \in Seq(WirePiece) /\ y \in WirePiece /\ wire'[c] = Append(s, y)
    BY <2>1 DEF Inv, TypeOK
  <2>3. (i \in DOMAIN s /\ wire'[c][i] = s[i]) \/ wire'[c][i] = y
    BY <2>2, AppendElements
  <2>4. clients'[y.client].sock = fd'[c]
    <3>1. y.client = worker[w].client
      BY <2>1, SendIs
    <3>2. UNCHANGED <<clients, fd>>
      BY <2>1 DEF stomp_send_message, sockets, registry
    <3> QED BY <2>1, <3>1, <3>2 DEF Owners
  <2> QED BY <1>1, <2>3, <2>4
<1> QED BY <1>2, <1>3

(* Nothing arrives at c. *)
LEMMA MessageKeeps ==
  ASSUME Inv, WireInv, MessagesInv, [Next]_vars, NEW c \in Conns, NEW w \in Workers, wire'[c] = wire[c]
  PROVE  MessageInv(c, w)'
<1> SUFFICES ASSUME Sole(c, w)' PROVE
       /\ Chained(wire'[c])
       /\ Len(wire'[c]) # 0 => wire'[c][1].part = 1 \/ Reused(c)'
       /\ c \in open' /\ Len(wire'[c]) # 0 => LastPiece(c)'.part = Parts \/ Continues(w, LastPiece(c))'
       /\ /\ c \in open' /\ worker'[w].pc = "send" /\ worker'[w].part # 1
          /\ clients'[worker'[w].client].sock = fd'[c]
          => IF Len(wire'[c]) = 0 THEN Reused(c)' ELSE Continues(w, LastPiece(c))'
  BY DEF MessageInv, Chained
<1> PICK y : y = LastPiece(c)
  OBVIOUS
<1>0. LastPiece(c)' = y
  BY DEF LastPiece
<1>1. Sole(c, w) /\ MessageInv(c, w)
  BY DEF Sole, MessagesInv
<1>2. /\ Chained(wire[c])
      /\ Len(wire[c]) # 0 => wire[c][1].part = 1 \/ Reused(c)
      /\ c \in open /\ Len(wire[c]) # 0 => y.part = Parts \/ Continues(w, y)
      /\ /\ c \in open /\ worker[w].pc = "send" /\ worker[w].part # 1
         /\ clients[worker[w].client].sock = fd[c]
         => IF Len(wire[c]) = 0 THEN Reused(c) ELSE Continues(w, y)
  BY <1>1 DEF MessageInv
<1>3. Len(wire[c]) # 0 => wire[c][1].part = 1 \/ Reused(c)'
  BY <1>2, ReusedKeeps
<1>4. Len(wire[c]) # 0 => y \in WirePiece /\ y.client \in DOMAIN clients /\ clients[y.client].sock = fd[c]
  <2>1. wire[c] \in Seq(WirePiece)
    BY DEF Inv, TypeOK
  <2>2. Len(wire[c]) # 0 => Len(wire[c]) \in DOMAIN wire[c]
    BY <2>1
  <2> QED BY <2>2, PieceType DEF LastPiece, MessagesInv, NumberInv, WireInv, Known, Inv
<1>5. Len(wire[c]) # 0 => fd[c] # 0
  <2> SUFFICES ASSUME Len(wire[c]) # 0 PROVE fd[c] # 0
    OBVIOUS
  <2>1. clients[y.client].sock \in 1 .. Cardinality(Conns)
    BY <1>4, ClientType DEF Inv
  <2> QED BY <1>4, <2>1, Constants
<1>6. ASSUME c \in open, stomp_send_message(w), clients[worker[w].client].sock = fd[c] PROVE FALSE
  <2>1. c \in Owners(clients[worker[w].client].sock)
    BY <1>6 DEF Owners
  <2>2. wire'[c] = Append(wire[c], Piece(w)) /\ Piece(w) \in WirePiece
    BY <1>6, <2>1, SendIs
  <2>3. wire[c] \in Seq(WirePiece)
    BY DEF Inv, TypeOK
  <2>4. Len(Append(wire[c], Piece(w))) = Len(wire[c]) + 1 /\ Len(wire[c]) \in Nat
    BY <2>2, <2>3
  <2> QED BY <2>2, <2>4
<1>7. ASSUME c \in open', Len(wire[c]) # 0 PROVE y.part = Parts \/ Continues(w, y)'
  <2>1. c \in open
    BY <1>5, <1>7, FdSteps
  <2>2. CASE Continues(w, y)
    <3>1. worker'[w] = worker[w]
      <4> SUFFICES ASSUME worker'[w] # worker[w] PROVE FALSE
        OBVIOUS
      <4>1. stomp_send_message(w) /\ clients[worker[w].client].sock = fd[c]
        BY <1>4, <1>7, <2>2, SendSteps DEF Continues
      <4> QED BY <1>6, <2>1, <4>1
    <3> QED BY <2>2, <3>1 DEF Continues
  <2> QED BY <1>2, <1>7, <2>1, <2>2
<1>8. ASSUME c \in open', worker'[w].pc = "send", worker'[w].part # 1,
             clients'[worker'[w].client].sock = fd'[c]
      PROVE  IF Len(wire[c]) = 0 THEN Reused(c)' ELSE Continues(w, y)'
  <2> PICK k : k = worker[w].client
    OBVIOUS
  <2>1. worker'[w] = worker[w] \/ (stomp_send_message(w) /\ worker'[w].client = k)
    BY <1>8, SendSteps
  <2>2. worker[w].pc = "send" /\ worker'[w].client = k
    BY <1>8, <2>1 DEF stomp_send_message
  <2>3. k \in DOMAIN clients /\ clients'[k] = clients[k] /\ clients[k].sock = fd'[c]
    <3>1. k \in DOMAIN clients
      BY <2>2 DEF Inv, ThreadInv, Sending
    <3>2. clients'[k] = clients[k]
      BY <3>1, Grows DEF MoreClients
    <3> QED BY <1>8, <2>2, <3>1, <3>2
  <2>4. CASE fd'[c] = fd[c] /\ c \in open
    <3>1. ~stomp_send_message(w)
      BY <1>6, <2>3, <2>4
    <3>2. worker'[w] = worker[w]
      BY <2>1, <3>1
    <3>3. IF Len(wire[c]) = 0 THEN Reused(c) ELSE Continues(w, y)
      BY <1>2, <1>8, <2>2, <2>3, <2>4, <3>2
    <3>4. Reused(c) => Reused(c)'
      BY ReusedKeeps
    <3> QED BY <3>2, <3>3, <3>4 DEF Continues
  <2>5. CASE fd[c] = 0 /\ do_connection_worker(c)
    <3> PICK o : o = clients[k].conn
      OBVIOUS
    <3>1. Len(wire[c]) = 0
      BY <1>5, <2>5
    <3>2. o \in Conns /\ clients[k].sock = fd[o] /\ fd[o] # 0
      <4>1. o \in Conns /\ clients[k].sock = fd[o] /\ clients[k].sock \in 1 .. Cardinality(Conns)
        BY <2>3, ClientType DEF Inv, SocketInv
      <4> QED BY <4>1, Constants
    <3>3. o # c /\ fd'[o] = fd[o]
      BY <2>5, <3>2, FdSteps
    <3>4. Inv'
      BY InvNext
    <3>5. o \notin open'
      <4>1. \A a, b \in open' : fd'[a] = fd'[b] => a = b
        BY <3>4 DEF Inv, SocketInv
      <4>2. fd'[o] = fd'[c]
        BY <2>3, <3>2, <3>3
      <4> QED BY <1>8, <3>3, <4>1, <4>2
    <3>6. Reused(c)'
      BY <2>3, <3>2, <3>3, <3>5 DEF Reused
    <3> QED BY <3>1, <3>6
  <2> QED BY <1>8, <2>4, <2>5, FdSteps
<1> QED BY <1>0, <1>2, <1>3, <1>7, <1>8 DEF Continues

(* A piece arrives at c. *)
LEMMA MessageSent ==
  ASSUME Inv, WireInv, MessagesInv, [Next]_vars, NEW c \in Conns, NEW w \in Workers, wire'[c] # wire[c]
  PROVE  MessageInv(c, w)'
<1> SUFFICES ASSUME Sole(c, w)' PROVE
       /\ Chained(wire'[c])
       /\ Len(wire'[c]) # 0 => wire'[c][1].part = 1 \/ Reused(c)'
       /\ c \in open' /\ Len(wire'[c]) # 0 => LastPiece(c)'.part = Parts \/ Continues(w, LastPiece(c))'
       /\ /\ c \in open' /\ worker'[w].pc = "send" /\ worker'[w].part # 1
          /\ clients'[worker'[w].client].sock = fd'[c]
          => IF Len(wire'[c]) = 0 THEN Reused(c)' ELSE Continues(w, LastPiece(c))'
  BY DEF MessageInv, Chained
<1>1. PICK v \in Workers :
         /\ stomp_send_message(v) /\ c \in Owners(clients[worker[v].client].sock)
         /\ wire'[c] = Append(wire[c], Piece(v)) /\ Piece(v) \in WirePiece
  BY WireSteps
<1> PICK y : y = Piece(v)
  OBVIOUS
<1> PICK s : s = wire[c]
  OBVIOUS
<1> PICK l : l = LastPiece(c)
  OBVIOUS
<1> PICK n : n = Len(s) + 1
  OBVIOUS
<1>2. s \in Seq(WirePiece) /\ y \in WirePiece /\ wire'[c] = Append(s, y)
  BY <1>1 DEF Inv, TypeOK
<1>3. /\ Len(s) \in Nat /\ DOMAIN s = 1 .. Len(s) /\ DOMAIN wire'[c] = 1 .. n
      /\ \A j \in 1 .. Len(s) : wire'[c][j] = s[j]
      /\ wire'[c][n] = y
  BY <1>2, PieceAppended
<1>4. Len(wire'[c]) = n /\ n # 0 /\ n \in DOMAIN wire'[c]
  <2>1. Len(Append(s, y)) = Len(s) + 1
    BY <1>2
  <2> QED BY <1>2, <1>3, <2>1
<1>5. y.writer = v /\ y.client = worker[v].client /\ y.frame = worker[v].frame /\ y.part = worker[v].part
  BY <1>1, SendIs
<1>6. v = w /\ Sole(c, w)
  <2>1. v = w
    BY <1>3, <1>4, <1>5 DEF Sole
  <2>2. \A j \in DOMAIN s : j \in DOMAIN wire'[c] /\ wire'[c][j] = s[j]
    BY <1>3
  <2> QED BY <2>1, <2>2 DEF Sole
<1>7. /\ c \in open /\ worker[w].pc = "send" /\ clients[worker[w].client].sock = fd[c]
      /\ SentPart(w, Parts) /\ stomp_send_message(w)
  BY <1>1, <1>6 DEF Owners, stomp_send_message
<1>8. MessageInv(c, w)
  BY DEF MessagesInv
<1>9. /\ Chained(s)
      /\ Len(s) # 0 => s[1].part = 1 \/ Reused(c)
      /\ Len(s) # 0 => l.part = Parts \/ Continues(w, l)
      /\ worker[w].part # 1 => IF Len(s) = 0 THEN Reused(c) ELSE Continues(w, l)
  BY <1>6, <1>7, <1>8 DEF MessageInv
<1>10. y.part \in Nat \ {0} /\ (Len(s) # 0 => l = s[Len(s)] /\ l \in WirePiece /\ l.writer = w /\ l.part \in Nat \ {0})
  <2>1. y.part \in Nat \ {0}
    BY <1>2, NaturalFields
  <2>2. Len(s) # 0 => Len(s) \in DOMAIN s /\ l = s[Len(s)]
    BY <1>3 DEF LastPiece
  <2>3. Len(s) # 0 => l \in WirePiece /\ l.writer = w
    BY <1>2, <1>6, <2>2 DEF Sole
  <2> QED BY <2>1, <2>2, <2>3, NaturalFields
<1>11. Len(s) # 0 => Follows(l, y)
  <2> SUFFICES ASSUME Len(s) # 0 PROVE Follows(l, y)
    OBVIOUS
  <2>1. CASE y.part = 1
    <3>1. ~Continues(w, l)
      BY <1>5, <1>6, <1>10, <2>1 DEF Continues
    <3> QED BY <1>9, <2>1, <3>1 DEF Follows
  <2>2. CASE y.part # 1
    <3>1. Continues(w, l)
      BY <1>5, <1>6, <1>9, <2>2
    <3> QED BY <1>5, <1>6, <1>10, <2>2, <3>1 DEF Follows, Continues
  <2> QED BY <2>1, <2>2
<1>12. Chained(wire'[c])
  <2> SUFFICES ASSUME NEW i \in 2 .. n PROVE Follows(wire'[c][i - 1], wire'[c][i])
    BY <1>4 DEF Chained
  <2>1. CASE i \in 2 .. Len(s)
    <3>1. i \in 1 .. Len(s) /\ i - 1 \in 1 .. Len(s)
      BY <1>3, <2>1
    <3>2. wire'[c][i] = s[i] /\ wire'[c][i - 1] = s[i - 1]
      BY <1>3, <3>1
    <3>3. Follows(s[i - 1], s[i])
      BY <1>9, <2>1 DEF Chained
    <3> QED BY <3>2, <3>3
  <2>2. CASE i = n
    <3>1. Len(s) \in 1 .. Len(s) /\ i - 1 = Len(s) /\ Len(s) # 0
      BY <1>3, <2>2
    <3>2. wire'[c][i] = y /\ wire'[c][i - 1] = l
      BY <1>3, <1>10, <2>2, <3>1
    <3> QED BY <1>11, <3>1, <3>2
  <2> QED BY <1>3, <2>1, <2>2
<1>13. wire'[c][1].part = 1 \/ Reused(c)'
  <2>1. Reused(c) => Reused(c)'
    BY ReusedKeeps
  <2>2. CASE Len(s) = 0
    <3>1. wire'[c][1] = y
      BY <1>3, <2>2
    <3> QED BY <1>5, <1>6, <1>9, <2>1, <2>2, <3>1
  <2>3. CASE Len(s) # 0
    <3>1. wire'[c][1] = s[1]
      BY <1>3, <2>3
    <3> QED BY <1>9, <2>1, <2>3, <3>1
  <2> QED BY <2>2, <2>3
<1>14. LastPiece(c)' = y
  BY <1>3, <1>4 DEF LastPiece
<1>15. /\ y.part = Parts \/ Continues(w, y)'
       /\ worker'[w].pc = "send" => Continues(w, y)'
  <2>1. CASE /\ worker'[w].pc = "send" /\ worker'[w].frame = worker[w].frame
             /\ worker'[w].client = worker[w].client /\ worker'[w].part = worker[w].part + 1
    BY <1>5, <1>6, <2>1 DEF Continues
  <2>2. CASE w \in Topics /\ Advance(w) /\ worker[w].part = Parts
    <3>1. worker'[w].pc # "send"
      BY <1>7, <2>2, AdvanceIs DEF Sending
    <3> QED BY <1>5, <1>6, <2>2, <3>1
  <2>3. CASE Goto(w, "count") /\ worker[w].part = Parts
    <3>1. worker'[w].pc # "send"
      BY <2>3, GotoIs DEF Inv, PCs
    <3> QED BY <1>5, <1>6, <2>3, <3>1
  <2> QED BY <1>7, <2>1, <2>2, <2>3, SentPartIs
<1> QED BY <1>4, <1>12, <1>13, <1>14, <1>15 DEF Continues

LEMMA MessagesInvariant == Spec => []MessagesInv
<1>1. Init => MessagesInv
  <2> SUFFICES ASSUME Init PROVE MessagesInv
    OBVIOUS
  <2>1. NoThread.pc = "none"
    BY DEF NoThread
  <2>2. \A w \in Workers : worker[w].pc = "none"
    <3> HIDE DEF NoThread
    <3> QED BY <2>1 DEF Init
  <2>3. \A c \in Conns : wire[c] = <<>>
    BY DEF Init
  <2>4. DOMAIN <<>> = {} /\ Len(<<>>) = 0
    OBVIOUS
  <2>5. Chained(<<>>)
    BY <2>4 DEF Chained
  <2> QED BY <2>2, <2>3, <2>4, <2>5 DEF MessagesInv, NumberInv, MessageInv
<1>2. Inv /\ WireInv /\ MessagesInv /\ [Next]_vars => MessagesInv'
  BY NumberNext, MessageKeeps, MessageSent DEF MessagesInv
<1> QED BY <1>1, <1>2, Invariant, WireInvariant, PTL DEF Spec

(* The next piece of the same message. *)
LEMMA NextPiece ==
  ASSUME NEW x \in WirePiece, NEW y \in WirePiece,
         y.part = x.part + 1, y.writer = x.writer, y.client = x.client, y.frame = x.frame
  PROVE  [x EXCEPT !.part = @ + 1] = y
<1>1. x = [writer |-> x.writer, client |-> x.client, frame |-> x.frame, part |-> x.part]
  BY DEF WirePiece
<1>2. y = [writer |-> y.writer, client |-> y.client, frame |-> y.frame, part |-> y.part]
  BY DEF WirePiece
<1> QED BY <1>1, <1>2

(* Pieces that follow one another from a first one are whole messages. *)
LEMMA ChainedIsWhole ==
  ASSUME NEW t \in Seq(WirePiece), Chained(t), Len(t) # 0 => t[1].part = 1
  PROVE  Whole(t)
<1>1. Len(t) \in Nat /\ DOMAIN t = 1 .. Len(t) /\ \A i \in DOMAIN t : t[i] \in WirePiece
  OBVIOUS
<1> SUFFICES ASSUME NEW i \in DOMAIN t
             PROVE  IF t[i].part = 1 THEN i = 1 \/ t[i - 1].part = Parts
                    ELSE i > 1 /\ [t[i - 1] EXCEPT !.part = @ + 1] = t[i]
  BY DEF Whole
<1>2. CASE i = 1
  <2>1. Len(t) # 0
    BY <1>1, <1>2
  <2> QED BY <1>2, <2>1
<1>3. CASE i # 1
  <2>1. i \in 2 .. Len(t) /\ i - 1 \in DOMAIN t /\ i > 1
    BY <1>1, <1>3
  <2>2. Follows(t[i - 1], t[i])
    BY <2>1 DEF Chained
  <2>3. t[i - 1] \in WirePiece /\ t[i] \in WirePiece
    BY <1>1, <2>1
  <2>4. CASE t[i].part = 1
    BY <2>2, <2>4 DEF Follows
  <2>5. CASE t[i].part # 1
    <3>1. /\ t[i].part = t[i - 1].part + 1 /\ t[i].writer = t[i - 1].writer
          /\ t[i].client = t[i - 1].client /\ t[i].frame = t[i - 1].frame
      BY <2>2, <2>5 DEF Follows
    <3>2. [t[i - 1] EXCEPT !.part = @ + 1] = t[i]
      BY <2>3, <3>1, NextPiece
    <3> QED BY <2>1, <2>5, <3>2
  <2> QED BY <2>4, <2>5
<1> QED BY <1>2, <1>3

(* What is left of them from the first that begins a message. *)
LEMMA FromFirstIs ==
  ASSUME NEW s \in Seq(WirePiece), Chained(s)
  PROVE  Whole(FromFirst(s))
<1>1. Len(s) \in Nat /\ DOMAIN s = 1 .. Len(s)
  OBVIOUS
<1>2. CASE Begins(s) = {}
  <2>1. FromFirst(s) = <<>>
    BY <1>2 DEF FromFirst
  <2>2. DOMAIN <<>> = {}
    OBVIOUS
  <2> QED BY <2>1, <2>2 DEF Whole
<1>3. CASE Begins(s) # {}
  <2>1. Begins(s) \in SUBSET Nat
    BY <1>1 DEF Begins
  <2>2. \E k \in Begins(s) : \A j \in Begins(s) : k <= j
    BY <1>3, <2>1, Least
  <2>3. Min(Begins(s)) \in Begins(s)
    BY <2>2 DEF Min
  <2> PICK m : m = Min(Begins(s))
    OBVIOUS
  <2>4. m \in 1 .. Len(s) /\ s[m].part = 1
    BY <1>1, <2>3 DEF Begins
  <2> PICK t : t = SubSeq(s, m, Len(s))
    OBVIOUS
  <2>5. /\ t \in Seq(WirePiece) /\ Len(t) = Len(s) - m + 1
        /\ \A i \in 1 .. Len(s) - m + 1 : t[i] = s[m + i - 1]
    BY <1>1, <2>4
  <2>6. t[1].part = 1
    <3>1. 1 \in 1 .. Len(s) - m + 1 /\ m + 1 - 1 = m
      BY <1>1, <2>4
    <3> QED BY <2>4, <2>5, <3>1
  <2>7. Chained(t)
    <3> SUFFICES ASSUME NEW i \in 2 .. Len(t) PROVE Follows(t[i - 1], t[i])
      BY DEF Chained
    <3>1. /\ i \in 1 .. Len(s) - m + 1 /\ i - 1 \in 1 .. Len(s) - m + 1
          /\ m + i - 1 \in 2 .. Len(s) /\ m + (i - 1) - 1 = (m + i - 1) - 1
      BY <1>1, <2>4, <2>5
    <3>2. t[i] = s[m + i - 1] /\ t[i - 1] = s[(m + i - 1) - 1]
      BY <2>5, <3>1
    <3> QED BY <3>1, <3>2 DEF Chained
  <2>8. FromFirst(s) = t
    BY <1>3 DEF FromFirst
  <2> QED BY <2>5, <2>6, <2>7, <2>8, ChainedIsWhole
<1> QED BY <1>2, <1>3

(* WholeUnlessShared: a client finds one message inside another only if    *)
(* two threads write to its socket, and the rest of a message it did not   *)
(* see begin only on a number another connection had, for any number of    *)
(* pieces a message is sent in.                                            *)
THEOREM WholeMessages == Spec => []WholeUnlessShared
<1>1. Inv /\ MessagesInv => WholeUnlessShared
  <2> SUFFICES ASSUME Inv, MessagesInv, NEW c \in Conns,
                      \A i, j \in DOMAIN wire[c] : wire[c][i].writer = wire[c][j].writer
               PROVE  Whole(wire[c]) \/ (Reused(c) /\ Whole(FromFirst(wire[c])))
    BY DEF WholeUnlessShared
  <2> PICK s : s = wire[c]
    OBVIOUS
  <2>1. s \in Seq(WirePiece)
    BY DEF Inv, TypeOK
  <2>2. Len(s) \in Nat /\ DOMAIN s = 1 .. Len(s)
    BY <2>1
  <2>3. CASE Len(s) = 0
    <3>1. DOMAIN s = {}
      BY <2>2, <2>3
    <3> QED BY <3>1 DEF Whole
  <2>4. CASE Len(s) # 0
    <3> PICK w : w = s[1].writer
      OBVIOUS
    <3>1. 1 \in DOMAIN s
      BY <2>2, <2>4
    <3>2. Sole(c, w)
      BY <3>1 DEF Sole
    <3>3. s[1] \in WirePiece
      BY <2>1, <3>1
    <3>4. w \in Workers
      BY <3>3 DEF WirePiece
    <3>5. Chained(s) /\ (s[1].part = 1 \/ Reused(c))
      BY <2>4, <3>2, <3>4 DEF MessagesInv, MessageInv
    <3> QED BY <2>1, <3>5, ChainedIsWhole, FromFirstIs
  <2> QED BY <2>3, <2>4
<1> QED BY <1>1, Invariant, MessagesInvariant, PTL

=============================================================================
