-------------------------- MODULE ManagementProofs --------------------------
(***************************************************************************)
(* Proofs about Management, for any connections, commands, destinations,   *)
(* names of transactions and number of frames.                             *)
(***************************************************************************)
EXTENDS Management, SequenceLemmas, FiniteSetTheorems

(* The kernel has a number left for a connection that has none: there are  *)
(* as many numbers as connections.                                         *)
LEMMA FreeFdIsFree ==
  ASSUME TypeOK, NEW c \in Conns, sock[c] = 0
  PROVE  FreeFd \in 1 .. Cardinality(Conns) /\ Owners(FreeFd) = {}
<1> DEFINE N == Cardinality(Conns)
           free == {fd \in 1 .. N : Owners(fd) = {}}
<1>1. IsFiniteSet(Conns) /\ N \in Nat
  BY CommandsAssumption, FS_CardinalityType
<1>2. free # {}
  <2> SUFFICES ASSUME \A fd \in 1 .. N : Owners(fd) # {}
               PROVE  FALSE
    OBVIOUS
  <2> DEFINE g == [fd \in 1 .. N |-> CHOOSE o \in Conns : sock[o] = fd]
             rest == Conns \ {c}
  <2>1. \A fd \in 1 .. N : g[fd] \in Conns /\ sock[g[fd]] = fd
    BY DEF Owners
  <2>2. g \in Injection(1 .. N, rest)
    <3>1. \A fd \in 1 .. N : g[fd] \in rest
      BY <2>1, <1>1
    <3>2. \A x, y \in 1 .. N : g[x] = g[y] => x = y
      BY <2>1
    <3> HIDE DEF g, rest
    <3>3. DOMAIN g = 1 .. N
      BY DEF g
    <3>4. g = [x \in 1 .. N |-> g[x]]
      BY DEF g
    <3> QED BY <3>1, <3>2, <3>3, <3>4 DEF Injection, IsInjective
  <2>3. IsFiniteSet(rest) /\ Cardinality(rest) = N - 1
    BY <1>1, FS_RemoveElement
  <2>4. Cardinality(1 .. N) = N
    BY <1>1, FS_Interval
  <2>5. N <= Cardinality(rest)
    <3> HIDE DEF rest
    <3> QED BY <2>2, <2>3, <2>4, FS_Injection
  <2> QED BY <1>1, <2>3, <2>5
<1>3. free \in SUBSET Nat
  OBVIOUS
<1>4. PICK k \in free : \A j \in free : k <= j
  <2> HIDE DEF free
  <2> QED BY <1>2, <1>3, Least
<1>5. FreeFd \in free
  BY <1>4 DEF FreeFd, Min
<1> QED BY <1>5

(* The frame at hand is one that was sent. *)
LEMMA FrameAtHand ==
  ASSUME TypeOK, pc # "idle"
  PROVE  /\ frame \in DOMAIN sent /\ frame \in Ids
         /\ sent[frame] \in FrameObject
         /\ Hdr.dest \in Dests \cup {Absent}
         /\ Hdr.tid \in Tids \cup {<<>>, Absent}
<1>1. frame \in DOMAIN sent
  BY DEF TypeOK
<1>2. sent[frame] \in FrameObject
  BY <1>1 DEF TypeOK
<1>3. frame \in Ids
  BY <1>1, CommandsAssumption DEF TypeOK, Ids
<1>4. sent[frame].h \in Headers
  BY <1>2 DEF FrameObject
<1> QED BY <1>1, <1>2, <1>3, <1>4 DEF Hdr, Headers

-----------------------------------------------------------------------------
(* Transaction takes the same helpers from the same modules. *)
LEMMA SameHelpers ==
  /\ \A S : T!Max(S) = Max(S)
  /\ \A s, n : T!RemoveAt(s, n) = RemoveAt(s, n)
  /\ \A f : T!Range(f) = Range(f)
BY DEF T!Max, Max, T!RemoveAt, RemoveAt, T!Range, Range

(* The list of transactions, as the handlers use it. *)
LEMMA LookupFinds ==
  ASSUME T!TypeOK, NEW tid, T!Known(tid)
  PROVE  T!get_transaction(tid) \in 1 .. Len(transactions)
<1>1. T!Matching(tid) \in SUBSET (0 .. Len(transactions)) /\ Len(transactions) \in Nat
  BY DEF T!Matching, T!TypeOK
<1>2. Max(T!Matching(tid)) \in T!Matching(tid)
  BY <1>1, MaxIsLargest DEF T!Known
<1> QED
  BY <1>2, SameHelpers DEF T!get_transaction, T!Matching, T!TypeOK

LEMMA ObjectType ==
  ASSUME T!TypeOK, NEW t \in DOMAIN transactions
  PROVE  /\ transactions[t] \in T!TransactionObject
         /\ transactions[t].frames \in Seq(Ids)
         /\ T!FramesOf(t) \subseteq Ids
<1>1. transactions[t] \in T!TransactionObject
  BY DEF T!TypeOK
<1>2. transactions[t].frames \in Seq(Ids)
  BY <1>1 DEF T!TransactionObject
<1> QED BY <1>1, <1>2, SameHelpers DEF T!FramesOf, Range

LEMMA StartType ==
  ASSUME T!TypeOK, NEW tid \in Tids, T!transaction_start(tid)
  PROVE  T!TypeOK' /\ committing' = committing
<1>1. CASE UNCHANGED transactions
  BY <1>1 DEF T!transaction_start, T!TypeOK
<1>2. ASSUME NEW s \in StoredTids,
             transactions' = Append(transactions, [tid |-> tid, stored |-> s, frames |-> <<>>])
      PROVE  T!TypeOK'
  <2>1. [tid |-> tid, stored |-> s, frames |-> <<>>] \in T!TransactionObject
    BY DEF T!TransactionObject
  <2> QED BY <1>2, <2>1 DEF T!transaction_start, T!TypeOK
<1> QED BY <1>1, <1>2 DEF T!transaction_start

(* transaction_add() to a known transaction, in one equation. *)
LEMMA AddIs ==
  ASSUME T!TypeOK, NEW tid, NEW f \in Ids, T!transaction_add(tid, f), T!Known(tid)
  PROVE  /\ T!get_transaction(tid) \in DOMAIN transactions
         /\ transactions' \in Seq(T!TransactionObject)
         /\ DOMAIN transactions' = DOMAIN transactions
         /\ Len(transactions') = Len(transactions)
         /\ \A t \in DOMAIN transactions :
              transactions'[t].frames =
                IF t = T!get_transaction(tid) THEN <<f>> \o transactions[t].frames
                                              ELSE transactions[t].frames
<1> DEFINE n == T!get_transaction(tid)
           new == [transactions[n] EXCEPT !.frames = <<f>> \o transactions[n].frames]
<1>1. n \in 1 .. Len(transactions) /\ transactions \in Seq(T!TransactionObject)
  BY LookupFinds DEF T!TypeOK
<1>2. transactions' = [transactions EXCEPT ![n].frames = <<f>> \o @]
  BY DEF T!transaction_add
<1> HIDE DEF n
<1>3. transactions' = [transactions EXCEPT ![n] = new]
  BY <1>2
<1>4. new \in T!TransactionObject /\ new.frames = <<f>> \o transactions[n].frames
  <2>1. transactions[n] \in T!TransactionObject /\ transactions[n].frames \in Seq(Ids)
    BY <1>1, ObjectType
  <2>2. <<f>> \o transactions[n].frames \in Seq(Ids)
    BY <2>1
  <2>3. \A o \in T!TransactionObject, s \in Seq(Ids) :
          [o EXCEPT !.frames = s] \in T!TransactionObject /\ [o EXCEPT !.frames = s].frames = s
    BY DEF T!TransactionObject
  <2> QED BY <2>1, <2>2, <2>3, Zenon
<1> HIDE DEF new
<1>5. transactions' \in Seq(T!TransactionObject) /\ Len(transactions') = Len(transactions)
  BY <1>1, <1>3, <1>4, ExceptSeq
<1>6. \A t \in DOMAIN transactions : transactions'[t] = IF t = n THEN new ELSE transactions[t]
  BY <1>3
<1>7. ASSUME NEW t \in DOMAIN transactions
      PROVE  transactions'[t].frames =
               IF t = n THEN <<f>> \o transactions[t].frames ELSE transactions[t].frames
  BY <1>4, <1>6
<1>8. DOMAIN transactions' = DOMAIN transactions /\ n \in DOMAIN transactions
  BY <1>1, <1>3
<1> QED BY <1>5, <1>7, <1>8 DEF n

LEMMA AddType ==
  ASSUME T!TypeOK, NEW tid, NEW f \in Ids, T!transaction_add(tid, f)
  PROVE  T!TypeOK' /\ committing' = committing
<1>1. CASE T!Known(tid)
  BY <1>1, AddIs DEF T!transaction_add, T!TypeOK
<1>2. CASE ~T!Known(tid)
  BY <1>2 DEF T!transaction_add, T!TypeOK
<1> QED BY <1>1, <1>2

(* A transaction leaves the list: where the others are then. *)
LEMMA RemoveIs ==
  ASSUME T!TypeOK, NEW n \in 1 .. Len(transactions), transactions' = RemoveAt(transactions, n)
  PROVE  /\ transactions' \in Seq(T!TransactionObject)
         /\ Len(transactions') = Len(transactions) - 1
         /\ \A t \in DOMAIN transactions' :
              transactions'[t] = transactions[IF t < n THEN t ELSE t + 1]
<1>1. transactions \in Seq(T!TransactionObject)
  BY DEF T!TypeOK
<1>2. /\ transactions' \in Seq(T!TransactionObject)
      /\ Len(transactions') = Len(transactions) - 1
      /\ \A k \in 1 .. Len(transactions) - 1 :
           transactions'[k] = IF k < n THEN transactions[k] ELSE transactions[k + 1]
  BY <1>1, RemoveAtIs
<1> QED BY <1>1, <1>2

LEMMA AbortType ==
  ASSUME T!TypeOK, NEW tid, T!transaction_abort(tid)
  PROVE  T!TypeOK' /\ committing' = committing
<1>1. CASE T!Known(tid)
  <2> DEFINE n == T!get_transaction(tid)
  <2>1. n \in 1 .. Len(transactions) /\ n \in DOMAIN transactions
    BY <1>1, LookupFinds DEF T!TypeOK
  <2>2. /\ transactions' = RemoveAt(transactions, n)
        /\ discarded' = discarded \cup T!FramesOf(n)
        /\ committing = 0 /\ UNCHANGED <<committing, ran>>
    BY <1>1, SameHelpers DEF T!transaction_abort, T!Ready
  <2> HIDE DEF n
  <2>3. transactions' \in Seq(T!TransactionObject)
    BY <2>1, <2>2, RemoveIs
  <2>4. T!FramesOf(n) \subseteq Ids
    BY <2>1, ObjectType
  <2> QED BY <2>2, <2>3, <2>4 DEF T!TypeOK
<1>2. CASE ~T!Known(tid)
  BY <1>2 DEF T!transaction_abort, T!TypeOK
<1> QED BY <1>1, <1>2

LEMMA CommitType ==
  ASSUME T!TypeOK, NEW tid, T!transaction_commit(tid)
  PROVE  T!TypeOK' /\ (committing' # 0 <=> T!Known(tid))
<1>1. T!Known(tid) => T!get_transaction(tid) \in 1 .. Len(transactions)
  BY LookupFinds
<1>2. committing' \in 0 .. Len(transactions) /\ (committing' # 0 <=> T!Known(tid))
  BY <1>1 DEF T!transaction_commit, T!TypeOK
<1> QED BY <1>2 DEF T!transaction_commit, T!TypeOK

LEMMA CommitEndsIs ==
  ASSUME T!TypeOK, T!CommitEnds
  PROVE  /\ T!TypeOK' /\ committing' = 0
         /\ committing \in 1 .. Len(transactions)
         /\ transactions[committing].frames = <<>>
         /\ transactions' = RemoveAt(transactions, committing)
         /\ UNCHANGED discarded
<1>1. committing \in 1 .. Len(transactions)
  BY DEF T!TypeOK, T!CommitEnds, T!Ready
<1>2. /\ transactions' = RemoveAt(transactions, committing)
      /\ discarded' = discarded /\ committing' = 0 /\ ran' = ran
      /\ transactions[committing].frames = <<>>
  BY SameHelpers DEF T!CommitEnds, T!FreeCommitted
<1>3. transactions' \in Seq(T!TransactionObject)
  BY <1>1, <1>2, RemoveIs
<1> QED BY <1>1, <1>2, <1>3 DEF T!TypeOK

-----------------------------------------------------------------------------
(* Types. *)
LEMMA TUnchanged == ASSUME T!TypeOK, UNCHANGED tvars PROVE T!TypeOK' /\ committing' = committing
BY DEF T!TypeOK, tvars

(* How a handler ends, or begins to send its reply. *)
HandlerEnds ==
  \/ KeepFrame \/ FreeFrame
  \/ pc' \in {"receipt", "reply", "blocked"} /\ UNCHANGED <<frame, freed>>

LEMMA ReplyType ==
  ASSUME TypeOK, pc # "idle", NEW what, NEW fd, ReplyTo(what, fd)
  PROVE  HandlerEnds /\ \A x \in replies' : x.frame \in DOMAIN sent
<1>1. \A x \in replies : x.frame \in DOMAIN sent
  BY DEF TypeOK
<1>2. PICK new : /\ new = [frame |-> frame, what |-> what, to |-> Owners(fd),
                            stale |-> frame \in freed]
                 /\ new.frame = frame
  <2>1. PICK new : new = [frame |-> frame, what |-> what, to |-> Owners(fd),
                          stale |-> frame \in freed]
    BY Zenon
  <2>2. new.frame = frame
    BY <2>1, Zenon
  <2> QED BY <2>1, <2>2, Zenon
<1>3. replies' = replies \cup {new} /\ pc' \in {"reply", "blocked"} /\ UNCHANGED <<frame, freed>>
  BY <1>2 DEF ReplyTo
<1> QED BY <1>1, <1>2, <1>3, FrameAtHand DEF HandlerEnds

LEMMA RegisterType ==
  ASSUME TypeOK, pc # "idle", NEW kind, NEW name, register_worker(kind, name)
  PROVE  \A x \in registered' : x.frame \in DOMAIN sent
<1>1. \A x \in registered : x.frame \in DOMAIN sent
  BY DEF TypeOK
<1>2. [frame |-> frame, kind |-> kind, name |-> name, sock |-> sent[frame].sock].frame = frame
  OBVIOUS
<1> QED BY <1>1, <1>2, FrameAtHand DEF register_worker

LEMMA ReplyWorkerType ==
  ASSUME TypeOK, pc # "idle", register_reply_worker
  PROVE  \A x \in registered' : x.frame \in DOMAIN sent
<1>1. CASE UNCHANGED registered
  BY <1>1 DEF TypeOK
<1>2. CASE register_worker("reply", <<"name", sent[frame].conn>>)
  BY <1>2, RegisterType
<1> QED BY <1>1, <1>2 DEF register_reply_worker

(* The common end of the handlers. *)
LEMMA HandlerType ==
  ASSUME TypeOK, pc # "idle", UNCHANGED <<connvars, bucket, persisting>>,
         HandlerEnds,
         queued' \in [Dests -> Seq(DOMAIN sent)],
         \A d \in Dests : taken[d] <= Len(queued'[d]),
         \A x \in registered' : x.frame \in DOMAIN sent,
         \A x \in replies' : x.frame \in DOMAIN sent,
         T!TypeOK', committing' = 0
  PROVE  TypeOK'
<1>1. /\ freed' \subseteq DOMAIN sent
      /\ \/ pc' = "idle" /\ frame' = 0
         \/ pc' \in {"receipt", "reply", "blocked"} /\ frame' \in DOMAIN sent
  BY FrameAtHand DEF TypeOK, HandlerEnds, KeepFrame, FreeFrame
<1>2. 0 \notin DOMAIN sent
  BY DEF TypeOK
<1> QED BY <1>1, <1>2 DEF TypeOK, connvars

(* ... of those that have to do with no transaction and no queue. *)
LEMMA PlainType ==
  ASSUME TypeOK, pc = "handle", UNCHANGED <<connvars, bucket, persisting, queued, tvars>>,
         HandlerEnds,
         \A x \in registered' : x.frame \in DOMAIN sent,
         \A x \in replies' : x.frame \in DOMAIN sent
  PROVE  TypeOK'
<1>1. T!TypeOK' /\ committing' = 0
  BY TUnchanged DEF TypeOK
<1>2. queued' \in [Dests -> Seq(DOMAIN sent)] /\ \A d \in Dests : taken[d] <= Len(queued'[d])
  BY DEF TypeOK
<1> QED BY <1>1, <1>2, HandlerType

LEMMA AcceptType == ASSUME TypeOK, NEW c \in Conns, Accept(c) PROVE TypeOK'
<1>1. FreeFd \in 0 .. Cardinality(Conns)
  BY FreeFdIsFree DEF Accept
<1>2. sock' \in [Conns -> 0 .. Cardinality(Conns)]
  BY <1>1 DEF Accept, TypeOK
<1>3. T!TypeOK'
  BY TUnchanged DEF Accept, TypeOK
<1> QED BY <1>2, <1>3 DEF Accept, TypeOK, borders, tvars

LEMMA CloseType == ASSUME TypeOK, NEW c \in Conns, Close(c) PROVE TypeOK'
<1>1. Cardinality(Conns) \in Nat
  BY CommandsAssumption, FS_CardinalityType
<1>2. sock' \in [Conns -> 0 .. Cardinality(Conns)] /\ gone' \subseteq Conns
  BY <1>1 DEF Close, TypeOK
<1>3. T!TypeOK'
  BY TUnchanged DEF Close, TypeOK
<1> QED BY <1>2, <1>3 DEF Close, TypeOK, borders, tvars

LEMMA PushIs ==
  ASSUME TypeOK, NEW c \in Conns, NEW h \in Commands[c], Push(c, h)
  PROVE  /\ sent' \in Seq(FrameObject) /\ Len(sent') = Len(sent) + 1 /\ Len(sent) \in Nat
         /\ DOMAIN sent' = 1 .. Len(sent) + 1 /\ DOMAIN sent = 1 .. Len(sent)
         /\ \A i \in DOMAIN sent : sent'[i] = sent[i]
         /\ sent'[Len(sent) + 1] = [conn |-> c, sock |-> sock[c], h |-> h]
         /\ bucket' = Append(bucket, Len(sent) + 1)
<1> DEFINE new == [conn |-> c, sock |-> sock[c], h |-> h]
<1>1. new \in FrameObject
  <2>1. h \in Headers
    BY CommandsAssumption
  <2>2. sock[c] \in 1 .. Cardinality(Conns)
    <3>1. Cardinality(Conns) \in Nat
      BY CommandsAssumption, FS_CardinalityType
    <3> QED BY <3>1 DEF Push, TypeOK
  <2> QED BY <2>1, <2>2 DEF FrameObject
<1>2. sent' = Append(sent, new) /\ bucket' = Append(bucket, Len(sent'))
  BY DEF Push
<1> HIDE DEF new
<1>3. sent \in Seq(FrameObject)
  BY DEF TypeOK
<1>4. /\ sent' \in Seq(FrameObject) /\ Len(sent') = Len(sent) + 1 /\ Len(sent) \in Nat
      /\ DOMAIN sent' = 1 .. Len(sent) + 1 /\ DOMAIN sent = 1 .. Len(sent)
      /\ \A i \in DOMAIN sent : sent'[i] = sent[i]
      /\ sent'[Len(sent) + 1] = new
  BY <1>1, <1>2, <1>3
<1> QED BY <1>2, <1>4 DEF new

LEMMA PushType ==
  ASSUME TypeOK, NEW c \in Conns, NEW h \in Commands[c], Push(c, h)
  PROVE  TypeOK'
<1>1. DOMAIN sent \subseteq DOMAIN sent' /\ Len(sent) + 1 \in DOMAIN sent'
  <2>1. Len(sent) \in Nat /\ DOMAIN sent' = 1 .. Len(sent) + 1 /\ DOMAIN sent = 1 .. Len(sent)
    BY PushIs
  <2> QED BY <2>1
<1>2. Seq(DOMAIN sent) \subseteq Seq(DOMAIN sent')
  <2>1. \A D, E : D \subseteq E => Seq(D) \subseteq Seq(E)
    BY SeqMonotonic
  <2> QED BY <1>1, <2>1, Zenon
<1>3. bucket' \in Seq(DOMAIN sent')
  <2>1. bucket \in Seq(DOMAIN sent')
    BY <1>2 DEF TypeOK
  <2>2. \A E, e, s : s \in Seq(E) /\ e \in E => Append(s, e) \in Seq(E)
    OBVIOUS
  <2>3. bucket' = Append(bucket, Len(sent) + 1)
    BY PushIs
  <2> QED BY <1>1, <2>1, <2>2, <2>3, Zenon
<1>4. /\ persisting' \in [Dests -> Seq(DOMAIN sent')]
      /\ queued' \in [Dests -> Seq(DOMAIN sent')]
  BY <1>2 DEF TypeOK, Push, borders
<1>5. T!TypeOK' /\ committing' = committing
  BY TUnchanged DEF Push, TypeOK
<1>6. sent' \in Seq(FrameObject) /\ Len(sent') <= MaxFrames
  BY PushIs, CommandsAssumption DEF Push
<1>7. /\ \A x \in registered' \cup replies' : x.frame \in DOMAIN sent'
      /\ freed' \subseteq DOMAIN sent'
      /\ frame' \in DOMAIN sent' \cup {0} /\ frame' = frame /\ pc' = pc
      /\ sock' = sock /\ gone' = gone
  BY <1>1 DEF Push, TypeOK, borders
<1>8. /\ sock' \in [Conns -> 0 .. Cardinality(Conns)] /\ gone' \subseteq Conns
      /\ taken' \in [Dests -> Nat] /\ \A d \in Dests : taken'[d] <= Len(queued'[d])
  BY DEF Push, TypeOK, borders
<1>9. pc' = pc /\ frame' = frame /\ frame' \in DOMAIN sent' \cup {0}
  BY <1>1 DEF Push, TypeOK
<1> QED BY <1>3, <1>4, <1>5, <1>6, <1>7, <1>8, <1>9 DEF TypeOK

LEMMA TakeType == ASSUME TypeOK, get_frame_from_bucket PROVE TypeOK'
<1>1. Head(bucket) \in DOMAIN sent /\ Tail(bucket) \in Seq(DOMAIN sent) /\ 0 \notin DOMAIN sent
  BY DEF TypeOK, get_frame_from_bucket
<1>2. T!TypeOK' /\ committing' = committing
  BY TUnchanged DEF get_frame_from_bucket, TypeOK
<1> QED BY <1>1, <1>2 DEF TypeOK, get_frame_from_bucket, connvars, borders

(* The handlers of SEND. *)
LEMMA SendInvalidType == ASSUME TypeOK, SendInvalid PROVE TypeOK'
<1>1. /\ pc = "handle" /\ UNCHANGED <<connvars, bucket, persisting, queued, tvars>>
      /\ \E what, fd : ReplyTo(what, fd)
  BY DEF SendInvalid, Handling, Reply
<1>2. \A x \in registered' : x.frame \in DOMAIN sent
  BY DEF SendInvalid, TypeOK
<1>3. HandlerEnds /\ \A x \in replies' : x.frame \in DOMAIN sent
  BY <1>1, ReplyType
<1> QED BY <1>1, <1>2, <1>3, PlainType

LEMMA SendNowhereType == ASSUME TypeOK, SendNowhere PROVE TypeOK'
<1>1. /\ pc = "handle" /\ UNCHANGED <<connvars, bucket, persisting, queued, tvars>>
      /\ \E what, fd : ReplyTo(what, fd)
  BY DEF SendNowhere, Handling, Reply
<1>2. \A x \in registered' : x.frame \in DOMAIN sent
  BY <1>1, ReplyWorkerType DEF SendNowhere
<1>3. HandlerEnds /\ \A x \in replies' : x.frame \in DOMAIN sent
  BY <1>1, ReplyType
<1> QED BY <1>1, <1>2, <1>3, PlainType

(* What is appended to a queue or to what persist_frame() was given. *)
LEMMA AppendType ==
  ASSUME NEW D, NEW f \in [Dests -> Seq(D)], NEW d \in Dests, NEW x \in D
  PROVE  /\ [f EXCEPT ![d] = Append(@, x)] \in [Dests -> Seq(D)]
         /\ [f EXCEPT ![d] = Append(@, x)][d] = Append(f[d], x)
         /\ \A e \in Dests : e # d => [f EXCEPT ![d] = Append(@, x)][e] = f[e]
<1>1. Append(f[d], x) \in Seq(D)
  OBVIOUS
<1> QED BY <1>1

LEMMA SendPersistType == ASSUME TypeOK, SendPersist PROVE TypeOK'
<1>1. pc = "handle"
  BY DEF SendPersist, SendValid
<1>2. Hdr.dest \in Dests /\ frame \in DOMAIN sent
  BY <1>1, FrameAtHand DEF SendPersist, SendValid, Kept
<1>3. persisting' \in [Dests -> Seq(DOMAIN sent)]
  <2> DEFINE D == DOMAIN sent
  <2>1. persisting \in [Dests -> Seq(D)] /\ frame \in D
    BY <1>2 DEF TypeOK
  <2>2. persisting' = [persisting EXCEPT ![Hdr.dest] = Append(@, frame)]
    BY DEF SendPersist
  <2> HIDE DEF D
  <2>3. persisting' \in [Dests -> Seq(D)]
    BY <1>2, <2>1, <2>2, AppendType
  <2> QED BY <2>3 DEF D
<1>4. \A x \in registered' : x.frame \in DOMAIN sent
  BY <1>1, ReplyWorkerType DEF SendPersist
<1>5. T!TypeOK' /\ committing' = committing
  BY TUnchanged DEF SendPersist, TypeOK
<1>6. UNCHANGED <<sock, gone, sent, taken, bucket, frame, queued, replies, freed>> /\ pc' = "enqueue"
  BY DEF SendPersist, connvars
<1> QED BY <1>1, <1>2, <1>3, <1>4, <1>5, <1>6 DEF TypeOK

LEMMA SendEnqueueType ==
  ASSUME TypeOK, SendEnqueue, Hdr.dest \in Dests
  PROVE  TypeOK'
<1>1. pc # "idle" /\ frame \in DOMAIN sent
  BY FrameAtHand DEF SendEnqueue
<1>2. queued' \in [Dests -> Seq(DOMAIN sent)] /\ \A d \in Dests : taken[d] <= Len(queued'[d])
  <2>1. PICK D : D = DOMAIN sent
    OBVIOUS
  <2>2. PICK e \in Dests : e = Hdr.dest
    OBVIOUS
  <2>3. queued \in [Dests -> Seq(D)] /\ frame \in D
    BY <1>1, <2>1 DEF TypeOK
  <2>4. queued' = [queued EXCEPT ![e] = Append(@, frame)]
    BY <2>2 DEF SendEnqueue
  <2>5. queued' \in [Dests -> Seq(D)]
    BY <2>3, <2>4, AppendType
  <2>6. queued'[e] = Append(queued[e], frame) /\ \A d \in Dests : d # e => queued'[d] = queued[d]
    BY <2>3, <2>4, AppendType
  <2>7. \A d \in Dests : Len(queued[d]) \in Nat /\ taken[d] \in Nat /\ taken[d] <= Len(queued[d])
    BY <2>3 DEF TypeOK
  <2>8. Len(queued'[e]) = Len(queued[e]) + 1
    BY <2>3, <2>6
  <2>9. \A d \in Dests : taken[d] <= Len(queued'[d])
    BY <2>6, <2>7, <2>8
  <2> QED BY <2>1, <2>5, <2>9
<1>3. \A x \in registered' : x.frame \in DOMAIN sent
  BY DEF SendEnqueue, TypeOK
<1>4. \A x \in replies' : x.frame \in DOMAIN sent
  BY DEF SendEnqueue, TypeOK
<1>5. T!TypeOK' /\ committing' = 0
  BY TUnchanged DEF SendEnqueue, TypeOK
<1>6. HandlerEnds /\ UNCHANGED <<connvars, bucket, persisting>>
  BY DEF SendEnqueue, HandlerEnds
<1> QED BY <1>1, <1>2, <1>3, <1>4, <1>5, <1>6, HandlerType

LEMMA SendReceiptType == ASSUME TypeOK, SendReceipt PROVE TypeOK'
<1>1. pc # "idle" /\ UNCHANGED <<connvars, bucket, persisting, queued, registered, tvars>>
  BY DEF SendReceipt
<1>2. queued' \in [Dests -> Seq(DOMAIN sent)] /\ \A d \in Dests : taken[d] <= Len(queued'[d])
  BY <1>1 DEF TypeOK
<1>3. HandlerEnds /\ \A x \in replies' : x.frame \in DOMAIN sent
  BY <1>1, ReplyType DEF SendReceipt
<1>4. \A x \in registered' : x.frame \in DOMAIN sent
  BY <1>1 DEF TypeOK
<1>5. T!TypeOK' /\ committing' = 0
  BY <1>1, TUnchanged DEF SendReceipt, TypeOK
<1> QED BY <1>1, <1>2, <1>3, <1>4, <1>5, HandlerType

LEMMA SendTransactionType == ASSUME TypeOK, SendTransaction PROVE TypeOK'
<1>1. pc = "handle" /\ frame \in Ids
  BY FrameAtHand DEF SendTransaction, SendValid
<1>2. queued' \in [Dests -> Seq(DOMAIN sent)] /\ \A d \in Dests : taken[d] <= Len(queued'[d])
  BY DEF SendTransaction, TypeOK
<1>3. \A x \in registered' : x.frame \in DOMAIN sent
  BY <1>1, ReplyWorkerType DEF SendTransaction
<1>4. HandlerEnds /\ \A x \in replies' : x.frame \in DOMAIN sent
  <2>1. CASE KeepFrame /\ UNCHANGED replies
    BY <2>1 DEF HandlerEnds, TypeOK
  <2>2. CASE Reply("RECEIPT")
    BY <1>1, <2>2, ReplyType DEF Reply
  <2> QED BY <2>1, <2>2 DEF SendTransaction
<1>5. T!TypeOK' /\ committing' = 0
  <2>1. T!TypeOK /\ T!transaction_add(Hdr.tid, frame) /\ committing = 0
    BY <1>1 DEF SendTransaction, TypeOK
  <2> QED BY <1>1, <2>1, AddType
<1>6. UNCHANGED <<connvars, bucket, persisting>>
  BY DEF SendTransaction
<1> QED BY <1>1, <1>2, <1>3, <1>4, <1>5, <1>6, HandlerType

(* BEGIN, COMMIT and ABORT. *)
LEMMA RefusedType == ASSUME TypeOK, TransactionRefused PROVE TypeOK'
<1>1. /\ pc = "handle" /\ UNCHANGED <<connvars, bucket, persisting, queued, tvars>>
      /\ \E what, fd : ReplyTo(what, fd)
  BY DEF TransactionRefused, Handling, Reply
<1>2. \A x \in registered' : x.frame \in DOMAIN sent
  BY DEF TransactionRefused, TypeOK
<1>3. HandlerEnds /\ \A x \in replies' : x.frame \in DOMAIN sent
  BY <1>1, ReplyType
<1> QED BY <1>1, <1>2, <1>3, PlainType

(* The end of a handler that sends nothing and registers nothing. *)
LEMMA QuietType ==
  ASSUME TypeOK, pc # "idle", HandlerEnds, UNCHANGED <<connvars, bucket, borders>>,
         T!TypeOK', committing' = 0
  PROVE  TypeOK'
<1>1. queued' \in [Dests -> Seq(DOMAIN sent)] /\ \A d \in Dests : taken[d] <= Len(queued'[d])
  BY DEF borders, TypeOK
<1>2. /\ \A x \in registered' : x.frame \in DOMAIN sent
      /\ \A x \in replies' : x.frame \in DOMAIN sent
  BY DEF borders, TypeOK
<1>3. UNCHANGED <<connvars, bucket, persisting>>
  BY DEF borders
<1> QED BY <1>1, <1>2, <1>3, HandlerType

LEMMA BeginType == ASSUME TypeOK, handler_stomp_begin PROVE TypeOK'
<1>1. pc = "handle" /\ Hdr.tid \in Tids
  BY FrameAtHand DEF handler_stomp_begin, WithTid, Handling
<1>2. T!TypeOK' /\ committing' = 0
  <2>1. T!TypeOK /\ T!transaction_start(Hdr.tid) /\ committing = 0
    BY <1>1 DEF handler_stomp_begin, TypeOK
  <2> QED BY <1>1, <2>1, StartType
<1> QED BY <1>1, <1>2, QuietType DEF HandlerEnds, handler_stomp_begin

LEMMA AbortHandlerType == ASSUME TypeOK, handler_stomp_abort PROVE TypeOK'
<1>1. pc = "handle"
  BY DEF handler_stomp_abort, WithTid, Handling
<1>2. T!TypeOK' /\ committing' = 0
  <2>1. T!TypeOK /\ T!transaction_abort(Hdr.tid) /\ committing = 0
    BY <1>1 DEF handler_stomp_abort, TypeOK
  <2> QED BY <2>1, AbortType
<1> QED BY <1>1, <1>2, QuietType DEF HandlerEnds, handler_stomp_abort

LEMMA CommitHandlerType == ASSUME TypeOK, handler_stomp_commit PROVE TypeOK'
<1>1. pc = "handle"
  BY DEF handler_stomp_commit, WithTid, Handling
<1>2. T!TypeOK' /\ (committing' # 0 <=> T!Known(Hdr.tid))
  <2>1. T!TypeOK /\ T!transaction_commit(Hdr.tid)
    BY DEF handler_stomp_commit, TypeOK
  <2> QED BY <2>1, CommitType
<1>3. CASE ~T!Known(Hdr.tid)
  BY <1>1, <1>2, <1>3, QuietType DEF HandlerEnds, handler_stomp_commit
<1>4. CASE T!Known(Hdr.tid)
  <2>1. pc' = "commit" /\ UNCHANGED <<frame, freed>> /\ UNCHANGED <<connvars, bucket, borders>>
    BY <1>4 DEF handler_stomp_commit
  <2> QED BY <1>1, <1>2, <1>4, <2>1 DEF TypeOK, connvars, borders
<1> QED BY <1>3, <1>4

LEMMA CommitReturnType == ASSUME TypeOK, CommitReturn PROVE TypeOK'
<1>1. T!TypeOK' /\ committing' = 0
  BY CommitEndsIs DEF TypeOK, CommitReturn
<1> QED BY <1>1, QuietType DEF HandlerEnds, CommitReturn

(* The other commands. *)
LEMMA ConnectType == ASSUME TypeOK, handler_stomp_connect PROVE TypeOK'
<1>1. /\ pc = "handle" /\ UNCHANGED <<connvars, bucket, persisting, queued, tvars>>
      /\ \E what, fd : ReplyTo(what, fd)
  BY DEF handler_stomp_connect, Handling, Reply
<1>2. \A x \in registered' : x.frame \in DOMAIN sent
  BY DEF handler_stomp_connect, TypeOK
<1>3. HandlerEnds /\ \A x \in replies' : x.frame \in DOMAIN sent
  BY <1>1, ReplyType
<1> QED BY <1>1, <1>2, <1>3, PlainType

LEMMA DisconnectType == ASSUME TypeOK, handler_stomp_disconnect PROVE TypeOK'
<1>1. pc = "handle" /\ UNCHANGED <<connvars, bucket, persisting, queued, tvars>>
  BY DEF handler_stomp_disconnect, Handling
<1>2. \A x \in registered' : x.frame \in DOMAIN sent
  BY DEF handler_stomp_disconnect, TypeOK
<1>3. HandlerEnds /\ \A x \in replies' : x.frame \in DOMAIN sent
  <2>1. CASE FreeFrame /\ UNCHANGED replies
    BY <2>1 DEF HandlerEnds, TypeOK
  <2>2. CASE \E what : Reply(what)
    BY <1>1, <2>2, ReplyType DEF Reply
  <2> QED BY <2>1, <2>2 DEF handler_stomp_disconnect
<1> QED BY <1>1, <1>2, <1>3, PlainType

LEMMA SubscribeType == ASSUME TypeOK, handler_stomp_subscribe PROVE TypeOK'
<1>1. pc = "handle" /\ UNCHANGED <<connvars, bucket, persisting, queued, tvars>>
  BY DEF handler_stomp_subscribe, Handling
<1>2. CASE Reply("ERROR") /\ UNCHANGED registered
  <2>1. \A x \in registered' : x.frame \in DOMAIN sent
    BY <1>2 DEF TypeOK
  <2>2. HandlerEnds /\ \A x \in replies' : x.frame \in DOMAIN sent
    BY <1>1, <1>2, ReplyType DEF Reply
  <2> QED BY <1>1, <2>1, <2>2, PlainType
<1>3. ASSUME NEW kind, register_worker(kind, Hdr.dest), FreeFrame, UNCHANGED replies PROVE TypeOK'
  <2>1. \A x \in registered' : x.frame \in DOMAIN sent
    BY <1>1, <1>3, RegisterType
  <2>2. HandlerEnds /\ \A x \in replies' : x.frame \in DOMAIN sent
    BY <1>3 DEF TypeOK, HandlerEnds
  <2> QED BY <1>1, <2>1, <2>2, PlainType
<1> QED BY <1>2, <1>3 DEF handler_stomp_subscribe

LEMMA ReturnsType == ASSUME TypeOK, SendReturns \/ Unblock PROVE TypeOK'
<1>1. pc # "idle" /\ HandlerEnds /\ UNCHANGED <<connvars, bucket, borders, tvars>>
  BY DEF SendReturns, Unblock, HandlerEnds
<1>2. T!TypeOK' /\ committing' = 0
  BY <1>1, TUnchanged DEF TypeOK, SendReturns, Unblock
<1> QED BY <1>1, <1>2, QuietType

LEMMA MulticastIs ==
  ASSUME TypeOK, NEW d \in Dests, multicast_worker(d)
  PROVE  /\ d \in Topics /\ taken[d] \in Nat /\ Len(queued[d]) \in Nat
         /\ taken[d] + 1 \in DOMAIN queued[d] /\ queued[d][taken[d] + 1] \in DOMAIN sent
         /\ freed' = freed \cup {queued[d][taken[d] + 1]}
         /\ taken'[d] = taken[d] + 1 /\ taken' \in [Dests -> Nat]
         /\ \A e \in Dests : e # d => taken'[e] = taken[e]
         /\ UNCHANGED <<sock, gone, sent, bucket, pc, frame, borders, tvars>>
<1>1. /\ d \in Topics /\ taken[d] < Len(queued[d]) /\ taken' = [taken EXCEPT ![d] = @ + 1]
      /\ freed' = freed \cup {queued[d][taken[d] + 1]}
      /\ UNCHANGED <<sock, gone, sent, bucket, pc, frame, borders, tvars>>
  BY DEF multicast_worker
<1>2. taken \in [Dests -> Nat] /\ queued[d] \in Seq(DOMAIN sent)
  BY DEF TypeOK
<1>3. taken[d] \in Nat /\ Len(queued[d]) \in Nat /\ taken[d] + 1 \in DOMAIN queued[d]
  BY <1>1, <1>2
<1>4. queued[d][taken[d] + 1] \in DOMAIN sent
  BY <1>2, <1>3
<1>5. /\ taken'[d] = taken[d] + 1 /\ taken' \in [Dests -> Nat]
      /\ \A e \in Dests : e # d => taken'[e] = taken[e]
  BY <1>1, <1>2
<1> QED BY <1>1, <1>3, <1>4, <1>5

LEMMA MulticastType ==
  ASSUME TypeOK, NEW d \in Dests, multicast_worker(d)
  PROVE  TypeOK'
<1>1. /\ freed' \subseteq DOMAIN sent /\ taken' \in [Dests -> Nat]
      /\ UNCHANGED <<sock, gone, sent, bucket, pc, frame, borders, tvars>>
  BY MulticastIs DEF TypeOK
<1>2. \A e \in Dests : taken'[e] <= Len(queued[e])
  <2>1. taken[d] \in Nat /\ Len(queued[d]) \in Nat /\ taken[d] + 1 \in 1 .. Len(queued[d])
    <3>1. queued[d] \in Seq(DOMAIN sent)
      BY DEF TypeOK
    <3> QED BY <3>1, MulticastIs
  <2>2. taken'[d] <= Len(queued[d])
    BY <2>1, MulticastIs
  <2>3. \A e \in Dests : e # d => taken'[e] <= Len(queued[e])
    BY MulticastIs DEF TypeOK
  <2> QED BY <2>2, <2>3
<1>3. T!TypeOK'
  BY <1>1, TUnchanged DEF TypeOK
<1> QED BY <1>1, <1>2, <1>3 DEF TypeOK, borders, tvars

LEMMA NothingType ==
  ASSUME TypeOK, handler_stomp_unsubscribe \/ handler_stomp_ack \/ handler_stomp_nack
  PROVE  TypeOK'
<1>1. pc = "handle" /\ HandlerEnds /\ UNCHANGED <<connvars, bucket, borders, tvars>>
  BY DEF handler_stomp_unsubscribe, handler_stomp_ack, handler_stomp_nack, Handling, HandlerEnds
<1>2. T!TypeOK' /\ committing' = 0
  BY <1>1, TUnchanged DEF TypeOK
<1> QED BY <1>1, <1>2, QuietType

-----------------------------------------------------------------------------
(***************************************************************************)
(* The bucket, the queues and what persist_frame() was given: the frame    *)
(* numbers grow along the bucket, the frame at hand is older than the      *)
(* bucket and, until it is given away, younger than every queued one, and  *)
(* persist_frame() is ahead of enqueue() by the frame at hand, for its     *)
(* destination, or not at all.                                             *)
(***************************************************************************)
BucketInv == Growing(bucket) /\ \A k \in DOMAIN bucket : frame < bucket[k]
QueueInv ==
  \A d \in Dests :
    /\ Growing(queued[d])
    /\ \A k \in DOMAIN queued[d] :
         /\ InHand # 0 => queued[d][k] < InHand
         /\ \A m \in DOMAIN bucket : queued[d][k] < bucket[m]
KeptInv == pc \in {"enqueue", "receipt"} => Kept
PersistInv ==
  \A d \in Dests :
    persisting[d] = IF pc = "enqueue" /\ d = Hdr.dest THEN Append(queued[d], frame)
                                                      ELSE queued[d]
OrderInv == BucketInv /\ QueueInv /\ KeptInv /\ PersistInv

(* The destination of a frame that is given away. *)
LEMMA KeptDest == ASSUME TypeOK, pc # "idle", Kept PROVE Hdr.dest \in Dests
BY FrameAtHand DEF Kept

(* Whose the frame at hand is, as long as nothing that tells changes. *)
LEMMA SameHand ==
  ASSUME UNCHANGED <<sent, frame, pc>>
  PROVE  Hdr' = Hdr /\ (Kept' <=> Kept) /\ InHand' = InHand
<1>1. Hdr' = Hdr
  BY DEF Hdr
<1>2. Kept' <=> Kept
  BY <1>1 DEF Kept, TooLong
<1>3. Borrowed' <=> Borrowed
  BY <1>2 DEF Borrowed
<1> QED BY <1>1, <1>2, <1>3 DEF InHand

LEMMA NextType == ASSUME TypeOK, KeptInv, [Next]_vars PROVE TypeOK'
<1>1. CASE UNCHANGED vars
  <2>1. T!TypeOK'
    BY <1>1, TUnchanged DEF vars, TypeOK
  <2> QED BY <1>1, <2>1 DEF vars, connvars, borders, tvars, TypeOK
<1>2. CASE \E c \in Conns : Accept(c) \/ Close(c) \/ \E h \in Commands[c] : Push(c, h)
  BY <1>2, AcceptType, CloseType, PushType
<1>3. CASE get_frame_from_bucket \/ Unblock \/ \E d \in Dests : multicast_worker(d)
  BY <1>3, TakeType, ReturnsType, MulticastType
<1>4. CASE handle_frame
  <2>1. CASE SendInvalid \/ SendNowhere \/ SendPersist \/ SendTransaction
    BY <2>1, SendInvalidType, SendNowhereType, SendPersistType, SendTransactionType
  <2>2. CASE SendEnqueue \/ SendReceipt \/ SendReturns
    BY <2>2, KeptDest, SendEnqueueType, SendReceiptType, ReturnsType DEF SendEnqueue, KeptInv
  <2>3. CASE TransactionRefused \/ handler_stomp_begin \/ handler_stomp_abort
             \/ handler_stomp_commit \/ CommitReturn
    BY <2>3, RefusedType, BeginType, AbortHandlerType, CommitHandlerType, CommitReturnType
  <2>4. CASE handler_stomp_connect \/ handler_stomp_disconnect \/ handler_stomp_subscribe
    BY <2>4, ConnectType, DisconnectType, SubscribeType
  <2>5. CASE handler_stomp_unsubscribe \/ handler_stomp_ack \/ handler_stomp_nack
    BY <2>5, NothingType
  <2> QED BY <1>4, <2>1, <2>2, <2>3, <2>4, <2>5 DEF handle_frame
<1> QED BY <1>1, <1>2, <1>3, <1>4 DEF Next, stomp_management_worker

(* What the handlers do to the bucket and the queues, and to the frame. *)
LEMMA HandlersLeave ==
  ASSUME \/ SendInvalid \/ SendNowhere \/ SendTransaction \/ TransactionRefused
         \/ handler_stomp_begin \/ handler_stomp_abort \/ handler_stomp_commit \/ CommitReturn
         \/ handler_stomp_connect \/ handler_stomp_disconnect \/ handler_stomp_subscribe
         \/ handler_stomp_unsubscribe \/ handler_stomp_ack \/ handler_stomp_nack
  PROVE  /\ UNCHANGED <<sock, gone, sent, taken, bucket, persisting, queued>>
         /\ pc \in {"handle", "commit"} /\ pc' \notin {"enqueue", "receipt"}
         /\ frame' = frame \/ frame' = 0
<1>1. CASE SendInvalid \/ SendNowhere \/ SendTransaction \/ TransactionRefused
           \/ handler_stomp_connect \/ handler_stomp_disconnect \/ handler_stomp_subscribe
  BY <1>1 DEF SendInvalid, SendNowhere, SendTransaction, TransactionRefused,
     handler_stomp_connect, handler_stomp_disconnect, handler_stomp_subscribe, SendValid,
     Handling, KeepFrame, FreeFrame, Reply, ReplyTo, connvars
<1>2. CASE handler_stomp_begin \/ handler_stomp_abort \/ handler_stomp_commit \/ CommitReturn
           \/ handler_stomp_unsubscribe \/ handler_stomp_ack \/ handler_stomp_nack
  BY <1>2 DEF handler_stomp_begin, handler_stomp_abort, handler_stomp_commit, CommitReturn,
     handler_stomp_unsubscribe, handler_stomp_ack, handler_stomp_nack, WithTid, Handling,
     FreeFrame, connvars, borders
<1> QED BY <1>1, <1>2

(* The end of a reply: the frame stays with whom it was given to. *)
LEMMA RepliesLeave ==
  ASSUME KeptInv, SendReceipt \/ SendReturns \/ Unblock
  PROVE  /\ UNCHANGED <<sock, gone, sent, taken, bucket, persisting, queued, tvars>>
         /\ pc \in {"receipt", "reply", "blocked"} /\ pc' \notin {"enqueue", "receipt"}
         /\ frame' = frame \/ frame' = 0
         /\ InHand' = InHand \/ InHand' = 0
         /\ \/ freed' = freed /\ InHand' = InHand
            \/ freed' = freed \cup {InHand} /\ InHand' = 0
<1>1. CASE SendReceipt \/ Unblock
  <2>1. /\ UNCHANGED <<sock, gone, sent, taken, bucket, persisting, queued, tvars, frame, freed>>
        /\ pc \in {"receipt", "blocked"} /\ pc' \in {"reply", "blocked"}
    BY <1>1 DEF SendReceipt, Unblock, ReplyTo, connvars, borders
  <2>2. Hdr' = Hdr
    BY <2>1 DEF Hdr
  <2>3. Kept' <=> Kept
    BY <2>2 DEF Kept, TooLong
  <2>4. InHand' = InHand
    BY <2>1, <2>3 DEF InHand, Borrowed, KeptInv
  <2> QED BY <2>1, <2>4
<1>2. CASE SendReturns
  <2>1. /\ UNCHANGED <<sock, gone, sent, taken, bucket, persisting, queued, tvars>>
        /\ pc = "reply" /\ pc' = "idle" /\ frame' = 0
        /\ Kept => freed' = freed
        /\ ~Kept => freed' = freed \cup {frame}
    BY <1>2 DEF SendReturns, KeepFrame, FreeFrame, connvars, borders
  <2>2. InHand' = 0
    BY <2>1 DEF InHand, Borrowed
  <2>3. (Kept => InHand = 0) /\ (~Kept => InHand = frame)
    BY <2>1 DEF InHand, Borrowed
  <2> QED BY <2>1, <2>2, <2>3
<1> QED BY <1>1, <1>2

LEMMA LeaveOrder ==
  ASSUME TypeOK, OrderInv, UNCHANGED <<sent, bucket, persisting, queued>>,
         pc # "enqueue", pc' \notin {"enqueue", "receipt"}, frame' = frame \/ frame' = 0,
         InHand' = InHand \/ InHand' = 0
  PROVE  OrderInv'
<1>1. \A k \in DOMAIN bucket : bucket[k] \in DOMAIN sent /\ 0 < bucket[k]
  BY DEF TypeOK
<1>2. BucketInv'
  BY <1>1 DEF OrderInv, BucketInv, Growing
<1>3. QueueInv'
  BY DEF OrderInv, QueueInv, Growing
<1>4. KeptInv' /\ PersistInv'
  BY DEF OrderInv, KeptInv, PersistInv
<1> QED BY <1>2, <1>3, <1>4 DEF OrderInv

(* Nothing that OrderInv speaks of changes. *)
LEMMA SameOrder ==
  ASSUME OrderInv, UNCHANGED <<sent, bucket, persisting, queued, pc, frame>>
  PROVE  OrderInv'
<1>1. Hdr' = Hdr /\ (Kept' <=> Kept) /\ InHand' = InHand
  BY SameHand
<1> QED BY <1>1 DEF OrderInv, BucketInv, QueueInv, KeptInv, PersistInv, Growing

(* A new frame is not the one at hand. *)
LEMMA PushHand ==
  ASSUME TypeOK, NEW c \in Conns, NEW h \in Commands[c], Push(c, h)
  PROVE  InHand' = InHand /\ (pc # "idle" => Hdr' = Hdr /\ (Kept' <=> Kept))
<1>1. pc' = pc /\ frame' = frame
  BY DEF Push
<1>2. CASE pc = "idle"
  BY <1>1, <1>2 DEF InHand, Borrowed
<1>3. CASE pc # "idle"
  <2>1. frame \in DOMAIN sent
    BY <1>3, FrameAtHand
  <2>2. Hdr' = Hdr
    BY <1>1, <2>1, PushIs DEF Hdr
  <2>3. Kept' <=> Kept
    BY <2>2 DEF Kept, TooLong
  <2> QED BY <1>1, <2>2, <2>3 DEF InHand, Borrowed
<1> QED BY <1>2, <1>3

LEMMA PushOrder ==
  ASSUME TypeOK, OrderInv, NEW c \in Conns, NEW h \in Commands[c], Push(c, h)
  PROVE  OrderInv'
<1> DEFINE n == Len(sent) + 1
<1>1. n \in Nat /\ DOMAIN sent = 1 .. n - 1 /\ bucket' = Append(bucket, n)
  <2>1. Len(sent) \in Nat /\ DOMAIN sent = 1 .. Len(sent) /\ bucket' = Append(bucket, Len(sent) + 1)
    BY PushIs
  <2> QED BY <2>1
<1>2. bucket \in Seq(Nat) /\ frame \in Nat /\ frame < n /\ \A k \in DOMAIN bucket : bucket[k] < n
  <2>1. bucket \in Seq(1 .. n - 1)
    BY <1>1 DEF TypeOK
  <2> QED BY <1>1, <2>1 DEF TypeOK
<1>3. UNCHANGED <<persisting, queued, pc, frame>>
  BY DEF Push, borders
<1> HIDE DEF n
<1>4. /\ Growing(bucket')
      /\ \A k \in DOMAIN bucket' : bucket'[k] = n \/ \E m \in DOMAIN bucket : bucket'[k] = bucket[m]
  <2>1. Growing(bucket)
    BY DEF OrderInv, BucketInv
  <2> QED BY <1>1, <1>2, <2>1, AppendGrows
<1>5. BucketInv'
  BY <1>2, <1>3, <1>4 DEF OrderInv, BucketInv
<1>6. QueueInv'
  <2> SUFFICES ASSUME NEW d \in Dests
               PROVE  /\ Growing(queued[d])
                      /\ \A k \in DOMAIN queued[d] :
                           /\ InHand # 0 => queued[d][k] < InHand
                           /\ \A m \in DOMAIN bucket' : queued[d][k] < bucket'[m]
    BY <1>3, PushHand DEF QueueInv, Growing
  <2>1. \A k \in DOMAIN queued[d] : queued[d][k] < n
    BY <1>1 DEF TypeOK
  <2> QED BY <1>4, <2>1 DEF OrderInv, QueueInv
<1>8. KeptInv' /\ PersistInv'
  BY <1>3, PushHand DEF OrderInv, KeptInv, PersistInv
<1> QED BY <1>5, <1>6, <1>8 DEF OrderInv

LEMMA TakeOrder == ASSUME TypeOK, OrderInv, get_frame_from_bucket PROVE OrderInv'
<1>1. /\ frame' = bucket[1] /\ pc = "idle" /\ pc' = "handle"
      /\ UNCHANGED <<sent, persisting, queued>>
      /\ 1 \in DOMAIN bucket
      /\ DOMAIN bucket' = 1 .. Len(bucket) - 1 /\ Len(bucket) \in Nat
      /\ DOMAIN bucket = 1 .. Len(bucket)
      /\ \A k \in DOMAIN bucket' : bucket'[k] = bucket[k + 1]
  <2>1. /\ pc = "idle" /\ pc' = "handle" /\ UNCHANGED <<sent, persisting, queued>>
        /\ bucket # <<>> /\ frame' = Head(bucket) /\ bucket' = Tail(bucket)
    BY DEF get_frame_from_bucket, connvars, borders
  <2>2. bucket \in Seq(DOMAIN sent)
    BY DEF TypeOK
  <2>3. Len(bucket) \in Nat \ {0} /\ DOMAIN bucket = 1 .. Len(bucket) /\ Head(bucket) = bucket[1]
    BY <2>1, <2>2, EmptySeq, LenProperties
  <2>4. /\ DOMAIN Tail(bucket) = 1 .. Len(bucket) - 1
        /\ \A k \in 1 .. Len(bucket) - 1 : Tail(bucket)[k] = bucket[k + 1]
    BY <2>1, <2>2, HeadTailProperties, LenProperties
  <2> QED BY <2>1, <2>3, <2>4
<1>2. BucketInv'
  <2>1. \A j \in DOMAIN bucket' : j + 1 \in DOMAIN bucket /\ \A i \in 1 .. j - 1 : i + 1 \in 1 .. j
    BY <1>1
  <2>2. Growing(bucket')
    <3> SUFFICES ASSUME NEW j \in DOMAIN bucket', NEW i \in 1 .. j - 1
                 PROVE  bucket'[i] < bucket'[j]
      BY DEF Growing
    <3>1. bucket[i + 1] < bucket[j + 1]
      BY <1>1, <2>1 DEF OrderInv, BucketInv, Growing
    <3> QED BY <1>1, <3>1
  <2>3. \A k \in DOMAIN bucket' : bucket[1] < bucket'[k]
    <3> SUFFICES ASSUME NEW k \in DOMAIN bucket' PROVE bucket[1] < bucket'[k]
      OBVIOUS
    <3>1. bucket[1] < bucket[k + 1]
      BY <1>1, <2>1 DEF OrderInv, BucketInv, Growing
    <3> QED BY <1>1, <3>1
  <2> QED BY <1>1, <2>2, <2>3 DEF BucketInv
<1>5. InHand' = frame'
  BY <1>1 DEF InHand, Borrowed
<1>3. QueueInv'
  BY <1>1, <1>5 DEF OrderInv, QueueInv, Growing
<1>4. KeptInv' /\ PersistInv'
  BY <1>1 DEF OrderInv, KeptInv, PersistInv
<1> QED BY <1>2, <1>3, <1>4 DEF OrderInv

LEMMA PersistOrder == ASSUME TypeOK, OrderInv, SendPersist PROVE OrderInv'
<1>1. pc = "handle" /\ pc' = "enqueue" /\ UNCHANGED <<sent, bucket, queued, frame>>
  BY DEF SendPersist, SendValid, connvars
<1>5. Hdr' = Hdr /\ Kept
  BY <1>1 DEF SendPersist, SendValid, Hdr
<1>2. Hdr.dest \in Dests /\ Hdr' = Hdr /\ Kept'
  BY <1>1, <1>5, KeptDest DEF Kept, TooLong
<1>6. InHand' = InHand
  BY <1>1 DEF InHand, Borrowed
<1>3. BucketInv' /\ QueueInv' /\ KeptInv'
  BY <1>1, <1>2, <1>6 DEF OrderInv, BucketInv, QueueInv, KeptInv, Growing
<1>4. PersistInv'
  <2>1. persisting' = [persisting EXCEPT ![Hdr.dest] = Append(@, frame)]
    BY DEF SendPersist
  <2>2. persisting \in [Dests -> Seq(DOMAIN sent)]
    BY DEF TypeOK
  <2>3. \A d \in Dests : persisting[d] = queued[d]
    BY <1>1 DEF OrderInv, PersistInv
  <2>4. \A d \in Dests : persisting'[d] = IF d = Hdr.dest THEN Append(queued[d], frame) ELSE queued[d]
    BY <1>2, <2>1, <2>2, <2>3
  <2> QED BY <1>1, <1>2, <2>4 DEF PersistInv
<1> QED BY <1>3, <1>4 DEF OrderInv

LEMMA EnqueueOrder == ASSUME TypeOK, OrderInv, SendEnqueue PROVE OrderInv'
<1>1. /\ pc = "enqueue"
      /\ \/ pc' = "idle" /\ frame' = 0
         \/ pc' = "receipt" /\ frame' = frame
      /\ UNCHANGED <<sent, bucket, persisting>>
      /\ queued' = [queued EXCEPT ![Hdr.dest] = Append(@, frame)]
  BY DEF SendEnqueue, KeepFrame, connvars
<1>8. Kept
  BY <1>1 DEF OrderInv, KeptInv
<1>2. Hdr.dest \in Dests /\ frame \in DOMAIN sent /\ frame \in Nat \ {0}
  BY <1>1, <1>8, FrameAtHand, KeptDest DEF Ids
<1>9. InHand = frame /\ InHand' = 0
  BY <1>1 DEF InHand, Borrowed
<1>3. \A d \in Dests : queued[d] \in Seq(Nat) /\ \A k \in DOMAIN queued[d] : queued[d][k] \in Nat
  BY DEF TypeOK
<1>4. \A d \in Dests : queued'[d] = IF d = Hdr.dest THEN Append(queued[d], frame) ELSE queued[d]
  <2>1. queued \in [Dests -> Seq(DOMAIN sent)]
    BY DEF TypeOK
  <2> QED BY <1>1, <1>2, <2>1
<1>5. BucketInv'
  <2>1. \A k \in DOMAIN bucket : bucket[k] \in DOMAIN sent /\ 0 < bucket[k]
    BY DEF TypeOK
  <2> QED BY <1>1, <2>1 DEF OrderInv, BucketInv, Growing
<1>6. QueueInv'
  <2> SUFFICES ASSUME NEW d \in Dests
               PROVE  /\ Growing(queued'[d])
                      /\ \A k \in DOMAIN queued'[d] :
                           \A m \in DOMAIN bucket : queued'[d][k] < bucket[m]
    BY <1>1, <1>9 DEF QueueInv, Growing
  <2>1. CASE d # Hdr.dest
    BY <1>4, <2>1 DEF OrderInv, QueueInv
  <2>2. CASE d = Hdr.dest
    <3>1. Growing(queued[d]) /\ \A k \in DOMAIN queued[d] : queued[d][k] < frame
      BY <1>2, <1>9 DEF OrderInv, QueueInv
    <3>2. queued'[d] = Append(queued[d], frame) /\ queued[d] \in Seq(Nat)
      BY <1>3, <1>4, <2>2
    <3>3. /\ Growing(Append(queued[d], frame))
          /\ \A k \in DOMAIN Append(queued[d], frame) :
               Append(queued[d], frame)[k] = IF k \in DOMAIN queued[d] THEN queued[d][k] ELSE frame
      BY <1>2, <3>1, <3>2, AppendGrows
    <3> QED BY <3>2, <3>3 DEF OrderInv, QueueInv, BucketInv
  <2> QED BY <2>1, <2>2
<1>10. KeptInv'
  <2>1. CASE pc' = "receipt"
    <3>1. Hdr' = Hdr
      BY <1>1, <2>1 DEF Hdr
    <3> QED BY <1>8, <3>1 DEF KeptInv, Kept, TooLong
  <2> QED BY <1>1, <2>1 DEF KeptInv
<1>7. KeptInv' /\ PersistInv'
  BY <1>1, <1>4, <1>10 DEF OrderInv, PersistInv
<1> QED BY <1>5, <1>6, <1>7 DEF OrderInv

LEMMA NextOrder == ASSUME TypeOK, OrderInv, [Next]_vars PROVE OrderInv'
<1>1. CASE UNCHANGED vars
  BY <1>1, SameOrder DEF vars, connvars, borders
<1>2. CASE (\E c \in Conns : Accept(c) \/ Close(c)) \/ \E d \in Dests : multicast_worker(d)
  BY <1>2, SameOrder DEF Accept, Close, multicast_worker, borders
<1>3. CASE \E c \in Conns : \E h \in Commands[c] : Push(c, h)
  BY <1>3, PushOrder
<1>4. CASE get_frame_from_bucket \/ SendPersist \/ SendEnqueue
  BY <1>4, TakeOrder, PersistOrder, EnqueueOrder
<1>6. CASE SendReceipt \/ SendReturns \/ Unblock
  <2>1. KeptInv
    BY DEF OrderInv
  <2> QED BY <1>6, <2>1, RepliesLeave, LeaveOrder
<1>5. CASE handle_frame /\ ~SendPersist /\ ~SendEnqueue /\ ~SendReceipt /\ ~SendReturns
  <2>1. /\ UNCHANGED <<sock, gone, sent, taken, bucket, persisting, queued>>
        /\ pc \in {"handle", "commit"} /\ pc' \notin {"enqueue", "receipt"}
        /\ frame' = frame \/ frame' = 0
    BY <1>5, HandlersLeave DEF handle_frame
  <2>2. InHand' = InHand \/ InHand' = 0
    BY <2>1 DEF InHand, Borrowed
  <2> QED BY <2>1, <2>2, LeaveOrder
<1> QED BY <1>1, <1>2, <1>3, <1>4, <1>5, <1>6 DEF Next, stomp_management_worker

LEMMA InitOrder == Init => TypeOK /\ OrderInv
<1> SUFFICES ASSUME Init PROVE TypeOK /\ OrderInv
  OBVIOUS
<1>1. T!TypeOK
  BY DEF Init, T!Init, T!TypeOK
<1>2. Cardinality(Conns) \in Nat
  BY CommandsAssumption, FS_CardinalityType
<1>3. sock \in [Conns -> 0 .. Cardinality(Conns)] /\ gone \subseteq Conns
  BY <1>2 DEF Init
<1>4. /\ sent \in Seq(FrameObject) /\ Len(sent) <= MaxFrames
      /\ bucket \in Seq(DOMAIN sent)
      /\ persisting \in [Dests -> Seq(DOMAIN sent)] /\ queued \in [Dests -> Seq(DOMAIN sent)]
      /\ taken \in [Dests -> Nat] /\ \A d \in Dests : taken[d] <= Len(queued[d])
  BY CommandsAssumption DEF Init
<1>5. TypeOK
  BY <1>1, <1>3, <1>4 DEF Init, TypeOK, T!Init
<1>6. OrderInv
  BY DEF Init, OrderInv, BucketInv, QueueInv, KeptInv, PersistInv, Growing
<1> QED BY <1>5, <1>6

LEMMA OrderInductive == Spec => [](TypeOK /\ OrderInv)
<1>1. Init => TypeOK /\ OrderInv
  BY InitOrder
<1>2. TypeOK /\ OrderInv /\ [Next]_vars => (TypeOK /\ OrderInv)'
  BY NextType, NextOrder DEF OrderInv
<1> QED BY <1>1, <1>2, PTL DEF Spec

(* The state of the bucket, of the worker, of the queues and of the        *)
(* transactions has its shape, for any clients: the frame at hand, and     *)
(* every frame a queue or a reply names, was sent, and the worker is       *)
(* inside transaction_commit() exactly when a transaction is being         *)
(* committed.                                                              *)
THEOREM TypeCorrect == Spec => []TypeOK
BY OrderInductive, PTL

(* enqueue() never gets ahead of persist_frame(): for each destination,    *)
(* what it was given is the beginning of what persist_frame() was given.   *)
THEOREM Persisted == Spec => []PersistedFirst
<1>1. TypeOK /\ OrderInv => PersistedFirst
  <2> SUFFICES ASSUME TypeOK, OrderInv, NEW d \in Dests
               PROVE  IsPrefix(queued[d], persisting[d])
    BY DEF PersistedFirst
  <2>1. queued[d] \in Seq(DOMAIN sent)
    BY DEF TypeOK
  <2>2. persisting[d] = queued[d] \/ persisting[d] = Append(queued[d], frame)
    BY DEF OrderInv, PersistInv
  <2> QED BY <2>1, <2>2 DEF IsPrefix
<1> QED BY <1>1, OrderInductive, PTL

(* Frames reach a queue in the order they were made, those of one          *)
(* connection in particular.                                               *)
THEOREM Ordered == Spec => []OrderKept
<1>1. TypeOK /\ OrderInv => OrderKept
  BY DEF OrderInv, QueueInv, Growing, OrderKept
<1> QED BY <1>1, OrderInductive, PTL

-----------------------------------------------------------------------------
(***************************************************************************)
(* Where frames are.  InBucket, Queued and HeldIn are the places that      *)
(* OnePlace tells apart; a queue position and a transaction are unique.    *)
(***************************************************************************)
InBucket(i) == \E k \in DOMAIN bucket : bucket[k] = i
Queued(i) == \E d \in Dests : \E k \in DOMAIN queued[d] : k > taken[d] /\ queued[d][k] = i
HeldIn(i) == \E t \in DOMAIN transactions : i \in T!FramesOf(t)

Somewhere(i) ==
  InBucket(i) \/ i = InHand \/ i \in freed \/ Queued(i) \/ HeldIn(i) \/ i \in discarded
NowhereElse(i) ==
  /\ InBucket(i) => ~(i = InHand \/ i \in freed \/ Queued(i) \/ HeldIn(i) \/ i \in discarded)
  /\ i = InHand => ~(i \in freed \/ Queued(i) \/ HeldIn(i) \/ i \in discarded)
  /\ i \in freed => ~(Queued(i) \/ HeldIn(i) \/ i \in discarded)
  /\ Queued(i) => ~(HeldIn(i) \/ i \in discarded)
  /\ HeldIn(i) => i \notin discarded
OncePlaced(i) ==
  /\ \A d, e \in Dests : \A k \in DOMAIN queued[d], l \in DOMAIN queued[e] :
       queued[d][k] = i /\ queued[e][l] = i => d = e /\ k = l
  /\ \A t, u \in DOMAIN transactions : i \in T!FramesOf(t) /\ i \in T!FramesOf(u) => t = u
One(i) == Somewhere(i) /\ NowhereElse(i) /\ OncePlaced(i)
PlaceInv ==
  /\ \A i \in DOMAIN sent : One(i)
  /\ discarded \subseteq DOMAIN sent
  /\ \A t \in DOMAIN transactions : T!FramesOf(t) \subseteq DOMAIN sent
  /\ \A d \in Dests : \A k \in DOMAIN queued[d] : k > taken[d] \/ queued[d][k] \in freed

LEMMA OneIsOnePlace ==
  ASSUME NEW i, One(i)
  PROVE  \E p \in Places(i) : Places(i) = {p}
<1> DEFINE B == {<<"bucket">> : x \in Range(bucket) \cap {i}}
           H == {<<"hand">> : x \in {InHand} \cap {i}}
           F == {<<"freed">> : x \in freed \cap {i}}
           Q == {<<"queue", q>> : q \in InQueue(i)}
           L == {<<"held", t>> : t \in Held(i)}
           X == {<<"dropped">> : x \in discarded \cap {i}}
<1>1. Places(i) = B \cup H \cup F \cup Q \cup L \cup X
  BY DEF Places
<1>2. (InBucket(i) => B = {<<"bucket">>}) /\ (~InBucket(i) => B = {})
  BY DEF InBucket, Range
<1>3. (i = InHand => H = {<<"hand">>}) /\ (i # InHand => H = {})
  OBVIOUS
<1>4. (i \in freed => F = {<<"freed">>}) /\ (i \notin freed => F = {})
  OBVIOUS
<1>5. (Queued(i) => \E p : Q = {p}) /\ (~Queued(i) => Q = {})
  <2>1. \A q : q \in InQueue(i) <=>
               \E d \in Dests : \E k \in DOMAIN queued[d] :
                 k > taken[d] /\ queued[d][k] = i /\ q = <<d, k>>
    BY DEF InQueue
  <2>2. ASSUME Queued(i) PROVE \E p : Q = {p}
    <3>1. PICK d \in Dests : \E k \in DOMAIN queued[d] : k > taken[d] /\ queued[d][k] = i
      BY <2>2 DEF Queued
    <3>2. PICK k \in DOMAIN queued[d] : k > taken[d] /\ queued[d][k] = i
      BY <3>1
    <3>3. \A q : q \in InQueue(i) <=> q = <<d, k>>
      BY <2>1, <3>2 DEF One, OncePlaced
    <3>4. InQueue(i) = {<<d, k>>}
      BY <3>3
    <3>5. Q = {<<"queue", <<d, k>>>>}
      BY <3>4
    <3> QED BY <3>5
  <2>3. ASSUME ~Queued(i) PROVE Q = {}
    BY <2>1, <2>3 DEF Queued
  <2> QED BY <2>2, <2>3
<1>6. (HeldIn(i) => \E p : L = {p}) /\ (~HeldIn(i) => L = {})
  <2>1. ASSUME HeldIn(i) PROVE \E p : L = {p}
    <3>1. PICK t \in DOMAIN transactions : i \in T!FramesOf(t)
      BY <2>1 DEF HeldIn
    <3>2. Held(i) = {t}
      BY <3>1 DEF Held, One, OncePlaced
    <3>3. L = {<<"held", t>>}
      BY <3>2
    <3> QED BY <3>3
  <2>2. ASSUME ~HeldIn(i) PROVE L = {}
    BY <2>2 DEF HeldIn, Held
  <2> QED BY <2>1, <2>2
<1>7. (i \in discarded => X = {<<"dropped">>}) /\ (i \notin discarded => X = {})
  OBVIOUS
<1> HIDE DEF B, H, F, Q, L, X
<1>8. \E p : B \cup H \cup F \cup Q \cup L \cup X = {p}
  <2>1. \A p : /\ {p} \cup {} \cup {} \cup {} \cup {} \cup {} = {p}
               /\ {} \cup {p} \cup {} \cup {} \cup {} \cup {} = {p}
               /\ {} \cup {} \cup {p} \cup {} \cup {} \cup {} = {p}
               /\ {} \cup {} \cup {} \cup {p} \cup {} \cup {} = {p}
               /\ {} \cup {} \cup {} \cup {} \cup {p} \cup {} = {p}
               /\ {} \cup {} \cup {} \cup {} \cup {} \cup {p} = {p}
    OBVIOUS
  <2>2. CASE InBucket(i)
    <3>1. i # InHand /\ i \notin freed /\ ~Queued(i) /\ ~HeldIn(i) /\ i \notin discarded
      BY <2>2 DEF One, NowhereElse
    <3>2. B = {<<"bucket">>} /\ H = {} /\ F = {} /\ Q = {} /\ L = {} /\ X = {}
      BY <1>2, <1>3, <1>4, <1>5, <1>6, <1>7, <2>2, <3>1
    <3>3. PICK p : B = {p} /\ H = {} /\ F = {} /\ Q = {} /\ L = {} /\ X = {}
      BY <3>2
    <3> QED BY <2>1, <3>3
  <2>3. CASE i = InHand /\ ~InBucket(i)
    <3>1. i \notin freed /\ ~Queued(i) /\ ~HeldIn(i) /\ i \notin discarded
      BY <2>3 DEF One, NowhereElse
    <3>2. B = {} /\ H = {<<"hand">>} /\ F = {} /\ Q = {} /\ L = {} /\ X = {}
      BY <1>2, <1>3, <1>4, <1>5, <1>6, <1>7, <2>3, <3>1
    <3>3. PICK p : B = {} /\ H = {p} /\ F = {} /\ Q = {} /\ L = {} /\ X = {}
      BY <3>2
    <3> QED BY <2>1, <3>3
  <2>4. CASE i \in freed /\ ~InBucket(i) /\ i # InHand
    <3>1. ~Queued(i) /\ ~HeldIn(i) /\ i \notin discarded
      BY <2>4 DEF One, NowhereElse
    <3>2. B = {} /\ H = {} /\ F = {<<"freed">>} /\ Q = {} /\ L = {} /\ X = {}
      BY <1>2, <1>3, <1>4, <1>5, <1>6, <1>7, <2>4, <3>1
    <3>3. PICK p : B = {} /\ H = {} /\ F = {p} /\ Q = {} /\ L = {} /\ X = {}
      BY <3>2
    <3> QED BY <2>1, <3>3
  <2>5. CASE Queued(i) /\ ~InBucket(i) /\ i # InHand /\ i \notin freed
    <3>1. ~HeldIn(i) /\ i \notin discarded
      BY <2>5 DEF One, NowhereElse
    <3>2. B = {} /\ H = {} /\ F = {} /\ L = {} /\ X = {}
      BY <1>2, <1>3, <1>4, <1>5, <1>6, <1>7, <2>5, <3>1
    <3>3. PICK p : Q = {p}
      BY <1>5, <1>6, <2>5
    <3> QED BY <2>1, <3>2, <3>3
  <2>6. CASE HeldIn(i) /\ ~InBucket(i) /\ i # InHand /\ i \notin freed /\ ~Queued(i)
    <3>1. i \notin discarded
      BY <2>6 DEF One, NowhereElse
    <3>2. B = {} /\ H = {} /\ F = {} /\ Q = {} /\ X = {}
      BY <1>2, <1>3, <1>4, <1>5, <1>6, <1>7, <2>6, <3>1
    <3>3. PICK p : L = {p}
      BY <1>5, <1>6, <2>6
    <3> QED BY <2>1, <3>2, <3>3
  <2>7. CASE i \in discarded /\ ~InBucket(i) /\ i # InHand /\ i \notin freed /\ ~Queued(i)
             /\ ~HeldIn(i)
    <3>1. ~InBucket(i)
      BY <2>7 DEF One, NowhereElse
    <3>2. B = {} /\ H = {} /\ F = {} /\ Q = {} /\ L = {} /\ X = {<<"dropped">>}
      BY <1>2, <1>3, <1>4, <1>5, <1>6, <1>7, <2>7, <3>1
    <3>3. PICK p : B = {} /\ H = {} /\ F = {} /\ Q = {} /\ L = {} /\ X = {p}
      BY <3>2
    <3> QED BY <2>1, <3>3
  <2> QED BY <2>2, <2>3, <2>4, <2>5, <2>6, <2>7 DEF One, Somewhere
<1> QED BY <1>1, <1>8

(* What a call of a function of transaction.c may do with a frame that the *)
(* handler does not add: leave it in its transaction, or drop it.          *)
TransactionsKeep(i) ==
  /\ HeldIn(i)' \/ i \in discarded' <=> HeldIn(i) \/ i \in discarded
  /\ HeldIn(i)' => i \notin discarded'
  /\ \A t, u \in DOMAIN transactions' : i \in T!FramesOf(t)' /\ i \in T!FramesOf(u)' => t = u
NoneNew ==
  /\ discarded' \subseteq DOMAIN sent
  /\ \A t \in DOMAIN transactions' : T!FramesOf(t)' \subseteq DOMAIN sent

LEMMA SameTransactions ==
  ASSUME PlaceInv, UNCHANGED <<transactions, discarded>>
  PROVE  NoneNew /\ \A i \in DOMAIN sent : TransactionsKeep(i)
<1>1. \A t : T!FramesOf(t)' = T!FramesOf(t)
  BY DEF T!FramesOf
<1>2. \A i : HeldIn(i)' <=> HeldIn(i)
  BY <1>1 DEF HeldIn
<1> QED BY <1>1, <1>2 DEF PlaceInv, NoneNew, TransactionsKeep, One, NowhereElse, OncePlaced

LEMMA StartKeeps ==
  ASSUME PlaceInv, T!TypeOK, NEW tid, T!transaction_start(tid)
  PROVE  NoneNew /\ \A i \in DOMAIN sent : TransactionsKeep(i)
<1>1. CASE UNCHANGED transactions
  BY <1>1, SameTransactions DEF T!transaction_start
<1>2. ASSUME NEW s,
             transactions' = Append(transactions, [tid |-> tid, stored |-> s, frames |-> <<>>])
      PROVE  NoneNew /\ \A i \in DOMAIN sent : TransactionsKeep(i)
  <2> DEFINE new == [tid |-> tid, stored |-> s, frames |-> <<>>]
  <2>1. transactions \in Seq(T!TransactionObject) /\ UNCHANGED discarded
    BY DEF T!TypeOK, T!transaction_start
  <2> PICK n \in Nat : n = Len(transactions)
    BY <2>1
  <2>2. new.frames = <<>>
    OBVIOUS
  <2> HIDE DEF new
  <2>3. /\ n \in Nat /\ DOMAIN transactions = 1 .. n /\ DOMAIN transactions' = 1 .. n + 1
        /\ \A t \in 1 .. n : transactions'[t] = transactions[t]
        /\ transactions'[n + 1] = new
    BY <1>2, <2>1 DEF new
  <2>4. \A t \in 1 .. n : T!FramesOf(t)' = T!FramesOf(t)
    BY <2>3 DEF T!FramesOf
  <2>5. T!FramesOf(n + 1)' = {}
    BY <2>2, <2>3, SameHelpers DEF T!FramesOf, Range
  <2>6. \A i : HeldIn(i)' <=> HeldIn(i)
    BY <2>3, <2>4, <2>5 DEF HeldIn
  <2>7. NoneNew
    BY <2>1, <2>3, <2>4, <2>5 DEF NoneNew, PlaceInv
  <2>8. ASSUME NEW i \in DOMAIN sent PROVE TransactionsKeep(i)
    <3>1. One(i)
      BY DEF PlaceInv
    <3>2. \A t, u \in DOMAIN transactions' :
            i \in T!FramesOf(t)' /\ i \in T!FramesOf(u)' => t = u
      BY <2>3, <2>4, <2>5, <3>1 DEF One, OncePlaced
    <3> QED BY <2>1, <2>6, <3>1, <3>2 DEF TransactionsKeep, One, NowhereElse
  <2> QED BY <2>7, <2>8
<1> QED BY <1>1, <1>2 DEF T!transaction_start

(* Frames of the transactions that stay, when one leaves the list. *)
LEMMA RemoveFrames ==
  ASSUME T!TypeOK, NEW n \in 1 .. Len(transactions), transactions' = RemoveAt(transactions, n)
  PROVE  /\ \A t \in DOMAIN transactions' :
              LET o == IF t < n THEN t ELSE t + 1
              IN  o \in DOMAIN transactions /\ o # n /\ T!FramesOf(t)' = T!FramesOf(o)
         /\ \A o \in DOMAIN transactions : o # n =>
              \E t \in DOMAIN transactions' : o = IF t < n THEN t ELSE t + 1
<1>1. /\ transactions' \in Seq(T!TransactionObject) /\ Len(transactions') = Len(transactions) - 1
      /\ \A t \in DOMAIN transactions' :
           transactions'[t] = transactions[IF t < n THEN t ELSE t + 1]
  BY RemoveIs
<1>2. /\ DOMAIN transactions = 1 .. Len(transactions)
      /\ DOMAIN transactions' = 1 .. Len(transactions) - 1
      /\ Len(transactions) \in Nat
  BY <1>1 DEF T!TypeOK
<1>3. \A t \in DOMAIN transactions' :
        (IF t < n THEN t ELSE t + 1) \in DOMAIN transactions /\ (IF t < n THEN t ELSE t + 1) # n
  BY <1>2
<1>4. \A t \in DOMAIN transactions' : T!FramesOf(t)' = T!FramesOf(IF t < n THEN t ELSE t + 1)
  BY <1>1 DEF T!FramesOf
<1>5. ASSUME NEW o \in DOMAIN transactions, o # n
      PROVE  \E t \in DOMAIN transactions' : o = IF t < n THEN t ELSE t + 1
  <2>1. CASE o < n
    BY <1>2, <2>1
  <2>2. CASE o > n
    <3>1. o - 1 \in DOMAIN transactions' /\ ~(o - 1 < n) /\ o = (o - 1) + 1
      BY <1>2, <2>2
    <3> QED BY <3>1
  <2> QED BY <1>2, <1>5, <2>1, <2>2
<1> QED BY <1>3, <1>4, <1>5

LEMMA RemoveKeeps ==
  ASSUME PlaceInv, T!TypeOK, NEW n \in 1 .. Len(transactions),
         transactions' = RemoveAt(transactions, n),
         discarded' = discarded \cup T!FramesOf(n)
  PROVE  NoneNew /\ \A i \in DOMAIN sent : TransactionsKeep(i)
<1> DEFINE old(t) == IF t < n THEN t ELSE t + 1
<1>1. \A t \in DOMAIN transactions' :
        old(t) \in DOMAIN transactions /\ old(t) # n /\ T!FramesOf(t)' = T!FramesOf(old(t))
  BY RemoveFrames
<1>2. \A o \in DOMAIN transactions : o # n => \E t \in DOMAIN transactions' : o = old(t)
  BY RemoveFrames
<1>3. \A t, u \in DOMAIN transactions' : old(t) = old(u) => t = u
  <2>1. DOMAIN transactions' \subseteq Nat
    BY RemoveIs
  <2> QED BY <2>1
<1>4. n \in DOMAIN transactions
  BY DEF T!TypeOK
<1> HIDE DEF old
<1>5. NoneNew
  BY <1>1, <1>4 DEF NoneNew, PlaceInv
<1>6. ASSUME NEW i \in DOMAIN sent PROVE TransactionsKeep(i)
  <2>1. One(i)
    BY DEF PlaceInv
  <2>2. HeldIn(i)' <=> \E o \in DOMAIN transactions : o # n /\ i \in T!FramesOf(o)
    BY <1>1, <1>2 DEF HeldIn
  <2>3. HeldIn(i) <=> HeldIn(i)' \/ i \in T!FramesOf(n)
    BY <1>4, <2>2 DEF HeldIn
  <2>4. HeldIn(i)' => i \notin discarded'
    BY <1>4, <2>1, <2>2, <2>3 DEF One, OncePlaced, NowhereElse
  <2>5. \A t, u \in DOMAIN transactions' :
          i \in T!FramesOf(t)' /\ i \in T!FramesOf(u)' => t = u
    BY <1>1, <1>3, <2>1 DEF One, OncePlaced
  <2> QED BY <2>3, <2>4, <2>5 DEF TransactionsKeep
<1> QED BY <1>5, <1>6

(* The handler ends and frees the frame, or goes on with the frame freed   *)
(* or not its own already.                                                 *)
LEMMA FreePlace ==
  ASSUME TypeOK, PlaceInv, UNCHANGED <<sent, taken, bucket, queued>>,
         \/ freed' = freed /\ InHand' = InHand
         \/ freed' = freed \cup {InHand} /\ InHand' = 0,
         NoneNew, \A i \in DOMAIN sent : TransactionsKeep(i)
  PROVE  PlaceInv'
<1>1. 0 \notin DOMAIN sent
  BY DEF TypeOK
<1>2. ASSUME NEW i \in DOMAIN sent PROVE One(i)'
  <2>1. One(i) /\ TransactionsKeep(i)
    BY DEF PlaceInv
  <2>2. (InBucket(i)' <=> InBucket(i)) /\ (Queued(i)' <=> Queued(i))
    BY DEF InBucket, Queued
  <2>3. Somewhere(i)'
    BY <1>1, <2>1, <2>2 DEF One, Somewhere, TransactionsKeep
  <2>4. NowhereElse(i)'
    BY <1>1, <2>1, <2>2 DEF One, NowhereElse, TransactionsKeep
  <2>5. OncePlaced(i)'
    BY <2>1 DEF One, OncePlaced, TransactionsKeep
  <2> QED BY <2>3, <2>4, <2>5 DEF One
<1>3. \A d \in Dests : \A k \in DOMAIN queued[d] : k > taken[d] \/ queued[d][k] \in freed'
  BY DEF PlaceInv
<1> QED BY <1>2, <1>3 DEF PlaceInv, NoneNew

LEMMA SamePlace ==
  ASSUME TypeOK, PlaceInv, UNCHANGED <<sent, taken, bucket, queued, freed, transactions, discarded>>,
         InHand' = InHand
  PROVE  PlaceInv'
BY SameTransactions, FreePlace

LEMMA PushPlace ==
  ASSUME TypeOK, PlaceInv, NEW c \in Conns, NEW h \in Commands[c], Push(c, h)
  PROVE  PlaceInv'
<1> PICK n \in Nat : n = Len(sent) + 1
  BY PushIs
<1>1. UNCHANGED <<queued, taken, freed, transactions, discarded>> /\ InHand' = InHand
  BY PushHand DEF Push, borders, tvars
<1>2. DOMAIN sent' = DOMAIN sent \cup {n} /\ n \notin DOMAIN sent /\ n # 0
  <2>1. Len(sent) \in Nat /\ DOMAIN sent' = 1 .. Len(sent) + 1 /\ DOMAIN sent = 1 .. Len(sent)
    BY PushIs
  <2> QED BY <2>1
<1>3. \A i : InBucket(i)' <=> InBucket(i) \/ i = n
  <2>1. bucket' = Append(bucket, n) /\ bucket \in Seq(DOMAIN sent)
    BY PushIs DEF TypeOK
  <2>2. /\ Len(bucket) \in Nat /\ DOMAIN bucket = 1 .. Len(bucket)
        /\ DOMAIN bucket' = 1 .. Len(bucket) + 1
        /\ \A k \in 1 .. Len(bucket) : bucket'[k] = bucket[k]
        /\ bucket'[Len(bucket) + 1] = n
    BY <2>1
  <2>3. \A k \in DOMAIN bucket' : k \in DOMAIN bucket \/ k = Len(bucket) + 1
    BY <2>2
  <2>4. DOMAIN bucket \subseteq DOMAIN bucket' /\ Len(bucket) + 1 \in DOMAIN bucket'
    BY <2>2
  <2> QED BY <2>2, <2>3, <2>4 DEF InBucket
<1>4. \A t : T!FramesOf(t)' = T!FramesOf(t)
  BY <1>1 DEF T!FramesOf
<1>5. \A i : (Queued(i)' <=> Queued(i)) /\ (HeldIn(i)' <=> HeldIn(i))
  BY <1>1, <1>4 DEF Queued, HeldIn
<1>6. ASSUME NEW i \in DOMAIN sent PROVE One(i)'
  <2>1. One(i) /\ i # n
    BY <1>2 DEF PlaceInv
  <2> QED BY <1>1, <1>3, <1>4, <1>5, <2>1 DEF One, Somewhere, NowhereElse, OncePlaced
<1>7. One(n)'
  <2>1. ~Queued(n) /\ ~HeldIn(n) /\ n \notin freed /\ n \notin discarded /\ n # InHand
    <3>1. ~Queued(n)
      BY <1>2 DEF Queued, TypeOK
    <3>2. ~HeldIn(n) /\ n \notin discarded
      BY <1>2 DEF HeldIn, PlaceInv
    <3>3. n # InHand /\ n \notin freed
      BY <1>2 DEF TypeOK, InHand
    <3> QED BY <3>1, <3>2, <3>3
  <2>3. \A d \in Dests : \A k \in DOMAIN queued[d] : queued[d][k] # n
    BY <1>2 DEF TypeOK
  <2>2. OncePlaced(n)'
    BY <1>1, <1>4, <2>1, <2>3 DEF OncePlaced, HeldIn
  <2> QED BY <1>1, <1>3, <1>5, <2>1, <2>2 DEF One, Somewhere, NowhereElse
<1> QED BY <1>1, <1>2, <1>4, <1>6, <1>7 DEF PlaceInv

(* The worker takes the frame out of the bucket, where it was once. *)
LEMMA TakePlace ==
  ASSUME TypeOK, OrderInv, PlaceInv, get_frame_from_bucket
  PROVE  PlaceInv'
<1>1. /\ UNCHANGED <<sent, taken, queued, freed, transactions, discarded>>
      /\ frame = 0 /\ InHand = 0 /\ InHand' = frame'
  BY DEF get_frame_from_bucket, connvars, borders, tvars, TypeOK, InHand, Borrowed
<1>2. BucketInv'
  BY TakeOrder DEF OrderInv
<1>3. 0 \notin DOMAIN sent
  BY DEF TypeOK
<1>4. \A i : InBucket(i) <=> InBucket(i)' \/ i = frame'
  <2>1. /\ bucket \in Seq(DOMAIN sent) /\ bucket # <<>>
        /\ frame' = Head(bucket) /\ bucket' = Tail(bucket)
    BY DEF get_frame_from_bucket, TypeOK
  <2>2. Len(bucket) \in Nat \ {0} /\ DOMAIN bucket = 1 .. Len(bucket) /\ Head(bucket) = bucket[1]
    BY <2>1, EmptySeq, LenProperties
  <2>3. /\ DOMAIN Tail(bucket) = 1 .. Len(bucket) - 1
        /\ \A k \in 1 .. Len(bucket) - 1 : Tail(bucket)[k] = bucket[k + 1]
    BY <2>1, HeadTailProperties, LenProperties
  <2>4. \A k \in DOMAIN bucket : k = 1 \/ (k - 1 \in DOMAIN bucket' /\ bucket'[k - 1] = bucket[k])
    BY <2>1, <2>2, <2>3
  <2>5. \A k \in DOMAIN bucket' : k + 1 \in DOMAIN bucket /\ bucket'[k] = bucket[k + 1]
    BY <2>1, <2>2, <2>3
  <2>6. 1 \in DOMAIN bucket /\ frame' = bucket[1]
    BY <2>1, <2>2
  <2> QED BY <2>4, <2>5, <2>6 DEF InBucket
<1>5. \A i : InBucket(i)' => i # frame'
  <2>1. \A k \in DOMAIN bucket' : frame' < bucket'[k] /\ frame' \in Nat
    BY <1>2, TakeType DEF BucketInv, TypeOK
  <2> QED BY <2>1 DEF InBucket
<1>6. \A t : T!FramesOf(t)' = T!FramesOf(t)
  BY <1>1 DEF T!FramesOf
<1>7. \A i : (Queued(i)' <=> Queued(i)) /\ (HeldIn(i)' <=> HeldIn(i))
  BY <1>1, <1>6 DEF Queued, HeldIn
<1>8. ASSUME NEW i \in DOMAIN sent PROVE One(i)'
  <2>1. One(i) /\ i # InHand
    BY <1>1, <1>3 DEF PlaceInv
  <2> QED BY <1>1, <1>4, <1>5, <1>6, <1>7, <2>1 DEF One, Somewhere, NowhereElse, OncePlaced
<1> QED BY <1>1, <1>6, <1>8 DEF PlaceInv

(* enqueue(): the frame at hand is in no queue yet. *)
LEMMA EnqueuePlace ==
  ASSUME TypeOK, OrderInv, PlaceInv, SendEnqueue
  PROVE  PlaceInv'
<1>1. /\ pc = "enqueue" /\ freed' = freed
      /\ UNCHANGED <<sent, taken, bucket, transactions, discarded>>
      /\ queued' = [queued EXCEPT ![Hdr.dest] = Append(@, frame)]
      /\ \/ pc' = "idle" /\ frame' = 0
         \/ pc' = "receipt"
  BY DEF SendEnqueue, KeepFrame, connvars, tvars
<1>11. InHand = frame /\ InHand' = 0
  BY <1>1 DEF InHand, Borrowed
<1>2. Hdr.dest \in Dests /\ frame \in DOMAIN sent /\ 0 \notin DOMAIN sent
  BY <1>1, FrameAtHand, KeptDest DEF OrderInv, KeptInv, TypeOK
<1>3. PICK d \in Dests : d = Hdr.dest
  BY <1>2
<1> DEFINE n == Len(queued[d])
<1>4. /\ n \in Nat /\ DOMAIN queued[d] = 1 .. n /\ DOMAIN queued'[d] = 1 .. n + 1
      /\ \A k \in 1 .. n : queued'[d][k] = queued[d][k]
      /\ queued'[d][n + 1] = frame
  <2>1. queued \in [Dests -> Seq(DOMAIN sent)]
    BY DEF TypeOK
  <2>2. queued'[d] = Append(queued[d], frame) /\ queued[d] \in Seq(DOMAIN sent)
    BY <1>1, <1>3, <2>1
  <2> QED BY <2>2
<1>5. \A e \in Dests : e # d => queued'[e] = queued[e]
  BY <1>1, <1>3 DEF TypeOK
<1> HIDE DEF n
<1>6. DOMAIN queued'[d] = DOMAIN queued[d] \cup {n + 1} /\ n + 1 \notin DOMAIN queued[d]
  BY <1>4
<1>12. n + 1 > taken[d]
  BY <1>4 DEF TypeOK, n
<1>7. \A i : Queued(i)' <=> Queued(i) \/ i = frame
  <2>1. \A i : Queued(i)' => Queued(i) \/ i = frame
    BY <1>1, <1>4, <1>5, <1>6 DEF Queued
  <2>2. \A i : Queued(i) => Queued(i)'
    BY <1>1, <1>4, <1>5, <1>6 DEF Queued
  <2>3. \A i : i = frame => Queued(i)'
    BY <1>1, <1>4, <1>6, <1>12 DEF Queued
  <2> QED BY <2>1, <2>2, <2>3
<1>13. \A a \in Dests : \A k \in DOMAIN queued[a] : queued[a][k] # frame
  <2>1. One(frame)
    BY <1>2 DEF PlaceInv
  <2> QED BY <1>11, <2>1 DEF PlaceInv, One, NowhereElse, Queued
<1>8. \A t : T!FramesOf(t)' = T!FramesOf(t)
  BY <1>1 DEF T!FramesOf
<1>9. \A i : (InBucket(i)' <=> InBucket(i)) /\ (HeldIn(i)' <=> HeldIn(i))
  BY <1>1, <1>8 DEF InBucket, HeldIn
<1>10. ASSUME NEW i \in DOMAIN sent PROVE One(i)'
  <2>1. One(i) /\ i # 0
    BY <1>2 DEF PlaceInv
  <2>2. Somewhere(i)' /\ NowhereElse(i)'
    BY <1>1, <1>2, <1>7, <1>9, <1>11, <2>1 DEF One, Somewhere, NowhereElse
  <2>3. \A a \in Dests : \A k : k \in DOMAIN queued'[a] /\ queued'[a][k] = i =>
          \/ i = frame /\ a = d /\ k = n + 1
          \/ i # frame /\ k \in DOMAIN queued[a] /\ queued[a][k] = i
    BY <1>4, <1>5, <1>6, <1>13
  <2>4. \A a, e \in Dests : \A k \in DOMAIN queued'[a], l \in DOMAIN queued'[e] :
          queued'[a][k] = i /\ queued'[e][l] = i => a = e /\ k = l
    BY <2>1, <2>3 DEF One, OncePlaced
  <2>5. OncePlaced(i)'
    BY <1>1, <1>8, <2>1, <2>4 DEF One, OncePlaced
  <2> QED BY <2>2, <2>5 DEF One
<1>14. \A a \in Dests : \A k \in DOMAIN queued'[a] : k > taken[a] \/ queued'[a][k] \in freed
  BY <1>4, <1>5, <1>6, <1>12 DEF PlaceInv
<1> QED BY <1>1, <1>8, <1>10, <1>14 DEF PlaceInv

(* transaction_add(): the frame at hand goes into the transaction found,   *)
(* or is dropped when none is.                                             *)
LEMMA AddPlace ==
  ASSUME TypeOK, PlaceInv, SendTransaction
  PROVE  PlaceInv'
<1>1. /\ pc = "handle" /\ freed' = freed /\ Kept
      /\ UNCHANGED <<sent, taken, bucket, queued>>
      /\ T!TypeOK /\ T!transaction_add(Hdr.tid, frame)
      /\ \/ pc' = "idle" /\ frame' = 0
         \/ pc' \in {"reply", "blocked"} /\ frame' = frame
  BY DEF SendTransaction, SendValid, KeepFrame, Reply, ReplyTo, connvars, TypeOK
<1>6. InHand = frame /\ InHand' = 0
  <2>1. CASE pc' \in {"reply", "blocked"} /\ frame' = frame
    <3>1. Hdr' = Hdr
      BY <1>1, <2>1 DEF Hdr
    <3>2. Kept'
      BY <1>1, <3>1 DEF Kept, TooLong
    <3> QED BY <1>1, <2>1, <3>2 DEF InHand, Borrowed
  <2>2. CASE pc' = "idle" /\ frame' = 0
    BY <1>1, <2>2 DEF InHand, Borrowed
  <2> QED BY <1>1, <2>1, <2>2
<1>7. \A d \in Dests : \A k \in DOMAIN queued'[d] : k > taken'[d] \/ queued'[d][k] \in freed'
  BY <1>1 DEF PlaceInv
<1>2. frame \in DOMAIN sent /\ frame \in Ids /\ 0 \notin DOMAIN sent
  BY <1>1, FrameAtHand DEF TypeOK
<1>3. \A i : (InBucket(i)' <=> InBucket(i)) /\ (Queued(i)' <=> Queued(i))
  BY <1>1 DEF InBucket, Queued
<1>4. CASE ~T!Known(Hdr.tid)
  <2>1. transactions' = transactions /\ discarded' = discarded \cup {frame}
    BY <1>1, <1>4 DEF T!transaction_add
  <2>2. \A t : T!FramesOf(t)' = T!FramesOf(t)
    BY <2>1 DEF T!FramesOf
  <2>3. \A i : HeldIn(i)' <=> HeldIn(i)
    BY <2>1, <2>2 DEF HeldIn
  <2>4. ASSUME NEW i \in DOMAIN sent PROVE One(i)'
    <3>1. One(i) /\ i # 0
      BY <1>2 DEF PlaceInv
    <3>2. Somewhere(i)' /\ NowhereElse(i)'
      BY <1>1, <1>2, <1>3, <1>6, <2>1, <2>3, <3>1 DEF One, Somewhere, NowhereElse
    <3>3. OncePlaced(i)'
      BY <1>1, <2>1, <2>2, <3>1 DEF One, OncePlaced
    <3> QED BY <3>2, <3>3 DEF One
  <2> QED BY <1>1, <1>2, <1>7, <2>1, <2>2, <2>4 DEF PlaceInv
<1>5. CASE T!Known(Hdr.tid)
  <2>1. discarded' = discarded
    BY <1>1, <1>5 DEF T!transaction_add
  <2>2. PICK n : n = T!get_transaction(Hdr.tid)
    OBVIOUS
  <2>3. /\ n \in DOMAIN transactions /\ DOMAIN transactions' = DOMAIN transactions
        /\ \A t \in DOMAIN transactions :
             transactions'[t].frames = IF t = n THEN <<frame>> \o transactions[t].frames
                                                ELSE transactions[t].frames
    BY <1>1, <1>2, <1>5, <2>2, AddIs
  <2>4. \A t \in DOMAIN transactions : t # n => T!FramesOf(t)' = T!FramesOf(t)
    BY <2>3 DEF T!FramesOf
  <2>5. T!FramesOf(n)' = T!FramesOf(n) \cup {frame}
    <3>1. transactions'[n].frames = <<frame>> \o transactions[n].frames
      BY <2>3
    <3>2. transactions[n].frames \in Seq(Ids)
      BY <1>1, <2>3, ObjectType
    <3>3. ASSUME NEW x \in Ids, NEW s \in Seq(Ids)
          PROVE  Range(<<x>> \o s) = Range(s) \cup {x}
      BY PushedRange
    <3> QED BY <1>2, <3>1, <3>2, <3>3, SameHelpers DEF T!FramesOf
  <2>6. \A t \in DOMAIN transactions : \A i :
          i \in T!FramesOf(t)' <=> i \in T!FramesOf(t) \/ (t = n /\ i = frame)
    BY <2>4, <2>5
  <2>7. \A i : HeldIn(i)' <=> HeldIn(i) \/ i = frame
    BY <2>3, <2>6 DEF HeldIn
  <2>8. ASSUME NEW i \in DOMAIN sent PROVE One(i)'
    <3>1. One(i) /\ i # 0
      BY <1>2 DEF PlaceInv
    <3>2. Somewhere(i)' /\ NowhereElse(i)'
      BY <1>1, <1>2, <1>3, <1>6, <2>1, <2>7, <3>1 DEF One, Somewhere, NowhereElse
    <3>3. \A t, u \in DOMAIN transactions' :
            i \in T!FramesOf(t)' /\ i \in T!FramesOf(u)' => t = u
      BY <1>6, <2>3, <2>6, <3>1 DEF One, NowhereElse, OncePlaced, HeldIn
    <3>4. OncePlaced(i)'
      BY <1>1, <3>1, <3>3 DEF One, OncePlaced
    <3> QED BY <3>2, <3>4 DEF One
  <2>9. \A t \in DOMAIN transactions' : T!FramesOf(t)' \subseteq DOMAIN sent
    BY <1>2, <2>3, <2>6 DEF PlaceInv
  <2> QED BY <1>1, <1>7, <2>1, <2>8, <2>9 DEF PlaceInv
<1> QED BY <1>4, <1>5

(* The other handlers end with the frame freed, or send a reply first, or  *)
(* go on committing.                                                       *)
LEMMA HandlersPlace ==
  ASSUME TypeOK, PlaceInv, handle_frame, ~SendPersist, ~SendEnqueue, ~SendTransaction,
         ~SendReceipt, ~SendReturns
  PROVE  PlaceInv'
<1>1. UNCHANGED <<sent, taken, bucket, queued>> /\ pc \in {"handle", "commit"}
  BY HandlersLeave DEF handle_frame
<1>2. T!TypeOK
  BY DEF TypeOK
<1>3. NoneNew /\ \A i \in DOMAIN sent : TransactionsKeep(i)
  <2>1. CASE handler_stomp_begin
    BY <1>2, <2>1, StartKeeps DEF handler_stomp_begin
  <2>2. CASE handler_stomp_abort
    <3>1. T!transaction_abort(Hdr.tid)
      BY <2>2 DEF handler_stomp_abort
    <3>2. CASE T!Known(Hdr.tid)
      <4>1. PICK n : n = T!get_transaction(Hdr.tid)
        OBVIOUS
      <4>2. n \in 1 .. Len(transactions)
        BY <1>2, <3>2, <4>1, LookupFinds
      <4>3. transactions' = RemoveAt(transactions, n) /\ discarded' = discarded \cup T!FramesOf(n)
        BY <3>1, <3>2, <4>1, SameHelpers DEF T!transaction_abort
      <4> QED BY <1>2, <4>2, <4>3, RemoveKeeps
    <3>3. CASE ~T!Known(Hdr.tid)
      BY <3>1, <3>3, SameTransactions DEF T!transaction_abort
    <3> QED BY <3>2, <3>3
  <2>3. CASE handler_stomp_commit
    BY <2>3, SameTransactions DEF handler_stomp_commit, T!transaction_commit
  <2>4. CASE CommitReturn
    <3>1. PICK n : n = committing
      OBVIOUS
    <3>2. /\ n \in 1 .. Len(transactions) /\ transactions[n].frames = <<>>
          /\ transactions' = RemoveAt(transactions, n) /\ discarded' = discarded
      BY <1>2, <2>4, <3>1, CommitEndsIs DEF CommitReturn
    <3>3. T!FramesOf(n) = {}
      BY <3>2, SameHelpers DEF T!FramesOf, Range
    <3>4. discarded' = discarded \cup T!FramesOf(n)
      BY <3>2, <3>3
    <3> QED BY <1>2, <3>2, <3>4, RemoveKeeps
  <2>5. CASE UNCHANGED tvars
    BY <2>5, SameTransactions DEF tvars
  <2> QED BY <2>1, <2>2, <2>3, <2>4, <2>5 DEF handle_frame, SendInvalid, SendNowhere,
          TransactionRefused, handler_stomp_connect, handler_stomp_disconnect,
          handler_stomp_subscribe, handler_stomp_unsubscribe, handler_stomp_ack,
          handler_stomp_nack
<1>4. InHand = frame
  BY <1>1 DEF InHand, Borrowed
<1>5. CASE FreeFrame
  <2>1. freed' = freed \cup {InHand} /\ InHand' = 0
    BY <1>4, <1>5 DEF FreeFrame, InHand, Borrowed
  <2> QED BY <1>1, <1>3, <2>1, FreePlace
<1>6. CASE UNCHANGED <<frame, freed>> /\ pc' = "commit"
  <2>1. freed' = freed /\ InHand' = InHand
    BY <1>4, <1>6 DEF InHand, Borrowed
  <2> QED BY <1>1, <1>3, <2>1, FreePlace
<1>7. CASE ~Kept /\ \E what : Reply(what)
  <2>1. Hdr' = Hdr /\ UNCHANGED <<frame, freed>>
    BY <1>1, <1>7 DEF Reply, ReplyTo, Hdr
  <2>2. ~Kept' /\ pc' # "receipt"
    BY <1>7, <2>1 DEF Kept, TooLong, Reply, ReplyTo
  <2>3. freed' = freed /\ InHand' = InHand
    BY <1>4, <2>1, <2>2 DEF InHand, Borrowed
  <2> QED BY <1>1, <1>3, <2>3, FreePlace
<1>8. \/ FreeFrame
      \/ UNCHANGED <<frame, freed>> /\ pc' = "commit"
      \/ ~Kept /\ \E what : Reply(what)
  <2>1. CASE SendInvalid \/ SendNowhere \/ TransactionRefused \/ handler_stomp_connect
             \/ handler_stomp_disconnect \/ handler_stomp_subscribe
    BY <2>1 DEF SendInvalid, SendNowhere, TransactionRefused, handler_stomp_connect,
       handler_stomp_disconnect, handler_stomp_subscribe, Handling, Kept
  <2>2. CASE handler_stomp_begin \/ handler_stomp_abort \/ handler_stomp_commit \/ CommitReturn
             \/ handler_stomp_unsubscribe \/ handler_stomp_ack \/ handler_stomp_nack
    BY <2>2 DEF handler_stomp_begin, handler_stomp_abort, handler_stomp_commit, CommitReturn,
       handler_stomp_unsubscribe, handler_stomp_ack, handler_stomp_nack
  <2> QED BY <2>1, <2>2 DEF handle_frame
<1> QED BY <1>5, <1>6, <1>7, <1>8

(* The thread of a topic takes a frame out of the queue and frees it. *)
LEMMA MulticastPlace ==
  ASSUME TypeOK, PlaceInv, NEW d \in Dests, multicast_worker(d)
  PROVE  PlaceInv'
<1>1. PICK t \in Nat : t = taken[d] + 1
  BY MulticastIs
<1>2. PICK x \in DOMAIN sent : x = queued[d][t] /\ t \in DOMAIN queued[d]
  BY <1>1, MulticastIs
<1>3. /\ UNCHANGED <<sent, bucket, queued, transactions, discarded>> /\ InHand' = InHand
      /\ freed' = freed \cup {x} /\ taken'[d] = t /\ t > taken[d]
      /\ \A e \in Dests : e # d => taken'[e] = taken[e]
  <2>1. UNCHANGED <<sent, bucket, queued, transactions, discarded, pc, frame>>
    BY MulticastIs DEF borders, tvars
  <2>2. InHand' = InHand
    BY <2>1, SameHand
  <2>3. t > taken[d]
    BY <1>1, MulticastIs
  <2> QED BY <1>1, <1>2, <2>1, <2>2, <2>3, MulticastIs
<1>4. \A k \in DOMAIN queued[d] : k \in Nat /\ (k > taken[d] <=> k > t \/ k = t)
  <2>1. queued[d] \in Seq(DOMAIN sent) /\ taken[d] \in Nat
    BY DEF TypeOK
  <2>2. \A k \in DOMAIN queued[d] : k \in Nat
    BY <2>1
  <2> QED BY <1>1, <2>1, <2>2
<1>5. \A i \in DOMAIN sent : Queued(i)' <=> Queued(i) /\ i # x
  <2> SUFFICES ASSUME NEW i \in DOMAIN sent PROVE Queued(i)' <=> Queued(i) /\ i # x
    OBVIOUS
  <2>1. One(i)
    BY DEF PlaceInv
  <2>2. \A e \in Dests : \A k \in DOMAIN queued[e] :
          k > taken'[e] <=> k > taken[e] /\ ~(e = d /\ k = t)
    <3>1. \A k \in DOMAIN queued[d] : k > t <=> k > taken[d] /\ k # t
      BY <1>1, <1>4
    <3> QED BY <1>3, <3>1
  <2>3. \A e \in Dests : \A k \in DOMAIN queued[e] :
          queued[e][k] = i /\ i = x => e = d /\ k = t
    BY <1>2, <2>1 DEF One, OncePlaced
  <2>4. ASSUME Queued(i)' PROVE Queued(i) /\ i # x
    <3>1. PICK e \in Dests : \E k \in DOMAIN queued[e] : k > taken'[e] /\ queued[e][k] = i
      BY <1>3, <2>4 DEF Queued
    <3>2. PICK k \in DOMAIN queued[e] : k > taken'[e] /\ queued[e][k] = i
      BY <3>1
    <3>3. k > taken[e] /\ ~(e = d /\ k = t)
      BY <2>2, <3>2
    <3> QED BY <2>3, <3>2, <3>3 DEF Queued
  <2>5. ASSUME Queued(i), i # x PROVE Queued(i)'
    <3>1. PICK e \in Dests : \E k \in DOMAIN queued[e] : k > taken[e] /\ queued[e][k] = i
      BY <2>5 DEF Queued
    <3>2. PICK k \in DOMAIN queued[e] : k > taken[e] /\ queued[e][k] = i
      BY <3>1
    <3>3. ~(e = d /\ k = t)
      BY <1>2, <2>5, <3>2
    <3>4. k > taken'[e]
      BY <2>2, <3>2, <3>3
    <3> QED BY <1>3, <3>2, <3>4 DEF Queued
  <2> QED BY <2>4, <2>5
<1>6. Queued(x)
  BY <1>2, <1>3 DEF Queued
<1>7. \A u : T!FramesOf(u)' = T!FramesOf(u)
  BY <1>3 DEF T!FramesOf
<1>8. \A i : (InBucket(i)' <=> InBucket(i)) /\ (HeldIn(i)' <=> HeldIn(i))
  BY <1>3, <1>7 DEF InBucket, HeldIn
<1>9. ASSUME NEW i \in DOMAIN sent PROVE One(i)'
  <2>1. One(i)
    BY DEF PlaceInv
  <2>2. Somewhere(i)' /\ NowhereElse(i)'
    BY <1>3, <1>5, <1>6, <1>8, <2>1 DEF One, Somewhere, NowhereElse
  <2>3. OncePlaced(i)'
    BY <1>3, <1>7, <2>1 DEF One, OncePlaced
  <2> QED BY <2>2, <2>3 DEF One
<1>10. \A e \in Dests : \A k \in DOMAIN queued[e] : k > taken'[e] \/ queued[e][k] \in freed'
  <2>1. \A k \in DOMAIN queued[d] : k > t \/ queued[d][k] \in freed'
    BY <1>2, <1>3, <1>4 DEF PlaceInv
  <2> QED BY <1>3, <2>1 DEF PlaceInv
<1> QED BY <1>3, <1>7, <1>9, <1>10 DEF PlaceInv

LEMMA NextPlace == ASSUME TypeOK, OrderInv, PlaceInv, [Next]_vars PROVE PlaceInv'
<1>1. CASE UNCHANGED vars
  BY <1>1, SamePlace, SameHand DEF vars, connvars, borders, tvars
<1>2. CASE \E c \in Conns : Accept(c) \/ Close(c)
  BY <1>2, SamePlace, SameHand DEF Accept, Close, borders, tvars
<1>3. CASE \E c \in Conns : \E h \in Commands[c] : Push(c, h)
  BY <1>3, PushPlace
<1>4. CASE get_frame_from_bucket \/ \E d \in Dests : multicast_worker(d)
  BY <1>4, TakePlace, MulticastPlace
<1>5. CASE SendPersist
  <2>1. /\ UNCHANGED <<sent, taken, bucket, queued, freed, transactions, discarded, frame>>
        /\ pc = "handle" /\ pc' = "enqueue"
    BY <1>5 DEF SendPersist, SendValid, connvars, tvars
  <2>2. InHand' = InHand
    BY <2>1 DEF InHand, Borrowed
  <2> QED BY <2>1, <2>2, SamePlace
<1>6. CASE SendEnqueue \/ SendTransaction
  BY <1>6, EnqueuePlace, AddPlace
<1>8. CASE SendReceipt \/ SendReturns \/ Unblock
  <2>1. /\ UNCHANGED <<sent, taken, bucket, queued, transactions, discarded>>
        /\ \/ freed' = freed /\ InHand' = InHand
           \/ freed' = freed \cup {InHand} /\ InHand' = 0
    BY <1>8, RepliesLeave DEF OrderInv, tvars
  <2>2. NoneNew /\ \A i \in DOMAIN sent : TransactionsKeep(i)
    BY <2>1, SameTransactions
  <2> QED BY <2>1, <2>2, FreePlace
<1>7. CASE /\ handle_frame /\ ~SendPersist /\ ~SendEnqueue /\ ~SendTransaction
           /\ ~SendReceipt /\ ~SendReturns
  BY <1>7, HandlersPlace
<1> QED BY <1>1, <1>2, <1>3, <1>4, <1>5, <1>6, <1>7, <1>8 DEF Next, stomp_management_worker

(* A handler sends at most one reply and starts at most one worker; the    *)
(* number it sends the reply to is the frame's, unless the frame is freed. *)
LEMMA HandlersSend ==
  ASSUME handle_frame
  PROVE  /\ UNCHANGED <<sock, gone, sent>> /\ pc # "idle"
         /\ \/ UNCHANGED replies \/ \E what : Reply(what)
            \/ \E fd : ReplyTo("RECEIPT", fd) /\ (frame \in freed \/ fd = sent[frame].sock)
         /\ UNCHANGED registered \/ \E kind, name : register_worker(kind, name)
<1>1. register_reply_worker =>
        UNCHANGED registered \/ \E kind, name : register_worker(kind, name)
  BY Zenon DEF register_reply_worker
<1>2. CASE SendReceipt
  <2>1. PICK fd : /\ fd \in IF frame \in freed THEN 0 .. Cardinality(Conns) ELSE {sent[frame].sock}
                  /\ ReplyTo("RECEIPT", fd)
    BY <1>2 DEF SendReceipt
  <2>2. frame \in freed \/ fd = sent[frame].sock
    BY <2>1
  <2> QED BY <1>2, <2>1, <2>2 DEF SendReceipt, connvars
<1>3. CASE SendInvalid \/ SendNowhere \/ SendPersist \/ SendEnqueue \/ SendTransaction
  BY <1>1, <1>3 DEF SendInvalid, SendNowhere, SendPersist, SendEnqueue, SendTransaction,
     SendValid, Handling, connvars
<1>4. CASE TransactionRefused \/ handler_stomp_begin \/ handler_stomp_abort
           \/ handler_stomp_commit \/ CommitReturn
  BY <1>4 DEF TransactionRefused, handler_stomp_begin, handler_stomp_abort,
     handler_stomp_commit, CommitReturn, WithTid, Handling, connvars, borders
<1>5. CASE handler_stomp_connect \/ handler_stomp_disconnect \/ handler_stomp_subscribe
  BY <1>5 DEF handler_stomp_connect, handler_stomp_disconnect, handler_stomp_subscribe,
     Handling, connvars
<1>6. CASE handler_stomp_unsubscribe \/ handler_stomp_ack \/ handler_stomp_nack \/ SendReturns
  BY <1>6 DEF handler_stomp_unsubscribe, handler_stomp_ack, handler_stomp_nack, SendReturns,
     Handling, connvars, borders
<1> QED BY <1>2, <1>3, <1>4, <1>5, <1>6 DEF handle_frame

(***************************************************************************)
(* What the worker has at hand, if it is freed: a frame it has put into    *)
(* the queue of a topic.  A queue holds frames for its destination.        *)
(***************************************************************************)
HomeInv == \A d \in Dests : \A k \in DOMAIN queued[d] : sent[queued[d][k]].h.dest = d
StaleInv == frame \in freed => Hdr.dest \in Topics

(* A frame that is not given away is not freed. *)
LEMMA HandNotFreed ==
  ASSUME TypeOK, PlaceInv, frame \in freed
  PROVE  Borrowed
<1>1. frame \in DOMAIN sent
  BY DEF TypeOK
<1>2. One(frame)
  BY <1>1 DEF PlaceInv
<1> QED BY <1>2 DEF One, NowhereElse, InHand

LEMMA NextHome ==
  ASSUME TypeOK, OrderInv, HomeInv, [Next]_vars
  PROVE  HomeInv'
<1>1. CASE \E c \in Conns : \E h \in Commands[c] : Push(c, h)
  <2>1. PICK c \in Conns : \E h \in Commands[c] : Push(c, h)
    BY <1>1
  <2>2. PICK h \in Commands[c] : Push(c, h)
    BY <2>1
  <2>3. queued' = queued /\ \A i \in DOMAIN sent : sent'[i] = sent[i]
    BY <2>2, PushIs DEF Push, borders
  <2>4. \A d \in Dests : \A k \in DOMAIN queued[d] : queued[d][k] \in DOMAIN sent
    BY DEF TypeOK
  <2> QED BY <2>3, <2>4 DEF HomeInv
<1>2. CASE SendEnqueue
  <2>1. PICK e \in Dests : e = Hdr.dest
    BY <1>2, KeptDest DEF OrderInv, KeptInv, SendEnqueue
  <2>2. queued' = [queued EXCEPT ![e] = Append(@, frame)] /\ sent' = sent
    BY <1>2, <2>1 DEF SendEnqueue, connvars
  <2>3. queued \in [Dests -> Seq(DOMAIN sent)]
    BY DEF TypeOK
  <2>4. queued'[e] = Append(queued[e], frame) /\ \A d \in Dests : d # e => queued'[d] = queued[d]
    BY <2>2, <2>3
  <2>5. \A k \in DOMAIN queued'[e] :
          queued'[e][k] = frame \/ (k \in DOMAIN queued[e] /\ queued'[e][k] = queued[e][k])
    <3>1. PICK q \in Seq(DOMAIN sent) : q = queued[e]
      BY <2>3
    <3>2. \A k \in DOMAIN Append(q, frame) :
            Append(q, frame)[k] = frame \/ (k \in DOMAIN q /\ Append(q, frame)[k] = q[k])
      OBVIOUS
    <3> QED BY <2>4, <3>1, <3>2
  <2>6. sent[frame].h.dest = e
    BY <2>1 DEF Hdr
  <2> QED BY <2>2, <2>4, <2>5, <2>6 DEF HomeInv
<1>3. CASE UNCHANGED <<sent, queued>>
  BY <1>3 DEF HomeInv
<1>4. \/ UNCHANGED <<sent, queued>> \/ SendEnqueue
      \/ \E c \in Conns : \E h \in Commands[c] : Push(c, h)
  <2>1. CASE handle_frame
    <3>1. CASE SendPersist
      BY <3>1 DEF SendPersist, connvars
    <3>2. CASE SendReceipt \/ SendReturns
      BY <3>2 DEF SendReceipt, SendReturns, connvars, borders
    <3> QED BY <2>1, <3>1, <3>2, HandlersLeave DEF handle_frame
  <2>2. CASE UNCHANGED vars \/ get_frame_from_bucket \/ Unblock
             \/ \E d \in Dests : multicast_worker(d)
    BY <2>2 DEF vars, get_frame_from_bucket, Unblock, multicast_worker, connvars, borders
  <2>3. CASE \E c \in Conns : Accept(c) \/ Close(c)
    BY <2>3 DEF Accept, Close, borders
  <2> QED BY <2>1, <2>2, <2>3 DEF Next, stomp_management_worker
<1> QED BY <1>1, <1>2, <1>3, <1>4

LEMMA NextStale ==
  ASSUME TypeOK, TypeOK', PlaceInv, PlaceInv', HomeInv, StaleInv, [Next]_vars
  PROVE  StaleInv'
<1>1. CASE frame' = 0
  <2>1. freed' \subseteq DOMAIN sent' /\ 0 \notin DOMAIN sent'
    BY DEF TypeOK
  <2> QED BY <1>1, <2>1 DEF StaleInv
<1>2. CASE UNCHANGED <<frame, freed, sent>>
  BY <1>2 DEF StaleInv, Hdr
<1>3. CASE get_frame_from_bucket
  <2>1. pc' = "handle"
    BY <1>3 DEF get_frame_from_bucket
  <2>2. ~Borrowed'
    BY <2>1 DEF Borrowed
  <2>3. InHand' = frame'
    BY <2>2 DEF InHand
  <2>4. frame' \in freed' => frame' \in DOMAIN sent'
    BY DEF TypeOK
  <2>5. ASSUME frame' \in freed' PROVE FALSE
    <3>1. One(frame)'
      BY <2>4, <2>5 DEF PlaceInv
    <3> QED BY <2>3, <2>5, <3>1 DEF One, NowhereElse
  <2> QED BY <2>5 DEF StaleInv
<1>4. CASE \E c \in Conns : \E h \in Commands[c] : Push(c, h)
  <2>1. PICK c \in Conns : \E h \in Commands[c] : Push(c, h)
    BY <1>4
  <2>2. PICK h \in Commands[c] : Push(c, h)
    BY <2>1
  <2>3. UNCHANGED <<frame, freed, pc>> /\ (pc # "idle" => Hdr' = Hdr)
    BY <2>2, PushHand DEF Push
  <2>4. frame \in freed => pc # "idle"
    BY DEF TypeOK
  <2> QED BY <2>3, <2>4 DEF StaleInv
<1>5. CASE \E d \in Dests : multicast_worker(d)
  <2>1. PICK d \in Dests : multicast_worker(d)
    BY <1>5
  <2>2. PICK x : x = queued[d][taken[d] + 1]
    OBVIOUS
  <2>3. /\ d \in Topics /\ freed' = freed \cup {x} /\ UNCHANGED <<sent, frame>>
        /\ taken[d] + 1 \in DOMAIN queued[d]
    BY <2>1, <2>2, MulticastIs
  <2>4. sent[x].h.dest = d
    BY <2>2, <2>3 DEF HomeInv
  <2> QED BY <2>3, <2>4 DEF StaleInv, Hdr
<1>6. \/ frame' = 0 \/ UNCHANGED <<frame, freed, sent>> \/ get_frame_from_bucket
      \/ \E c \in Conns : \E h \in Commands[c] : Push(c, h)
      \/ \E d \in Dests : multicast_worker(d)
  <2>1. CASE handle_frame
    <3>1. sent' = sent
      BY <2>1, HandlersSend
    <3>2. frame' = 0 \/ UNCHANGED <<frame, freed>>
      <4>1. CASE SendInvalid \/ SendNowhere \/ SendTransaction \/ TransactionRefused
                 \/ handler_stomp_connect \/ handler_stomp_disconnect \/ handler_stomp_subscribe
        BY <4>1 DEF SendInvalid, SendNowhere, SendTransaction, TransactionRefused,
           handler_stomp_connect, handler_stomp_disconnect, handler_stomp_subscribe,
           KeepFrame, FreeFrame, Reply, ReplyTo
      <4>2. CASE handler_stomp_begin \/ handler_stomp_abort \/ handler_stomp_commit
                 \/ CommitReturn \/ handler_stomp_unsubscribe \/ handler_stomp_ack
                 \/ handler_stomp_nack
        BY <4>2 DEF handler_stomp_begin, handler_stomp_abort, handler_stomp_commit, CommitReturn,
           handler_stomp_unsubscribe, handler_stomp_ack, handler_stomp_nack, FreeFrame
      <4>3. CASE SendPersist \/ SendEnqueue \/ SendReceipt \/ SendReturns
        BY <4>3 DEF SendPersist, SendEnqueue, SendReceipt, SendReturns, KeepFrame, FreeFrame, ReplyTo
      <4> QED BY <2>1, <4>1, <4>2, <4>3 DEF handle_frame
    <3> QED BY <3>1, <3>2
  <2>2. CASE UNCHANGED vars \/ Unblock \/ \E c \in Conns : Accept(c) \/ Close(c)
    BY <2>2 DEF vars, Unblock, Accept, Close, connvars
  <2> QED BY <2>1, <2>2 DEF Next, stomp_management_worker
<1> QED BY <1>1, <1>2, <1>3, <1>4, <1>5, <1>6

LEMMA PlaceInductive == Spec => [](TypeOK /\ OrderInv /\ PlaceInv /\ HomeInv /\ StaleInv)
<1>1. Init => PlaceInv /\ HomeInv /\ StaleInv
  BY DEF Init, T!Init, PlaceInv, HomeInv, StaleInv
<1>2. TypeOK /\ OrderInv /\ PlaceInv /\ HomeInv /\ StaleInv /\ [Next]_vars /\ TypeOK'
        => PlaceInv' /\ HomeInv' /\ StaleInv'
  BY NextPlace, NextHome, NextStale
<1> QED BY <1>1, <1>2, OrderInductive, PTL DEF Spec

(* Every complete frame is in exactly one place for ever after: no handler *)
(* loses one, queues one twice, or frees one that a queue or a transaction *)
(* still leads to.  The worker has a freed frame at hand only for the      *)
(* receipt of a SEND to a topic.                                           *)
THEOREM Placed == Spec => []OnePlace
<1>1. TypeOK /\ PlaceInv /\ StaleInv => OnePlace
  BY OneIsOnePlace, HandNotFreed DEF PlaceInv, StaleInv, OnePlace
<1> QED BY <1>1, PlaceInductive, PTL

-----------------------------------------------------------------------------
(***************************************************************************)
(* Sockets: the numbers in use are distinct, a closed connection has none, *)
(* and the number a frame carries is that of its connection as long as the *)
(* connection is open.                                                     *)
(***************************************************************************)
NumberInv ==
  /\ \A c, e \in Conns : sock[c] # 0 /\ sock[c] = sock[e] => c = e
  /\ \A c \in gone : sock[c] = 0
  /\ \A i \in DOMAIN sent : sent[i].sock = sock[sent[i].conn] \/ sent[i].conn \in gone
Rightly(r) ==
  \/ r.to \subseteq {sent[r.frame].conn} \/ sent[r.frame].conn \in gone
  \/ r.stale /\ r.what = "RECEIPT" /\ sent[r.frame].h.dest \in Topics
ReplyInv == \A r \in replies : Rightly(r)
WorkerInv == \A w \in registered : w.sock = sent[w.frame].sock
SocketInv == NumberInv /\ ReplyInv /\ WorkerInv

(* Nobody else has the number of a frame whose connection is open. *)
LEMMA OwnerOf ==
  ASSUME TypeOK, NumberInv, NEW i \in DOMAIN sent
  PROVE  Owners(sent[i].sock) \subseteq {sent[i].conn} \/ sent[i].conn \in gone
<1>1. sent[i] \in FrameObject
  BY DEF TypeOK
<1>2. sent[i].conn \in Conns
  BY <1>1 DEF FrameObject
<1> QED BY <1>2 DEF NumberInv, Owners

LEMMA AcceptSocket ==
  ASSUME TypeOK, SocketInv, NEW c \in Conns, Accept(c)
  PROVE  SocketInv'
<1>1. UNCHANGED <<gone, sent, registered, replies>>
  BY DEF Accept, borders
<1>2. c \notin gone /\ sock[c] = 0 /\ sock \in [Conns -> 0 .. Cardinality(Conns)]
  BY DEF Accept, TypeOK
<1>3. \A e \in Conns : sock'[e] = IF e = c THEN FreeFd ELSE sock[e]
  BY <1>2 DEF Accept
<1>4. FreeFd # 0 /\ \A e \in Conns : sock[e] # FreeFd
  BY <1>2, FreeFdIsFree DEF Owners
<1>5. \A i \in DOMAIN sent : sent[i].conn \in Conns /\ sent[i].sock # 0
  <2> SUFFICES ASSUME NEW i \in DOMAIN sent PROVE sent[i].conn \in Conns /\ sent[i].sock # 0
    OBVIOUS
  <2>1. sent[i] \in FrameObject
    BY DEF TypeOK
  <2> QED BY <2>1 DEF FrameObject
<1>6. \A i \in DOMAIN sent : sent[i].conn # c
  BY <1>2, <1>5 DEF SocketInv, NumberInv
<1>7. gone \subseteq Conns
  BY DEF TypeOK
<1>8. NumberInv'
  <2>1. \A b, e \in Conns : sock'[b] # 0 /\ sock'[b] = sock'[e] => b = e
    BY <1>3, <1>4 DEF SocketInv, NumberInv
  <2>2. \A e \in gone : sock'[e] = 0
    BY <1>2, <1>3, <1>7 DEF SocketInv, NumberInv
  <2>3. \A i \in DOMAIN sent : sent[i].sock = sock'[sent[i].conn] \/ sent[i].conn \in gone
    BY <1>3, <1>5, <1>6 DEF SocketInv, NumberInv
  <2> QED BY <1>1, <2>1, <2>2, <2>3 DEF NumberInv
<1>9. ReplyInv' /\ WorkerInv'
  BY <1>1 DEF SocketInv, ReplyInv, Rightly, WorkerInv
<1> QED BY <1>8, <1>9 DEF SocketInv

LEMMA CloseSocket ==
  ASSUME TypeOK, SocketInv, NEW c \in Conns, Close(c)
  PROVE  SocketInv'
<1>1. UNCHANGED <<sent, registered, replies>> /\ gone' = gone \cup {c} /\ gone \subseteq Conns
  BY DEF Close, borders, TypeOK
<1>2. \A e \in Conns : sock'[e] = IF e = c THEN 0 ELSE sock[e]
  BY DEF Close, TypeOK
<1>3. \A i \in DOMAIN sent : sent[i].conn \in Conns
  <2> SUFFICES ASSUME NEW i \in DOMAIN sent PROVE sent[i].conn \in Conns
    OBVIOUS
  <2>1. sent[i] \in FrameObject
    BY DEF TypeOK
  <2> QED BY <2>1 DEF FrameObject
<1>4. NumberInv'
  <2>1. \A b, e \in Conns : sock'[b] # 0 /\ sock'[b] = sock'[e] => b = e
    BY <1>2 DEF SocketInv, NumberInv
  <2>2. \A e \in gone' : sock'[e] = 0
    BY <1>1, <1>2 DEF SocketInv, NumberInv
  <2>3. \A i \in DOMAIN sent : sent[i].sock = sock'[sent[i].conn] \/ sent[i].conn \in gone'
    BY <1>1, <1>2, <1>3 DEF SocketInv, NumberInv
  <2> QED BY <1>1, <2>1, <2>2, <2>3 DEF NumberInv
<1>5. ReplyInv' /\ WorkerInv'
  BY <1>1 DEF SocketInv, ReplyInv, Rightly, WorkerInv
<1> QED BY <1>4, <1>5 DEF SocketInv

LEMMA PushSocket ==
  ASSUME TypeOK, SocketInv, NEW c \in Conns, NEW h \in Commands[c], Push(c, h)
  PROVE  SocketInv'
<1>1. UNCHANGED <<sock, gone, registered, replies>>
  BY DEF Push, borders
<1>2. \A i \in DOMAIN sent : i \in DOMAIN sent' /\ sent'[i] = sent[i]
  <2>1. Len(sent) \in Nat /\ DOMAIN sent' = 1 .. Len(sent) + 1 /\ DOMAIN sent = 1 .. Len(sent)
    BY PushIs
  <2>2. DOMAIN sent \subseteq DOMAIN sent'
    BY <2>1
  <2> QED BY <2>2, PushIs
<1>3. \A i \in DOMAIN sent' : i \in DOMAIN sent \/ sent'[i] = [conn |-> c, sock |-> sock[c], h |-> h]
  <2>1. Len(sent) \in Nat /\ DOMAIN sent' = 1 .. Len(sent) + 1 /\ DOMAIN sent = 1 .. Len(sent)
    BY PushIs
  <2>2. \A i \in DOMAIN sent' : i \in DOMAIN sent \/ i = Len(sent) + 1
    BY <2>1
  <2> QED BY <2>2, PushIs
<1>4. NumberInv'
  <2>1. \A i \in DOMAIN sent' : sent'[i].sock = sock[sent'[i].conn] \/ sent'[i].conn \in gone
    BY <1>2, <1>3 DEF SocketInv, NumberInv
  <2> QED BY <1>1, <2>1 DEF SocketInv, NumberInv
<1>5. ReplyInv' /\ WorkerInv'
  <2>1. \A x \in registered \cup replies : x.frame \in DOMAIN sent
    BY DEF TypeOK
  <2> QED BY <1>1, <1>2, <2>1 DEF SocketInv, ReplyInv, Rightly, WorkerInv
<1> QED BY <1>4, <1>5 DEF SocketInv

(* The number a reply is sent to. *)
ReadRight(what, fd) ==
  fd = sent[frame].sock \/ (frame \in freed /\ what = "RECEIPT" /\ Hdr.dest \in Topics)

LEMMA ReplySocket ==
  ASSUME TypeOK, SocketInv, pc # "idle", UNCHANGED <<sent, gone>>,
         UNCHANGED replies \/ \E what, fd : ReplyTo(what, fd) /\ ReadRight(what, fd)
  PROVE  ReplyInv'
<1>1. CASE UNCHANGED replies
  BY <1>1 DEF SocketInv, ReplyInv, Rightly
<1>2. ASSUME NEW what, NEW fd, ReplyTo(what, fd), ReadRight(what, fd) PROVE ReplyInv'
  <2>1. PICK new : new = [frame |-> frame, what |-> what, to |-> Owners(fd),
                          stale |-> frame \in freed]
    BY Zenon
  <2>2. new.frame = frame /\ new.what = what /\ new.to = Owners(fd) /\ (frame \in freed => new.stale)
    BY <2>1, Zenon
  <2>3. Owners(sent[frame].sock) \subseteq {sent[frame].conn} \/ sent[frame].conn \in gone
    BY FrameAtHand, OwnerOf DEF SocketInv
  <2>4. Rightly(new)
    BY <1>2, <2>2, <2>3 DEF ReadRight, Rightly, Hdr
  <2>5. replies' = replies \cup {new}
    BY <1>2, <2>1 DEF ReplyTo
  <2>6. \A x \in replies' : Rightly(x)
    BY <2>4, <2>5 DEF SocketInv, ReplyInv
  <2>7. \A x : Rightly(x) => Rightly(x)'
    BY DEF Rightly
  <2> QED BY <2>6, <2>7 DEF ReplyInv
<1> QED BY <1>1, <1>2

LEMMA WorkerSocket ==
  ASSUME SocketInv, UNCHANGED sent,
         UNCHANGED registered \/ \E kind, name : register_worker(kind, name)
  PROVE  WorkerInv'
<1>1. CASE UNCHANGED registered
  BY <1>1 DEF SocketInv, WorkerInv
<1>2. ASSUME NEW kind, NEW name, register_worker(kind, name) PROVE WorkerInv'
  <2> DEFINE new == [frame |-> frame, kind |-> kind, name |-> name, sock |-> sent[frame].sock]
  <2>1. new.sock = sent[new.frame].sock
    OBVIOUS
  <2>2. registered' = registered \cup {new}
    BY <1>2 DEF register_worker
  <2> HIDE DEF new
  <2> QED BY <2>1, <2>2 DEF SocketInv, WorkerInv
<1> QED BY <1>1, <1>2

LEMMA NextSocket == ASSUME TypeOK, SocketInv, StaleInv, [Next]_vars PROVE SocketInv'
<1>1. CASE UNCHANGED <<sock, gone, sent, borders>>
  BY <1>1 DEF borders, SocketInv, NumberInv, ReplyInv, Rightly, WorkerInv
<1>2. CASE \E c \in Conns : Accept(c) \/ Close(c) \/ \E h \in Commands[c] : Push(c, h)
  BY <1>2, AcceptSocket, CloseSocket, PushSocket
<1>3. CASE handle_frame
  <2>1. NumberInv'
    BY <1>3, HandlersSend DEF SocketInv, NumberInv
  <2>2. UNCHANGED replies \/ \E what, fd : ReplyTo(what, fd) /\ ReadRight(what, fd)
    <3>1. \A what : Reply(what) => ReplyTo(what, sent[frame].sock) /\ ReadRight(what, sent[frame].sock)
      BY DEF Reply, ReadRight
    <3>2. \A fd : frame \in freed \/ fd = sent[frame].sock => ReadRight("RECEIPT", fd)
      BY DEF ReadRight, StaleInv
    <3> QED BY <1>3, <3>1, <3>2, HandlersSend
  <2>3. ReplyInv' /\ WorkerInv'
    BY <1>3, <2>2, HandlersSend, ReplySocket, WorkerSocket
  <2> QED BY <2>1, <2>3 DEF SocketInv
<1>4. UNCHANGED vars \/ get_frame_from_bucket \/ Unblock \/ (\E d \in Dests : multicast_worker(d))
        => UNCHANGED <<sock, gone, sent, borders>>
  BY DEF vars, get_frame_from_bucket, Unblock, multicast_worker, connvars
<1> QED BY <1>1, <1>2, <1>3, <1>4 DEF Next, stomp_management_worker

(* A reply, and a worker that was started for a client, reach a connection *)
(* other than the one that asked only when that one has been closed, or    *)
(* when a receipt was sent to the number read out of a freed frame of a    *)
(* topic: the number in a frame is otherwise still its own.                *)
THEOREM Replies == Spec => []AnotherOnlyAfterClose
<1>1. Init => SocketInv
  BY DEF Init, SocketInv, NumberInv, ReplyInv, WorkerInv
<1>2. TypeOK /\ SocketInv /\ StaleInv /\ [Next]_vars => SocketInv'
  BY NextSocket
<1>3. TypeOK /\ SocketInv => AnotherOnlyAfterClose
  <2> SUFFICES ASSUME TypeOK, SocketInv PROVE AnotherOnlyAfterClose
    OBVIOUS
  <2>1. \A w \in registered :
          Owners(w.sock) \subseteq {sent[w.frame].conn} \/ sent[w.frame].conn \in gone
    BY OwnerOf DEF SocketInv, WorkerInv, TypeOK
  <2> QED BY <2>1 DEF SocketInv, ReplyInv, Rightly, AnotherOnlyAfterClose
<1> QED BY <1>1, <1>2, <1>3, PlaceInductive, PTL DEF Spec

=============================================================================
