--------------------------- MODULE QueueBoxProofs ---------------------------
(***************************************************************************)
(* Proofs about QueueBox, for any threads, names, hash function, table     *)
(* size and number of frames.                                              *)
(***************************************************************************)
EXTENDS QueueBox, FiniteSetTheorems, TLAPS

USE DEF NULL

(* A hash falls on an index of queuebox. *)
LEMMA IndexType == \A h \in Hashes : h \in Nat /\ Index(h) \in Indexes
BY SizeAssumption, HashAssumption DEF Hashes, Index, Indexes

LEMMA NoHashType == NoHash \in Hashes
BY NamesAssumption DEF NoHash, Hashes

(* The fields of a queue object. *)
LEMMA ObjectType ==
  ASSUME TypeOK, NEW q \in DOMAIN queues
  PROVE  /\ queues[q] = [hashnum |-> queues[q].hashnum, entries |-> queues[q].entries]
         /\ queues[q].hashnum \in Hashes
         /\ queues[q].entries \in Seq(Data)
<1>1. queues[q] \in QueueObject
  BY DEF TypeOK
<1> QED
  BY <1>1 DEF QueueObject

(* Max picks the largest element when there is one. *)
LEMMA MaxIsLargest ==
  ASSUME NEW M, M \in SUBSET Nat, \E k \in M : \A j \in M : j <= k
  PROVE  Max(M) \in M /\ \A j \in M : j <= Max(M)
BY DEF Max

(* A search that finds something finds an object of the hash that is in    *)
(* the list of its index.                                                  *)
LEMMA SearchMatches ==
  ASSUME TypeOK, BoxInv, NEW h \in Hashes, Linked(h)
  PROVE  /\ Search(h) \in DOMAIN queues /\ Search(h) # NULL
         /\ queues[Search(h)].hashnum = h
         /\ \E k \in DOMAIN box[Index(h)] : box[Index(h)][k] = Search(h)
<1> DEFINE l == box[Index(h)]
           M == Matches(l, h)
<1>1. l \in Seq(DOMAIN queues)
  BY IndexType DEF TypeOK
<1>2. M \in SUBSET Nat /\ M \subseteq DOMAIN l
  BY <1>1 DEF Matches
<1>3. Max(M) \in M
  BY <1>2, MaxIsLargest DEF BoxInv
<1>4. Search(h) = l[Max(M)]
  BY DEF Search, LastMatch
<1>5. \A k \in DOMAIN l : l[k] \in DOMAIN queues
  BY <1>1
<1>6. Max(M) \in DOMAIN l /\ queues[l[Max(M)]].hashnum = h
  BY <1>3 DEF Matches
<1>7. NULL \notin DOMAIN queues
  BY DEF TypeOK
<1> QED
  BY <1>4, <1>5, <1>6, <1>7

(* Steps that leave the lists and the hash values of the objects alone     *)
(* leave every search alone.                                               *)
LEMMA SearchFrame ==
  ASSUME TypeOK, box' = box,
         DOMAIN queues \subseteq DOMAIN queues',
         \A q \in DOMAIN queues : queues'[q].hashnum = queues[q].hashnum,
         NEW h \in Hashes
  PROVE  /\ Matches(box[Index(h)], h)' = Matches(box[Index(h)], h)
         /\ Linked(h)' <=> Linked(h)
         /\ Search(h)' = Search(h)
<1> DEFINE l == box[Index(h)]
<1>1. l \in Seq(DOMAIN queues)
  BY IndexType DEF TypeOK
<1>2. Matches(l, h)' = Matches(l, h)
  BY <1>1 DEF Matches
<1> QED
  BY <1>2 DEF Linked, Search, LastMatch

(* Linking an object in front of its list: where a search found something  *)
(* it finds the same, where it found nothing it finds the new object.      *)
LEMMA SearchLink ==
  ASSUME TypeOK, BoxInv, NEW t \in Threads, LinkQueue(t), cur[t] \in DOMAIN queues,
         queues[cur[t]].hashnum = hash[t], NEW h \in Hashes
  PROVE  /\ Linked(h) => Linked(h)' /\ Search(h)' = Search(h)
         /\ ~Linked(h) /\ h # hash[t] => ~Linked(h)' /\ Search(h)' = Search(h)
         /\ ~Linked(h) /\ h = hash[t] => Linked(h)' /\ Search(h)' = cur[t]
         /\ Linked(h)' =>
              \E k \in Matches(box[Index(h)], h)' :
                \A j \in Matches(box[Index(h)], h)' : j <= k
<1> DEFINE i == Index(hash[t])
           l == box[Index(h)]
           m == box'[Index(h)]
           L == Matches(l, h)
           M == Matches(l, h)'
<1>1. /\ hash[t] \in Hashes /\ i \in Indexes /\ Index(h) \in Indexes
      /\ l \in Seq(DOMAIN queues) /\ box[i] \in Seq(DOMAIN queues)
      /\ queues' = queues /\ pc[t] = "link"
  BY IndexType DEF TypeOK, LinkQueue
<1>2. CASE Index(h) # i
  <2>1. m = l
    BY <1>1, <1>2 DEF LinkQueue, TypeOK
  <2>2. M = L
    BY <1>1, <2>1 DEF Matches
  <2>3. h # hash[t]
    BY <1>2
  <2> QED
    BY <2>1, <2>2, <2>3 DEF Linked, Search, LastMatch, BoxInv
<1>3. CASE Index(h) = i
  <2>1. m = <<cur[t]>> \o l
    BY <1>1, <1>3 DEF LinkQueue, TypeOK
  <2>2. /\ m[1] = cur[t]
        /\ DOMAIN l = 1 .. Len(l) /\ Len(l) \in Nat
        /\ DOMAIN m = 1 .. (Len(l) + 1)
        /\ \A k \in DOMAIN l : m[k + 1] = l[k]
    BY <1>1, <2>1
  <2>3. L \in SUBSET Nat /\ M \in SUBSET Nat
    BY <2>2 DEF Matches
  <2>4. \A k \in DOMAIN l : k \in L <=> (k + 1) \in M
    BY <1>1, <2>2 DEF Matches
  <2>5. 1 \in M <=> h = hash[t]
    BY <1>1, <2>2 DEF Matches
  <2>6. \A j \in M : j = 1 \/ (j - 1) \in L
    <3> SUFFICES ASSUME NEW j \in M, j # 1 PROVE (j - 1) \in L
      OBVIOUS
    <3>1. (j - 1) \in DOMAIN l /\ (j - 1) + 1 = j
      BY <2>2 DEF Matches
    <3> QED
      BY <2>4, <3>1
  <2>7. CASE Linked(h)
    <3>1. PICK k \in L : \A j \in L : j <= k
      BY <2>7 DEF BoxInv
    <3>2. k + 1 \in M /\ \A j \in M : j <= k + 1
      <4>1. k \in DOMAIN l /\ k \in Nat /\ k >= 1
        BY <2>2 DEF Matches
      <4>2. \A j \in M : j <= k + 1
        <5> HIDE DEF L, M
        <5> QED
          BY <2>3, <2>6, <3>1, <4>1
      <4> QED
        BY <2>4, <4>1, <4>2
    <3>3. Max(L) = k
      BY <2>3, <3>1, MaxIsLargest
    <3>4. Max(M) = k + 1
      BY <2>3, <3>2, MaxIsLargest
    <3>5. m[k + 1] = l[k]
      BY <2>2, <3>1 DEF Matches
    <3>6. Linked(h)'
      BY <3>2 DEF Linked
    <3> QED
      BY <2>7, <3>2, <3>3, <3>4, <3>5, <3>6 DEF Search, LastMatch
  <2>8. CASE ~Linked(h)
    <3>1. L = {}
      BY <2>8 DEF Linked
    <3>2. CASE h = hash[t]
      <4>1. M = {1}
        BY <2>5, <2>6, <3>1, <3>2
      <4>2. Max(M) = 1
        BY <4>1, <2>3, MaxIsLargest
      <4> QED
        BY <2>2, <2>8, <3>2, <4>1, <4>2 DEF Linked, Search, LastMatch
    <3>3. CASE h # hash[t]
      <4>1. M = {}
        BY <2>5, <2>6, <3>1, <3>3
      <4> QED
        BY <2>8, <3>3, <4>1 DEF Linked, Search
    <3> QED
      BY <3>2, <3>3
  <2> QED
    BY <2>7, <2>8
<1> QED
  BY <1>2, <1>3

-----------------------------------------------------------------------------
(* Steps as in SearchFrame keep BoxInv. *)
LEMMA BoxFrame ==
  ASSUME Inv, box' = box,
         DOMAIN queues \subseteq DOMAIN queues',
         \A q \in DOMAIN queues : queues'[q].hashnum = queues[q].hashnum
  PROVE  /\ BoxInv'
         /\ \A h \in Hashes : (Linked(h)' <=> Linked(h)) /\ Search(h)' = Search(h)
<1>1. \A h \in Hashes : /\ Matches(box[Index(h)], h)' = Matches(box[Index(h)], h)
                        /\ Linked(h)' <=> Linked(h)
                        /\ Search(h)' = Search(h)
  BY SearchFrame DEF Inv
<1>2. \A i \in Indexes : \A k \in DOMAIN box[i] : box[i][k] \in DOMAIN queues
  BY DEF Inv, TypeOK
<1>3. (\A i \in Indexes : \A k \in DOMAIN box[i] : Index(queues[box[i][k]].hashnum) = i)'
  BY <1>2 DEF Inv, BoxInv, Index
<1>4. (\A h \in Hashes : Linked(h) =>
         \E k \in Matches(box[Index(h)], h) : \A j \in Matches(box[Index(h)], h) : j <= k)'
  <2> SUFFICES ASSUME NEW h \in Hashes, Linked(h)'
               PROVE  \E k \in Matches(box[Index(h)], h)' :
                        \A j \in Matches(box[Index(h)], h)' : j <= k
    OBVIOUS
  <2>1. Linked(h) /\ Matches(box[Index(h)], h)' = Matches(box[Index(h)], h)
    BY <1>1
  <2>2. \E k \in Matches(box[Index(h)], h) : \A j \in Matches(box[Index(h)], h) : j <= k
    BY <2>1 DEF Inv, BoxInv
  <2> QED
    BY <2>1, <2>2
<1>5. BoxInv'
  BY <1>3, <1>4 DEF BoxInv
<1> QED
  BY <1>1, <1>5

(* Steps of t that change nothing shared and leave t outside "link" and    *)
(* "use" with a NULL object.                                               *)
LEMMA LocalStep ==
  ASSUME Inv, NEW t \in Threads,
         box' = box, queues' = queues, used' = used,
         \A u \in Threads \ {t} : pc'[u] = pc[u] /\ hash'[u] = hash[u] /\ cur'[u] = cur[u],
         pc'[t] \in {"idle", "head", "find"}, cur'[t] = NULL
  PROVE  BoxInv' /\ CurInv' /\ UsedInv' /\ AtMostOneStranded'
<1>1. BoxInv' /\ \A h \in Hashes : (Linked(h)' <=> Linked(h)) /\ Search(h)' = Search(h)
  BY BoxFrame
<1>2. \A u \in Threads : hash[u] \in Hashes
  BY DEF Inv, TypeOK
<1>3. \A u \in Threads \ {t} : Owns(u) /\ cur[u] # NULL => Owns(u)'
  BY DEF Owns
<1>4. CurInv'
  BY <1>1, <1>2, <1>3 DEF Inv, CurInv
<1>5. UsedInv'
  BY <1>1, <1>2 DEF Inv, UsedInv, Threads
<1>6. \A q \in DOMAIN queues : queues[q].hashnum \in Hashes
  BY ObjectType DEF Inv
<1>7. AtMostOneStranded'
  BY <1>1, <1>6 DEF Inv, AtMostOneStranded
<1> QED
  BY <1>1, <1>4, <1>5, <1>7

-----------------------------------------------------------------------------
(* The inductive invariant holds initially. *)
LEMMA InvInit == Init => Inv
<1> SUFFICES ASSUME Init PROVE Inv
  OBVIOUS
<1>1. \A h \in Hashes : Matches(box[Index(h)], h) = {}
  BY IndexType DEF Init, Matches
<1>2. \A h \in Hashes : ~Linked(h)
  BY <1>1 DEF Linked
<1>3. TypeOK
  <2>1. queues \in Seq(QueueObject) /\ box \in [Indexes -> Seq(DOMAIN queues)]
    BY DEF Init
  <2>2. oom \in 0 .. MaxOOM /\ accepted \in 0 .. MaxFrames
    BY BoundsAssumption DEF Init
  <2>5. /\ heads \in SUBSET Indexes /\ leaked \in BOOLEAN /\ failed \in SUBSET Data
        /\ used \in SUBSET (Producers \X Hashes)
    BY Zenon DEF Init
  <2>4. taken \in [Hashes -> Seq(Data)]
    BY DEF Init
  <2>3. /\ pc \in [Threads -> {"idle", "head", "find", "create", "link", "use"}]
        /\ hash \in [Threads -> Hashes]
        /\ data \in [Producers -> {NULL} \cup Data]
        /\ cur \in [Threads -> {NULL} \cup DOMAIN queues]
    BY NoHashType DEF Init
  <2> QED
    BY <2>1, <2>2, <2>3, <2>4, <2>5 DEF TypeOK
<1>4. BoxInv
  BY <1>2 DEF Init, BoxInv
<1>5. CurInv /\ UsedInv /\ DataInv /\ AtMostOneStranded
  BY DEF Init, CurInv, UsedInv, DataInv, AtMostOneStranded, Threads
<1> QED
  BY <1>3, <1>4, <1>5 DEF Inv

(* The calls that start, and the ones that give up. *)
LEMMA InvEnqueue == ASSUME Inv, NEW p \in Producers, NEW n \in QNames, Enqueue(p, n) PROVE Inv'
<1>1. p \in Threads /\ Hash[n] \in Hashes /\ cur[p] = NULL /\ pc' = [pc EXCEPT ![p] = "head"]
  BY DEF Threads, Hashes, Enqueue, Inv, CurInv
<1>2. TypeOK'
  BY <1>1, BoundsAssumption DEF Inv, TypeOK, Enqueue, shared, Data
<1>3. DataInv'
  BY <1>1, BoundsAssumption DEF Inv, TypeOK, DataInv, Enqueue, Data
<1>4. BoxInv' /\ CurInv' /\ UsedInv' /\ AtMostOneStranded'
  BY <1>1, LocalStep DEF Inv, TypeOK, Enqueue, shared
<1> QED
  BY <1>2, <1>3, <1>4 DEF Inv

LEMMA InvEnqueueFails == ASSUME Inv, NEW p \in Producers, EnqueueFails(p) PROVE Inv'
<1>1. p \in Threads /\ cur[p] = NULL /\ pc[p] = "idle"
  BY DEF Threads, EnqueueFails, Inv, CurInv
<1>2. TypeOK'
  BY BoundsAssumption DEF Inv, TypeOK, EnqueueFails, MallocFails, shared, locals, Data
<1>3. DataInv'
  BY DEF Inv, DataInv, EnqueueFails, locals
<1>4. BoxInv' /\ CurInv' /\ UsedInv' /\ AtMostOneStranded'
  BY <1>1, LocalStep DEF Inv, TypeOK, EnqueueFails, shared, locals
<1> QED
  BY <1>2, <1>3, <1>4 DEF Inv

LEMMA InvDequeue == ASSUME Inv, NEW c \in Consumers, Dequeue(c) PROVE Inv'
<1>1. c \in Threads /\ c \notin Producers /\ cur[c] = NULL /\ Hash[Dest[c]] \in Hashes
  BY ThreadsAssumption, DestAssumption DEF Threads, Hashes, Dequeue, Inv, CurInv
<1>2. TypeOK'
  BY <1>1 DEF Inv, TypeOK, Dequeue, shared, history
<1>3. DataInv'
  BY <1>1 DEF Inv, DataInv, Dequeue, TypeOK, Threads
<1>4. BoxInv' /\ CurInv' /\ UsedInv' /\ AtMostOneStranded'
  BY <1>1, LocalStep DEF Inv, TypeOK, Dequeue, shared, history
<1> QED
  BY <1>2, <1>3, <1>4 DEF Inv

LEMMA InvGiveUp ==
  ASSUME Inv, NEW t \in Threads, pc[t] # "idle", GiveUp(t), MallocFails,
         heads' = heads, box' = box, queues' = queues, leaked' \in BOOLEAN
  PROVE  Inv'
<1>1. TypeOK'
  BY NoHashType, BoundsAssumption DEF Inv, TypeOK, GiveUp, Return, MallocFails, DataInv
<1>2. DataInv'
  BY DEF Inv, TypeOK, DataInv, GiveUp, Return, Threads
<1>3. BoxInv' /\ CurInv' /\ UsedInv' /\ AtMostOneStranded'
  BY LocalStep DEF Inv, TypeOK, GiveUp, Return
<1> QED
  BY <1>1, <1>2, <1>3 DEF Inv

(* The locked sections of get_queue(). *)
LEMMA InvGetHead == ASSUME Inv, NEW t \in Threads, GetHead(t) PROVE Inv'
<1>1. cur[t] = NULL /\ Index(hash[t]) \in Indexes
  BY IndexType DEF GetHead, Inv, CurInv, TypeOK
<1>2. TypeOK'
  BY <1>1 DEF Inv, TypeOK, GetHead, history
<1>3. DataInv'
  BY DEF Inv, TypeOK, DataInv, GetHead, Threads
<1>4. BoxInv' /\ CurInv' /\ UsedInv' /\ AtMostOneStranded'
  BY <1>1, LocalStep DEF Inv, TypeOK, GetHead, history
<1> QED
  BY <1>2, <1>3, <1>4 DEF Inv

LEMMA InvFindQueue == ASSUME Inv, NEW t \in Threads, FindQueue(t) PROVE Inv'
<1>1. /\ cur[t] = NULL /\ hash[t] \in Hashes /\ pc[t] = "find"
      /\ box' = box /\ queues' = queues /\ used' = used /\ hash' = hash
      /\ \A u \in Threads \ {t} : pc'[u] = pc[u] /\ cur'[u] = cur[u]
      /\ cur'[t] = Search(hash[t])
      /\ pc'[t] = IF Linked(hash[t]) THEN "use" ELSE "create"
  BY DEF FindQueue, Inv, CurInv, TypeOK, shared, history
<1>2. BoxInv' /\ \A h \in Hashes : (Linked(h)' <=> Linked(h)) /\ Search(h)' = Search(h)
  BY <1>1, BoxFrame
<1>3. \A h \in Hashes : Linked(h) =>
        /\ Search(h) \in DOMAIN queues
        /\ Search(h) # NULL
        /\ queues[Search(h)].hashnum = h
        /\ \E k \in DOMAIN box[Index(h)] : box[Index(h)][k] = Search(h)
  BY SearchMatches DEF Inv
<1>4. \A h \in Hashes : ~Linked(h) => Search(h) = NULL
  BY DEF Search
<1>5. TypeOK'
  BY <1>1, <1>3, <1>4 DEF Inv, TypeOK, FindQueue, shared, history
<1>6. DataInv'
  BY DEF Inv, TypeOK, DataInv, FindQueue, Threads
<1>7. \A u \in Threads : hash[u] \in Hashes /\ Index(hash[u]) \in Indexes
  BY IndexType DEF Inv, TypeOK
<1>8. CurInv'
  <2>1. ASSUME NEW u \in Threads \ {t}, pc[u] = "link"
        PROVE  Owns(u)' /\ (\A i \in Indexes : \A k \in DOMAIN box[i] : box[i][k] # cur[u])'
    <3>1. cur[u] # Search(hash[t])
      BY <1>1, <1>3, <1>4, <1>7, <2>1 DEF Inv, CurInv
    <3> QED
      BY <1>1, <2>1, <3>1 DEF Inv, CurInv, Owns
  <2>2. ASSUME NEW u \in Threads \ {t}, pc[u] = "use", cur[u] # Search(hash[u])
        PROVE  Owns(u)'
    <3>1. cur[u] # Search(hash[t])
      BY <1>1, <1>3, <1>4, <1>7, <2>2 DEF Inv, CurInv
    <3> QED
      BY <1>1, <2>2, <3>1 DEF Inv, CurInv, Owns
  <2> QED
    BY <1>1, <1>2, <1>3, <1>4, <1>7, <2>1, <2>2 DEF Inv, CurInv
<1>9. UsedInv'
  BY <1>1, <1>2, <1>7 DEF Inv, UsedInv, Threads
<1>10. AtMostOneStranded'
  BY <1>1, <1>2, ObjectType DEF Inv, AtMostOneStranded
<1> QED
  BY <1>2, <1>5, <1>6, <1>8, <1>9, <1>10 DEF Inv

(* create_queue(): the new object is nobody else's. *)
LEMMA InvCreateQueue == ASSUME Inv, NEW t \in Threads, CreateQueue(t) PROVE Inv'
<1> DEFINE n == Len(queues) + 1
           obj == [hashnum |-> hash[t], entries |-> <<>>]
<1>1. /\ queues \in Seq(QueueObject) /\ hash[t] \in Hashes /\ pc[t] = "create"
      /\ obj \in QueueObject
      /\ box' = box /\ used' = used /\ hash' = hash
      /\ \A u \in Threads \ {t} : pc'[u] = pc[u] /\ cur'[u] = cur[u]
      /\ cur'[t] = n
      /\ pc'[t] = "link"
  BY DEF CreateQueue, Inv, TypeOK, QueueObject, history
<1>2. queues' = Append(queues, obj)
  BY DEF CreateQueue
<1>3. /\ queues' \in Seq(QueueObject)
      /\ DOMAIN queues' = DOMAIN queues \cup {n}
      /\ n \notin DOMAIN queues /\ n # NULL
      /\ \A q \in DOMAIN queues : queues'[q] = queues[q]
      /\ queues'[n] = obj
  BY <1>1, <1>2
<1>4. BoxInv' /\ \A h \in Hashes : (Linked(h)' <=> Linked(h)) /\ Search(h)' = Search(h)
  BY <1>1, <1>3, BoxFrame
<1>5. TypeOK'
  <2>1. box' \in [Indexes -> Seq(DOMAIN queues')]
    <3>1. \A i \in Indexes : box[i] \in Seq(DOMAIN queues')
      BY <1>3 DEF Inv, TypeOK
    <3> QED
      BY <1>1, <3>1 DEF Inv, TypeOK
  <2>2. cur' \in [Threads -> {NULL} \cup DOMAIN queues']
    BY <1>3 DEF CreateQueue, Inv, TypeOK
  <2> QED
    BY <1>3, <2>1, <2>2 DEF Inv, TypeOK, CreateQueue, history
<1>6. DataInv'
  BY DEF Inv, TypeOK, DataInv, CreateQueue, Threads
<1>7. \A u \in Threads : hash[u] \in Hashes /\ cur[u] \in {NULL} \cup DOMAIN queues
  BY DEF Inv, TypeOK
<1>8. \A i \in Indexes : \A k \in DOMAIN box[i] : box[i][k] \in DOMAIN queues
  BY DEF Inv, TypeOK
<1>9. CurInv'
  <2>1. Owns(t)'
    BY <1>1, <1>3, <1>7 DEF Owns
  <2>2. \A u \in Threads \ {t} : Owns(u) /\ cur[u] # NULL => Owns(u)'
    BY <1>1, <1>3, <1>7 DEF Owns
  <2>3. ASSUME NEW u \in Threads \ {t}, pc[u] \in {"link", "use"}
        PROVE  cur[u] \in DOMAIN queues /\ cur[u] # NULL
    BY <1>7, <2>3 DEF Inv, CurInv
  <2> QED
    BY <1>1, <1>3, <1>4, <1>7, <1>8, <2>1, <2>2, <2>3 DEF Inv, CurInv
<1>10. UsedInv'
  BY <1>1, <1>4, <1>7 DEF Inv, UsedInv, Threads
<1>11. AtMostOneStranded'
  BY <1>1, <1>3, <1>4, ObjectType DEF Inv, AtMostOneStranded
<1> QED
  BY <1>4, <1>5, <1>6, <1>9, <1>10, <1>11 DEF Inv

(* list_add(): either the object becomes the one a search finds, or it     *)
(* stays its creator's alone.                                              *)
LEMMA InvLinkQueue == ASSUME Inv, NEW t \in Threads, LinkQueue(t) PROVE Inv'
<1> DEFINE i == Index(hash[t])
<1>1. /\ cur[t] \in DOMAIN queues /\ cur[t] # NULL /\ queues[cur[t]].hashnum = hash[t]
      /\ hash[t] \in Hashes /\ i \in Indexes /\ pc[t] = "link" /\ Owns(t)
      /\ \A j \in Indexes : \A k \in DOMAIN box[j] : box[j][k] # cur[t]
      /\ queues' = queues /\ used' = used /\ hash' = hash /\ cur' = cur
      /\ \A u \in Threads \ {t} : pc'[u] = pc[u]
      /\ pc'[t] = "use"
  BY IndexType DEF LinkQueue, Inv, CurInv, TypeOK, history
<1>2. /\ \A j \in Indexes \ {i} : box'[j] = box[j]
      /\ box'[i] = <<cur[t]>> \o box[i]
      /\ \A j \in Indexes : box[j] \in Seq(DOMAIN queues)
  BY <1>1 DEF LinkQueue, Inv, TypeOK
<1>3. /\ box'[i] \in Seq(DOMAIN queues)
      /\ \A k \in DOMAIN box'[i] :
           \/ box'[i][k] = cur[t]
           \/ \E j \in DOMAIN box[i] : box'[i][k] = box[i][j]
  <2>1. DOMAIN box'[i] = 1 .. (Len(box[i]) + 1) /\ Len(box[i]) \in Nat
    BY <1>1, <1>2
  <2>2. \A k \in DOMAIN box'[i] : k = 1 \/ ((k - 1) \in DOMAIN box[i] /\ box'[i][k] = box[i][k - 1])
    BY <1>1, <1>2
  <2> QED
    BY <1>1, <1>2, <2>1, <2>2
<1>4. TypeOK'
  <2>1. box' \in [Indexes -> Seq(DOMAIN queues)]
    BY <1>1, <1>2, <1>3 DEF LinkQueue, Inv, TypeOK
  <2> QED
    BY <1>1, <2>1 DEF LinkQueue, Inv, TypeOK, history
<1>5. \A h \in Hashes :
        /\ Linked(h) => Linked(h)' /\ Search(h)' = Search(h)
        /\ ~Linked(h) /\ h # hash[t] => ~Linked(h)' /\ Search(h)' = Search(h)
        /\ ~Linked(h) /\ h = hash[t] => Linked(h)' /\ Search(h)' = cur[t]
        /\ Linked(h)' =>
             \E k \in Matches(box[Index(h)], h)' :
               \A j \in Matches(box[Index(h)], h)' : j <= k
  BY <1>1, SearchLink DEF Inv
<1>6. BoxInv'
  <2>1. (\A j \in Indexes : \A k \in DOMAIN box[j] : Index(queues[box[j][k]].hashnum) = j)'
    <3> SUFFICES ASSUME NEW j \in Indexes, NEW k \in DOMAIN box'[j]
                 PROVE  Index(queues[box'[j][k]].hashnum) = j
      BY <1>1
    <3>1. \A x \in Indexes : \A y \in DOMAIN box[x] : Index(queues[box[x][y]].hashnum) = x
      BY DEF Inv, BoxInv
    <3>2. CASE j = i
      <4>1. box'[i][k] = cur[t] \/ \E y \in DOMAIN box[i] : box'[i][k] = box[i][y]
        BY <1>3, <3>2
      <4>2. Index(queues[cur[t]].hashnum) = i
        BY <1>1
      <4> QED
        BY <1>1, <3>1, <3>2, <4>1, <4>2
    <3>3. CASE j # i
      BY <1>2, <3>1, <3>3
    <3> QED
      BY <3>2, <3>3
  <2> QED
    BY <1>5, <2>1 DEF BoxInv
<1>7. DataInv'
  BY DEF Inv, TypeOK, DataInv, LinkQueue, Threads
<1>8. \A u \in Threads : hash[u] \in Hashes /\ (Owns(u)' <=> Owns(u))
  BY <1>1 DEF Inv, TypeOK, Owns
<1>9. \A h \in Hashes : ~Linked(h) => Search(h) = NULL
  BY DEF Search
<1>10. CurInv'
  <2>1. ASSUME NEW u \in Threads \ {t}, pc[u] = "link"
        PROVE  (\A j \in Indexes : \A k \in DOMAIN box[j] : box[j][k] # cur[u])'
    <3>1. cur[u] # cur[t]
      BY <1>1 DEF Owns
    <3>2. \A j \in Indexes : \A k \in DOMAIN box[j] : box[j][k] # cur[u]
      BY <2>1 DEF Inv, CurInv
    <3>3. \A k \in DOMAIN box'[i] : box'[i][k] # cur[u]
      BY <1>1, <1>3, <3>1, <3>2
    <3>4. \A j \in Indexes : \A k \in DOMAIN box'[j] : box'[j][k] # cur[u]
      BY <1>2, <3>2, <3>3
    <3> QED
      BY <1>1, <3>4
  <2>2. ASSUME NEW u \in Threads \ {t}, pc[u] = "use"
        PROVE  Linked(hash[u])' /\ Search(hash[u])' = Search(hash[u])
    <3>1. Linked(hash[u]) /\ hash[u] \in Hashes
      BY <1>8, <2>2 DEF Inv, CurInv
    <3> QED
      BY <1>1, <1>5, <3>1
  <2>3. Linked(hash[t])'
    BY <1>1, <1>5
  <2> QED
    BY <1>1, <1>8, <2>1, <2>2, <2>3 DEF Inv, CurInv
<1>11. UsedInv'
  <2>1. ASSUME NEW p \in Producers, pc'[p] \in {"link", "use"}, cur'[p] # Search(hash[p])'
        PROVE  <<p, hash[p]>> \notin used
    <3>1. p \in Threads /\ hash[p] \in Hashes /\ cur[p] # NULL /\ pc[p] \in {"link", "use"}
      BY <1>1, <1>8, <2>1 DEF Threads, Inv, CurInv
    <3>2. cur[p] # Search(hash[p])
      BY <1>1, <1>5, <1>9, <2>1, <3>1
    <3> QED
      BY <3>1, <3>2 DEF Inv, UsedInv
  <2> QED
    BY <1>1, <1>5, <2>1 DEF Inv, UsedInv, Threads
<1>12. AtMostOneStranded'
  <2>1. \A q \in DOMAIN queues : queues[q].hashnum \in Hashes /\ q # NULL
    BY ObjectType DEF Inv, TypeOK
  <2> QED
    BY <1>1, <1>5, <1>9, <2>1 DEF Inv, AtMostOneStranded
<1> QED
  BY <1>4, <1>6, <1>7, <1>10, <1>11, <1>12 DEF Inv

(* An assignment to the entries of one object. *)
LEMMA SetEntries ==
  ASSUME TypeOK, NEW q \in DOMAIN queues, NEW e \in Seq(Data),
         queues' = [queues EXCEPT ![q].entries = e]
  PROVE  /\ queues' \in Seq(QueueObject)
         /\ DOMAIN queues' = DOMAIN queues
         /\ \A r \in DOMAIN queues : r # q => queues'[r] = queues[r]
         /\ queues'[q] = [hashnum |-> queues[q].hashnum, entries |-> e]
<1> DEFINE hn == queues[q].hashnum
           en == queues[q].entries
<1>1. queues \in Seq(QueueObject) /\ hn \in Hashes
  BY ObjectType DEF TypeOK
<1>2. queues[q] = [hashnum |-> hn, entries |-> en]
  BY ObjectType
<1>3. [queues[q] EXCEPT !.entries = e] = [hashnum |-> hn, entries |-> e]
  <2> HIDE DEF en, hn
  <2>1. [[hashnum |-> hn, entries |-> en] EXCEPT !.entries = e] = [hashnum |-> hn, entries |-> e]
    OBVIOUS
  <2> QED
    BY <1>2, <2>1
<1>4. queues' = [queues EXCEPT ![q] = [hashnum |-> hn, entries |-> e]]
  BY <1>3
<1> DEFINE obj == [hashnum |-> hn, entries |-> e]
<1>5. obj \in QueueObject
  BY <1>1 DEF QueueObject
<1>6. queues' = [queues EXCEPT ![q] = obj]
  BY <1>4
<1>7. queues'[q] = obj
  <2> HIDE DEF obj
  <2> QED
    BY <1>1, <1>6
<1>8. /\ queues' \in Seq(QueueObject)
      /\ DOMAIN queues' = DOMAIN queues
      /\ \A r \in DOMAIN queues : r # q => queues'[r] = queues[r]
  <2> HIDE DEF obj
  <2>1. queues' \in Seq(QueueObject)
    <3>1. PICK S : S = QueueObject
      OBVIOUS
    <3>2. PICK s \in Seq(S) : s = queues
      BY <1>1, <3>1
    <3>3. PICK x \in S : x = obj
      BY <1>5, <3>1
    <3>4. [s EXCEPT ![q] = x] \in Seq(S)
      BY <3>2
    <3> QED
      BY <1>6, <3>1, <3>2, <3>3, <3>4
  <2>2. DOMAIN queues' = DOMAIN queues
    BY <1>1, <1>6
  <2>3. \A r \in DOMAIN queues : r # q => queues'[r] = queues[r]
    BY <1>1, <1>6
  <2> QED
    BY <2>1, <2>2, <2>3
<1> QED
  BY <1>7, <1>8

(* A thread leaves q->mutex: only the entries of its object have changed.  *)
LEMMA InvUseQueue ==
  ASSUME Inv, NEW t \in Threads, pc[t] = "use", Return(t), NEW e \in Seq(Data),
         queues' \in Seq(QueueObject), DOMAIN queues' = DOMAIN queues,
         \A r \in DOMAIN queues : r # cur[t] => queues'[r] = queues[r],
         queues'[cur[t]] = [hashnum |-> queues[cur[t]].hashnum, entries |-> e],
         heads' = heads, box' = box, leaked' = leaked, oom' = oom, accepted' = accepted,
         failed' = failed, taken' \in [Hashes -> Seq(Data)],
         used' = used \/ (t \in Producers /\ used' = used \cup {<<t, hash[t]>>}),
         cur[t] # Search(hash[t]) => Len(e) <= 1
  PROVE  Inv'
<1>1. /\ cur[t] \in DOMAIN queues /\ queues[cur[t]].hashnum = hash[t]
      /\ hash[t] \in Hashes /\ Linked(hash[t])
      /\ pc' = [pc EXCEPT ![t] = "idle"] /\ cur' = [cur EXCEPT ![t] = NULL]
      /\ hash' = [hash EXCEPT ![t] = NoHash]
  BY DEF Return, Inv, CurInv, TypeOK
<1>2. /\ queues' \in Seq(QueueObject)
      /\ DOMAIN queues' = DOMAIN queues
      /\ \A q \in DOMAIN queues : q # cur[t] => queues'[q] = queues[q]
      /\ queues'[cur[t]] = [hashnum |-> hash[t], entries |-> e]
  BY <1>1
<1>3. \A q \in DOMAIN queues : queues'[q].hashnum = queues[q].hashnum
  <2>1. queues'[cur[t]].hashnum = hash[t] /\ queues'[cur[t]].entries = e
    BY <1>2
  <2> QED
    BY <1>1, <1>2, <2>1
<1>4. BoxInv' /\ \A h \in Hashes : (Linked(h)' <=> Linked(h)) /\ Search(h)' = Search(h)
  BY <1>2, <1>3, BoxFrame
<1>5. used' \in SUBSET (Producers \X Hashes)
  BY <1>1 DEF Inv, TypeOK
<1>6. TypeOK'
  BY <1>1, <1>2, <1>5, NoHashType DEF Inv, TypeOK, Return
<1>7. DataInv'
  BY DEF Inv, TypeOK, DataInv, Return, Threads
<1>8. \A u \in Threads : hash[u] \in Hashes /\ (u # t => pc'[u] = pc[u] /\ cur'[u] = cur[u] /\ hash'[u] = hash[u])
  BY <1>1 DEF Inv, TypeOK
<1>9. pc'[t] = "idle" /\ cur'[t] = NULL
  BY <1>1 DEF Inv, TypeOK
<1>10. CurInv'
  <2>1. ASSUME NEW u \in Threads \ {t}, Owns(u), cur[u] # NULL PROVE Owns(u)'
    <3>1. cur[u] # cur[t]
      BY <2>1 DEF Owns
    <3>2. cur[u] \in DOMAIN queues
      BY <2>1 DEF Inv, TypeOK
    <3> QED
      BY <1>2, <1>8, <1>9, <2>1, <3>1, <3>2 DEF Owns
  <2>2. ASSUME NEW u \in Threads \ {t}, pc[u] \in {"link", "use"}
        PROVE  cur[u] \in DOMAIN queues /\ cur[u] # NULL
    BY <2>2 DEF Inv, CurInv, TypeOK
  <2>3. ASSUME NEW u \in Threads \ {t}, pc[u] \in {"link", "use"}
        PROVE  (cur[u] # NULL /\ queues[cur[u]].hashnum = hash[u])'
    <3>1. cur[u] # NULL /\ queues[cur[u]].hashnum = hash[u] /\ cur[u] \in DOMAIN queues
      BY <2>2, <2>3 DEF Inv, CurInv
    <3>2. cur'[u] = cur[u] /\ hash'[u] = hash[u]
      BY <1>8
    <3> QED
      BY <1>3, <3>1, <3>2
  <2>4. ASSUME NEW u \in Threads \ {t}, pc[u] = "link"
        PROVE  (Owns(u) /\ \A i \in Indexes : \A k \in DOMAIN box[i] : box[i][k] # cur[u])'
    BY <1>8, <2>1, <2>2, <2>4 DEF Inv, CurInv
  <2>5. ASSUME NEW u \in Threads \ {t}, pc[u] = "use"
        PROVE  (Linked(hash[u]) /\ (cur[u] # Search(hash[u]) => Owns(u)))'
    BY <1>4, <1>8, <2>1, <2>2, <2>5 DEF Inv, CurInv
  <2>6. ASSUME NEW u \in Threads \ {t}
        PROVE  (pc[u] \in {"idle", "head", "find", "create"} => cur[u] = NULL)'
    BY <1>8 DEF Inv, CurInv
  <2>7. ASSUME NEW u \in Threads, pc'[u] \in {"link", "use"}
        PROVE  u \in Threads \ {t} /\ pc[u] = pc'[u]
    BY <1>8, <1>9, <2>7
  <2> QED
    BY <1>9, <2>3, <2>4, <2>5, <2>6, <2>7 DEF CurInv
<1>11. UsedInv'
  BY <1>1, <1>4, <1>8, <1>9 DEF Inv, UsedInv, Threads
<1>12. AtMostOneStranded'
  <2> SUFFICES ASSUME NEW q \in DOMAIN queues', q # Search(queues[q].hashnum)'
               PROVE  Len(queues'[q].entries) <= 1
    BY DEF AtMostOneStranded
  <2>1. q \in DOMAIN queues /\ queues[q].hashnum \in Hashes
    BY <1>2, ObjectType DEF Inv
  <2>2. q # Search(queues[q].hashnum)
    BY <1>3, <1>4, <2>1
  <2>3. CASE q = cur[t]
    BY <1>1, <1>2, <2>2, <2>3
  <2>4. CASE q # cur[t]
    BY <1>2, <2>1, <2>2, <2>4 DEF Inv, AtMostOneStranded
  <2> QED
    BY <2>3, <2>4
<1> QED
  BY <1>4, <1>6, <1>7, <1>10, <1>11, <1>12 DEF Inv

(* The two sections under q->mutex. *)
LEMMA InvAddEntry == ASSUME Inv, NEW p \in Producers, AddEntry(p) PROVE Inv'
<1> DEFINE en == queues[cur[p]].entries
<1>1. p \in Threads /\ pc[p] = "use" /\ cur[p] \in DOMAIN queues /\ data[p] \in Data
  BY DEF AddEntry, Threads, Inv, CurInv, TypeOK, DataInv
<1>2. en \in Seq(Data)
  BY <1>1, ObjectType DEF Inv
<1>3. Append(en, data[p]) \in Seq(Data)
  BY <1>1, <1>2
<1>4. queues' = [queues EXCEPT ![cur[p]].entries = Append(en, data[p])]
  BY DEF AddEntry
<1>5. cur[p] # Search(hash[p]) => Len(Append(en, data[p])) <= 1
  <2>1. cur[p] # Search(hash[p]) => en = <<>>
    BY <1>1 DEF Inv, CurInv, Owns
  <2> QED
    BY <2>1
<1>6. taken' \in [Hashes -> Seq(Data)]
  BY DEF AddEntry, Inv, TypeOK
<1> HIDE DEF en
<1>7. /\ queues' \in Seq(QueueObject) /\ DOMAIN queues' = DOMAIN queues
      /\ \A r \in DOMAIN queues : r # cur[p] => queues'[r] = queues[r]
      /\ queues'[cur[p]] = [hashnum |-> queues[cur[p]].hashnum, entries |-> Append(en, data[p])]
  BY <1>1, <1>3, <1>4, SetEntries DEF Inv
<1> QED
  BY <1>1, <1>3, <1>5, <1>6, <1>7, InvUseQueue DEF AddEntry

LEMMA InvTakeEntry == ASSUME Inv, NEW c \in Consumers, TakeEntry(c) PROVE Inv'
<1> DEFINE en == queues[cur[c]].entries
<1>1. c \in Threads /\ pc[c] = "use" /\ cur[c] \in DOMAIN queues /\ hash[c] \in Hashes
  BY DEF TakeEntry, Threads, Inv, CurInv, TypeOK
<1>2. en \in Seq(Data) /\ (cur[c] # Search(hash[c]) => en = <<>>)
  BY <1>1, ObjectType DEF Inv, CurInv, Owns
<1>3. CASE en # <<>>
  <2>1. Tail(en) \in Seq(Data) /\ Head(en) \in Data
    BY <1>2, <1>3
  <2>2. /\ queues' = [queues EXCEPT ![cur[c]].entries = Tail(en)]
        /\ taken' = [taken EXCEPT ![hash[c]] = Append(@, Head(en))]
    BY <1>3 DEF TakeEntry
  <2>3. taken' \in [Hashes -> Seq(Data)]
    BY <1>1, <2>1, <2>2 DEF Inv, TypeOK
  <2>4. cur[c] # Search(hash[c]) => Len(Tail(en)) <= 1
    BY <1>2, <1>3
  <2> HIDE DEF en
  <2>5. /\ queues' \in Seq(QueueObject) /\ DOMAIN queues' = DOMAIN queues
        /\ \A r \in DOMAIN queues : r # cur[c] => queues'[r] = queues[r]
        /\ queues'[cur[c]] = [hashnum |-> queues[cur[c]].hashnum, entries |-> Tail(en)]
    BY <1>1, <2>1, <2>2, SetEntries DEF Inv
  <2> QED
    BY <1>1, <2>1, <2>3, <2>4, <2>5, InvUseQueue DEF TakeEntry
<1>4. CASE en = <<>>
  <2>1. queues' = queues /\ taken' = taken
    BY <1>4 DEF TakeEntry
  <2>2. queues \in Seq(QueueObject) /\ taken \in [Hashes -> Seq(Data)]
    BY DEF Inv, TypeOK
  <2>3. queues[cur[c]] = [hashnum |-> queues[cur[c]].hashnum, entries |-> en]
    BY <1>1, ObjectType DEF Inv
  <2>4. Len(en) <= 1
    BY <1>4
  <2> HIDE DEF en
  <2> QED
    BY <1>1, <1>2, <2>1, <2>2, <2>3, <2>4, InvUseQueue DEF TakeEntry
<1> QED
  BY <1>3, <1>4

(* Every step of queue.c keeps the inductive invariant. *)
LEMMA InvNext == Inv /\ [Next]_vars => Inv'
<1> SUFFICES ASSUME Inv, [Next]_vars PROVE Inv'
  OBVIOUS
<1>1. ASSUME NEW t \in Threads, GetQueue(t) PROVE Inv'
  <2>1. CASE GetHead(t)
    BY <2>1, InvGetHead
  <2>2. CASE GetHeadFails(t)
    BY <2>2, InvGiveUp DEF GetHeadFails
  <2>3. CASE FindQueue(t)
    BY <2>3, InvFindQueue
  <2>4. CASE CreateQueue(t)
    BY <2>4, InvCreateQueue
  <2>5. CASE CreateQueueFails(t)
    BY <2>5, InvGiveUp DEF CreateQueueFails, shared, Inv, TypeOK
  <2>6. CASE LinkQueue(t)
    BY <2>6, InvLinkQueue
  <2> QED
    BY <1>1, <2>1, <2>2, <2>3, <2>4, <2>5, <2>6 DEF GetQueue
<1>2. CASE UNCHANGED vars
  <2> USE <1>2 DEF vars, locals, shared, history
  <2>1. BoxInv' /\ \A h \in Hashes : (Linked(h)' <=> Linked(h)) /\ Search(h)' = Search(h)
    BY BoxFrame
  <2>2. \A t \in Threads : hash[t] \in Hashes /\ (Owns(t)' <=> Owns(t))
    BY DEF Inv, TypeOK, Owns
  <2>3. CurInv' /\ UsedInv'
    BY <2>1, <2>2 DEF Inv, CurInv, UsedInv, Threads
  <2>4. AtMostOneStranded'
    BY <2>1, ObjectType DEF Inv, AtMostOneStranded
  <2>5. TypeOK' /\ DataInv'
    BY DEF Inv, TypeOK, DataInv
  <2> QED
    BY <2>1, <2>3, <2>4, <2>5 DEF Inv
<1> QED
  BY <1>1, <1>2, InvEnqueue, InvEnqueueFails, InvDequeue, InvAddEntry, InvTakeEntry DEF Next

-----------------------------------------------------------------------------
(* The inductive invariant holds in every reachable state: the state of    *)
(* queue.c has its type, and every created queue object is either the one  *)
(* a search finds or known to its creator alone.                           *)
THEOREM Invariance == Spec => []Inv
BY InvInit, InvNext, PTL DEF Spec

(* The state of queue.c keeps its shape. *)
THEOREM TypeCorrect == Spec => []TypeOK
BY Invariance, PTL DEF Inv

(* However many get_queue() calls race, an object that a search does not   *)
(* find never holds a second frame.                                        *)
THEOREM StrandedAtMostOne == Spec => []AtMostOneStranded
BY Invariance, PTL DEF Inv

-----------------------------------------------------------------------------
(* What a step does to the searches and to the objects.                    *)

(* Steps that leave queues and box alone leave the abstract queues alone.  *)
LEMMA AbsFrame ==
  ASSUME Inv, box' = box,
         DOMAIN queues \subseteq DOMAIN queues',
         \A q \in DOMAIN queues : queues'[q] = queues[q],
         \A q \in DOMAIN queues' \ DOMAIN queues : queues'[q].entries = <<>>,
         NEW h \in Hashes
  PROVE  Pending(h)' = Pending(h) /\ Lost(h)' = Lost(h)
<1>1. (Linked(h)' <=> Linked(h)) /\ Search(h)' = Search(h)
  BY BoxFrame
<1>2. Pending(h)' = Pending(h)
  BY <1>1, SearchMatches DEF Inv, Pending
<1>3. \A d \in Data : d \in Lost(h)' <=> d \in Lost(h)
  BY <1>1 DEF Lost
<1> QED
  BY <1>2, <1>3 DEF Lost

(* The step of LinkQueue changes no abstract queue: the object linked is   *)
(* empty.                                                                  *)
LEMMA AbsLink ==
  ASSUME Inv, NEW t \in Threads, LinkQueue(t), NEW h \in Hashes
  PROVE  Pending(h)' = Pending(h) /\ Lost(h)' = Lost(h)
<1>1. /\ cur[t] \in DOMAIN queues /\ queues[cur[t]].hashnum = hash[t] /\ hash[t] \in Hashes
      /\ queues[cur[t]].entries = <<>> /\ queues' = queues
  BY DEF LinkQueue, Inv, CurInv, TypeOK, Owns
<1>2. /\ Linked(h) => Linked(h)' /\ Search(h)' = Search(h)
      /\ ~Linked(h) /\ h # hash[t] => ~Linked(h)' /\ Search(h)' = Search(h)
      /\ ~Linked(h) /\ h = hash[t] => Linked(h)' /\ Search(h)' = cur[t]
  BY <1>1, SearchLink DEF Inv
<1>3. Pending(h)' = Pending(h)
  BY <1>1, <1>2 DEF Pending
<1>4. ~Linked(h) => Search(h) \notin DOMAIN queues
  BY DEF Search, Inv, TypeOK
<1>5. \A d \in Data : d \in Lost(h)' <=> d \in Lost(h)
  BY <1>1, <1>2, <1>4 DEF Lost
<1> QED
  BY <1>3, <1>5 DEF Lost

(* A search never changes its mind: once get_queue() finds a queue object  *)
(* for a hash, all later searches find that one.                           *)
THEOREM CanonicalForever == Spec => CanonicalStable
<1>1. ASSUME Inv, [Next]_vars, NEW h \in Hashes, Linked(h)
      PROVE  Linked(h)' /\ Search(h)' = Search(h)
  <2>1. ASSUME box' = box, DOMAIN queues \subseteq DOMAIN queues',
               \A q \in DOMAIN queues : queues'[q].hashnum = queues[q].hashnum
        PROVE  Linked(h)' /\ Search(h)' = Search(h)
    BY <1>1, <2>1, BoxFrame
  <2>2. CASE queues' = queues /\ box' = box
    BY <2>1, <2>2
  <2>3. ASSUME NEW t \in Threads, GetQueue(t)
        PROVE  Linked(h)' /\ Search(h)' = Search(h)
    <3>1. CASE LinkQueue(t)
      BY <1>1, <3>1, SearchLink DEF LinkQueue, Inv, CurInv, TypeOK
    <3>2. CASE CreateQueue(t)
      <4>1. queues \in Seq(QueueObject)
        BY <1>1 DEF Inv, TypeOK
      <4>2. DOMAIN queues \subseteq DOMAIN queues' /\ \A q \in DOMAIN queues : queues'[q] = queues[q]
        BY <3>2, <4>1 DEF CreateQueue
      <4> QED
        BY <2>1, <3>2, <4>2 DEF CreateQueue
    <3> QED
      BY <2>2, <2>3, <3>1, <3>2
         DEF GetQueue, GetHead, GetHeadFails, FindQueue, CreateQueueFails, shared
  <2>4. ASSUME NEW t \in Threads, pc[t] = "use", NEW e \in Seq(Data), box' = box,
               queues' = [queues EXCEPT ![cur[t]].entries = e]
        PROVE  Linked(h)' /\ Search(h)' = Search(h)
    <3>1. cur[t] \in DOMAIN queues
      BY <1>1, <2>4 DEF Inv, CurInv, TypeOK
    <3>2. /\ DOMAIN queues' = DOMAIN queues
          /\ \A r \in DOMAIN queues : r # cur[t] => queues'[r] = queues[r]
          /\ queues'[cur[t]] = [hashnum |-> queues[cur[t]].hashnum, entries |-> e]
      BY <1>1, <2>4, <3>1, SetEntries DEF Inv
    <3>3. queues'[cur[t]].hashnum = queues[cur[t]].hashnum
      BY <3>2
    <3> QED
      BY <2>1, <2>4, <3>2, <3>3
  <2>5. ASSUME NEW p \in Producers, AddEntry(p)
        PROVE  Linked(h)' /\ Search(h)' = Search(h)
    <3>1. /\ p \in Threads /\ pc[p] = "use" /\ cur[p] \in DOMAIN queues /\ data[p] \in Data
          /\ box' = box
      BY <1>1, <2>5 DEF AddEntry, Threads, Inv, CurInv, TypeOK, DataInv
    <3>2. Append(queues[cur[p]].entries, data[p]) \in Seq(Data)
      BY <1>1, <3>1, ObjectType DEF Inv
    <3> QED
      BY <2>4, <2>5, <3>1, <3>2 DEF AddEntry
  <2>6. ASSUME NEW c \in Consumers, TakeEntry(c)
        PROVE  Linked(h)' /\ Search(h)' = Search(h)
    <3> DEFINE en == queues[cur[c]].entries
    <3>1. c \in Threads /\ pc[c] = "use" /\ cur[c] \in DOMAIN queues /\ box' = box
      BY <1>1, <2>6 DEF TakeEntry, Threads, Inv, CurInv, TypeOK
    <3>2. CASE en # <<>>
      <4>1. Tail(en) \in Seq(Data)
        BY <1>1, <3>1, <3>2, ObjectType DEF Inv
      <4> QED
        BY <2>4, <2>6, <3>1, <3>2, <4>1 DEF TakeEntry
    <3>3. CASE en = <<>>
      BY <2>2, <2>6, <3>1, <3>3 DEF TakeEntry
    <3> QED
      BY <3>2, <3>3
  <2> QED
    BY <1>1, <2>2, <2>3, <2>5, <2>6
       DEF Next, vars, shared, Enqueue, EnqueueFails, Dequeue
<1>2. Inv /\ [Next]_vars
        => [\A h \in Hashes : Linked(h) => Linked(h)' /\ Search(h)' = Search(h)]_vars
  BY <1>1
<1> QED
  BY <1>2, Invariance, PTL DEF Spec, CanonicalStable

-----------------------------------------------------------------------------
(* Changing the entries of the object a thread uses: the abstract queue    *)
(* changes when a search leads to the object, the stranded frames do when  *)
(* none does.                                                              *)
LEMMA AbsUse ==
  ASSUME Inv, NEW t \in Threads, pc[t] = "use", box' = box, NEW e \in Seq(Data),
         queues' = [queues EXCEPT ![cur[t]].entries = e], NEW h \in Hashes
  PROVE  /\ h # hash[t] => Pending(h)' = Pending(h) /\ Lost(h)' = Lost(h)
         /\ h = hash[t] /\ cur[t] = Search(h) => Pending(h)' = e /\ Lost(h)' = Lost(h)
         /\ h = hash[t] /\ cur[t] # Search(h) =>
              /\ Pending(h)' = Pending(h)
              /\ Lost(h)' = Lost(h) \cup {d \in Data : \E k \in DOMAIN e : e[k] = d}
<1>1. /\ cur[t] \in DOMAIN queues /\ queues[cur[t]].hashnum = hash[t] /\ Linked(hash[t])
      /\ cur[t] # Search(hash[t]) => queues[cur[t]].entries = <<>>
  BY DEF Inv, CurInv, TypeOK, Owns
<1>2. /\ DOMAIN queues' = DOMAIN queues
      /\ \A r \in DOMAIN queues : r # cur[t] => queues'[r] = queues[r]
      /\ queues'[cur[t]] = [hashnum |-> queues[cur[t]].hashnum, entries |-> e]
  BY <1>1, SetEntries DEF Inv
<1>3. queues'[cur[t]].hashnum = hash[t] /\ queues'[cur[t]].entries = e
  BY <1>1, <1>2
<1>4. (Linked(h)' <=> Linked(h)) /\ Search(h)' = Search(h)
  BY <1>1, <1>2, <1>3, BoxFrame
<1>5. Linked(h) => Search(h) \in DOMAIN queues /\ queues[Search(h)].hashnum = h
  BY SearchMatches DEF Inv
<1>6. CASE h # hash[t]
  <2>1. Pending(h)' = Pending(h)
    BY <1>1, <1>2, <1>4, <1>5, <1>6 DEF Pending
  <2>2. \A d \in Data : d \in Lost(h)' <=> d \in Lost(h)
    BY <1>1, <1>2, <1>3, <1>4, <1>6 DEF Lost
  <2> QED
    BY <1>6, <2>1, <2>2 DEF Lost
<1>7. CASE h = hash[t] /\ cur[t] = Search(h)
  <2>1. Pending(h)' = e
    BY <1>1, <1>3, <1>4, <1>7 DEF Pending
  <2>2. \A d \in Data : d \in Lost(h)' <=> d \in Lost(h)
    BY <1>1, <1>2, <1>3, <1>4, <1>7 DEF Lost
  <2> QED
    BY <1>7, <2>1, <2>2 DEF Lost
<1>8. CASE h = hash[t] /\ cur[t] # Search(h)
  <2>1. Pending(h)' = Pending(h)
    BY <1>1, <1>2, <1>4, <1>5, <1>8 DEF Pending
  <2>2. \A d \in Data : d \in Lost(h)' <=> d \in Lost(h) \/ \E k \in DOMAIN e : e[k] = d
    BY <1>1, <1>2, <1>3, <1>4, <1>8 DEF Lost
  <2>3. Lost(h)' = Lost(h) \cup {d \in Data : \E k \in DOMAIN e : e[k] = d}
    BY <2>2 DEF Lost
  <2> QED
    BY <1>8, <2>1, <2>3
<1> QED
  BY <1>6, <1>7, <1>8

(* The steps of enqueue() and dequeue() under q->mutex are the steps of    *)
(* the abstract queue.                                                     *)
LEMMA AddEntryImplements ==
  ASSUME Inv, NEW p \in Producers, AddEntry(p)
  PROVE  MQ!Put(p, hash[p], data[p]) \/ MQ!Strand(p, hash[p], data[p])
<1> DEFINE h == hash[p]
           en == queues[cur[p]].entries
           e == Append(en, data[p])
<1>1. /\ p \in Threads /\ pc[p] = "use" /\ cur[p] \in DOMAIN queues /\ data[p] \in Data
      /\ h \in Hashes /\ Linked(h) /\ box' = box
      /\ UNCHANGED <<taken, failed>> /\ used' = used \cup {<<p, h>>}
  BY DEF AddEntry, Threads, Inv, CurInv, TypeOK, DataInv
<1>2. en \in Seq(Data) /\ e \in Seq(Data)
  BY <1>1, ObjectType DEF Inv
<1>3. queues' = [queues EXCEPT ![cur[p]].entries = e]
  BY DEF AddEntry
<1>4. \A g \in Hashes :
        /\ g # h => Pending(g)' = Pending(g) /\ Lost(g)' = Lost(g)
        /\ g = h /\ cur[p] = Search(g) => Pending(g)' = e /\ Lost(g)' = Lost(g)
        /\ g = h /\ cur[p] # Search(g) =>
             /\ Pending(g)' = Pending(g)
             /\ Lost(g)' = Lost(g) \cup {d \in Data : \E k \in DOMAIN e : e[k] = d}
  <2> HIDE DEF e
  <2> QED
    BY <1>1, <1>2, <1>3, AbsUse
<1>5. CASE cur[p] = Search(h)
  <2>1. Pending(h) = en
    BY <1>1, <1>5 DEF Pending
  <2>2. /\ [g \in Hashes |-> Pending(g)]'
             = [[g \in Hashes |-> Pending(g)] EXCEPT ![h] = Append(@, data[p])]
        /\ [g \in Hashes |-> Lost(g)]' = [g \in Hashes |-> Lost(g)]
    <3> HIDE DEF en
    <3> QED
      BY <1>1, <1>4, <1>5, <2>1
  <2> QED
    BY <1>1, <2>2 DEF MQ!Put
<1>6. CASE cur[p] # Search(h)
  <2>1. en = <<>> /\ <<p, h>> \notin used
    BY <1>1, <1>6 DEF Inv, CurInv, Owns, UsedInv
  <2>2. {d \in Data : \E k \in DOMAIN e : e[k] = d} = {data[p]}
    <3>1. e = <<data[p]>>
      BY <2>1
    <3> HIDE DEF e
    <3> QED
      BY <1>1, <3>1
  <2>3. /\ [g \in Hashes |-> Pending(g)]' = [g \in Hashes |-> Pending(g)]
        /\ [g \in Hashes |-> Lost(g)]'
             = [[g \in Hashes |-> Lost(g)] EXCEPT ![h] = @ \cup {data[p]}]
    <3> HIDE DEF e
    <3> QED
      BY <1>1, <1>4, <1>6, <2>2
  <2> QED
    BY <1>1, <2>1, <2>3 DEF MQ!Strand
<1> QED
  BY <1>5, <1>6

LEMMA TakeEntryImplements ==
  ASSUME Inv, NEW c \in Consumers, TakeEntry(c)
  PROVE  MQ!Take(hash[c]) \/ UNCHANGED MQ!vars
<1> DEFINE h == hash[c]
           en == queues[cur[c]].entries
<1>1. /\ c \in Threads /\ pc[c] = "use" /\ cur[c] \in DOMAIN queues
      /\ h \in Hashes /\ Linked(h) /\ box' = box
      /\ UNCHANGED <<failed, used>>
  BY DEF TakeEntry, Threads, Inv, CurInv, TypeOK
<1>2. en \in Seq(Data) /\ (cur[c] # Search(h) => en = <<>>)
  BY <1>1, ObjectType DEF Inv, CurInv, Owns
<1>3. CASE en # <<>>
  <2>1. Tail(en) \in Seq(Data)
    BY <1>2, <1>3
  <2>2. /\ queues' = [queues EXCEPT ![cur[c]].entries = Tail(en)]
        /\ taken' = [taken EXCEPT ![h] = Append(@, Head(en))]
    BY <1>3 DEF TakeEntry
  <2>3. Pending(h) = en
    BY <1>1, <1>2, <1>3 DEF Pending
  <2>4. \A g \in Hashes :
          /\ g # h => Pending(g)' = Pending(g) /\ Lost(g)' = Lost(g)
          /\ g = h => Pending(g)' = Tail(en) /\ Lost(g)' = Lost(g)
    <3> HIDE DEF en
    <3> QED
      BY <1>1, <1>2, <1>3, <2>1, <2>2, AbsUse
  <2>5. /\ [g \in Hashes |-> Pending(g)]'
             = [[g \in Hashes |-> Pending(g)] EXCEPT ![h] = Tail(@)]
        /\ [g \in Hashes |-> Lost(g)]' = [g \in Hashes |-> Lost(g)]
    <3> HIDE DEF en
    <3> QED
      BY <1>1, <2>3, <2>4
  <2> QED
    BY <1>1, <1>3, <2>2, <2>3, <2>5 DEF MQ!Take
<1>4. CASE en = <<>>
  <2>1. queues' = queues /\ taken' = taken
    BY <1>4 DEF TakeEntry
  <2>2. \A g \in Hashes : Pending(g)' = Pending(g) /\ Lost(g)' = Lost(g)
    BY <1>1, <2>1, AbsFrame
  <2> QED
    BY <1>1, <2>1, <2>2 DEF MQ!vars
<1> QED
  BY <1>3, <1>4

(* queue.c implements MessageQueue: each hash is one FIFO, and only the    *)
(* first frame a thread puts under a hash can be stranded.                 *)
THEOREM Refinement == Spec => ImplementsMessageQueue
<1>1. Init => MQ!Init
  <2> SUFFICES ASSUME Init PROVE MQ!Init
    OBVIOUS
  <2>1. \A h \in Hashes : Matches(box[Index(h)], h) = {}
    BY IndexType DEF Init, Matches
  <2>2. \A h \in Hashes : Pending(h) = <<>>
    BY <2>1 DEF Pending, Linked
  <2>3. \A h \in Hashes : Lost(h) = {}
    BY DEF Init, Lost
  <2> QED
    BY <2>2, <2>3 DEF Init, MQ!Init
<1>2. ASSUME Inv, [Next]_vars PROVE [MQ!Next]_(MQ!vars)
  <2>1. ASSUME \A h \in Hashes : Pending(h)' = Pending(h) /\ Lost(h)' = Lost(h)
        PROVE  /\ [h \in Hashes |-> Pending(h)]' = [h \in Hashes |-> Pending(h)]
               /\ [h \in Hashes |-> Lost(h)]' = [h \in Hashes |-> Lost(h)]
    BY <2>1
  <2>2. ASSUME queues' = queues, box' = box
        PROVE  /\ [h \in Hashes |-> Pending(h)]' = [h \in Hashes |-> Pending(h)]
               /\ [h \in Hashes |-> Lost(h)]' = [h \in Hashes |-> Lost(h)]
    BY <1>2, <2>1, <2>2, AbsFrame
  <2>3. ASSUME NEW p \in Producers, EnqueueFails(p) PROVE MQ!Next
    <3>1. MQ!Reject(accepted + 1)
      BY <2>2, <2>3 DEF EnqueueFails, shared, MQ!Reject
    <3>2. accepted + 1 \in Data
      BY <1>2, <2>3, BoundsAssumption DEF EnqueueFails, Data, Inv, TypeOK
    <3> QED
      BY <3>1, <3>2 DEF MQ!Next
  <2>4. ASSUME NEW t \in Threads, pc[t] # "idle", GiveUp(t), queues' = queues, box' = box
        PROVE  MQ!Next \/ UNCHANGED MQ!vars
    <3>1. CASE t \in Producers
      <4>1. data[t] \in Data
        BY <1>2, <2>4, <3>1 DEF Inv, DataInv
      <4>2. MQ!Reject(data[t])
        BY <2>2, <2>4, <3>1 DEF GiveUp, MQ!Reject
      <4> QED
        BY <4>1, <4>2 DEF MQ!Next
    <3>2. CASE t \notin Producers
      BY <2>2, <2>4, <3>2 DEF GiveUp, MQ!vars
    <3> QED
      BY <3>1, <3>2
  <2>5. ASSUME NEW t \in Threads, CreateQueue(t) PROVE UNCHANGED MQ!vars
    <3>1. queues \in Seq(QueueObject) /\ box' = box
      BY <1>2, <2>5 DEF Inv, TypeOK, CreateQueue
    <3>2. /\ DOMAIN queues \subseteq DOMAIN queues'
          /\ \A q \in DOMAIN queues : queues'[q] = queues[q]
          /\ \A q \in DOMAIN queues' \ DOMAIN queues : queues'[q].entries = <<>>
      BY <2>5, <3>1 DEF CreateQueue
    <3>3. \A h \in Hashes : Pending(h)' = Pending(h) /\ Lost(h)' = Lost(h)
      BY <1>2, <3>1, <3>2, AbsFrame
    <3> QED
      BY <2>1, <2>5, <3>3 DEF CreateQueue, history, MQ!vars
  <2>6. ASSUME NEW t \in Threads, LinkQueue(t) PROVE UNCHANGED MQ!vars
    BY <1>2, <2>1, <2>6, AbsLink DEF LinkQueue, history, MQ!vars
  <2>7. ASSUME NEW t \in Threads, GetQueue(t) PROVE MQ!Next \/ UNCHANGED MQ!vars
    <3>1. CASE GetHead(t) \/ FindQueue(t)
      BY <2>2, <3>1 DEF GetHead, FindQueue, shared, history, MQ!vars
    <3>2. CASE GetHeadFails(t) \/ CreateQueueFails(t)
      BY <2>4, <3>2 DEF GetHeadFails, CreateQueueFails, shared
    <3> QED
      BY <2>5, <2>6, <2>7, <3>1, <3>2 DEF GetQueue
  <2>8. ASSUME NEW p \in Producers, NEW n \in QNames, Enqueue(p, n) PROVE UNCHANGED MQ!vars
    BY <2>2, <2>8 DEF Enqueue, shared, MQ!vars
  <2>9. ASSUME NEW c \in Consumers, Dequeue(c) PROVE UNCHANGED MQ!vars
    BY <2>2, <2>9 DEF Dequeue, shared, history, MQ!vars
  <2>10. ASSUME NEW p \in Producers, AddEntry(p) PROVE MQ!Next
    <3>1. hash[p] \in Hashes /\ data[p] \in Data
      BY <1>2, <2>10 DEF AddEntry, Threads, Inv, TypeOK, DataInv
    <3> QED
      BY <1>2, <2>10, <3>1, AddEntryImplements DEF MQ!Next
  <2>11. ASSUME NEW c \in Consumers, TakeEntry(c) PROVE MQ!Next \/ UNCHANGED MQ!vars
    <3>1. hash[c] \in Hashes
      BY <1>2 DEF Threads, Inv, TypeOK
    <3> QED
      BY <1>2, <2>11, <3>1, TakeEntryImplements DEF MQ!Next
  <2>12. CASE UNCHANGED vars
    BY <2>2, <2>12 DEF vars, shared, history, MQ!vars
  <2> QED
    BY <1>2, <2>3, <2>7, <2>8, <2>9, <2>10, <2>11, <2>12 DEF Next
<1> QED
  BY <1>1, <1>2, Invariance, PTL DEF Spec, ImplementsMessageQueue, MQ!Spec

-----------------------------------------------------------------------------
(***************************************************************************)
(* Where frames are.  HeldBy, QAt and TAt are the places that Places()     *)
(* lists; ConservationInv says of a frame passed to enqueue() that it is   *)
(* in one of them and no other, and of a later one that it is nowhere yet. *)
(***************************************************************************)
HeldBy(p, d) == p \in Producers /\ pc[p] # "idle" /\ data[p] = d
QAt(q, k, d) == q \in DOMAIN queues /\ k \in DOMAIN queues[q].entries /\ queues[q].entries[k] = d
TAt(h, k, d) == h \in Hashes /\ k \in DOMAIN taken[h] /\ taken[h][k] = d

Held(d) == \E p : HeldBy(p, d)
Queued(d) == \E q, k : QAt(q, k, d)
Taken(d) == \E h, k : TAt(h, k, d)

Somewhere(d) == Held(d) \/ Queued(d) \/ Taken(d) \/ d \in failed
NowhereElse(d) ==
  /\ Held(d) => ~(Queued(d) \/ Taken(d) \/ d \in failed)
  /\ Queued(d) => ~(Taken(d) \/ d \in failed)
  /\ Taken(d) => d \notin failed
OncePlaced(d) ==
  /\ \A p, r : HeldBy(p, d) /\ HeldBy(r, d) => p = r
  /\ \A q, k, r, l : QAt(q, k, d) /\ QAt(r, l, d) => q = r /\ k = l
  /\ \A h, k, g, l : TAt(h, k, d) /\ TAt(g, l, d) => h = g /\ k = l
One(d) == Somewhere(d) /\ NowhereElse(d) /\ OncePlaced(d)

ConservationInv ==
  \A d \in Data : (d <= accepted => One(d)) /\ (d > accepted => ~Somewhere(d))

(* The predicates say what Places() lists. *)
LEMMA OneIsOnePlace ==
  ASSUME NEW d, One(d)
  PROVE  \E x : Places(d) = {x}
<1> DEFINE H == {<<"held", p>> : p \in {p \in Producers : pc[p] # "idle" /\ data[p] = d}}
           Q == UNION {{<<"queued", q, k>> : k \in Positions(queues[q].entries, d)} : q \in DOMAIN queues}
           T == UNION {{<<"taken", h, k>> : k \in Positions(taken[h], d)} : h \in Hashes}
           F == {<<"failed">> : x \in failed \cap {d}}
<1>1. Places(d) = H \cup Q \cup T \cup F
  BY DEF Places
<1>2. \A x : x \in H <=> \E p : HeldBy(p, d) /\ x = <<"held", p>>
  BY DEF HeldBy
<1>3. \A x : x \in Q <=> \E q, k : QAt(q, k, d) /\ x = <<"queued", q, k>>
  BY DEF QAt, Positions
<1>4. \A x : x \in T <=> \E h, k : TAt(h, k, d) /\ x = <<"taken", h, k>>
  BY DEF TAt, Positions
<1>5. \A x : x \in F <=> d \in failed /\ x = <<"failed">>
  OBVIOUS
<1> HIDE DEF H, Q, T, F
<1>6. (~Held(d) => H = {}) /\ (~Queued(d) => Q = {}) /\ (~Taken(d) => T = {}) /\ (d \notin failed => F = {})
  BY <1>2, <1>3, <1>4, <1>5 DEF Held, Queued, Taken
<1>7. CASE Held(d)
  <2>1. PICK p : HeldBy(p, d)
    BY <1>7 DEF Held
  <2>2. \A x : x \in H <=> x = <<"held", p>>
    BY <1>2, <2>1 DEF One, OncePlaced
  <2>3. H = {<<"held", p>>} /\ Q = {} /\ T = {} /\ F = {}
    BY <1>6, <1>7, <2>2 DEF One, NowhereElse
  <2> QED BY <1>1, <2>3
<1>8. CASE Queued(d)
  <2>1. PICK q, k : QAt(q, k, d)
    BY <1>8 DEF Queued
  <2>2. \A x : x \in Q <=> x = <<"queued", q, k>>
    BY <1>3, <2>1 DEF One, OncePlaced
  <2>3. Q = {<<"queued", q, k>>} /\ H = {} /\ T = {} /\ F = {}
    BY <1>6, <1>8, <2>2 DEF One, NowhereElse
  <2> QED BY <1>1, <2>3
<1>9. CASE Taken(d)
  <2>1. PICK h, k : TAt(h, k, d)
    BY <1>9 DEF Taken
  <2>2. \A x : x \in T <=> x = <<"taken", h, k>>
    BY <1>4, <2>1 DEF One, OncePlaced
  <2>3. T = {<<"taken", h, k>>} /\ H = {} /\ Q = {} /\ F = {}
    BY <1>6, <1>9, <2>2 DEF One, NowhereElse
  <2> QED BY <1>1, <2>3
<1>10. CASE d \in failed
  <2>1. F = {<<"failed">>}
    BY <1>5, <1>10
  <2>2. H = {} /\ Q = {} /\ T = {}
    BY <1>6, <1>10 DEF One, NowhereElse
  <2> QED BY <1>1, <2>1, <2>2
<1> QED BY <1>7, <1>8, <1>9, <1>10 DEF One, Somewhere

(* A frame that a step does not touch. *)
Untouched(d) ==
  /\ \A p : HeldBy(p, d)' <=> HeldBy(p, d)
  /\ \A q, k : QAt(q, k, d)' <=> QAt(q, k, d)
  /\ \A h, k : TAt(h, k, d)' <=> TAt(h, k, d)
  /\ d \in failed' <=> d \in failed

LEMMA UntouchedStays ==
  ASSUME NEW d, Untouched(d)
  PROVE  (One(d)' <=> One(d)) /\ (Somewhere(d)' <=> Somewhere(d))
<1>1. (Held(d)' <=> Held(d)) /\ (Queued(d)' <=> Queued(d)) /\ (Taken(d)' <=> Taken(d))
  BY DEF Untouched, Held, Queued, Taken
<1>2. Somewhere(d)' <=> Somewhere(d)
  BY <1>1 DEF Untouched, Somewhere
<1>3. NowhereElse(d)' <=> NowhereElse(d)
  BY <1>1 DEF Untouched, NowhereElse
<1>4. OncePlaced(d)' <=> OncePlaced(d)
  BY DEF Untouched, OncePlaced
<1> QED BY <1>2, <1>3, <1>4 DEF One

LEMMA AllUntouched ==
  ASSUME ConservationInv, accepted' = accepted, \A d \in Data : Untouched(d)
  PROVE  ConservationInv'
<1> SUFFICES ASSUME NEW d \in Data
             PROVE  (d <= accepted => One(d)') /\ (d > accepted => ~Somewhere(d)')
  BY DEF ConservationInv
<1> QED BY UntouchedStays DEF ConservationInv

(* One frame goes elsewhere and is then in one place; the others stay. *)
LEMMA OneMoves ==
  ASSUME ConservationInv, accepted' = accepted, NEW e \in Data, Somewhere(e), TypeOK,
         One(e) => One(e)', \A d \in Data : d # e => Untouched(d)
  PROVE  ConservationInv'
<1>1. e \in Nat /\ accepted \in Nat
  BY BoundsAssumption DEF TypeOK, Data
<1>2. e <= accepted /\ One(e)
  BY <1>1 DEF ConservationInv
<1> SUFFICES ASSUME NEW d \in Data
             PROVE  (d <= accepted => One(d)') /\ (d > accepted => ~Somewhere(d)')
  BY DEF ConservationInv
<1>3. CASE d = e
  BY <1>1, <1>2, <1>3
<1>4. CASE d # e
  BY <1>4, UntouchedStays DEF ConservationInv
<1> QED BY <1>3, <1>4

(* The next frame is accepted. *)
LEMMA OneComes ==
  ASSUME ConservationInv, TypeOK, accepted < MaxFrames, accepted' = accepted + 1,
         NEW e, e = accepted + 1, ~Somewhere(e) => One(e)',
         \A d \in Data : d # e => Untouched(d)
  PROVE  ConservationInv'
<1>1. accepted \in Nat /\ e \in Data
  BY BoundsAssumption DEF TypeOK, Data
<1>4. One(e)'
  BY <1>1 DEF ConservationInv
<1> SUFFICES ASSUME NEW d \in Data
             PROVE  (d <= accepted + 1 => One(d)') /\ (d > accepted + 1 => ~Somewhere(d)')
  BY DEF ConservationInv
<1>5. d \in Nat
  BY BoundsAssumption DEF Data
<1>6. CASE d = e
  BY <1>1, <1>4, <1>5, <1>6
<1>7. CASE d # e
  <2>1. (One(d)' <=> One(d)) /\ (Somewhere(d)' <=> Somewhere(d))
    BY <1>7, UntouchedStays
  <2> QED BY <1>1, <1>5, <1>7, <2>1 DEF ConservationInv
<1> QED BY <1>6, <1>7

LEMMA ConservationEnqueue ==
  ASSUME Inv, ConservationInv, NEW p \in Producers, NEW n \in QNames, Enqueue(p, n)
  PROVE  ConservationInv'
<1>1. /\ pc[p] = "idle" /\ accepted < MaxFrames /\ accepted' = accepted + 1
      /\ queues' = queues /\ taken' = taken /\ failed' = failed
  BY DEF Enqueue, shared
<1>2. /\ \A r \in Producers : r # p => pc'[r] = pc[r] /\ data'[r] = data[r]
      /\ pc'[p] # "idle" /\ data'[p] = accepted + 1
  BY DEF Enqueue, Inv, TypeOK, Threads
<1>3. /\ \A q, k, d : QAt(q, k, d)' <=> QAt(q, k, d)
      /\ \A h, k, d : TAt(h, k, d)' <=> TAt(h, k, d)
  BY <1>1 DEF QAt, TAt
<1>4. \A r, d : HeldBy(r, d)' <=> IF r = p THEN d = accepted + 1 ELSE HeldBy(r, d)
  BY <1>2 DEF HeldBy
<1>5. \A d : ~HeldBy(p, d)
  BY <1>1 DEF HeldBy
<1>6. \A d \in Data : d # accepted + 1 => Untouched(d)
  BY <1>1, <1>3, <1>4, <1>5 DEF Untouched
<1>7. PICK e : e = accepted + 1
  OBVIOUS
<1>8. ASSUME ~Somewhere(e) PROVE One(e)'
  <2>1. HeldBy(p, e)' /\ \A r : HeldBy(r, e)' => r = p
    BY <1>4, <1>7, <1>8 DEF Somewhere, Held
  <2>2. Held(e)' /\ ~Queued(e)' /\ ~Taken(e)' /\ e \notin failed'
    BY <1>1, <1>3, <1>8, <2>1 DEF Somewhere, Held, Queued, Taken
  <2>3. OncePlaced(e)'
    BY <2>1, <2>2 DEF OncePlaced, Queued, Taken
  <2> QED BY <2>2, <2>3 DEF One, Somewhere, NowhereElse
<1> QED BY <1>1, <1>6, <1>7, <1>8, OneComes DEF Inv

LEMMA ConservationEnqueueFails ==
  ASSUME Inv, ConservationInv, NEW p \in Producers, EnqueueFails(p)
  PROVE  ConservationInv'
<1>1. /\ accepted < MaxFrames /\ accepted' = accepted + 1 /\ failed' = failed \cup {accepted + 1}
      /\ queues' = queues /\ taken' = taken /\ pc' = pc /\ data' = data
  BY DEF EnqueueFails, shared, locals
<1>2. /\ \A q, k, d : QAt(q, k, d)' <=> QAt(q, k, d)
      /\ \A h, k, d : TAt(h, k, d)' <=> TAt(h, k, d)
      /\ \A r, d : HeldBy(r, d)' <=> HeldBy(r, d)
  BY <1>1 DEF QAt, TAt, HeldBy
<1>3. \A d \in Data : d # accepted + 1 => Untouched(d)
  BY <1>1, <1>2 DEF Untouched
<1>4. PICK e : e = accepted + 1
  OBVIOUS
<1>5. ASSUME ~Somewhere(e) PROVE One(e)'
  <2>1. ~Held(e)' /\ ~Queued(e)' /\ ~Taken(e)' /\ e \in failed'
    BY <1>1, <1>2, <1>4, <1>5 DEF Somewhere, Held, Queued, Taken
  <2>2. OncePlaced(e)'
    BY <2>1 DEF OncePlaced, Held, Queued, Taken
  <2> QED BY <2>1, <2>2 DEF One, Somewhere, NowhereElse
<1> QED BY <1>1, <1>3, <1>4, <1>5, OneComes DEF Inv

(* A step inside of get_queue(): an object it creates is empty. *)
LEMMA ConservationInside ==
  ASSUME Inv, ConservationInv, \A r \in Producers : pc'[r] = "idle" <=> pc[r] = "idle",
         data' = data, taken' = taken, failed' = failed, accepted' = accepted,
         DOMAIN queues \subseteq DOMAIN queues',
         \A q \in DOMAIN queues : queues'[q] = queues[q],
         \A q \in DOMAIN queues' \ DOMAIN queues : queues'[q].entries = <<>>
  PROVE  ConservationInv'
<1>1. /\ \A h, k, d : TAt(h, k, d)' <=> TAt(h, k, d)
      /\ \A r, d : HeldBy(r, d)' <=> HeldBy(r, d)
  BY DEF TAt, HeldBy
<1>2. ASSUME NEW q, NEW k, NEW d PROVE QAt(q, k, d)' <=> QAt(q, k, d)
  <2>1. CASE q \in DOMAIN queues
    BY <2>1 DEF QAt
  <2>2. CASE q \notin DOMAIN queues
    <3>1. DOMAIN <<>> = {}
      OBVIOUS
    <3> QED BY <2>2, <3>1 DEF QAt
  <2> QED BY <2>1, <2>2
<1> QED BY <1>1, <1>2, AllUntouched DEF Untouched

LEMMA ConservationGiveUp ==
  ASSUME Inv, ConservationInv, NEW t \in Threads, pc[t] # "idle", GiveUp(t), queues' = queues
  PROVE  ConservationInv'
<1>1. /\ accepted' = accepted /\ taken' = taken
      /\ failed' = IF t \in Producers THEN failed \cup {data[t]} ELSE failed
      /\ \A r \in Producers : r # t => pc'[r] = pc[r] /\ data'[r] = data[r]
      /\ pc'[t] = "idle"
  BY DEF GiveUp, Return, Inv, TypeOK, Threads
<1>2. /\ \A q, k, d : QAt(q, k, d)' <=> QAt(q, k, d)
      /\ \A h, k, d : TAt(h, k, d)' <=> TAt(h, k, d)
  BY <1>1 DEF QAt, TAt
<1>3. \A r, d : HeldBy(r, d)' <=> r # t /\ HeldBy(r, d)
  BY <1>1 DEF HeldBy
<1>4. CASE t \notin Producers
  <2>1. \A r, d : HeldBy(r, d) => r # t
    BY <1>4 DEF HeldBy
  <2> QED BY <1>1, <1>2, <1>3, <1>4, <2>1, AllUntouched DEF Untouched
<1>5. CASE t \in Producers
  <2>1. PICK e \in Data : e = data[t]
    BY <1>5 DEF Inv, DataInv
  <2>2. HeldBy(t, e) /\ \A d : HeldBy(t, d) => d = e
    BY <1>5, <2>1 DEF HeldBy
  <2>3. \A d \in Data : d # e => Untouched(d)
    BY <1>1, <1>2, <1>3, <1>5, <2>1, <2>2 DEF Untouched
  <2>4. Somewhere(e)
    BY <2>2 DEF Somewhere, Held
  <2>5. ASSUME One(e) PROVE One(e)'
    <3>1. Held(e) /\ ~Queued(e) /\ ~Taken(e)
      BY <2>2, <2>5 DEF One, NowhereElse, Held
    <3>2. ~Held(e)' /\ ~Queued(e)' /\ ~Taken(e)' /\ e \in failed'
      BY <1>1, <1>2, <1>3, <1>5, <2>1, <2>2, <2>5, <3>1 DEF One, OncePlaced, Held, Queued, Taken
    <3>3. OncePlaced(e)'
      BY <3>2 DEF OncePlaced, Held, Queued, Taken
    <3> QED BY <3>2, <3>3 DEF One, Somewhere, NowhereElse
  <2> QED BY <1>1, <2>3, <2>4, <2>5, OneMoves DEF Inv
<1> QED BY <1>4, <1>5

(* enqueue() appends the frame it holds, which is nowhere else. *)
LEMMA ConservationAddEntry ==
  ASSUME Inv, ConservationInv, NEW p \in Producers, AddEntry(p)
  PROVE  ConservationInv'
<1>1. /\ p \in Threads /\ pc[p] = "use" /\ cur[p] \in DOMAIN queues
      /\ accepted' = accepted /\ taken' = taken /\ failed' = failed
  BY DEF AddEntry, Threads, Inv, CurInv, TypeOK
<1>2. PICK e \in Data : e = data[p]
  BY <1>1 DEF Inv, DataInv
<1>3. PICK c \in DOMAIN queues : c = cur[p]
  BY <1>1
<1>4. PICK en \in Seq(Data) : en = queues[c].entries
  BY ObjectType DEF Inv
<1>5. queues' = [queues EXCEPT ![c].entries = Append(en, e)]
  BY <1>2, <1>3, <1>4 DEF AddEntry
<1>6. Append(en, e) \in Seq(Data)
  OBVIOUS
<1>7. /\ DOMAIN queues' = DOMAIN queues
      /\ \A q \in DOMAIN queues : q # c => queues'[q] = queues[q]
      /\ queues'[c].entries = Append(en, e)
  <2>1. PICK a : a = Append(en, e)
    OBVIOUS
  <2>2. /\ DOMAIN queues' = DOMAIN queues
        /\ \A q \in DOMAIN queues : q # c => queues'[q] = queues[q]
        /\ queues'[c] = [hashnum |-> queues[c].hashnum, entries |-> a]
    BY <1>5, <1>6, <2>1, SetEntries DEF Inv
  <2> QED BY <2>1, <2>2
<1>8. /\ Len(en) \in Nat /\ DOMAIN en = 1 .. Len(en) /\ DOMAIN Append(en, e) = 1 .. Len(en) + 1
      /\ \A k \in 1 .. Len(en) : Append(en, e)[k] = en[k]
      /\ Append(en, e)[Len(en) + 1] = e
  OBVIOUS
<1>9. PICK n : n = Len(en) + 1
  OBVIOUS
<1>10. ASSUME NEW q, NEW k, NEW d
       PROVE  QAt(q, k, d)' <=> QAt(q, k, d) \/ (q = c /\ k = n /\ d = e)
  <2>1. CASE q = c
    <3>1. QAt(q, k, d)' <=> k \in 1 .. Len(en) + 1 /\ Append(en, e)[k] = d
      BY <1>7, <1>8, <2>1 DEF QAt
    <3>2. QAt(q, k, d) <=> k \in 1 .. Len(en) /\ en[k] = d
      BY <1>4, <1>8, <2>1 DEF QAt
    <3>3. k \in 1 .. Len(en) + 1 <=> k \in 1 .. Len(en) \/ k = n
      BY <1>8, <1>9
    <3> QED BY <1>8, <1>9, <2>1, <3>1, <3>2, <3>3
  <2>2. CASE q # c
    BY <1>7, <2>2 DEF QAt
  <2> QED BY <2>1, <2>2
<1>11. \A h, k, d : TAt(h, k, d)' <=> TAt(h, k, d)
  BY <1>1 DEF TAt
<1>12. /\ \A r \in Producers : r # p => pc'[r] = pc[r] /\ data'[r] = data[r]
       /\ pc'[p] = "idle"
  BY DEF AddEntry, Return, Inv, TypeOK, Threads
<1>13. \A r, d : HeldBy(r, d)' <=> r # p /\ HeldBy(r, d)
  BY <1>12 DEF HeldBy
<1>14. HeldBy(p, e) /\ \A d : HeldBy(p, d) => d = e
  BY <1>1, <1>2 DEF HeldBy
<1>15. \A d \in Data : d # e => Untouched(d)
  BY <1>1, <1>10, <1>11, <1>13, <1>14 DEF Untouched
<1>16. Somewhere(e)
  BY <1>14 DEF Somewhere, Held
<1>17. ASSUME One(e) PROVE One(e)'
  <2>1. ~Queued(e) /\ ~Taken(e) /\ e \notin failed
    BY <1>14, <1>17 DEF One, NowhereElse, Held
  <2>2. \A q, k : QAt(q, k, e)' <=> q = c /\ k = n
    BY <1>10, <2>1 DEF Queued
  <2>3. ~Held(e)' /\ Queued(e)' /\ ~Taken(e)' /\ e \notin failed'
    BY <1>1, <1>11, <1>13, <1>14, <1>17, <2>1, <2>2 DEF One, OncePlaced, Held, Queued, Taken
  <2>4. OncePlaced(e)'
    BY <2>2, <2>3 DEF OncePlaced, Held, Taken
  <2> QED BY <2>3, <2>4 DEF One, Somewhere, NowhereElse
<1> QED BY <1>1, <1>15, <1>16, <1>17, OneMoves DEF Inv

(* dequeue() hands out the first entry, which is in no other place; the    *)
(* entries behind it move up.                                              *)
LEMMA ConservationTakeEntry ==
  ASSUME Inv, ConservationInv, NEW t \in Consumers, TakeEntry(t)
  PROVE  ConservationInv'
<1>1. /\ t \in Threads /\ pc[t] = "use" /\ cur[t] \in DOMAIN queues /\ t \notin Producers
      /\ accepted' = accepted /\ failed' = failed
  BY ThreadsAssumption DEF TakeEntry, Threads, Inv, CurInv, TypeOK
<1>2. PICK g \in Hashes : g = hash[t]
  BY <1>1 DEF Inv, TypeOK
<1>3. PICK c \in DOMAIN queues : c = cur[t]
  BY <1>1
<1>4. PICK en \in Seq(Data) : en = queues[c].entries
  BY ObjectType DEF Inv
<1>5. \A r \in Producers : pc'[r] = pc[r] /\ data'[r] = data[r]
  BY <1>1 DEF TakeEntry, Return, Inv, TypeOK, Threads
<1>6. \A r, d : HeldBy(r, d)' <=> HeldBy(r, d)
  BY <1>5 DEF HeldBy
<1>7. CASE en = <<>>
  <2>1. queues' = queues /\ taken' = taken
    BY <1>3, <1>4, <1>7 DEF TakeEntry
  <2>2. \A d \in Data : Untouched(d)
    BY <1>1, <1>6, <2>1 DEF Untouched, QAt, TAt
  <2> QED BY <1>1, <2>2, AllUntouched
<1>8. CASE en # <<>>
  <2>1. PICK e \in Data : e = Head(en)
    BY <1>8
  <2>2. PICK a \in Seq(Data) : a = Tail(en)
    <3>1. Tail(en) \in Seq(Data)
      BY <1>8
    <3> QED BY <3>1
  <2>3. queues' = [queues EXCEPT ![c].entries = a] /\ taken' = [taken EXCEPT ![g] = Append(@, e)]
    BY <1>2, <1>3, <1>4, <1>8, <2>1, <2>2 DEF TakeEntry
  <2>4. /\ DOMAIN queues' = DOMAIN queues
        /\ \A q \in DOMAIN queues : q # c => queues'[q] = queues[q]
        /\ queues'[c].entries = a
    <3>1. queues'[c] = [hashnum |-> queues[c].hashnum, entries |-> a]
      BY <2>3, SetEntries DEF Inv
    <3> QED BY <2>3, <3>1, SetEntries DEF Inv
  <2>5. /\ Len(en) \in Nat \ {0} /\ DOMAIN en = 1 .. Len(en) /\ e = en[1]
        /\ DOMAIN a = 1 .. Len(en) - 1 /\ \A k \in 1 .. Len(en) - 1 : a[k] = en[k + 1]
    BY <1>8, <2>1, <2>2
  <2>6. PICK s \in Seq(Data) : s = taken[g]
    BY DEF Inv, TypeOK
  <2>7. PICK n : n = Len(s) + 1
    OBVIOUS
  <2>8. taken'[g] = Append(s, e) /\ \A h \in Hashes : h # g => taken'[h] = taken[h]
    BY <2>3, <2>6 DEF Inv, TypeOK
  <2>9. /\ Len(s) \in Nat /\ DOMAIN s = 1 .. Len(s) /\ DOMAIN Append(s, e) = 1 .. Len(s) + 1
        /\ \A k \in 1 .. Len(s) : Append(s, e)[k] = s[k]
        /\ Append(s, e)[Len(s) + 1] = e
    OBVIOUS
  <2>10. ASSUME NEW h, NEW k, NEW d
         PROVE  TAt(h, k, d)' <=> TAt(h, k, d) \/ (h = g /\ k = n /\ d = e)
    <3>1. CASE h = g
      <4>1. TAt(h, k, d)' <=> k \in 1 .. Len(s) + 1 /\ Append(s, e)[k] = d
        BY <2>8, <2>9, <3>1 DEF TAt
      <4>2. TAt(h, k, d) <=> k \in 1 .. Len(s) /\ s[k] = d
        BY <2>6, <2>9, <3>1 DEF TAt
      <4>3. k \in 1 .. Len(s) + 1 <=> k \in 1 .. Len(s) \/ k = n
        BY <2>7, <2>9
      <4> QED BY <2>7, <2>9, <3>1, <4>1, <4>2, <4>3
    <3>2. CASE h # g
      BY <2>8, <3>2 DEF TAt
    <3> QED BY <3>1, <3>2
  <2>11. ASSUME NEW q, NEW k, NEW d, QAt(q, k, d)'
         PROVE  IF q = c THEN QAt(q, k + 1, d) /\ k \in Nat \ {0} ELSE QAt(q, k, d)
    <3>1. CASE q = c
      <4>1. k \in 1 .. Len(en) - 1 /\ a[k] = d
        BY <2>4, <2>5, <2>11, <3>1 DEF QAt
      <4>2. k + 1 \in DOMAIN en /\ en[k + 1] = d /\ k \in Nat \ {0}
        BY <2>5, <4>1
      <4> QED BY <1>4, <3>1, <4>2 DEF QAt
    <3>2. CASE q # c
      BY <2>4, <2>11, <3>2 DEF QAt
    <3> QED BY <3>1, <3>2
  <2>12. ASSUME NEW q, NEW k, NEW d, QAt(q, k, d)
         PROVE  \/ q = c /\ k = 1 /\ d = e
                \/ \E l : QAt(q, l, d)'
    <3>1. CASE q = c /\ k = 1
      BY <1>4, <2>5, <2>12, <3>1 DEF QAt
    <3>2. CASE q = c /\ k # 1
      <4>1. k \in 1 .. Len(en) /\ en[k] = d
        BY <1>4, <2>5, <2>12, <3>2 DEF QAt
      <4>2. k - 1 \in 1 .. Len(en) - 1 /\ (k - 1) + 1 = k
        BY <2>5, <3>2, <4>1
      <4>3. a[k - 1] = d
        BY <2>5, <4>1, <4>2
      <4>4. QAt(q, k - 1, d)'
        BY <2>4, <2>5, <3>2, <4>2, <4>3 DEF QAt
      <4> QED BY <4>4
    <3>3. CASE q # c
      <4>1. QAt(q, k, d)'
        BY <2>4, <2>12, <3>3 DEF QAt
      <4> QED BY <4>1
    <3> QED BY <3>1, <3>2, <3>3
  <2>13. QAt(c, 1, e)
    BY <1>4, <2>5 DEF QAt
  <2>14. ASSUME NEW d \in Data, d # e
         PROVE  (One(d) => One(d)') /\ (Somewhere(d)' <=> Somewhere(d))
    <3>1. (Held(d)' <=> Held(d)) /\ (Taken(d)' <=> Taken(d))
      BY <1>6, <2>10, <2>14 DEF Held, Taken
    <3>2. Queued(d)' <=> Queued(d)
      BY <2>11, <2>12, <2>14 DEF Queued
    <3>3. OncePlaced(d) => OncePlaced(d)'
      <4> SUFFICES ASSUME OncePlaced(d) PROVE OncePlaced(d)'
        OBVIOUS
      <4>1. \A p, r : HeldBy(p, d)' /\ HeldBy(r, d)' => p = r
        BY <1>6 DEF OncePlaced
      <4>2. \A h, k, f, l : TAt(h, k, d)' /\ TAt(f, l, d)' => h = f /\ k = l
        BY <2>10, <2>14 DEF OncePlaced
      <4>3. ASSUME NEW q, NEW k, NEW r, NEW l, QAt(q, k, d)', QAt(r, l, d)' PROVE q = r /\ k = l
        <5>1. /\ IF q = c THEN QAt(q, k + 1, d) /\ k \in Nat \ {0} ELSE QAt(q, k, d)
              /\ IF r = c THEN QAt(r, l + 1, d) /\ l \in Nat \ {0} ELSE QAt(r, l, d)
          BY <2>11, <4>3
        <5>2. q = r
          BY <5>1 DEF OncePlaced
        <5>3. CASE q = c
          <6>1. k + 1 = l + 1 /\ k \in Nat /\ l \in Nat
            BY <5>1, <5>2, <5>3 DEF OncePlaced
          <6> QED BY <5>2, <6>1
        <5>4. CASE q # c
          BY <5>1, <5>2, <5>4 DEF OncePlaced
        <5> QED BY <5>3, <5>4
      <4> QED BY <4>1, <4>2, <4>3 DEF OncePlaced
    <3>4. NowhereElse(d)' <=> NowhereElse(d)
      BY <1>1, <3>1, <3>2 DEF NowhereElse
    <3>5. Somewhere(d)' <=> Somewhere(d)
      BY <1>1, <3>1, <3>2 DEF Somewhere
    <3> QED BY <3>3, <3>4, <3>5 DEF One
  <2>15. e \in Nat /\ accepted \in Nat
    BY BoundsAssumption DEF Inv, TypeOK, Data
  <2>16. One(e) /\ e <= accepted
    <3>1. Somewhere(e)
      BY <2>13 DEF Somewhere, Queued
    <3> QED BY <2>15, <3>1 DEF ConservationInv
  <2>17. One(e)'
    <3>1. ~Held(e) /\ ~Taken(e) /\ e \notin failed
      BY <2>13, <2>16 DEF One, NowhereElse, Queued
    <3>2. \A h, k : TAt(h, k, e)' <=> h = g /\ k = n
      BY <2>10, <3>1 DEF Taken
    <3>3. ASSUME NEW q, NEW k, QAt(q, k, e)' PROVE FALSE
      <4>1. CASE q = c
        <5>1. QAt(c, k + 1, e) /\ k \in Nat \ {0}
          BY <2>11, <3>3, <4>1
        <5>2. k + 1 = 1
          BY <2>13, <2>16, <5>1 DEF One, OncePlaced
        <5> QED BY <5>1, <5>2
      <4>2. CASE q # c
        <5>1. QAt(q, k, e)
          BY <2>11, <3>3, <4>2
        <5> QED BY <2>13, <2>16, <4>2, <5>1 DEF One, OncePlaced
      <4> QED BY <4>1, <4>2
    <3>4. ~Held(e)' /\ ~Queued(e)' /\ Taken(e)' /\ e \notin failed'
      BY <1>1, <1>6, <3>1, <3>2, <3>3 DEF Held, Queued, Taken
    <3>5. OncePlaced(e)'
      BY <3>2, <3>4 DEF OncePlaced, Held, Queued
    <3> QED BY <3>4, <3>5 DEF One, Somewhere, NowhereElse
  <2> SUFFICES ASSUME NEW d \in Data
               PROVE  (d <= accepted => One(d)') /\ (d > accepted => ~Somewhere(d)')
    BY <1>1 DEF ConservationInv
  <2>18. CASE d = e
    BY <2>15, <2>16, <2>17, <2>18
  <2>19. CASE d # e
    BY <2>14, <2>19 DEF ConservationInv
  <2> QED BY <2>18, <2>19
<1> QED BY <1>7, <1>8

(* Conservation: a frame given to enqueue() is in exactly one place,       *)
(* whatever the interleaving of any number of threads, queues and failing  *)
(* allocations.                                                            *)
THEOREM Conserved == Spec => []Conservation
<1>1. Init => ConservationInv
  <2> SUFFICES ASSUME Init, NEW d \in Data PROVE ~Somewhere(d) /\ ~(d <= accepted)
    BY DEF ConservationInv
  <2>1. DOMAIN <<>> = {}
    OBVIOUS
  <2>2. accepted = 0 /\ d \in Nat \ {0}
    BY BoundsAssumption DEF Init, Data
  <2>3. ~Held(d)
    BY DEF Init, Held, HeldBy, Threads
  <2>4. ~Queued(d) /\ ~Taken(d) /\ d \notin failed
    BY <2>1 DEF Init, Queued, Taken, QAt, TAt
  <2> QED BY <2>2, <2>3, <2>4 DEF Somewhere
<1>2. Inv /\ ConservationInv /\ [Next]_vars => ConservationInv'
  <2> SUFFICES ASSUME Inv, ConservationInv, [Next]_vars PROVE ConservationInv'
    OBVIOUS
  <2>1. ASSUME NEW t \in Threads, GetQueue(t) PROVE ConservationInv'
    <3>1. CASE GetHead(t) \/ FindQueue(t) \/ LinkQueue(t)
      <4>1. /\ data' = data /\ taken' = taken /\ failed' = failed /\ accepted' = accepted
            /\ queues' = queues
        BY <3>1 DEF GetHead, FindQueue, LinkQueue, shared, history
      <4>2. \A r \in Producers : pc'[r] = "idle" <=> pc[r] = "idle"
        BY <3>1 DEF GetHead, FindQueue, LinkQueue, Inv, TypeOK, Threads
      <4> QED BY <4>1, <4>2, ConservationInside
    <3>2. CASE GetHeadFails(t) \/ CreateQueueFails(t)
      BY <3>2, ConservationGiveUp DEF GetHeadFails, CreateQueueFails, shared
    <3>3. CASE CreateQueue(t)
      <4>1. data' = data /\ taken' = taken /\ failed' = failed /\ accepted' = accepted
        BY <3>3 DEF CreateQueue, history
      <4>2. \A r \in Producers : pc'[r] = "idle" <=> pc[r] = "idle"
        BY <3>3 DEF CreateQueue, Inv, TypeOK, Threads
      <4>3. /\ DOMAIN queues \subseteq DOMAIN queues'
            /\ \A q \in DOMAIN queues : queues'[q] = queues[q]
            /\ \A q \in DOMAIN queues' \ DOMAIN queues : queues'[q].entries = <<>>
        BY <3>3 DEF CreateQueue, Inv, TypeOK
      <4> QED BY <4>1, <4>2, <4>3, ConservationInside
    <3> QED BY <2>1, <3>1, <3>2, <3>3 DEF GetQueue
  <2>2. ASSUME NEW c \in Consumers, Dequeue(c) PROVE ConservationInv'
    <3>1. /\ data' = data /\ taken' = taken /\ failed' = failed /\ accepted' = accepted
          /\ queues' = queues
      BY <2>2 DEF Dequeue, shared, history
    <3>2. \A r \in Producers : pc'[r] = "idle" <=> pc[r] = "idle"
      BY <2>2, ThreadsAssumption DEF Dequeue, Inv, TypeOK, Threads
    <3> QED BY <3>1, <3>2, ConservationInside
  <2>3. CASE UNCHANGED vars
    BY <2>3, ConservationInside DEF vars, locals, shared, history
  <2> QED BY <2>1, <2>2, <2>3, ConservationEnqueue, ConservationEnqueueFails,
             ConservationAddEntry, ConservationTakeEntry DEF Next
<1>3. Inv /\ ConservationInv => Conservation
  <2> SUFFICES ASSUME Inv, ConservationInv, NEW d \in 1 .. accepted
               PROVE  Cardinality(Places(d)) = 1
    BY DEF Conservation
  <2>1. d \in Data /\ d <= accepted
    BY BoundsAssumption DEF Inv, TypeOK, Data
  <2>2. PICK x : Places(d) = {x}
    BY <2>1, OneIsOnePlace DEF ConservationInv
  <2> QED BY <2>2, FS_Singleton
<1> QED BY <1>1, <1>2, <1>3, Invariance, PTL DEF Spec

=============================================================================
