------------------------------ MODULE QueueBox ------------------------------
(***************************************************************************)
(* src/lib/queue.c: the table of named queues every thread shares.         *)
(*                                                                         *)
(* queuebox is an array of QB_SIZE list heads, allocated on first use; a   *)
(* list holds the struct queue objects whose hashnum falls on that index.  *)
(* get_queue() takes queuebox_lock three times: to allocate the list head, *)
(* to search the list, and to link a queue object it has created because   *)
(* the search found none.  Each locked section is one action, and other    *)
(* threads run between them.  The malloc() failure in the first section    *)
(* returns with the lock held.                                             *)
(*                                                                         *)
(* Left out: the name and the count fields of struct queue, which no code  *)
(* of the daemon reads, and the three functions only unit tests call.      *)
(***************************************************************************)
EXTENDS Naturals, Sequences, FiniteSets, FiniteSetsExt

CONSTANTS
  Producers,   \* threads that call enqueue(): in the daemon the management worker alone
  Consumers,   \* threads that call dequeue(): the sending workers
  MaxFrames,   \* bound: how many frames are passed to enqueue()
  QNames,      \* queue names
  Hash,        \* Hash[n]: the value of get_hash(n)
  QB_SIZE,     \* the length of queuebox
  Dest,        \* Dest[c]: the one name the sending worker c dequeues from
  MaxOOM       \* bound: how many calls of malloc() may fail

ASSUME ThreadsAssumption == Producers \cap Consumers = {}
ASSUME NamesAssumption == QNames # {}
ASSUME SizeAssumption == QB_SIZE \in Nat \ {0}
ASSUME HashAssumption == Hash \in [QNames -> Nat]
ASSUME DestAssumption == Dest \in [Consumers -> QNames]
ASSUME BoundsAssumption == MaxFrames \in Nat /\ MaxOOM \in Nat

(* Frames are numbered in the order of the calls of enqueue(). *)
Data == 1 .. MaxFrames
Threads == Producers \cup Consumers
Hashes == {Hash[n] : n \in QNames}
Indexes == 0 .. (QB_SIZE - 1)
Index(h) == h % QB_SIZE

VARIABLES
  heads,    \* the indexes i with queuebox[i] # NULL
  box,      \* box[i]: the list at queuebox[i], as numbers of queue objects
  queues,   \* the struct queue objects, in the order they were created
  leaked,   \* queuebox_lock was left locked by a thread that has returned
  pc,       \* where each thread is
  hash,     \* hash[t]: the local hashnum of get_queue()
  data,     \* data[p]: the argument data of enqueue(), NULL outside a call
  cur,      \* cur[t]: the local queue of get_queue(), 0 for NULL
  oom,      \* how many calls of malloc() have failed
  accepted, \* history: how many frames enqueue() has been called with
  failed,   \* history: the frames enqueue() refused
  taken,    \* history: taken[h], the frames dequeue() returned for hash h
  used      \* history: the pairs <<p, h>> with a frame p put under hash h

locals == <<pc, hash, data, cur>>
shared == <<heads, box, queues, leaked>>
history == <<accepted, failed, taken, used>>
vars == <<locals, shared, oom, history>>

NULL == 0

(* The value of hash[t] outside a call, where nothing reads it. *)
NoHash == CHOOSE h \in Hashes : TRUE

Init ==
  /\ heads = {}
  /\ box = [i \in Indexes |-> <<>>]
  /\ queues = <<>>
  /\ leaked = FALSE
  /\ pc = [t \in Threads |-> "idle"]
  /\ hash = [t \in Threads |-> NoHash]
  /\ data = [p \in Producers |-> NULL]
  /\ cur = [t \in Threads |-> NULL]
  /\ oom = 0
  /\ accepted = 0
  /\ failed = {}
  /\ taken = [h \in Hashes |-> <<>>]
  /\ used = {}

-----------------------------------------------------------------------------
(* The search loop of get_queue() runs to the end of the list, so that the *)
(* last object with the hash is the one found; list_add() links in front.  *)
Matches(l, h) == {k \in DOMAIN l : queues[l[k]].hashnum = h}
(* Mutant: the loop stops at the first match. *)
FirstMatch(l, h) == l[Min(Matches(l, h))]
LastMatch(l, h) == l[Max(Matches(l, h))]

Linked(h) == Matches(box[Index(h)], h) # {}

(* What a search for hash h returns now. *)
Search(h) == IF Linked(h) THEN LastMatch(box[Index(h)], h) ELSE NULL

(* One call of malloc() fails. *)
MallocFails == oom < MaxOOM /\ oom' = oom + 1

(* enqueue() or dequeue() returns to its caller. *)
Return(t) ==
  /\ pc' = [pc EXCEPT ![t] = "idle"]
  /\ cur' = [cur EXCEPT ![t] = NULL]
  /\ hash' = [hash EXCEPT ![t] = NoHash]
  /\ data' = [p \in Producers |-> IF p = t THEN NULL ELSE data[p]]

(* get_queue() returned NULL: enqueue() frees the entry and returns        *)
(* RET_ERROR, dequeue() returns NULL.                                      *)
GiveUp(t) ==
  /\ Return(t)
  /\ failed' = IF t \in Producers THEN failed \cup {data[t]} ELSE failed
  /\ UNCHANGED <<accepted, taken, used>>

-----------------------------------------------------------------------------
(* enqueue(d, n) of the next frame d: create_entry() succeeds, get_queue(n) *)
(* is entered.                                                              *)
Enqueue(p, n) ==
  /\ pc[p] = "idle"
  /\ accepted < MaxFrames
  /\ pc' = [pc EXCEPT ![p] = "head"]
  /\ hash' = [hash EXCEPT ![p] = Hash[n]]
  /\ data' = [data EXCEPT ![p] = accepted + 1]
  /\ accepted' = accepted + 1
  /\ UNCHANGED <<cur, shared, oom, failed, taken, used>>

(* enqueue() of the next frame: create_entry() fails. *)
EnqueueFails(p) ==
  /\ pc[p] = "idle"
  /\ accepted < MaxFrames
  /\ MallocFails
  /\ accepted' = accepted + 1
  /\ failed' = failed \cup {accepted + 1}
  /\ UNCHANGED <<locals, shared, taken, used>>

(* dequeue(Dest[c]): get_queue() is entered. *)
Dequeue(c) ==
  /\ pc[c] = "idle"
  /\ pc' = [pc EXCEPT ![c] = "head"]
  /\ hash' = [hash EXCEPT ![c] = Hash[Dest[c]]]
  /\ UNCHANGED <<data, cur, shared, oom, history>>

(* get_queue(), first locked section: the list head is there or allocated. *)
GetHead(t) ==
  /\ pc[t] = "head"
  /\ ~leaked
  /\ heads' = heads \cup {Index(hash[t])}
  /\ pc' = [pc EXCEPT ![t] = "find"]
  /\ UNCHANGED <<hash, data, cur, box, queues, leaked, oom, history>>

(* The same section when malloc() fails: it returns without unlocking. *)
GetHeadFails(t) ==
  /\ pc[t] = "head"
  /\ ~leaked
  /\ Index(hash[t]) \notin heads
  /\ MallocFails
  /\ leaked' = TRUE
  /\ GiveUp(t)
  /\ UNCHANGED <<heads, box, queues>>

(* get_queue(), second locked section: the search. *)
FindQueue(t) ==
  /\ pc[t] = "find"
  /\ ~leaked
  /\ cur' = [cur EXCEPT ![t] = Search(hash[t])]
  /\ pc' = [pc EXCEPT ![t] = IF Linked(hash[t]) THEN "use" ELSE "create"]
  /\ UNCHANGED <<hash, data, shared, oom, history>>

(* create_queue(): not locked, the object is not shared yet. *)
CreateQueue(t) ==
  /\ pc[t] = "create"
  /\ queues' = Append(queues, [hashnum |-> hash[t], entries |-> <<>>])
  /\ cur' = [cur EXCEPT ![t] = Len(queues) + 1]
  /\ pc' = [pc EXCEPT ![t] = "link"]
  /\ UNCHANGED <<hash, data, heads, box, leaked, oom, history>>

(* Mutant: the result of create_queue() is not tested. *)
CreateQueueUnchecked(t) ==
  /\ pc[t] = "create"
  /\ MallocFails
  /\ pc' = [pc EXCEPT ![t] = "link"]
  /\ UNCHANGED <<hash, data, cur, shared, history>>

CreateQueueFails(t) ==
  /\ pc[t] = "create"
  /\ MallocFails
  /\ GiveUp(t)
  /\ UNCHANGED shared

(* Mutant: list_add_tail() in place of list_add(). *)
LinkQueueAtTail(t) ==
  /\ pc[t] = "link"
  /\ ~leaked
  /\ box' = [box EXCEPT ![Index(hash[t])] = Append(@, cur[t])]
  /\ pc' = [pc EXCEPT ![t] = "use"]
  /\ UNCHANGED <<hash, data, cur, heads, queues, leaked, oom, history>>

(* get_queue(), third locked section: list_add() at the front of the list. *)
LinkQueue(t) ==
  /\ pc[t] = "link"
  /\ ~leaked
  /\ box' = [box EXCEPT ![Index(hash[t])] = <<cur[t]>> \o @]
  /\ pc' = [pc EXCEPT ![t] = "use"]
  /\ UNCHANGED <<hash, data, cur, heads, queues, leaked, oom, history>>

(* Mutant: list_add() in place of list_add_tail(). *)
AddEntryInFront(p) ==
  /\ pc[p] = "use"
  /\ queues' = [queues EXCEPT ![cur[p]].entries = <<data[p]>> \o @]
  /\ used' = used \cup {<<p, hash[p]>>}
  /\ Return(p)
  /\ UNCHANGED <<heads, box, leaked, oom, accepted, failed, taken>>

(* The section of enqueue() under q->mutex. *)
AddEntry(p) ==
  /\ pc[p] = "use"
  /\ queues' = [queues EXCEPT ![cur[p]].entries = Append(@, data[p])]
  /\ used' = used \cup {<<p, hash[p]>>}
  /\ Return(p)
  /\ UNCHANGED <<heads, box, leaked, oom, accepted, failed, taken>>

(* Mutant: list_del() is missing. *)
TakeEntryKept(c) ==
  LET entries == queues[cur[c]].entries
  IN  /\ pc[c] = "use"
      /\ entries # <<>>
      /\ taken' = [taken EXCEPT ![hash[c]] = Append(@, Head(entries))]
      /\ Return(c)
      /\ UNCHANGED <<heads, box, queues, leaked, oom, accepted, failed, used>>

(* The section of dequeue() under q->mutex, which may find the queue empty. *)
TakeEntry(c) ==
  LET entries == queues[cur[c]].entries
  IN  /\ pc[c] = "use"
      /\ \/ /\ entries # <<>>
            /\ queues' = [queues EXCEPT ![cur[c]].entries = Tail(@)]
            /\ taken' = [taken EXCEPT ![hash[c]] = Append(@, Head(entries))]
         \/ /\ entries = <<>>
            /\ UNCHANGED <<queues, taken>>
      /\ Return(c)
      /\ UNCHANGED <<heads, box, leaked, oom, accepted, failed, used>>

GetQueue(t) ==
  \/ GetHead(t) \/ GetHeadFails(t)
  \/ FindQueue(t)
  \/ CreateQueue(t) \/ CreateQueueFails(t)
  \/ LinkQueue(t)

Next ==
  \/ \E p \in Producers, n \in QNames : Enqueue(p, n)
  \/ \E p \in Producers : EnqueueFails(p)
  \/ \E c \in Consumers : Dequeue(c)
  \/ \E t \in Threads : GetQueue(t)
  \/ \E p \in Producers : AddEntry(p)
  \/ \E c \in Consumers : TakeEntry(c)

Spec == Init /\ [][Next]_vars

(* Every thread that is inside enqueue() or dequeue() goes on, and a       *)
(* sending worker calls dequeue() again and again (its loop never sleeps). *)
(* When a management worker calls enqueue() is up to the clients.          *)
Fairness ==
  /\ \A t \in Threads : WF_vars(GetQueue(t))
  /\ \A p \in Producers : WF_vars(AddEntry(p))
  /\ \A c \in Consumers : WF_vars(TakeEntry(c)) /\ WF_vars(Dequeue(c))

FairSpec == Spec /\ Fairness

-----------------------------------------------------------------------------
QueueObject == [hashnum : Hashes, entries : Seq(Data)]

(* The shape of the state of queue.c and of the threads inside it. *)
TypeOK ==
  /\ heads \in SUBSET Indexes
  /\ queues \in Seq(QueueObject)
  /\ box \in [Indexes -> Seq(DOMAIN queues)]
  /\ leaked \in BOOLEAN
  /\ pc \in [Threads -> {"idle", "head", "find", "create", "link", "use"}]
  /\ hash \in [Threads -> Hashes]
  /\ data \in [Producers -> {NULL} \cup Data]
  /\ cur \in [Threads -> {NULL} \cup DOMAIN queues]
  /\ oom \in 0 .. MaxOOM
  /\ accepted \in 0 .. MaxFrames
  /\ failed \in SUBSET Data
  /\ taken \in [Hashes -> Seq(Data)]
  /\ used \in SUBSET (Producers \X Hashes)

(* The frames under hash h that a search for h leads to. *)
Pending(h) == IF Linked(h) THEN queues[Search(h)].entries ELSE <<>>

(* The frames under hash h in an object that a search for h does not find. *)
Lost(h) ==
  {d \in Data : \E q \in DOMAIN queues :
     /\ queues[q].hashnum = h
     /\ q # Search(h)
     /\ \E k \in DOMAIN queues[q].entries : queues[q].entries[k] = d}

(* queue.c implements MessageQueue: whatever the interleaving of the three *)
(* locked sections of get_queue() in several threads, the frames under a   *)
(* hash come out in the order in which they went in, and at most the first *)
(* frame a thread puts under a hash is stranded.                           *)
MQ == INSTANCE MessageQueue WITH
        pending <- [h \in Hashes |-> Pending(h)],
        lost <- [h \in Hashes |-> Lost(h)]

ImplementsMessageQueue == MQ!Spec

(* Once a search for a hash finds an object, it finds the same object for  *)
(* ever: racing get_queue() calls that link further objects for the hash   *)
(* never redirect the traffic (list_add() at the front, last match wins).  *)
CanonicalStable ==
  [][\A h \in Hashes : Linked(h) => Linked(h)' /\ Search(h)' = Search(h)]_vars

(* The places where frame d is: held by an enqueue() in progress, in a     *)
(* queue object, handed out, refused.                                      *)
Positions(s, d) == {k \in DOMAIN s : s[k] = d}
Places(d) ==
  {<<"held", p>> : p \in {p \in Producers : pc[p] # "idle" /\ data[p] = d}}
  \cup (UNION {{<<"queued", q, k>> : k \in Positions(queues[q].entries, d)} : q \in DOMAIN queues})
  \cup (UNION {{<<"taken", h, k>> : k \in Positions(taken[h], d)} : h \in Hashes})
  \cup {<<"failed">> : x \in failed \cap {d}}

(* A frame given to enqueue() is in exactly one place, whatever the        *)
(* interleaving: never handed out twice, never both refused and queued,    *)
(* never dropped by the code that races to create its queue.               *)
Conservation == \A d \in 1 .. accepted : Cardinality(Places(d)) = 1

(* A queue object that a search does not find holds at most one frame: a   *)
(* lost race in get_queue() costs the thread that lost it one frame, and   *)
(* no second frame ever follows the first into the object.                 *)
AtMostOneStranded ==
  \A q \in DOMAIN queues :
    q # Search(queues[q].hashnum) => Len(queues[q].entries) <= 1

(* A frame that a search leads to is handed out, if a sending worker polls *)
(* its hash; unless queuebox_lock was leaked by a failed malloc().         *)
EventuallyTaken ==
  \A c \in Consumers, d \in Data :
    LET h == Hash[Dest[c]]
    IN  Positions(Pending(h), d) # {} ~> Positions(taken[h], d) # {} \/ leaked

-----------------------------------------------------------------------------
(* The parts of the inductive invariant that the theorems rest on.         *)

(* Every list holds objects of its own index, and a search ends.           *)
BoxInv ==
  /\ \A i \in Indexes : \A k \in DOMAIN box[i] : Index(queues[box[i][k]].hashnum) = i
  /\ \A h \in Hashes : Linked(h) =>
       \E k \in Matches(box[Index(h)], h) : \A j \in Matches(box[Index(h)], h) : j <= k

(* Thread t is the only one that knows the object cur[t]. *)
Owns(t) ==
  /\ queues[cur[t]].entries = <<>>
  /\ \A u \in Threads \ {t} : cur[u] # cur[t]

(* A created object belongs to its creator until it is linked; after that  *)
(* the creator is its only user unless the search leads to it.             *)
CurInv ==
  \A t \in Threads :
    /\ pc[t] \in {"idle", "head", "find", "create"} => cur[t] = NULL
    /\ pc[t] \in {"link", "use"} =>
         cur[t] # NULL /\ queues[cur[t]].hashnum = hash[t]
    /\ pc[t] = "link" =>
         Owns(t) /\ \A i \in Indexes : \A k \in DOMAIN box[i] : box[i][k] # cur[t]
    /\ pc[t] = "use" => Linked(hash[t])
    /\ pc[t] = "use" /\ cur[t] # Search(hash[t]) => Owns(t)

(* A thread that has put a frame under a hash always finds the object of   *)
(* that hash afterwards.                                                   *)
UsedInv ==
  /\ \A p \in Producers, h \in Hashes : <<p, h>> \in used => Linked(h)
  /\ \A p \in Producers :
       \/ pc[p] = "create"
       \/ pc[p] \in {"link", "use"} /\ cur[p] # Search(hash[p])
       => <<p, hash[p]>> \notin used

DataInv == \A p \in Producers : pc[p] # "idle" => data[p] \in Data

Inv == TypeOK /\ BoxInv /\ CurInv /\ UsedInv /\ DataInv /\ AtMostOneStranded

(* What the unit test of the queues expects: after an enqueue() that       *)
(* returned RET_SUCCESS, dequeue() on the name can return the frame.       *)
NoneLost == \A h \in Hashes : Lost(h) = {}

=============================================================================
