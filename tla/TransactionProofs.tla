------------------------- MODULE TransactionProofs --------------------------
(***************************************************************************)
(* Proofs about Transaction, for any frames, names, stored names and       *)
(* callbacks.                                                              *)
(***************************************************************************)
EXTENDS Transaction, SequenceLemmas, SequenceTheorems, TLAPS

(* A lookup that finds something finds a transaction of the list. *)
LEMMA LookupFinds ==
  ASSUME TypeOK, NEW tid, Known(tid)
  PROVE  get_transaction(tid) \in 1 .. Len(transactions)
<1>1. Matching(tid) \in SUBSET (0 .. Len(transactions)) /\ Len(transactions) \in Nat
  BY DEF Matching, TypeOK
<1>2. Max(Matching(tid)) \in Matching(tid)
  BY <1>1, MaxIsLargest DEF Known
<1> QED
  BY <1>2 DEF get_transaction, Matching, TypeOK

(* The fields of a transaction. *)
LEMMA ObjectType ==
  ASSUME TypeOK, NEW i \in DOMAIN transactions
  PROVE  /\ transactions[i].frames \in Seq(Frames)
         /\ FramesOf(i) \subseteq Frames
<1>1. transactions[i] \in TransactionObject
  BY DEF TypeOK
<1>2. transactions[i].frames \in Seq(Frames)
  BY <1>1 DEF TransactionObject
<1> QED BY <1>2 DEF FramesOf, Range

-----------------------------------------------------------------------------
(* Taking a transaction out of the list keeps the names in order. *)
LEMMA RemoveKeepsNames ==
  ASSUME Inv, NEW n \in 1 .. Len(transactions), transactions' = RemoveAt(transactions, n)
  PROVE  /\ NamesInv'
         /\ transactions' \in Seq(TransactionObject)
         /\ Len(transactions') = Len(transactions) - 1
<1>1. transactions \in Seq(TransactionObject)
  BY DEF Inv, TypeOK
<1>2. /\ transactions' \in Seq(TransactionObject)
      /\ Len(transactions') = Len(transactions) - 1
      /\ \A k \in 1 .. Len(transactions) - 1 :
           transactions'[k] = IF k < n THEN transactions[k] ELSE transactions[k + 1]
  BY <1>1, RemoveAtIs
<1> DEFINE old(k) == IF k < n THEN k ELSE k + 1
<1>3. \A k \in DOMAIN transactions' :
        old(k) \in DOMAIN transactions /\ transactions'[k] = transactions[old(k)]
  BY <1>1, <1>2
<1>4. \A i, j \in DOMAIN transactions' : i < j => old(i) < old(j)
  BY <1>2
<1> HIDE DEF old
<1>5. NamesInv'
  BY <1>3, <1>4 DEF Inv, NamesInv
<1> QED BY <1>2, <1>5

(* Changing the frames of a transaction leaves the names alone. *)
LEMMA FramesKeepNames ==
  ASSUME Inv, NEW n \in DOMAIN transactions, NEW s \in Seq(Frames),
         transactions' = [transactions EXCEPT ![n].frames = s]
  PROVE  /\ NamesInv'
         /\ transactions' \in Seq(TransactionObject)
         /\ Len(transactions') = Len(transactions)
<1>1. \A i \in DOMAIN transactions : transactions[i] \in TransactionObject
  BY DEF Inv, TypeOK
<1>2. DOMAIN transactions' = DOMAIN transactions
  OBVIOUS
<1>3. \A i \in DOMAIN transactions :
        /\ transactions'[i] \in TransactionObject
        /\ transactions'[i].tid = transactions[i].tid
        /\ transactions'[i].stored = transactions[i].stored
  BY <1>1 DEF TransactionObject
<1>4. NamesInv'
  BY <1>2, <1>3 DEF Inv, NamesInv
<1>5. /\ transactions \in Seq(TransactionObject)
      /\ n \in 1 .. Len(transactions)
      /\ [transactions[n] EXCEPT !.frames = s] \in TransactionObject
  <2>1. transactions \in Seq(TransactionObject) /\ n \in 1 .. Len(transactions)
    BY DEF Inv, TypeOK
  <2>2. transactions[n] \in TransactionObject
    BY <1>1
  <2>3. [transactions[n] EXCEPT !.frames = s] \in TransactionObject
    BY <2>2 DEF TransactionObject
  <2> QED BY <2>1, <2>3
<1>6. transactions' = [transactions EXCEPT ![n] = [transactions[n] EXCEPT !.frames = s]]
  OBVIOUS
<1>7. transactions' \in Seq(TransactionObject) /\ Len(transactions') = Len(transactions)
  BY <1>5, <1>6, ExceptSeq
<1> QED BY <1>4, <1>7

LEMMA InvStart ==
  ASSUME Inv, NEW tid \in Tids, transaction_start(tid)
  PROVE  Inv'
<1>1. CASE Known(tid) /\ UNCHANGED transactions
  BY <1>1 DEF transaction_start, Inv, TypeOK, NamesInv
<1>2. ASSUME NEW s \in StoredTids, ~Known(tid), IsPrefix(tid, s),
             transactions' = Append(transactions, [tid |-> tid, stored |-> s, frames |-> <<>>])
      PROVE  Inv'
  <2> DEFINE t == [tid |-> tid, stored |-> s, frames |-> <<>>]
  <2>1. t \in TransactionObject /\ t.tid = tid /\ t.stored = s
    BY DEF TransactionObject
  <2> HIDE DEF t
  <2>2. /\ transactions \in Seq(TransactionObject)
        /\ transactions' = Append(transactions, t)
    BY <1>2 DEF Inv, TypeOK, t
  <2>3. /\ transactions' \in Seq(TransactionObject)
        /\ Len(transactions') = Len(transactions) + 1
        /\ transactions'[Len(transactions) + 1] = t
        /\ \A i \in DOMAIN transactions : transactions'[i] = transactions[i]
        /\ DOMAIN transactions' = DOMAIN transactions \cup {Len(transactions) + 1}
    BY <2>1, <2>2
  <2>4. \A i \in DOMAIN transactions : ~IsPrefix(tid, transactions[i].stored)
    BY <1>2 DEF Known, Matching
  <2>5. NamesInv'
    <3>1. \A i \in DOMAIN transactions' : IsPrefix(transactions'[i].tid, transactions'[i].stored)
      BY <2>1, <2>3, <1>2 DEF Inv, NamesInv
    <3>2. \A i, j \in DOMAIN transactions' :
            i < j => ~IsPrefix(transactions'[j].tid, transactions'[i].stored)
      <4> SUFFICES ASSUME NEW i \in DOMAIN transactions', NEW j \in DOMAIN transactions', i < j
                   PROVE  ~IsPrefix(transactions'[j].tid, transactions'[i].stored)
        OBVIOUS
      <4>1. i \in DOMAIN transactions
        BY <2>2, <2>3
      <4>2. CASE j \in DOMAIN transactions
        BY <4>1, <4>2, <2>3 DEF Inv, NamesInv
      <4>3. CASE j = Len(transactions) + 1
        BY <4>1, <4>3, <2>1, <2>3, <2>4
      <4> QED BY <4>2, <4>3, <2>3
    <3> QED BY <3>1, <3>2 DEF NamesInv
  <2>6. TypeOK'
    BY <2>3, <2>2 DEF transaction_start, Inv, TypeOK
  <2> QED BY <2>5, <2>6 DEF Inv
<1> QED BY <1>1, <1>2 DEF transaction_start

LEMMA InvAdd ==
  ASSUME Inv, NEW tid \in Tids, NEW f \in Frames, transaction_add(tid, f)
  PROVE  Inv'
<1>1. CASE ~Known(tid)
  BY <1>1 DEF transaction_add, Inv, TypeOK, NamesInv
<1>2. CASE Known(tid)
  <2> DEFINE n == get_transaction(tid)
  <2>1. n \in DOMAIN transactions
    BY <1>2, LookupFinds DEF Inv, TypeOK
  <2> HIDE DEF n
  <2>2. <<f>> \o transactions[n].frames \in Seq(Frames)
    BY <2>1, ObjectType DEF Inv
  <2>3. transactions' = [transactions EXCEPT ![n].frames = <<f>> \o transactions[n].frames]
    BY <1>2 DEF transaction_add, n
  <2>4. /\ NamesInv'
        /\ transactions' \in Seq(TransactionObject)
        /\ Len(transactions') = Len(transactions)
    BY <2>1, <2>2, <2>3, FramesKeepNames
  <2> QED BY <1>2, <2>4 DEF transaction_add, Inv, TypeOK
<1> QED BY <1>1, <1>2

LEMMA InvAbort ==
  ASSUME Inv, NEW tid \in Tids, transaction_abort(tid)
  PROVE  Inv'
<1>1. CASE ~Known(tid)
  BY <1>1 DEF transaction_abort, Inv, TypeOK, NamesInv
<1>2. CASE Known(tid)
  <2> DEFINE n == get_transaction(tid)
  <2>1. n \in 1 .. Len(transactions) /\ n \in DOMAIN transactions
    BY <1>2, LookupFinds DEF Inv, TypeOK
  <2>2. /\ transactions' = RemoveAt(transactions, n)
        /\ discarded' = discarded \cup FramesOf(n)
        /\ committing = 0 /\ UNCHANGED <<committing, ran>>
    BY <1>2 DEF transaction_abort, Ready
  <2> HIDE DEF n
  <2>3. /\ NamesInv'
        /\ transactions' \in Seq(TransactionObject)
        /\ Len(transactions') = Len(transactions) - 1
    BY <2>1, <2>2, RemoveKeepsNames
  <2>4. FramesOf(n) \subseteq Frames
    BY <2>1, ObjectType DEF Inv
  <2> QED BY <2>1, <2>2, <2>3, <2>4 DEF Inv, TypeOK
<1> QED BY <1>1, <1>2

LEMMA InvCommit ==
  ASSUME Inv, NEW tid \in Tids, transaction_commit(tid)
  PROVE  Inv'
<1>1. Known(tid) => get_transaction(tid) \in 1 .. Len(transactions)
  BY LookupFinds DEF Inv
<1>2. committing' \in 0 .. Len(transactions)
  BY <1>1 DEF transaction_commit, Inv, TypeOK
<1> QED BY <1>2 DEF transaction_commit, Inv, TypeOK, NamesInv

(* free_transaction() at the end of a commit. *)
LEMMA InvFree ==
  ASSUME Inv, ~Ready, NEW left \in SUBSET Frames, FreeCommitted(left), ran' \in Seq(Frames)
  PROVE  Inv'
<1>1. committing \in 1 .. Len(transactions)
  BY DEF Inv, TypeOK, Ready
<1>2. /\ NamesInv'
      /\ transactions' \in Seq(TransactionObject)
      /\ Len(transactions') = Len(transactions) - 1
  BY <1>1, RemoveKeepsNames DEF FreeCommitted
<1> QED BY <1>1, <1>2 DEF FreeCommitted, Inv, TypeOK

LEMMA InvRound == ASSUME Inv, CommitRound PROVE Inv'
<1> DEFINE frames == transactions[committing].frames
<1>1. ~Ready /\ committing \in DOMAIN transactions
  BY DEF CommitRound, Inv, TypeOK, Ready
<1>2. frames \in Seq(Frames)
  BY <1>1, ObjectType DEF Inv
<1>3. frames # <<>> /\ ran' = Append(ran, Head(frames))
  BY DEF CommitRound
<1> HIDE DEF frames
<1>4. Head(frames) \in Frames /\ Tail(frames) \in Seq(Frames)
  BY <1>2, <1>3
<1>5. ran' \in Seq(Frames)
  BY <1>3, <1>4 DEF Inv, TypeOK
<1>6. CASE FreeCommitted(Range(Tail(frames)))
  <2>1. Range(Tail(frames)) \in SUBSET Frames
    BY <1>4 DEF Range
  <2> QED BY <1>1, <1>5, <1>6, <2>1, InvFree
<1>7. CASE /\ transactions' = [transactions EXCEPT ![committing].frames = Tail(frames)]
           /\ UNCHANGED <<committing, discarded>>
  <2>1. /\ NamesInv'
        /\ transactions' \in Seq(TransactionObject)
        /\ Len(transactions') = Len(transactions)
    BY <1>1, <1>4, <1>7, FramesKeepNames
  <2> QED BY <1>5, <1>7, <2>1 DEF Inv, TypeOK
<1> QED BY <1>6, <1>7 DEF CommitRound, frames

LEMMA InvNext == Inv /\ [Next]_vars => Inv'
<1> SUFFICES ASSUME Inv, [Next]_vars PROVE Inv'
  OBVIOUS
<1>1. ASSUME NEW tid \in Tids, transaction_start(tid) PROVE Inv'
  BY <1>1, InvStart
<1>2. ASSUME NEW tid \in Tids, NEW f \in Frames \ Added, transaction_add(tid, f) PROVE Inv'
  BY <1>2, InvAdd
<1>3. ASSUME NEW tid \in Tids, transaction_abort(tid) PROVE Inv'
  BY <1>3, InvAbort
<1>4. ASSUME NEW tid \in Tids, transaction_commit(tid) PROVE Inv'
  BY <1>4, InvCommit
<1>5. CASE CommitEnds
  <2>1. ran' \in Seq(Frames)
    BY <1>5 DEF CommitEnds, Inv, TypeOK
  <2> QED BY <1>5, <2>1, InvFree DEF CommitEnds
<1>6. CASE CommitRound
  BY <1>6, InvRound
<1>7. CASE UNCHANGED vars
  BY <1>7 DEF vars, Inv, TypeOK, NamesInv
<1> QED BY <1>1, <1>2, <1>3, <1>4, <1>5, <1>6, <1>7 DEF Next

(* The invariant holds in every reachable state. *)
THEOREM Invariance == Spec => []Inv
<1>1. Init => Inv
  BY DEF Init, Inv, TypeOK, NamesInv
<1> QED BY <1>1, InvNext, PTL DEF Spec

(* The list of transactions keeps its shape whatever is begun, added,      *)
(* aborted and committed (TypeOK of the run).                              *)
THEOREM TypeCorrect == Spec => []TypeOK
<1>1. Inv => TypeOK
  BY DEF Inv
<1> QED BY <1>1, Invariance, PTL

(* For any set of names, one a beginning of the other or not, and any      *)
(* uninitialised bytes behind them: a name never leads to a transaction    *)
(* older than the one begun under it (get_transaction(), transaction.c).   *)
THEOREM NeverOlder == Spec => []NoOlderMatch
<1>1. Inv => NoOlderMatch
  <2> SUFFICES ASSUME Inv, NEW i \in DOMAIN transactions
               PROVE  Min(Matching(transactions[i].tid)) = i
    BY DEF NoOlderMatch
  <2> DEFINE M == Matching(transactions[i].tid)
  <2>1. M \in SUBSET Nat /\ DOMAIN transactions \in SUBSET Nat
    BY DEF Matching, Inv, TypeOK
  <2>2. i \in M
    BY DEF Matching, Inv, NamesInv
  <2>3. \A j \in M : ~(j < i)
    BY DEF Matching, Inv, NamesInv
  <2> HIDE DEF M
  <2>4. \A j \in M : i <= j
    BY <2>1, <2>2, <2>3
  <2>5. \A k \in M : (\A j \in M : k <= j) => k = i
    BY <2>1, <2>2, <2>4
  <2> QED BY <2>1, <2>2, <2>4, <2>5 DEF Min, M
<1> QED BY <1>1, Invariance, PTL

-----------------------------------------------------------------------------
(***************************************************************************)
(* Where frames are.  No frame is at two positions of the transactions or  *)
(* of what has run, and none is in two of the three kinds of places.       *)
(***************************************************************************)
HeldOnce ==
  \A i, j \in DOMAIN transactions :
    \A k \in DOMAIN transactions[i].frames, l \in DOMAIN transactions[j].frames :
      transactions[i].frames[k] = transactions[j].frames[l] => i = j /\ k = l
RanOnce == \A k, l \in DOMAIN ran : ran[k] = ran[l] => k = l
HeldOnly ==
  \A i \in DOMAIN transactions : \A k \in DOMAIN transactions[i].frames :
    /\ transactions[i].frames[k] \notin discarded
    /\ \A l \in DOMAIN ran : ran[l] # transactions[i].frames[k]
RanOnly == \A k \in DOMAIN ran : ran[k] \notin discarded
OnceInv == HeldOnce /\ RanOnce /\ HeldOnly /\ RanOnly

LEMMA SetFrames ==
  ASSUME TypeOK, NEW n \in DOMAIN transactions, NEW s \in Seq(Frames),
         transactions' = [transactions EXCEPT ![n].frames = s]
  PROVE  /\ DOMAIN transactions' = DOMAIN transactions
         /\ \A i \in DOMAIN transactions :
              transactions'[i].frames = IF i = n THEN s ELSE transactions[i].frames
<1>1. \A i \in DOMAIN transactions : transactions[i] \in TransactionObject
  BY DEF TypeOK
<1>2. \A o \in TransactionObject : [o EXCEPT !.frames = s].frames = s
  BY DEF TransactionObject
<1>3. \A i \in DOMAIN transactions :
        transactions'[i] = IF i = n THEN [transactions[n] EXCEPT !.frames = s] ELSE transactions[i]
  OBVIOUS
<1> QED BY <1>1, <1>2, <1>3

(* The transactions that stay when one is freed. *)
LEMMA RemoveFrames ==
  ASSUME TypeOK, NEW n \in 1 .. Len(transactions), transactions' = RemoveAt(transactions, n)
  PROVE  LET old(t) == IF t < n THEN t ELSE t + 1
         IN  /\ \A t \in DOMAIN transactions' :
                  /\ old(t) \in DOMAIN transactions /\ old(t) # n
                  /\ transactions'[t] = transactions[old(t)]
             /\ \A t, u \in DOMAIN transactions' : old(t) = old(u) => t = u
<1> DEFINE old(t) == IF t < n THEN t ELSE t + 1
<1>1. transactions \in Seq(TransactionObject)
  BY DEF TypeOK
<1>2. /\ transactions' \in Seq(TransactionObject)
      /\ Len(transactions') = Len(transactions) - 1
      /\ \A k \in 1 .. Len(transactions) - 1 :
           transactions'[k] = IF k < n THEN transactions[k] ELSE transactions[k + 1]
  BY <1>1, RemoveAtIs
<1>3. /\ Len(transactions) \in Nat /\ DOMAIN transactions = 1 .. Len(transactions)
      /\ DOMAIN transactions' = 1 .. Len(transactions) - 1
  BY <1>1, <1>2
<1>4. \A t \in DOMAIN transactions' : old(t) \in DOMAIN transactions /\ old(t) # n
  BY <1>3
<1>5. \A t \in DOMAIN transactions' : transactions'[t] = transactions[old(t)]
  BY <1>2, <1>3
<1>6. \A t, u \in DOMAIN transactions' : old(t) = old(u) => t = u
  BY <1>3
<1> QED BY <1>4, <1>5, <1>6

(* A transaction leaves the list, and what was left in it is dropped. *)
LEMMA OnceRemove ==
  ASSUME TypeOK, HeldOnce, HeldOnly, NEW n \in DOMAIN transactions,
         transactions' = RemoveAt(transactions, n),
         NEW left \in SUBSET FramesOf(n), discarded' = discarded \cup left
  PROVE  /\ HeldOnce'
         /\ \A i \in DOMAIN transactions' : \A k \in DOMAIN transactions'[i].frames :
              /\ transactions'[i].frames[k] \notin discarded'
              /\ transactions'[i].frames[k] \notin FramesOf(n)
              /\ \A l \in DOMAIN ran : ran[l] # transactions'[i].frames[k]
<1> DEFINE old(t) == IF t < n THEN t ELSE t + 1
<1>1. n \in 1 .. Len(transactions)
  BY DEF TypeOK
<1>2. /\ \A t \in DOMAIN transactions' :
           /\ old(t) \in DOMAIN transactions /\ old(t) # n
           /\ transactions'[t] = transactions[old(t)]
      /\ \A t, u \in DOMAIN transactions' : old(t) = old(u) => t = u
  BY <1>1, RemoveFrames
<1> HIDE DEF old
<1>3. HeldOnce'
  BY <1>2 DEF HeldOnce
<1>4. ASSUME NEW i \in DOMAIN transactions', NEW k \in DOMAIN transactions'[i].frames
      PROVE  transactions'[i].frames[k] \notin FramesOf(n)
  BY <1>2 DEF HeldOnce, FramesOf, Range
<1>5. ASSUME NEW i \in DOMAIN transactions', NEW k \in DOMAIN transactions'[i].frames
      PROVE  /\ transactions'[i].frames[k] \notin discarded
             /\ \A l \in DOMAIN ran : ran[l] # transactions'[i].frames[k]
  BY <1>2 DEF HeldOnly
<1> QED BY <1>3, <1>4, <1>5

LEMMA OnceStart ==
  ASSUME TypeOK, OnceInv, NEW tid, transaction_start(tid)
  PROVE  OnceInv'
<1>1. CASE UNCHANGED transactions
  BY <1>1 DEF transaction_start, OnceInv, HeldOnce, RanOnce, HeldOnly, RanOnly
<1>2. ASSUME NEW s,
             transactions' = Append(transactions, [tid |-> tid, stored |-> s, frames |-> <<>>])
      PROVE  OnceInv'
  <2> DEFINE new == [tid |-> tid, stored |-> s, frames |-> <<>>]
             n == Len(transactions)
  <2>1. transactions \in Seq(TransactionObject) /\ UNCHANGED <<ran, discarded>>
    BY DEF TypeOK, transaction_start
  <2>2. /\ n \in Nat /\ DOMAIN transactions = 1 .. n /\ DOMAIN transactions' = 1 .. n + 1
        /\ \A i \in 1 .. n : transactions'[i] = transactions[i]
        /\ transactions'[n + 1] = new
    <3> HIDE DEF new
    <3> QED BY <1>2, <2>1 DEF new
  <2>3. DOMAIN transactions'[n + 1].frames = {}
    BY <2>2
  <2> HIDE DEF new, n
  <2>4. \A i \in DOMAIN transactions' : \A k \in DOMAIN transactions'[i].frames :
          i \in DOMAIN transactions /\ transactions'[i] = transactions[i]
    BY <2>2, <2>3
  <2>5. HeldOnce' /\ HeldOnly'
    BY <2>1, <2>4 DEF OnceInv, HeldOnce, HeldOnly
  <2>6. RanOnce' /\ RanOnly'
    BY <2>1 DEF OnceInv, RanOnce, RanOnly
  <2> QED BY <2>5, <2>6 DEF OnceInv
<1> QED BY <1>1, <1>2 DEF transaction_start

LEMMA OnceAdd ==
  ASSUME TypeOK, OnceInv, NEW tid, NEW f \in Frames \ Added, transaction_add(tid, f)
  PROVE  OnceInv'
<1>1. /\ f \notin discarded /\ \A l \in DOMAIN ran : ran[l] # f
      /\ \A i \in DOMAIN transactions : \A k \in DOMAIN transactions[i].frames :
           transactions[i].frames[k] # f
  <2>1. f \notin discarded /\ f \notin Range(ran) /\ \A i \in DOMAIN transactions : f \notin FramesOf(i)
    BY Zenon DEF Added
  <2> QED BY <2>1 DEF FramesOf, Range
<1>2. UNCHANGED ran
  BY DEF transaction_add
<1>3. CASE ~Known(tid)
  <2>1. transactions' = transactions /\ discarded' = discarded \cup {f}
    BY <1>3 DEF transaction_add
  <2> QED BY <1>1, <1>2, <2>1 DEF OnceInv, HeldOnce, RanOnce, HeldOnly, RanOnly
<1>4. CASE Known(tid)
  <2> DEFINE n == get_transaction(tid)
             s == transactions[n].frames
             t == <<f>> \o s
  <2>1. n \in DOMAIN transactions
    BY <1>4, LookupFinds DEF TypeOK
  <2>2. discarded' = discarded /\ transactions' = [transactions EXCEPT ![n].frames = t]
    BY <1>4 DEF transaction_add
  <2> HIDE DEF n
  <2>3. s \in Seq(Frames)
    BY <2>1, ObjectType
  <2>4. /\ t \in Seq(Frames) /\ Len(s) \in Nat /\ DOMAIN s = 1 .. Len(s)
        /\ DOMAIN t = 1 .. Len(s) + 1 /\ t[1] = f /\ \A k \in 1 .. Len(s) : t[k + 1] = s[k]
    BY <2>3, PushedIs
  <2> HIDE DEF t
  <2>5. /\ DOMAIN transactions' = DOMAIN transactions
        /\ \A i \in DOMAIN transactions :
             transactions'[i].frames = IF i = n THEN t ELSE transactions[i].frames
    BY <2>1, <2>2, <2>4, SetFrames
  <2> HIDE DEF s
  <2>6. \A k \in DOMAIN t : (k = 1 /\ t[k] = f) \/ (k - 1 \in DOMAIN s /\ t[k] = s[k - 1])
    <3> SUFFICES ASSUME NEW k \in DOMAIN t, k # 1 PROVE k - 1 \in DOMAIN s /\ t[k] = s[k - 1]
      BY <2>4
    <3>1. k - 1 \in 1 .. Len(s) /\ (k - 1) + 1 = k
      BY <2>4
    <3> QED BY <2>4, <3>1
  <2>7. \A k \in DOMAIN s : s[k] # f /\ s[k] \notin discarded
    BY <1>1, <2>1 DEF OnceInv, HeldOnly, s
  <2>8. \A k, l \in DOMAIN t : t[k] = t[l] => k = l
    <3>1. \A k, l \in DOMAIN s : s[k] = s[l] => k = l
      BY <2>1 DEF OnceInv, HeldOnce, s
    <3>2. DOMAIN t \subseteq Nat
      BY <2>4
    <3> QED BY <2>6, <2>7, <3>1, <3>2
  <2>9. \A i \in DOMAIN transactions : i # n =>
          \A k \in DOMAIN t, l \in DOMAIN transactions[i].frames : t[k] # transactions[i].frames[l]
    BY <1>1, <2>1, <2>6 DEF OnceInv, HeldOnce, s
  <2>10. HeldOnce'
    BY <2>1, <2>5, <2>8, <2>9 DEF OnceInv, HeldOnce
  <2>11. \A k \in DOMAIN t : t[k] \notin discarded /\ \A l \in DOMAIN ran : ran[l] # t[k]
    BY <1>1, <2>1, <2>6 DEF OnceInv, HeldOnly, s
  <2>12. HeldOnly'
    BY <1>2, <2>2, <2>5, <2>11 DEF OnceInv, HeldOnly
  <2> QED BY <1>2, <2>2, <2>10, <2>12 DEF OnceInv, RanOnce, RanOnly
<1> QED BY <1>3, <1>4

LEMMA OnceAbort ==
  ASSUME TypeOK, OnceInv, NEW tid, transaction_abort(tid)
  PROVE  OnceInv'
<1>1. UNCHANGED ran
  BY DEF transaction_abort
<1>2. CASE ~Known(tid)
  BY <1>1, <1>2 DEF transaction_abort, OnceInv, HeldOnce, RanOnce, HeldOnly, RanOnly
<1>3. CASE Known(tid)
  <2> DEFINE n == get_transaction(tid)
  <2>1. n \in DOMAIN transactions
    BY <1>3, LookupFinds DEF TypeOK
  <2>2. transactions' = RemoveAt(transactions, n) /\ discarded' = discarded \cup FramesOf(n)
    BY <1>3 DEF transaction_abort
  <2> HIDE DEF n
  <2>3. HeldOnce' /\ HeldOnly'
    <3>1. /\ HeldOnce'
          /\ \A i \in DOMAIN transactions' : \A k \in DOMAIN transactions'[i].frames :
               /\ transactions'[i].frames[k] \notin discarded'
               /\ \A l \in DOMAIN ran : ran[l] # transactions'[i].frames[k]
      BY <2>1, <2>2, OnceRemove DEF OnceInv
    <3> QED BY <1>1, <3>1 DEF HeldOnly
  <2>4. \A l \in DOMAIN ran : ran[l] \notin FramesOf(n)
    BY <2>1 DEF OnceInv, HeldOnly, FramesOf, Range
  <2> QED BY <1>1, <2>2, <2>3, <2>4 DEF OnceInv, RanOnce, RanOnly
<1> QED BY <1>2, <1>3

LEMMA OnceEnds == ASSUME TypeOK, OnceInv, CommitEnds PROVE OnceInv'
<1>1. committing \in DOMAIN transactions /\ UNCHANGED <<ran, discarded>>
  BY DEF CommitEnds, FreeCommitted, Ready, TypeOK
<1>2. transactions' = RemoveAt(transactions, committing) /\ discarded' = discarded \cup {}
  BY DEF CommitEnds, FreeCommitted
<1>3. HeldOnce' /\ HeldOnly'
  <2>1. {} \in SUBSET FramesOf(committing)
    OBVIOUS
  <2>2. /\ HeldOnce'
        /\ \A i \in DOMAIN transactions' : \A k \in DOMAIN transactions'[i].frames :
             /\ transactions'[i].frames[k] \notin discarded'
             /\ \A l \in DOMAIN ran : ran[l] # transactions'[i].frames[k]
    BY <1>1, <1>2, <2>1, OnceRemove DEF OnceInv
  <2> QED BY <1>1, <2>2 DEF HeldOnly
<1> QED BY <1>1, <1>3 DEF OnceInv, RanOnce, RanOnly

(* A round of the commit: the first frame runs and leaves the transaction. *)
LEMMA OnceRound == ASSUME TypeOK, OnceInv, CommitRound PROVE OnceInv'
<1> DEFINE s == transactions[committing].frames
           f == s[1]
<1>1. committing \in DOMAIN transactions
  BY DEF CommitRound, TypeOK, Ready
<1>2. s \in Seq(Frames) /\ s # <<>>
  BY <1>1, ObjectType DEF CommitRound
<1>3. /\ Len(s) \in Nat \ {0} /\ DOMAIN s = 1 .. Len(s) /\ Head(s) = f /\ f \in Frames
      /\ Tail(s) \in Seq(Frames) /\ DOMAIN Tail(s) = 1 .. Len(s) - 1
      /\ \A k \in 1 .. Len(s) - 1 : Tail(s)[k] = s[k + 1]
  BY <1>2, TailIs
<1>4. ran' = Append(ran, f) /\ ran \in Seq(Frames)
  BY <1>3 DEF CommitRound, TypeOK
<1>5. \/ /\ transactions' = [transactions EXCEPT ![committing].frames = Tail(s)]
         /\ UNCHANGED discarded
      \/ FreeCommitted(Range(Tail(s)))
  BY DEF CommitRound
<1> HIDE DEF s
<1>6. \A k \in DOMAIN Tail(s) : k + 1 \in DOMAIN s /\ Tail(s)[k] = s[k + 1] /\ k + 1 # 1
  BY <1>3
<1>7. \A k, l \in DOMAIN s : s[k] = s[l] => k = l
  BY <1>1 DEF OnceInv, HeldOnce, s
<1>8. \A k \in DOMAIN Tail(s) : Tail(s)[k] # f
  BY <1>3, <1>6, <1>7
<1>9. f \in FramesOf(committing) /\ Range(Tail(s)) \subseteq FramesOf(committing)
  BY <1>3, <1>6 DEF FramesOf, Range, s
<1>10. f \notin discarded /\ \A l \in DOMAIN ran : ran[l] # f
  BY <1>1, <1>3 DEF OnceInv, HeldOnly, s
<1>11. \A l \in DOMAIN ran' :
         (l \in DOMAIN ran /\ ran'[l] = ran[l]) \/ (l = Len(ran) + 1 /\ ran'[l] = f)
  <2> HIDE DEF f
  <2>1. /\ Len(ran) \in Nat /\ DOMAIN ran = 1 .. Len(ran) /\ DOMAIN ran' = 1 .. Len(ran) + 1
        /\ \A l \in 1 .. Len(ran) : ran'[l] = ran[l]
        /\ ran'[Len(ran) + 1] = f
    BY <1>3, <1>4, AppendIs
  <2>2. \A l \in DOMAIN ran' : l \in DOMAIN ran \/ l = Len(ran) + 1
    BY <2>1
  <2> QED BY <2>1, <2>2
<1>12. RanOnce'
  BY <1>10, <1>11 DEF OnceInv, RanOnce
<1>13. CASE FreeCommitted(Range(Tail(s)))
  <2>1. /\ transactions' = RemoveAt(transactions, committing)
        /\ discarded' = discarded \cup Range(Tail(s))
    BY <1>13 DEF FreeCommitted
  <2>2. /\ HeldOnce'
        /\ \A i \in DOMAIN transactions' : \A k \in DOMAIN transactions'[i].frames :
             /\ transactions'[i].frames[k] \notin discarded'
             /\ transactions'[i].frames[k] \notin FramesOf(committing)
             /\ \A l \in DOMAIN ran : ran[l] # transactions'[i].frames[k]
    BY <1>1, <1>9, <2>1, OnceRemove DEF OnceInv
  <2>3. HeldOnly'
    BY <1>9, <1>11, <2>2 DEF HeldOnly
  <2>4. f \notin Range(Tail(s)) /\ \A l \in DOMAIN ran : ran[l] \notin Range(Tail(s))
    <3>1. \A l \in DOMAIN ran : ran[l] \notin FramesOf(committing)
      BY <1>1 DEF OnceInv, HeldOnly, FramesOf, Range
    <3> QED BY <1>8, <1>9, <3>1 DEF Range
  <2>5. RanOnly'
    BY <1>10, <1>11, <2>1, <2>4 DEF OnceInv, RanOnly
  <2> QED BY <1>12, <2>2, <2>3, <2>5 DEF OnceInv
<1>14. CASE /\ transactions' = [transactions EXCEPT ![committing].frames = Tail(s)]
            /\ UNCHANGED discarded
  <2> DEFINE t == Tail(s)
  <2>1. /\ DOMAIN transactions' = DOMAIN transactions
        /\ \A i \in DOMAIN transactions :
             transactions'[i].frames = IF i = committing THEN t ELSE transactions[i].frames
    BY <1>1, <1>3, <1>14, SetFrames
  <2>2. \A k \in DOMAIN t : k + 1 \in DOMAIN s /\ t[k] = s[k + 1] /\ t[k] # f
    BY <1>6, <1>8
  <2>3. DOMAIN t \subseteq Nat
    BY <1>3
  <2> HIDE DEF t
  <2>4. \A k, l \in DOMAIN t : t[k] = t[l] => k = l
    <3>1. \A k, l \in DOMAIN t : t[k] = t[l] => k + 1 = l + 1
      BY <1>7, <2>2
    <3> QED BY <2>3, <3>1
  <2>5. \A i \in DOMAIN transactions : i # committing =>
          \A k \in DOMAIN s, l \in DOMAIN transactions[i].frames : s[k] # transactions[i].frames[l]
    BY <1>1 DEF OnceInv, HeldOnce, s
  <2>6. HeldOnce'
    BY <2>1, <2>2, <2>4, <2>5 DEF OnceInv, HeldOnce
  <2>7. \A k \in DOMAIN s : s[k] \notin discarded /\ \A l \in DOMAIN ran : ran[l] # s[k]
    BY <1>1 DEF OnceInv, HeldOnly, s
  <2>8. \A i \in DOMAIN transactions' : \A k \in DOMAIN transactions'[i].frames :
          /\ transactions'[i].frames[k] \notin discarded
          /\ transactions'[i].frames[k] # f
          /\ \A l \in DOMAIN ran : ran[l] # transactions'[i].frames[k]
    <3>0. 1 \in DOMAIN s
      BY <1>3
    <3> SUFFICES ASSUME NEW i \in DOMAIN transactions, NEW k \in DOMAIN transactions'[i].frames
                 PROVE  /\ transactions'[i].frames[k] \notin discarded
                        /\ transactions'[i].frames[k] # f
                        /\ \A l \in DOMAIN ran : ran[l] # transactions'[i].frames[k]
      BY <2>1
    <3>1. CASE i = committing
      BY <2>1, <2>2, <2>7, <3>1
    <3>2. CASE i # committing
      BY <2>1, <2>5, <3>0, <3>2 DEF OnceInv, HeldOnly
    <3> QED BY <3>1, <3>2
  <2>9. HeldOnly'
    BY <1>11, <1>14, <2>8 DEF HeldOnly
  <2>10. RanOnly'
    BY <1>10, <1>11, <1>14 DEF OnceInv, RanOnly
  <2> QED BY <1>12, <2>6, <2>9, <2>10 DEF OnceInv
<1> QED BY <1>5, <1>13, <1>14

LEMMA OnceNext == TypeOK /\ OnceInv /\ [Next]_vars => OnceInv'
<1> SUFFICES ASSUME TypeOK, OnceInv, [Next]_vars PROVE OnceInv'
  OBVIOUS
<1>1. ASSUME NEW tid \in Tids, transaction_start(tid) PROVE OnceInv'
  BY <1>1, OnceStart
<1>2. ASSUME NEW tid \in Tids, NEW f \in Frames \ Added, transaction_add(tid, f) PROVE OnceInv'
  BY <1>2, OnceAdd
<1>3. ASSUME NEW tid \in Tids, transaction_abort(tid) PROVE OnceInv'
  BY <1>3, OnceAbort
<1>4. ASSUME NEW tid \in Tids, transaction_commit(tid) PROVE OnceInv'
  BY <1>4 DEF transaction_commit, OnceInv, HeldOnce, RanOnce, HeldOnly, RanOnly
<1>5. CASE CommitEnds
  BY <1>5, OnceEnds
<1>6. CASE CommitRound
  BY <1>6, OnceRound
<1>7. CASE UNCHANGED vars
  BY <1>7 DEF vars, OnceInv, HeldOnce, RanOnce, HeldOnly, RanOnly
<1> QED BY <1>1, <1>2, <1>3, <1>4, <1>5, <1>6, <1>7 DEF Next

(* OnceInv says that the places of a frame are at most one. *)
LEMMA OncePlace ==
  ASSUME OnceInv, NEW f \in Added
  PROVE  \E p \in FramePlaces(f) : FramePlaces(f) = {p}
<1>1. \A p : p \in FramePlaces(f) <=>
        \/ \E i \in DOMAIN transactions : \E k \in DOMAIN transactions[i].frames :
             transactions[i].frames[k] = f /\ p = <<"in", i, k>>
        \/ \E k \in DOMAIN ran : ran[k] = f /\ p = <<"ran", k>>
        \/ f \in discarded /\ p = <<"discarded">>
  <2> DEFINE P(i) == {<<"in", i, k>> : k \in {k \in DOMAIN transactions[i].frames :
                                                transactions[i].frames[k] = f}}
             Q == {<<"ran", k>> : k \in {k \in DOMAIN ran : ran[k] = f}}
             X == {<<"discarded">> : x \in discarded \cap {f}}
  <2>1. \A i, p : p \in P(i) <=> \E k \in DOMAIN transactions[i].frames :
                                   transactions[i].frames[k] = f /\ p = <<"in", i, k>>
    OBVIOUS
  <2>2. \A p : p \in Q <=> \E k \in DOMAIN ran : ran[k] = f /\ p = <<"ran", k>>
    OBVIOUS
  <2>3. \A p : p \in X <=> f \in discarded /\ p = <<"discarded">>
    OBVIOUS
  <2>4. FramePlaces(f) = (UNION {P(i) : i \in DOMAIN transactions}) \cup Q \cup X
    BY DEF FramePlaces
  <2> HIDE DEF P, Q, X
  <2>5. \A p : p \in FramePlaces(f) <=> (\E i \in DOMAIN transactions : p \in P(i)) \/ p \in Q \/ p \in X
    BY <2>4
  <2> QED BY <2>1, <2>2, <2>3, <2>5
<1>2. \E p : p \in FramePlaces(f)
  <2>1. CASE f \in discarded
    BY <1>1, <2>1
  <2>2. CASE f \in Range(ran)
    BY <1>1, <2>2 DEF Range
  <2>3. ASSUME NEW i \in DOMAIN transactions, f \in FramesOf(i) PROVE \E p : p \in FramePlaces(f)
    BY <1>1, <2>3 DEF FramesOf, Range
  <2>4. f \in discarded \/ f \in Range(ran) \/ \E i \in DOMAIN transactions : f \in FramesOf(i)
    BY Zenon DEF Added
  <2> QED BY <2>1, <2>2, <2>3, <2>4
<1>3. \A p, q : p \in FramePlaces(f) /\ q \in FramePlaces(f) => p = q
  BY <1>1 DEF OnceInv, HeldOnce, RanOnce, HeldOnly, RanOnly
<1> QED BY <1>2, <1>3

(* For any frames, names and callbacks: a frame that was added is in one   *)
(* place of one transaction, or its callback has run once, or it was       *)
(* dropped, and never two of these.                                        *)
THEOREM RunsOnce == Spec => []RunsAtMostOnce
<1>1. Init => OnceInv
  BY DEF Init, OnceInv, HeldOnce, RanOnce, HeldOnly, RanOnly
<1>2. OnceInv => RunsAtMostOnce
  BY OncePlace DEF RunsAtMostOnce
<1> QED BY <1>1, <1>2, OnceNext, TypeCorrect, PTL DEF Spec

=============================================================================
