---------------------------- MODULE Transaction -----------------------------
(***************************************************************************)
(* src/lib/transaction.c: the list of open transactions.                   *)
(*                                                                         *)
(* A transaction is looked up by comparing as many bytes as the name asked *)
(* for has, so that any stored name that begins with it matches, and the   *)
(* last match in the list is taken.  alloc_transaction() copies the name   *)
(* without its terminating NUL into memory it has not initialised: what is *)
(* stored is the name followed by anything.  Names are sequences.          *)
(*                                                                         *)
(* Only the management worker calls these functions, one call at a time,   *)
(* so the two mutexes never make a thread wait.  transaction_destruct() is *)
(* called by a unit test only.                                             *)
(***************************************************************************)
EXTENDS Naturals, Sequences, SequencesExt, FiniteSetsExt

CONSTANTS
  Frames,       \* the frames that may be added
  Tids,         \* the names of transactions clients use, sequences of characters
  StoredTids,   \* the contents the tid field may have
  Callback(_)   \* Callback(f): "NULL", or what frame->transaction_callback returns

ASSUME TidsAssumption ==
  /\ \A t \in Tids \cup StoredTids : t \in Seq(Nat)
  /\ Tids \subseteq StoredTids

VARIABLES
  transactions, \* manager.list: records of the name given, the name stored, the frames
  committing,   \* the position of the transaction commit is working on, or 0
  ran,          \* history: the frames whose callback has run, in order
  discarded     \* history: the frames dropped without running

vars == <<transactions, committing, ran, discarded>>

Init ==
  /\ transactions = <<>>
  /\ committing = 0
  /\ ran = <<>>
  /\ discarded = {}

-----------------------------------------------------------------------------
(* get_transaction(): the last transaction that matches. *)
Matching(tid) == {i \in DOMAIN transactions : IsPrefix(tid, transactions[i].stored)}
Known(tid) == Matching(tid) # {}
get_transaction(tid) == Max(Matching(tid))

FramesOf(i) == Range(transactions[i].frames)

(* The management worker is not inside a commit. *)
Ready == committing = 0

(* Mutant: a BEGIN whose name is already known opens one more transaction. *)
StartUnchecked(tid) ==
  /\ Ready
  /\ \E s \in StoredTids :
       /\ IsPrefix(tid, s)
       /\ transactions' = Append(transactions, [tid |-> tid, stored |-> s, frames |-> <<>>])
  /\ Len(transactions) < 3
  /\ UNCHANGED <<committing, ran, discarded>>

(* transaction_start(), which does nothing when the name is known. *)
transaction_start(tid) ==
  /\ Ready
  /\ \/ /\ ~Known(tid)
        /\ \E s \in StoredTids :
             /\ IsPrefix(tid, s)
             /\ transactions' = Append(transactions, [tid |-> tid, stored |-> s, frames |-> <<>>])
     \/ Known(tid) /\ UNCHANGED transactions
  /\ UNCHANGED <<committing, ran, discarded>>

(* transaction_add(): list_add() puts the newest frame first. *)
transaction_add(tid, f) ==
  /\ Ready
  /\ \/ /\ Known(tid)
        /\ transactions' = [transactions EXCEPT ![get_transaction(tid)].frames = <<f>> \o @]
        /\ UNCHANGED discarded
     \/ /\ ~Known(tid)
        /\ discarded' = discarded \cup {f}
        /\ UNCHANGED transactions
  /\ UNCHANGED <<committing, ran>>

(* transaction_abort(): the frames are dropped with the transaction. *)
transaction_abort(tid) ==
  /\ Ready
  /\ \/ /\ Known(tid)
        /\ transactions' = RemoveAt(transactions, get_transaction(tid))
        /\ discarded' = discarded \cup FramesOf(get_transaction(tid))
     \/ ~Known(tid) /\ UNCHANGED <<transactions, discarded>>
  /\ UNCHANGED <<committing, ran>>

(* Mutant: the result of get_transaction() is used without its NULL test. *)
CommitUnchecked(tid) ==
  /\ Ready
  /\ committing' = IF Known(tid) THEN get_transaction(tid) ELSE Len(transactions) + 1
  /\ UNCHANGED <<transactions, ran, discarded>>

(* transaction_commit() up to its loop. *)
transaction_commit(tid) ==
  /\ Ready
  /\ committing' = IF Known(tid) THEN get_transaction(tid) ELSE 0
  /\ UNCHANGED <<transactions, ran, discarded>>

(* The loop has nothing (more) to do, or a callback has failed: the        *)
(* transaction is freed and the frames left in it are dropped.             *)
FreeCommitted(left) ==
  /\ transactions' = RemoveAt(transactions, committing)
  /\ discarded' = discarded \cup left
  /\ committing' = 0

(* Mutant: a transaction that is empty from the start is not freed. *)
CommitEndsAfterRun ==
  /\ ~Ready
  /\ transactions[committing].frames = <<>>
  /\ ran # <<>>
  /\ FreeCommitted({})
  /\ UNCHANGED ran

CommitEnds ==
  /\ ~Ready
  /\ transactions[committing].frames = <<>>
  /\ FreeCommitted({})
  /\ UNCHANGED ran

(* Mutant: the frame stays in the list when its callback has failed. *)
CommitRoundKeepsFailed ==
  LET frames == transactions[committing].frames
  IN  /\ ~Ready
      /\ frames # <<>>
      /\ Callback(Head(frames)) # "NULL"
      /\ ran' = Append(ran, Head(frames))
      /\ \/ /\ Callback(Head(frames)) = "RET_SUCCESS"
            /\ transactions' = [transactions EXCEPT ![committing].frames = Tail(@)]
            /\ UNCHANGED <<committing, discarded>>
         \/ /\ Callback(Head(frames)) = "RET_ERROR"
            /\ FreeCommitted(Range(frames))

(* One round of the loop on a frame that has a callback. *)
CommitRound ==
  LET frames == transactions[committing].frames
  IN  /\ ~Ready
      /\ frames # <<>>
      /\ Callback(Head(frames)) # "NULL"
      /\ ran' = Append(ran, Head(frames))
      /\ \/ /\ Callback(Head(frames)) = "RET_SUCCESS"
            /\ transactions' = [transactions EXCEPT ![committing].frames = Tail(@)]
            /\ UNCHANGED <<committing, discarded>>
         \/ /\ Callback(Head(frames)) = "RET_ERROR"
            /\ FreeCommitted(Range(Tail(frames)))

(* A round on a frame without a callback changes nothing: the loop looks   *)
(* at the same frame again, for ever.                                      *)
Spinning ==
  /\ ~Ready
  /\ transactions[committing].frames # <<>>
  /\ Callback(Head(transactions[committing].frames)) = "NULL"

-----------------------------------------------------------------------------
Added == (UNION {FramesOf(i) : i \in DOMAIN transactions}) \cup Range(ran) \cup discarded

Next ==
  \/ \E tid \in Tids :
       \/ transaction_start(tid)
       \/ \E f \in Frames \ Added : transaction_add(tid, f)
       \/ transaction_abort(tid)
       \/ transaction_commit(tid)
  \/ CommitEnds
  \/ CommitRound

Spec == Init /\ [][Next]_vars

(* A commit goes on once it has begun; nobody must call these functions. *)
FairSpec == Spec /\ WF_vars(CommitEnds) /\ WF_vars(CommitRound)

-----------------------------------------------------------------------------
TransactionObject == [tid : Tids, stored : StoredTids, frames : Seq(Frames)]

(* The shape of the list of transactions. *)
TypeOK ==
  /\ transactions \in Seq(TransactionObject)
  /\ committing \in 0 .. Len(transactions)
  /\ ran \in Seq(Frames)
  /\ discarded \in SUBSET Frames

(* A name never leads to a transaction that is older than the one begun    *)
(* under it: transaction_start() refuses a name that matches anything      *)
(* stored, whatever the uninitialised bytes are, and no later abort or     *)
(* commit brings an older match back.  (It may lead to a younger one:      *)
(* get_transaction() takes the last match.)                                *)
NoOlderMatch ==
  \A i \in DOMAIN transactions : Min(Matching(transactions[i].tid)) = i

(* The inductive part of NoOlderMatch: every stored name begins with the   *)
(* name given, and with no name that was given later.                      *)
NamesInv ==
  /\ \A i \in DOMAIN transactions : IsPrefix(transactions[i].tid, transactions[i].stored)
  /\ \A i, j \in DOMAIN transactions :
       i < j => ~IsPrefix(transactions[j].tid, transactions[i].stored)

Inv == TypeOK /\ NamesInv

(* A frame is in one transaction, or has run once, or was dropped: no      *)
(* commit, failed callback, abort or mixed-up name runs a frame twice or   *)
(* runs a dropped one.                                                     *)
FramePlaces(f) ==
  (UNION {{<<"in", i, k>> : k \in {k \in DOMAIN transactions[i].frames :
                                     transactions[i].frames[k] = f}} : i \in DOMAIN transactions})
  \cup {<<"ran", k>> : k \in {k \in DOMAIN ran : ran[k] = f}}
  \cup {<<"discarded">> : x \in discarded \cap {f}}

RunsAtMostOnce == \A f \in Added : \E p \in FramePlaces(f) : FramePlaces(f) = {p}

(* A commit ends: it empties the transaction, or stops at a callback that  *)
(* fails, unless a frame without a callback holds it for ever.             *)
CommitReturns == ~Ready ~> (Ready \/ Spinning)

=============================================================================
