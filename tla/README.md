# NewtMQ in TLA+

NewtMQ is a message broker that speaks STOMP: a C daemon of POSIX threads in
`src/src/lib`. This directory holds TLA+ specifications of it, TLC
configurations that check them on small instances, and TLAPS proofs. Paths of
source files below are relative to `src/src/lib/`.

## Inventory

| Part | State | Operations | Talks to |
|---|---|---|---|
| connections (`connection.c`) | one thread and one socket per client | accept, hand over to the protocol, close | parser |
| frame parser (`stomp.c`, `frame.c`) | per connection: the frame in progress, the unfinished line `prev_data` | `recv_data`, `frame_update`, `conn_finish` | puts complete frames into the bucket |
| bucket (`stomp.c`) | one list, one mutex | `frame_finish` appends, `get_frame_from_bucket` takes | every connection thread, the management worker |
| management worker and handlers (`stomp_management_worker.c`, `stomp_proto_*.c`) | the frame in hand | one handler per STOMP command | queues, persistence, transactions, sending workers, client sockets |
| transactions (`transaction.c`) | list of open transactions with their frames | start, add, abort, commit | called by the management worker only |
| queues (`queue.c`) | hash table of queues, a table lock, a lock per queue | `enqueue`, `dequeue`, both through `get_queue` | management worker puts, sending workers take |
| sending workers (`stomp_sending_worker.c`) | destination groups and their clients | a thread per queue subscriber, per topic, per reply-to | `dequeue`, client sockets, `update_index_sent` |
| persistence (`persistent_worker.c`, `parse_frame` of `frame.c`) | per queue three indexes, a list of frames to write, two files | `persist_frame`, the writer's loop, `unpersist` at start | management worker, sending workers, the disk |
| shutdown (`signal.c`) | list of cleanup functions | register, remove, run on SIGINT | all |
| start, control port, configuration, options, log | – | straight-line or stateless | – |

What makes each part correct, and what is hard to test about it:

- **Queues.** Frames under a name come out once, in order, and nothing that was
  accepted disappears. `get_queue` takes the table lock three times, so two
  threads may create a queue for the same name; a failed `malloc` returns with
  the lock held.
- **Parser.** The frames that come out are those the client sent, wherever TCP
  cuts the stream and whenever it breaks, and the thread ends with the stream.
- **Management.** Every complete frame is carried out, in its client's order,
  and afterwards belongs to exactly one owner or is freed. Sockets are numbers
  that the kernel gives out again. A reply is a `send` that waits for its client,
  and the handler of SEND uses the frame after it has given it away.
- **Transactions.** A name leads to its own transaction; a frame runs at most
  once; commit returns.
- **Sending workers.** A frame has one holder and reaches everybody it is meant
  for, whole and in order; a topic with a subscriber has a worker. Messages are
  written in many `send` calls to a number that may have changed hands, and the
  list of a topic's clients changes while it is walked.
- **Persistence.** After a crash every frame that was stored and not sent is
  restored, and none that was sent. The position in the file is a sum of sizes
  which three threads add up without a lock, and which is not always the number
  of bytes written. A start that begins inside a frame takes any line that looks
  like a command for the beginning of one.

`PROJECT.json` lists the hazards line by line with the properties aimed at them.

## Modules

| Module | Models | Kind |
|---|---|---|
| `MessageQueue` | what `queue.c` promises: a FIFO per hash that may strand the first frame of a thread | abstract specification |
| `QueueBox` | `queue.c`, one action per locked section | detailed specification |
| `QueueBoxProofs` | | TLAPS proofs about `QueueBox` |
| `FrameParser` | `recv_data`, `frame_update`, `conn_finish` of one connection | detailed specification |
| `FrameParserProofs` | | TLAPS proofs about `FrameParser` |
| `Transaction` | `transaction.c` | component, used by `Management` |
| `TransactionProofs` | | TLAPS proofs about `Transaction` |
| `Management` | connections and their sockets, the bucket, the management worker, all handlers; composes `Transaction` by `INSTANCE` | detailed specification |
| `ManagementProofs` | | TLAPS proofs about `Management` |
| `SendingWorker` | `stomp_sending_worker.c`, the sockets of `connection.c`, `stomp_send_message` | detailed specification |
| `SendingWorkerProofs` | | TLAPS proofs about `SendingWorker` |
| `Persistence` | `persistent_worker.c` and `parse_frame`, composed with what the management worker, the sending workers, SIGINT and a crash do to them | detailed specification |
| `PersistenceProofs` | | TLAPS proofs about `Persistence` |
| `SentIndexProofs` | | TLAPS proofs about `Persistence`: the index of what was sent |
| `SequenceLemmas` | | lemmas on naturals, sequences and sums that several of these proofs use |
| `MCQueueBox`, `MCFrameParser`, `MCTransaction`, `MCManagement`, `MCSendingWorker`, `MCPersistence` | values of the constants | instances for TLC |

Operators whose comment begins with *Mutant* are plausible bugs. They are part
of no specification; replacing the definition that follows them by a use of them
must break a property.

### QueueBox

`box[i]` is the list at `queuebox[i]`, as indexes into `queues`, the objects in
order of creation; `heads` says which list heads exist. A thread goes through
`head` (first locked section), `find` (the search), `create`, `link` (third
section) and `use` (the section under the queue's own mutex). The search has no
`break` and objects are linked in front, so the *last* match, hence the oldest
object, is the one found. `leaked` stands for `queuebox_lock` left locked by the
failing `malloc`. The name and the `count` of a queue are left out, since
nothing the daemon runs reads them; `Hash` is any function to the naturals, so
that names with equal hashes share a queue as in the code.

### FrameParser

A stream is a sequence of tokens: commands are several tokens (a chunk may end
inside one), `content-length:` and a numeral one each, all else one per byte.
One iteration of the loop of `recv_data` is one action; `Recv(n)` delivers a
chunk of any length up to a bound; `Disconnect` breaks the connection. The
client's side (`Encode`, `WellFormed`) says which frames the parser is meant
for: content-length present, lines ended by NL, no command name inside a header.
`Raw` streams break these rules, one each. `CommandsAssumption` is what is true
of the names in `finfo_arr`: no line break or NUL in them, none longer than a
line, and one that occurs inside another is the end of it (ACK in NACK,
SUBSCRIBE in UNSUBSCRIBE), since `is_frame_name` looks at a fragment of a line;
the instance for TLC has such a pair among its commands.

`prev_data` has the room `recv_data` gives it (`room`): 2 * `LD_MAX` when it is
allocated, `LD_MAX` more than it holds when an unfinished line is kept again. The
line that completes it is appended without growing it, so that an iteration may
write beyond its end. Then anything may come of it: the model lets the iteration
go on as if the bytes were nobody's, or stop with `spilled`, after which nothing
is known of the process. `RoundTrip` says when this can happen to a client that
sends well-formed frames: only if a body is longer than `LD_MAX`. A name, a
header line and a shorter body fit, in however many pieces they arrive, because what
is kept of them and what completes them are together one line of at most `LD_MAX`
bytes. In `MCScripts` the body of five tokens with `LD_MAX` 3 overflows in the cuts that
make the parser keep a part of it twice before its end comes, and comes through in the
others.

### Transaction

Names are sequences, and what is stored is the name followed by anything,
because `alloc_transaction` copies it without its terminator into memory it has
not cleared. `get_transaction` is the last stored name that begins with the name
asked for. A commit is several steps, one per round of its loop. Running out of
memory in `alloc_transaction` is a null dereference and not modelled;
`transaction_destruct` is called by a unit test only.

### Management

A frame is known by its position in `sent`, and carries its headers as a record
with `Absent` for a missing one. `Accept`, `Push` and `Close` are the connection
threads; `accept` returns the lowest free socket number. The worker takes a frame
(`get_frame_from_bucket`) and then carries it out, one action per handler and way
through it. SEND without a transaction is three actions: `persist_frame` yields
before `enqueue` is called, and after `enqueue` the frame is no longer the
handler's, which nevertheless reads `frame->sock` for the receipt. Of the sending
workers `multicast_worker` is here for that reason: once a topic has a
subscriber, its thread frees what it takes, perhaps before the receipt, and the
number read then is any (`SendReceipt`).

A reply is begun by `ReplyTo` and ended by `SendReturns`. If somebody owns the
number, `send` may wait for room in the socket (`blocked`) until that client
reads or is gone (`Unblock`). A reply is several `send` calls; one that waits
stands for whichever of them does. `persist_frame`, `enqueue` and
`register_*_worker` are the borders of the module: the calls are recorded. Calls
that fail inside them are `QueueBox`'s subject. UNSUBSCRIBE has no effect since
nothing calls `register_subscriber`, ACK and NACK have none by design so far. The
branch of `handle_frame` for an unknown name cannot be reached: the parser lets
through only names of the same table. `Transaction` is instantiated with a
callback that is always `NULL`, which is what SEND leaves in the frame.

### SendingWorker

The queues here are the FIFOs that `QueueBox` is shown to implement. The
management worker registers clients: a client of a queue or of a reply-to
destination gets a thread of its own, named by the client; a topic gets one
thread when its group is made. Registering for a topic is two actions, because
the thread runs before the client is in the list. Each thread's loop is cut at
the points where something else can happen: the loop condition (`CheckLoop`),
`dequeue`, the check of a topic's client (`ClientValid`, `ClientGone`), each
`send` (`stomp_send_message`), and the end of a frame (`SendingDone`). A topic's
loop remembers the next entry before it looks at the current one, as
`list_for_each_entry_safe` does; entries are unlinked by this thread alone.

`wire[c]` is what connection `c` has received: each piece goes to whoever owns
the socket number at that moment, or to nobody. Abstractions: a message is
`Parts` pieces, the first beginning it and the last being its NUL; a socket is
valid if somebody owns its number (a pending error of a live socket would end a
thread or unlink a client earlier, like a close does); the receipts and errors
the management worker writes to the same sockets are in `Management` and not
here, so a message may be cut by those as well. A `send` waits for as long as
its client does not read: no fairness makes `stomp_send_message` happen. A `send`
to a connection that its client has reset may raise SIGPIPE and kill the daemon;
then the behaviour just ends.

### Persistence

One destination, which is all that the components share besides a lock: the
list `h_unpersistent` (`listed`), the three indexes, the two files, the queue.
The threads meet here: the management worker (`handler_stomp_send` to
`enqueue`), the connection thread that adds the last byte to `frame->size` after
the frame has been published (`CountNul`), the persistence worker
(`TestStop` to `ContextDone`), the sending workers, whose
`index_sent += size` is a read and a write, and SIGINT in the main thread.
`Crash` ends the process between any two steps, `int_handle` after
`cleanup_persistent_worker`; both start it again with what the files hold.
`fflush` follows every write, so what a step has written survives. The writer
tests the STOP flag, then waits for `m_qinfo`, and does not test again: a round it
has begun may follow `cleanup_persistent_worker` and meet an object which the
management worker has made since.

Lengths are counted in units: the pieces `parse_frame` tells apart. A frame is
of one of four kinds: with a body; with `content-length:0`, whose empty line is
written but not counted; with a `reply-to` header behind content-length, whose
identifier is written but not counted; and *quoting*, with a header and a body
that begin with the name of a command. `frame_update` is folded over the
units behind `sent_index`, wherever that is. While no frame is begun, any line
that begins with a command begins one, so that reading which starts inside a
quoting frame makes up a frame; it may swallow the next one (`frame 0`: nobody
sent it, and it is restored and sent like the others). The names are of three
kinds: without a slash, with one, and of a topic (which has one, and whose worker
frees what it sends).

Ghosts, for the properties: `counted` and `recorded` say which frames `index_sent`
and `sent_index` stand for, `known` which ones the file has ever stood for;
`early` which sizes were read before they were complete; and what has happened:

- `raced`: two sending workers had frames in hand at the same time;
- `overtaken`: a run ended with an index beyond the data;
- `late`: the writer went over an object made after cleanup;
- `truncated`: the process ended between the truncation of `sent_index` and its
  rewriting;
- `misled`: a start began at a line that is not the name of a frame;
- `repeated`: the frames that came back although `sent_index` once stood for them.

Undefined behaviour: a freed frame in the list is written as it was or as junk;
an object freed by SIGINT swallows what is added to its list, and its index is
or is not the memory of the next object. What is read at start fits into one
read of `BUFFER_LEN`; frames that `conn_finish` cut off are not in the model.

## Runs

| Run | Instance and bounds | Shows |
|---|---|---|
| `queue` | the management worker, a sending worker on each of two names in one list, 2 frames, 1 failing `malloc` | `Conservation`, `AtMostOneStranded`, `CanonicalStable`, refinement of `MessageQueue`, `EventuallyTaken` |
| `queue_stranded` | same, 1 frame, no failures | counterexample to `NoneLost` |
| `parser` | chunks of any length up to the bound of the cfg, three scripts of two or three frames, seven malformed streams, `LD_MAX` 3 | `RoundTrip`, `TruncatedOnlyLast`, `EventuallyClosed` |
| `parser_cancelled` | same | counterexample to `CancelledNotDelivered` |
| `transaction` | three names, one the beginning of another, five stored names, four frames: two succeed, one fails, one has no callback | `NoOlderMatch`, `RunsAtMostOnce`, `CommitReturns` |
| `management` | two connections, one with transactions, any 3 commands out of 17, a topic's thread | `OnePlace`, `PersistedFirst`, `OrderKept`, `AnotherOnlyAfterClose`, `HandledOrSpinning` |
| `commit_hang` | BEGIN, SEND, COMMIT | counterexample to `EveryFrameHandled` |
| `sending` | two connections, a queue, a topic, one reply-to destination, 2 frames, 2 registrations, 2 pieces per message | `OneHolder`, `CountedWasDelivered`, `AnotherOnlyAfterClose`, `InOrder`, `WholeUnlessShared`, `Served`, `ThreadEnds` |
| `topic_dead` | one topic, 1 frame | counterexample to `TopicServed` |
| `persistence` | a name without a slash and a topic, the kinds empty, reply and quoting, two sending workers, 2 frames, 2 restarts | `FileInOrder`, `StoredOrSent`, `RepeatedOnlyByDrift`, `RestoredWhole`, `IndexesAgree` |
| `not_reinstated` | a name with a slash, 1 frame, 1 restart | counterexample to `Reinstated` |
| `freed_listed` | a topic, 1 frame | counterexample to `ListedNotFreed` |

Why the bounds suffice. A lost race in `get_queue` needs one producer and one
consumer on one new name, a second frame shows whether traffic follows the first
into the wrong object, and two names in one list show that they do not disturb
each other; the proofs cover all other sizes. In the daemon only the management
worker enqueues while threads run (`unpersist` is over before they start,
`daemon.c:43`) and the sending workers of a name take turns under `m_client`,
hence one producer and one consumer per name. With `LD_MAX` 3 a body of five
tokens spans several lines and every cut of the stream is tried. Three frames are
what BEGIN, SEND, COMMIT takes, and leave room for a close and a reuse of the
socket number between any two steps.

In `sending`, two registrations are two threads on one queue, two clients of one
topic, or a topic and a queue that share a client's socket, which is where all
races of that module are; two frames show order, and two pieces a cut message.
In `persistence`, two frames are what it takes for an index to hide one behind
the other, two sending workers to lose an addition, and two restarts for damage
of the first to show in the second.

The run uses three of the four kinds of frames: a quoting frame is a frame with
a body and more. Of the names it leaves out the nested one, which differs from a
topic only in that nothing is freed. Senders are symmetric (`Alike`): nothing tells
them apart.

`StoredOrSent` and `RepeatedOnlyByDrift` name their exceptions, which say how far
the promise of persistence goes: hazards of the code that do lose or repeat frames.
Without any one of them TLC finds a violation. Two are beyond the bounds of the run:

- `misled` in `StoredOrSent` takes three frames: one is read from its middle on, and
  what is made of its rest swallows the next;
- `overtaken` in `RepeatedOnlyByDrift` takes three frames and three restarts. The
  start after the overtaking begins to read inside a frame that was never sent and
  skips its rest; the sizes of what is sent afterwards are added to an index that
  is behind by that rest, and the start after that restores a frame that was
  counted. The attempt to prove the property without this exception led there.

With `overtaken`, `raced` and `late` an exception excuses a behaviour from its
occurrence on, not the frames it concerns only, because the index stays wrong for
all that follows. `RepeatedOnlyByDrift` does not excuse a made-up frame, and none is
known to break it: with three frames of the kinds empty and quoting, two restarts
and one sending worker, where behaviours exist in which a misled start and nothing
else of the list comes before a repeated frame, TLC finds that the drift accounts
for each of them.

`CHECK_DEADLOCK FALSE` is set where the system may really stop: all clients are
gone and all frames used up, the stream is over, the queue's lock has leaked.

Fairness. Threads are never stopped, so each thread's next step is weakly fair, as
long as it does not wait for a client: a thread inside `enqueue` or `dequeue`, a
sending worker calling `dequeue` again (its loop does not sleep), the management
worker, the connection thread's parser. `send` is different. It waits while the
client does not read and the buffers are full, and nothing makes a client read or
hang up; that the daemon closes the socket meanwhile does not wake the `send`. So
no `send` to a client is fair:

- in `Management` a reply that waits is the state `blocked`, which `Unblock` ends,
  without fairness. `HandledOrSpinning` therefore excuses a behaviour that stays
  blocked (`<>[]Blocked`): one client that does not read stops the only management
  worker, and with it everybody. It excuses nothing else but the spinning COMMIT;
- in `SendingWorker` fairness covers what a thread does outside `send` (`Unaided`).
  `Served`, `TopicServed` and `ThreadEnds` excuse a topic's thread, or the client's
  own, that stays in one `send` for ever (`<>[]InSend(k)`): a subscriber that does not
  read holds up the others of its topic;
- in `FrameParser` the ERROR for a line that is no command is sent by the connection's
  own thread, and that iteration is not fair. `EventuallyClosed` excuses a thread that
  stays at such a line (`Refused`), which a well-formed stream has none of.

The management worker's second step of a registration is fair; it calls no `send`.
What clients do (send, subscribe, read, hang up) is not fair, and neither
is a failing `malloc`. `Persistence` states no liveness.
That bytes in flight arrive or the connection ends is fairness of `Recv`, and is
TCP's promise. The mutexes are taken in one step with the section they protect,
which weak fairness suffices for here because a section is always enabled
again once its holder has left, unless the lock has leaked, and then
`EventuallyTaken` promises nothing.

## What the counterexamples say

- `queue_stranded`: a subscriber's first `dequeue` and the first SEND to the
  queue both find no queue and create one. The SEND's frame goes into the object
  that was linked second, which no later search returns: accepted, persisted,
  never sent. `AtMostOneStranded` bounds the damage to one frame.
- `parser_cancelled`: the comment says the parse is cancelled at the end of the
  connection; the code publishes the truncated frame.
- `commit_hang`: `transaction_commit` unlinks only frames that have a callback,
  and SEND sets none. The first COMMIT with something to commit stops the only
  management worker, for all clients.
- `topic_dead`: the first SUBSCRIBE to a topic starts the thread and then adds
  the client. A thread that is quick sees no client and ends; the group is there,
  so no later SUBSCRIBE starts another. The same happens, later, when the last
  client has gone. `Served` shows that this, and a `send` that waits for ever for a
  client that does not read, are the only ways.
- `not_reinstated`: `/queue/a` is stored in `queue/a`, and `unpersist` looks for
  queues in the first level only. The frames are stored and never read.
- `freed_listed`: a topic's frame is sent and freed before the persistence worker
  has come to it, and is then written from freed memory.

## Proofs

All theorems hold for every value of the constants that the named `ASSUME`s of
the modules admit; TLC evaluates these on every run. They say what type the
constants have, and further: `QueueBox`, that producers and consumers differ and
that there is a name; `Management` and `SendingWorker`, that there are finitely
many connections (a process has finitely many descriptors; it is what gives
`accept` a free number) and that queues, topics and connections have different
names; `Management`, that `Absent` is no header's value; `Transaction`, that a name
may be stored with nothing behind it; `FrameParser`,
`CommandsAssumption` (above) and that scripts consist of well-formed frames.

`QueueBoxProofs`:

- `Invariance`: `Spec => []Inv`. `AtMostOneStranded` is not inductive. What makes
  it so: a created object belongs to its creator alone until it is linked, and
  afterwards too unless the search leads to it (`CurInv`, `Owns`); a thread that
  has used a hash finds it linked ever after (`UsedInv`), so it never creates a
  second object for it; a list holds objects of its own index only and every
  search has a last match (`BoxInv`).
- `TypeCorrect`, `StrandedAtMostOne`: consequences.
- `CanonicalForever`: `CanonicalStable`. Only `LinkQueue` touches a list, and
  putting an object in front does not change the last match.
- `Refinement`: `Spec => MQ!Spec`, with `Pending` and `Lost` as the mapping.
  `AddEntry` is `Put` if the object is the one a search finds and `Strand`
  otherwise, where `UsedInv` gives Strand's guard.
- `Conserved`: `Conservation`, which counts the places of a frame. The invariant
  (`ConservationInv`) says of each step which one place is given up and which
  one is taken; that a frame not yet accepted is nowhere makes it inductive.

`TransactionProofs`: `Invariance` of `Inv` (types and `NamesInv`: a stored name
begins with the name given, and with no name given later), from which
`TypeCorrect` and `NeverOlder` (`NoOlderMatch`) follow. `RunsOnce`
(`RunsAtMostOnce`) by `OnceInv`: a frame is held once, has run once, is not both,
and what is held or has run was added; `commit`, which is a step per round, moves
the frame at its place in the list.

`ManagementProofs`:

- `TypeCorrect`. `accept` finds a number because there are as many numbers as
  connections (an injection from the numbers into the other connections would
  exist otherwise).
- `Persisted`, `Ordered`: `OrderInv`. The bucket is increasing and all of it
  comes after the frame in hand; a queue is increasing and before it; between
  `persist_frame` and `enqueue` the two lists of the frame's destination differ
  by that frame only, else not at all.
- `Replies`: `SocketInv`. While a frame's sender is open its number is the one in
  the frame, and numbers of open connections differ. The exception, the receipt
  of a SEND to a topic whose frame was freed, is in the property; the proof shows
  that there is no other reply for which the worker reads a freed frame.
- `Placed`: `PlaceInv`, one lemma per action on how `Places` changes for the
  frame it moves and that it does not change for any other. A queue holds the
  frames behind the first `taken`; the worker has a frame in hand, or has given it
  away and still uses it (`Borrowed`).

`SendingWorkerProofs`, on `Inv` (types, sockets, the lists of clients in order of
arrival, and per thread which client it is at, which it read beforehand, and that
both are in the list; the last holds because only the topic's own thread
unlinks):

- `OneHolderAlways`: the three counts of `OneHolder` and what each step does to
  them.
- `InOrderAlways`, `AnotherConnection`: `WireInv`. What is on a wire for a client
  is before what its thread has in hand, which is before the queue.
- `Delivery`: `CountedInv`, `ServeInv`, `AudienceInv`. A thread that has a frame in
  hand has served those of the audience that are behind the current client, and
  the others are ahead of it in the list. Clients that leave the list are not open.
- `WholeMessages`: `MessagesInv`. If one thread only has written to a connection,
  what the connection has got is whole up to the piece the thread sends next; if
  the connection took over a number in the middle of a message, from the first
  beginning on.

`PersistenceProofs`:

- `TypeCorrect`: `Inv`, which ties the phase of the process to the threads' states.
- `Restored`: `RestoredWhole`. In the data file every unit but the last of a frame
  is followed by a unit of the same frame that may follow it, over all starts
  (`FileInv`). So `Parsed`, begun anywhere, skips to a line that is taken for a name.
  If that is one, the parser from there on is at a unit of the frame whose name
  it has, with the part of the body it has passed (`Inside`), until the frame's NUL.
  If it is not (`Misread`), the parser makes up a frame, which is the first it finds;
  behind that it skips to the next name, and all others are whole again.
- `Appended`: `OrderInv`, with the newest frame last in the list or on its way.
- `Indexes`: `IndexesAgree`, by `IndexInv`: the indexes as sums of the sizes of
  what was listed and written, each less its early readings.

`SentIndexProofs`, on top of these, for `StoredOrSent` and `RepeatedOnlyByDrift`.
Both compare an index, which is a sum of sizes, with a position in the file, and
both need the same invariant, `SentInv`. It says that while `Calm` holds (a name
without slash, and none of `raced`, `overtaken`, `late`, `misled`):

- there are places `at[k]` for the frames in the file and, while they wait, for those
  in the list: where the file has their units, or will have them. They follow one
  another without a gap up to `top` (`Layout`). Listing a frame adds a place at `top`,
  writing one moves no place, the end of a run takes away the places behind the
  end of the file;
- an index covers what begins before it and what was counted into it (`Covers`):
  these frames were sent, and the end of each is at most its `Shortfall` beyond the
  index. This is said of the number in the file, of `index_sent`, and of the sum a
  sending worker has read and not yet written, through SIGINT and the creation of
  a new object for the queue (`Covered`);
- `index_sent` lies at or before every frame that is in the queue, in hand or on its
  way there, and those are in the order of their places (`Divides`, `Orderly`). So what
  is sent next begins at the index or behind it, directly behind a frame that is
  covered. Its size is at most its length, and at least its length less its `Loss`
  (`SizesFit`); hence adding it keeps the index before the next frame, which is
  why none is skipped, and keeps the shortfall, which is why none is repeated
  without one;
- what is queued or in hand was sent by somebody (`Genuine`: not frame 0), and
  what `sent_index` ever stood for it stands for now, unless it was truncated
  (`KnownInv`);
- one sending worker at a time has a frame in hand, no frame is freed (only a
  topic's are), and in a run nothing is stored, listed or queued before the queue's
  object is linked (`Still`).

What a start restores is computed from the layout: `ParserTracks` says of the
parser, begun at any unit of the file, at which unit of which frame it is and what
it has found, so that `RestoreIs` can say that exactly the frames whose place is at
the index or behind it come back, in order, with the sizes the parser counts. The
theorems are

- `NothingLost`: `StoredOrSent`. A frame that is not restored begins before the index,
  so it was sent;
- `OnlyByDrift`: `RepeatedOnlyByDrift`. A frame that is restored begins at the index or
  behind it; if the index stood for it too, its end is at most the shortfall beyond
  the index, so the shortfall is as long as the frame. The theorem is
  `[](misled \/ RepeatedOnlyByDrift)`: after a made-up frame the layout is lost, and
  that the property holds then too is only model-checked.

`FrameParserProofs`:

- `TypeCorrect`, for all scripts and all malformed streams; `Truncated`
  (`TruncatedOnlyLast`).
- `RoundTrips`: `RoundTrip`. The stream of a script has a layout: `st[n]` is where
  frame n ends and `lay[n]` where its lines begin (`Sent`, `Fits`). The invariant
  `Parses` says that there is a position (`At`: how much was received, how far the
  parser has read, where the line ends that it is in) such that the frames before
  it are in the bucket (`Delivered`) and `frame`, `prev` and `curr` are what they
  must be there, in the name, at a header, at the empty line, in the body
  (`BetweenFrames`, `InFrame`). One lemma per action moves the position. The chunk
  boundary is the hard part: a fragment of a line is kept in `prev`, or taken for
  a whole line if it begins with a command, and `WellFormed` and
  `CommandsAssumption` make the latter right exactly when the fragment is
  the whole name. `conn_finish` in the middle of a body gives the beginning of the
  frame. That no name, header or short body overflows `prev_data` follows from the
  same position: what is kept lies in one line, of at most `LD_MAX` tokens, and
  `room` is at least that and one more, for the NUL.

Induction. The library's induction theorems take an operator as a parameter and
cannot be used. What replaces them: a non-empty set of naturals has a least
element (`Least` in `SequenceLemmas`, from the well-foundedness theorem, which
takes a set); a claim about all n then follows from the least n that violates it.
So are proved what the recursive functions of `Persistence` (`Parsed`, `Total`)
compute, where the parser is after each unit, and that offsets of a concatenation exist and do not decrease (`Joins`).

Every invariant and every action property of the runs is the subject of a theorem.
Only model-checked:

- `RepeatedOnlyByDrift` after a start that took another line for a name;
- the liveness properties `EventuallyTaken`, `EventuallyClosed`, `CommitReturns`,
  `HandledOrSpinning`, `Served`, `ThreadEnds`: fairness and `ENABLED` are outside the
  prover's reach;
- the runs that expect a violation, which show a counterexample each.

## Not modelled, and plan

1. The list of signal handlers (`set_signal_handler`, `del_signal_handler`):
   connection threads link and unlink entries without a lock while `int_handle`
   walks the list. The outcome of that race is whatever broken links lead to, and
   nothing in the code promises anything about it; the one handler that touches what outlives the process,
   `cleanup_persistent_worker`, is in `Persistence`.
2. `parse_frame` over several reads: the length it is given is that of the whole
   read, not of what is left of it, and `prev_buffer` is cleared behind its end.
   With one read the former is harmless, because a parse ends with its frame.
3. Failing `fopen`, `fwrite` and `malloc` in `persistent_worker.c`: an assertion
   or a null dereference, that is, a crash, which is modelled.

Left out for good: configuration, options and log (read-once or output only), the
control port (its one command does nothing), random identifiers, and the formats
of replies.
