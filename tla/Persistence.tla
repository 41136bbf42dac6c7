---------------------------- MODULE Persistence ----------------------------
(***************************************************************************)
(* The way of a frame through persistence (src/lib/persistent_worker.c):   *)
(* the management worker lists it and puts it into its queue, the          *)
(* persistence worker appends it to the data file, a sending worker sends  *)
(* it and adds its size to index_sent, the persistence worker copies       *)
(* index_sent to the file sent_index.  The process may be killed or        *)
(* interrupted at any time; at the next start unpersist() reads the data   *)
(* file from the index on and enqueues the frames it finds.                *)
(*                                                                         *)
(* One destination is modelled; destinations share nothing but the lock    *)
(* m_qinfo.  Lengths are counted in units: the line of the command, a      *)
(* header line, the connection identifier added to a reply-to header, a    *)
(* newline behind that or as the empty line, the body and the NUL behind   *)
(* the frame are one unit each; content-length comes before reply-to.      *)
(* The part of the data file that is read at start fits into one read of   *)
(* BUFFER_LEN bytes.  A frame may have lines that begin with the name of a *)
(* command, as a header ("hcmd") or as the body ("bcmd").                  *)
(***************************************************************************)
EXTENDS Integers, Sequences, SequencesExt, FiniteSets, FiniteSetsExt

CONSTANTS
  DestNames,    \* the destination is one of these: "flat", "nested", "topic"
  Kinds,        \* the frames sent: "body", "empty" (content-length:0), "reply" (reply-to),
                \* "quoting" (a header and a body that begin with the name of a command)
  Senders,      \* the sending workers of the destination
  MaxFrames,    \* bound: the frames sent during the run
  MaxStarts     \* bound: the starts after the first

Ids == 1 .. MaxFrames

(* The frames there may be an object for.  0 is a frame that nobody sent:  *)
(* unpersist() has made it of lines that are not one frame.                *)
Objects == 0 .. MaxFrames

ASSUME PersistenceAssumption ==
  /\ DestNames \subseteq {"flat", "nested", "topic"}
  /\ Kinds \subseteq {"body", "empty", "reply", "quoting"}
  /\ MaxFrames \in Nat /\ MaxStarts \in Nat

VARIABLES
  destination,  \* "flat": a name without "/"; topics begin with "/topic/"
  phase,        \* "start" (daemon_initialize), "run", "stopping" (int_handle)
  starts,       \* the number of starts after the first
  frames,       \* frames[i]: the kind of the i-th frame
  size,         \* size[i]: frame->size of the object made for frame i (or made up, for 0)
  counting,     \* the frames whose connection thread has yet to add the last 1
  manager,      \* where the management worker is, and before it the main thread
  linked,       \* whether the queue_info_t is in pm.h_qinfo
  listed,       \* its h_unpersistent
  index_head, index_sent, index_persistent,
  writer,       \* where the persistence worker is
  queue,        \* the frames in the queue
  worker,       \* worker[s]: where a sending worker is, and its local variables
  freed,        \* the frames given to free_frame()
  data,         \* the file data, as a sequence of units
  stored,       \* whether the files exist
  sent_index,   \* the number in the file sent_index, 0 if it is empty or missing
  sent,         \* the frames that were sent to a client, in any run of the daemon
  counted,      \* the frames index_sent stands for ...
  recorded,     \* ... and those sent_index stands for
  known,        \* the frames that sent_index has ever stood for
  early,        \* pairs <<w, i>>: w read the size of i before it was complete
  raced,        \* two sending workers have had frames in hand at a time
  overtaken,    \* a run ended with sent_index beyond the end of data
  late,         \* the writer went over an object that was made after cleanup
  truncated,    \* the process ended between the truncation of sent_index and its rewriting
  misled,       \* a start began at a line that is taken for the name of a frame
  repeated      \* the frames restored although sent_index once stood for them

indexes == <<index_head, index_sent, index_persistent>>
files == <<data, stored, sent_index, recorded, known>>
mishaps == <<raced, overtaken, late, truncated, misled>>
ghosts == <<early, mishaps, repeated>>
vars == <<destination, phase, starts, frames, size, counting, manager, linked, listed, indexes,
          writer, queue, worker, freed, files, sent, counted, ghosts>>

Resting == [pc |-> "idle", frame |-> 0, value |-> 0]

Init ==
  /\ destination \in DestNames
  /\ phase = "start" /\ starts = 0
  /\ frames = <<>> /\ size = [i \in Objects |-> 0] /\ counting = {}
  /\ manager = "idle"
  /\ linked = FALSE /\ listed = <<>>
  /\ index_head = 0 /\ index_sent = 0 /\ index_persistent = 0
  /\ writer = "idle"
  /\ queue = <<>>
  /\ worker = [s \in Senders |-> Resting]
  /\ freed = {}
  /\ data = <<>> /\ stored = FALSE /\ sent_index = 0
  /\ sent = {} /\ counted = {} /\ recorded = {} /\ known = {}
  /\ early = {} /\ repeated = {}
  /\ raced = FALSE /\ overtaken = FALSE /\ late = FALSE /\ truncated = FALSE /\ misled = FALSE

-----------------------------------------------------------------------------
(* What persist_queue_context() writes of a frame. *)
Units(kind) ==
  CASE kind = "body"  -> <<"name", "header", "nl", "body", "nul">>
    [] kind = "empty" -> <<"name", "header", "nl", "nul">>
    [] kind = "reply" -> <<"name", "header", "id", "nl", "nl", "body", "nul">>
    [] kind = "quoting" -> <<"name", "hcmd", "header", "nl", "bcmd", "nul">>
Written(i) == [n \in DOMAIN Units(frames[i]) |-> [frame |-> i, unit |-> Units(frames[i])[n]]]
Junk == [frame |-> 0, unit |-> "junk"]

contentlen(kind) == IF kind = "empty" THEN 0 ELSE 1

(* What frame_update() of stomp.c adds up while a frame is read from a     *)
(* client: a frame without body is counted without its empty line, and the *)
(* identifier behind a reply-to name is not there yet.                     *)
FullSize(kind) ==
  CASE kind = "body" -> 5 [] kind = "empty" -> 3 [] kind = "reply" -> 6 [] kind = "quoting" -> 6

(* parse_frame() of frame.c over the file.  Outside of a frame, everything *)
(* up to a line that begins with the name of a command is skipped, and     *)
(* that line need not be the first of a frame.  p.frame is the frame that  *)
(* all lines of the object come from, 0 if there is none.  The identifier  *)
(* in a reply-to header is written with its own NUL, which ends the line;  *)
(* the newline behind it is then taken for the empty line.                 *)
Born(out) == [status |-> "born", frame |-> 0, size |-> 0, has |-> 0, len |-> -1, out |-> out]
frame_finish(p) == Born(Append(p.out, [frame |-> p.frame, size |-> p.size + 1, has |-> p.has]))
Common(p, u) == IF u.frame = p.frame THEN p.frame ELSE 0

frame_setname(p, u) ==
  IF u.unit \in {"name", "hcmd", "bcmd"}
  THEN [p EXCEPT !.status = "header", !.frame = IF u.unit = "name" THEN u.frame ELSE 0,
                 !.size = 1, !.has = 0, !.len = -1]
  ELSE p

(* An empty line is passed over before the content-length is known. *)
ParseHeader(p, u) ==
  IF u.unit # "nl"
  THEN [p EXCEPT !.size = @ + 1, !.frame = Common(p, u),
                 !.len = IF u.unit = "header" THEN contentlen(frames[u.frame]) ELSE @]
  ELSE IF p.len < 0 THEN p
  ELSE IF p.len = 0 THEN frame_finish(p)
  ELSE [p EXCEPT !.status = "body", !.size = @ + 1]

(* Mutant: "<" in place of "<=". *)
ParseBodyLonger(p, u) ==
  IF u.unit # "nul" THEN [p EXCEPT !.size = @ + 1, !.has = @ + 1, !.frame = Common(p, u)]
  ELSE IF p.has > p.len THEN frame_finish(p)
  ELSE p

ParseBody(p, u) ==
  IF u.unit # "nul" THEN [p EXCEPT !.size = @ + 1, !.has = @ + 1, !.frame = Common(p, u)]
  ELSE IF p.has >= p.len THEN frame_finish(p)
  ELSE p
frame_update(p, u) ==
  CASE p.status = "born"   -> frame_setname(p, u)
    [] p.status = "header" -> ParseHeader(p, u)
    [] p.status = "body"   -> ParseBody(p, u)

(* What the parser has got after each unit. *)
Parsed(input) ==
  LET after[n \in 0 .. Len(input)] ==
        IF n = 0 THEN Born(<<>>) ELSE frame_update(after[n - 1], input[n])
  IN  after
parse_frame(input) == Parsed(input)[Len(input)].out

(* fseek() to the index, then frame by frame to the end of the file *)
unpersist_queue_context(from) == parse_frame(SubSeq(data, from + 1, Len(data)))

(* The first line from there on that is taken for a name is not one. *)
Misread(from) ==
  \E n \in from + 1 .. Len(data) :
    /\ data[n].unit \in {"hcmd", "bcmd"}
    /\ \A m \in from + 1 .. n : data[m].unit # "name"

-----------------------------------------------------------------------------
Current == Len(frames)

(* get_qinfo() finds the object, if it is linked; free_qinfo() empties its *)
(* list with it.                                                           *)
get_qinfo == linked
free_qinfo == linked' = FALSE /\ listed' = <<>>

(* The number in the file; 0 if there is none. *)
unpersist_queue_info == sent_index

(* frame->size is read by who, perhaps before it is complete. *)
ReadSize(who, i) == early' = IF i \in counting THEN early \cup {<<who, i>>} ELSE early
EarlyBy(who) == {x \in early : x[1] = who}

(* create_qinfo(): alloc_qinfo() reads the index, and truncates its file   *)
(* by opening it.  The other two get the length of sent_index, here one    *)
(* unit; it only matters that they are equal.                              *)
alloc_qinfo ==
  /\ manager = "create"
  /\ index_sent' = unpersist_queue_info /\ counted' = recorded
  /\ index_head' = IF stored THEN 1 ELSE 0
  /\ index_persistent' = IF stored THEN 1 ELSE 0
  /\ sent_index' = 0 /\ recorded' = {}
  /\ stored' = TRUE
  /\ early' = EarlyBy("sent")
  /\ manager' = "link"
  /\ UNCHANGED <<destination, phase, starts, frames, size, counting, linked, listed, writer, queue,
                 worker, freed, data, known, sent, mishaps, repeated>>

(* ... then writes the index again, and the object is linked. *)
LinkQinfo ==
  /\ manager = "link"
  /\ sent_index' = index_sent /\ recorded' = counted /\ known' = known \cup recorded'
  /\ linked' = TRUE /\ listed' = <<>>
  /\ manager' = IF phase = "start" THEN "restore" ELSE "add"
  /\ UNCHANGED <<destination, phase, starts, frames, size, counting, indexes, writer, queue, worker,
                 freed, data, stored, sent, counted, ghosts>>

(* unpersist() takes the name of a directory for that of a queue.  That of *)
(* "/queue/a" is "queue", for which there is nothing to restore.           *)
UnpersistScan ==
  /\ phase = "start" /\ manager = "idle"
  /\ IF destination = "flat" /\ stored THEN manager' = "create" /\ UNCHANGED phase
                                      ELSE phase' = "run" /\ UNCHANGED manager
  /\ UNCHANGED <<destination, starts, frames, size, counting, linked, listed, indexes, writer, queue,
                 worker, freed, files, sent, counted, ghosts>>

SizeIn(found, i) == (CHOOSE x \in Range(found) : x.frame = i).size

(* Mutant: the fseek() is missing. *)
UnpersistAll ==
  LET found == unpersist_queue_context(0)
      ids == [n \in DOMAIN found |-> found[n].frame]
  IN  /\ manager = "restore"
      /\ index_sent' = unpersist_queue_info /\ counted' = recorded
      /\ index_head' = Len(data) /\ index_persistent' = Len(data)
      /\ queue' = queue \o ids
      /\ size' = [i \in Objects |-> IF i \in Range(ids) THEN SizeIn(found, i) ELSE size[i]]
      /\ repeated' = repeated \cup (Range(ids) \cap known)
      /\ misled' = (misled \/ Misread(unpersist_queue_info))
      /\ manager' = "idle" /\ phase' = "run"
      /\ UNCHANGED <<destination, starts, frames, counting, linked, listed, writer, worker, freed,
                     files, sent, early, raced, overtaken, late, truncated>>

unpersist ==
  LET found == unpersist_queue_context(unpersist_queue_info)
      ids == [n \in DOMAIN found |-> found[n].frame]
  IN  /\ manager = "restore"
      /\ index_sent' = unpersist_queue_info /\ counted' = recorded
      /\ index_head' = Len(data) /\ index_persistent' = Len(data)
      /\ queue' = queue \o ids
      /\ size' = [i \in Objects |-> IF i \in Range(ids) THEN SizeIn(found, i) ELSE size[i]]
      /\ repeated' = repeated \cup (Range(ids) \cap known)
      /\ misled' = (misled \/ Misread(unpersist_queue_info))
      /\ manager' = "idle" /\ phase' = "run"
      /\ UNCHANGED <<destination, starts, frames, counting, linked, listed, writer, worker, freed,
                     files, sent, early, raced, overtaken, late, truncated>>

-----------------------------------------------------------------------------
(* A SEND is complete and the management worker carries it out.            *)
handler_stomp_send(kind) ==
  /\ phase # "start" /\ manager = "idle" /\ Len(frames) < MaxFrames
  /\ frames' = Append(frames, kind)
  /\ size' = [size EXCEPT ![Len(frames')] = FullSize(kind) - 1]
  /\ counting' = counting \cup {Len(frames')}
  /\ manager' = IF get_qinfo THEN "add" ELSE "create"
  /\ UNCHANGED <<destination, phase, starts, linked, listed, indexes, writer, queue, worker, freed,
                 files, sent, counted, ghosts>>

(* frame_update() adds the NUL to the size after it has put the frame into *)
(* the bucket.                                                             *)
CountNul(i) ==
  /\ i \in counting
  /\ size' = [size EXCEPT ![i] = @ + 1]
  /\ counting' = counting \ {i}
  /\ UNCHANGED <<destination, phase, starts, frames, manager, linked, listed, indexes, writer, queue,
                 worker, freed, files, sent, counted, ghosts>>

(* Mutant: list_add() in place of list_add_tail(). *)
AddInFront ==
  /\ manager = "add" /\ writer # "context"
  /\ listed' = IF linked THEN <<Current>> \o listed ELSE listed
  /\ manager' = "head"
  /\ UNCHANGED <<destination, phase, starts, frames, size, counting, linked, indexes, writer, queue,
                 worker, freed, files, sent, counted, ghosts>>

(* Under m_unpersistent, which the persistence worker holds while it       *)
(* writes.  An object that was freed meanwhile takes the frame with it.    *)
add_frame_into_qinfo ==
  /\ manager = "add" /\ writer # "context"
  /\ listed' = IF linked THEN Append(listed, Current) ELSE listed
  /\ manager' = "head"
  /\ UNCHANGED <<destination, phase, starts, frames, size, counting, linked, indexes, writer, queue,
                 worker, freed, files, sent, counted, ghosts>>

persist_frame ==
  /\ manager = "head"
  /\ index_head' = index_head + size[Current]
  /\ ReadSize("head", Current)
  /\ manager' = "enqueue"
  /\ UNCHANGED <<destination, phase, starts, frames, size, counting, linked, listed, index_sent,
                 index_persistent, writer, queue, worker, freed, files, sent, counted, mishaps,
                 repeated>>

enqueue ==
  /\ manager = "enqueue"
  /\ queue' = Append(queue, Current)
  /\ manager' = "idle"
  /\ UNCHANGED <<destination, phase, starts, frames, size, counting, linked, listed, indexes, writer,
                 worker, freed, files, sent, counted, ghosts>>

-----------------------------------------------------------------------------
(* The condition of the loop of persistent_worker(); it then waits for     *)
(* m_qinfo, and does not ask again when it has got it.                     *)
TestStop ==
  /\ writer = "idle" /\ phase = "run"
  /\ writer' = "lock"
  /\ UNCHANGED <<destination, phase, starts, frames, size, counting, manager, linked, listed, indexes,
                 queue, worker, freed, files, sent, counted, ghosts>>

ListEmpty ==
  /\ writer = "lock" /\ ~linked
  /\ writer' = "idle"
  /\ UNCHANGED <<destination, phase, starts, frames, size, counting, manager, linked, listed, indexes,
                 queue, worker, freed, files, sent, counted, ghosts>>

(* Mutant: the index of the data file is written in place of that of the sender. *)
PersistWrongIndex ==
  /\ writer = "lock" /\ linked
  /\ sent_index' = index_persistent /\ recorded' = counted /\ known' = known \cup recorded'
  /\ writer' = "check" /\ late' = (late \/ phase = "stopping")
  /\ UNCHANGED <<destination, phase, starts, frames, size, counting, manager, linked, listed, indexes,
                 queue, worker, freed, data, stored, sent, counted, early, raced, overtaken,
                 truncated, misled, repeated>>

(* Under m_qinfo: the index first ...                                      *)
persist_queue_info ==
  /\ writer = "lock" /\ linked
  /\ sent_index' = index_sent /\ recorded' = counted /\ known' = known \cup recorded'
  /\ writer' = "check" /\ late' = (late \/ phase = "stopping")
  /\ UNCHANGED <<destination, phase, starts, frames, size, counting, manager, linked, listed, indexes,
                 queue, worker, freed, data, stored, sent, counted, early, raced, overtaken,
                 truncated, misled, repeated>>

persistent_worker ==
  /\ writer = "check"
  /\ writer' = IF index_head > index_persistent THEN "context" ELSE "idle"
  /\ UNCHANGED <<destination, phase, starts, frames, size, counting, manager, linked, listed, indexes,
                 queue, worker, freed, files, sent, counted, ghosts>>

(* Mutant: the bytes written are added, not frame->size. *)
PersistCountsWritten ==
  /\ writer = "context" /\ listed # <<>>
  /\ LET i == Head(listed)
     IN  \/ /\ data' = data \o Written(i)
            /\ index_persistent' = index_persistent + Len(Written(i))
            /\ ReadSize("written", i)
         \/ /\ i \in freed
            /\ data' = Append(data, Junk)
            /\ index_persistent' = index_persistent + 1
            /\ UNCHANGED early
  /\ listed' = Tail(listed)
  /\ UNCHANGED <<destination, phase, starts, frames, size, counting, manager, linked, index_head,
                 index_sent, writer, queue, worker, freed, stored, sent_index, recorded, known, sent,
                 counted, mishaps, repeated>>

(* ... then the frames of the list, one after the other.  What is read of  *)
(* a frame that was freed is what it was, or something else.               *)
persist_queue_context ==
  /\ writer = "context" /\ listed # <<>>
  /\ LET i == Head(listed)
     IN  \/ /\ data' = data \o Written(i)
            /\ index_persistent' = index_persistent + size[i]
            /\ ReadSize("written", i)
         \/ /\ i \in freed
            /\ data' = Append(data, Junk)
            /\ index_persistent' = index_persistent + 1
            /\ UNCHANGED early
  /\ listed' = Tail(listed)
  /\ UNCHANGED <<destination, phase, starts, frames, size, counting, manager, linked, index_head,
                 index_sent, writer, queue, worker, freed, stored, sent_index, recorded, known, sent,
                 counted, mishaps, repeated>>

ContextDone ==
  /\ writer = "context" /\ listed = <<>>
  /\ writer' = "idle"
  /\ UNCHANGED <<destination, phase, starts, frames, size, counting, manager, linked, listed, indexes,
                 queue, worker, freed, files, sent, counted, ghosts>>

-----------------------------------------------------------------------------
(* The sending workers; a topic has one only. *)
Busy == {s \in Senders : worker[s].pc # "idle"}

dequeue(s) ==
  /\ worker[s].pc = "idle" /\ queue # <<>>
  /\ destination = "topic" => Busy = {}
  /\ worker' = [worker EXCEPT ![s] = [pc |-> "send", frame |-> Head(queue), value |-> 0]]
  /\ queue' = Tail(queue)
  /\ raced' = (raced \/ Busy # {})
  /\ UNCHANGED <<destination, phase, starts, frames, size, counting, manager, linked, listed, indexes,
                 writer, freed, files, sent, counted, early, overtaken, late, truncated, misled,
                 repeated>>

(* stomp_send_message(), and the reading half of "index_sent += size"      *)
SendAndRead(s) ==
  LET i == worker[s].frame
  IN  /\ worker[s].pc = "send"
      /\ sent' = sent \cup ({i} \ {0})
      /\ worker' = [worker EXCEPT ![s].pc = IF get_qinfo THEN "update" ELSE "done",
                                  ![s].value = index_sent + size[i]]
      /\ ReadSize("sent", i)
      /\ UNCHANGED <<destination, phase, starts, frames, size, counting, manager, linked, listed,
                     indexes, writer, queue, freed, files, counted, mishaps, repeated>>

(* The writing half.  An object that was freed meanwhile may or may not be *)
(* the memory of the next one.                                             *)
update_index_sent(s) ==
  /\ worker[s].pc \in {"update", "stale"}
  /\ \/ /\ index_sent' = worker[s].value
        /\ counted' = counted \cup ({worker[s].frame} \ {0})
     \/ worker[s].pc = "stale" /\ UNCHANGED <<index_sent, counted>>
  /\ worker' = [worker EXCEPT ![s].pc = "done"]
  /\ UNCHANGED <<destination, phase, starts, frames, size, counting, manager, linked, listed,
                 index_head, index_persistent, writer, queue, freed, files, sent, ghosts>>

(* multicast_worker() frees the frame, the others do not. *)
SendingDone(s) ==
  /\ worker[s].pc = "done"
  /\ freed' = IF destination = "topic" THEN freed \cup {worker[s].frame} ELSE freed
  /\ worker' = [worker EXCEPT ![s] = Resting]
  /\ UNCHANGED <<destination, phase, starts, frames, size, counting, manager, linked, listed, indexes,
                 writer, queue, files, sent, counted, ghosts>>

-----------------------------------------------------------------------------
(* Mutant: the list is freed without m_qinfo. *)
CleanupUnlocked ==
  /\ phase = "run" /\ starts < MaxStarts
  /\ phase' = "stopping"
  /\ free_qinfo
  /\ UNCHANGED <<destination, starts, frames, size, counting, manager, indexes, writer, queue, worker,
                 freed, files, sent, counted, ghosts>>

(* SIGINT: cleanup_persistent_worker() waits for m_qinfo, frees the object *)
(* and with it the list; the other threads go on until exit().             *)
cleanup_persistent_worker ==
  /\ phase = "run" /\ writer \in {"idle", "lock"} /\ starts < MaxStarts
  /\ phase' = "stopping"
  /\ free_qinfo
  /\ worker' = [s \in Senders |->
       IF worker[s].pc = "update" THEN [worker[s] EXCEPT !.pc = "stale"] ELSE worker[s]]
  /\ UNCHANGED <<destination, starts, frames, size, counting, manager, indexes, writer, queue,
                 freed, files, sent, counted, ghosts>>

(* The process is gone, and started again. *)
Restart ==
  /\ starts' = starts + 1 /\ phase' = "start"
  /\ manager' = "idle" /\ writer' = "idle" /\ worker' = [s \in Senders |-> Resting]
  /\ linked' = FALSE /\ listed' = <<>> /\ queue' = <<>>
  /\ counting' = {} /\ freed' = {} /\ counted' = {}
  /\ size' = [i \in Objects |-> 0]
  /\ index_head' = 0 /\ index_sent' = 0 /\ index_persistent' = 0
  /\ overtaken' = (overtaken \/ sent_index > Len(data))
  /\ truncated' = (truncated \/ manager = "link")
  /\ early' = EarlyBy("sent")
  /\ UNCHANGED <<destination, frames, files, sent, raced, late, misled, repeated>>

Crash == starts < MaxStarts /\ Restart
int_handle == phase = "stopping" /\ Restart

-----------------------------------------------------------------------------
Writer ==
  \/ TestStop \/ ListEmpty \/ persist_queue_info \/ persistent_worker
  \/ persist_queue_context \/ ContextDone
Manager ==
  \/ alloc_qinfo \/ LinkQinfo \/ UnpersistScan \/ unpersist
  \/ add_frame_into_qinfo \/ persist_frame \/ enqueue
Sender(s) == dequeue(s) \/ SendAndRead(s) \/ update_index_sent(s) \/ SendingDone(s)

Next ==
  \/ \E kind \in Kinds : handler_stomp_send(kind)
  \/ \E i \in Ids : CountNul(i)
  \/ Manager \/ Writer
  \/ \E s \in Senders : Sender(s)
  \/ cleanup_persistent_worker \/ int_handle \/ Crash

Spec == Init /\ [][Next]_vars

-----------------------------------------------------------------------------
ThreadState == [pc : {"idle", "send", "update", "stale", "done"}, frame : Nat, value : Nat]
FileUnit ==
  [frame : Nat, unit : {"name", "header", "hcmd", "id", "nl", "body", "bcmd", "nul", "junk"}]

(* The shape of the state. *)
TypeOK ==
  /\ destination \in DestNames
  /\ phase \in {"start", "run", "stopping"} /\ starts \in 0 .. MaxStarts
  /\ frames \in Seq(Kinds) /\ Len(frames) <= MaxFrames
  /\ size \in [Objects -> Nat] /\ counting \subseteq DOMAIN frames
  /\ \A i \in counting : size[i] = FullSize(frames[i]) - 1
  /\ manager \in {"idle", "create", "link", "restore", "add", "head", "enqueue"}
  /\ linked \in BOOLEAN /\ stored \in BOOLEAN
  /\ writer \in {"idle", "lock", "check", "context"}
  /\ writer \in {"check", "context"} => linked
  /\ listed \in Seq(Ids) /\ queue \in Seq(Objects)
  /\ Range(listed) \cup sent \subseteq DOMAIN frames
  /\ Range(queue) \cup freed \subseteq {0} \cup DOMAIN frames
  /\ index_sent \in Nat /\ index_head \in Nat /\ index_persistent \in Nat /\ sent_index \in Nat
  /\ worker \in [Senders -> ThreadState]
  /\ data \in Seq(FileUnit)
  /\ recorded \subseteq sent /\ counted \subseteq sent /\ known \subseteq sent
  /\ early \subseteq {"head", "written", "sent"} \X DOMAIN frames
  /\ repeated \subseteq DOMAIN frames

(* Where in the file the frames begin, and which they are. *)
NamesAt == {n \in DOMAIN data : data[n].unit = "name"}
InFile == {data[n].frame : n \in NamesAt}

(* Over all runs of the daemon, frames are appended to the data file in    *)
(* the order in which they came, each once, and those still in the list    *)
(* come after them: a restored frame is not written again, and a restart   *)
(* does not disturb the order.                                             *)
FileInOrder ==
  /\ \A m, n \in NamesAt : m < n => data[m].frame < data[n].frame
  /\ \A m, n \in DOMAIN listed : m < n => listed[m] < listed[n]
  /\ \A i \in InFile, j \in Range(listed) : i < j

InHand == {worker[s].frame : s \in Busy}
Enqueuing == IF manager \in {"head", "enqueue"} THEN {Current} ELSE {}

(* A frame that is in the data file is sent, or will be sent, however      *)
(* often the process is killed and wherever: it is in the queue or on its  *)
(* way there.  This takes a name without "/", and that none of these has   *)
(* happened: two sending workers had frames in hand at the same time       *)
(* (their sizes are added in any order, or lost); a run ended with an      *)
(* index that had overtaken the data (the index is written first, so it    *)
(* may count frames that the file never got, and hide as many bytes of     *)
(* those that come later); the writer went over an object that was made    *)
(* after cleanup (it may write the size of a frame that was dropped from   *)
(* the list); a start took another line for a name, and swallowed a frame. *)
StoredOrSent ==
  (phase # "start" /\ destination = "flat" /\ ~raced /\ ~overtaken /\ ~late /\ ~misled) =>
    InFile \subseteq sent \cup Range(queue) \cup InHand \cup Enqueuing

(* The sum of a sequence of numbers. *)
Total(s) ==
  LET sum[n \in 0 .. Len(s)] == IF n = 0 THEN 0 ELSE sum[n - 1] + s[n]
  IN  sum[Len(s)]

(* By how much the size of a frame may fall short of what is written, and  *)
(* by how much those of all frames sent so far did, up to frame i.         *)
Loss(i) ==
  (IF frames[i] \in {"body", "quoting"} THEN 0 ELSE 1) + (IF <<"sent", i>> \in early THEN 1 ELSE 0)
Shortfall(i) == Total([j \in 1 .. i |-> IF j \in sent THEN Loss(j) ELSE 0])

(* A frame that sent_index once stood for is restored and sent again only  *)
(* after a race of two sending workers, after a run that ended with an     *)
(* index that had overtaken the data (the next start may begin inside a    *)
(* frame that was never sent, and leave the index behind by the rest of    *)
(* it), after the writer went over an object made after cleanup, when the  *)
(* process ended with the file truncated, or when the sizes of the frames  *)
(* up to it fell short by as much as the whole frame: a few missing units  *)
(* make the parser begin inside a frame, which it skips.                   *)
RepeatedOnlyByDrift ==
  \A i \in repeated :
    raced \/ overtaken \/ late \/ truncated \/ Shortfall(i) >= Len(Written(i))

(* All lines are of one frame, from its name on, and the body is as long   *)
(* as it was.  The body of a frame with a reply-to header is longer, see   *)
(* ParseHeader.                                                            *)
Whole(x) ==
  x.frame \in DOMAIN frames /\ (frames[x.frame] = "reply" \/ x.has = contentlen(frames[x.frame]))

(* Wherever in the file the index makes unpersist() begin, whole frames    *)
(* come out.  Only the first may be pieced together from others, when a    *)
(* line that is not a name is taken for one; those behind it are whole     *)
(* again, so that no more than one frame is swallowed.                     *)
RestoredWhole ==
  manager = "restore" =>
    \A from \in 0 .. Len(data) :
      LET found == unpersist_queue_context(from)
      IN  \A n \in DOMAIN found : Whole(found[n]) \/ (n = 1 /\ Misread(from))

FullSizes(seq) == Total([n \in DOMAIN seq |-> FullSize(frames[seq[n]])])

(* index_head is ahead of index_persistent by what is in the list, which   *)
(* is how persistent_worker() sees that there is something to write; but   *)
(* for each size that persist_frame() read too early it falls back by one. *)
(* So a frame may be overlooked, and wait for the next, only after as many *)
(* such readings as it has bytes.                                          *)
IndexesAgree ==
  (linked /\ freed = {} /\ manager \notin {"restore", "head"}) =>
    index_head + Cardinality(EarlyBy("head")) =
      index_persistent + Cardinality(EarlyBy("written")) + FullSizes(listed)

(* What daemon_initialize() says of unpersist(): it gets the persistent    *)
(* frames and reinstates them.  It does for names without "/" only.        *)
Reinstated ==
  phase # "start" => InFile \subseteq sent \cup Range(queue) \cup InHand \cup Enqueuing

(* What frame.h says of l_persistent: it stores frames in the list that    *)
(* waits for the persistence worker; so a frame in it exists.              *)
ListedNotFreed == freed \cap Range(listed) = {}

=============================================================================
