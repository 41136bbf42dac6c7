---------------------------- MODULE FrameParser -----------------------------
(***************************************************************************)
(* src/lib/stomp.c: how one connection's byte stream becomes frames.       *)
(*                                                                         *)
(* stomp_conn_worker() receives the stream in chunks that TCP may cut      *)
(* anywhere; recv_data() splits a chunk into lines, keeps an unfinished    *)
(* line in prev_data for the next chunk, and feeds the lines to            *)
(* frame_update(), the state machine BORN -> INPUT_HEADER -> INPUT_BODY -> *)
(* bucket.  At the end of the stream conn_finish() looks at the frame in   *)
(* progress.  One iteration of the loop of recv_data() is one action.      *)
(*                                                                         *)
(* A stream is a sequence of tokens.  A command is several tokens, so that *)
(* a chunk may end inside it; "content-length:" is one token, a numeral is *)
(* one token, every other token is one byte.  LD_MAX counts tokens.        *)
(* Left out: frame->size and the random ids.                               *)
(***************************************************************************)
EXTENDS Naturals, Integers, Sequences, SequencesExt, FiniteSetsExt

CONSTANTS
  Tokens,    \* what streams are made of
  Commands,  \* finfo_arr: the names of frames, as sequences of tokens
  Numerals,  \* Numerals[c]: the value of atoi() on the numeral c, 0 on the rest
  LD_MAX,    \* the longest line ssplit() returns
  MaxChunk,  \* bound: the longest chunk recv() returns
  Scripts,   \* sequences of frames that a client may send
  Raw        \* streams of tokens that are no sequence of frames

ASSUME LimitsAssumption == LD_MAX \in Nat \ {0} /\ MaxChunk \in Nat \ {0}
NL == "NL"
CR == "CR"
NUL == "NUL"
ContentLength == "content-length:"
Text == Seq(Tokens)

ASSUME TokensAssumption ==
  /\ NL \in Tokens /\ CR \in Tokens /\ NUL \in Tokens
  /\ \A c \in Commands : c \in Text
  /\ \A c \in DOMAIN Numerals : Numerals[c] \in Int
  /\ \A r \in Raw : r \in Text

(* What is true of the names in finfo_arr: a line holds each of them, and  *)
(* one that begins inside another (ACK in NACK, SUBSCRIBE in UNSUBSCRIBE,  *)
(* CONNECT in DISCONNECT) reaches to its end.                              *)
ASSUME CommandsAssumption ==
  \A c \in Commands :
    /\ Len(c) \in 1 .. LD_MAX
    /\ ~Contains(c, NL) /\ ~Contains(c, CR) /\ ~Contains(c, NUL)
    /\ \A d \in Commands, k \in DOMAIN c :
         IsPrefix(d, SubSeq(c, k, Len(c))) => d = SubSeq(c, k, Len(c))

VARIABLES
  script,   \* the frames the client sends, <<>> for a raw stream
  input,    \* the tokens sent and not yet received
  lost,     \* the connection broke before the client had sent everything
  closed,   \* recv() has returned 0 and conn_finish() has run
  buf,      \* the chunk recv_data() works on
  curr,     \* the position of recv_data() in buf
  prev,     \* prev_data, <<>> for NULL
  room,     \* the bytes allocated for prev_data, 0 for NULL
  spilled,  \* a line was written beyond them, and damaged what is there
  frame,    \* cinfo->frame
  bucket,   \* stomp_frame_bucket, for this connection
  errors    \* how many times stomp_send_error() was called

stream == <<script, lost, closed>>
held == <<prev, room>>
vars == <<stream, input, buf, curr, held, spilled, frame, bucket, errors>>

is_contentlen(l) == Len(l) > 1 /\ l[1] = ContentLength
get_contentlen(l) == IF l[2] \in DOMAIN Numerals THEN Numerals[l[2]] ELSE 0

-----------------------------------------------------------------------------
(* The client's side: how a frame is put on the wire, and which frames the *)
(* parser understands.  Every frame needs a content-length; a header may   *)
(* not contain a command, which is_frame_name() would take for a whole     *)
(* line when a chunk ends there; the end of a line is NL alone.            *)
Lines(ls) == FlattenSeq([n \in 1 .. Len(ls) |-> Append(ls[n], NL)])
Encode(f) == Lines(<<f.name>> \o f.attrs \o << <<>> >>) \o Append(f.body, NUL)
EncodeAll(fs) == FlattenSeq([n \in 1 .. Len(fs) |-> Encode(fs[n])])

WellFormed(f) ==
  /\ f \in [name : Commands, attrs : Seq(Text), body : Text]
  /\ \A i \in DOMAIN f.attrs :
       /\ Len(f.attrs[i]) \in 1 .. LD_MAX
       /\ ~Contains(f.attrs[i], NL) /\ ~Contains(f.attrs[i], CR) /\ ~Contains(f.attrs[i], NUL)
       /\ \A c \in Commands, k \in DOMAIN f.attrs[i] :
            ~IsPrefix(c, SubSeq(f.attrs[i], k, Len(f.attrs[i])))
  /\ \E i \in DOMAIN f.attrs :
       /\ is_contentlen(f.attrs[i])
       /\ get_contentlen(f.attrs[i]) = Len(f.body)
       /\ \A j \in DOMAIN f.attrs : is_contentlen(f.attrs[j]) => j = i
  /\ ~Contains(f.body, NUL)

ASSUME ScriptsAssumption ==
  \A fs \in Scripts : Len(fs) \in Nat \ {0} /\ \A i \in 1 .. Len(fs) : WellFormed(fs[i])

-----------------------------------------------------------------------------
NoFrame == [status |-> "none", name |-> <<>>, attrs |-> <<>>, contentlen |-> -1, body |-> <<>>]
alloc_frame == [NoFrame EXCEPT !.status = "born"]
frame_finish(f) == [f EXCEPT !.status = "bucket"]

IsNL(c) == c \in {NL, CR}

(* Mutant: a line also ends at an NL when it is part of a body. *)
ssplitAtNL(s, is_body) ==
  IF s[1] = NUL \/ IsNL(s[1])
  THEN 0
  ELSE Min({n \in 1 .. Len(s) : n = Len(s) \/ s[n + 1] \in {NUL, NL} \/ n >= LD_MAX})

(* ssplit(): the length of the line at the start of s. *)
ssplit(s, is_body) ==
  IF s[1] = NUL \/ (~is_body /\ IsNL(s[1]))
  THEN 0
  ELSE Min({n \in 1 .. Len(s) :
              \/ n = Len(s)
              \/ s[n + 1] = NUL
              \/ s[n + 1] = NL /\ ~is_body
              \/ n >= LD_MAX})

is_frame_name(s) == \E c \in Commands : IsPrefix(c, s)

(* stomp_setdata() stores a line in pieces of at most LD_MAX. *)
Pieces(l) ==
  [i \in 1 .. ((Len(l) + LD_MAX - 1) \div LD_MAX) |->
     SubSeq(l, (i - 1) * LD_MAX + 1, Min({i * LD_MAX, Len(l)}))]

-----------------------------------------------------------------------------
Init ==
  /\ \/ script \in Scripts /\ input = EncodeAll(script)
     \/ script = <<>> /\ input \in Raw
  /\ lost = FALSE
  /\ closed = FALSE
  /\ buf = <<>>
  /\ curr = 1
  /\ prev = <<>>
  /\ room = 0
  /\ spilled = FALSE
  /\ frame = NoFrame
  /\ bucket = <<>>
  /\ errors = 0

(* recv_data() has a line to look at; the last line may be unfinished. *)
Parsing == curr <= Len(buf)
Rest == SubSeq(buf, curr, Len(buf))
is_body_input == frame.status = "body"
LineLen == ssplit(Rest, is_body_input)
Unfinished == LineLen = Len(Rest) /\ ~is_frame_name(Rest)
HasLine == ~spilled /\ Parsing /\ ~Unfinished

(* The line with what prev_data holds of it, and its first byte (which is  *)
(* the separator when the line is empty).                                  *)
Line == prev \o SubSeq(Rest, 1, LineLen)
First == IF prev # <<>> THEN prev[1] ELSE Rest[1]
EndOfHeader == IsNL(First) /\ frame.contentlen >= 0

(* recv() returns a chunk. *)
Recv(n) ==
  /\ ~closed
  /\ ~Parsing
  /\ n <= Len(input)
  /\ buf' = SubSeq(input, 1, n)
  /\ input' = SubSeq(input, n + 1, Len(input))
  /\ curr' = 1
  /\ UNCHANGED <<stream, held, spilled, frame, bucket, errors>>

(* The connection breaks: what is under way is lost. *)
Disconnect ==
  /\ ~closed
  /\ input # <<>>
  /\ input' = <<>>
  /\ lost' = TRUE
  /\ UNCHANGED <<script, closed, buf, curr, held, spilled, frame, bucket, errors>>

(* Mutant: conn_finish() does not look at the status of the frame. *)
ConnFinishAny ==
  /\ ~closed
  /\ ~Parsing
  /\ input = <<>>
  /\ closed' = TRUE
  /\ bucket' = IF frame.status # "none" THEN Append(bucket, frame_finish(frame)) ELSE bucket
  /\ UNCHANGED <<script, lost, input, buf, curr, held, spilled, frame, errors>>

(* recv() returns 0: conn_finish(). *)
conn_finish ==
  /\ ~closed
  /\ ~Parsing
  /\ input = <<>>
  /\ closed' = TRUE
  /\ bucket' = IF frame.status = "body" THEN Append(bucket, frame_finish(frame)) ELSE bucket
  /\ UNCHANGED <<script, lost, input, buf, curr, held, spilled, frame, errors>>

(* Mutant: a second unfinished chunk overwrites the first. *)
SaveTailOverwrites ==
  /\ Parsing
  /\ Unfinished
  /\ prev' = Rest
  /\ room' = 2 * LD_MAX
  /\ curr' = Len(buf) + 1
  /\ UNCHANGED <<stream, input, buf, spilled, frame, bucket, errors>>

(* recv_data(): an unfinished line at the end of the chunk, for which      *)
(* prev_data is allocated, or grown by LD_MAX from what it holds.          *)
SaveTail ==
  /\ Parsing
  /\ Unfinished
  /\ prev' = prev \o Rest
  /\ room' = IF prev = <<>> THEN 2 * LD_MAX ELSE Len(prev) + LD_MAX
  /\ curr' = Len(buf) + 1
  /\ UNCHANGED <<stream, input, buf, spilled, frame, bucket, errors>>

(* What every other iteration does: go on behind the line. *)
NextLine(skip) ==
  /\ curr' = curr + LineLen + skip
  /\ prev' = <<>>
  /\ room' = 0
  /\ UNCHANGED <<stream, input, buf, spilled>>

(* The line is put together in prev_data, which is not grown for it, and a *)
(* NUL behind it.  What is written beyond the end may hit bytes that       *)
(* nobody uses, and the line goes on as any other; or it damages the heap, *)
(* and nothing is known of the process any more.                           *)
Overflow ==
  /\ HasLine
  /\ prev # <<>>
  /\ Len(Line) + 1 > room
  /\ spilled' = TRUE
  /\ UNCHANGED <<stream, input, buf, curr, held, frame, bucket, errors>>

(* An empty line between two frames. *)
SkipBlank ==
  /\ HasLine
  /\ frame.status = "none"
  /\ Line = <<>>
  /\ NextLine(1)
  /\ UNCHANGED <<frame, bucket, errors>>

(* frame_update() in state BORN. *)
frame_setname ==
  /\ HasLine
  /\ frame.status = "born" \/ (frame.status = "none" /\ Line # <<>>)
  /\ NextLine(1)
  /\ \/ \E c \in Commands :
          /\ IsPrefix(c, Line)
          /\ frame' = [alloc_frame EXCEPT !.status = "header", !.name = c]
          /\ UNCHANGED errors
     \/ /\ ~is_frame_name(Line)
        /\ frame' = alloc_frame
        /\ errors' = errors + 1
  /\ UNCHANGED bucket

(* frame_update() in state INPUT_HEADER, empty line after content-length.  *)
HeaderEnds ==
  /\ HasLine
  /\ frame.status = "header"
  /\ EndOfHeader
  /\ NextLine(1)
  /\ \/ /\ frame.contentlen > 0
        /\ frame' = [frame EXCEPT !.status = "body"]
        /\ UNCHANGED bucket
     \/ /\ frame.contentlen = 0
        /\ frame' = NoFrame
        /\ bucket' = Append(bucket, frame_finish(frame))
  /\ UNCHANGED errors

(* frame_update() in state INPUT_HEADER, any other line. *)
HeaderLine ==
  /\ HasLine
  /\ frame.status = "header"
  /\ ~EndOfHeader
  /\ NextLine(1)
  /\ frame' = IF Line = <<>> THEN frame ELSE
       [frame EXCEPT
          !.contentlen = IF is_contentlen(Line) THEN get_contentlen(Line) ELSE @,
          !.attrs = @ \o Pieces(Line)]
  /\ UNCHANGED <<bucket, errors>>

(* Mutant: the body is taken to be complete one byte too early. *)
BodyLineEarly ==
  LET f == [frame EXCEPT !.body = @ \o Line]
  IN  /\ HasLine
      /\ frame.status = "body"
      /\ \/ /\ f.contentlen <= Len(f.body) + 1
            /\ frame' = NoFrame
            /\ bucket' = Append(bucket, frame_finish(f))
            /\ NextLine(1)
         \/ /\ f.contentlen > Len(f.body) + 1
            /\ frame' = f
            /\ UNCHANGED bucket
            /\ NextLine(0)
      /\ UNCHANGED errors

(* frame_update() in state INPUT_BODY. *)
BodyLine ==
  LET f == [frame EXCEPT !.body = @ \o Line]
  IN  /\ HasLine
      /\ frame.status = "body"
      /\ \/ /\ f.contentlen <= Len(f.body)
            /\ frame' = NoFrame
            /\ bucket' = Append(bucket, frame_finish(f))
            /\ NextLine(1)
         \/ /\ f.contentlen > Len(f.body)
            /\ frame' = f
            /\ UNCHANGED bucket
            /\ NextLine(0)
      /\ UNCHANGED errors

recv_data ==
  \/ SaveTail \/ Overflow
  \/ SkipBlank
  \/ frame_setname
  \/ HeaderEnds \/ HeaderLine
  \/ BodyLine

Next ==
  \/ \E n \in 1 .. MaxChunk : Recv(n)
  \/ Disconnect
  \/ recv_data
  \/ conn_finish

Spec == Init /\ [][Next]_vars

(* The connection thread runs, and what was sent arrives or the connection *)
(* breaks; nothing makes a connection break.  Nor does anything make a     *)
(* client read: where recv_data() sends an ERROR, it may wait for ever in  *)
(* send().                                                                 *)
Fairness ==
  /\ WF_vars(recv_data /\ errors' = errors)
  /\ WF_vars(\E n \in 1 .. MaxChunk : Recv(n))
  /\ WF_vars(conn_finish)

FairSpec == Spec /\ Fairness

-----------------------------------------------------------------------------
(* The shape of the state; a frame in the bucket knows its content length. *)
FrameObject ==
  [status : {"none", "born", "header", "body", "bucket"}, name : Text, attrs : Seq(Text),
   contentlen : Int, body : Text]
TypeOK ==
  /\ script = <<>> \/ script \in Scripts
  /\ input \in Text /\ buf \in Text /\ prev \in Text
  /\ curr \in 1 .. (Len(buf) + 2)
  /\ lost \in BOOLEAN /\ closed \in BOOLEAN
  /\ room \in Nat /\ spilled \in BOOLEAN
  /\ frame \in FrameObject /\ frame.status # "bucket"
  /\ frame.status = "body" => frame.contentlen > 0
  /\ frame.status \in {"none", "born"} => frame = [NoFrame EXCEPT !.status = frame.status]
  /\ frame.status \in {"header", "body"} => frame.name \in Commands
  /\ bucket \in Seq(FrameObject)
  /\ \A i \in DOMAIN bucket :
       /\ bucket[i].status = "bucket"
       /\ bucket[i].name \in Commands
       /\ bucket[i].contentlen >= 0
  /\ errors \in Nat

(* What the client meant by a frame of the bucket. *)
Content(f) == [name |-> f.name, attrs |-> f.attrs, body |-> f.body]
Contents == [i \in DOMAIN bucket |-> Content(bucket[i])]

Complete(f) == Len(f.body) >= f.contentlen

(* Wherever TCP cuts the stream of a client that sends well-formed frames, *)
(* the complete frames in the bucket are the ones the client sent, in      *)
(* order and unchanged; none is missing once the stream was read to its    *)
(* end, and the client gets no ERROR.  This is as long as prev_data holds  *)
(* what is put into it, which it always does unless a body is longer than  *)
(* LD_MAX: no way to cut names, headers and shorter bodies overflows it.   *)
RoundTrip ==
  /\ (script # <<>> /\ spilled) => \E i \in DOMAIN script : Len(script[i].body) > LD_MAX
  /\ (script # <<>> /\ ~spilled) =>
       /\ errors = 0
       /\ Len(bucket) <= Len(script)
       /\ \A i \in DOMAIN bucket :
            /\ Complete(bucket[i]) => Content(bucket[i]) = script[i]
            /\ ~Complete(bucket[i]) =>
                 /\ Content(bucket[i]) = [script[i] EXCEPT !.body = bucket[i].body]
                 /\ IsPrefix(bucket[i].body, script[i].body)
       /\ closed /\ ~lost => Len(bucket) = Len(script)

(* A frame shorter than its content-length reaches the bucket only as the  *)
(* last one of a connection that has ended, whatever the client sends.     *)
TruncatedOnlyLast ==
  \A i \in DOMAIN bucket : ~Complete(bucket[i]) => i = Len(bucket) /\ closed

(* recv_data() is at a NUL inside a body that is not complete: the line is *)
(* empty, next = curr, and the loop never leaves this byte.                *)
StuckAtNul ==
  /\ Parsing /\ is_body_input
  /\ buf[curr] = NUL
  /\ prev = <<>>
  /\ ~Complete(frame)

(* recv_data() has a line for which it sends an ERROR. *)
Refused ==
  /\ HasLine
  /\ frame.status = "born" \/ (frame.status = "none" /\ Line # <<>>)
  /\ ~is_frame_name(Line)

(* The thread of a connection reads the stream to its end and cleans up,   *)
(* unless it is caught at a NUL inside a body, has damaged the heap, or    *)
(* waits in send() for a client that does not read its ERROR; a client     *)
(* that sends well-formed frames never gets its thread caught.             *)
EventuallyClosed ==
  \/ <>(closed \/ spilled \/ (script = <<>> /\ StuckAtNul))
  \/ script = <<>> /\ <>[]Refused

(* What the comment in stomp_conn_worker() says of the end of the stream:  *)
(* the parse of the current frame is cancelled.                            *)
CancelledNotDelivered == \A i \in DOMAIN bucket : Complete(bucket[i])

=============================================================================
