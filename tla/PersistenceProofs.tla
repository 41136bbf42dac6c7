------------------------- MODULE PersistenceProofs --------------------------
(***************************************************************************)
(* Proofs about persistence: the state keeps its shape, the data file is   *)
(* in order over all starts of the daemon, what is restored from it is     *)
(* whole wherever the index makes the parser begin, and the two indexes    *)
(* that persist_frame() and the writer advance agree with the list.        *)
(***************************************************************************)
EXTENDS Persistence, SequenceLemmas, FiniteSetTheorems

(* Parsed() is what its recursive definition says. *)
LEMMA ParsedExists ==
  ASSUME NEW L \in Nat, NEW input
  PROVE  \E st : st = [n \in 0 .. L |->
                   IF n = 0 THEN Born(<<>>) ELSE frame_update(st[n - 1], input[n])]
<1> DEFINE Is(st, k) == st = [n \in 0 .. k |->
                          IF n = 0 THEN Born(<<>>) ELSE frame_update(st[n - 1], input[n])]
           Bad == {k \in 0 .. L : ~ \E st : Is(st, k)}
<1>1. CASE Bad = {}
  <2>1. L \in 0 .. L
    OBVIOUS
  <2> QED BY <1>1, <2>1
<1>2. CASE Bad # {}
  <2>1. Bad \in SUBSET Nat
    OBVIOUS
  <2>2. PICK k \in Bad : \A j \in Bad : k <= j
    <3> HIDE DEF Bad
    <3> QED BY <1>2, <2>1, Least
  <2>3. k \in 0 .. L /\ ~ \E st : Is(st, k)
    OBVIOUS
  <2>4. CASE k = 0
    <3> DEFINE g == [n \in 0 .. 0 |-> Born(<<>>)]
    <3>1. Is(g, 0)
      OBVIOUS
    <3> HIDE DEF g, Is
    <3> QED BY <2>3, <2>4, <3>1
  <2>5. CASE k # 0
    <3>1. k - 1 \in 0 .. L /\ ~(k <= k - 1)
      BY <2>3, <2>5
    <3>2. \E st : Is(st, k - 1)
      BY <2>2, <3>1
    <3>3. PICK st : Is(st, k - 1)
      BY <3>2
    <3> DEFINE g == [n \in 0 .. k |-> IF n = k THEN frame_update(st[k - 1], input[k]) ELSE st[n]]
    <3>4. \A n \in 0 .. k - 1 :
            st[n] = IF n = 0 THEN Born(<<>>) ELSE frame_update(st[n - 1], input[n])
      BY <3>3
    <3>5. \A n \in 0 .. k : n = k \/ n \in 0 .. k - 1
      BY <2>3
    <3>6. \A n \in 0 .. k : n # 0 => n - 1 \in 0 .. k /\ n - 1 # k
      BY <2>3
    <3>7. ASSUME NEW n \in 0 .. k
          PROVE  g[n] = IF n = 0 THEN Born(<<>>) ELSE frame_update(g[n - 1], input[n])
      <4>1. CASE n = k
        <5>1. g[n - 1] = st[n - 1] /\ g[n] = frame_update(st[n - 1], input[n])
          BY <2>5, <3>6, <4>1
        <5> QED BY <2>5, <4>1, <5>1
      <4>2. CASE n # k /\ n # 0
        <5>1. g[n] = st[n] /\ g[n - 1] = st[n - 1]
          BY <3>6, <4>2
        <5>2. n \in 0 .. k - 1
          BY <3>5, <4>2
        <5> QED BY <3>4, <4>2, <5>1, <5>2
      <4>3. CASE n # k /\ n = 0
        <5>1. g[n] = st[n]
          BY <4>3
        <5>2. n \in 0 .. k - 1
          BY <3>5, <4>3
        <5> QED BY <3>4, <4>3, <5>1, <5>2
      <4> QED BY <4>1, <4>2, <4>3
    <3>8. Is(g, k)
      <4>1. g = [n \in 0 .. k |-> g[n]]
        OBVIOUS
      <4> HIDE DEF g
      <4> QED BY <3>7, <4>1
    <3> HIDE DEF g, Is
    <3> QED BY <2>3, <3>8
  <2> QED BY <2>4, <2>5
<1> QED BY <1>1, <1>2

LEMMA ParsedIs ==
  ASSUME NEW L \in Nat, NEW input, Len(input) = L
  PROVE  /\ Parsed(input)[0] = Born(<<>>)
         /\ \A n \in 1 .. L : Parsed(input)[n] = frame_update(Parsed(input)[n - 1], input[n])
<1> PICK s : s = Parsed(input)
  OBVIOUS
<1>1. s = CHOOSE st : st = [n \in 0 .. L |->
            IF n = 0 THEN Born(<<>>) ELSE frame_update(st[n - 1], input[n])]
  BY DEF Parsed
<1>2. s = [n \in 0 .. L |-> IF n = 0 THEN Born(<<>>) ELSE frame_update(s[n - 1], input[n])]
  BY <1>1, ParsedExists
<1>3. \A n \in 0 .. L : s[n] = IF n = 0 THEN Born(<<>>) ELSE frame_update(s[n - 1], input[n])
  BY <1>2
<1>4. \A n \in 1 .. L : n \in 0 .. L /\ n # 0
  OBVIOUS
<1> QED BY <1>3, <1>4

-----------------------------------------------------------------------------
(***************************************************************************)
(* What is in the file.  NextUnit says which unit may follow another of    *)
(* the same frame; every unit but the last of a frame is followed so, and  *)
(* the last by the name of the next frame.                                 *)
(***************************************************************************)
Names == {"name", "header", "hcmd", "id", "nl", "body", "bcmd", "nul"}
NextUnit(kind, u, v) ==
  \/ u = "name" /\ (IF kind = "quoting" THEN v = "hcmd" ELSE v = "header")
  \/ u = "hcmd" /\ v = "header"
  \/ u = "header" /\ (IF kind = "reply" THEN v = "id" ELSE v = "nl")
  \/ u = "id" /\ v = "nl"
  \/ u = "nl" /\ kind = "body" /\ v = "body"
  \/ u = "nl" /\ kind = "empty" /\ v = "nul"
  \/ u = "nl" /\ kind = "reply" /\ v \in {"nl", "body"}
  \/ u = "nl" /\ kind = "quoting" /\ v = "bcmd"
  \/ u \in {"body", "bcmd"} /\ v = "nul"
Follows(x, y) == y.frame = x.frame /\ NextUnit(frames[x.frame], x.unit, y.unit)
Ends(x) == x.unit \in {"nul", "junk"}
Starts(x) == x.unit \in {"name", "junk"}

KnownIn(file) == \A n \in DOMAIN file : file[n].unit # "junk" => file[n].frame \in DOMAIN frames
ChainedIn(file) ==
  \A n \in DOMAIN file : Ends(file[n]) \/ n = Len(file) \/ Follows(file[n], file[n + 1])
PartedIn(file) ==
  \A n \in DOMAIN file : Ends(file[n]) => n = Len(file) \/ Starts(file[n + 1])
WholeFile(file) ==
  /\ KnownIn(file) /\ ChainedIn(file) /\ PartedIn(file)
  /\ Len(file) # 0 => Ends(file[Len(file)]) /\ Starts(file[1])
FileInv == WholeFile(data)

(* What parse_frame() has found, and is about to. *)
FoundSet == [frame : {0} \cup DOMAIN frames, size : Nat, has : Nat]
ParserSet ==
  [status : {"born", "header", "body"}, frame : {0} \cup DOMAIN frames, size : Nat, has : Nat,
   len : {-1, 0, 1}, out : Seq(FoundSet)]

(* The parser inside of a frame is at a unit of that frame, and has the    *)
(* part of the body that it has passed.                                    *)
Inside(p, u) ==
  /\ p.frame = u.frame /\ p.frame \in DOMAIN frames
  /\ p.status = "header" => p.has = 0 /\ u.unit \in {"name", "hcmd", "header", "id"}
  /\ p.status = "header" /\ u.unit \in {"header", "id"} => p.len = contentlen(frames[p.frame])
  /\ p.status = "body" =>
       /\ contentlen(frames[p.frame]) = 1 /\ p.len = 1
       /\ u.unit \in {"nl", "body", "bcmd"}
       /\ u.unit \in {"body", "bcmd"} => p.has >= 1
       /\ frames[p.frame] # "reply" => p.has = IF u.unit = "nl" THEN 0 ELSE 1

(* The parser has taken another line for a name; it does not know a        *)
(* length before it has come to the header of a frame, in which it then    *)
(* ends.                                                                   *)
Astray(p, u) ==
  /\ p.frame = 0 /\ p.out = <<>>
  /\ p.status = "header" =>
       \/ p.len = -1 /\ u.unit \in {"hcmd", "bcmd", "nul", "name", "junk"}
       \/ /\ u.frame \in DOMAIN frames /\ p.len = contentlen(frames[u.frame])
          /\ u.unit \in {"header", "id"}
  /\ p.status = "body" =>
       /\ u.frame \in DOMAIN frames /\ contentlen(frames[u.frame]) = 1 /\ p.len = 1
       /\ u.unit \in {"nl", "body", "bcmd"}
       /\ u.unit \in {"body", "bcmd"} => p.has >= 1

(* Behind u, there is no line that is taken for a name but the next name.  *)
Rest(u) == Ends(u) \/ (u.unit = "nl" /\ u.frame \in DOMAIN frames /\ frames[u.frame] = "empty")
FoundWhole(p, odd) == \A k \in DOMAIN p.out : Whole(p.out[k]) \/ (k = 1 /\ odd)

(* The parser behind the unit u. *)
Parsing(p, u, odd) ==
  /\ p.status = "born" /\ p.out # <<>> => Rest(u)
  /\ p.status # "born" => Inside(p, u) \/ (Astray(p, u) /\ odd)

(* The fields of the parser's state after an assignment to some of them.   *)
LEMMA ParserFields ==
  ASSUME NEW p \in ParserSet
  PROVE  /\ p.status \in {"born", "header", "body"} /\ p.frame \in {0} \cup DOMAIN frames
         /\ p.size \in Nat /\ p.has \in Nat /\ p.len \in {-1, 0, 1} /\ p.out \in Seq(FoundSet)
         /\ \A k \in DOMAIN p.out : p.out[k] \in FoundSet
<1>1. /\ p.status \in {"born", "header", "body"} /\ p.frame \in {0} \cup DOMAIN frames
      /\ p.size \in Nat /\ p.has \in Nat /\ p.len \in {-1, 0, 1} /\ p.out \in Seq(FoundSet)
  BY DEF ParserSet
<1> QED BY <1>1

LEMMA SetName ==
  ASSUME NEW p \in ParserSet, NEW f \in {0} \cup DOMAIN frames
  PROVE  LET q == [p EXCEPT !.status = "header", !.frame = f, !.size = 1, !.has = 0, !.len = -1]
         IN  /\ q \in ParserSet /\ q.status = "header" /\ q.frame = f /\ q.has = 0
             /\ q.len = -1 /\ q.out = p.out /\ q.size = 1
BY DEF ParserSet

Grown(p, f, l) == [p EXCEPT !.size = @ + 1, !.frame = f, !.len = l]
LEMMA AddUnit ==
  ASSUME NEW p \in ParserSet, NEW f \in {0} \cup DOMAIN frames, NEW l \in {-1, 0, 1}
  PROVE  /\ Grown(p, f, l) \in ParserSet /\ Grown(p, f, l).status = p.status
         /\ Grown(p, f, l).frame = f /\ Grown(p, f, l).has = p.has /\ Grown(p, f, l).len = l
         /\ Grown(p, f, l).out = p.out /\ Grown(p, f, l).size = p.size + 1
<1>1. PICK n \in Nat : n = p.size + 1
  BY ParserFields
<1>2. LET q == [p EXCEPT !.size = n, !.frame = f, !.len = l]
      IN  /\ q \in ParserSet /\ q.status = p.status /\ q.frame = f /\ q.has = p.has
          /\ q.len = l /\ q.out = p.out /\ q.size = n
  BY DEF ParserSet
<1> QED BY <1>1, <1>2 DEF Grown

LEMMA BodyBegins ==
  ASSUME NEW p \in ParserSet
  PROVE  LET q == [p EXCEPT !.status = "body", !.size = @ + 1]
         IN  /\ q \in ParserSet /\ q.status = "body" /\ q.frame = p.frame /\ q.has = p.has
             /\ q.len = p.len /\ q.out = p.out /\ q.size = p.size + 1
<1>1. PICK n \in Nat : n = p.size + 1
  BY ParserFields
<1>2. LET q == [p EXCEPT !.status = "body", !.size = n]
      IN  /\ q \in ParserSet /\ q.status = "body" /\ q.frame = p.frame /\ q.has = p.has
          /\ q.len = p.len /\ q.out = p.out /\ q.size = n
  BY DEF ParserSet
<1> QED BY <1>1, <1>2

LongerBody(p, f) == [p EXCEPT !.size = @ + 1, !.has = @ + 1, !.frame = f]
LEMMA BodyGrows ==
  ASSUME NEW p \in ParserSet, NEW f \in {0} \cup DOMAIN frames
  PROVE  /\ LongerBody(p, f) \in ParserSet /\ LongerBody(p, f).status = p.status
         /\ LongerBody(p, f).frame = f /\ LongerBody(p, f).has = p.has + 1
         /\ LongerBody(p, f).len = p.len /\ LongerBody(p, f).out = p.out
         /\ LongerBody(p, f).size = p.size + 1
<1>1. PICK n \in Nat : n = p.size + 1
  BY ParserFields
<1>2. PICK h \in Nat : h = p.has + 1
  BY ParserFields
<1>3. LET q == [p EXCEPT !.size = n, !.has = h, !.frame = f]
      IN  /\ q \in ParserSet /\ q.status = p.status /\ q.frame = f /\ q.has = h
          /\ q.len = p.len /\ q.out = p.out /\ q.size = n
  BY DEF ParserSet
<1> QED BY <1>1, <1>2, <1>3 DEF LongerBody

LEMMA BornIs ==
  ASSUME NEW o \in Seq(FoundSet)
  PROVE  /\ Born(o) \in ParserSet /\ Born(o).status = "born" /\ Born(o).out = o
BY DEF Born, ParserSet

LEMMA Finished ==
  ASSUME NEW p \in ParserSet, NEW odd, FoundWhole(p, odd),
         \/ p.frame \in DOMAIN frames /\ (frames[p.frame] = "reply" \/ p.has = contentlen(frames[p.frame]))
         \/ p.out = <<>> /\ odd
  PROVE  /\ frame_finish(p) \in ParserSet /\ frame_finish(p).status = "born"
         /\ frame_finish(p).out # <<>> /\ FoundWhole(frame_finish(p), odd)
<1> DEFINE x == [frame |-> p.frame, size |-> p.size + 1, has |-> p.has]
<1>1. /\ p.size + 1 \in Nat /\ p.has \in Nat /\ p.out \in Seq(FoundSet)
      /\ p.frame \in {0} \cup DOMAIN frames
  BY ParserFields
<1>2. x \in FoundSet
  BY <1>1 DEF FoundSet
<1>3. x.frame = p.frame /\ x.has = p.has
  OBVIOUS
<1>4. Whole(x) \/ (p.out = <<>> /\ odd)
  <2> HIDE DEF x
  <2> QED BY <1>3 DEF Whole
<1>5. frame_finish(p) = Born(Append(p.out, x))
  BY DEF frame_finish
<1> HIDE DEF x
<1>6. PICK o : o = p.out
  OBVIOUS
<1>7. PICK a : a = Append(o, x)
  OBVIOUS
<1>8. /\ a \in Seq(FoundSet) /\ DOMAIN a = 1 .. Len(o) + 1 /\ Len(o) \in Nat
      /\ \A k \in DOMAIN a : (k \in DOMAIN o /\ a[k] = o[k]) \/ (k = Len(o) + 1 /\ a[k] = x)
  <2>1. o \in Seq(FoundSet)
    BY <1>1, <1>6
  <2>2. /\ a \in Seq(FoundSet) /\ Len(o) \in Nat /\ DOMAIN o = 1 .. Len(o)
        /\ DOMAIN a = 1 .. Len(o) + 1
        /\ \A k \in 1 .. Len(o) : a[k] = o[k]
        /\ a[Len(o) + 1] = x
    BY <1>2, <1>7, <2>1, AppendIs
  <2>3. \A k \in 1 .. Len(o) + 1 : k \in 1 .. Len(o) \/ k = Len(o) + 1
    BY <2>2
  <2> QED BY <2>2, <2>3
<1>9. \A k \in DOMAIN a : Whole(a[k]) \/ (k = 1 /\ odd)
  <2> SUFFICES ASSUME NEW k \in DOMAIN a PROVE Whole(a[k]) \/ (k = 1 /\ odd)
    OBVIOUS
  <2>1. CASE k \in DOMAIN o /\ a[k] = o[k]
    BY <1>6, <2>1 DEF FoundWhole
  <2>2. CASE k = Len(o) + 1 /\ a[k] = x
    <3>1. CASE Whole(x)
      BY <2>2, <3>1
    <3>2. CASE p.out = <<>> /\ odd
      <4>1. Len(o) = 0
        BY <1>6, <3>2
      <4>2. k = 1
        BY <2>2, <4>1
      <4> QED BY <3>2, <4>2
    <3> QED BY <1>4, <3>1, <3>2
  <2> QED BY <1>8, <2>1, <2>2
<1>10. Born(a) \in ParserSet /\ Born(a).status = "born" /\ Born(a).out = a
  BY <1>8, BornIs
<1>11. a # <<>>
  <2>1. 1 \in DOMAIN a
    BY <1>8
  <2> QED BY <2>1
<1> QED BY <1>5, <1>6, <1>7, <1>9, <1>10, <1>11 DEF FoundWhole

(* A unit is read outside of a frame. *)
LEMMA BornStep ==
  ASSUME NEW p \in ParserSet, NEW odd, FoundWhole(p, odd), NEW v \in FileUnit,
         v.unit # "junk" => v.frame \in DOMAIN frames, p.status = "born",
         v.unit \in {"hcmd", "bcmd"} => p.out = <<>> /\ odd,
         p.out # <<>> => Ends(v) \/ v.unit = "name"
  PROVE  /\ frame_update(p, v) \in ParserSet /\ FoundWhole(frame_update(p, v), odd)
         /\ Parsing(frame_update(p, v), v, odd)
         /\ frame_update(p, v).status = "born" =>
              v.unit # "name" /\ frame_update(p, v).out = p.out
<1>1. frame_update(p, v) = frame_setname(p, v)
  BY DEF frame_update
<1>2. PICK r : r = frame_update(p, v)
  OBVIOUS
<1>3. CASE v.unit \in {"name", "hcmd", "bcmd"}
  <2>1. PICK f \in {0} \cup DOMAIN frames : f = IF v.unit = "name" THEN v.frame ELSE 0
    BY <1>3
  <2>2. r = [p EXCEPT !.status = "header", !.frame = f, !.size = 1, !.has = 0, !.len = -1]
    BY <1>1, <1>2, <1>3, <2>1 DEF frame_setname
  <2>3. /\ r \in ParserSet /\ r.status = "header" /\ r.frame = f /\ r.has = 0 /\ r.len = -1
        /\ r.out = p.out
    BY <2>2, SetName
  <2>4. FoundWhole(r, odd)
    BY <2>3 DEF FoundWhole
  <2>5. CASE v.unit = "name"
    <3>1. Inside(r, v)
      BY <2>1, <2>3, <2>5 DEF Inside
    <3> QED BY <1>2, <2>3, <2>4, <3>1 DEF Parsing
  <2>6. CASE v.unit \in {"hcmd", "bcmd"}
    <3>1. Astray(r, v) /\ odd
      BY <2>1, <2>3, <2>6 DEF Astray
    <3> QED BY <1>2, <2>3, <2>4, <3>1 DEF Parsing
  <2> QED BY <1>3, <2>5, <2>6
<1>4. CASE v.unit \notin {"name", "hcmd", "bcmd"}
  <2>1. r = p
    BY <1>1, <1>2, <1>4 DEF frame_setname
  <2>2. p.out # <<>> => Rest(v)
    BY <1>4 DEF Rest, Ends
  <2> QED BY <1>2, <1>4, <2>1, <2>2 DEF Parsing
<1> QED BY <1>3, <1>4

(* A unit is read inside of the frame that the parser is in. *)
LEMMA InsideStep ==
  ASSUME frames \in Seq(Kinds), NEW p \in ParserSet, NEW odd, FoundWhole(p, odd),
         NEW u \in FileUnit, NEW v \in FileUnit, p.status # "born", Inside(p, u), Follows(u, v)
  PROVE  /\ frame_update(p, v) \in ParserSet /\ FoundWhole(frame_update(p, v), odd)
         /\ frame_update(p, v).status # "born" => Inside(frame_update(p, v), v)
         /\ frame_update(p, v).status = "born" => frame_update(p, v).out # <<>> /\ Rest(v)
<1>0. p.status \in {"header", "body"} /\ p.has \in Nat /\ p.len \in {-1, 0, 1}
  BY ParserFields
<1>1. \A i \in DOMAIN frames : frames[i] \in {"body", "empty", "reply", "quoting"}
  <2>1. \A i \in DOMAIN frames : frames[i] \in Kinds
    OBVIOUS
  <2> QED BY <2>1, PersistenceAssumption
<1>2. p.frame = u.frame /\ p.frame \in DOMAIN frames /\ v.frame = p.frame
  BY DEF Inside, Follows
<1>3. PICK f \in {0} \cup DOMAIN frames : f = p.frame
  BY <1>2
<1>4. Common(p, v) = f
  BY <1>2, <1>3 DEF Common
<1>5. NextUnit(frames[p.frame], u.unit, v.unit)
  BY <1>2 DEF Follows
<1>6. frames[p.frame] \in {"body", "empty", "reply", "quoting"}
  BY <1>1, <1>2
<1>7. PICK r : r = frame_update(p, v)
  OBVIOUS
<1>8. CASE p.status = "header"
  <2>1. r = ParseHeader(p, v)
    BY <1>7, <1>8 DEF frame_update
  <2>2. p.has = 0 /\ u.unit \in {"name", "hcmd", "header", "id"}
    BY <1>8 DEF Inside
  <2>3. v.unit \in {"hcmd", "header", "id", "nl"}
    BY <1>5, <2>2 DEF NextUnit
  <2>4. contentlen(frames[p.frame]) \in {0, 1}
    BY DEF contentlen
  <2>5. CASE v.unit # "nl"
    <3>1. PICK l \in {-1, 0, 1} : l = IF v.unit = "header" THEN contentlen(frames[v.frame]) ELSE p.len
      BY <1>0, <1>2, <2>4
    <3>2. r = Grown(p, f, l)
      BY <1>4, <2>1, <2>5, <3>1 DEF ParseHeader, Grown
    <3>3. /\ r \in ParserSet /\ r.status = "header" /\ r.frame = f /\ r.has = p.has /\ r.len = l
          /\ r.out = p.out
      BY <1>8, <3>2, AddUnit
    <3>4. FoundWhole(r, odd)
      BY <3>3 DEF FoundWhole
    <3>5. v.unit \in {"header", "id"} => l = contentlen(frames[p.frame])
      <4>1. CASE v.unit = "header"
        BY <1>2, <3>1, <4>1
      <4>2. CASE v.unit = "id"
        <5>1. u.unit = "header"
          BY <1>5, <4>2 DEF NextUnit
        <5> QED BY <1>8, <3>1, <4>2, <5>1 DEF Inside
      <4> QED BY <4>1, <4>2
    <3>6. Inside(r, v)
      BY <1>2, <1>3, <2>2, <2>3, <2>5, <3>3, <3>5 DEF Inside
    <3> QED BY <1>7, <3>3, <3>4, <3>6
  <2>6. CASE v.unit = "nl"
    <3>1. p.len = contentlen(frames[p.frame])
      <4>1. u.unit \in {"header", "id"}
        BY <1>5, <2>2, <2>6 DEF NextUnit
      <4> QED BY <1>8, <4>1 DEF Inside
    <3>2. CASE p.len = 0
      <4>1. r = frame_finish(p)
        BY <2>1, <2>6, <3>2 DEF ParseHeader
      <4>2. p.has = contentlen(frames[p.frame])
        BY <2>2, <3>1, <3>2
      <4>3. r \in ParserSet /\ r.status = "born" /\ r.out # <<>> /\ FoundWhole(r, odd)
        BY <1>2, <4>1, <4>2, Finished
      <4>4. frames[p.frame] = "empty"
        BY <3>1, <3>2 DEF contentlen
      <4>5. Rest(v)
        BY <1>2, <2>6, <4>4 DEF Rest
      <4> QED BY <1>7, <4>3, <4>5
    <3>3. CASE p.len = 1
      <4>1. r = [p EXCEPT !.status = "body", !.size = @ + 1]
        BY <2>1, <2>6, <3>3 DEF ParseHeader
      <4>2. /\ r \in ParserSet /\ r.status = "body" /\ r.frame = p.frame /\ r.has = p.has
            /\ r.len = p.len /\ r.out = p.out
        BY <4>1, BodyBegins
      <4>3. FoundWhole(r, odd)
        BY <4>2 DEF FoundWhole
      <4>4. Inside(r, v)
        BY <1>2, <2>2, <2>6, <3>1, <3>3, <4>2 DEF Inside
      <4> QED BY <1>7, <4>2, <4>3, <4>4
    <3> QED BY <2>4, <3>1, <3>2, <3>3
  <2> QED BY <2>5, <2>6
<1>9. CASE p.status = "body"
  <2>1. r = ParseBody(p, v)
    BY <1>7, <1>9 DEF frame_update
  <2>2. /\ contentlen(frames[p.frame]) = 1 /\ p.len = 1 /\ u.unit \in {"nl", "body", "bcmd"}
        /\ u.unit \in {"body", "bcmd"} => p.has >= 1
        /\ frames[p.frame] # "reply" => p.has = IF u.unit = "nl" THEN 0 ELSE 1
    BY <1>9 DEF Inside
  <2>3. frames[p.frame] \in {"body", "reply", "quoting"}
    BY <1>6, <2>2 DEF contentlen
  <2>4. CASE v.unit # "nul"
    <3>1. r = LongerBody(p, f)
      BY <1>4, <2>1, <2>4 DEF ParseBody, LongerBody
    <3>2. /\ r \in ParserSet /\ r.status = "body" /\ r.frame = f /\ r.has = p.has + 1
          /\ r.len = p.len /\ r.out = p.out
      BY <1>9, <3>1, BodyGrows
    <3>3. FoundWhole(r, odd)
      BY <3>2 DEF FoundWhole
    <3>4. /\ u.unit = "nl" /\ v.unit \in {"nl", "body", "bcmd"}
          /\ frames[p.frame] # "reply" => v.unit \in {"body", "bcmd"}
      BY <1>5, <2>2, <2>3, <2>4 DEF NextUnit
    <3>5. r.has >= 1 /\ (frames[r.frame] # "reply" => r.has = 1)
      BY <1>0, <1>3, <2>2, <3>2, <3>4
    <3>6. Inside(r, v)
      BY <1>2, <1>3, <2>2, <3>2, <3>4, <3>5 DEF Inside
    <3> QED BY <1>7, <3>2, <3>3, <3>6
  <2>5. CASE v.unit = "nul"
    <3>1. u.unit \in {"body", "bcmd"}
      BY <1>5, <2>2, <2>3, <2>5 DEF NextUnit
    <3>2. p.has >= p.len /\ (frames[p.frame] = "reply" \/ p.has = contentlen(frames[p.frame]))
      BY <1>0, <2>2, <3>1
    <3>3. r = frame_finish(p)
      BY <2>1, <2>5, <3>2 DEF ParseBody
    <3>4. r \in ParserSet /\ r.status = "born" /\ r.out # <<>> /\ FoundWhole(r, odd)
      BY <1>2, <3>2, <3>3, Finished
    <3>5. Rest(v)
      BY <2>5 DEF Rest, Ends
    <3> QED BY <1>7, <3>4, <3>5
  <2> QED BY <2>4, <2>5
<1> QED BY <1>0, <1>8, <1>9

(* A unit is read by the parser that has taken another line for a name.    *)
LEMMA AstrayStep ==
  ASSUME frames \in Seq(Kinds), NEW p \in ParserSet, NEW odd, FoundWhole(p, odd), odd,
         NEW u \in FileUnit, NEW v \in FileUnit, p.status # "born", Astray(p, u),
         v.unit # "junk" => v.frame \in DOMAIN frames,
         IF Ends(u) THEN Starts(v) ELSE Follows(u, v)
  PROVE  /\ frame_update(p, v) \in ParserSet /\ FoundWhole(frame_update(p, v), odd)
         /\ frame_update(p, v).status # "born" => Astray(frame_update(p, v), v)
         /\ frame_update(p, v).status = "born" => frame_update(p, v).out # <<>> /\ Rest(v)
<1>0. p.status \in {"header", "body"} /\ p.has \in Nat /\ p.len \in {-1, 0, 1}
  BY ParserFields
<1>1. p.frame = 0 /\ p.out = <<>>
  BY DEF Astray
<1>2. Common(p, v) = 0
  BY <1>1 DEF Common
<1>3. \A k : contentlen(k) \in {0, 1}
  BY DEF contentlen
<1>4. ~Ends(u) => v.frame = u.frame /\ NextUnit(frames[u.frame], u.unit, v.unit)
  BY DEF Follows
<1>5. PICK r : r = frame_update(p, v)
  OBVIOUS
<1>6. CASE p.status = "header"
  <2>1. r = ParseHeader(p, v)
    BY <1>5, <1>6 DEF frame_update
  <2>2. CASE v.unit # "nl"
    <3>1. PICK l \in {-1, 0, 1} : l = IF v.unit = "header" THEN contentlen(frames[v.frame]) ELSE p.len
      BY <1>0, <1>3
    <3>2. r = Grown(p, 0, l)
      BY <1>2, <2>1, <2>2, <3>1 DEF ParseHeader, Grown
    <3>3. /\ r \in ParserSet /\ r.status = "header" /\ r.frame = 0 /\ r.has = p.has /\ r.len = l
          /\ r.out = p.out
      BY <1>6, <3>2, AddUnit
    <3>4. FoundWhole(r, odd)
      BY <3>3 DEF FoundWhole
    <3>5. \/ l = -1 /\ v.unit \in {"hcmd", "bcmd", "nul", "name", "junk"}
          \/ /\ v.frame \in DOMAIN frames /\ l = contentlen(frames[v.frame])
             /\ v.unit \in {"header", "id"}
      <4>1. CASE v.unit = "header"
        BY <3>1, <4>1
      <4>2. CASE v.unit = "id"
        <5>1. u.unit = "header" /\ v.frame = u.frame
          BY <1>4, <4>2 DEF NextUnit, Ends, Starts
        <5>2. p.len = contentlen(frames[u.frame])
          BY <1>6, <5>1 DEF Astray
        <5> QED BY <3>1, <4>2, <5>1, <5>2
      <4>3. CASE v.unit \notin {"header", "id"}
        <5>1. p.len = -1
          <6>1. CASE u.unit \in {"header", "id"}
            BY <1>4, <2>2, <4>3, <6>1 DEF NextUnit, Ends
          <6>2. CASE u.unit \notin {"header", "id"}
            BY <1>6, <6>2 DEF Astray
          <6> QED BY <6>1, <6>2
        <5>2. u.unit \in {"hcmd", "bcmd", "nul", "name", "junk"}
          <6>1. u.unit \notin {"header", "id"}
            BY <1>4, <2>2, <4>3 DEF NextUnit, Ends
          <6> QED BY <1>6, <6>1 DEF Astray
        <5>3. v.unit \in {"hcmd", "bcmd", "nul", "name", "junk"}
          <6>1. CASE Ends(u)
            BY <6>1 DEF Starts
          <6>2. CASE ~Ends(u)
            BY <1>4, <4>3, <5>2, <6>2 DEF NextUnit, Ends
          <6> QED BY <6>1, <6>2
        <5> QED BY <3>1, <4>3, <5>1, <5>3
      <4> QED BY <4>1, <4>2, <4>3
    <3>6. Astray(r, v)
      BY <1>1, <3>3, <3>5 DEF Astray
    <3> QED BY <1>5, <3>3, <3>4, <3>6
  <2>3. CASE v.unit = "nl"
    <3>1. ~Ends(u) /\ u.unit \in {"header", "id"}
      <4>1. ~Ends(u)
        BY <2>3 DEF Starts
      <4>2. u.unit \in {"header", "id", "nl"}
        BY <1>4, <2>3, <4>1 DEF NextUnit
      <4> QED BY <1>6, <4>1, <4>2 DEF Astray
    <3>2. /\ p.len = contentlen(frames[u.frame]) /\ v.frame = u.frame
          /\ u.frame \in DOMAIN frames
      BY <1>4, <1>6, <3>1 DEF Astray
    <3>3. CASE p.len = 0
      <4>1. r = frame_finish(p)
        BY <2>1, <2>3, <3>3 DEF ParseHeader
      <4>2. r \in ParserSet /\ r.status = "born" /\ r.out # <<>> /\ FoundWhole(r, odd)
        BY <1>1, <4>1, Finished
      <4>3. frames[u.frame] = "empty"
        BY <3>2, <3>3 DEF contentlen
      <4>4. Rest(v)
        BY <2>3, <3>2, <4>3 DEF Rest
      <4> QED BY <1>5, <4>2, <4>4
    <3>4. CASE p.len = 1
      <4>1. r = [p EXCEPT !.status = "body", !.size = @ + 1]
        BY <2>1, <2>3, <3>4 DEF ParseHeader
      <4>2. /\ r \in ParserSet /\ r.status = "body" /\ r.frame = p.frame /\ r.has = p.has
            /\ r.len = p.len /\ r.out = p.out
        BY <4>1, BodyBegins
      <4>3. FoundWhole(r, odd)
        BY <4>2 DEF FoundWhole
      <4>4. Astray(r, v)
        BY <1>1, <2>3, <3>2, <3>4, <4>2 DEF Astray
      <4> QED BY <1>5, <4>2, <4>3, <4>4
    <3> QED BY <1>3, <3>2, <3>3, <3>4
  <2> QED BY <2>2, <2>3
<1>7. CASE p.status = "body"
  <2>1. r = ParseBody(p, v)
    BY <1>5, <1>7 DEF frame_update
  <2>2. /\ u.frame \in DOMAIN frames /\ contentlen(frames[u.frame]) = 1 /\ p.len = 1
        /\ u.unit \in {"nl", "body", "bcmd"} /\ (u.unit \in {"body", "bcmd"} => p.has >= 1)
    BY <1>7 DEF Astray
  <2>3. frames[u.frame] \in {"body", "reply", "quoting"}
    <3>1. frames[u.frame] \in {"body", "empty", "reply", "quoting"}
      <4>1. frames[u.frame] \in Kinds
        BY <2>2
      <4> QED BY <4>1, PersistenceAssumption
    <3> QED BY <2>2, <3>1 DEF contentlen
  <2>4. v.frame = u.frame /\ NextUnit(frames[u.frame], u.unit, v.unit)
    BY <1>4, <2>2 DEF Ends
  <2>5. CASE v.unit # "nul"
    <3>1. r = LongerBody(p, 0)
      BY <1>2, <2>1, <2>5 DEF ParseBody, LongerBody
    <3>2. /\ r \in ParserSet /\ r.status = "body" /\ r.frame = 0 /\ r.has = p.has + 1
          /\ r.len = p.len /\ r.out = p.out
      BY <1>7, <3>1, BodyGrows
    <3>3. FoundWhole(r, odd)
      BY <3>2 DEF FoundWhole
    <3>4. v.unit \in {"nl", "body", "bcmd"}
      BY <2>2, <2>3, <2>4, <2>5 DEF NextUnit
    <3>5. r.has >= 1
      BY <1>0, <3>2
    <3>6. Astray(r, v)
      BY <1>1, <2>2, <2>4, <3>2, <3>4, <3>5 DEF Astray
    <3> QED BY <1>5, <3>2, <3>3, <3>6
  <2>6. CASE v.unit = "nul"
    <3>1. u.unit \in {"body", "bcmd"}
      BY <2>2, <2>3, <2>4, <2>6 DEF NextUnit
    <3>2. p.has >= p.len
      BY <1>0, <2>2, <3>1
    <3>3. r = frame_finish(p)
      BY <2>1, <2>6, <3>2 DEF ParseBody
    <3>4. r \in ParserSet /\ r.status = "born" /\ r.out # <<>> /\ FoundWhole(r, odd)
      BY <1>1, <3>3, Finished
    <3>5. Rest(v)
      BY <2>6 DEF Rest, Ends
    <3> QED BY <1>5, <3>4, <3>5
  <2> QED BY <2>5, <2>6
<1> QED BY <1>0, <1>6, <1>7

(* A line that is not a name comes before the first name. *)
Decoy(input) ==
  \E n \in DOMAIN input :
    input[n].unit \in {"hcmd", "bcmd"} /\ \A m \in 1 .. n : input[m].unit # "name"

(* Wherever the parser begins in the file, it finds whole frames, but for  *)
(* the first if there is such a line.                                      *)
LEMMA ParserFinds ==
  ASSUME frames \in Seq(Kinds), NEW input \in Seq(FileUnit), KnownIn(input), ChainedIn(input),
         PartedIn(input)
  PROVE  /\ parse_frame(input) \in Seq(FoundSet)
         /\ \A k \in DOMAIN parse_frame(input) :
              Whole(parse_frame(input)[k]) \/ (k = 1 /\ Decoy(input))
<1> DEFINE st == Parsed(input)
           L == Len(input)
           odd == Decoy(input)
           Good(n) == /\ st[n] \in ParserSet /\ FoundWhole(st[n], odd)
                      /\ IF n = 0 THEN st[n].status = "born" /\ st[n].out = <<>>
                                  ELSE Parsing(st[n], input[n], odd)
                      /\ st[n].status = "born" /\ st[n].out = <<>> =>
                           \A m \in 1 .. n : input[m].unit # "name"
           Bad == {n \in 0 .. L : ~Good(n)}
<1>1. L \in Nat /\ DOMAIN input = 1 .. L /\ \A n \in 1 .. L : input[n] \in FileUnit
  OBVIOUS
<1>2. st[0] = Born(<<>>) /\ \A n \in 1 .. L : st[n] = frame_update(st[n - 1], input[n])
  BY <1>1, ParsedIs
<1> HIDE DEF st, L, odd
<1>3. Good(0)
  <2>1. <<>> \in Seq(FoundSet) /\ DOMAIN <<>> = {}
    OBVIOUS
  <2>2. Born(<<>>) \in ParserSet /\ Born(<<>>).status = "born" /\ Born(<<>>).out = <<>>
    BY <2>1, BornIs
  <2>3. 1 .. 0 = {}
    OBVIOUS
  <2> QED BY <1>2, <2>1, <2>2, <2>3 DEF FoundWhole
<1>4. ASSUME NEW n \in 1 .. L, Good(n - 1) PROVE Good(n)
  <2>1. PICK p : p = st[n - 1]
    OBVIOUS
  <2>2. p \in ParserSet /\ FoundWhole(p, odd)
    BY <1>4, <2>1
  <2>3. PICK v \in FileUnit : v = input[n]
    BY <1>1
  <2>4. v.unit # "junk" => v.frame \in DOMAIN frames
    BY <1>1, <2>3 DEF KnownIn
  <2>5. st[n] = frame_update(p, v)
    BY <1>2, <2>1, <2>3
  <2>6. n # 0 /\ n \in Nat /\ \A m \in 1 .. n : m = n \/ m \in 1 .. n - 1
    BY <1>1
  <2>7. ASSUME n # 1
        PROVE  /\ n - 1 \in 1 .. L /\ n - 1 # L /\ (n - 1) + 1 = n /\ n - 1 # 0
               /\ input[n - 1] \in FileUnit
               /\ IF Ends(input[n - 1]) THEN Starts(v) ELSE Follows(input[n - 1], v)
    <3>1. n - 1 \in 1 .. L /\ n - 1 # L /\ (n - 1) + 1 = n /\ n - 1 # 0
      BY <1>1, <2>7
    <3>2. IF Ends(input[n - 1]) THEN Starts(v) ELSE Follows(input[n - 1], v)
      BY <1>1, <2>3, <3>1 DEF ChainedIn, PartedIn, L
    <3> QED BY <1>1, <3>1, <3>2
  <2>8. CASE p.status = "born"
    <3>1. p.out = <<>> => \A m \in 1 .. n - 1 : input[m].unit # "name"
      BY <1>4, <2>1, <2>8
    <3>2. p.out # <<>> => Ends(v) \/ v.unit = "name"
      <4> SUFFICES ASSUME p.out # <<>> PROVE Ends(v) \/ v.unit = "name"
        OBVIOUS
      <4>1. n # 1
        <5> SUFFICES ASSUME n = 1 PROVE FALSE
          OBVIOUS
        <5>1. n - 1 = 0
          OBVIOUS
        <5> QED BY <1>4, <2>1, <5>1
      <4>2. n - 1 # 0
        BY <2>7, <4>1
      <4>3. Rest(input[n - 1])
        BY <1>4, <2>1, <2>8, <4>2 DEF Parsing
      <4>4. CASE Ends(input[n - 1])
        BY <2>7, <4>1, <4>4 DEF Starts, Ends
      <4>5. CASE ~Ends(input[n - 1])
        <5>1. Follows(input[n - 1], v)
          BY <2>7, <4>1, <4>5
        <5>2. input[n - 1].unit = "nl" /\ frames[input[n - 1].frame] = "empty"
          BY <4>3, <4>5 DEF Rest
        <5> QED BY <5>1, <5>2 DEF Follows, NextUnit, Ends
      <4> QED BY <4>4, <4>5
    <3>3. v.unit \in {"hcmd", "bcmd"} => p.out = <<>> /\ odd
      <4> SUFFICES ASSUME v.unit \in {"hcmd", "bcmd"} PROVE p.out = <<>> /\ odd
        OBVIOUS
      <4>1. p.out = <<>>
        BY <3>2 DEF Ends
      <4>2. \A m \in 1 .. n : input[m].unit # "name"
        BY <2>3, <2>6, <3>1, <4>1
      <4> QED BY <1>1, <2>3, <4>1, <4>2 DEF odd, Decoy
    <3>4. /\ st[n] \in ParserSet /\ FoundWhole(st[n], odd) /\ Parsing(st[n], v, odd)
          /\ st[n].status = "born" => v.unit # "name" /\ st[n].out = p.out
      BY <2>2, <2>4, <2>5, <2>8, <3>2, <3>3, BornStep
    <3>5. st[n].status = "born" /\ st[n].out = <<>> => \A m \in 1 .. n : input[m].unit # "name"
      BY <2>3, <2>6, <3>1, <3>4
    <3> QED BY <2>3, <2>6, <3>4, <3>5
  <2>9. CASE p.status # "born"
    <3>1. n # 1
      <4> SUFFICES ASSUME n = 1 PROVE FALSE
        OBVIOUS
      <4>1. n - 1 = 0
        OBVIOUS
      <4> QED BY <1>4, <2>1, <2>9, <4>1
    <3>2. PICK u \in FileUnit : u = input[n - 1]
      BY <2>7, <3>1
    <3>3. IF Ends(u) THEN Starts(v) ELSE Follows(u, v)
      BY <2>7, <3>1, <3>2
    <3>4. Inside(p, u) \/ (Astray(p, u) /\ odd)
      BY <1>4, <2>1, <2>7, <2>9, <3>1, <3>2 DEF Parsing
    <3>5. CASE Inside(p, u)
      <4>1. u.unit \in {"name", "hcmd", "header", "id", "nl", "body", "bcmd"}
        BY <2>2, <2>9, <3>5, ParserFields DEF Inside
      <4>2. Follows(u, v)
        BY <3>3, <4>1 DEF Ends
      <4>3. /\ st[n] \in ParserSet /\ FoundWhole(st[n], odd)
            /\ st[n].status # "born" => Inside(st[n], v)
            /\ st[n].status = "born" => st[n].out # <<>> /\ Rest(v)
        BY <2>2, <2>5, <2>9, <3>5, <4>2, InsideStep
      <4> QED BY <2>3, <2>6, <4>3 DEF Parsing
    <3>6. CASE Astray(p, u) /\ odd
      <4>1. /\ st[n] \in ParserSet /\ FoundWhole(st[n], odd)
            /\ st[n].status # "born" => Astray(st[n], v)
            /\ st[n].status = "born" => st[n].out # <<>> /\ Rest(v)
        BY <2>2, <2>4, <2>5, <2>9, <3>3, <3>6, AstrayStep
      <4> QED BY <2>3, <2>6, <3>6, <4>1 DEF Parsing
    <3> QED BY <3>4, <3>5, <3>6
  <2> QED BY <2>8, <2>9
<1>5. Good(L)
  <2>1. CASE Bad = {}
    <3>1. L \in 0 .. L
      BY <1>1
    <3> QED BY <2>1, <3>1
  <2>2. CASE Bad # {}
    <3>1. Bad \in SUBSET Nat
      OBVIOUS
    <3>2. PICK k \in Bad : \A j \in Bad : k <= j
      <4> HIDE DEF Bad
      <4> QED BY <2>2, <3>1, Least
    <3>3. k \in 0 .. L /\ ~Good(k)
      OBVIOUS
    <3> HIDE DEF Good
    <3>4. k \in 1 .. L /\ k - 1 \in 0 .. L /\ ~(k <= k - 1)
      BY <1>1, <1>3, <3>3
    <3>5. Good(k - 1)
      BY <3>2, <3>4
    <3> QED BY <1>4, <3>3, <3>4, <3>5
  <2> QED BY <2>1, <2>2
<1>6. parse_frame(input) = st[L].out
  BY DEF parse_frame, st, L
<1>7. st[L] \in ParserSet /\ FoundWhole(st[L], odd)
  BY <1>5
<1> QED BY <1>6, <1>7, ParserFields DEF FoundWhole, odd

(* The rest of a file from somewhere. *)
LEMMA RestOfFile ==
  ASSUME NEW file \in Seq(FileUnit), KnownIn(file), ChainedIn(file), PartedIn(file), NEW from \in Nat
  PROVE  /\ SubSeq(file, from + 1, Len(file)) \in Seq(FileUnit)
         /\ KnownIn(SubSeq(file, from + 1, Len(file)))
         /\ ChainedIn(SubSeq(file, from + 1, Len(file)))
         /\ PartedIn(SubSeq(file, from + 1, Len(file)))
<1>1. PICK r : r = SubSeq(file, from + 1, Len(file))
  OBVIOUS
<1>2. Len(file) \in Nat /\ DOMAIN file = 1 .. Len(file)
  OBVIOUS
<1>3. CASE from < Len(file)
  <2>1. /\ r \in Seq(FileUnit) /\ Len(r) = Len(file) - from /\ DOMAIN r = 1 .. Len(r)
        /\ \A n \in 1 .. Len(r) : r[n] = file[from + n]
    BY <1>1, <1>3, SuffixIs
  <2>2. \A n \in 1 .. Len(r) : from + n \in DOMAIN file
    BY <1>2, <2>1
  <2>3. KnownIn(r)
    BY <2>1, <2>2 DEF KnownIn
  <2>4. ASSUME NEW n \in 1 .. Len(r), n # Len(r)
        PROVE  /\ r[n] = file[from + n] /\ r[n + 1] = file[(from + n) + 1]
               /\ from + n \in DOMAIN file /\ from + n # Len(file)
    <3>1. n + 1 \in 1 .. Len(r) /\ from + (n + 1) = (from + n) + 1 /\ from + n # Len(file)
      <4>1. PICK l \in Nat : l = Len(file)
        BY <1>2
      <4>2. PICK k \in Nat : k = Len(r)
        BY <2>1, LenProperties
      <4>3. k = l - from /\ n \in 1 .. k /\ n # k
        BY <2>1, <2>4, <4>1, <4>2
      <4>4. n + 1 \in 1 .. k /\ from + (n + 1) = (from + n) + 1 /\ from + n # l
        BY <4>3
      <4> QED BY <4>1, <4>2, <4>4
    <3> QED BY <2>1, <2>2, <3>1
  <2>5. ChainedIn(r)
    <3> SUFFICES ASSUME NEW n \in 1 .. Len(r), n # Len(r), ~Ends(r[n])
                 PROVE  Follows(r[n], r[n + 1])
      BY <2>1 DEF ChainedIn
    <3> QED BY <2>4 DEF ChainedIn
  <2>6. PartedIn(r)
    <3> SUFFICES ASSUME NEW n \in 1 .. Len(r), n # Len(r), Ends(r[n])
                 PROVE  Starts(r[n + 1])
      BY <2>1 DEF PartedIn
    <3> QED BY <2>4 DEF PartedIn
  <2> QED BY <1>1, <2>1, <2>3, <2>5, <2>6
<1>4. CASE ~(from < Len(file))
  <2>1. r = <<>>
    BY <1>1, <1>2, <1>4
  <2>2. r \in Seq(FileUnit) /\ DOMAIN r = {}
    BY <2>1
  <2> QED BY <1>1, <2>2 DEF KnownIn, ChainedIn, PartedIn
<1> QED BY <1>3, <1>4

(* A decoy in the rest of the file misleads unpersist(). *)
LEMMA DecoyMisleads ==
  ASSUME NEW from \in Nat, data \in Seq(FileUnit), Decoy(SubSeq(data, from + 1, Len(data)))
  PROVE  Misread(from)
<1>1. PICK r : r = SubSeq(data, from + 1, Len(data))
  OBVIOUS
<1>2. Len(data) \in Nat
  OBVIOUS
<1>3. PICK n \in DOMAIN r :
        r[n].unit \in {"hcmd", "bcmd"} /\ \A m \in 1 .. n : r[m].unit # "name"
  BY <1>1 DEF Decoy
<1>4. from < Len(data)
  <2> SUFFICES ASSUME ~(from < Len(data)) PROVE FALSE
    OBVIOUS
  <2>1. r = <<>>
    BY <1>1, <1>2
  <2> QED BY <1>3, <2>1
<1>5. /\ Len(r) = Len(data) - from /\ DOMAIN r = 1 .. Len(r)
      /\ \A k \in 1 .. Len(r) : r[k] = data[from + k]
  BY <1>1, <1>4, SuffixIs
<1>6. PICK l \in Nat : l = Len(data)
  BY <1>2
<1>7. n \in 1 .. l - from /\ \A k \in 1 .. l - from : r[k] = data[from + k]
  BY <1>3, <1>5, <1>6
<1>8. PICK q \in Nat : q = from + n
  BY <1>7
<1>9. q \in from + 1 .. l /\ data[q].unit \in {"hcmd", "bcmd"}
  BY <1>3, <1>7, <1>8
<1>10. \A m \in from + 1 .. q : data[m].unit # "name"
  <2> SUFFICES ASSUME NEW m \in from + 1 .. q PROVE data[m].unit # "name"
    OBVIOUS
  <2>1. PICK k \in Nat : k = m - from
    OBVIOUS
  <2>2. k \in 1 .. n /\ k \in 1 .. l - from /\ from + k = m
    BY <1>7, <1>8, <2>1
  <2> QED BY <1>3, <1>7, <2>2
<1> QED BY <1>6, <1>9, <1>10 DEF Misread

(* What is restored. *)
LEMMA UnpersistFinds ==
  ASSUME TypeOK, FileInv, NEW from \in Nat
  PROVE  /\ unpersist_queue_context(from) \in Seq(FoundSet)
         /\ \A k \in DOMAIN unpersist_queue_context(from) :
              Whole(unpersist_queue_context(from)[k]) \/ (k = 1 /\ Misread(from))
<1>1. data \in Seq(FileUnit) /\ frames \in Seq(Kinds)
  BY DEF TypeOK
<1>2. PICK r : r = SubSeq(data, from + 1, Len(data))
  OBVIOUS
<1>3. r \in Seq(FileUnit) /\ KnownIn(r) /\ ChainedIn(r) /\ PartedIn(r)
  BY <1>1, <1>2, RestOfFile DEF FileInv, WholeFile
<1>4. unpersist_queue_context(from) = parse_frame(r)
  BY <1>2 DEF unpersist_queue_context
<1>5. Decoy(r) => Misread(from)
  BY <1>1, <1>2, DecoyMisleads
<1>6. /\ parse_frame(r) \in Seq(FoundSet)
      /\ \A k \in DOMAIN parse_frame(r) : Whole(parse_frame(r)[k]) \/ (k = 1 /\ Decoy(r))
  BY <1>1, <1>3, ParserFinds
<1> QED BY <1>4, <1>5, <1>6

(* What persist_queue_context() writes of a frame. *)
LEMMA UnitsAre ==
  ASSUME NEW k \in {"body", "empty", "reply", "quoting"}
  PROVE  /\ Len(Units(k)) \in Nat \ {0} /\ DOMAIN Units(k) = 1 .. Len(Units(k))
         /\ \A n \in DOMAIN Units(k) :
              /\ Units(k)[n] \in Names
              /\ Units(k)[n] = "name" <=> n = 1
              /\ n = Len(Units(k)) <=> Units(k)[n] = "nul"
              /\ n # Len(Units(k)) => NextUnit(k, Units(k)[n], Units(k)[n + 1])
<1>1. CASE k = "body"
  <2>1. Units(k) = <<"name", "header", "nl", "body", "nul">>
    BY <1>1 DEF Units
  <2>2. DOMAIN Units(k) = {1, 2, 3, 4, 5} /\ Len(Units(k)) = 5 /\ 1 .. 5 = {1, 2, 3, 4, 5}
    BY <2>1
  <2>3. /\ Units(k)[1] = "name" /\ Units(k)[2] = "header" /\ Units(k)[3] = "nl"
        /\ Units(k)[4] = "body" /\ Units(k)[5] = "nul"
    BY <2>1
  <2>4. \A n \in {1, 2, 3, 4, 5} : Units(k)[n] \in Names
    BY <2>3 DEF Names
  <2>5. \A n \in {1, 2, 3, 4, 5} : Units(k)[n] = "name" <=> n = 1
    BY <2>3
  <2>6. \A n \in {1, 2, 3, 4} : NextUnit(k, Units(k)[n], Units(k)[n + 1])
    BY <1>1, <2>3 DEF NextUnit
  <2>7. \A n \in {1, 2, 3, 4} : Units(k)[n] # "nul"
    BY <2>3
  <2> QED BY <2>2, <2>3, <2>4, <2>5, <2>6, <2>7
<1>2. CASE k = "empty"
  <2>1. Units(k) = <<"name", "header", "nl", "nul">>
    BY <1>2 DEF Units
  <2>2. DOMAIN Units(k) = {1, 2, 3, 4} /\ Len(Units(k)) = 4 /\ 1 .. 4 = {1, 2, 3, 4}
    BY <2>1
  <2>3. /\ Units(k)[1] = "name" /\ Units(k)[2] = "header" /\ Units(k)[3] = "nl"
        /\ Units(k)[4] = "nul"
    BY <2>1
  <2>4. \A n \in {1, 2, 3, 4} : Units(k)[n] \in Names
    BY <2>3 DEF Names
  <2>5. \A n \in {1, 2, 3, 4} : Units(k)[n] = "name" <=> n = 1
    BY <2>3
  <2>6. \A n \in {1, 2, 3} : NextUnit(k, Units(k)[n], Units(k)[n + 1])
    BY <1>2, <2>3 DEF NextUnit
  <2>7. \A n \in {1, 2, 3} : Units(k)[n] # "nul"
    BY <2>3
  <2> QED BY <2>2, <2>3, <2>4, <2>5, <2>6, <2>7
<1>3. CASE k = "reply"
  <2>1. Units(k) = <<"name", "header", "id", "nl", "nl", "body", "nul">>
    BY <1>3 DEF Units
  <2>2. DOMAIN Units(k) = {1, 2, 3, 4, 5, 6, 7} /\ Len(Units(k)) = 7 /\ 1 .. 7 = {1, 2, 3, 4, 5, 6, 7}
    BY <2>1
  <2>3. /\ Units(k)[1] = "name" /\ Units(k)[2] = "header" /\ Units(k)[3] = "id"
        /\ Units(k)[4] = "nl" /\ Units(k)[5] = "nl" /\ Units(k)[6] = "body" /\ Units(k)[7] = "nul"
    BY <2>1
  <2>4. \A n \in {1, 2, 3, 4, 5, 6, 7} : Units(k)[n] \in Names
    BY <2>3 DEF Names
  <2>5. \A n \in {1, 2, 3, 4, 5, 6, 7} : Units(k)[n] = "name" <=> n = 1
    BY <2>3
  <2>6. \A n \in {1, 2, 3, 4, 5, 6} : NextUnit(k, Units(k)[n], Units(k)[n + 1])
    BY <1>3, <2>3 DEF NextUnit
  <2>7. \A n \in {1, 2, 3, 4, 5, 6} : Units(k)[n] # "nul"
    BY <2>3
  <2> QED BY <2>2, <2>3, <2>4, <2>5, <2>6, <2>7
<1>4. CASE k = "quoting"
  <2>1. Units(k) = <<"name", "hcmd", "header", "nl", "bcmd", "nul">>
    BY <1>4 DEF Units
  <2>2. DOMAIN Units(k) = {1, 2, 3, 4, 5, 6} /\ Len(Units(k)) = 6 /\ 1 .. 6 = {1, 2, 3, 4, 5, 6}
    BY <2>1
  <2>3. /\ Units(k)[1] = "name" /\ Units(k)[2] = "hcmd" /\ Units(k)[3] = "header"
        /\ Units(k)[4] = "nl" /\ Units(k)[5] = "bcmd" /\ Units(k)[6] = "nul"
    BY <2>1
  <2>4. \A n \in {1, 2, 3, 4, 5, 6} : Units(k)[n] \in Names
    BY <2>3 DEF Names
  <2>5. \A n \in {1, 2, 3, 4, 5, 6} : Units(k)[n] = "name" <=> n = 1
    BY <2>3
  <2>6. \A n \in {1, 2, 3, 4, 5} : NextUnit(k, Units(k)[n], Units(k)[n + 1])
    BY <1>4, <2>3 DEF NextUnit
  <2>7. \A n \in {1, 2, 3, 4, 5} : Units(k)[n] # "nul"
    BY <2>3
  <2> QED BY <2>2, <2>3, <2>4, <2>5, <2>6, <2>7
<1> QED BY <1>1, <1>2, <1>3, <1>4

LEMMA KindOf ==
  ASSUME frames \in Seq(Kinds), NEW i \in DOMAIN frames
  PROVE  frames[i] \in {"body", "empty", "reply", "quoting"} /\ i \in Nat
<1>1. frames[i] \in Kinds /\ i \in Nat
  OBVIOUS
<1> QED BY <1>1, PersistenceAssumption

LEMMA WrittenIs ==
  ASSUME frames \in Seq(Kinds), NEW i \in DOMAIN frames
  PROVE  /\ Written(i) \in Seq(FileUnit) /\ Len(Written(i)) \in Nat \ {0} /\ WholeFile(Written(i))
         /\ \A n \in DOMAIN Written(i) :
              Written(i)[n].frame = i /\ (Written(i)[n].unit = "name" <=> n = 1)
<1>1. PICK k : k = frames[i]
  OBVIOUS
<1>2. k \in {"body", "empty", "reply", "quoting"} /\ i \in Nat
  BY <1>1, KindOf
<1>3. PICK L : L = Len(Units(k))
  OBVIOUS
<1>4. /\ L \in Nat \ {0} /\ DOMAIN Units(k) = 1 .. L
      /\ \A n \in 1 .. L :
           /\ Units(k)[n] \in Names
           /\ Units(k)[n] = "name" <=> n = 1
           /\ n = L <=> Units(k)[n] = "nul"
           /\ n # L => NextUnit(k, Units(k)[n], Units(k)[n + 1])
  <2>1. /\ Len(Units(k)) \in Nat \ {0} /\ DOMAIN Units(k) = 1 .. Len(Units(k))
        /\ \A n \in DOMAIN Units(k) :
             /\ Units(k)[n] \in Names
             /\ Units(k)[n] = "name" <=> n = 1
             /\ n = Len(Units(k)) <=> Units(k)[n] = "nul"
             /\ n # Len(Units(k)) => NextUnit(k, Units(k)[n], Units(k)[n + 1])
    BY <1>2, UnitsAre
  <2> QED BY <1>3, <2>1
<1>5. PICK w : w = Written(i)
  OBVIOUS
<1>6. w = [n \in 1 .. L |-> [frame |-> i, unit |-> Units(k)[n]]]
  BY <1>1, <1>4, <1>5 DEF Written
<1>7. \A n \in 1 .. L : [frame |-> i, unit |-> Units(k)[n]] \in FileUnit
  BY <1>2, <1>4 DEF FileUnit, Names
<1>8. w \in Seq(FileUnit) /\ Len(w) = L /\ DOMAIN w = 1 .. L
  <2>1. w \in [1 .. L -> FileUnit]
    BY <1>6, <1>7
  <2> QED BY <1>4, <2>1
<1>9. \A n \in 1 .. L : w[n].frame = i /\ w[n].unit = Units(k)[n]
  BY <1>6
<1>10. KnownIn(w)
  BY <1>8, <1>9 DEF KnownIn
<1>11. ChainedIn(w)
  <2> SUFFICES ASSUME NEW n \in 1 .. L, n # L PROVE Follows(w[n], w[n + 1])
    BY <1>8 DEF ChainedIn
  <2>1. n + 1 \in 1 .. L
    BY <1>4
  <2> QED BY <1>1, <1>4, <1>9, <2>1 DEF Follows
<1>12. Ends(w[Len(w)])
  <2>1. L \in 1 .. L
    BY <1>4
  <2> QED BY <1>4, <1>8, <1>9, <2>1 DEF Ends
<1>13. \A n \in 1 .. L : w[n].unit = "name" <=> n = 1
  BY <1>4, <1>9
<1>14. PartedIn(w)
  <2>1. \A n \in 1 .. L : Ends(w[n]) => n = L
    BY <1>4, <1>9 DEF Ends, Names
  <2> QED BY <1>8, <2>1 DEF PartedIn
<1>15. Starts(w[1])
  BY <1>4, <1>13 DEF Starts
<1> QED BY <1>4, <1>5, <1>8, <1>9, <1>10, <1>11, <1>12, <1>13, <1>14, <1>15 DEF WholeFile

(* The file stays whole when a whole piece is appended. *)
LEMMA JoinedFile ==
  ASSUME NEW a \in Seq(FileUnit), NEW b \in Seq(FileUnit), WholeFile(a), WholeFile(b), Len(b) # 0
  PROVE  WholeFile(a \o b)
<1>1. PICK m \in Nat : m = Len(a) /\ DOMAIN a = 1 .. m
  OBVIOUS
<1>2. PICK l \in Nat : l = Len(b) /\ DOMAIN b = 1 .. l
  OBVIOUS
<1>3. PICK c : c = a \o b
  OBVIOUS
<1>4. /\ Len(c) = m + l /\ DOMAIN c = 1 .. m + l
      /\ \A n \in 1 .. m + l : c[n] = IF n <= m THEN a[n] ELSE b[n - m]
  <2>1. c \in Seq(FileUnit) /\ Len(c) = Len(a) + Len(b)
        /\ \A n \in 1 .. Len(a) + Len(b) : c[n] = IF n <= Len(a) THEN a[n] ELSE b[n - Len(a)]
    BY <1>3, ConcatProperties
  <2>2. DOMAIN c = 1 .. Len(c) /\ Len(c) = m + l
    BY <1>1, <1>2, <2>1
  <2>3. \A n \in 1 .. m + l : c[n] = IF n <= m THEN a[n] ELSE b[n - m]
    BY <1>1, <1>2, <2>1, Zenon
  <2> QED BY <2>2, <2>3
<1>5. l # 0
  BY <1>2
<1>6. KnownIn(c)
  <2> SUFFICES ASSUME NEW n \in 1 .. m + l, c[n].unit # "junk" PROVE c[n].frame \in DOMAIN frames
    BY <1>4 DEF KnownIn
  <2>1. CASE n <= m
    BY <1>1, <1>4, <2>1 DEF WholeFile, KnownIn
  <2>2. CASE n > m
    <3>1. n - m \in 1 .. l /\ ~(n <= m)
      BY <2>2
    <3> QED BY <1>2, <1>4, <3>1 DEF WholeFile, KnownIn
  <2> QED BY <2>1, <2>2
<1>7. ChainedIn(c)
  <2> SUFFICES ASSUME NEW n \in 1 .. m + l, n # m + l, ~Ends(c[n]) PROVE Follows(c[n], c[n + 1])
    BY <1>4 DEF ChainedIn
  <2>1. CASE n < m
    <3>1. n \in 1 .. m /\ n + 1 \in 1 .. m /\ n # m
      BY <2>1
    <3>2. c[n] = a[n] /\ c[n + 1] = a[n + 1]
      BY <1>4, <3>1
    <3> QED BY <1>1, <3>1, <3>2 DEF WholeFile, ChainedIn
  <2>2. CASE n = m
    <3>1. c[n] = a[m] /\ m # 0
      BY <1>4, <2>2
    <3> QED BY <1>1, <3>1 DEF WholeFile
  <2>3. CASE n > m
    <3>1. n - m \in 1 .. l /\ n - m # l /\ (n + 1) - m = (n - m) + 1 /\ ~(n <= m) /\ ~(n + 1 <= m)
          /\ n + 1 \in 1 .. m + l
      BY <2>3
    <3>2. c[n] = b[n - m] /\ c[n + 1] = b[(n - m) + 1]
      BY <1>4, <3>1
    <3> QED BY <1>2, <3>1, <3>2 DEF WholeFile, ChainedIn
  <2> QED BY <2>1, <2>2, <2>3
<1>8. Ends(c[Len(c)])
  <2>1. m + l \in 1 .. m + l /\ ~(m + l <= m) /\ (m + l) - m = l
    BY <1>5
  <2>2. c[Len(c)] = b[l]
    BY <1>4, <2>1
  <2> QED BY <1>2, <1>5, <2>2 DEF WholeFile
<1>9. PartedIn(c)
  <2> SUFFICES ASSUME NEW n \in 1 .. m + l, n # m + l, Ends(c[n]) PROVE Starts(c[n + 1])
    BY <1>4 DEF PartedIn
  <2>1. CASE n < m
    <3>1. n \in 1 .. m /\ n + 1 \in 1 .. m /\ n # m
      BY <2>1
    <3>2. c[n] = a[n] /\ c[n + 1] = a[n + 1]
      BY <1>4, <3>1
    <3> QED BY <1>1, <3>1, <3>2 DEF WholeFile, PartedIn
  <2>2. CASE n = m
    <3>1. n + 1 \in 1 .. m + l /\ ~(n + 1 <= m) /\ (n + 1) - m = 1
      BY <2>2
    <3>2. c[n + 1] = b[1]
      BY <1>4, <3>1
    <3> QED BY <1>2, <1>5, <3>2 DEF WholeFile
  <2>3. CASE n > m
    <3>1. n - m \in 1 .. l /\ n - m # l /\ (n + 1) - m = (n - m) + 1 /\ ~(n <= m) /\ ~(n + 1 <= m)
          /\ n + 1 \in 1 .. m + l
      BY <2>3
    <3>2. c[n] = b[n - m] /\ c[n + 1] = b[(n - m) + 1]
      BY <1>4, <3>1
    <3> QED BY <1>2, <3>1, <3>2 DEF WholeFile, PartedIn
  <2> QED BY <2>1, <2>2, <2>3
<1>10. Starts(c[1])
  <2>1. 1 \in 1 .. m + l /\ 1 - 0 = 1
    BY <1>5
  <2>2. CASE m = 0
    <3>1. ~(1 <= m) /\ 1 - m = 1
      BY <2>2
    <3>2. c[1] = b[1]
      BY <1>4, <2>1, <3>1
    <3> QED BY <1>2, <1>5, <3>2 DEF WholeFile
  <2>3. CASE m # 0
    <3>1. 1 <= m
      BY <2>3
    <3>2. c[1] = a[1]
      BY <1>4, <2>1, <3>1
    <3> QED BY <1>1, <2>3, <3>2 DEF WholeFile
  <2> QED BY <2>2, <2>3
<1> QED BY <1>3, <1>6, <1>7, <1>8, <1>9, <1>10 DEF WholeFile

(* What the list of a freed frame may be read as ends a frame, too. *)
LEMMA JunkIs ==
  /\ <<Junk>> \in Seq(FileUnit) /\ Len(<<Junk>>) = 1 /\ WholeFile(<<Junk>>)
  /\ Junk.unit = "junk" /\ Junk.frame = 0
<1>1. Junk \in FileUnit /\ Junk.unit = "junk" /\ Junk.frame = 0
  BY DEF Junk, FileUnit
<1>2. PICK j : j = Junk
  OBVIOUS
<1>3. PICK s : s = <<j>>
  OBVIOUS
<1>4. s \in Seq(FileUnit) /\ Len(s) = 1 /\ DOMAIN s = {1} /\ s[1] = j
  BY <1>1, <1>2, <1>3
<1> QED BY <1>1, <1>2, <1>3, <1>4 DEF WholeFile, KnownIn, ChainedIn, PartedIn, Ends, Starts

-----------------------------------------------------------------------------
(***************************************************************************)
(* The state keeps its shape.  While the daemon starts there is nothing in *)
(* the list and no size is counted; the management worker that is not idle *)
(* later carries the newest frame; a sending worker holds a frame that is  *)
(* there, and one that has sent it, one that was sent, unless the frame    *)
(* was made up by a start that was misled.                                 *)
(***************************************************************************)
PhaseInv ==
  /\ phase = "start" => /\ manager \in {"idle", "create", "link", "restore"}
                        /\ counting = {} /\ listed = <<>> /\ writer = "idle"
  /\ manager = "restore" => phase = "start"
  /\ phase = "stopping" => starts < MaxStarts
  /\ phase # "start" /\ manager # "idle" => Current \in DOMAIN frames
WorkerInv ==
  \A s \in Senders :
    /\ worker[s].pc # "idle" => worker[s].frame \in {0} \cup DOMAIN frames
    /\ worker[s].pc \in {"update", "stale", "done"} => worker[s].frame \in {0} \cup sent
Inv == TypeOK /\ PhaseInv /\ WorkerInv /\ FileInv

LEMMA FramesInIds ==
  ASSUME TypeOK
  PROVE  DOMAIN frames = 1 .. Len(frames) /\ Len(frames) \in Nat /\ DOMAIN frames \subseteq Ids
         /\ Ids \subseteq Nat /\ Objects = {0} \cup Ids /\ Objects \subseteq Nat
<1>1. frames \in Seq(Kinds) /\ Len(frames) <= MaxFrames /\ MaxFrames \in Nat
  BY PersistenceAssumption DEF TypeOK
<1> QED BY <1>1 DEF Ids, Objects

LEMMA FullSizeIs ==
  ASSUME NEW k \in {"body", "empty", "reply", "quoting"}
  PROVE  FullSize(k) \in Nat /\ FullSize(k) - 1 \in Nat /\ FullSize(k) >= 3
<1>1. CASE k = "body"
  BY <1>1 DEF FullSize
<1>2. CASE k = "empty"
  BY <1>2 DEF FullSize
<1>3. CASE k = "reply"
  BY <1>3 DEF FullSize
<1>4. CASE k = "quoting"
  BY <1>4 DEF FullSize
<1> QED BY <1>1, <1>2, <1>3, <1>4

LEMMA FileSame ==
  ASSUME FileInv, data' = data, frames' = frames
  PROVE  FileInv'
BY DEF FileInv, WholeFile, KnownIn, ChainedIn, PartedIn, Follows, Ends, Starts

(* An assignment to the fields of one thread. *)
LEMMA WorkerSet ==
  ASSUME TypeOK, NEW s \in Senders, NEW t \in ThreadState, worker' = [worker EXCEPT ![s] = t]
  PROVE  /\ worker' \in [Senders -> ThreadState] /\ worker'[s] = t
         /\ \A r \in Senders : r # s => worker'[r] = worker[r]
BY DEF TypeOK

LEMMA ThreadFields ==
  ASSUME NEW t \in ThreadState
  PROVE  t.pc \in {"idle", "send", "update", "stale", "done"} /\ t.frame \in Nat /\ t.value \in Nat
BY DEF ThreadState

LEMMA ThreadSet ==
  ASSUME NEW t \in ThreadState, NEW p \in {"idle", "send", "update", "stale", "done"}
  PROVE  LET u == [t EXCEPT !.pc = p]
         IN  u \in ThreadState /\ u.pc = p /\ u.frame = t.frame /\ u.value = t.value
BY DEF ThreadState

LEMMA RestingIs == Resting \in ThreadState /\ Resting.pc = "idle" /\ Resting.frame = 0
BY DEF Resting, ThreadState

(* Steps that leave the threads alone. *)
LEMMA WorkerSame ==
  ASSUME WorkerInv, worker' = worker, DOMAIN frames \subseteq DOMAIN frames', sent \subseteq sent'
  PROVE  WorkerInv'
BY DEF WorkerInv

(* The elements of a queue. *)
LEMMA TailRange ==
  ASSUME NEW S, NEW s \in Seq(S), s # <<>>
  PROVE  Tail(s) \in Seq(S) /\ Range(Tail(s)) \subseteq Range(s) /\ Head(s) \in Range(s)
<1>1. /\ Len(s) \in Nat \ {0} /\ DOMAIN s = 1 .. Len(s) /\ Head(s) = s[1]
      /\ Tail(s) \in Seq(S) /\ DOMAIN Tail(s) = 1 .. Len(s) - 1
      /\ \A k \in 1 .. Len(s) - 1 : Tail(s)[k] = s[k + 1]
  BY TailIs
<1>2. \A k \in 1 .. Len(s) - 1 : k + 1 \in DOMAIN s
  BY <1>1
<1>3. 1 \in DOMAIN s
  BY <1>1
<1> QED BY <1>1, <1>2, <1>3 DEF Range

LEMMA AppendRange ==
  ASSUME NEW S, NEW s \in Seq(S), NEW x \in S
  PROVE  Append(s, x) \in Seq(S) /\ Range(Append(s, x)) = Range(s) \cup {x}
<1>1. PICK t : t = Append(s, x)
  OBVIOUS
<1>2. /\ t \in Seq(S) /\ Len(s) \in Nat /\ DOMAIN s = 1 .. Len(s) /\ DOMAIN t = 1 .. Len(s) + 1
      /\ \A k \in 1 .. Len(s) : t[k] = s[k]
      /\ t[Len(s) + 1] = x
  BY <1>1, AppendIs
<1>3. \A k \in DOMAIN t : (k \in DOMAIN s /\ t[k] = s[k]) \/ t[k] = x
  BY <1>2
<1>4. Len(s) + 1 \in DOMAIN t /\ \A k \in DOMAIN s : k \in DOMAIN t /\ t[k] = s[k]
  BY <1>2
<1>5. Range(t) = Range(s) \cup {x}
  BY <1>2, <1>3, <1>4 DEF Range
<1> QED BY <1>1, <1>2, <1>5

LEMMA JoinRange ==
  ASSUME NEW S, NEW s \in Seq(S), NEW t \in Seq(S)
  PROVE  s \o t \in Seq(S) /\ Range(s \o t) \subseteq Range(s) \cup Range(t)
<1>1. PICK u : u = s \o t
  OBVIOUS
<1>2. /\ u \in Seq(S) /\ Len(u) = Len(s) + Len(t) /\ DOMAIN u = 1 .. Len(u)
      /\ \A n \in 1 .. Len(s) + Len(t) : u[n] = IF n <= Len(s) THEN s[n] ELSE t[n - Len(s)]
  BY <1>1, ConcatProperties
<1>3. /\ Len(s) \in Nat /\ DOMAIN s = 1 .. Len(s) /\ Len(t) \in Nat /\ DOMAIN t = 1 .. Len(t)
  OBVIOUS
<1>4. \A n \in DOMAIN u : \/ n \in DOMAIN s /\ u[n] = s[n]
                          \/ n - Len(s) \in DOMAIN t /\ u[n] = t[n - Len(s)]
  BY <1>2, <1>3
<1>5. Range(u) \subseteq Range(s) \cup Range(t)
  BY <1>4 DEF Range
<1> QED BY <1>1, <1>2, <1>5

LEMMA AllocInv == ASSUME Inv, alloc_qinfo PROVE Inv'
<1>1. FileInv' /\ WorkerInv'
  BY FileSame, WorkerSame DEF Inv, alloc_qinfo
<1>2. TypeOK'
  BY DEF Inv, TypeOK, alloc_qinfo, unpersist_queue_info, EarlyBy
<1>3. PhaseInv'
  BY DEF Inv, PhaseInv, alloc_qinfo, Current
<1> QED BY <1>1, <1>2, <1>3 DEF Inv

LEMMA LinkInv == ASSUME Inv, LinkQinfo PROVE Inv'
<1>1. FileInv' /\ WorkerInv'
  BY FileSame, WorkerSame DEF Inv, LinkQinfo
<1>2. <<>> \in Seq(Ids) /\ Range(<<>>) = {}
  BY DEF Range
<1>3. TypeOK'
  BY <1>2 DEF Inv, TypeOK, LinkQinfo, indexes, ghosts
<1>4. PhaseInv'
  BY DEF Inv, TypeOK, PhaseInv, LinkQinfo, Current
<1> QED BY <1>1, <1>3, <1>4 DEF Inv

LEMMA ScanInv == ASSUME Inv, UnpersistScan PROVE Inv'
<1>1. FileInv' /\ WorkerInv'
  BY FileSame, WorkerSame DEF Inv, UnpersistScan, files
<1>2. TypeOK'
  BY DEF Inv, TypeOK, UnpersistScan, indexes, files, ghosts
<1>3. PhaseInv'
  BY DEF Inv, TypeOK, PhaseInv, UnpersistScan, Current
<1> QED BY <1>1, <1>2, <1>3 DEF Inv

(* What unpersist() puts into the queue, and the sizes it gives. *)
LEMMA RestoreInv == ASSUME Inv, unpersist PROVE Inv'
<1>1. FileInv' /\ WorkerInv'
  BY FileSame, WorkerSame DEF Inv, unpersist, files
<1>2. PICK found : found = unpersist_queue_context(unpersist_queue_info)
  OBVIOUS
<1>3. found \in Seq(FoundSet)
  <2>1. unpersist_queue_info \in Nat
    BY DEF Inv, TypeOK, unpersist_queue_info
  <2> QED BY <1>2, <2>1, UnpersistFinds DEF Inv
<1>4. \A n \in DOMAIN found : found[n].frame \in {0} \cup DOMAIN frames /\ found[n].size \in Nat
  <2>1. \A n \in DOMAIN found : found[n] \in FoundSet
    BY <1>3
  <2> QED BY <2>1 DEF FoundSet
<1>5. PICK ids : ids = [n \in DOMAIN found |-> found[n].frame]
  OBVIOUS
<1>6. ids \in Seq(Objects) /\ Range(ids) \subseteq {0} \cup DOMAIN frames
  <2>1. DOMAIN found = 1 .. Len(found) /\ Len(found) \in Nat
    BY <1>3
  <2>2. ids \in [1 .. Len(found) -> Objects]
    BY <1>4, <1>5, <2>1, FramesInIds DEF Inv
  <2>3. ids \in Seq(Objects)
    BY <2>1, <2>2
  <2>4. Range(ids) \subseteq {0} \cup DOMAIN frames
    BY <1>4, <1>5 DEF Range
  <2> QED BY <2>3, <2>4
<1>7. \A i \in Range(ids) : SizeIn(found, i) \in Nat
  <2> SUFFICES ASSUME NEW i \in Range(ids) PROVE SizeIn(found, i) \in Nat
    OBVIOUS
  <2>1. \E x \in Range(found) : x.frame = i
    BY <1>5 DEF Range
  <2>2. PICK y : y = CHOOSE x \in Range(found) : x.frame = i
    OBVIOUS
  <2>3. y \in Range(found)
    BY <2>1, <2>2
  <2>4. y.size \in Nat
    BY <1>4, <2>3 DEF Range
  <2> QED BY <2>2, <2>4 DEF SizeIn
<1>8. /\ index_sent' = unpersist_queue_info /\ counted' = recorded
      /\ index_head' = Len(data) /\ index_persistent' = Len(data)
      /\ queue' = queue \o ids
      /\ size' = [i \in Objects |-> IF i \in Range(ids) THEN SizeIn(found, i) ELSE size[i]]
      /\ repeated' = repeated \cup (Range(ids) \cap known)
      /\ manager = "restore" /\ manager' = "idle" /\ phase' = "run"
      /\ UNCHANGED <<destination, starts, frames, counting, linked, listed, writer, worker, freed,
                     files, sent, early, raced, overtaken, late, truncated>>
  BY <1>2, <1>5 DEF unpersist
<1>9. known \subseteq DOMAIN frames
  BY DEF Inv, TypeOK
<1>10. queue' \in Seq(Objects) /\ Range(queue') \subseteq {0} \cup DOMAIN frames
  <2>1. queue \in Seq(Objects) /\ Range(queue) \subseteq {0} \cup DOMAIN frames
    BY DEF Inv, TypeOK
  <2> QED BY <1>6, <1>8, <2>1, JoinRange
<1>11. size' \in [Objects -> Nat]
  BY <1>7, <1>8 DEF Inv, TypeOK
<1>12. counting = {} /\ phase = "start" /\ Len(data) \in Nat /\ sent_index \in Nat
  BY <1>8 DEF Inv, PhaseInv, TypeOK
<1>13. TypeOK'
  <2> HIDE DEF SizeIn
  <2> QED BY <1>8, <1>9, <1>10, <1>11, <1>12 DEF Inv, TypeOK, unpersist_queue_info, files
<1>14. PhaseInv'
  BY <1>8, <1>12 DEF Inv, PhaseInv
<1> QED BY <1>1, <1>13, <1>14 DEF Inv

(* A new frame. *)
LEMMA SendInv == ASSUME Inv, NEW kind \in Kinds, handler_stomp_send(kind) PROVE Inv'
<1>1. PICK n \in Nat : n = Len(frames) + 1
  BY FramesInIds DEF Inv
<1>2. /\ frames' \in Seq(Kinds) /\ Len(frames') = n /\ DOMAIN frames' = DOMAIN frames \cup {n}
      /\ \A i \in DOMAIN frames : frames'[i] = frames[i]
      /\ frames'[n] = kind /\ n \notin DOMAIN frames
  <2>1. frames \in Seq(Kinds) /\ frames' = Append(frames, kind)
    BY DEF Inv, TypeOK, handler_stomp_send
  <2>2. /\ frames' \in Seq(Kinds) /\ Len(frames) \in Nat /\ DOMAIN frames = 1 .. Len(frames)
        /\ DOMAIN frames' = 1 .. Len(frames) + 1
        /\ \A i \in 1 .. Len(frames) : frames'[i] = frames[i]
        /\ frames'[Len(frames) + 1] = kind
    BY <2>1, AppendIs
  <2>3. Len(frames') = Len(frames) + 1
    BY <2>1
  <2> QED BY <1>1, <2>2, <2>3
<1>3. n \in Ids /\ n <= MaxFrames
  <2>1. Len(frames) \in Nat /\ Len(frames) < MaxFrames /\ MaxFrames \in Nat
    BY PersistenceAssumption, FramesInIds DEF handler_stomp_send, Inv
  <2> QED BY <1>1, <2>1 DEF Ids
<1>4. /\ size' = [size EXCEPT ![n] = FullSize(kind) - 1] /\ counting' = counting \cup {n}
      /\ phase # "start" /\ manager = "idle"
      /\ manager' = IF get_qinfo THEN "add" ELSE "create"
      /\ UNCHANGED <<destination, phase, starts, linked, listed, indexes, writer, queue, worker, freed,
                     files, sent, counted, ghosts>>
  BY <1>2 DEF handler_stomp_send
<1>5. FullSize(kind) - 1 \in Nat
  BY PersistenceAssumption, FullSizeIs
<1>6. /\ size' \in [Objects -> Nat] /\ size'[n] = FullSize(kind) - 1
      /\ \A i \in Ids : i # n => size'[i] = size[i]
  BY <1>3, <1>4, <1>5, FramesInIds DEF Inv, TypeOK
<1>7. \A i \in counting' : size'[i] = FullSize(frames'[i]) - 1
  <2> SUFFICES ASSUME NEW i \in counting' PROVE size'[i] = FullSize(frames'[i]) - 1
    OBVIOUS
  <2>1. CASE i = n
    BY <1>2, <1>6, <2>1
  <2>2. CASE i # n
    <3>1. i \in counting /\ i \in DOMAIN frames /\ i \in Ids
      BY <1>4, <2>2, FramesInIds DEF Inv, TypeOK
    <3>2. size[i] = FullSize(frames[i]) - 1
      BY <3>1 DEF Inv, TypeOK
    <3> QED BY <1>2, <1>6, <2>2, <3>1, <3>2
  <2> QED BY <2>1, <2>2
<1>8. TypeOK'
  <2>1. early' \subseteq {"head", "written", "sent"} \X DOMAIN frames'
    BY <1>2, <1>4 DEF Inv, TypeOK, ghosts
  <2>2. manager' \in {"add", "create"}
    BY <1>4
  <2> QED BY <1>2, <1>3, <1>4, <1>6, <1>7, <2>1, <2>2 DEF Inv, TypeOK, indexes, files, ghosts
<1>9. PhaseInv'
  BY <1>2, <1>4 DEF Inv, PhaseInv, Current
<1>10. FileInv'
  <2>1. data' = data
    BY <1>4 DEF files
  <2>2. KnownIn(data)'
    BY <1>2, <2>1 DEF Inv, FileInv, WholeFile, KnownIn
  <2>3. ASSUME NEW k \in DOMAIN data, NEW y, ~Ends(data[k]), Follows(data[k], y)
        PROVE  Follows(data[k], y)'
    <3>1. data[k].frame \in DOMAIN frames
      BY <2>3 DEF Inv, FileInv, WholeFile, KnownIn, Ends
    <3> QED BY <1>2, <2>1, <2>3, <3>1 DEF Follows
  <2>4. ChainedIn(data)'
    <3> SUFFICES ASSUME NEW k \in DOMAIN data, ~Ends(data[k]), k # Len(data)
                 PROVE  Follows(data[k], data[k + 1])'
      BY <2>1 DEF ChainedIn, Ends
    <3>1. Follows(data[k], data[k + 1])
      BY DEF Inv, FileInv, WholeFile, ChainedIn
    <3>2. PICK y : y = data[k + 1]
      OBVIOUS
    <3>3. Follows(data[k], y)'
      BY <2>3, <3>1, <3>2
    <3> QED BY <2>1, <3>2, <3>3 DEF Follows
  <2>5. PartedIn(data)'
    BY <2>1 DEF Inv, FileInv, WholeFile, PartedIn, Ends, Starts
  <2> QED BY <2>1, <2>2, <2>4, <2>5 DEF Inv, FileInv, WholeFile, Ends, Starts
<1>11. WorkerInv'
  BY <1>2, <1>4, WorkerSame DEF Inv
<1> QED BY <1>8, <1>9, <1>10, <1>11 DEF Inv

LEMMA CountInv == ASSUME Inv, NEW i \in Ids, CountNul(i) PROVE Inv'
<1>1. FileInv' /\ WorkerInv'
  BY FileSame, WorkerSame DEF Inv, CountNul, files
<1>2. /\ size' \in [Objects -> Nat] /\ \A j \in Ids : j # i => size'[j] = size[j]
  BY FramesInIds DEF Inv, TypeOK, CountNul
<1>3. \A j \in counting' : j \in counting /\ j # i /\ j \in Ids
  BY FramesInIds DEF Inv, TypeOK, CountNul
<1>4. TypeOK'
  BY <1>2, <1>3 DEF Inv, TypeOK, CountNul, indexes, files, ghosts
<1>5. PhaseInv'
  BY DEF Inv, TypeOK, PhaseInv, CountNul, Current
<1> QED BY <1>1, <1>4, <1>5 DEF Inv

LEMMA CurrentIs ==
  ASSUME Inv, manager \in {"add", "head", "enqueue"}
  PROVE  Current \in DOMAIN frames /\ Current \in Ids /\ phase # "start"
BY FramesInIds DEF Inv, PhaseInv

LEMMA AddInv == ASSUME Inv, add_frame_into_qinfo PROVE Inv'
<1>1. FileInv' /\ WorkerInv'
  BY FileSame, WorkerSame DEF Inv, add_frame_into_qinfo, files
<1>2. PICK c : c = Current
  OBVIOUS
<1>3. c \in DOMAIN frames /\ c \in Ids /\ phase # "start" /\ Current' = Current
  BY <1>2, CurrentIs DEF add_frame_into_qinfo, Current
<1>4. listed' \in Seq(Ids) /\ Range(listed') \subseteq DOMAIN frames
  <2>1. listed \in Seq(Ids) /\ Range(listed) \subseteq DOMAIN frames
    BY DEF Inv, TypeOK
  <2>2. listed' = Append(listed, c) \/ listed' = listed
    BY <1>2 DEF add_frame_into_qinfo
  <2>3. PICK l : l = Append(listed, c)
    OBVIOUS
  <2>4. l \in Seq(Ids) /\ Range(l) = Range(listed) \cup {c}
    BY <1>3, <2>1, <2>3, AppendRange
  <2> QED BY <1>3, <2>1, <2>2, <2>3, <2>4
<1>5. TypeOK'
  BY <1>4 DEF Inv, TypeOK, add_frame_into_qinfo, indexes, files, ghosts
<1>6. PhaseInv'
  BY <1>2, <1>3 DEF Inv, PhaseInv, add_frame_into_qinfo
<1> QED BY <1>1, <1>5, <1>6 DEF Inv

LEMMA ReadSizeIs ==
  ASSUME Inv, NEW who \in {"head", "written", "sent"}, NEW i, ReadSize(who, i)
  PROVE  early' \subseteq {"head", "written", "sent"} \X DOMAIN frames
BY DEF Inv, TypeOK, ReadSize

LEMMA HeadInv == ASSUME Inv, persist_frame PROVE Inv'
<1>1. FileInv' /\ WorkerInv'
  BY FileSame, WorkerSame DEF Inv, persist_frame, files
<1>2. PICK c : c = Current
  OBVIOUS
<1>3. c \in DOMAIN frames /\ c \in Ids /\ phase # "start" /\ Current' = Current
  BY <1>2, CurrentIs DEF persist_frame, Current
<1>4. early' \subseteq {"head", "written", "sent"} \X DOMAIN frames
  BY <1>2, <1>3, ReadSizeIs DEF persist_frame
<1>5. index_head' \in Nat
  BY <1>2, <1>3, FramesInIds DEF Inv, TypeOK, persist_frame
<1>6. TypeOK'
  BY <1>4, <1>5 DEF Inv, TypeOK, persist_frame, files
<1>7. PhaseInv'
  BY <1>2, <1>3 DEF Inv, PhaseInv, persist_frame
<1> QED BY <1>1, <1>6, <1>7 DEF Inv

LEMMA EnqueueInv == ASSUME Inv, enqueue PROVE Inv'
<1>1. FileInv' /\ WorkerInv'
  BY FileSame, WorkerSame DEF Inv, enqueue, files
<1>2. PICK c : c = Current
  OBVIOUS
<1>3. c \in DOMAIN frames /\ c \in Ids /\ phase # "start"
  BY <1>2, CurrentIs DEF enqueue
<1>4. queue' \in Seq(Objects) /\ Range(queue') \subseteq {0} \cup DOMAIN frames
  <2>1. queue \in Seq(Objects) /\ Range(queue) \subseteq {0} \cup DOMAIN frames
    BY DEF Inv, TypeOK
  <2>2. queue' = Append(queue, c) /\ c \in Objects
    BY <1>2, <1>3, FramesInIds DEF enqueue, Inv
  <2>3. Append(queue, c) \in Seq(Objects) /\ Range(Append(queue, c)) = Range(queue) \cup {c}
    BY <2>1, <2>2, AppendRange
  <2> QED BY <1>3, <2>1, <2>2, <2>3
<1>5. TypeOK'
  BY <1>4 DEF Inv, TypeOK, enqueue, indexes, files, ghosts
<1>6. PhaseInv'
  BY <1>3 DEF Inv, PhaseInv, enqueue
<1> QED BY <1>1, <1>5, <1>6 DEF Inv

LEMMA InfoInv == ASSUME Inv, persist_queue_info PROVE Inv'
<1>1. FileInv' /\ WorkerInv'
  BY FileSame, WorkerSame DEF Inv, persist_queue_info
<1>2. TypeOK'
  BY DEF Inv, TypeOK, persist_queue_info, indexes, ghosts
<1>3. PhaseInv'
  BY DEF Inv, PhaseInv, persist_queue_info, Current
<1> QED BY <1>1, <1>2, <1>3 DEF Inv

LEMMA StopInv == ASSUME Inv, TestStop \/ ListEmpty PROVE Inv'
<1>1. FileInv' /\ WorkerInv'
  BY FileSame, WorkerSame DEF Inv, TestStop, ListEmpty, files
<1>2. TypeOK'
  BY DEF Inv, TypeOK, TestStop, ListEmpty, indexes, files, ghosts
<1>3. PhaseInv'
  BY DEF Inv, PhaseInv, TestStop, ListEmpty, Current
<1> QED BY <1>1, <1>2, <1>3 DEF Inv

LEMMA CheckInv == ASSUME Inv, persistent_worker PROVE Inv'
<1>1. FileInv' /\ WorkerInv'
  BY FileSame, WorkerSame DEF Inv, persistent_worker, files
<1>2. TypeOK'
  BY DEF Inv, TypeOK, persistent_worker, indexes, files, ghosts
<1>3. PhaseInv'
  BY DEF Inv, PhaseInv, persistent_worker, Current
<1> QED BY <1>1, <1>2, <1>3 DEF Inv

LEMMA DoneInv == ASSUME Inv, ContextDone PROVE Inv'
<1>1. FileInv' /\ WorkerInv'
  BY FileSame, WorkerSame DEF Inv, ContextDone, files
<1>2. TypeOK'
  BY DEF Inv, TypeOK, ContextDone, indexes, files, ghosts
<1>3. PhaseInv'
  BY DEF Inv, PhaseInv, ContextDone, Current
<1> QED BY <1>1, <1>2, <1>3 DEF Inv

(* The first of the list is written, or what is left of it. *)
LEMMA ContextIs ==
  ASSUME Inv, persist_queue_context
  PROVE  \E i \in DOMAIN frames :
           /\ i \in Ids /\ listed # <<>> /\ i = Head(listed) /\ listed' = Tail(listed)
           /\ \/ /\ data' = data \o Written(i) /\ index_persistent' = index_persistent + size[i]
                 /\ ReadSize("written", i)
              \/ /\ i \in freed /\ data' = data \o <<Junk>> /\ index_persistent' = index_persistent + 1
                 /\ UNCHANGED early
<1>1. listed \in Seq(Ids) /\ Range(listed) \subseteq DOMAIN frames /\ listed # <<>>
  BY DEF Inv, TypeOK, persist_queue_context
<1>2. PICK i \in DOMAIN frames : i = Head(listed)
  BY <1>1, TailRange
<1>3. i \in Ids
  BY FramesInIds DEF Inv
<1>4. Append(data, Junk) = data \o <<Junk>>
  BY JunkIs, AppendIsConcat DEF Inv, TypeOK
<1> QED BY <1>1, <1>2, <1>3, <1>4 DEF persist_queue_context

LEMMA ContextInv == ASSUME Inv, persist_queue_context PROVE Inv'
<1>1. PICK i \in DOMAIN frames :
           /\ i \in Ids /\ listed # <<>> /\ i = Head(listed) /\ listed' = Tail(listed)
           /\ \/ /\ data' = data \o Written(i) /\ index_persistent' = index_persistent + size[i]
                 /\ ReadSize("written", i)
              \/ /\ i \in freed /\ data' = data \o <<Junk>> /\ index_persistent' = index_persistent + 1
                 /\ UNCHANGED early
  BY ContextIs
<1>2. /\ frames' = frames /\ writer' = writer /\ writer = "context"
      /\ UNCHANGED <<destination, phase, starts, frames, size, counting, manager, linked, index_head,
                 index_sent, writer, queue, worker, freed, stored, sent_index, recorded, known, sent,
                 counted, mishaps, repeated>>
  BY DEF persist_queue_context
<1>3. PICK b \in Seq(FileUnit) : data' = data \o b /\ WholeFile(b) /\ Len(b) # 0
  <2>1. Written(i) \in Seq(FileUnit) /\ WholeFile(Written(i)) /\ Len(Written(i)) # 0
    BY WrittenIs DEF Inv, TypeOK
  <2>2. <<Junk>> \in Seq(FileUnit) /\ WholeFile(<<Junk>>) /\ Len(<<Junk>>) # 0
    BY JunkIs
  <2> QED BY <1>1, <2>1, <2>2
<1>4. data \in Seq(FileUnit)
  BY DEF Inv, TypeOK
<1>5. data' \in Seq(FileUnit)
  BY <1>3, <1>4, ConcatProperties
<1>6. FileInv'
  <2>1. PICK d : d = data \o b
    OBVIOUS
  <2>2. WholeFile(d)
    BY <1>3, <1>4, <2>1, JoinedFile DEF Inv, FileInv
  <2> QED BY <1>2, <1>3, <2>1, <2>2
      DEF FileInv, WholeFile, KnownIn, ChainedIn, PartedIn, Follows, Ends, Starts
<1>7. WorkerInv'
  BY <1>2, WorkerSame DEF Inv
<1>8. listed' \in Seq(Ids) /\ Range(listed') \subseteq DOMAIN frames
  <2>1. listed \in Seq(Ids) /\ Range(listed) \subseteq DOMAIN frames
    BY DEF Inv, TypeOK
  <2> QED BY <1>1, <2>1, TailRange
<1>9. early' \subseteq {"head", "written", "sent"} \X DOMAIN frames
  <2>1. CASE ReadSize("written", i)
    BY <2>1, ReadSizeIs
  <2>2. CASE UNCHANGED early
    BY <2>2 DEF Inv, TypeOK
  <2> QED BY <1>1, <2>1, <2>2
<1>10. index_persistent' \in Nat
  <2>1. size[i] \in Nat /\ index_persistent \in Nat
    BY <1>1, FramesInIds DEF Inv, TypeOK
  <2>2. \/ index_persistent' = index_persistent + size[i]
        \/ index_persistent' = index_persistent + 1
    BY <1>1
  <2> QED BY <2>1, <2>2
<1>11. TypeOK'
  BY <1>2, <1>5, <1>8, <1>9, <1>10 DEF Inv, TypeOK
<1>12. PhaseInv'
  <2>1. phase # "start"
    BY <1>2 DEF Inv, PhaseInv
  <2> QED BY <1>2, <2>1 DEF Inv, PhaseInv, Current
<1> QED BY <1>6, <1>7, <1>11, <1>12 DEF Inv

LEMMA DequeueInv == ASSUME Inv, NEW s \in Senders, dequeue(s) PROVE Inv'
<1>1. FileInv'
  BY FileSame DEF Inv, dequeue, files
<1>2. queue \in Seq(Objects) /\ Range(queue) \subseteq {0} \cup DOMAIN frames /\ queue # <<>>
  BY DEF Inv, TypeOK, dequeue
<1>3. PICK i \in {0} \cup DOMAIN frames : i = Head(queue)
  BY <1>2, TailRange
<1>4. PICK t : t = [pc |-> "send", frame |-> i, value |-> 0]
  OBVIOUS
<1>5. t \in ThreadState /\ t.pc = "send" /\ t.frame = i
  BY <1>4, FramesInIds DEF Inv, ThreadState
<1>6. worker' = [worker EXCEPT ![s] = t] /\ frames' = frames /\ sent' = sent
  BY <1>3, <1>4 DEF dequeue
<1>7. /\ worker' \in [Senders -> ThreadState] /\ worker'[s] = t
      /\ \A r \in Senders : r # s => worker'[r] = worker[r]
  BY <1>5, <1>6, WorkerSet DEF Inv
<1>8. queue' \in Seq(Objects) /\ Range(queue') \subseteq {0} \cup DOMAIN frames
  BY <1>2, TailRange DEF dequeue
<1>9. TypeOK'
  BY <1>7, <1>8 DEF Inv, TypeOK, dequeue, indexes, files
<1>10. PhaseInv'
  BY DEF Inv, PhaseInv, dequeue, Current
<1>11. WorkerInv'
  BY <1>5, <1>6, <1>7 DEF Inv, WorkerInv
<1> QED BY <1>1, <1>9, <1>10, <1>11 DEF Inv

LEMMA SendAndReadIs ==
  ASSUME Inv, NEW s \in Senders, SendAndRead(s)
  PROVE  /\ worker[s].pc = "send" /\ worker[s].frame \in {0} \cup DOMAIN frames
         /\ sent' = sent \cup ({worker[s].frame} \ {0}) /\ ReadSize("sent", worker[s].frame)
         /\ worker' \in [Senders -> ThreadState]
         /\ worker'[s].pc \in {"update", "done"} /\ worker'[s].frame = worker[s].frame
         /\ \A r \in Senders : r # s => worker'[r] = worker[r]
<1>1. PICK t \in ThreadState : t = worker[s]
  BY DEF Inv, TypeOK
<1>2. worker[s].pc = "send" /\ t.frame \in {0} \cup DOMAIN frames
  BY <1>1 DEF Inv, WorkerInv, SendAndRead
<1>3. PICK p \in {"update", "done"} : p = IF get_qinfo THEN "update" ELSE "done"
  OBVIOUS
<1>4. PICK v \in Nat : v = index_sent + size[t.frame]
  BY <1>2, FramesInIds DEF Inv, TypeOK
<1>5. worker' = [worker EXCEPT ![s].pc = p, ![s].value = v]
  <2>1. worker' = [worker EXCEPT ![s].pc = IF get_qinfo THEN "update" ELSE "done",
                                 ![s].value = index_sent + size[worker[s].frame]]
    BY DEF SendAndRead
  <2> HIDE DEF get_qinfo
  <2> QED BY <1>1, <1>3, <1>4, <2>1
<1>6. PICK u : u = [t EXCEPT !.pc = p]
  OBVIOUS
<1>7. u \in ThreadState /\ u.pc = p /\ u.frame = t.frame
  <2>1. p \in {"idle", "send", "update", "stale", "done"}
    BY <1>3
  <2> QED BY <1>6, <2>1, ThreadSet
<1>8. PICK x : x = [u EXCEPT !.value = v]
  OBVIOUS
<1>9. x \in ThreadState /\ x.pc = p /\ x.frame = t.frame
  <2>1. u.pc \in {"idle", "send", "update", "stale", "done"} /\ u.frame \in Nat
    BY <1>7 DEF ThreadState
  <2>2. u = [pc |-> u.pc, frame |-> u.frame, value |-> u.value]
    BY <1>7 DEF ThreadState
  <2>3. x = [pc |-> u.pc, frame |-> u.frame, value |-> v]
    BY <1>8, <2>2
  <2> QED BY <1>7, <2>1, <2>3 DEF ThreadState
<1>10. worker' = [worker EXCEPT ![s] = x]
  BY <1>1, <1>5, <1>6, <1>8 DEF Inv, TypeOK
<1>11. /\ worker' \in [Senders -> ThreadState] /\ worker'[s] = x
       /\ \A r \in Senders : r # s => worker'[r] = worker[r]
  BY <1>9, <1>10, WorkerSet DEF Inv
<1> QED BY <1>1, <1>2, <1>9, <1>11 DEF SendAndRead

LEMMA SendAndReadInv == ASSUME Inv, NEW s \in Senders, SendAndRead(s) PROVE Inv'
<1>1. FileInv'
  BY FileSame DEF Inv, SendAndRead, files
<1>2. PICK i : i = worker[s].frame
  OBVIOUS
<1>3. /\ i \in {0} \cup DOMAIN frames /\ sent' = sent \cup ({i} \ {0}) /\ ReadSize("sent", i)
      /\ worker' \in [Senders -> ThreadState]
      /\ worker'[s].pc \in {"update", "done"} /\ worker'[s].frame = i
      /\ \A r \in Senders : r # s => worker'[r] = worker[r]
  BY <1>2, SendAndReadIs
<1>4. early' \subseteq {"head", "written", "sent"} \X DOMAIN frames
  BY <1>3, ReadSizeIs
<1>5. TypeOK'
  BY <1>3, <1>4 DEF Inv, TypeOK, SendAndRead, indexes, files
<1>6. PhaseInv'
  BY DEF Inv, PhaseInv, SendAndRead, Current
<1>7. frames' = frames
  BY DEF SendAndRead
<1>8. WorkerInv'
  BY <1>3, <1>7 DEF Inv, WorkerInv
<1> QED BY <1>1, <1>5, <1>6, <1>8 DEF Inv

LEMMA UpdateInv == ASSUME Inv, NEW s \in Senders, update_index_sent(s) PROVE Inv'
<1>1. FileInv'
  BY FileSame DEF Inv, update_index_sent, files
<1>2. PICK t \in ThreadState : t = worker[s]
  BY DEF Inv, TypeOK
<1>3. t.pc \in {"update", "stale"} /\ t.value \in Nat
  BY <1>2, ThreadFields DEF update_index_sent
<1>4. t.frame \in {0} \cup sent /\ t.frame \in {0} \cup DOMAIN frames
  BY <1>2, <1>3 DEF Inv, WorkerInv
<1>5. PICK u : u = [t EXCEPT !.pc = "done"]
  OBVIOUS
<1>6. u \in ThreadState /\ u.pc = "done" /\ u.frame = t.frame
  BY <1>5, ThreadSet
<1>7. worker' = [worker EXCEPT ![s] = u]
  BY <1>2, <1>5 DEF update_index_sent
<1>8. /\ worker' \in [Senders -> ThreadState] /\ worker'[s] = u
      /\ \A r \in Senders : r # s => worker'[r] = worker[r]
  BY <1>6, <1>7, WorkerSet DEF Inv
<1>9. index_sent' \in Nat /\ counted' \subseteq sent
  BY <1>2, <1>3, <1>4 DEF Inv, TypeOK, update_index_sent
<1>10. TypeOK'
  BY <1>8, <1>9 DEF Inv, TypeOK, update_index_sent, files, ghosts
<1>11. PhaseInv'
  BY DEF Inv, PhaseInv, update_index_sent, Current
<1>12. frames' = frames /\ sent' = sent
  BY DEF update_index_sent
<1>13. WorkerInv'
  BY <1>4, <1>6, <1>8, <1>12 DEF Inv, WorkerInv
<1> QED BY <1>1, <1>10, <1>11, <1>13 DEF Inv

LEMMA SendingDoneInv == ASSUME Inv, NEW s \in Senders, SendingDone(s) PROVE Inv'
<1>1. FileInv'
  BY FileSame DEF Inv, SendingDone, files
<1>2. worker[s].frame \in {0} \cup DOMAIN frames
  BY DEF Inv, WorkerInv, SendingDone
<1>3. PICK u \in ThreadState : u = Resting /\ u.pc = "idle"
  BY RestingIs
<1>4. worker' = [worker EXCEPT ![s] = u]
  BY <1>3 DEF SendingDone
<1>5. /\ worker' \in [Senders -> ThreadState] /\ worker'[s] = u
      /\ \A r \in Senders : r # s => worker'[r] = worker[r]
  BY <1>4, WorkerSet DEF Inv
<1>6. freed' \subseteq {0} \cup DOMAIN frames
  BY <1>2 DEF Inv, TypeOK, SendingDone
<1>7. TypeOK'
  BY <1>5, <1>6 DEF Inv, TypeOK, SendingDone, indexes, files, ghosts
<1>8. PhaseInv'
  BY DEF Inv, PhaseInv, SendingDone, Current
<1>9. frames' = frames /\ sent' = sent
  BY DEF SendingDone
<1>10. WorkerInv'
  BY <1>3, <1>5, <1>9 DEF Inv, WorkerInv
<1> QED BY <1>1, <1>7, <1>8, <1>10 DEF Inv

LEMMA CleanupInv == ASSUME Inv, cleanup_persistent_worker PROVE Inv'
<1>1. FileInv'
  BY FileSame DEF Inv, cleanup_persistent_worker, files
<1>2. \A s \in Senders :
        /\ worker'[s] \in ThreadState /\ worker'[s].frame = worker[s].frame
        /\ worker'[s].pc = IF worker[s].pc = "update" THEN "stale" ELSE worker[s].pc
  <2> SUFFICES ASSUME NEW s \in Senders
               PROVE  /\ worker'[s] \in ThreadState /\ worker'[s].frame = worker[s].frame
                      /\ worker'[s].pc = IF worker[s].pc = "update" THEN "stale" ELSE worker[s].pc
    OBVIOUS
  <2>1. PICK t \in ThreadState : t = worker[s]
    BY DEF Inv, TypeOK
  <2>2. worker'[s] = IF t.pc = "update" THEN [t EXCEPT !.pc = "stale"] ELSE t
    BY <2>1 DEF cleanup_persistent_worker
  <2>3. PICK u : u = [t EXCEPT !.pc = "stale"]
    OBVIOUS
  <2>4. u \in ThreadState /\ u.pc = "stale" /\ u.frame = t.frame
    BY <2>3, ThreadSet
  <2> QED BY <2>1, <2>2, <2>3, <2>4
<1>3. worker' \in [Senders -> ThreadState]
  <2>1. worker' = [s \in Senders |-> worker'[s]]
    BY DEF cleanup_persistent_worker
  <2> QED BY <1>2, <2>1
<1>4. <<>> \in Seq(Ids) /\ Range(<<>>) = {}
  BY DEF Range
<1>5. TypeOK'
  BY <1>3, <1>4 DEF Inv, TypeOK, cleanup_persistent_worker, free_qinfo, indexes, files, ghosts
<1>6. PhaseInv'
  BY DEF Inv, PhaseInv, cleanup_persistent_worker, Current
<1>7. frames' = frames /\ sent' = sent
  BY DEF cleanup_persistent_worker
<1>8. WorkerInv'
  BY <1>2, <1>7 DEF Inv, WorkerInv
<1> QED BY <1>1, <1>5, <1>6, <1>8 DEF Inv

LEMMA RestartInv == ASSUME Inv, starts < MaxStarts, Restart PROVE Inv'
<1>1. FileInv'
  BY FileSame DEF Inv, Restart, files
<1>2. PICK u \in ThreadState : u = Resting /\ u.pc = "idle"
  BY RestingIs
<1>3. worker' = [s \in Senders |-> u]
  BY <1>2 DEF Restart
<1>4. <<>> \in Seq(Ids) /\ <<>> \in Seq(Objects) /\ Range(<<>>) = {}
  BY DEF Range
<1>5. starts' \in 0 .. MaxStarts
  BY PersistenceAssumption DEF Inv, TypeOK, Restart
<1>6. TypeOK'
  <2>1. worker' \in [Senders -> ThreadState]
    BY <1>3
  <2>2. size' \in [Objects -> Nat]
    BY DEF Restart
  <2>3. early' \subseteq early
    BY DEF Restart, EarlyBy
  <2>4. /\ Range(listed') \cup sent' \subseteq DOMAIN frames'
        /\ Range(queue') \cup freed' \subseteq {0} \cup DOMAIN frames'
        /\ listed' \in Seq(Ids) /\ queue' \in Seq(Objects)
    BY <1>4 DEF Inv, TypeOK, Restart
  <2>5. counting' = {} /\ counted' = {} /\ frames' = frames /\ data' = data /\ recorded' = recorded
    BY DEF Restart, files
  <2>6. /\ index_sent' \in Nat /\ index_head' \in Nat /\ index_persistent' \in Nat
        /\ sent_index' \in Nat /\ recorded' \subseteq sent' /\ counted' \subseteq sent'
        /\ linked' \in BOOLEAN /\ stored' \in BOOLEAN /\ writer' = "idle"
        /\ manager' = "idle" /\ phase' = "start" /\ destination' = destination
        /\ repeated' = repeated /\ known' \subseteq sent'
    BY DEF Inv, TypeOK, Restart, files
  <2> HIDE DEF ThreadState
  <2> QED BY <1>5, <2>1, <2>2, <2>3, <2>4, <2>5, <2>6 DEF Inv, TypeOK
<1>7. PhaseInv'
  BY DEF PhaseInv, Restart
<1>8. WorkerInv'
  BY <1>2, <1>3 DEF WorkerInv
<1> QED BY <1>1, <1>6, <1>7, <1>8 DEF Inv

LEMMA InvInit == Init => Inv
<1> SUFFICES ASSUME Init PROVE Inv
  OBVIOUS
<1>1. /\ <<>> \in Seq(Ids) /\ <<>> \in Seq(Objects) /\ <<>> \in Seq(Kinds) /\ <<>> \in Seq(FileUnit)
      /\ Range(<<>>) = {} /\ DOMAIN <<>> = {} /\ Len(<<>>) = 0
  BY DEF Range
<1>2. PICK u \in ThreadState : u = Resting /\ u.pc = "idle"
  BY RestingIs
<1>3. worker = [s \in Senders |-> u]
  BY <1>2 DEF Init
<1>4. TypeOK
  <2>1. worker \in [Senders -> ThreadState]
    BY <1>3
  <2>2. size \in [Objects -> Nat]
    BY DEF Init
  <2>3. starts \in 0 .. MaxStarts /\ Len(frames) <= MaxFrames
    BY <1>1, PersistenceAssumption DEF Init
  <2>4. /\ frames \in Seq(Kinds) /\ data \in Seq(FileUnit) /\ listed \in Seq(Ids) /\ queue \in Seq(Objects)
        /\ Range(listed) = {} /\ Range(queue) = {}
    BY <1>1 DEF Init
  <2>5. sent = {} /\ freed = {} /\ recorded = {} /\ counted = {} /\ early = {} /\ counting = {}
        /\ repeated = {} /\ known = {}
    BY DEF Init
  <2>6. /\ index_sent \in Nat /\ index_head \in Nat /\ index_persistent \in Nat
        /\ sent_index \in Nat
        /\ linked \in BOOLEAN /\ stored \in BOOLEAN /\ writer = "idle"
        /\ manager = "idle" /\ phase = "start" /\ destination \in DestNames
    BY DEF Init
  <2> HIDE DEF ThreadState
  <2> QED BY <2>1, <2>2, <2>3, <2>4, <2>5, <2>6 DEF TypeOK
<1>5. PhaseInv
  BY DEF Init, PhaseInv
<1>6. WorkerInv
  BY <1>2, <1>3 DEF WorkerInv
<1>7. FileInv
  BY <1>1 DEF Init, FileInv, WholeFile, KnownIn, ChainedIn, PartedIn
<1> QED BY <1>4, <1>5, <1>6, <1>7 DEF Inv

LEMMA SameInv == ASSUME Inv, UNCHANGED vars PROVE Inv'
<1>1. FileInv' /\ WorkerInv'
  BY FileSame, WorkerSame DEF Inv, vars, files
<1>2. TypeOK' /\ PhaseInv'
  BY DEF Inv, TypeOK, PhaseInv, Current, vars, indexes, files, ghosts
<1> QED BY <1>1, <1>2 DEF Inv

LEMMA InvNext == ASSUME Inv, [Next]_vars PROVE Inv'
<1>1. CASE Manager
  BY <1>1, AllocInv, LinkInv, ScanInv, RestoreInv, AddInv, HeadInv, EnqueueInv DEF Manager
<1>2. CASE Writer
  BY <1>2, StopInv, InfoInv, CheckInv, ContextInv, DoneInv DEF Writer
<1>3. CASE \E s \in Senders : Sender(s)
  BY <1>3, DequeueInv, SendAndReadInv, UpdateInv, SendingDoneInv DEF Sender
<1>4. CASE Crash
  BY <1>4, RestartInv DEF Crash
<1>5. CASE int_handle
  <2>1. starts < MaxStarts
    BY <1>5 DEF Inv, PhaseInv, int_handle
  <2> QED BY <1>5, <2>1, RestartInv DEF int_handle
<1> QED BY <1>1, <1>2, <1>3, <1>4, <1>5, SendInv, CountInv, CleanupInv, SameInv DEF Next

LEMMA Invariant == Spec => []Inv
BY InvInit, InvNext, PTL DEF Spec

(* TypeOK: whatever is written, restored and lost by a crash, the state of *)
(* persistence keeps its shape; what unpersist() restores are frames that  *)
(* were sent to the daemon.                                                *)
THEOREM TypeCorrect == Spec => []TypeOK
BY Invariant, PTL DEF Inv

-----------------------------------------------------------------------------
(***************************************************************************)
(* The order of the data file.  Writing adds one name to the file, behind  *)
(* the others, or none if the frame was freed.                             *)
(***************************************************************************)
LEMMA NamesWritten ==
  ASSUME data \in Seq(FileUnit), frames \in Seq(Kinds), NEW i \in DOMAIN frames,
         data' = data \o Written(i)
  PROVE  \E m \in Nat : /\ \A n \in NamesAt : n \in Nat /\ n < m /\ data'[n] = data[n]
                        /\ \A n : n \in NamesAt' <=> n \in NamesAt \/ n = m
                        /\ data'[m].frame = i
<1>1. PICK b : b = Written(i)
  OBVIOUS
<1>2. /\ b \in Seq(FileUnit) /\ Len(b) \in Nat \ {0} /\ DOMAIN b = 1 .. Len(b)
      /\ \A n \in 1 .. Len(b) : b[n].frame = i /\ (b[n].unit = "name" <=> n = 1)
  BY <1>1, WrittenIs
<1>3. PICK l \in Nat : l = Len(data) /\ DOMAIN data = 1 .. l
  OBVIOUS
<1>4. PICK k \in Nat : k = Len(b) /\ k # 0
  BY <1>2
<1>5. PICK d : d = data'
  OBVIOUS
<1>6. DOMAIN d = 1 .. l + k /\ \A n \in 1 .. l + k : d[n] = IF n <= l THEN data[n] ELSE b[n - l]
  <2>1. /\ d \in Seq(FileUnit) /\ Len(d) = Len(data) + Len(b)
        /\ \A n \in 1 .. Len(data) + Len(b) : d[n] = IF n <= Len(data) THEN data[n] ELSE b[n - Len(data)]
    BY <1>1, <1>2, <1>5, ConcatProperties
  <2>2. DOMAIN d = 1 .. Len(d) /\ Len(d) = l + k
    BY <1>3, <1>4, <2>1
  <2>3. \A n \in 1 .. l + k : d[n] = IF n <= l THEN data[n] ELSE b[n - l]
    BY <1>3, <1>4, <2>1, Zenon
  <2> QED BY <2>2, <2>3
<1>7. \A n \in 1 .. l : n \in 1 .. l + k /\ d[n] = data[n] /\ n < l + 1
  BY <1>6
<1>8. \A n \in 1 .. l + k : n \notin 1 .. l => d[n] = b[n - l] /\ n - l \in 1 .. k /\ (n - l = 1 <=> n = l + 1)
  BY <1>6
<1>9. l + 1 \in 1 .. l + k /\ l + 1 \notin 1 .. l /\ l + 1 \in Nat
  BY <1>4
<1>10. d[l + 1].frame = i /\ d[l + 1].unit = "name"
  <2>1. (l + 1) - l = 1 /\ 1 \in 1 .. k
    BY <1>4
  <2>2. d[l + 1] = b[1]
    BY <1>8, <1>9, <2>1
  <2>3. 1 \in DOMAIN b
    BY <1>2, <1>4, <2>1
  <2>4. b[1].frame = i /\ b[1].unit = "name"
    BY <1>2, <2>3
  <2> QED BY <2>2, <2>4
<1>11. ASSUME NEW n PROVE n \in NamesAt' <=> n \in NamesAt \/ n = l + 1
  <2>1. n \in NamesAt' <=> n \in 1 .. l + k /\ d[n].unit = "name"
    BY <1>5, <1>6 DEF NamesAt
  <2>2. n \in NamesAt <=> n \in 1 .. l /\ data[n].unit = "name"
    BY <1>3 DEF NamesAt
  <2>3. CASE n \in 1 .. l
    BY <1>7, <1>9, <2>1, <2>2, <2>3
  <2>4. CASE n \notin 1 .. l /\ n \in 1 .. l + k
    BY <1>2, <1>4, <1>8, <1>10, <2>1, <2>2, <2>4
  <2>5. CASE n \notin 1 .. l + k
    BY <1>7, <1>9, <2>1, <2>2, <2>5
  <2> QED BY <2>3, <2>4, <2>5
<1>12. \A n \in NamesAt : n \in 1 .. l
  BY <1>3 DEF NamesAt
<1>13. \A n \in NamesAt : n \in Nat /\ n < l + 1 /\ data'[n] = data[n]
  <2>1. \A n \in 1 .. l : n \in Nat
    OBVIOUS
  <2> QED BY <1>5, <1>7, <1>12, <2>1
<1>14. data'[l + 1].frame = i
  BY <1>5, <1>10
<1> QED BY <1>9, <1>11, <1>13, <1>14

LEMMA NamesOfJunk ==
  ASSUME data \in Seq(FileUnit), data' = data \o <<Junk>>
  PROVE  NamesAt' = NamesAt /\ \A n \in NamesAt : n \in Nat /\ data'[n] = data[n]
<1>1. PICK j \in FileUnit : j = Junk /\ j.unit = "junk"
  BY DEF Junk, FileUnit
<1>2. PICK l \in Nat : l = Len(data) /\ DOMAIN data = 1 .. l
  OBVIOUS
<1>3. PICK d : d = Append(data, j)
  OBVIOUS
<1>4. d = data'
  BY <1>1, <1>3, AppendIsConcat
<1>5. DOMAIN d = 1 .. l + 1 /\ (\A n \in 1 .. l : d[n] = data[n]) /\ d[l + 1] = j
  BY <1>2, <1>3, AppendIs
<1>6. ASSUME NEW n PROVE n \in NamesAt' <=> n \in NamesAt
  <2>1. n \in 1 .. l + 1 <=> n \in 1 .. l \/ n = l + 1
    OBVIOUS
  <2> QED BY <1>1, <1>2, <1>4, <1>5, <2>1 DEF NamesAt
<1>7. \A n \in NamesAt : n \in 1 .. l
  BY <1>2 DEF NamesAt
<1>8. \A n \in 1 .. l : n \in Nat
  OBVIOUS
<1>9. NamesAt' = NamesAt
  BY <1>6
<1>10. \A n \in NamesAt : n \in Nat /\ data'[n] = data[n]
  BY <1>4, <1>5, <1>7, <1>8
<1> QED BY <1>9, <1>10

(* The frame that is on its way into the list came after all that are in   *)
(* the list and in the file.                                               *)
NewestLast ==
  (phase # "start" /\ manager \in {"create", "link", "add"}) =>
    \A i \in InFile \cup Range(listed) : i < Current
OrderInv == FileInOrder /\ NewestLast

LEMMA InFileKnown == ASSUME Inv PROVE InFile \subseteq DOMAIN frames
BY DEF Inv, FileInv, WholeFile, KnownIn, InFile, NamesAt

LEMMA OrderSame ==
  ASSUME OrderInv, data' = data, listed' = listed \/ listed' = <<>>,
         (phase' # "start" /\ manager' \in {"create", "link", "add"}) =>
           phase # "start" /\ manager \in {"create", "link", "add"} /\ frames' = frames
  PROVE  OrderInv'
<1>1. NamesAt' = NamesAt /\ InFile' = InFile
  BY DEF NamesAt, InFile
<1>2. DOMAIN <<>> = {} /\ Range(<<>>) = {}
  BY DEF Range
<1>3. FileInOrder'
  BY <1>1, <1>2 DEF OrderInv, FileInOrder
<1>4. NewestLast'
  BY <1>1, <1>2 DEF OrderInv, NewestLast, Current
<1> QED BY <1>3, <1>4 DEF OrderInv

LEMMA OrderSend ==
  ASSUME Inv, OrderInv, NEW kind \in Kinds, handler_stomp_send(kind)
  PROVE  OrderInv'
<1>1. data' = data /\ listed' = listed /\ frames' = Append(frames, kind)
  BY DEF handler_stomp_send, files
<1>2. NamesAt' = NamesAt /\ InFile' = InFile
  BY <1>1 DEF NamesAt, InFile
<1>3. Current' = Len(frames) + 1 /\ \A i \in DOMAIN frames : i < Len(frames) + 1
  <2>1. frames \in Seq(Kinds)
    BY DEF Inv, TypeOK
  <2> QED BY <1>1, <2>1 DEF Current
<1>4. InFile \cup Range(listed) \subseteq DOMAIN frames
  BY InFileKnown DEF Inv, TypeOK
<1>5. NewestLast'
  BY <1>1, <1>2, <1>3, <1>4 DEF NewestLast
<1> QED BY <1>1, <1>2, <1>5 DEF OrderInv, FileInOrder

LEMMA OrderAdd ==
  ASSUME Inv, OrderInv, add_frame_into_qinfo
  PROVE  OrderInv'
<1>1. data' = data /\ manager' = "head" /\ manager = "add"
  BY DEF add_frame_into_qinfo, files
<1>2. NamesAt' = NamesAt /\ InFile' = InFile /\ NewestLast'
  BY <1>1 DEF NamesAt, InFile, NewestLast
<1>3. PICK c \in Ids : c = Current
  BY <1>1, CurrentIs
<1>4. \A i \in InFile \cup Range(listed) : i < c
  BY <1>1, <1>3, CurrentIs DEF OrderInv, NewestLast
<1>5. CASE listed' = listed
  BY <1>1, <1>2, <1>5 DEF OrderInv, FileInOrder
<1>6. CASE listed' = Append(listed, c)
  <2>1. PICK l : l = Append(listed, c)
    OBVIOUS
  <2>2. listed \in Seq(Ids)
    BY DEF Inv, TypeOK
  <2>3. /\ Len(listed) \in Nat /\ DOMAIN listed = 1 .. Len(listed) /\ DOMAIN l = 1 .. Len(listed) + 1
        /\ \A k \in 1 .. Len(listed) : l[k] = listed[k]
        /\ l[Len(listed) + 1] = c
    BY <2>1, <2>2, AppendIs
  <2>4. Range(l) = Range(listed) \cup {c}
    BY <2>1, <2>2, AppendRange
  <2>5. ASSUME NEW m \in DOMAIN l, NEW n \in DOMAIN l, m < n PROVE l[m] < l[n]
    <3>1. CASE n = Len(listed) + 1
      <4>1. m \in DOMAIN listed
        BY <2>3, <2>5, <3>1
      <4>2. listed[m] \in Range(listed)
        BY <4>1 DEF Range
      <4> QED BY <1>4, <2>3, <3>1, <4>1, <4>2
    <3>2. CASE n # Len(listed) + 1
      <4>1. m \in DOMAIN listed /\ n \in DOMAIN listed
        BY <2>3, <2>5, <3>2
      <4> QED BY <2>3, <2>5, <4>1 DEF OrderInv, FileInOrder
    <3> QED BY <3>1, <3>2
  <2>6. \A i \in InFile, j \in Range(l) : i < j
    BY <1>4, <2>4 DEF OrderInv, FileInOrder
  <2>7. l = listed'
    BY <1>6, <2>1
  <2>8. FileInOrder'
    BY <1>1, <1>2, <2>5, <2>6, <2>7 DEF OrderInv, FileInOrder
  <2> QED BY <1>2, <2>8 DEF OrderInv
<1> QED BY <1>3, <1>5, <1>6 DEF add_frame_into_qinfo

LEMMA OrderContext ==
  ASSUME Inv, OrderInv, persist_queue_context
  PROVE  OrderInv'
<1>1. PICK i \in DOMAIN frames :
        /\ i \in Ids /\ listed # <<>> /\ i = Head(listed) /\ listed' = Tail(listed)
        /\ data' = data \o Written(i) \/ data' = data \o <<Junk>>
  BY ContextIs
<1>2. phase' = phase /\ manager' = manager /\ frames' = frames
  BY DEF persist_queue_context
<1>3. data \in Seq(FileUnit) /\ frames \in Seq(Kinds) /\ listed \in Seq(Ids)
  BY DEF Inv, TypeOK
<1>4. PICK t : t = Tail(listed)
  OBVIOUS
<1>5. PICK l \in Nat \ {0} :
        /\ DOMAIN listed = 1 .. l /\ i = listed[1] /\ DOMAIN t = 1 .. l - 1
        /\ \A k \in 1 .. l - 1 : t[k] = listed[k + 1]
  BY <1>1, <1>3, <1>4, TailIs
<1>6. \A k \in 1 .. l - 1 : k + 1 \in 1 .. l /\ 1 < k + 1 /\ 1 \in 1 .. l
  OBVIOUS
<1>7. \A k \in DOMAIN t : i < t[k]
  BY <1>5, <1>6 DEF OrderInv, FileInOrder
<1>8. \A m, n \in DOMAIN t : m < n => t[m] < t[n]
  <2> SUFFICES ASSUME NEW m \in 1 .. l - 1, NEW n \in 1 .. l - 1, m < n PROVE t[m] < t[n]
    BY <1>5
  <2>1. m + 1 < n + 1
    OBVIOUS
  <2> QED BY <1>5, <1>6, <2>1 DEF OrderInv, FileInOrder
<1>9. Range(t) \subseteq Range(listed) /\ i \in Range(listed)
  BY <1>1, <1>3, <1>4, TailRange
<1>10. \A j \in Range(t) : i < j
  BY <1>7 DEF Range
<1>11. t = listed'
  BY <1>1, <1>4
<1>12. CASE data' = data \o Written(i)
  <2>1. PICK m \in Nat : /\ \A n \in NamesAt : n \in Nat /\ n < m /\ data'[n] = data[n]
                         /\ \A n : n \in NamesAt' <=> n \in NamesAt \/ n = m
                         /\ data'[m].frame = i
    BY <1>3, <1>12, NamesWritten
  <2>2. \A n \in NamesAt : data[n].frame < i
    BY <1>9 DEF OrderInv, FileInOrder, InFile
  <2>3. ASSUME NEW a \in NamesAt', NEW b \in NamesAt', a < b PROVE data'[a].frame < data'[b].frame
    <3>1. a \in NamesAt
      BY <2>1, <2>3
    <3>2. CASE b \in NamesAt
      BY <2>1, <2>3, <3>1, <3>2 DEF OrderInv, FileInOrder
    <3>3. CASE b = m
      BY <2>1, <2>2, <3>1, <3>3
    <3> QED BY <2>1, <3>2, <3>3
  <2>4. InFile' = InFile \cup {i}
    <3>1. \A j \in InFile' : j \in InFile \/ j = i
      BY <2>1 DEF InFile
    <3>2. \A j \in InFile : j \in InFile'
      BY <2>1 DEF InFile
    <3>3. i \in InFile'
      BY <2>1 DEF InFile
    <3> QED BY <3>1, <3>2, <3>3
  <2>5. \A j \in InFile', k \in Range(t) : j < k
    BY <1>9, <1>10, <2>4 DEF OrderInv, FileInOrder
  <2>6. FileInOrder'
    BY <1>8, <1>11, <2>3, <2>5 DEF FileInOrder
  <2>7. NewestLast'
    BY <1>2, <1>9, <1>11, <2>4 DEF OrderInv, NewestLast, Current
  <2> QED BY <2>6, <2>7 DEF OrderInv
<1>13. CASE data' = data \o <<Junk>>
  <2>1. NamesAt' = NamesAt /\ \A n \in NamesAt : n \in Nat /\ data'[n] = data[n]
    BY <1>3, <1>13, NamesOfJunk
  <2>2. InFile' = InFile
    BY <2>1 DEF InFile
  <2>3. FileInOrder'
    BY <1>8, <1>9, <1>11, <2>1, <2>2 DEF OrderInv, FileInOrder
  <2>4. NewestLast'
    BY <1>2, <1>9, <1>11, <2>2 DEF OrderInv, NewestLast, Current
  <2> QED BY <2>3, <2>4 DEF OrderInv
<1> QED BY <1>1, <1>12, <1>13

LEMMA OrderInit == Init => OrderInv
<1> SUFFICES ASSUME Init PROVE OrderInv
  OBVIOUS
<1>1. data = <<>> /\ listed = <<>> /\ DOMAIN <<>> = {} /\ phase = "start"
  BY DEF Init
<1>2. NamesAt = {} /\ InFile = {}
  BY <1>1 DEF NamesAt, InFile
<1> QED BY <1>1, <1>2 DEF OrderInv, FileInOrder, NewestLast

LEMMA OrderManager == ASSUME Inv, OrderInv, Manager PROVE OrderInv'
<1>1. CASE alloc_qinfo
  BY <1>1, OrderSame DEF alloc_qinfo
<1>2. CASE LinkQinfo
  BY <1>2, OrderSame DEF LinkQinfo
<1>3. CASE UnpersistScan
  BY <1>3, OrderSame DEF UnpersistScan, files
<1>4. CASE unpersist
  BY <1>4, OrderSame DEF unpersist, files
<1>5. CASE add_frame_into_qinfo
  BY <1>5, OrderAdd
<1>6. CASE persist_frame
  BY <1>6, OrderSame DEF persist_frame, files
<1>7. CASE enqueue
  BY <1>7, OrderSame DEF enqueue, files
<1> QED BY <1>1, <1>2, <1>3, <1>4, <1>5, <1>6, <1>7 DEF Manager

LEMMA OrderNext == ASSUME Inv, OrderInv, [Next]_vars PROVE OrderInv'
<1>1. CASE \E kind \in Kinds : handler_stomp_send(kind)
  BY <1>1, OrderSend
<1>2. CASE \E i \in Ids : CountNul(i)
  BY <1>2, OrderSame DEF CountNul, files
<1>3. CASE Manager
  BY <1>3, OrderManager
<1>4. CASE persist_queue_context
  BY <1>4, OrderContext
<1>5. CASE TestStop \/ ListEmpty \/ persist_queue_info \/ persistent_worker \/ ContextDone
  BY <1>5, OrderSame DEF TestStop, ListEmpty, persist_queue_info, persistent_worker, ContextDone, files
<1>6. CASE \E s \in Senders : Sender(s)
  <2>1. PICK s \in Senders : Sender(s)
    BY <1>6
  <2>2. UNCHANGED <<data, listed, phase, manager, frames>>
    BY <2>1 DEF Sender, dequeue, SendAndRead, update_index_sent, SendingDone, files
  <2> QED BY <2>2, OrderSame
<1>7. CASE cleanup_persistent_worker
  <2>1. UNCHANGED <<data, manager, frames>> /\ phase = "run" /\ listed' = <<>>
    BY <1>7 DEF cleanup_persistent_worker, free_qinfo, files
  <2> QED BY <2>1, OrderSame
<1>8. CASE Crash \/ int_handle
  <2>1. data' = data /\ listed' = <<>> /\ phase' = "start"
    BY <1>8 DEF Crash, int_handle, Restart, files
  <2> QED BY <2>1, OrderSame
<1>9. CASE UNCHANGED vars
  BY <1>9, OrderSame DEF vars, files
<1> QED BY <1>1, <1>2, <1>3, <1>4, <1>5, <1>6, <1>7, <1>8, <1>9 DEF Next, Writer

(* FileInOrder: over all starts of the daemon persist_queue_context()      *)
(* appends frames in the order in which they came and each once, and the   *)
(* list holds only later ones, whatever a crash or SIGINT interrupts.      *)
THEOREM Appended == Spec => []FileInOrder
<1>1. Init => OrderInv
  BY OrderInit
<1>2. Inv /\ OrderInv /\ [Next]_vars => OrderInv'
  BY OrderNext
<1>3. OrderInv => FileInOrder
  BY DEF OrderInv
<1> QED BY <1>1, <1>2, <1>3, Invariant, PTL DEF Spec

-----------------------------------------------------------------------------
(* RestoredWhole: wherever in the data file parse_frame() begins, a frame  *)
(* comes out of it with its own lines only and with the body it had,       *)
(* unless it has a reply-to header; pieces of two frames make one only     *)
(* when a line that begins with the name of a command comes before the     *)
(* first name, and then only the first.                                    *)
THEOREM Restored == Spec => []RestoredWhole
<1>1. Inv => RestoredWhole
  <2> SUFFICES ASSUME Inv, NEW from \in 0 .. Len(data),
                      NEW n \in DOMAIN unpersist_queue_context(from)
               PROVE  Whole(unpersist_queue_context(from)[n]) \/ (n = 1 /\ Misread(from))
    BY DEF RestoredWhole
  <2>1. from \in Nat
    OBVIOUS
  <2> QED BY <2>1, UnpersistFinds DEF Inv
<1> QED BY <1>1, Invariant, PTL

-----------------------------------------------------------------------------
(***************************************************************************)
(* The two indexes.  First what Total() adds up: it is the last of the     *)
(* sums its recursive definition makes, one more for an element appended   *)
(* and one less for the head removed.                                      *)
(***************************************************************************)
LEMMA TotalIs ==
  ASSUME NEW s, Len(s) \in Nat
  PROVE  \E f : Sums(f, s, Len(s)) /\ Total(s) = f[Len(s)]
<1>1. PICK L \in Nat : L = Len(s)
  OBVIOUS
<1>2. PICK f : f = CHOOSE g : Sums(g, s, L)
  OBVIOUS
<1>3. Sums(f, s, L)
  BY <1>2, SumsExist
<1>4. Total(s) = f[Len(s)]
  BY <1>1, <1>2 DEF Total, Sums
<1> QED BY <1>1, <1>3, <1>4

(* Two sums with the same terms differ by what they began with. *)
Shifted(f, g, a, o, c, K) ==
  /\ K \in Nat /\ o \in Nat /\ c \in Nat
  /\ g[0] = 0 /\ f[o] = c
  /\ \A n \in 1 .. K : a[n] \in Nat
  /\ \A n \in 1 .. K : f[o + n] = f[(o + n) - 1] + a[n] /\ g[n] = g[n - 1] + a[n]
Differ(f, g, o, c, K) == \A n \in 0 .. K : g[n] \in Nat /\ f[o + n] = c + g[n]

LEMMA SumsDiffer ==
  ASSUME NEW f, NEW g, NEW a, NEW o, NEW c, NEW K, Shifted(f, g, a, o, c, K)
  PROVE  Differ(f, g, o, c, K)
<1> DEFINE Ok(n) == g[n] \in Nat /\ f[o + n] = c + g[n]
           Bad == {n \in 0 .. K : ~Ok(n)}
<1> USE DEF Shifted
<1>1. CASE Bad = {}
  BY <1>1 DEF Differ
<1>2. CASE Bad # {}
  <2>1. Bad \in SUBSET Nat
    OBVIOUS
  <2>2. PICK k \in Bad : \A j \in Bad : k <= j
    <3> HIDE DEF Bad
    <3> QED BY <1>2, <2>1, Least
  <2>3. k \in 0 .. K /\ ~Ok(k)
    OBVIOUS
  <2>4. k # 0
    <3>1. Ok(0)
      OBVIOUS
    <3> HIDE DEF Ok
    <3> QED BY <2>3, <3>1
  <2>5. PICK j \in 0 .. K : j = k - 1 /\ ~(k <= j) /\ k \in 1 .. K /\ (o + k) - 1 = o + j
    BY <2>3, <2>4
  <2>6. Ok(j)
    BY <2>2, <2>5
  <2>7. f[o + k] = f[o + j] + a[k] /\ g[k] = g[j] + a[k] /\ a[k] \in Nat
    BY <2>5
  <2>8. Ok(k)
    <3>1. g[j] \in Nat /\ f[o + j] = c + g[j]
      BY <2>6
    <3>2. g[k] \in Nat /\ f[o + k] = c + g[k]
      BY <2>7, <3>1
    <3> QED BY <3>2
  <2> HIDE DEF Ok
  <2> QED BY <2>3, <2>8
<1> QED BY <1>1, <1>2

LEMMA SumsStep ==
  ASSUME NEW L \in Nat, NEW f, NEW s, Sums(f, s, L)
  PROVE  f[0] = 0 /\ \A n \in 1 .. L : f[n] = f[n - 1] + s[n]
<1>1. \A n \in 0 .. L : f[n] = IF n = 0 THEN 0 ELSE f[n - 1] + s[n]
  BY DEF Sums
<1>2. 0 \in 0 .. L /\ \A n \in 1 .. L : n \in 0 .. L /\ n # 0
  OBVIOUS
<1> QED BY <1>1, <1>2

LEMMA TotalAppend ==
  ASSUME NEW s \in Seq(Nat), NEW x \in Nat, NEW t,
         Len(t) = Len(s) + 1, \A n \in 1 .. Len(s) : t[n] = s[n], t[Len(s) + 1] = x
  PROVE  Total(t) = Total(s) + x /\ Total(s) \in Nat
<1>1. PICK L \in Nat : L = Len(s) /\ \A n \in 1 .. L : s[n] \in Nat
  OBVIOUS
<1>2. PICK f : Sums(f, s, L) /\ Total(s) = f[L]
  BY <1>1, TotalIs
<1>3. PICK g : Sums(g, t, L + 1) /\ Total(t) = g[L + 1]
  <2>1. L + 1 \in Nat /\ Len(t) = L + 1
    BY <1>1
  <2> QED BY <2>1, TotalIs
<1>4. f[0] = 0 /\ \A n \in 1 .. L : f[n] = f[n - 1] + s[n]
  BY <1>2, SumsStep
<1>5. g[0] = 0 /\ \A n \in 1 .. L + 1 : g[n] = g[n - 1] + t[n]
  BY <1>3, SumsStep
<1>6. PICK o \in Nat : o = 0
  OBVIOUS
<1>7. ASSUME NEW n \in 1 .. L
      PROVE  g[o + n] = g[(o + n) - 1] + s[n] /\ f[n] = f[n - 1] + s[n]
  <2>1. o + n = n /\ n \in 1 .. L + 1
    BY <1>6
  <2> QED BY <1>1, <1>4, <1>5, <2>1
<1>8. g[o] = o
  BY <1>5, <1>6
<1>9. \A n \in 0 .. L : f[n] \in Nat /\ g[o + n] = o + f[n]
  <2>1. f[0] = 0 /\ \A n \in 1 .. L : s[n] \in Nat
    BY <1>1, <1>4
  <2>2. \A n \in 1 .. L : g[o + n] = g[(o + n) - 1] + s[n] /\ f[n] = f[n - 1] + s[n]
    BY <1>7
  <2>3. Shifted(g, f, s, o, o, L)
    BY <1>8, <2>1, <2>2 DEF Shifted
  <2>4. Differ(g, f, o, o, L)
    BY <2>3, SumsDiffer
  <2> QED BY <2>4 DEF Differ
<1>10. L \in 0 .. L /\ L + 1 \in 1 .. L + 1 /\ (L + 1) - 1 = L /\ o + L = L
  BY <1>6
<1>11. g[L + 1] = g[L] + x
  BY <1>1, <1>5, <1>10
<1>12. f[L] \in Nat /\ g[L] = f[L]
  BY <1>6, <1>9, <1>10
<1> QED BY <1>2, <1>3, <1>11, <1>12

LEMMA TotalTail ==
  ASSUME NEW s \in Seq(Nat), NEW t, Len(s) # 0,
         Len(t) = Len(s) - 1, \A n \in 1 .. Len(s) - 1 : t[n] = s[n + 1]
  PROVE  Total(s) = s[1] + Total(t) /\ Total(t) \in Nat
<1>1. PICK L \in Nat : L = Len(s) - 1 /\ L + 1 = Len(s) /\ \A n \in 1 .. L + 1 : s[n] \in Nat
  OBVIOUS
<1>2. PICK f : Sums(f, s, L + 1) /\ Total(s) = f[L + 1]
  BY <1>1, TotalIs
<1>3. PICK g : Sums(g, t, L) /\ Total(t) = g[L]
  BY <1>1, TotalIs
<1>4. f[0] = 0 /\ \A n \in 1 .. L + 1 : f[n] = f[n - 1] + s[n]
  BY <1>2, SumsStep
<1>5. g[0] = 0 /\ \A n \in 1 .. L : g[n] = g[n - 1] + t[n]
  BY <1>3, SumsStep
<1>6. PICK o \in Nat : o = 1 /\ o \in 1 .. L + 1 /\ o - 1 = 0
  OBVIOUS
<1>7. f[1] = s[1] /\ s[1] \in Nat
  BY <1>1, <1>4, <1>6
<1>8. ASSUME NEW n \in 1 .. L
      PROVE  t[n] \in Nat /\ f[o + n] = f[(o + n) - 1] + t[n] /\ g[n] = g[n - 1] + t[n]
  <2>1. n + 1 \in 1 .. L + 1 /\ n + 1 = o + n
    BY <1>6
  <2> QED BY <1>1, <1>4, <1>5, <2>1
<1>9. PICK c \in Nat : c = s[1] /\ f[o] = c
  BY <1>6, <1>7
<1>10. \A n \in 0 .. L : g[n] \in Nat /\ f[o + n] = c + g[n]
  <2>1. \A n \in 1 .. L : t[n] \in Nat
    BY <1>8
  <2>2. \A n \in 1 .. L : f[o + n] = f[(o + n) - 1] + t[n] /\ g[n] = g[n - 1] + t[n]
    BY <1>8
  <2>3. g[0] = 0 /\ f[o] = c
    BY <1>5, <1>9
  <2>4. Shifted(f, g, t, o, c, L)
    BY <2>1, <2>2, <2>3 DEF Shifted
  <2>5. Differ(f, g, o, c, L)
    BY <2>4, SumsDiffer
  <2> QED BY <2>5 DEF Differ
<1>11. L \in 0 .. L /\ o + L = L + 1
  BY <1>6
<1> QED BY <1>2, <1>3, <1>9, <1>10, <1>11

LEMMA TotalEmpty == Total(<<>>) = 0
<1>1. PICK s : s = <<>>
  OBVIOUS
<1>2. Len(s) = 0
  BY <1>1
<1>3. PICK f : Sums(f, s, 0) /\ Total(s) = f[0]
  BY <1>2, TotalIs
<1> QED BY <1>1, <1>3, SumsStep

(* The sizes of the frames of a list. *)
SizesOf(l) == [n \in DOMAIN l |-> FullSize(frames[l[n]])]

LEMMA SizesAre ==
  ASSUME Inv, NEW l \in Seq(Ids), Range(l) \subseteq DOMAIN frames
  PROVE  /\ SizesOf(l) \in Seq(Nat) /\ Len(SizesOf(l)) = Len(l) /\ Len(l) \in Nat
         /\ \A n \in 1 .. Len(l) : SizesOf(l)[n] = FullSize(frames[l[n]])
         /\ FullSizes(l) = Total(SizesOf(l))
<1>1. Len(l) \in Nat /\ DOMAIN l = 1 .. Len(l)
  OBVIOUS
<1>2. PICK s : s = SizesOf(l)
  OBVIOUS
<1>3. \A n \in 1 .. Len(l) : FullSize(frames[l[n]]) \in Nat
  <2> SUFFICES ASSUME NEW n \in 1 .. Len(l) PROVE FullSize(frames[l[n]]) \in Nat
    OBVIOUS
  <2>1. l[n] \in DOMAIN frames
    BY <1>1 DEF Range
  <2>2. PICK k : k = frames[l[n]]
    OBVIOUS
  <2>3. k \in {"body", "empty", "reply", "quoting"}
    BY <2>1, <2>2, KindOf DEF Inv, TypeOK
  <2> QED BY <2>2, <2>3, FullSizeIs
<1>4. s \in [1 .. Len(l) -> Nat] /\ \A n \in 1 .. Len(l) : s[n] = FullSize(frames[l[n]])
  BY <1>1, <1>2, <1>3 DEF SizesOf
<1>5. s \in Seq(Nat) /\ Len(s) = Len(l)
  BY <1>1, <1>4
<1>6. FullSizes(l) = Total(s)
  BY <1>2 DEF FullSizes, SizesOf
<1> QED BY <1>1, <1>2, <1>4, <1>5, <1>6

LEMMA SizesAppend ==
  ASSUME Inv, NEW l \in Seq(Ids), Range(l) \subseteq DOMAIN frames, NEW c \in DOMAIN frames
  PROVE  FullSizes(Append(l, c)) = FullSizes(l) + FullSize(frames[c])
         /\ FullSizes(l) \in Nat /\ FullSize(frames[c]) \in Nat
<1>1. PICK m : m = Append(l, c)
  OBVIOUS
<1>2. c \in Ids
  BY FramesInIds DEF Inv
<1>3. m \in Seq(Ids) /\ Range(m) \subseteq DOMAIN frames
  BY <1>1, <1>2, AppendRange
<1>4. PICK s : s = SizesOf(l)
  OBVIOUS
<1>5. PICK t : t = SizesOf(m)
  OBVIOUS
<1>6. /\ Len(l) \in Nat /\ DOMAIN l = 1 .. Len(l) /\ DOMAIN m = 1 .. Len(l) + 1
      /\ \A k \in 1 .. Len(l) : m[k] = l[k]
      /\ m[Len(l) + 1] = c
  BY <1>1, <1>2, AppendIs
<1>7. Len(m) = Len(l) + 1
  BY <1>3, <1>6
<1>8. /\ s \in Seq(Nat) /\ Len(s) = Len(l) /\ FullSizes(l) = Total(s)
      /\ \A n \in 1 .. Len(l) : s[n] = FullSize(frames[l[n]])
  BY <1>4, SizesAre
<1>9. /\ t \in Seq(Nat) /\ Len(t) = Len(l) + 1 /\ FullSizes(m) = Total(t)
      /\ \A n \in 1 .. Len(l) + 1 : t[n] = FullSize(frames[m[n]])
  BY <1>3, <1>5, <1>7, SizesAre
<1>10. PICK x : x = FullSize(frames[c])
  OBVIOUS
<1>11. Len(l) + 1 \in 1 .. Len(l) + 1 /\ \A n \in 1 .. Len(l) : n \in 1 .. Len(l) + 1
  BY <1>6
<1>12. t[Len(s) + 1] = x /\ x \in Nat
  <2>1. t[Len(s) + 1] = x
    BY <1>6, <1>8, <1>9, <1>10, <1>11
  <2>2. t[Len(l) + 1] \in Nat
    BY <1>9, <1>11
  <2> QED BY <1>8, <2>1, <2>2
<1>13. \A n \in 1 .. Len(s) : t[n] = s[n]
  BY <1>6, <1>8, <1>9, <1>11
<1>14. Total(t) = Total(s) + x /\ Total(s) \in Nat
  <2>1. s \in Seq(Nat) /\ x \in Nat /\ t[Len(s) + 1] = x
    BY <1>8, <1>12
  <2>2. Len(t) = Len(s) + 1
    BY <1>8, <1>9
  <2> QED BY <1>13, <2>1, <2>2, TotalAppend
<1> QED BY <1>1, <1>8, <1>9, <1>10, <1>12, <1>14

LEMMA SizesTail ==
  ASSUME Inv, NEW l \in Seq(Ids), Range(l) \subseteq DOMAIN frames, l # <<>>
  PROVE  FullSizes(l) = FullSize(frames[Head(l)]) + FullSizes(Tail(l))
         /\ FullSizes(Tail(l)) \in Nat /\ FullSize(frames[Head(l)]) \in Nat
<1>1. PICK m : m = Tail(l)
  OBVIOUS
<1>2. m \in Seq(Ids) /\ Range(m) \subseteq DOMAIN frames
  BY <1>1, TailRange
<1>3. /\ Len(l) \in Nat \ {0} /\ DOMAIN l = 1 .. Len(l) /\ Head(l) = l[1]
      /\ DOMAIN m = 1 .. Len(l) - 1
      /\ \A k \in 1 .. Len(l) - 1 : m[k] = l[k + 1]
  BY <1>1, TailIs
<1>4. Len(m) = Len(l) - 1
  BY <1>1, HeadTailProperties
<1>5. PICK s : s = SizesOf(l)
  OBVIOUS
<1>6. PICK t : t = SizesOf(m)
  OBVIOUS
<1>7. /\ s \in Seq(Nat) /\ Len(s) = Len(l) /\ FullSizes(l) = Total(s)
      /\ \A n \in 1 .. Len(l) : s[n] = FullSize(frames[l[n]])
  BY <1>5, SizesAre
<1>8. /\ t \in Seq(Nat) /\ Len(t) = Len(l) - 1 /\ FullSizes(m) = Total(t)
      /\ \A n \in 1 .. Len(l) - 1 : t[n] = FullSize(frames[m[n]])
  BY <1>2, <1>4, <1>6, SizesAre
<1>9. 1 \in 1 .. Len(l) /\ \A n \in 1 .. Len(l) - 1 : n + 1 \in 1 .. Len(l)
  BY <1>3
<1>10. s[1] = FullSize(frames[Head(l)]) /\ s[1] \in Nat
  BY <1>3, <1>7, <1>9
<1>11. \A n \in 1 .. Len(s) - 1 : t[n] = s[n + 1]
  <2>1. ASSUME NEW n \in 1 .. Len(l) - 1 PROVE t[n] = s[n + 1]
    <3>1. t[n] = FullSize(frames[m[n]]) /\ m[n] = l[n + 1] /\ n + 1 \in 1 .. Len(l)
      BY <1>3, <1>8, <1>9
    <3>2. s[n + 1] = FullSize(frames[l[n + 1]])
      BY <1>7, <3>1
    <3> QED BY <3>1, <3>2
  <2> QED BY <1>7, <2>1
<1>12. Total(s) = s[1] + Total(t) /\ Total(t) \in Nat
  BY <1>3, <1>7, <1>8, <1>11, TotalTail
<1> QED BY <1>1, <1>7, <1>8, <1>10, <1>12

LEMMA SizesNat ==
  ASSUME Inv, NEW l \in Seq(Ids), Range(l) \subseteq DOMAIN frames
  PROVE  FullSizes(l) \in Nat
<1>1. CASE l = <<>>
  <2>1. SizesOf(l) = <<>>
    BY <1>1 DEF SizesOf
  <2> QED BY <2>1, SizesAre, TotalEmpty
<1>2. CASE l # <<>>
  <2>1. PICK a \in Nat : a = FullSize(frames[Head(l)])
    BY <1>2, SizesTail
  <2>2. PICK b \in Nat : b = FullSizes(Tail(l))
    BY <1>2, SizesTail
  <2>3. FullSizes(l) = a + b
    BY <1>2, <2>1, <2>2, SizesTail
  <2> QED BY <2>3
<1> QED BY <1>1, <1>2

LEMMA SizesEmpty == FullSizes(<<>>) = 0
<1>1. PICK l : l = <<>>
  OBVIOUS
<1>2. SizesOf(l) = <<>>
  BY <1>1 DEF SizesOf
<1> QED BY <1>1, <1>2, TotalEmpty DEF FullSizes, SizesOf

(* The sizes of a list do not change with a frame it does not hold. *)
LEMMA SizesSame ==
  ASSUME NEW l, listed' = l, \A i \in Range(l) : frames'[i] = frames[i]
  PROVE  FullSizes(listed)' = FullSizes(l)
<1>1. PICK s : s = SizesOf(l)
  OBVIOUS
<1>2. \A n \in DOMAIN l : frames'[l[n]] = frames[l[n]]
  BY DEF Range
<1>3. s = [n \in DOMAIN l |-> FullSize(frames'[l[n]])]
  <2>1. \A n \in DOMAIN l : FullSize(frames'[l[n]]) = FullSize(frames[l[n]])
    <3> HIDE DEF FullSize
    <3> QED BY <1>2
  <2> HIDE DEF FullSize
  <2> QED BY <1>1, <2>1 DEF SizesOf
<1> HIDE DEF FullSize, Total
<1> QED BY <1>1, <1>3 DEF FullSizes, SizesOf

-----------------------------------------------------------------------------
(***************************************************************************)
(* Why the indexes agree.  The queue_info_t is linked by the management    *)
(* worker alone, with equal indexes and no size read since; the size of a  *)
(* frame that is listed or on its way there is complete unless its         *)
(* connection thread has yet to count the NUL, and has not been read by    *)
(* the threads that come later; between add_frame_into_qinfo() and         *)
(* persist_frame() index_head is behind by the newest frame.               *)
(***************************************************************************)
Coming == IF phase # "start" /\ manager \in {"create", "link", "add"} THEN {Current} ELSE {}
Unread == IF phase # "start" /\ manager \in {"create", "link", "add", "head"} THEN {Current} ELSE {}
LinkedInv ==
  /\ manager \in {"create", "link"} \/ (phase = "start" /\ manager # "restore") => ~linked
  /\ manager \in {"link", "restore"} =>
       index_head = index_persistent /\ EarlyBy("head") = {} /\ EarlyBy("written") = {}
SizeInv ==
  /\ \A i \in Range(listed) \cup Unread : i \notin counting => size[i] = FullSize(frames[i])
  /\ \A i \in Range(listed) \cup Coming : <<"written", i>> \notin EarlyBy("written")
  /\ \A i \in Unread : <<"head", i>> \notin EarlyBy("head")
Behind == IF manager = "head" THEN FullSize(frames[Current]) ELSE 0
AgreeInv ==
  (linked /\ freed = {}) =>
    index_head + Cardinality(EarlyBy("head")) + Behind =
      index_persistent + Cardinality(EarlyBy("written")) + FullSizes(listed)
IndexInv == LinkedInv /\ SizeInv /\ AgreeInv

LEMMA EarlyFinite ==
  ASSUME Inv, NEW w
  PROVE  IsFiniteSet(EarlyBy(w)) /\ Cardinality(EarlyBy(w)) \in Nat
<1>1. PICK n \in Nat : n = Len(frames) /\ DOMAIN frames = 1 .. n
  BY FramesInIds DEF Inv
<1>2. IsFiniteSet(1 .. n)
  BY FS_Interval
<1>3. IsFiniteSet({"head", "written", "sent"})
  <2>1. IsFiniteSet({}) 
    BY FS_EmptySet
  <2>2. {"head", "written", "sent"} = (({} \cup {"head"}) \cup {"written"}) \cup {"sent"}
    OBVIOUS
  <2>3. IsFiniteSet(({} \cup {"head"}))
    BY <2>1, FS_AddElement
  <2>4. IsFiniteSet(({} \cup {"head"}) \cup {"written"})
    BY <2>3, FS_AddElement
  <2> QED BY <2>2, <2>4, FS_AddElement
<1>4. IsFiniteSet({"head", "written", "sent"} \X (1 .. n))
  BY <1>2, <1>3, FS_Product
<1>5. EarlyBy(w) \subseteq {"head", "written", "sent"} \X (1 .. n)
  BY <1>1 DEF Inv, TypeOK, EarlyBy
<1>6. IsFiniteSet(EarlyBy(w))
  BY <1>4, <1>5, FS_Subset
<1> QED BY <1>6, FS_CardinalityType

(* What the numbers of AgreeInv are. *)
LEMMA Numbers ==
  ASSUME Inv
  PROVE  /\ index_head \in Nat /\ index_persistent \in Nat
         /\ Cardinality(EarlyBy("head")) \in Nat /\ Cardinality(EarlyBy("written")) \in Nat
         /\ FullSizes(listed) \in Nat
BY EarlyFinite, SizesNat DEF Inv, TypeOK

(* A size that is read is the full one, or one less and noted. *)
LEMMA ReadSizeCounts ==
  ASSUME Inv, NEW w \in {"head", "written", "sent"}, NEW i \in DOMAIN frames, ReadSize(w, i),
         <<w, i>> \notin EarlyBy(w), i \notin counting => size[i] = FullSize(frames[i])
  PROVE  /\ size[i] + Cardinality(EarlyBy(w)') = FullSize(frames[i]) + Cardinality(EarlyBy(w))
         /\ Cardinality(EarlyBy(w)') \in Nat
         /\ \A j : j # i => (<<w, j>> \in EarlyBy(w)' <=> <<w, j>> \in EarlyBy(w))
<1>1. PICK e : e = EarlyBy(w)
  OBVIOUS
<1>2. IsFiniteSet(e) /\ Cardinality(e) \in Nat
  BY <1>1, EarlyFinite
<1>3. PICK f \in Nat : f = FullSize(frames[i])
  <2>1. PICK k : k = frames[i]
    OBVIOUS
  <2>2. k \in {"body", "empty", "reply", "quoting"}
    BY <2>1, KindOf DEF Inv, TypeOK
  <2> QED BY <2>1, <2>2, FullSizeIs
<1>4. CASE i \in counting
  <2>1. EarlyBy(w)' = e \cup {<<w, i>>}
    BY <1>1, <1>4 DEF ReadSize, EarlyBy
  <2>2. Cardinality(e \cup {<<w, i>>}) = Cardinality(e) + 1
    BY <1>1, <1>2, FS_AddElement
  <2>3. size[i] = f - 1
    BY <1>3, <1>4 DEF Inv, TypeOK
  <2>4. \A j : j # i => (<<w, j>> \in EarlyBy(w)' <=> <<w, j>> \in e)
    BY <2>1
  <2> QED BY <1>1, <1>2, <1>3, <2>1, <2>2, <2>3, <2>4
<1>5. CASE i \notin counting
  <2>1. EarlyBy(w)' = e
    BY <1>1, <1>5 DEF ReadSize, EarlyBy
  <2> QED BY <1>1, <1>2, <1>3, <1>5, <2>1
<1> QED BY <1>4, <1>5

LEMMA ReadSizeOthers ==
  ASSUME NEW w, NEW v, v # w, NEW i, ReadSize(w, i)
  PROVE  EarlyBy(v)' = EarlyBy(v)
BY DEF ReadSize, EarlyBy

(* Steps that leave the management worker, the list and the indexes alone. *)
LEMMA IndexSame ==
  ASSUME IndexInv, UNCHANGED <<phase, frames, size, counting, manager, linked, listed, index_head,
                               index_persistent>>,
         freed \subseteq freed', EarlyBy("head")' = EarlyBy("head"),
         EarlyBy("written")' = EarlyBy("written")
  PROVE  IndexInv'
<1>1. LinkedInv'
  BY DEF IndexInv, LinkedInv
<1>2. Unread' = Unread /\ Coming' = Coming /\ Behind' = Behind
  BY DEF Unread, Coming, Behind, Current
<1>3. SizeInv'
  BY <1>2 DEF IndexInv, SizeInv
<1>4. FullSizes(listed)' = FullSizes(listed)
  BY SizesSame
<1>5. freed' = {} => freed = {}
  OBVIOUS
<1>6. AgreeInv'
  BY <1>2, <1>4, <1>5 DEF IndexInv, AgreeInv
<1> QED BY <1>1, <1>3, <1>6 DEF IndexInv

LEMMA IndexSender ==
  ASSUME Inv, IndexInv, NEW s \in Senders, Sender(s)
  PROVE  IndexInv'
<1>1. CASE dequeue(s)
  BY <1>1, IndexSame DEF dequeue, indexes, EarlyBy
<1>2. CASE SendAndRead(s)
  <2>1. PICK i : i = worker[s].frame
    OBVIOUS
  <2>2. ReadSize("sent", i)
    BY <1>2, <2>1 DEF SendAndRead
  <2>3. EarlyBy("head")' = EarlyBy("head") /\ EarlyBy("written")' = EarlyBy("written")
    BY <2>2, ReadSizeOthers
  <2>4. UNCHANGED <<phase, frames, size, counting, manager, linked, listed, index_head,
                    index_persistent, freed>>
    BY <1>2 DEF SendAndRead, indexes
  <2> QED BY <2>3, <2>4, IndexSame
<1>3. CASE update_index_sent(s)
  BY <1>3, IndexSame DEF update_index_sent, ghosts, EarlyBy
<1>4. CASE SendingDone(s)
  <2>1. freed \subseteq freed'
    BY <1>4 DEF SendingDone
  <2> QED BY <1>4, <2>1, IndexSame DEF SendingDone, indexes, ghosts, EarlyBy
<1> QED BY <1>1, <1>2, <1>3, <1>4 DEF Sender

LEMMA IndexInit == Init => IndexInv
<1> SUFFICES ASSUME Init PROVE IndexInv
  OBVIOUS
<1>1. phase = "start" /\ manager = "idle" /\ linked = FALSE /\ listed = <<>> /\ Range(<<>>) = {}
  BY DEF Init, Range
<1>2. Unread = {} /\ Coming = {}
  BY <1>1 DEF Unread, Coming
<1> QED BY <1>1, <1>2 DEF IndexInv, LinkedInv, SizeInv, AgreeInv

LEMMA IndexRestart == ASSUME Restart PROVE IndexInv'
<1>1. phase' = "start" /\ manager' = "idle" /\ linked' = FALSE /\ listed' = <<>> /\ Range(<<>>) = {}
  BY DEF Restart, Range
<1>2. Unread' = {} /\ Coming' = {}
  BY <1>1 DEF Unread, Coming
<1> QED BY <1>1, <1>2 DEF IndexInv, LinkedInv, SizeInv, AgreeInv

LEMMA EmptyRange == Range(<<>>) = {}
BY DEF Range

LEMMA IndexAlloc == ASSUME Inv, IndexInv, alloc_qinfo PROVE IndexInv'
<1>1. /\ manager = "create" /\ manager' = "link" /\ index_head' = index_persistent'
      /\ early' = EarlyBy("sent")
      /\ UNCHANGED <<phase, frames, size, counting, linked, listed, freed>>
  BY DEF alloc_qinfo
<1>2. EarlyBy("head")' = {} /\ EarlyBy("written")' = {}
  BY <1>1 DEF EarlyBy
<1>3. LinkedInv' /\ ~linked'
  BY <1>1, <1>2 DEF IndexInv, LinkedInv
<1>4. Unread' = Unread
  BY <1>1 DEF Unread, Current
<1>5. SizeInv'
  BY <1>1, <1>2, <1>4 DEF IndexInv, SizeInv
<1> QED BY <1>3, <1>5 DEF IndexInv, AgreeInv

LEMMA IndexLink == ASSUME Inv, IndexInv, LinkQinfo PROVE IndexInv'
<1>1. /\ manager = "link" /\ manager' = IF phase = "start" THEN "restore" ELSE "add"
      /\ listed' = <<>>
      /\ UNCHANGED <<phase, frames, size, counting, index_head, index_persistent, freed, early>>
  BY DEF LinkQinfo, indexes, ghosts
<1>2. /\ index_head' = index_persistent'
      /\ EarlyBy("head")' = {} /\ EarlyBy("written")' = {}
  BY <1>1 DEF IndexInv, LinkedInv, EarlyBy
<1>3. LinkedInv'
  BY <1>1, <1>2 DEF LinkedInv
<1>4. Unread' = Unread
  BY <1>1 DEF Unread, Current
<1>5. SizeInv'
  BY <1>1, <1>2, <1>4, EmptyRange DEF IndexInv, SizeInv
<1>6. FullSizes(listed)' = 0 /\ Behind' = 0
  <2>1. FullSizes(listed)' = FullSizes(<<>>)
    BY <1>1, EmptyRange, SizesSame
  <2> QED BY <1>1, <2>1, SizesEmpty DEF Behind
<1>7. AgreeInv'
  <2>1. index_head' \in Nat /\ index_persistent' \in Nat
    BY <1>1 DEF Inv, TypeOK
  <2>2. Cardinality({}) = 0
    BY FS_EmptySet
  <2> QED BY <1>2, <1>6, <2>1, <2>2 DEF AgreeInv
<1> QED BY <1>3, <1>5, <1>7 DEF IndexInv

LEMMA IndexScan == ASSUME Inv, IndexInv, UnpersistScan PROVE IndexInv'
<1>1. /\ manager = "idle" /\ phase = "start" /\ ~linked
      /\ (manager' = "create" /\ phase' = phase) \/ (phase' = "run" /\ manager' = manager)
      /\ UNCHANGED <<frames, size, counting, linked, listed, early, freed>>
  BY DEF UnpersistScan, ghosts, IndexInv, LinkedInv
<1>2. listed = <<>>
  BY <1>1 DEF Inv, PhaseInv
<1>3. Unread' = {} /\ Coming' = {}
  BY <1>1 DEF Unread, Coming
<1>4. LinkedInv'
  BY <1>1 DEF LinkedInv
<1>5. SizeInv'
  BY <1>1, <1>2, <1>3, EmptyRange DEF SizeInv
<1> QED BY <1>1, <1>4, <1>5 DEF IndexInv, AgreeInv

LEMMA IndexRestore == ASSUME Inv, IndexInv, unpersist PROVE IndexInv'
<1>1. /\ manager = "restore" /\ manager' = "idle" /\ phase' = "run"
      /\ index_head' = Len(data) /\ index_persistent' = Len(data)
      /\ UNCHANGED <<frames, counting, linked, listed, early, freed>>
  BY DEF unpersist
<1>2. listed = <<>> /\ Len(data) \in Nat
  BY <1>1 DEF Inv, PhaseInv, TypeOK
<1>3. Unread' = {} /\ Coming' = {} /\ Behind' = 0
  BY <1>1 DEF Unread, Coming, Behind
<1>4. LinkedInv'
  BY <1>1 DEF LinkedInv
<1>5. SizeInv'
  BY <1>1, <1>2, <1>3, EmptyRange DEF SizeInv
<1>6. FullSizes(listed)' = 0
  <2>1. FullSizes(listed)' = FullSizes(<<>>)
    BY <1>1, <1>2, EmptyRange, SizesSame
  <2> QED BY <2>1, SizesEmpty
<1>7. EarlyBy("head")' = {} /\ EarlyBy("written")' = {}
  BY <1>1 DEF IndexInv, LinkedInv, EarlyBy
<1>8. AgreeInv'
  <2>1. Cardinality({}) = 0
    BY FS_EmptySet
  <2> QED BY <1>1, <1>2, <1>3, <1>6, <1>7, <2>1 DEF AgreeInv
<1> QED BY <1>4, <1>5, <1>8 DEF IndexInv

LEMMA IndexSend ==
  ASSUME Inv, IndexInv, NEW kind \in Kinds, handler_stomp_send(kind)
  PROVE  IndexInv'
<1>1. /\ manager = "idle" /\ phase # "start" /\ frames' = Append(frames, kind)
      /\ manager' = IF linked THEN "add" ELSE "create"
      /\ size' = [size EXCEPT ![Len(frames')] = FullSize(kind) - 1]
      /\ counting' = counting \cup {Len(frames')}
      /\ UNCHANGED <<phase, linked, listed, index_head, index_persistent, freed, early>>
  BY DEF handler_stomp_send, get_qinfo, indexes, ghosts
<1>2. PICK n \in Nat : n = Len(frames') /\ n \notin DOMAIN frames /\ \A i \in DOMAIN frames : frames'[i] = frames[i]
  <2>1. frames \in Seq(Kinds)
    BY DEF Inv, TypeOK
  <2>2. /\ frames' \in Seq(Kinds) /\ Len(frames) \in Nat /\ DOMAIN frames = 1 .. Len(frames)
        /\ \A i \in 1 .. Len(frames) : frames'[i] = frames[i]
    BY <1>1, <2>1, AppendIs
  <2>3. Len(frames') = Len(frames) + 1
    BY <1>1, <2>1
  <2>4. Len(frames) + 1 \in Nat /\ Len(frames) + 1 \notin 1 .. Len(frames)
    BY <2>2
  <2> QED BY <2>2, <2>3, <2>4
<1>3. Unread' = {n} /\ Coming' = {n} /\ Behind' = 0 /\ Behind = 0
  BY <1>1, <1>2 DEF Unread, Coming, Behind, Current
<1>4. LinkedInv'
  BY <1>1 DEF LinkedInv
<1>5. Range(listed) \subseteq DOMAIN frames /\ DOMAIN frames \subseteq Ids
  BY FramesInIds DEF Inv, TypeOK
<1>6. \A i \in Range(listed) : i # n /\ size'[i] = size[i] /\ frames'[i] = frames[i]
  <2>1. DOMAIN size = Objects /\ Ids \subseteq Objects
    BY FramesInIds DEF Inv, TypeOK
  <2> HIDE DEF FullSize
  <2> QED BY <1>1, <1>2, <1>5, <2>1
<1>7. EarlyBy("head")' = EarlyBy("head") /\ EarlyBy("written")' = EarlyBy("written")
  BY <1>1 DEF EarlyBy
<1>8. <<"head", n>> \notin EarlyBy("head") /\ <<"written", n>> \notin EarlyBy("written")
  BY <1>2 DEF Inv, TypeOK, EarlyBy
<1>9. SizeInv'
  <2>1. ASSUME NEW i \in Range(listed') \cup Unread', i \notin counting'
        PROVE  size'[i] = FullSize(frames'[i])
    <3>1. i \in Range(listed) /\ i \notin counting
      BY <1>1, <1>2, <1>3, <2>1
    <3>2. size[i] = FullSize(frames[i])
      BY <3>1 DEF IndexInv, SizeInv
    <3> QED BY <1>6, <3>1, <3>2
  <2>2. \A i \in Range(listed') \cup Coming' : <<"written", i>> \notin EarlyBy("written")'
    BY <1>1, <1>3, <1>7, <1>8 DEF IndexInv, SizeInv
  <2> QED BY <1>3, <1>7, <1>8, <2>1, <2>2 DEF SizeInv
<1>10. FullSizes(listed)' = FullSizes(listed)
  BY <1>1, <1>6, SizesSame
<1>11. AgreeInv'
  BY <1>1, <1>3, <1>7, <1>10 DEF IndexInv, AgreeInv
<1> QED BY <1>4, <1>9, <1>11 DEF IndexInv

LEMMA IndexCount ==
  ASSUME Inv, IndexInv, NEW i \in Ids, CountNul(i)
  PROVE  IndexInv'
<1>1. /\ i \in counting /\ size' = [size EXCEPT ![i] = @ + 1] /\ counting' = counting \ {i}
      /\ UNCHANGED <<phase, frames, manager, linked, listed, index_head, index_persistent, freed, early>>
  BY DEF CountNul, indexes, ghosts
<1>2. LinkedInv'
  BY <1>1 DEF IndexInv, LinkedInv, EarlyBy
<1>3. Unread' = Unread /\ Coming' = Coming /\ Behind' = Behind
  BY <1>1 DEF Unread, Coming, Behind, Current
<1>4. EarlyBy("head")' = EarlyBy("head") /\ EarlyBy("written")' = EarlyBy("written")
  BY <1>1 DEF EarlyBy
<1>5. PICK f : f = FullSize(frames[i])
  OBVIOUS
<1>6. f \in Nat
  <2>1. PICK k : k = frames[i]
    OBVIOUS
  <2>2. k \in {"body", "empty", "reply", "quoting"}
    BY <1>1, <2>1, KindOf DEF Inv, TypeOK
  <2> QED BY <1>5, <2>1, <2>2, FullSizeIs
<1>7. size'[i] = f
  <2>1. size[i] = f - 1 /\ DOMAIN size = Objects
    BY <1>1, <1>5 DEF Inv, TypeOK
  <2>2. size'[i] = size[i] + 1
    BY <1>1, <2>1, FramesInIds DEF Inv
  <2> QED BY <1>6, <2>1, <2>2
<1>8. \A j : j # i => size'[j] = size[j]
  BY <1>1
<1>9. SizeInv'
  <2>1. ASSUME NEW j \in Range(listed') \cup Unread', j \notin counting'
        PROVE  size'[j] = FullSize(frames'[j])
    <3>1. CASE j = i
      BY <1>1, <1>5, <1>7, <3>1
    <3>2. CASE j # i
      BY <1>1, <1>3, <1>8, <2>1, <3>2 DEF IndexInv, SizeInv
    <3> QED BY <3>1, <3>2
  <2> QED BY <1>1, <1>3, <1>4, <2>1 DEF IndexInv, SizeInv
<1>10. FullSizes(listed)' = FullSizes(listed)
  BY <1>1, SizesSame
<1>11. AgreeInv'
  BY <1>1, <1>3, <1>4, <1>10 DEF IndexInv, AgreeInv
<1> QED BY <1>2, <1>9, <1>11 DEF IndexInv

LEMMA IndexCleanup == ASSUME Inv, IndexInv, cleanup_persistent_worker PROVE IndexInv'
<1>1. /\ phase = "run" /\ phase' = "stopping" /\ linked' = FALSE /\ listed' = <<>>
      /\ UNCHANGED <<frames, size, counting, manager, index_head, index_persistent, early>>
  BY DEF cleanup_persistent_worker, free_qinfo, indexes, ghosts
<1>2. LinkedInv'
  BY <1>1 DEF IndexInv, LinkedInv, EarlyBy
<1>3. Unread' = Unread /\ Coming' = Coming
  BY <1>1 DEF Unread, Coming, Current
<1>4. EarlyBy("head")' = EarlyBy("head") /\ EarlyBy("written")' = EarlyBy("written")
  BY <1>1 DEF EarlyBy
<1>5. SizeInv'
  BY <1>1, <1>3, <1>4, EmptyRange DEF IndexInv, SizeInv
<1> QED BY <1>1, <1>2, <1>5 DEF IndexInv, AgreeInv

LEMMA FullSizeNat == ASSUME Inv, NEW i \in DOMAIN frames PROVE FullSize(frames[i]) \in Nat
<1>1. PICK k : k = frames[i]
  OBVIOUS
<1>2. k \in {"body", "empty", "reply", "quoting"}
  BY <1>1, KindOf DEF Inv, TypeOK
<1> QED BY <1>1, <1>2, FullSizeIs

LEMMA IndexAdd == ASSUME Inv, IndexInv, add_frame_into_qinfo PROVE IndexInv'
<1>1. /\ manager = "add" /\ manager' = "head"
      /\ listed' = IF linked THEN Append(listed, Current) ELSE listed
      /\ UNCHANGED <<phase, frames, size, counting, linked, index_head, index_persistent, freed, early>>
  BY DEF add_frame_into_qinfo, indexes, ghosts
<1>2. PICK c \in DOMAIN frames : c = Current /\ c \in Ids /\ phase # "start"
  BY <1>1, CurrentIs
<1>3. listed \in Seq(Ids) /\ Range(listed) \subseteq DOMAIN frames
  BY DEF Inv, TypeOK
<1>4. PICK l : l = Append(listed, c)
  OBVIOUS
<1>5. Range(l) = Range(listed) \cup {c}
  BY <1>2, <1>3, <1>4, AppendRange
<1>6. listed' = l \/ listed' = listed
  BY <1>1, <1>2, <1>4
<1>7. Unread = {c} /\ Unread' = {c} /\ Coming = {c} /\ Coming' = {}
  BY <1>1, <1>2 DEF Unread, Coming, Current
<1>8. EarlyBy("head")' = EarlyBy("head") /\ EarlyBy("written")' = EarlyBy("written")
  BY <1>1 DEF EarlyBy
<1>9. LinkedInv'
  BY <1>1, <1>2 DEF LinkedInv
<1>10. Range(listed') \subseteq Range(listed) \cup {c}
  BY <1>5, <1>6
<1>11. SizeInv'
  BY <1>1, <1>7, <1>8, <1>10 DEF IndexInv, SizeInv
<1>12. AgreeInv'
  <2> SUFFICES ASSUME linked, freed = {}
               PROVE  (index_head + Cardinality(EarlyBy("head")) + Behind =
                        index_persistent + Cardinality(EarlyBy("written")) + FullSizes(listed))'
    BY <1>1 DEF AgreeInv
  <2>1. PICK f \in Nat : f = FullSize(frames[c])
    BY FullSizeNat
  <2>2. Behind = 0 /\ Behind' = f
    BY <1>1, <1>2, <2>1 DEF Behind, Current
  <2>3. FullSizes(listed)' = FullSizes(l)
    <3>1. listed' = l /\ \A i \in Range(l) : frames'[i] = frames[i]
      BY <1>1, <1>2, <1>4
    <3> QED BY <3>1, SizesSame
  <2>4. FullSizes(l) = FullSizes(listed) + f
    BY <1>3, <1>4, <2>1, SizesAppend
  <2>5. index_head + Cardinality(EarlyBy("head")) + 0 =
          index_persistent + Cardinality(EarlyBy("written")) + FullSizes(listed)
    BY <2>2 DEF IndexInv, AgreeInv
  <2>6. PICK e \in Nat, w \in Nat, t \in Nat :
          e = Cardinality(EarlyBy("head")) /\ w = Cardinality(EarlyBy("written")) /\ t = FullSizes(listed)
    BY Numbers
  <2>7. index_head \in Nat /\ index_persistent \in Nat
    BY Numbers
  <2>8. index_head + e + f = index_persistent + w + (t + f)
    BY <2>5, <2>6, <2>7
  <2>9. index_head' = index_head /\ index_persistent' = index_persistent
    BY <1>1
  <2>10. Cardinality(EarlyBy("head")') = e /\ Cardinality(EarlyBy("written")') = w
    BY <1>8, <2>6
  <2> QED BY <2>2, <2>3, <2>4, <2>6, <2>8, <2>9, <2>10
<1> QED BY <1>9, <1>11, <1>12 DEF IndexInv

LEMMA IndexHead == ASSUME Inv, IndexInv, persist_frame PROVE IndexInv'
<1>1. /\ manager = "head" /\ manager' = "enqueue" /\ index_head' = index_head + size[Current]
      /\ ReadSize("head", Current)
      /\ UNCHANGED <<phase, frames, size, counting, linked, listed, index_persistent, freed>>
  BY DEF persist_frame
<1>2. PICK c \in DOMAIN frames : c = Current /\ c \in Ids /\ phase # "start"
  BY <1>1, CurrentIs
<1>3. Unread = {c} /\ Unread' = {} /\ Coming' = {} /\ Behind' = 0
  BY <1>1, <1>2 DEF Unread, Coming, Behind
<1>4. ReadSize("head", c)
  BY <1>1, <1>2
<1>5. EarlyBy("written")' = EarlyBy("written")
  BY <1>4, ReadSizeOthers
<1>6. size[c] + Cardinality(EarlyBy("head")') = FullSize(frames[c]) + Cardinality(EarlyBy("head"))
      /\ Cardinality(EarlyBy("head")') \in Nat
  <2>1. <<"head", c>> \notin EarlyBy("head") /\ (c \notin counting => size[c] = FullSize(frames[c]))
    BY <1>3 DEF IndexInv, SizeInv
  <2> QED BY <1>4, <2>1, ReadSizeCounts
<1>7. LinkedInv'
  BY <1>1, <1>2 DEF LinkedInv
<1>8. SizeInv'
  BY <1>1, <1>3, <1>5 DEF IndexInv, SizeInv
<1>9. AgreeInv'
  <2> SUFFICES ASSUME linked, freed = {}
               PROVE  (index_head + Cardinality(EarlyBy("head")) + Behind =
                        index_persistent + Cardinality(EarlyBy("written")) + FullSizes(listed))'
    BY <1>1 DEF AgreeInv
  <2>1. PICK f \in Nat : f = FullSize(frames[c]) /\ Behind = f
    BY <1>1, <1>2, FullSizeNat DEF Behind
  <2>2. PICK e \in Nat, w \in Nat, t \in Nat :
          e = Cardinality(EarlyBy("head")) /\ w = Cardinality(EarlyBy("written")) /\ t = FullSizes(listed)
    BY Numbers
  <2>3. index_head \in Nat /\ index_persistent \in Nat
    BY Numbers
  <2>4. index_head + e + f = index_persistent + w + t
    BY <2>1, <2>2 DEF IndexInv, AgreeInv
  <2>5. PICK d \in Nat : d = Cardinality(EarlyBy("head")')
    BY <1>6
  <2>6. PICK z \in Nat : z = size[c]
    BY <1>2, FramesInIds DEF Inv, TypeOK
  <2>7. z + d = f + e
    BY <1>6, <2>1, <2>2, <2>5, <2>6
  <2>8. index_head' = index_head + z
    BY <1>1, <1>2, <2>6
  <2>9. FullSizes(listed)' = t
    <3>1. FullSizes(listed)' = FullSizes(listed)
      BY <1>1, SizesSame
    <3> QED BY <2>2, <3>1
  <2>10. index_persistent' = index_persistent /\ Cardinality(EarlyBy("written")') = w
    BY <1>1, <1>5, <2>2
  <2>11. (index_head + z) + d + 0 = index_persistent + w + t
    BY <2>3, <2>4, <2>7
  <2> QED BY <1>3, <2>5, <2>8, <2>9, <2>10, <2>11
<1> QED BY <1>7, <1>8, <1>9 DEF IndexInv

LEMMA IndexEnqueue == ASSUME Inv, IndexInv, enqueue PROVE IndexInv'
<1>1. /\ manager = "enqueue" /\ manager' = "idle"
      /\ UNCHANGED <<phase, frames, size, counting, linked, listed, index_head, index_persistent,
                     freed, early>>
  BY DEF enqueue, indexes, ghosts
<1>2. phase # "start"
  BY <1>1, CurrentIs
<1>3. LinkedInv'
  BY <1>1, <1>2 DEF LinkedInv
<1>4. Unread' = {} /\ Coming' = {} /\ Behind' = 0 /\ Behind = 0
  BY <1>1 DEF Unread, Coming, Behind
<1>5. EarlyBy("head")' = EarlyBy("head") /\ EarlyBy("written")' = EarlyBy("written")
  BY <1>1 DEF EarlyBy
<1>6. SizeInv'
  BY <1>1, <1>4, <1>5 DEF IndexInv, SizeInv
<1>7. FullSizes(listed)' = FullSizes(listed)
  BY <1>1, SizesSame
<1>8. AgreeInv'
  BY <1>1, <1>4, <1>5, <1>7 DEF IndexInv, AgreeInv
<1> QED BY <1>3, <1>6, <1>8 DEF IndexInv

LEMMA IndexContext ==
  ASSUME Inv, OrderInv, IndexInv, persist_queue_context
  PROVE  IndexInv'
<1>1. PICK i \in DOMAIN frames :
        /\ i \in Ids /\ listed # <<>> /\ i = Head(listed) /\ listed' = Tail(listed)
        /\ \/ index_persistent' = index_persistent + size[i] /\ ReadSize("written", i)
           \/ i \in freed /\ UNCHANGED early
  BY ContextIs
<1>2. /\ writer = "context"
      /\ UNCHANGED <<phase, frames, size, counting, manager, linked, index_head, freed>>
  BY DEF persist_queue_context
<1>3. linked /\ phase # "start"
  BY <1>2 DEF Inv, TypeOK, PhaseInv
<1>4. manager \notin {"create", "link", "restore"}
  BY <1>3 DEF IndexInv, LinkedInv, Inv, PhaseInv
<1>5. listed \in Seq(Ids) /\ Range(listed) \subseteq DOMAIN frames
  BY DEF Inv, TypeOK
<1>6. PICK t : t = Tail(listed)
  OBVIOUS
<1>7. Range(t) \subseteq Range(listed) /\ i \in Range(listed)
  BY <1>1, <1>5, <1>6, TailRange
<1>8. \A j \in Range(t) : j # i
  <2>1. PICK l \in Nat \ {0} :
          /\ DOMAIN listed = 1 .. l /\ i = listed[1] /\ DOMAIN t = 1 .. l - 1
          /\ \A k \in 1 .. l - 1 : t[k] = listed[k + 1]
    BY <1>1, <1>5, <1>6, TailIs
  <2>2. \A k \in 1 .. l - 1 : k + 1 \in 1 .. l /\ 1 < k + 1 /\ 1 \in 1 .. l
    OBVIOUS
  <2>3. \A k \in DOMAIN t : i < t[k]
    BY <2>1, <2>2 DEF OrderInv, FileInOrder
  <2>4. \A j \in Range(t) : i < j
    BY <2>3 DEF Range
  <2>5. i \in Nat
    BY <1>1 DEF Ids
  <2>6. ~(i < i)
    BY <2>5
  <2> QED BY <2>4, <2>6
<1>9. \A j \in Coming : j # i
  <2>1. \A j \in Coming : i < j
    BY <1>7 DEF Coming, OrderInv, NewestLast
  <2>2. i \in Nat
    BY <1>1 DEF Ids
  <2>3. ~(i < i)
    BY <2>2
  <2> QED BY <2>1, <2>3
<1>10. Unread' = Unread /\ Coming' = Coming /\ Behind' = Behind
  BY <1>2 DEF Unread, Coming, Behind, Current
<1>11. LinkedInv'
  BY <1>2, <1>3, <1>4 DEF LinkedInv
<1>12. <<"written", i>> \notin EarlyBy("written") /\ (i \notin counting => size[i] = FullSize(frames[i]))
  BY <1>7 DEF IndexInv, SizeInv
<1>13. EarlyBy("head")' = EarlyBy("head")
  <2>1. CASE ReadSize("written", i)
    BY <2>1, ReadSizeOthers
  <2>2. CASE UNCHANGED early
    BY <2>2 DEF EarlyBy
  <2> QED BY <1>1, <2>1, <2>2
<1>14. \A j : j # i => (<<"written", j>> \in EarlyBy("written")' <=> <<"written", j>> \in EarlyBy("written"))
  <2>1. CASE ReadSize("written", i)
    BY <1>12, <2>1, ReadSizeCounts
  <2>2. CASE UNCHANGED early
    BY <2>2 DEF EarlyBy
  <2> QED BY <1>1, <2>1, <2>2
<1>15. SizeInv'
  <2>1. Range(listed') \subseteq Range(listed) /\ \A j \in Range(listed') : j # i
    BY <1>1, <1>6, <1>7, <1>8
  <2>2. \A j \in Range(listed') \cup Unread' : j \notin counting' => size'[j] = FullSize(frames'[j])
    BY <1>2, <1>10, <2>1 DEF IndexInv, SizeInv
  <2>3. \A j \in Range(listed') \cup Coming' : <<"written", j>> \notin EarlyBy("written")'
    BY <1>9, <1>10, <1>14, <2>1 DEF IndexInv, SizeInv
  <2>4. \A j \in Unread' : <<"head", j>> \notin EarlyBy("head")'
    BY <1>10, <1>13 DEF IndexInv, SizeInv
  <2> QED BY <2>2, <2>3, <2>4 DEF SizeInv
<1>16. AgreeInv'
  <2> SUFFICES ASSUME freed = {}
               PROVE  (index_head + Cardinality(EarlyBy("head")) + Behind =
                        index_persistent + Cardinality(EarlyBy("written")) + FullSizes(listed))'
    BY <1>2 DEF AgreeInv
  <2>1. index_persistent' = index_persistent + size[i] /\ ReadSize("written", i)
    BY <1>1
  <2>2. /\ size[i] + Cardinality(EarlyBy("written")') = FullSize(frames[i]) + Cardinality(EarlyBy("written"))
        /\ Cardinality(EarlyBy("written")') \in Nat
    BY <1>12, <2>1, ReadSizeCounts
  <2>3. PICK e \in Nat, w \in Nat :
          e = Cardinality(EarlyBy("head")) /\ w = Cardinality(EarlyBy("written"))
    BY Numbers
  <2>4. PICK f \in Nat : f = FullSize(frames[i])
    BY FullSizeNat
  <2>5. PICK r \in Nat : r = FullSizes(t) /\ FullSizes(listed) = f + r
    BY <1>1, <1>5, <1>6, <2>4, SizesTail
  <2>6. PICK v \in Nat : v = Cardinality(EarlyBy("written")')
    BY <2>2
  <2>7. PICK z \in Nat : z = size[i]
    BY <1>1, FramesInIds DEF Inv, TypeOK
  <2>8. z + v = f + w
    BY <2>2, <2>3, <2>4, <2>6, <2>7
  <2>9. PICK b \in Nat : b = Behind
    BY FullSizeNat, CurrentIs DEF Behind
  <2>10. index_head \in Nat /\ index_persistent \in Nat
    BY Numbers
  <2>11. index_head + e + b = index_persistent + w + (f + r)
    BY <1>3, <2>3, <2>5, <2>9 DEF IndexInv, AgreeInv
  <2>12. index_head + e + b = (index_persistent + z) + v + r
    BY <2>8, <2>10, <2>11
  <2>13. FullSizes(listed)' = r
    <3>1. listed' = t /\ \A j \in Range(t) : frames'[j] = frames[j]
      BY <1>1, <1>2, <1>6
    <3>2. FullSizes(listed)' = FullSizes(t)
      BY <3>1, SizesSame
    <3> QED BY <2>5, <3>2
  <2>14. index_head' = index_head /\ index_persistent' = index_persistent + z /\ Behind' = b
         /\ Cardinality(EarlyBy("head")') = e
    BY <1>2, <1>10, <1>13, <2>1, <2>3, <2>7, <2>9
  <2> QED BY <2>6, <2>12, <2>13, <2>14
<1> QED BY <1>11, <1>15, <1>16 DEF IndexInv

LEMMA IndexNext ==
  ASSUME Inv, OrderInv, IndexInv, [Next]_vars
  PROVE  IndexInv'
<1>1. CASE \E kind \in Kinds : handler_stomp_send(kind)
  BY <1>1, IndexSend
<1>2. CASE \E i \in Ids : CountNul(i)
  BY <1>2, IndexCount
<1>3. CASE Manager
  BY <1>3, IndexAlloc, IndexLink, IndexScan, IndexRestore, IndexAdd, IndexHead, IndexEnqueue DEF Manager
<1>4. CASE persist_queue_context
  BY <1>4, IndexContext
<1>5. CASE TestStop \/ ListEmpty \/ persist_queue_info \/ persistent_worker \/ ContextDone
  BY <1>5, IndexSame DEF TestStop, ListEmpty, persist_queue_info, persistent_worker, ContextDone,
                         indexes, ghosts, EarlyBy
<1>6. CASE \E s \in Senders : Sender(s)
  BY <1>6, IndexSender
<1>7. CASE cleanup_persistent_worker
  BY <1>7, IndexCleanup
<1>8. CASE Crash \/ int_handle
  BY <1>8, IndexRestart DEF Crash, int_handle
<1>9. CASE UNCHANGED vars
  BY <1>9, IndexSame DEF vars, indexes, ghosts, EarlyBy
<1> QED BY <1>1, <1>2, <1>3, <1>4, <1>5, <1>6, <1>7, <1>8, <1>9 DEF Next, Writer

(* IndexesAgree: as long as no frame is freed, index_head is ahead of      *)
(* index_persistent by exactly what is in the list, but for the sizes that *)
(* one of the two threads read before the connection thread had counted    *)
(* the last byte.                                                          *)
THEOREM Indexes == Spec => []IndexesAgree
<1>1. Init => IndexInv /\ OrderInv
  BY IndexInit, OrderInit
<1>2. Inv /\ IndexInv /\ OrderInv /\ [Next]_vars => IndexInv' /\ OrderInv'
  BY IndexNext, OrderNext
<1>3. Inv /\ IndexInv => IndexesAgree
  <2> SUFFICES ASSUME Inv, IndexInv, linked, freed = {}, manager # "head"
               PROVE  index_head + Cardinality(EarlyBy("head")) =
                        index_persistent + Cardinality(EarlyBy("written")) + FullSizes(listed)
    BY DEF IndexesAgree
  <2>1. index_head + Cardinality(EarlyBy("head")) + 0 =
          index_persistent + Cardinality(EarlyBy("written")) + FullSizes(listed)
    BY DEF IndexInv, AgreeInv, Behind
  <2>2. PICK e \in Nat : e = Cardinality(EarlyBy("head"))
    BY Numbers
  <2>3. index_head \in Nat
    BY Numbers
  <2> QED BY <2>1, <2>2, <2>3
<1> QED BY <1>1, <1>2, <1>3, Invariant, PTL DEF Spec

=============================================================================
