------------------------- MODULE FrameParserProofs --------------------------
(***************************************************************************)
(* Proofs about the frame parser: the state keeps its shape whatever the   *)
(* client sends and however TCP cuts it; a frame shorter than its          *)
(* content-length is the last one of a connection that has ended; and of   *)
(* well-formed frames the bucket gets those the client sent, unchanged.    *)
(***************************************************************************)
EXTENDS FrameParser, SequenceLemmas

LEMMA MinIsLeast ==
  ASSUME NEW M, M \in SUBSET Nat, M # {}
  PROVE  Min(M) \in M /\ \A j \in M : Min(M) <= j
<1>1. \E k \in M : \A j \in M : k <= j
  BY Least
<1> QED BY <1>1 DEF Min

(* ssplit() returns a length within the rest of the chunk; it is 0 only at *)
(* a separator.                                                            *)
LEMMA SplitIs ==
  ASSUME NEW s \in Text, Len(s) > 0, NEW b \in BOOLEAN
  PROVE  /\ ssplit(s, b) \in 0 .. Len(s)
         /\ ssplit(s, b) = 0 <=> (s[1] = NUL \/ (~b /\ IsNL(s[1])))
<1>1. CASE s[1] = NUL \/ (~b /\ IsNL(s[1]))
  BY <1>1 DEF ssplit, Text
<1>2. CASE ~(s[1] = NUL \/ (~b /\ IsNL(s[1])))
  <2> DEFINE M == {n \in 1 .. Len(s) :
                     \/ n = Len(s)
                     \/ s[n + 1] = NUL
                     \/ s[n + 1] = NL /\ ~b
                     \/ n >= LD_MAX}
  <2>1. Len(s) \in Nat
    BY DEF Text
  <2>2. Len(s) \in M /\ M \in SUBSET Nat /\ M \subseteq 1 .. Len(s)
    BY <2>1
  <2>3. ssplit(s, b) = Min(M)
    BY <1>2 DEF ssplit
  <2>4. Min(M) \in M
    <3> HIDE DEF M
    <3> QED BY <2>2, MinIsLeast
  <2>5. Min(M) \in 1 .. Len(s)
    <3> HIDE DEF M
    <3> QED BY <2>2, <2>4
  <2> HIDE DEF M
  <2> QED BY <1>2, <2>1, <2>3, <2>5
<1> QED BY <1>1, <1>2

LEMMA PieceCount ==
  ASSUME NEW a \in Nat
  PROVE  (a + LD_MAX - 1) \div LD_MAX \in Nat
<1>1. PICK d \in Nat : d = LD_MAX /\ d # 0
  BY LimitsAssumption
<1>2. PICK n \in Nat : n = a + d - 1
  BY <1>1
<1>3. n \div d \in Nat
  BY <1>1
<1> QED BY <1>1, <1>2, <1>3

(* What recv_data() has yet to look at of the chunk. *)
LEMMA RestIs ==
  ASSUME TypeOK, Parsing
  PROVE  /\ Rest \in Text /\ Len(Rest) = Len(buf) - curr + 1 /\ Len(Rest) \in Nat \ {0}
         /\ \A k \in 1 .. Len(Rest) : Rest[k] = buf[curr + k - 1]
<1>a. buf \in Seq(Tokens) /\ curr \in 1 .. (Len(buf) + 2)
  BY DEF TypeOK, Text
<1>1. PICK l \in Nat : l = Len(buf) /\ buf \in Seq(Tokens) /\ DOMAIN buf = 1 .. l
  BY <1>a
<1>2. PICK c \in Nat : c = curr /\ 1 <= c /\ c <= l
  BY <1>a, <1>1 DEF Parsing
<1>3. \A i \in c .. l : buf[i] \in Tokens
  BY <1>1, <1>2
<1>4. PICK r : r = SubSeq(buf, c, l)
  OBVIOUS
<1>5. r \in Seq(Tokens) /\ Len(r) = l - c + 1 /\ \A i \in 1 .. l - c + 1 : r[i] = buf[c + i - 1]
  <2>1. r \in Seq(Tokens) /\ (Len(r) = IF c <= l THEN l - c + 1 ELSE 0)
        /\ \A i \in 1 .. l - c + 1 : r[i] = buf[c + i - 1]
    BY <1>3, <1>4, SubSeqProperties
  <2> QED BY <1>2, <2>1
<1>6. l - c + 1 \in Nat \ {0}
  BY <1>2
<1>7. Rest = r
  BY <1>1, <1>2, <1>4 DEF Rest
<1> QED BY <1>1, <1>2, <1>5, <1>6, <1>7 DEF Text

LEMMA LineIs ==
  ASSUME TypeOK, Parsing
  PROVE  /\ LineLen \in Nat /\ LineLen <= Len(Rest)
         /\ SubSeq(Rest, 1, LineLen) \in Text /\ Len(SubSeq(Rest, 1, LineLen)) = LineLen
         /\ \A k \in 1 .. LineLen : SubSeq(Rest, 1, LineLen)[k] = buf[curr + k - 1]
         /\ Line \in Text /\ Len(Line) = Len(prev) + LineLen
<1>1. /\ Rest \in Text /\ Len(Rest) \in Nat \ {0}
      /\ \A k \in 1 .. Len(Rest) : Rest[k] = buf[curr + k - 1]
  BY RestIs
<1>2. PICK r \in Text : r = Rest
  BY <1>1
<1>3. PICK b \in BOOLEAN : b = is_body_input
  BY DEF is_body_input
<1>4. PICK n \in 0 .. Len(r) : n = LineLen
  <2>1. ssplit(r, b) \in 0 .. Len(r)
    BY <1>1, <1>2, SplitIs
  <2> QED BY <1>2, <1>3, <2>1 DEF LineLen
<1>5. n \in Nat /\ n <= Len(r) /\ \A i \in 1 .. n : r[i] \in Tokens /\ i \in 1 .. Len(r)
  BY <1>1, <1>2 DEF Text
<1>6. PICK t : t = SubSeq(r, 1, n)
  OBVIOUS
<1>7. t \in Seq(Tokens) /\ Len(t) = n /\ \A i \in 1 .. n : t[i] = r[i]
  <2>1. t \in Seq(Tokens) /\ (Len(t) = IF 1 <= n THEN n - 1 + 1 ELSE 0)
        /\ \A i \in 1 .. n - 1 + 1 : t[i] = r[1 + i - 1]
    BY <1>5, <1>6, SubSeqProperties
  <2>2. \A i \in 1 .. n : i \in 1 .. n - 1 + 1 /\ 1 + i - 1 = i
    BY <1>5
  <2>3. \A i \in 1 .. n : t[i] = r[i]
    BY <2>1, <2>2
  <2> QED BY <1>5, <2>1, <2>3
<1>8. PICK l : l = prev \o t
  OBVIOUS
<1>9. l \in Seq(Tokens) /\ Len(l) = Len(prev) + n
  <2>1. prev \in Seq(Tokens)
    BY DEF TypeOK, Text
  <2> QED BY <1>7, <1>8, <2>1, ConcatProperties
<1>10. \A k \in 1 .. n : t[k] = buf[curr + k - 1]
  BY <1>1, <1>2, <1>5, <1>7
<1>11. Line = l
  BY <1>2, <1>4, <1>6, <1>8 DEF Line
<1> QED BY <1>2, <1>4, <1>5, <1>6, <1>7, <1>9, <1>10, <1>11 DEF Text

LEMMA PiecesAre == ASSUME NEW l \in Text PROVE Pieces(l) \in Seq(Text)
<1>1. PICK n \in Nat : n = (Len(l) + LD_MAX - 1) \div LD_MAX
  <2>1. Len(l) \in Nat
    BY DEF Text
  <2> QED BY <2>1, PieceCount
<1>2. ASSUME NEW i \in 1 .. n
      PROVE  SubSeq(l, (i - 1) * LD_MAX + 1, Min({i * LD_MAX, Len(l)})) \in Text
  <2>1. PICK d \in Nat : d = LD_MAX
    BY LimitsAssumption
  <2>2. PICK a \in Nat : a = (i - 1) * d + 1 /\ 1 <= a
    <3>1. i - 1 \in Nat
      OBVIOUS
    <3>2. (i - 1) * d \in Nat
      BY <3>1
    <3> QED BY <3>2
  <2>3. PICK e \in Nat : e = i * d
    OBVIOUS
  <2>4. PICK m \in Nat : m = Len(l) /\ DOMAIN l = 1 .. m
    BY DEF Text
  <2>5. PICK x : x = Min({e, m})
    OBVIOUS
  <2>6. x \in Nat /\ x <= m
    <3>1. {e, m} \in SUBSET Nat /\ {e, m} # {}
      OBVIOUS
    <3>2. x \in {e, m} /\ \A j \in {e, m} : x <= j
      BY <2>5, <3>1, MinIsLeast
    <3> QED BY <3>2
  <2>7. \A j \in a .. x : l[j] \in Tokens
    BY <2>2, <2>4, <2>6 DEF Text
  <2>8. SubSeq(l, a, x) \in Seq(Tokens)
    BY <2>2, <2>6, <2>7, SubSeqProperties
  <2> QED BY <2>1, <2>2, <2>3, <2>4, <2>5, <2>8 DEF Text
<1>3. PICK p : p = Pieces(l)
  OBVIOUS
<1>4. p \in [1 .. n -> Text]
  BY <1>1, <1>2, <1>3 DEF Pieces
<1>5. p \in Seq(Text)
  BY <1>4
<1> QED BY <1>3, <1>5

-----------------------------------------------------------------------------
(***************************************************************************)
(* The stream of a client that sends well-formed frames.                   *)
(***************************************************************************)
LEMMA Separators == NL \in Tokens /\ CR \in Tokens /\ NUL \in Tokens /\ NL # NUL /\ CR # NUL
BY TokensAssumption DEF NL, CR, NUL

(* The lines are in t, the n-th from o[n - 1] + 1 to its NL at o[n]. *)
LinesAt(t, ls, o, L) ==
  /\ t \in Text /\ o[0] = 0 /\ Len(t) = o[L]
  /\ \A n \in 1 .. L :
       /\ o[n] = o[n - 1] + Len(ls[n]) + 1
       /\ \A k \in 1 .. Len(ls[n]) : t[o[n - 1] + k] = ls[n][k]
       /\ t[o[n]] = NL

LEMMA LinesAre ==
  ASSUME NEW ls \in Seq(Text), NEW L \in Nat \ {0}, L = Len(ls)
  PROVE  \E o \in [0 .. L -> Nat] : LinesAt(Lines(ls), ls, o, L)
<1>1. \A n \in 1 .. L : ls[n] \in Seq(Tokens) /\ Len(ls[n]) \in Nat
  BY DEF Text
<1>2. PICK q : q = [n \in 1 .. L |-> Append(ls[n], NL)]
  OBVIOUS
<1>3. ASSUME NEW n \in 1 .. L
      PROVE  /\ q[n] \in Seq(Tokens) /\ Len(q[n]) = Len(ls[n]) + 1
             /\ \A k \in 1 .. Len(ls[n]) : q[n][k] = ls[n][k]
             /\ q[n][Len(ls[n]) + 1] = NL
  <2>1. PICK s \in Seq(Tokens) : s = ls[n] /\ Len(s) \in Nat
    BY <1>1
  <2>2. PICK nl \in Tokens : nl = NL
    BY Separators
  <2>3. PICK t : t = Append(s, nl)
    OBVIOUS
  <2>4. t \in Seq(Tokens) /\ Len(t) = Len(s) + 1 /\ (\A k \in 1 .. Len(s) : t[k] = s[k]) /\ t[Len(s) + 1] = nl
    BY <2>3
  <2>5. q[n] = t
    BY <1>2, <2>1, <2>2, <2>3
  <2> QED BY <2>1, <2>2, <2>4, <2>5
<1>4. q \in Seq(Seq(Tokens)) /\ Len(q) = L
  <2>1. q \in [1 .. L -> Seq(Tokens)]
    BY <1>2, <1>3
  <2> QED BY <2>1
<1>5. PICK t : t = Lines(ls)
  OBVIOUS
<1>6. t = FlattenSeq(q)
  BY <1>2, <1>5 DEF Lines
<1>7. PICK o \in [0 .. L -> Nat] :
        /\ o[0] = 0 /\ (\A n \in 1 .. L : o[n] = o[n - 1] + Len(q[n]))
        /\ t \in Seq(Tokens) /\ Len(t) = o[L]
        /\ Joins(t, q, o, L)
  <2>1. PICK S : S = Tokens
    OBVIOUS
  <2>2. q \in Seq(Seq(S)) /\ Len(q) # 0
    BY <1>4, <2>1
  <2>3. \E o \in [0 .. Len(q) -> Nat] :
           /\ o[0] = 0 /\ \A n \in 1 .. Len(q) : o[n] = o[n - 1] + Len(q[n])
           /\ FlattenSeq(q) \in Seq(S) /\ Len(FlattenSeq(q)) = o[Len(q)]
           /\ Joins(FlattenSeq(q), q, o, Len(q))
    BY <2>2, FlattenIs
  <2> QED BY <1>4, <1>6, <2>1, <2>3
<1>8. ASSUME NEW n \in 1 .. L
      PROVE  /\ o[n] = o[n - 1] + Len(ls[n]) + 1
             /\ \A k \in 1 .. Len(ls[n]) : t[o[n - 1] + k] = ls[n][k]
             /\ t[o[n]] = NL
  <2>1. PICK m \in Nat : m = Len(ls[n])
    BY <1>1
  <2>2. PICK p \in Nat : p = o[n - 1]
    <3>1. n - 1 \in 0 .. L
      OBVIOUS
    <3> QED BY <1>7, <3>1
  <2>3. Len(q[n]) = m + 1 /\ o[n] = p + (m + 1)
    BY <1>3, <1>7, <2>1, <2>2
  <2>4. \A k \in 1 .. m + 1 : t[p + k] = q[n][k]
    BY <1>7, <2>2, <2>3 DEF Joins
  <2>5. m + 1 \in 1 .. m + 1 /\ (\A k \in 1 .. m : k \in 1 .. m + 1) /\ p + (m + 1) = p + m + 1
    OBVIOUS
  <2>6. q[n][m + 1] = NL /\ \A k \in 1 .. m : q[n][k] = ls[n][k]
    BY <1>3, <2>1
  <2>7. \A k \in 1 .. m : t[p + k] = ls[n][k]
    BY <2>4, <2>5, <2>6
  <2>8. t[p + (m + 1)] = NL
    BY <2>4, <2>5, <2>6
  <2> QED BY <2>1, <2>2, <2>3, <2>5, <2>7, <2>8
<1>9. t \in Text /\ o[0] = 0 /\ Len(t) = o[L]
  BY <1>7 DEF Text
<1>10. LinesAt(t, ls, o, L)
  BY <1>8, <1>9 DEF LinesAt
<1> QED BY <1>5, <1>10

(* Where the parts of a frame are in a text that has it at b: b + o[n] is  *)
(* the end of its n-th line, the name being the first, the empty line the  *)
(* last.                                                                   *)
FrameAt(t, b, f, o) ==
  /\ o \in [0 .. Len(f.attrs) + 2 -> Nat]
  /\ o[0] = 0 /\ o[1] = Len(f.name) + 1
  /\ (\A k \in 1 .. Len(f.name) : t[b + k] = f.name[k]) /\ t[b + o[1]] = NL
  /\ \A n \in 1 .. Len(f.attrs) :
       /\ o[n + 1] = o[n] + Len(f.attrs[n]) + 1
       /\ \A k \in 1 .. Len(f.attrs[n]) : t[b + (o[n] + k)] = f.attrs[n][k]
       /\ t[b + o[n + 1]] = NL
  /\ o[Len(f.attrs) + 2] = o[Len(f.attrs) + 1] + 1 /\ t[b + o[Len(f.attrs) + 2]] = NL
  /\ \A k \in 1 .. Len(f.body) : t[b + (o[Len(f.attrs) + 2] + k)] = f.body[k]
  /\ t[b + (o[Len(f.attrs) + 2] + Len(f.body) + 1)] = NUL

(* The length of a frame laid out at o. *)
FrameLen(f, o) == o[Len(f.attrs) + 2] + Len(f.body) + 1

FrameSent == [name : Commands, attrs : Seq(Text), body : Text]

LEMMA FrameSentIs ==
  ASSUME NEW f \in FrameSent
  PROVE  /\ f.name \in Text /\ f.name \in Commands /\ f.attrs \in Seq(Text) /\ f.body \in Text
         /\ Len(f.name) \in Nat /\ Len(f.attrs) \in Nat /\ Len(f.body) \in Nat
         /\ \A n \in 1 .. Len(f.attrs) : f.attrs[n] \in Text /\ Len(f.attrs[n]) \in Nat
<1>1. f.name \in Commands /\ f.attrs \in Seq(Text) /\ f.body \in Text
  BY DEF FrameSent
<1>2. f.name \in Text
  BY <1>1, TokensAssumption
<1> QED BY <1>1, <1>2 DEF Text

LEMMA LineNumbers ==
  ASSUME NEW m \in Nat
  PROVE  /\ 1 \in 1 .. (1 + m) + 1 /\ 1 <= 1 + m /\ 1 \in 1 .. 1 + m
         /\ \A n \in 1 .. m :
              /\ n + 1 \in 1 .. (1 + m) + 1 /\ n + 1 <= 1 + m /\ n + 1 \in 1 .. 1 + m
              /\ ~(n + 1 <= 1) /\ (n + 1) - 1 = n
         /\ m + 2 \in 1 .. (1 + m) + 1 /\ ~(m + 2 <= 1 + m) /\ (m + 2) - (1 + m) = 1
OBVIOUS

LEMMA LinesOfFrame ==
  ASSUME NEW a \in Text, NEW hs \in Seq(Text), NEW m \in Nat, m = Len(hs)
  PROVE  LET ls == <<a>> \o hs \o << <<>> >>
         IN  /\ ls \in Seq(Text) /\ Len(ls) = m + 2 /\ ls[1] = a /\ Len(ls[m + 2]) = 0
             /\ \A n \in 1 .. m : ls[n + 1] = hs[n]
<1>1. <<a>> \in Seq(Text) /\ Len(<<a>>) = 1 /\ <<a>>[1] = a
  OBVIOUS
<1>2. PICK b : b = <<a>> \o hs
  OBVIOUS
<1>3. /\ b \in Seq(Text) /\ Len(b) = 1 + m
      /\ \A i \in 1 .. 1 + m : b[i] = IF i <= 1 THEN <<a>>[i] ELSE hs[i - 1]
  BY <1>1, <1>2, ConcatProperties
<1>4. PICK e \in Text : e = <<>>
  <2>1. <<>> \in Text
    BY DEF Text
  <2> QED BY <2>1
<1>5. <<e>> \in Seq(Text) /\ Len(<<e>>) = 1 /\ <<e>>[1] = e
  OBVIOUS
<1>6. PICK w : w = b \o <<e>>
  OBVIOUS
<1>7. /\ w \in Seq(Text) /\ Len(w) = (1 + m) + 1
      /\ \A i \in 1 .. (1 + m) + 1 : w[i] = IF i <= 1 + m THEN b[i] ELSE <<e>>[i - (1 + m)]
  <2>1. PICK y \in Seq(Text) : y = <<e>>
    BY <1>5
  <2>2. /\ b \o y \in Seq(Text) /\ Len(b \o y) = Len(b) + Len(y)
        /\ \A i \in 1 .. Len(b) + Len(y) : (b \o y)[i] = IF i <= Len(b) THEN b[i] ELSE y[i - Len(b)]
    BY <1>3, ConcatProperties
  <2> QED BY <1>3, <1>5, <1>6, <2>1, <2>2
<1>8. w[1] = a
  BY <1>1, <1>3, <1>7, LineNumbers
<1>9. ASSUME NEW n \in 1 .. m PROVE w[n + 1] = hs[n]
  BY <1>3, <1>7, LineNumbers
<1>10. w[m + 2] = e
  BY <1>5, <1>7, LineNumbers
<1>11. w = <<a>> \o hs \o << <<>> >>
  BY <1>2, <1>4, <1>6
<1>12. Len(w) = m + 2 /\ Len(e) = 0
  BY <1>4, <1>7
<1> QED BY <1>7, <1>8, <1>9, <1>10, <1>11, <1>12

LEMMA EncodeIs ==
  ASSUME NEW f \in FrameSent
  PROVE  \E o : FrameAt(Encode(f), 0, f, o) /\ Encode(f) \in Text /\ Len(Encode(f)) = FrameLen(f, o)
<1>1. PICK a \in Text, hs \in Seq(Text), x \in Text : a = f.name /\ hs = f.attrs /\ x = f.body
  BY FrameSentIs
<1>2. PICK m \in Nat, u \in Nat, v \in Nat : m = Len(hs) /\ u = Len(a) /\ v = Len(x)
  BY DEF Text
<1>3. PICK ls : ls = <<a>> \o hs \o << <<>> >>
  OBVIOUS
<1>4. /\ ls \in Seq(Text) /\ Len(ls) = m + 2 /\ ls[1] = a /\ Len(ls[m + 2]) = 0
      /\ \A n \in 1 .. m : ls[n + 1] = hs[n]
  BY <1>2, <1>3, LinesOfFrame
<1>5. PICK L \in Nat \ {0} : L = m + 2
  OBVIOUS
<1>6. PICK t : t = Lines(ls)
  OBVIOUS
<1>7a. PICK o \in [0 .. L -> Nat] : LinesAt(t, ls, o, L)
  <2>1. L = Len(ls) /\ ls \in Seq(Text)
    BY <1>4, <1>5
  <2>2. \E o \in [0 .. L -> Nat] : LinesAt(Lines(ls), ls, o, L)
    BY <2>1, LinesAre
  <2> QED BY <1>6, <2>2
<1>7. /\ o \in [0 .. L -> Nat] /\ t \in Text /\ o[0] = 0 /\ Len(t) = o[L]
      /\ \A n \in 1 .. L :
           /\ o[n] = o[n - 1] + Len(ls[n]) + 1
           /\ \A k \in 1 .. Len(ls[n]) : t[o[n - 1] + k] = ls[n][k]
           /\ t[o[n]] = NL
  BY <1>7a DEF LinesAt
<1>8. PICK y : y = Append(x, NUL)
  OBVIOUS
<1>9. y \in Seq(Tokens) /\ Len(y) = v + 1 /\ (\A k \in 1 .. v : y[k] = x[k]) /\ y[v + 1] = NUL
  <2>1. PICK z \in Tokens : z = NUL
    BY Separators
  <2>2. x \in Seq(Tokens)
    BY DEF Text
  <2>3. PICK w : w = Append(x, z)
    OBVIOUS
  <2>4. w \in Seq(Tokens) /\ Len(w) = v + 1 /\ (\A k \in 1 .. v : w[k] = x[k]) /\ w[v + 1] = z
    BY <1>2, <2>2, <2>3
  <2> QED BY <1>8, <2>1, <2>3, <2>4
<1>10. PICK e : e = t \o y
  OBVIOUS
<1>11. PICK p \in Nat : p = o[L]
  <2>1. L \in 0 .. L
    OBVIOUS
  <2> QED BY <1>7, <2>1
<1>12. /\ e \in Text /\ Len(e) = p + v + 1
       /\ (\A k \in 1 .. p : e[k] = t[k]) /\ (\A k \in 1 .. v + 1 : e[p + k] = y[k])
  <2>1. t \in Seq(Tokens) /\ Len(t) = p
    BY <1>7, <1>11 DEF Text
  <2>2. e \in Seq(Tokens) /\ Len(e) = p + (v + 1)
        /\ \A k \in 1 .. p + (v + 1) : e[k] = IF k <= p THEN t[k] ELSE y[k - p]
    <3>1. y \in Seq(Tokens)
      BY <1>9
    <3>2. /\ t \o y \in Seq(Tokens) /\ Len(t \o y) = Len(t) + Len(y)
          /\ \A k \in 1 .. Len(t) + Len(y) : (t \o y)[k] = IF k <= Len(t) THEN t[k] ELSE y[k - Len(t)]
      BY <2>1, <3>1, ConcatProperties
    <3> QED BY <1>9, <1>10, <2>1, <3>2
  <2>3. \A k \in 1 .. p : k \in 1 .. p + (v + 1) /\ k <= p
    OBVIOUS
  <2>4. \A k \in 1 .. v + 1 : p + k \in 1 .. p + (v + 1) /\ ~(p + k <= p) /\ (p + k) - p = k
    OBVIOUS
  <2>5. \A k \in 1 .. p : e[k] = t[k]
    BY <2>2, <2>3
  <2>6. \A k \in 1 .. v + 1 : e[p + k] = y[k]
    BY <2>2, <2>4
  <2> QED BY <2>2, <2>5, <2>6 DEF Text
<1>13. ASSUME NEW n \in 1 .. L
       PROVE  /\ o[n] \in Nat /\ o[n - 1] \in Nat /\ Len(ls[n]) \in Nat /\ o[n] <= p
              /\ \A k \in 1 .. Len(ls[n]) : e[o[n - 1] + k] = ls[n][k]
              /\ e[o[n]] = NL
  <2>1. o[n] \in Nat /\ o[n - 1] \in Nat
    <3>1. n \in 0 .. L /\ n - 1 \in 0 .. L
      OBVIOUS
    <3> QED BY <1>7, <3>1
  <2>2. Len(ls[n]) \in Nat
    <3>1. n \in 1 .. Len(ls)
      BY <1>4, <1>5
    <3>2. ls[n] \in Seq(Tokens)
      BY <1>4, <3>1 DEF Text
    <3> QED BY <3>2
  <2>3. o[n] <= p
    <3>1. \A i \in 1 .. L : o[i - 1] <= o[i]
      <4>1. SUFFICES ASSUME NEW i \in 1 .. L PROVE o[i - 1] <= o[i]
        OBVIOUS
      <4>2. PICK c1 \in Nat : c1 = o[i - 1]
        <5>1. i - 1 \in 0 .. L
          OBVIOUS
        <5> QED BY <1>7, <5>1
      <4>3. PICK c2 \in Nat : c2 = Len(ls[i])
        <5>1. i \in 1 .. Len(ls)
          BY <1>4, <1>5
        <5>2. ls[i] \in Seq(Tokens)
          BY <1>4, <5>1 DEF Text
        <5> QED BY <5>2
      <4>4. o[i] = c1 + c2 + 1
        BY <1>7, <4>2, <4>3
      <4> QED BY <4>2, <4>4
    <3>2. n \in 0 .. L /\ L \in 0 .. L /\ n <= L
      OBVIOUS
    <3> QED BY <1>7, <1>11, <3>1, <3>2, Nondecreasing
  <2>4. PICK c1 \in Nat, c2 \in Nat : c1 = o[n - 1] /\ c2 = Len(ls[n])
    BY <2>1, <2>2
  <2>5. o[n] = c1 + c2 + 1
    BY <1>7, <2>4
  <2>6. \A k \in 1 .. c2 : c1 + k \in 1 .. p
    BY <2>3, <2>5
  <2>7. o[n] \in 1 .. p
    BY <2>1, <2>3, <2>5
  <2> QED BY <1>7, <1>12, <2>1, <2>2, <2>3, <2>4, <2>6, <2>7
<1>14. PICK h \in [0 .. m + 2 -> Nat] : h = o
  BY <1>5, <1>7
<1>15. /\ h[0] = 0 /\ h[1] = u + 1
       /\ (\A k \in 1 .. u : e[k] = a[k]) /\ e[h[1]] = NL
  <2>1. 1 \in 1 .. L /\ 1 - 1 = 0
    BY <1>5
  <2>2. o[1] = o[0] + u + 1 /\ e[o[1]] = NL /\ \A k \in 1 .. u : e[o[0] + k] = a[k]
    <3>1. ls[1] = a /\ Len(ls[1]) = u
      BY <1>2, <1>4
    <3>2. o[1] = o[1 - 1] + Len(ls[1]) + 1
      BY <1>7, <2>1
    <3>3. e[o[1]] = NL /\ \A k \in 1 .. Len(ls[1]) : e[o[1 - 1] + k] = ls[1][k]
      BY <1>13, <2>1
    <3> QED BY <2>1, <3>1, <3>2, <3>3
  <2>3. \A k \in 1 .. u : 0 + k = k
    OBVIOUS
  <2> QED BY <1>7, <1>14, <2>2, <2>3
<1>16. ASSUME NEW n \in 1 .. m
       PROVE  /\ h[n + 1] = h[n] + Len(hs[n]) + 1
              /\ \A k \in 1 .. Len(hs[n]) : e[h[n] + k] = hs[n][k]
              /\ e[h[n + 1]] = NL
  <2>1. n + 1 \in 1 .. L /\ (n + 1) - 1 = n
    BY <1>5
  <2>2. ls[n + 1] = hs[n]
    BY <1>4
  <2> QED BY <1>7, <1>13, <1>14, <2>1, <2>2
<1>17. h[m + 2] = h[m + 1] + 1 /\ e[h[m + 2]] = NL /\ h[m + 2] = p
  <2>1. L \in 1 .. L /\ L - 1 = m + 1
    BY <1>5
  <2>2. o[L] = o[L - 1] + 0 + 1 /\ e[o[L]] = NL /\ o[L - 1] \in Nat
    <3>1. Len(ls[L]) = 0
      BY <1>4, <1>5
    <3>2. o[L] = o[L - 1] + Len(ls[L]) + 1
      BY <1>7, <2>1
    <3>3. e[o[L]] = NL /\ o[L - 1] \in Nat
      BY <1>13, <2>1
    <3> QED BY <3>1, <3>2, <3>3
  <2> QED BY <1>5, <1>11, <1>14, <2>1, <2>2
<1>18. /\ \A k \in 1 .. v : e[h[m + 2] + k] = x[k]
       /\ Len(e) = h[m + 2] + v + 1 /\ e[Len(e)] = NUL
  <2>1. v + 1 \in 1 .. v + 1 /\ (\A k \in 1 .. v : k \in 1 .. v + 1) /\ p + v + 1 = p + (v + 1)
    OBVIOUS
  <2>2. h[m + 2] = p
    BY <1>17
  <2>3. \A k \in 1 .. v : e[p + k] = x[k]
    BY <1>9, <1>12, <2>1
  <2>4. Len(e) = p + v + 1 /\ e[p + (v + 1)] = NUL
    BY <1>9, <1>12, <2>1
  <2> QED BY <2>1, <2>2, <2>3, <2>4
<1>19. FrameAt(e, 0, f, h) /\ Len(e) = FrameLen(f, h)
  <2>1. h[1] \in Nat /\ h[m + 2] \in Nat /\ h[m + 2] + v + 1 \in Nat /\ \A n \in 1 .. m : h[n] \in Nat /\ h[n + 1] \in Nat
    BY <1>14
  <2>2. \A z \in Nat : 0 + z = z
    OBVIOUS
  <2>3. (\A k \in 1 .. u : e[0 + k] = a[k]) /\ e[0 + h[1]] = NL
    BY <1>15, <2>1, <2>2
  <2>4. \A n \in 1 .. m :
          /\ h[n + 1] = h[n] + Len(hs[n]) + 1
          /\ \A k \in 1 .. Len(hs[n]) : e[0 + (h[n] + k)] = hs[n][k]
          /\ e[0 + h[n + 1]] = NL
    <3>1. ASSUME NEW n \in 1 .. m, NEW k \in 1 .. Len(hs[n]) PROVE e[0 + (h[n] + k)] = hs[n][k]
      <4>1. PICK y1 \in Nat, y2 \in Nat : y1 = h[n] /\ y2 = Len(hs[n])
        <5>1. Len(hs[n]) \in Nat
          BY <1>2 DEF Text
        <5> QED BY <2>1, <5>1
      <4>2. k \in 1 .. y2
        BY <4>1
      <4>3. y1 + k \in Nat
        BY <4>2
      <4>4. 0 + (h[n] + k) = h[n] + k
        BY <4>1, <4>3
      <4>5. e[h[n] + k] = hs[n][k]
        BY <1>16
      <4> QED BY <4>4, <4>5
    <3>2. ASSUME NEW n \in 1 .. m PROVE h[n + 1] = h[n] + Len(hs[n]) + 1 /\ e[0 + h[n + 1]] = NL
      BY <1>16, <2>1, <2>2
    <3> QED BY <3>1, <3>2
  <2>5. /\ h[m + 2] = h[m + 1] + 1 /\ e[0 + h[m + 2]] = NL
        /\ \A k \in 1 .. v : e[0 + (h[m + 2] + k)] = x[k]
        /\ e[0 + (h[m + 2] + v + 1)] = NUL
    <3>1. ASSUME NEW k \in 1 .. v PROVE e[0 + (h[m + 2] + k)] = x[k]
      <4>1. h[m + 2] + k \in Nat
        <5>1. PICK y1 \in Nat : y1 = h[m + 2]
          BY <2>1
        <5>2. y1 + k \in Nat
          OBVIOUS
        <5> QED BY <5>1, <5>2
      <4> QED BY <1>18, <2>2, <4>1
    <3> QED BY <1>17, <1>18, <2>1, <2>2, <3>1
  <2>6. FrameAt(e, 0, f, h)
    BY <1>1, <1>2, <1>14, <1>15, <2>3, <2>4, <2>5 DEF FrameAt
  <2>7. Len(e) = FrameLen(f, h)
    BY <1>1, <1>2, <1>18 DEF FrameLen
  <2> QED BY <2>6, <2>7
<1>20. e = Encode(f)
  BY <1>1, <1>3, <1>6, <1>8, <1>10 DEF Encode
<1> QED BY <1>12, <1>19, <1>20

(* Where the frames of a stream are: the i-th begins at st[i - 1].         *)
Stream(t, fs, st, lay) ==
  /\ t \in Text /\ st \in [0 .. Len(fs) -> Nat]
  /\ st[0] = 0 /\ Len(t) = st[Len(fs)]
  /\ \A i \in 1 .. Len(fs) :
       /\ FrameAt(t, st[i - 1], fs[i], lay[i])
       /\ st[i] = st[i - 1] + FrameLen(fs[i], lay[i])

(* The lines of a frame follow each other. *)
LEMMA OffsetsGrow ==
  ASSUME NEW f \in FrameSent, NEW o, NEW t, NEW b \in Nat, FrameAt(t, b, f, o)
  PROVE  /\ o \in [0 .. Len(f.attrs) + 2 -> Nat] /\ FrameLen(f, o) \in Nat
         /\ \A n \in 1 .. Len(f.attrs) + 2 : o[n] \in 1 .. o[Len(f.attrs) + 2] /\ o[n - 1] < o[n]
<1>1. PICK a \in Text, hs \in Seq(Text), x \in Text : a = f.name /\ hs = f.attrs /\ x = f.body
  BY FrameSentIs
<1>2. PICK m \in Nat, u \in Nat, v \in Nat : m = Len(hs) /\ u = Len(a) /\ v = Len(x)
  BY DEF Text
<1>3. o \in [0 .. m + 2 -> Nat] /\ o[0] = 0 /\ o[1] = u + 1
  BY <1>1, <1>2 DEF FrameAt
<1>4. \A n \in 1 .. m : Len(hs[n]) \in Nat
  BY <1>2 DEF Text
<1>5. \A n \in 0 .. m + 2 : o[n] \in Nat
  BY <1>3
<1>6. \A n \in 1 .. m : o[n + 1] = o[n] + Len(hs[n]) + 1
  BY <1>1, <1>2 DEF FrameAt
<1>7. o[m + 2] = o[m + 1] + 1
  BY <1>1, <1>2 DEF FrameAt
<1>8. ASSUME NEW n \in 1 .. m + 2 PROVE o[n - 1] < o[n]
  <2>1. CASE n = 1
    BY <1>3, <2>1
  <2>2. CASE n = m + 2
    <3>1. n - 1 = m + 1 /\ o[m + 1] \in Nat
      BY <1>5, <2>2
    <3> QED BY <1>7, <2>2, <3>1
  <2>3. CASE n # 1 /\ n # m + 2
    <3>1. PICK i \in 1 .. m : n = i + 1
      <4>1. n - 1 \in 1 .. m /\ n = (n - 1) + 1
        BY <2>3
      <4> QED BY <4>1
    <3>2. o[i] \in Nat /\ Len(hs[i]) \in Nat /\ o[i + 1] = o[i] + Len(hs[i]) + 1 /\ n - 1 = i
      BY <1>4, <1>5, <1>6, <3>1
    <3> QED BY <3>1, <3>2
  <2> QED BY <2>1, <2>2, <2>3
<1>9. PICK w \in Nat : w = o[m + 2]
  BY <1>5
<1>10. FrameLen(f, o) = w + v + 1 /\ w + v + 1 \in Nat
  BY <1>1, <1>2, <1>9 DEF FrameLen
<1>11. ASSUME NEW n \in 1 .. m + 2 PROVE o[n] \in 1 .. w
  <2>1. o[n] <= o[m + 2]
    <3>1. m + 2 \in Nat /\ n \in 0 .. m + 2 /\ m + 2 \in 0 .. m + 2 /\ n <= m + 2
      OBVIOUS
    <3>2. \A i \in 1 .. m + 2 : o[i - 1] <= o[i]
      <4>1. SUFFICES ASSUME NEW i \in 1 .. m + 2 PROVE o[i - 1] <= o[i]
        OBVIOUS
      <4>2. o[i - 1] \in Nat /\ o[i] \in Nat /\ o[i - 1] < o[i]
        <5>1. i - 1 \in 0 .. m + 2 /\ i \in 0 .. m + 2
          OBVIOUS
        <5> QED BY <1>5, <1>8, <5>1
      <4> QED BY <4>2
    <3>3. PICK L \in Nat : L = m + 2
      OBVIOUS
    <3> QED BY <1>3, <3>1, <3>2, <3>3, Nondecreasing
  <2>2. o[n - 1] \in Nat /\ o[n] \in Nat /\ o[n - 1] < o[n]
    <3>1. n - 1 \in 0 .. m + 2 /\ n \in 0 .. m + 2
      OBVIOUS
    <3> QED BY <1>5, <1>8, <3>1
  <2> QED BY <1>9, <2>1, <2>2
<1> QED BY <1>1, <1>2, <1>3, <1>8, <1>9, <1>10, <1>11

LEMMA FrameMoved ==
  ASSUME NEW f \in FrameSent, NEW o, NEW e, NEW t, NEW b \in Nat, FrameAt(e, 0, f, o),
         \A k \in 1 .. FrameLen(f, o) : t[b + k] = e[k]
  PROVE  FrameAt(t, b, f, o) /\ FrameLen(f, o) \in Nat
<1>1. PICK a \in Text, hs \in Seq(Text), x \in Text : a = f.name /\ hs = f.attrs /\ x = f.body
  BY FrameSentIs
<1>2. PICK m \in Nat, u \in Nat, v \in Nat : m = Len(hs) /\ u = Len(a) /\ v = Len(x)
  BY DEF Text
<1>3. o \in [0 .. m + 2 -> Nat] /\ o[0] = 0 /\ o[1] = u + 1
  BY <1>1, <1>2 DEF FrameAt
<1>4. \A n \in 1 .. m : Len(hs[n]) \in Nat
  BY <1>2 DEF Text
<1>5. \A n \in 0 .. m + 2 : o[n] \in Nat
  BY <1>3
<1>6. \A n \in 1 .. m : o[n + 1] = o[n] + Len(hs[n]) + 1
  BY <1>1, <1>2 DEF FrameAt
<1>7. o[m + 2] = o[m + 1] + 1
  BY <1>1, <1>2 DEF FrameAt
<1>9. PICK w \in Nat : w = o[m + 2]
  BY <1>5
<1>10. FrameLen(f, o) = w + v + 1 /\ w + v + 1 \in Nat
  BY <1>1, <1>2, <1>9 DEF FrameLen
<1>11. ASSUME NEW n \in 1 .. m + 2 PROVE o[n] \in 1 .. w
  <2>1. 0 \in Nat
    OBVIOUS
  <2>2. \A i \in 1 .. Len(f.attrs) + 2 : o[i] \in 1 .. o[Len(f.attrs) + 2]
    BY <2>1, OffsetsGrow
  <2> QED BY <1>1, <1>2, <1>9, <2>2
<1>12. \A z \in Nat : 0 + z = z
  OBVIOUS
<1>13. \A z \in 1 .. w + v + 1 : t[b + z] = e[0 + z]
  BY <1>10, <1>12
<1>14. (\A k \in 1 .. u : t[b + k] = a[k]) /\ t[b + o[1]] = NL
  <2>1. o[1] \in 1 .. w
    BY <1>11
  <2>2. o[1] \in 1 .. w + v + 1 /\ \A k \in 1 .. u : k \in 1 .. w + v + 1
    BY <1>3, <2>1
  <2>3. (\A k \in 1 .. u : e[0 + k] = a[k]) /\ e[0 + o[1]] = NL
    BY <1>1, <1>2 DEF FrameAt
  <2> QED BY <1>13, <2>2, <2>3
<1>15. ASSUME NEW n \in 1 .. m
       PROVE  (\A k \in 1 .. Len(hs[n]) : t[b + (o[n] + k)] = hs[n][k]) /\ t[b + o[n + 1]] = NL
  <2>1. PICK y1 \in Nat, y2 \in Nat, y3 \in Nat : y1 = o[n] /\ y2 = Len(hs[n]) /\ y3 = o[n + 1]
    BY <1>4, <1>5
  <2>2. y3 = y1 + y2 + 1 /\ y3 <= w
    <3>1. n + 1 \in 1 .. m + 2
      OBVIOUS
    <3>2. o[n + 1] \in 1 .. w
      BY <1>11, <3>1
    <3> QED BY <1>6, <2>1, <3>2
  <2>3. y3 \in 1 .. w + v + 1 /\ \A k \in 1 .. y2 : y1 + k \in 1 .. w + v + 1
    BY <2>2
  <2>4. (\A k \in 1 .. y2 : e[0 + (y1 + k)] = hs[n][k]) /\ e[0 + y3] = NL
    BY <1>1, <1>2, <2>1 DEF FrameAt
  <2>5. (\A k \in 1 .. y2 : t[b + (y1 + k)] = hs[n][k]) /\ t[b + y3] = NL
    BY <1>13, <2>3, <2>4
  <2> QED BY <2>1, <2>5
<1>16. /\ t[b + w] = NL
       /\ \A k \in 1 .. v : t[b + (w + k)] = x[k]
       /\ t[b + (w + v + 1)] = NUL
  <2>1. e[0 + w] = NL /\ (\A k \in 1 .. v : e[0 + (w + k)] = x[k]) /\ e[0 + (w + v + 1)] = NUL
    BY <1>1, <1>2, <1>9 DEF FrameAt
  <2>2. w \in 1 .. w + v + 1
    <3>1. m + 2 \in 1 .. m + 2
      OBVIOUS
    <3>2. w \in 1 .. w
      BY <1>9, <1>11, <3>1
    <3> QED BY <3>2
  <2>3. w + v + 1 \in 1 .. w + v + 1 /\ \A k \in 1 .. v : w + k \in 1 .. w + v + 1
    OBVIOUS
  <2> QED BY <1>13, <2>1, <2>2, <2>3
<1> QED BY <1>1, <1>2, <1>3, <1>6, <1>7, <1>9, <1>10, <1>14, <1>15, <1>16 DEF FrameAt

LEMMA StreamIs ==
  ASSUME NEW fs \in Scripts
  PROVE  \E st, lay : Stream(EncodeAll(fs), fs, st, lay)
<1>1. PICK L \in Nat \ {0} : L = Len(fs) /\ \A i \in 1 .. L : fs[i] \in FrameSent
  <2>1. Len(fs) \in Nat \ {0} /\ \A i \in 1 .. Len(fs) : WellFormed(fs[i])
    BY ScriptsAssumption
  <2>2. \A f : WellFormed(f) => f \in FrameSent
    BY DEF WellFormed, FrameSent
  <2> QED BY <2>1, <2>2
<1> DEFINE Of(i, o) == /\ FrameAt(Encode(fs[i]), 0, fs[i], o) /\ Encode(fs[i]) \in Text
                       /\ Len(Encode(fs[i])) = FrameLen(fs[i], o)
<1>2. PICK lay : lay = [i \in 1 .. L |-> CHOOSE o : Of(i, o)]
  OBVIOUS
<1>3. ASSUME NEW i \in 1 .. L PROVE Of(i, lay[i])
  <2>1. PICK f \in FrameSent : f = fs[i]
    BY <1>1
  <2>2. \E o : FrameAt(Encode(f), 0, f, o) /\ Encode(f) \in Text /\ Len(Encode(f)) = FrameLen(f, o)
    BY EncodeIs
  <2>3. \E o : Of(i, o)
    BY <2>1, <2>2
  <2>4. lay[i] = CHOOSE o : Of(i, o)
    <3> HIDE DEF Of
    <3> QED BY <1>2
  <2>5. Of(i, CHOOSE o : Of(i, o))
    <3> HIDE DEF Of
    <3> QED BY <2>3
  <2> HIDE DEF Of
  <2> QED BY <2>4, <2>5
<1>4. PICK q : q = [i \in 1 .. L |-> Encode(fs[i])]
  OBVIOUS
<1>5. q \in Seq(Seq(Tokens)) /\ Len(q) = L
  <2>1. q \in [1 .. L -> Seq(Tokens)]
    BY <1>3, <1>4 DEF Text
  <2> QED BY <2>1
<1>6. PICK t : t = EncodeAll(fs)
  OBVIOUS
<1>7. t = FlattenSeq(q)
  BY <1>1, <1>4, <1>6 DEF EncodeAll
<1>8. PICK st \in [0 .. L -> Nat] :
        /\ st[0] = 0 /\ (\A n \in 1 .. L : st[n] = st[n - 1] + Len(q[n]))
        /\ t \in Seq(Tokens) /\ Len(t) = st[L]
        /\ Joins(t, q, st, L)
  <2>1. PICK S : S = Tokens
    OBVIOUS
  <2>2. q \in Seq(Seq(S)) /\ Len(q) # 0
    BY <1>5, <2>1
  <2>3. \E o \in [0 .. Len(q) -> Nat] :
           /\ o[0] = 0 /\ \A n \in 1 .. Len(q) : o[n] = o[n - 1] + Len(q[n])
           /\ FlattenSeq(q) \in Seq(S) /\ Len(FlattenSeq(q)) = o[Len(q)]
           /\ Joins(FlattenSeq(q), q, o, Len(q))
    BY <2>2, FlattenIs
  <2> QED BY <1>5, <1>7, <2>1, <2>3
<1>9. ASSUME NEW i \in 1 .. L
      PROVE  FrameAt(t, st[i - 1], fs[i], lay[i]) /\ st[i] = st[i - 1] + FrameLen(fs[i], lay[i])
  <2> DEFINE o == lay[i]  e == q[i]
  <2>1. PICK f \in FrameSent, b \in Nat : f = fs[i] /\ b = st[i - 1]
    <3>1. i - 1 \in 0 .. L
      OBVIOUS
    <3>2. fs[i] \in FrameSent /\ st[i - 1] \in Nat
      BY <1>1, <1>8, <3>1
    <3> QED BY <3>2
  <2> HIDE DEF o, e
  <2>2. FrameAt(e, 0, f, o) /\ Len(e) = FrameLen(f, o)
    BY <1>3, <1>4, <2>1 DEF o, e
  <2>3. \A k \in 1 .. FrameLen(f, o) : t[b + k] = e[k]
    BY <1>8, <2>1, <2>2 DEF Joins, e
  <2>4. FrameAt(t, b, f, o)
    BY <2>2, <2>3, FrameMoved
  <2> QED BY <1>8, <2>1, <2>2, <2>4 DEF o, e
<1>10. Stream(t, fs, st, lay)
  BY <1>1, <1>8, <1>9 DEF Stream, Text
<1> QED BY <1>6, <1>10

-----------------------------------------------------------------------------
(***************************************************************************)
(* The frame in progress, field by field.                                  *)
(***************************************************************************)
Statuses == {"none", "born", "header", "body", "bucket"}

LEMMA FrameFields ==
  ASSUME NEW f \in FrameObject
  PROVE  /\ f.status \in Statuses /\ f.name \in Text /\ f.attrs \in Seq(Text)
         /\ f.contentlen \in Int /\ f.body \in Text
BY DEF FrameObject, Statuses

LEMMA FrameLengths ==
  ASSUME TypeOK
  PROVE  Len(frame.body) \in Nat /\ Len(frame.attrs) \in Nat
<1>1. frame \in FrameObject
  BY DEF TypeOK
<1>2. frame.attrs \in Seq(Text) /\ frame.body \in Text
  BY <1>1, FrameFields
<1> QED BY <1>2 DEF Text

LEMMA StatusSet ==
  ASSUME NEW f \in FrameObject, NEW x \in Statuses
  PROVE  LET u == [f EXCEPT !.status = x]
         IN  /\ u \in FrameObject /\ u.status = x /\ u.name = f.name /\ u.attrs = f.attrs
             /\ u.contentlen = f.contentlen /\ u.body = f.body
<1> HIDE DEF Text
<1> QED BY DEF FrameObject, Statuses

LEMMA FinishIs ==
  ASSUME NEW f \in FrameObject
  PROVE  /\ frame_finish(f) \in FrameObject /\ frame_finish(f).status = "bucket"
         /\ frame_finish(f).name = f.name /\ frame_finish(f).attrs = f.attrs
         /\ frame_finish(f).contentlen = f.contentlen /\ frame_finish(f).body = f.body
BY StatusSet DEF frame_finish, Statuses

WithHeader(f, x, y) == [f EXCEPT !.contentlen = x, !.attrs = y]

LEMMA HeaderSet ==
  ASSUME NEW f \in FrameObject, NEW x \in Int, NEW y \in Seq(Text)
  PROVE  LET u == WithHeader(f, x, y)
         IN  /\ u \in FrameObject /\ u.status = f.status /\ u.name = f.name /\ u.attrs = y
             /\ u.contentlen = x /\ u.body = f.body
<1> HIDE DEF Text
<1> QED BY DEF FrameObject, WithHeader

LEMMA BodySet ==
  ASSUME NEW f \in FrameObject, NEW x \in Text
  PROVE  LET u == [f EXCEPT !.body = x]
         IN  /\ u \in FrameObject /\ u.status = f.status /\ u.name = f.name /\ u.attrs = f.attrs
             /\ u.contentlen = f.contentlen /\ u.body = x
<1> HIDE DEF Text
<1> QED BY DEF FrameObject

LEMMA NoFrameIs ==
  /\ NoFrame \in FrameObject /\ NoFrame.status = "none" /\ NoFrame.name = <<>>
  /\ NoFrame.attrs = <<>> /\ NoFrame.contentlen = -1 /\ NoFrame.body = <<>>
  /\ NoFrame = [NoFrame EXCEPT !.status = NoFrame.status]
<1>1. <<>> \in Text
  BY DEF Text
<1>2. <<>> \in Seq(Text)
  OBVIOUS
<1>3. /\ NoFrame \in FrameObject /\ NoFrame.status = "none" /\ NoFrame.name = <<>>
      /\ NoFrame.attrs = <<>> /\ NoFrame.contentlen = -1 /\ NoFrame.body = <<>>
  <2> HIDE DEF Text
  <2> QED BY <1>1, <1>2 DEF NoFrame, FrameObject
<1>4. NoFrame = [NoFrame EXCEPT !.status = NoFrame.status]
  BY DEF NoFrame
<1> QED BY <1>3, <1>4

LEMMA AllocIs ==
  /\ alloc_frame \in FrameObject /\ alloc_frame.status = "born"
  /\ alloc_frame = [NoFrame EXCEPT !.status = alloc_frame.status]
  /\ alloc_frame.attrs = <<>> /\ alloc_frame.contentlen = -1 /\ alloc_frame.body = <<>>
<1>1. "born" \in Statuses
  BY DEF Statuses
<1>2. /\ alloc_frame \in FrameObject /\ alloc_frame.status = "born"
      /\ alloc_frame.attrs = <<>> /\ alloc_frame.contentlen = -1 /\ alloc_frame.body = <<>>
  BY <1>1, NoFrameIs, StatusSet DEF alloc_frame
<1> QED BY <1>2 DEF alloc_frame

LEMMA NamedIs ==
  ASSUME NEW d \in Commands
  PROVE  LET u == [alloc_frame EXCEPT !.status = "header", !.name = d]
         IN  /\ u \in FrameObject /\ u.status = "header" /\ u.name = d
             /\ u.attrs = <<>> /\ u.contentlen = -1 /\ u.body = <<>>
<1>1. d \in Text
  BY TokensAssumption
<1>2. PICK f \in FrameObject : f = alloc_frame
  BY AllocIs
<1>3. LET u == [f EXCEPT !.status = "header", !.name = d]
      IN  /\ u \in FrameObject /\ u.status = "header" /\ u.name = d
          /\ u.attrs = f.attrs /\ u.contentlen = f.contentlen /\ u.body = f.body
  <2> HIDE DEF Text
  <2> QED BY <1>1 DEF FrameObject
<1> QED BY <1>2, <1>3, AllocIs

-----------------------------------------------------------------------------
(***************************************************************************)
(* Type correctness.                                                       *)
(***************************************************************************)
Done(g) == g \in FrameObject /\ g.status = "bucket" /\ g.name \in Commands /\ g.contentlen >= 0
Bucket(b) == b \in Seq(FrameObject) /\ \A i \in DOMAIN b : Done(b[i])

LEMMA BucketAppend ==
  ASSUME NEW b, Bucket(b), NEW g, Done(g)
  PROVE  /\ Bucket(Append(b, g)) /\ Len(Append(b, g)) = Len(b) + 1
         /\ DOMAIN b = 1 .. Len(b) /\ DOMAIN Append(b, g) = 1 .. Len(b) + 1 /\ Len(b) \in Nat
         /\ \A i \in 1 .. Len(b) : Append(b, g)[i] = b[i]
         /\ Append(b, g)[Len(b) + 1] = g
<1>1. b \in Seq(FrameObject) /\ g \in FrameObject /\ Len(b) \in Nat /\ DOMAIN b = 1 .. Len(b)
  BY DEF Bucket, Done
<1>2. PICK y : y = Append(b, g)
  OBVIOUS
<1>3. /\ y \in Seq(FrameObject) /\ Len(y) = Len(b) + 1 /\ y[Len(b) + 1] = g
      /\ \A i \in 1 .. Len(b) : y[i] = b[i]
  <2> HIDE DEF FrameObject
  <2> QED BY <1>1, <1>2
<1>4. DOMAIN y = 1 .. Len(b) + 1
  <2> HIDE DEF FrameObject
  <2> QED BY <1>1, <1>3
<1>5. \A i \in 1 .. Len(b) + 1 : i = Len(b) + 1 \/ i \in 1 .. Len(b)
  BY <1>1
<1>6. \A i \in DOMAIN y : Done(y[i])
  <2> HIDE DEF Done
  <2> QED BY <1>1, <1>3, <1>4, <1>5 DEF Bucket
<1>7. Bucket(y)
  BY <1>3, <1>6 DEF Bucket
<1> QED BY <1>1, <1>2, <1>3, <1>4, <1>7

LEMMA BucketTyped == ASSUME TypeOK PROVE Bucket(bucket)
BY DEF TypeOK, Bucket, Done

(* The parts of TypeOK. *)
TypeStream == /\ script = <<>> \/ script \in Scripts
              /\ input \in Text /\ buf \in Text /\ prev \in Text
              /\ lost \in BOOLEAN /\ closed \in BOOLEAN /\ errors \in Nat
              /\ room \in Nat /\ spilled \in BOOLEAN
TypeCurr == curr \in 1 .. (Len(buf) + 2)
TypeFrame == /\ frame \in FrameObject /\ frame.status # "bucket"
             /\ frame.status = "body" => frame.contentlen > 0
             /\ frame.status \in {"none", "born"} => frame = [NoFrame EXCEPT !.status = frame.status]
             /\ frame.status \in {"header", "body"} => frame.name \in Commands

LEMMA TypeParts == TypeOK <=> TypeStream /\ TypeCurr /\ TypeFrame /\ Bucket(bucket)
BY DEF TypeOK, TypeStream, TypeCurr, TypeFrame, Bucket, Done

LEMMA TypePartsNext == TypeOK' <=> TypeStream' /\ TypeCurr' /\ TypeFrame' /\ Bucket(bucket')
BY DEF TypeOK, TypeStream, TypeCurr, TypeFrame, Bucket, Done

LEMMA NextLineTypes ==
  ASSUME TypeOK, HasLine, NEW x \in 0 .. 1, NextLine(x), errors' \in Nat
  PROVE  TypeStream' /\ TypeCurr'
<1>1. TypeStream'
  <2>1. <<>> \in Text
    BY DEF Text
  <2> QED BY <2>1 DEF TypeOK, TypeStream, NextLine, stream
<1>2. TypeCurr'
  <2>1. Parsing
    BY DEF HasLine
  <2>2. LineLen \in Nat /\ LineLen <= Len(Rest) /\ Len(Rest) = Len(buf) - curr + 1
    BY <2>1, LineIs, RestIs
  <2>3. Len(buf) \in Nat /\ curr \in 1 .. (Len(buf) + 2)
    BY DEF TypeOK, Text
  <2>4. PICK n \in Nat, z \in Nat, c \in Nat : n = LineLen /\ z = Len(buf) /\ c = curr
    BY <2>2, <2>3
  <2>5. n <= z - c + 1 /\ 1 <= c
    BY <2>2, <2>3, <2>4
  <2>6. c + n + x \in 1 .. z + 2
    BY <2>5
  <2> QED BY <2>4, <2>6 DEF TypeCurr, NextLine
<1> QED BY <1>1, <1>2

LEMMA NoFrameTyped == ASSUME frame' = NoFrame PROVE TypeFrame'
<1>1. NoFrame.status # "bucket" /\ NoFrame.status # "body" /\ NoFrame.status # "header"
  BY NoFrameIs
<1> QED BY <1>1, NoFrameIs DEF TypeFrame

LEMMA TypeInit == ASSUME Init PROVE TypeOK
<1>1. <<>> \in Text /\ Len(<<>>) = 0
  BY DEF Text
<1>2. input \in Text
  <2>1. CASE script \in Scripts /\ input = EncodeAll(script)
    <3>1. PICK fs \in Scripts : fs = script
      BY <2>1
    <3>2. EncodeAll(fs) \in Text
      BY StreamIs DEF Stream
    <3> QED BY <2>1, <3>1, <3>2
  <2>2. CASE input \in Raw
    BY <2>2, TokensAssumption
  <2> QED BY <2>1, <2>2 DEF Init
<1>3. TypeStream
  BY <1>1, <1>2 DEF Init, TypeStream
<1>4. TypeCurr
  BY <1>1 DEF Init, TypeCurr
<1>5. TypeFrame
  <2>1. frame = NoFrame
    BY DEF Init
  <2>2. NoFrame.status # "bucket" /\ NoFrame.status # "body" /\ NoFrame.status # "header"
    BY NoFrameIs
  <2> QED BY <2>1, <2>2, NoFrameIs DEF TypeFrame
<1>6. Bucket(bucket)
  <2>1. bucket = <<>>
    BY DEF Init
  <2> QED BY <2>1 DEF Bucket
<1> QED BY <1>3, <1>4, <1>5, <1>6, TypeParts

(* The two pieces recv() cuts the input into. *)
LEMMA CutIs ==
  ASSUME NEW s \in Text, NEW n \in Nat, n <= Len(s)
  PROVE  /\ SubSeq(s, 1, n) \in Text /\ Len(SubSeq(s, 1, n)) = n
         /\ SubSeq(s, n + 1, Len(s)) \in Text /\ Len(SubSeq(s, n + 1, Len(s))) = Len(s) - n
         /\ \A i \in 1 .. n : SubSeq(s, 1, n)[i] = s[i]
         /\ \A i \in 1 .. Len(s) - n : SubSeq(s, n + 1, Len(s))[i] = s[n + i]
<1>1. PICK z \in Nat : z = Len(s) /\ n <= z /\ \A i \in 1 .. z : s[i] \in Tokens
  BY DEF Text
<1>2. PICK x, y : x = SubSeq(s, 1, n) /\ y = SubSeq(s, n + 1, z)
  OBVIOUS
<1>3. x \in Seq(Tokens) /\ Len(x) = n /\ \A i \in 1 .. n : x[i] = s[i]
  <2>1. \A i \in 1 .. n : s[i] \in Tokens
    BY <1>1
  <2>2. x \in Seq(Tokens) /\ (Len(x) = IF 1 <= n THEN n - 1 + 1 ELSE 0)
        /\ \A i \in 1 .. n - 1 + 1 : x[i] = s[1 + i - 1]
    BY <1>2, <2>1, SubSeqProperties
  <2>3. (IF 1 <= n THEN n - 1 + 1 ELSE 0) = n /\ \A i \in 1 .. n : i \in 1 .. n - 1 + 1 /\ 1 + i - 1 = i
    OBVIOUS
  <2>4. \A i \in 1 .. n : x[i] = s[i]
    BY <2>2, <2>3
  <2> QED BY <2>2, <2>3, <2>4
<1>4. y \in Seq(Tokens) /\ Len(y) = z - n /\ \A i \in 1 .. z - n : y[i] = s[n + i]
  <2>1. \A i \in n + 1 .. z : s[i] \in Tokens
    BY <1>1
  <2>2. y \in Seq(Tokens) /\ (Len(y) = IF n + 1 <= z THEN z - (n + 1) + 1 ELSE 0)
        /\ \A i \in 1 .. z - (n + 1) + 1 : y[i] = s[(n + 1) + i - 1]
    BY <1>2, <2>1, SubSeqProperties
  <2>3. (IF n + 1 <= z THEN z - (n + 1) + 1 ELSE 0) = z - n
    BY <1>1
  <2>4. \A i \in 1 .. z - n : i \in 1 .. z - (n + 1) + 1 /\ (n + 1) + i - 1 = n + i
    BY <1>1
  <2>5. \A i \in 1 .. z - n : y[i] = s[n + i]
    BY <2>2, <2>4
  <2> QED BY <2>2, <2>3, <2>5
<1> QED BY <1>1, <1>2, <1>3, <1>4 DEF Text

LEMMA TypeRecv == ASSUME TypeOK, NEW n \in 1 .. MaxChunk, Recv(n) PROVE TypeOK'
<1>1. PICK s \in Text : s = input
  BY DEF TypeOK
<1>2. n \in Nat /\ n <= Len(s)
  BY <1>1, LimitsAssumption DEF Recv
<1>3. SubSeq(s, 1, n) \in Text /\ Len(SubSeq(s, 1, n)) = n /\ SubSeq(s, n + 1, Len(s)) \in Text
  BY <1>2, CutIs
<1>4. TypeStream'
  BY <1>1, <1>3 DEF Recv, TypeOK, TypeStream, stream, held
<1>5. TypeCurr'
  BY <1>1, <1>2, <1>3 DEF Recv, TypeCurr
<1>6. TypeFrame' /\ Bucket(bucket')
  BY TypeParts DEF Recv, TypeFrame
<1> QED BY <1>4, <1>5, <1>6, TypePartsNext

LEMMA TypeSaveTail == ASSUME TypeOK, SaveTail PROVE TypeOK'
<1>1. Rest \in Text /\ prev \in Text
  BY RestIs DEF SaveTail, TypeOK
<1>2. PICK x, y : x = prev /\ y = Rest /\ x \in Seq(Tokens) /\ y \in Seq(Tokens)
  BY <1>1 DEF Text
<1>3. x \o y \in Seq(Tokens)
  BY <1>2, ConcatProperties
<1>4. TypeStream'
  <2>1. room' \in Nat
    <3>1. Len(x) \in Nat /\ LD_MAX \in Nat
      BY <1>2, LimitsAssumption
    <3>2. 2 * LD_MAX \in Nat /\ Len(x) + LD_MAX \in Nat
      BY <3>1
    <3> QED BY <1>2, <3>2 DEF SaveTail
  <2> QED BY <1>2, <1>3, <2>1 DEF SaveTail, TypeOK, TypeStream, stream, Text
<1>5. TypeCurr'
  <2>1. Len(buf) \in Nat
    BY DEF TypeOK, Text
  <2> QED BY <2>1 DEF SaveTail, TypeCurr
<1>6. TypeFrame' /\ Bucket(bucket')
  BY TypeParts DEF SaveTail, TypeFrame
<1> QED BY <1>4, <1>5, <1>6, TypePartsNext

LEMMA TypeSetName == ASSUME TypeOK, frame_setname PROVE TypeOK'
<1>1. HasLine /\ NextLine(1) /\ bucket' = bucket
  BY DEF frame_setname
<1>0. errors' \in Nat
  <2>1. errors \in Nat /\ (errors' = errors \/ errors' = errors + 1)
    BY DEF frame_setname, TypeOK
  <2> QED BY <2>1
<1>2. TypeStream' /\ TypeCurr'
  BY <1>0, <1>1, NextLineTypes
<1>3. TypeFrame'
  <2>1. ASSUME NEW d \in Commands, frame' = [alloc_frame EXCEPT !.status = "header", !.name = d]
        PROVE  TypeFrame'
    <3>1. frame' \in FrameObject /\ frame'.status = "header" /\ frame'.name = d
      BY <2>1, NamedIs
    <3> QED BY <3>1 DEF TypeFrame
  <2>2. CASE frame' = alloc_frame
    <3>1. frame' \in FrameObject /\ frame'.status = "born" /\ frame' = [NoFrame EXCEPT !.status = frame'.status]
      BY <2>2, AllocIs
    <3> QED BY <3>1 DEF TypeFrame
  <2> QED BY <2>1, <2>2 DEF frame_setname
<1>4. Bucket(bucket')
  BY <1>1, TypeParts
<1> QED BY <1>2, <1>3, <1>4, TypePartsNext

LEMMA TypeHeaderEnds == ASSUME TypeOK, HeaderEnds PROVE TypeOK'
<1>1. HasLine /\ NextLine(1) /\ errors' \in Nat
  BY DEF HeaderEnds, TypeOK
<1>2. TypeStream' /\ TypeCurr'
  BY <1>1, NextLineTypes
<1>3. PICK f \in FrameObject : f = frame /\ f.status = "header" /\ f.name \in Commands
  BY DEF TypeOK, HeaderEnds
<1>4. CASE f.contentlen > 0 /\ frame' = [f EXCEPT !.status = "body"] /\ bucket' = bucket
  <2>1. "body" \in Statuses
    BY DEF Statuses
  <2>2. frame' \in FrameObject /\ frame'.status = "body" /\ frame'.name \in Commands /\ frame'.contentlen > 0
    BY <1>3, <1>4, <2>1, StatusSet
  <2>3. TypeFrame'
    BY <2>2 DEF TypeFrame
  <2> QED BY <1>2, <1>4, <2>3, TypeParts, TypePartsNext
<1>5. CASE f.contentlen = 0 /\ frame' = NoFrame /\ bucket' = Append(bucket, frame_finish(f))
  <2>1. Done(frame_finish(f))
    BY <1>3, <1>5, FinishIs DEF Done
  <2>2. Bucket(bucket')
    BY <1>5, <2>1, TypeParts, BucketAppend
  <2>3. TypeFrame'
    BY <1>5, NoFrameTyped
  <2> QED BY <1>2, <2>2, <2>3, TypePartsNext
<1> QED BY <1>3, <1>4, <1>5 DEF HeaderEnds

LEMMA ContentlenIs == ASSUME NEW l \in Text, is_contentlen(l) PROVE get_contentlen(l) \in Int
BY TokensAssumption DEF get_contentlen

LEMMA TypeHeaderLine == ASSUME TypeOK, HeaderLine PROVE TypeOK'
<1>1. HasLine /\ NextLine(1) /\ errors' \in Nat /\ bucket' = bucket
  BY DEF HeaderLine, TypeOK
<1>2. TypeStream' /\ TypeCurr'
  BY <1>1, NextLineTypes
<1>3. PICK f \in FrameObject : f = frame /\ f.status = "header" /\ f.name \in Commands
  BY DEF TypeOK, HeaderLine
<1>4. CASE Line = <<>>
  <2>1. frame' = frame
    BY <1>4 DEF HeaderLine
  <2> QED BY <1>1, <1>2, <2>1, TypeParts, TypePartsNext DEF TypeFrame
<1>5. CASE Line # <<>>
  <2>1. PICK l \in Text : l = Line
    BY LineIs DEF HeaderLine, HasLine
  <2>2. PICK x \in Int : x = IF is_contentlen(l) THEN get_contentlen(l) ELSE f.contentlen
    BY ContentlenIs, FrameFields
  <2>3. PICK y \in Seq(Text) : y = f.attrs \o Pieces(l)
    <3>1. PICK x1 \in Seq(Text), x2 \in Seq(Text) : x1 = f.attrs /\ x2 = Pieces(l)
      BY PiecesAre, FrameFields
    <3>2. x1 \o x2 \in Seq(Text)
      BY ConcatProperties
    <3> QED BY <3>1, <3>2
  <2>4. frame' = WithHeader(f, x, y)
    BY <1>3, <1>5, <2>1, <2>2, <2>3 DEF HeaderLine, WithHeader
  <2>5. frame' \in FrameObject /\ frame'.status = "header" /\ frame'.name \in Commands
    BY <1>3, <2>4, HeaderSet
  <2>6. TypeFrame'
    BY <2>5 DEF TypeFrame
  <2> QED BY <1>1, <1>2, <2>6, TypeParts, TypePartsNext
<1> QED BY <1>4, <1>5

LEMMA TypeBodyLine == ASSUME TypeOK, BodyLine PROVE TypeOK'
<1>1. HasLine /\ errors' \in Nat
  BY DEF BodyLine, TypeOK
<1>2. PICK f \in FrameObject : f = frame /\ f.status = "body" /\ f.name \in Commands /\ f.contentlen > 0
  BY DEF TypeOK, BodyLine
<1>3. PICK l \in Text : l = Line
  BY LineIs DEF BodyLine, HasLine
<1>4. PICK x \in Text : x = f.body \o l
  <2>1. f.body \in Seq(Tokens) /\ l \in Seq(Tokens)
    BY FrameFields DEF Text
  <2>2. f.body \o l \in Seq(Tokens)
    BY <2>1, ConcatProperties
  <2> QED BY <2>2 DEF Text
<1>5. PICK g : g = [f EXCEPT !.body = x]
  OBVIOUS
<1>6. /\ g \in FrameObject /\ g.status = "body" /\ g.name \in Commands
      /\ g.contentlen = f.contentlen /\ g.body = x
  BY <1>2, <1>5, BodySet
<1>7. g = [frame EXCEPT !.body = @ \o Line]
  BY <1>2, <1>3, <1>4, <1>5
<1>8. CASE frame' = NoFrame /\ bucket' = Append(bucket, frame_finish(g)) /\ NextLine(1)
  <2>1. Done(frame_finish(g))
    BY <1>2, <1>6, FinishIs, FrameFields DEF Done
  <2>2. Bucket(bucket')
    BY <1>8, <2>1, TypeParts, BucketAppend
  <2> QED BY <1>1, <1>8, <2>2, NoFrameTyped, NextLineTypes, TypePartsNext
<1>9. CASE frame' = g /\ bucket' = bucket /\ NextLine(0)
  <2>1. TypeFrame'
    BY <1>2, <1>6, <1>9 DEF TypeFrame
  <2> QED BY <1>1, <1>9, <2>1, NextLineTypes, TypeParts, TypePartsNext
<1> QED BY <1>7, <1>8, <1>9 DEF BodyLine

LEMMA TypeStep == ASSUME TypeOK, [Next]_vars PROVE TypeOK'
<1>1. ASSUME NEW n \in 1 .. MaxChunk, Recv(n) PROVE TypeOK'
  BY <1>1, TypeRecv
<1>2. CASE Disconnect
  <2>1. <<>> \in Text
    BY DEF Text
  <2> QED BY <1>2, <2>1 DEF Disconnect, TypeOK, held
<1>3. CASE conn_finish
  <2>1. TypeStream' /\ TypeCurr' /\ TypeFrame'
    BY <1>3, TypeParts DEF conn_finish, TypeStream, TypeCurr, TypeFrame, held
  <2>2. Bucket(bucket')
    <3>1. CASE frame.status = "body"
      <4>1. PICK f \in FrameObject : f = frame /\ f.name \in Commands /\ f.contentlen > 0
        BY <3>1 DEF TypeOK
      <4>2. Done(frame_finish(f))
        BY <4>1, FinishIs, FrameFields DEF Done
      <4> QED BY <1>3, <3>1, <4>1, <4>2, TypeParts, BucketAppend DEF conn_finish
    <3>2. CASE frame.status # "body"
      BY <1>3, <3>2, TypeParts DEF conn_finish
    <3> QED BY <3>1, <3>2
  <2> QED BY <2>1, <2>2, TypePartsNext
<1>4. CASE SkipBlank
  <2>1. HasLine /\ NextLine(1) /\ errors' \in Nat /\ frame' = frame /\ bucket' = bucket
    BY <1>4 DEF SkipBlank, TypeOK
  <2> QED BY <2>1, NextLineTypes, TypeParts, TypePartsNext DEF TypeFrame
<1>5. CASE UNCHANGED vars
  BY <1>5 DEF vars, stream, held, TypeOK
<1>6. CASE Overflow
  BY <1>6 DEF Overflow, stream, held, TypeOK
<1> QED BY <1>1, <1>2, <1>3, <1>4, <1>5, <1>6, TypeSaveTail, TypeSetName, TypeHeaderEnds,
           TypeHeaderLine, TypeBodyLine DEF Next, recv_data

(* However TCP cuts the stream and whatever the client sends, the parser   *)
(* keeps to its states: the position never passes the chunk by more than   *)
(* the separator that it skips unseen, a frame that reads its body has a   *)
(* name and a positive content-length, and what reaches the bucket has a   *)
(* name of finfo_arr and a content-length.                                 *)
THEOREM TypeCorrect == Spec => []TypeOK
<1>1. Init => TypeOK
  BY TypeInit
<1>2. TypeOK /\ [Next]_vars => TypeOK'
  BY TypeStep
<1> QED BY <1>1, <1>2, PTL DEF Spec

-----------------------------------------------------------------------------
(***************************************************************************)
(* Truncated frames.  Inductive with TypeOK and the fact that a connection *)
(* that has ended parses nothing.                                          *)
(***************************************************************************)
ClosedIdle == closed => ~Parsing /\ input = <<>>
TruncatedInv == TypeOK /\ ClosedIdle /\ TruncatedOnlyLast

LEMMA TruncatedAppend ==
  ASSUME TypeOK, TruncatedOnlyLast, ~closed, NEW g, Done(g), Complete(g) \/ closed',
         bucket' = Append(bucket, g)
  PROVE  TruncatedOnlyLast'
<1>1. PICK b : b = bucket /\ Bucket(b)
  BY BucketTyped
<1>2. PICK y : y = Append(b, g)
  OBVIOUS
<1>3. PICK n \in Nat : n = Len(b)
  BY <1>1 DEF Bucket
<1>4. /\ Len(y) = n + 1 /\ DOMAIN b = 1 .. n /\ DOMAIN y = 1 .. n + 1
      /\ (\A i \in 1 .. n : y[i] = b[i]) /\ y[n + 1] = g
  BY <1>1, <1>2, <1>3, BucketAppend
<1>5. \A i \in 1 .. n : Complete(b[i])
  BY <1>1, <1>4 DEF TruncatedOnlyLast
<1>6. ASSUME NEW i \in 1 .. n + 1, ~Complete(y[i]) PROVE i = n + 1 /\ closed'
  <2>1. i \in 1 .. n \/ i = n + 1
    OBVIOUS
  <2> QED BY <1>4, <1>5, <1>6, <2>1
<1>7. bucket' = y
  BY <1>1, <1>2
<1>8. \A i \in DOMAIN bucket' : ~Complete(bucket'[i]) => i = Len(bucket') /\ closed'
  BY <1>4, <1>6, <1>7
<1> QED BY <1>8 DEF TruncatedOnlyLast, Complete

LEMMA TruncatedSame ==
  ASSUME TruncatedOnlyLast, ~closed, bucket' = bucket
  PROVE  TruncatedOnlyLast'
BY DEF TruncatedOnlyLast, Complete

LEMMA TruncatedStep == ASSUME TruncatedInv, [Next]_vars PROVE TruncatedInv'
<1>1. TypeOK /\ ClosedIdle /\ TruncatedOnlyLast /\ TypeOK'
  BY TypeStep DEF TruncatedInv
<1>2. CASE UNCHANGED vars
  BY <1>1, <1>2 DEF vars, stream, TruncatedInv, ClosedIdle, TruncatedOnlyLast, Complete, Parsing
<1>3. CASE conn_finish
  <2>1. ClosedIdle'
    BY <1>3 DEF conn_finish, ClosedIdle, Parsing
  <2>2. CASE frame.status = "body"
    <3>1. PICK f \in FrameObject : f = frame /\ f.name \in Commands /\ f.contentlen > 0
      BY <1>1, <2>2 DEF TypeOK
    <3>2. Done(frame_finish(f))
      BY <3>1, FinishIs, FrameFields DEF Done
    <3>3. ~closed /\ closed' /\ bucket' = Append(bucket, frame_finish(f))
      BY <1>3, <2>2, <3>1 DEF conn_finish
    <3>4. TruncatedOnlyLast'
      BY <1>1, <3>2, <3>3, TruncatedAppend
    <3> QED BY <1>1, <2>1, <3>4 DEF TruncatedInv
  <2>3. CASE frame.status # "body"
    BY <1>1, <1>3, <2>1, <2>3, TruncatedSame DEF conn_finish, TruncatedInv
  <2> QED BY <2>2, <2>3
<1>4. CASE /\ ~closed /\ UNCHANGED closed
           /\ UNCHANGED bucket \/ \E g : Done(g) /\ Complete(g) /\ bucket' = Append(bucket, g)
  <2>1. ClosedIdle'
    BY <1>4 DEF ClosedIdle
  <2>2. TruncatedOnlyLast'
    BY <1>1, <1>4, TruncatedSame, TruncatedAppend
  <2> QED BY <1>1, <2>1, <2>2 DEF TruncatedInv
<1>5. ASSUME NEW n \in 1 .. MaxChunk, Recv(n) PROVE TruncatedInv'
  BY <1>4, <1>5 DEF Recv, stream
<1>6. CASE Disconnect
  BY <1>4, <1>6 DEF Disconnect
<1>7. CASE recv_data
  <2>1. ~closed
    BY <1>1, <1>7 DEF ClosedIdle, recv_data, SaveTail, Overflow, SkipBlank, frame_setname, HeaderEnds, HeaderLine,
                      BodyLine, HasLine
  <2>2. UNCHANGED closed
    BY <1>7 DEF recv_data, SaveTail, Overflow, SkipBlank, frame_setname, HeaderEnds, HeaderLine,
                BodyLine, NextLine, stream
  <2>3. CASE HeaderEnds
    <3>1. PICK f \in FrameObject : f = frame /\ f.name \in Commands
      BY <1>1, <2>3 DEF TypeOK, HeaderEnds
    <3>2. CASE f.contentlen = 0 /\ bucket' = Append(bucket, frame_finish(f))
      <4>1. Done(frame_finish(f))
        BY <3>1, <3>2, FinishIs DEF Done
      <4>2. Complete(frame_finish(f))
        <5>1. Len(f.body) \in Nat
          BY FrameFields DEF Text
        <5> QED BY <3>2, <5>1, FinishIs DEF Complete
      <4> QED BY <1>4, <2>1, <2>2, <3>2, <4>1, <4>2
    <3>3. CASE UNCHANGED bucket
      BY <1>4, <2>1, <2>2, <3>3
    <3> QED BY <2>3, <3>1, <3>2, <3>3 DEF HeaderEnds
  <2>4. CASE BodyLine
    <3>1. PICK f \in FrameObject : f = frame /\ f.name \in Commands /\ f.contentlen > 0
      BY <1>1, <2>4 DEF TypeOK, BodyLine
    <3>2. PICK x \in Text : x = f.body \o Line
      <4>1. PICK l \in Seq(Tokens) : l = Line
        BY <1>1, <2>4, LineIs DEF BodyLine, HasLine, Text
      <4>2. f.body \in Seq(Tokens)
        BY FrameFields DEF Text
      <4>3. f.body \o l \in Seq(Tokens)
        BY <4>2, ConcatProperties
      <4> QED BY <4>1, <4>3 DEF Text
    <3>3. PICK g : g = [f EXCEPT !.body = x]
      OBVIOUS
    <3>4. g \in FrameObject /\ g.name \in Commands /\ g.contentlen = f.contentlen /\ g.body = x
      BY <3>1, <3>3, BodySet
    <3>5. g = [frame EXCEPT !.body = @ \o Line]
      BY <3>1, <3>2, <3>3
    <3>6. CASE g.contentlen <= Len(g.body) /\ bucket' = Append(bucket, frame_finish(g))
      <4>1. Done(frame_finish(g))
        BY <3>1, <3>4, FinishIs, FrameFields DEF Done
      <4>2. Complete(frame_finish(g))
        <5>1. Len(g.body) \in Nat /\ g.contentlen \in Int
          BY <3>4, FrameFields DEF Text
        <5> QED BY <3>4, <3>6, <5>1, FinishIs DEF Complete
      <4> QED BY <1>4, <2>1, <2>2, <3>6, <4>1, <4>2
    <3>7. CASE UNCHANGED bucket
      BY <1>4, <2>1, <2>2, <3>7
    <3> QED BY <2>4, <3>5, <3>6, <3>7 DEF BodyLine
  <2>5. CASE SaveTail \/ Overflow \/ SkipBlank \/ frame_setname \/ HeaderLine
    <3>1. UNCHANGED bucket
      BY <2>5 DEF SaveTail, Overflow, SkipBlank, frame_setname, HeaderLine
    <3> QED BY <1>4, <2>1, <2>2, <3>1
  <2> QED BY <1>7, <2>3, <2>4, <2>5 DEF recv_data
<1> QED BY <1>2, <1>3, <1>5, <1>6, <1>7 DEF Next

(* Whatever the client sends and wherever TCP cuts it, a frame shorter     *)
(* than its content-length reaches the bucket only as the last one of a    *)
(* connection that has ended.                                              *)
THEOREM Truncated == Spec => []TruncatedOnlyLast
<1>1. Init => TruncatedInv
  <2> SUFFICES ASSUME Init PROVE TruncatedInv
    OBVIOUS
  <2>1. TypeOK
    BY TypeInit
  <2>2. ClosedIdle /\ TruncatedOnlyLast
    BY DEF Init, ClosedIdle, TruncatedOnlyLast
  <2> QED BY <2>1, <2>2 DEF TruncatedInv
<1>2. TruncatedInv /\ [Next]_vars => TruncatedInv'
  BY TruncatedStep
<1>3. TruncatedInv => TruncatedOnlyLast
  BY DEF TruncatedInv
<1> QED BY <1>1, <1>2, <1>3, PTL DEF Spec

-----------------------------------------------------------------------------
(***************************************************************************)
(* The round trip.  The parser's position in the stream, the frame in      *)
(* progress and the bucket are related to the frames the client sent.      *)
(***************************************************************************)
(* How much of the stream the parser has looked at when base tokens came   *)
(* before the chunk; a separator that it has skipped unseen is not counted.*)
Read(base) == IF curr <= Len(buf) THEN base + curr - 1 ELSE base + Len(buf)

Received(t, base) ==
  /\ base \in Nat
  /\ base + Len(buf) + Len(input) <= Len(t)
  /\ ~lost => base + Len(buf) + Len(input) = Len(t)
  /\ \A i \in 1 .. Len(buf) : buf[i] = t[base + i]
  /\ \A i \in 1 .. Len(input) : input[i] = t[base + Len(buf) + i]

(* The parser is in the line behind q that ends at e, and prev_data holds  *)
(* what it has seen of it.                                                 *)
InLine(t, base, q, e) ==
  /\ q \in Nat /\ e \in Nat /\ e <= Len(t)
  /\ Read(base) = q + Len(prev) /\ Read(base) <= e
  /\ \A i \in 1 .. Len(prev) : prev[i] = t[q + i]

(* What the parser has of the frame f. *)
HeaderOf(f) ==
  /\ frame.status = "header" /\ frame.name = f.name /\ frame.body = <<>>
  /\ Len(frame.attrs) <= Len(f.attrs)
  /\ \A i \in 1 .. Len(frame.attrs) : frame.attrs[i] = f.attrs[i]
  /\ \A i \in 1 .. Len(f.attrs) : is_contentlen(f.attrs[i]) =>
       frame.contentlen = IF i <= Len(frame.attrs) THEN Len(f.body) ELSE -1
BodyOf(f) ==
  /\ frame.status = "body" /\ frame.name = f.name /\ frame.attrs = f.attrs
  /\ frame.contentlen = Len(f.body) /\ Len(frame.body) < Len(f.body)
  /\ \A i \in 1 .. Len(frame.body) : frame.body[i] = f.body[i]

(* Between two frames: before the name of the next one, at the end of the  *)
(* stream, or at the NUL behind the last one.                              *)
BetweenFrames(fs, st, q, e) ==
  /\ frame = NoFrame
  /\ \/ Len(bucket) < Len(fs) /\ q = st[Len(bucket)] /\ e = q + Len(fs[Len(bucket) + 1].name)
     \/ Len(bucket) = Len(fs) /\ q = st[Len(fs)] /\ e = q
     \/ Len(bucket) > 0 /\ q + 1 = st[Len(bucket)] /\ e = q

(* In the header of f, which begins behind b: in the next header line (or  *)
(* the empty one), or at the NL behind the name.                           *)
InHeader(f, b, o, q, e) ==
  /\ HeaderOf(f)
  /\ \/ q = b + o[Len(frame.attrs) + 1] /\ e + 1 = b + o[Len(frame.attrs) + 2]
     \/ Len(frame.attrs) = 0 /\ q + 1 = b + o[1] /\ e = q

InBody(f, b, o, q, e) ==
  /\ BodyOf(f)
  /\ q = b + o[Len(f.attrs) + 2] + Len(frame.body)
  /\ e = b + o[Len(f.attrs) + 2] + Len(f.body)

InFrame(fs, st, lay, q, e) ==
  /\ Len(bucket) < Len(fs)
  /\ \/ InHeader(fs[Len(bucket) + 1], st[Len(bucket)], lay[Len(bucket) + 1], q, e)
     \/ InBody(fs[Len(bucket) + 1], st[Len(bucket)], lay[Len(bucket) + 1], q, e)

Delivered(fs) ==
  /\ Len(bucket) <= Len(fs)
  /\ \A i \in 1 .. Len(bucket) :
       Content(bucket[i]) = fs[i] /\ bucket[i].contentlen = Len(fs[i].body)

At(t, fs, st, lay, base, q, e) ==
  /\ Received(t, base) /\ InLine(t, base, q, e)
  /\ Delivered(fs)
  /\ BetweenFrames(fs, st, q, e) \/ InFrame(fs, st, lay, q, e)

(* The line of t behind q ends at e; in a body only a NUL ends it. *)
LineOf(t, q, e, b) ==
  /\ q \in Nat /\ e \in Nat /\ q <= e
  /\ \A i \in 1 .. e - q : t[q + i] # NUL /\ (~b => ~IsNL(t[q + i]))
  /\ t[e + 1] = NUL \/ (~b /\ t[e + 1] = NL)
  /\ ~b => e - q <= LD_MAX

LEMMA PrefixIs ==
  ASSUME NEW x \in Text, NEW y \in Text
  PROVE  IsPrefix(x, y) <=> Len(x) <= Len(y) /\ \A i \in 1 .. Len(x) : x[i] = y[i]
<1>1. PICK n \in Nat, m \in Nat : n = Len(x) /\ m = Len(y)
  BY DEF Text
<1>2. CASE n <= m
  <2>1. PICK u, v : u = SubSeq(x, 1, n) /\ v = SubSeq(y, 1, n)
    OBVIOUS
  <2>2. n <= Len(x) /\ n <= Len(y)
    BY <1>1, <1>2
  <2>3. u \in Text /\ Len(u) = n /\ \A i \in 1 .. n : u[i] = x[i]
    BY <2>1, <2>2, CutIs
  <2>4. v \in Text /\ Len(v) = n /\ \A i \in 1 .. n : v[i] = y[i]
    BY <2>1, <2>2, CutIs
  <2>5. u = v <=> \A i \in 1 .. n : u[i] = v[i]
    <3>1. u \in Seq(Tokens) /\ v \in Seq(Tokens)
      BY <2>3, <2>4 DEF Text
    <3> QED BY <2>3, <2>4, <3>1, SeqEqual
  <2>6. IsPrefix(x, y) <=> u = v
    BY <1>1, <1>2, <2>1 DEF IsPrefix
  <2> QED BY <1>1, <1>2, <2>3, <2>4, <2>5, <2>6
<1>3. CASE ~(n <= m)
  BY <1>1, <1>3 DEF IsPrefix
<1> QED BY <1>2, <1>3

(* Where ssplit() ends a line of r tokens that fits into LD_MAX. *)
LEMMA SplitText ==
  ASSUME NEW s \in Text, Len(s) > 0, NEW b \in BOOLEAN, NEW r \in Nat,
         \A i \in 1 .. r : i <= Len(s) => s[i] # NUL /\ (~b => ~IsNL(s[i])),
         r < Len(s) => s[r + 1] = NUL \/ (~b /\ s[r + 1] = NL)
  PROVE  /\ ssplit(s, b) \in Nat /\ ssplit(s, b) <= r /\ ssplit(s, b) <= Len(s)
         /\ r <= LD_MAX => ssplit(s, b) = r \/ ssplit(s, b) = Len(s)
<1>1. PICK z \in Nat : z = Len(s) /\ z > 0
  BY DEF Text
<1>2. CASE r = 0
  <2>1. s[1] = NUL \/ (~b /\ IsNL(s[1]))
    BY <1>1, <1>2 DEF IsNL
  <2> QED BY <1>1, <1>2, <2>1, SplitIs
<1>3. CASE r # 0
  <2>1. ~(s[1] = NUL \/ (~b /\ IsNL(s[1])))
    BY <1>1, <1>3
  <2> DEFINE M == {n \in 1 .. z :
                     \/ n = z
                     \/ s[n + 1] = NUL
                     \/ s[n + 1] = NL /\ ~b
                     \/ n >= LD_MAX}
  <2>2. M \in SUBSET Nat /\ z \in M
    BY <1>1
  <2>3. PICK n : n = ssplit(s, b) /\ n = Min(M)
    BY <1>1, <2>1 DEF ssplit
  <2>4. n \in M /\ \A j \in M : n <= j
    <3> HIDE DEF M
    <3>1. M # {}
      BY <2>2
    <3>2. Min(M) \in M /\ \A j \in M : Min(M) <= j
      BY <2>2, <3>1, MinIsLeast
    <3> QED BY <2>3, <3>2
  <2>5. n \in 1 .. z
    BY <2>4
  <2>6. n <= r
    <3>1. CASE r < z
      <4>1. r \in M
        BY <1>1, <1>3, <3>1
      <4> HIDE DEF M
      <4> QED BY <2>4, <4>1
    <3>2. CASE ~(r < z)
      BY <2>5, <3>2
    <3> QED BY <3>1, <3>2
  <2>7. ASSUME r <= LD_MAX PROVE n = r \/ n = z
    <3>1. SUFFICES ASSUME n < r, n < z PROVE FALSE
      BY <2>5, <2>6
    <3>2. s[n + 1] # NUL /\ ~(s[n + 1] = NL /\ ~b)
      <4>1. n + 1 \in 1 .. r /\ n + 1 <= z
        BY <2>5, <3>1
      <4> QED BY <1>1, <4>1 DEF IsNL
    <3>3. ~(n >= LD_MAX)
      BY <2>5, <2>7, <3>1, LimitsAssumption
    <3>4. n = z \/ s[n + 1] = NUL \/ (s[n + 1] = NL /\ ~b) \/ n >= LD_MAX
      BY <2>4
    <3>5. n # z
      BY <2>5, <3>1
    <3> HIDE DEF M
    <3> QED BY <3>2, <3>3, <3>4, <3>5
  <2> HIDE DEF M
  <2> QED BY <1>1, <2>3, <2>5, <2>6, <2>7
<1> QED BY <1>2, <1>3

LEMMA LineHere ==
  ASSUME NEW t, NEW q \in Nat, NEW m \in Nat, NEW w, NEW b \in BOOLEAN,
         \A k \in 1 .. m : t[q + k] = w[k] /\ w[k] # NUL /\ (~b => ~IsNL(w[k])),
         t[q + m + 1] = NUL \/ (~b /\ t[q + m + 1] = NL), ~b => m <= LD_MAX
  PROVE  LineOf(t, q, q + m, b)
<1>1. PICK e \in Nat : e = q + m /\ e - q = m /\ e + 1 = q + m + 1 /\ q <= e
  OBVIOUS
<1>2. LineOf(t, q, e, b)
  BY <1>1 DEF LineOf
<1> QED BY <1>1, <1>2

LEMMA EmptyLine ==
  ASSUME NEW t, NEW q \in Nat, t[q + 1] = NUL \/ t[q + 1] = NL
  PROVE  LineOf(t, q, q, FALSE)
<1>1. q <= q /\ q - q = 0 /\ 0 <= LD_MAX /\ \A i \in 1 .. 0 : FALSE
  BY LimitsAssumption
<1> QED BY <1>1 DEF LineOf

(* A frame the client sends, with the facts the parser depends on. *)
LEMMA WellFormedIs ==
  ASSUME NEW f, WellFormed(f)
  PROVE  /\ f \in FrameSent
         /\ Len(f.name) \in 1 .. LD_MAX
         /\ \A k \in 1 .. Len(f.name) : f.name[k] # NUL /\ ~IsNL(f.name[k])
         /\ \A n \in 1 .. Len(f.attrs) :
              /\ Len(f.attrs[n]) \in 1 .. LD_MAX
              /\ \A k \in 1 .. Len(f.attrs[n]) : f.attrs[n][k] # NUL /\ ~IsNL(f.attrs[n][k])
         /\ \A k \in 1 .. Len(f.body) : f.body[k] # NUL
<1>1. f \in FrameSent
  BY DEF WellFormed, FrameSent
<1>2. /\ f.name \in Commands /\ f.attrs \in Seq(Text) /\ f.body \in Text
      /\ DOMAIN f.attrs = 1 .. Len(f.attrs)
  BY <1>1, FrameSentIs
<1>3. Len(f.name) \in 1 .. LD_MAX /\ \A k \in 1 .. Len(f.name) : f.name[k] # NUL /\ ~IsNL(f.name[k])
  BY <1>2, CommandsAssumption DEF Contains, IsNL
<1>4. ASSUME NEW n \in 1 .. Len(f.attrs)
      PROVE  /\ Len(f.attrs[n]) \in 1 .. LD_MAX
             /\ \A k \in 1 .. Len(f.attrs[n]) : f.attrs[n][k] # NUL /\ ~IsNL(f.attrs[n][k])
  BY <1>2 DEF WellFormed, Contains, IsNL
<1>5. \A k \in 1 .. Len(f.body) : f.body[k] # NUL
  BY DEF WellFormed, Contains
<1> QED BY <1>1, <1>3, <1>4, <1>5

(* The lines of a frame at b. *)
LEMMA LinesHere ==
  ASSUME NEW f, WellFormed(f), NEW t, NEW b \in Nat, NEW o, FrameAt(t, b, f, o)
  PROVE  /\ \A n \in 0 .. Len(f.attrs) + 2 : o[n] \in Nat
         /\ LineOf(t, b, b + Len(f.name), FALSE) /\ t[b + Len(f.name) + 1] = NL
         /\ b + o[1] = b + Len(f.name) + 1
         /\ \A j \in 0 .. Len(f.attrs) : \A e \in Nat : e + 1 = b + o[j + 2] =>
              /\ LineOf(t, b + o[j + 1], e, FALSE)
              /\ j < Len(f.attrs) => e = b + o[j + 1] + Len(f.attrs[j + 1])
              /\ j = Len(f.attrs) => e = b + o[j + 1]
              /\ t[e + 1] = NL
         /\ \A x \in 0 .. Len(f.body) :
              LineOf(t, b + o[Len(f.attrs) + 2] + x, b + o[Len(f.attrs) + 2] + Len(f.body), TRUE)
<1>1. PICK a \in Text, hs \in Seq(Text), x \in Text : a = f.name /\ hs = f.attrs /\ x = f.body
  BY WellFormedIs, FrameSentIs
<1>2. PICK m \in Nat, u \in Nat, v \in Nat : m = Len(hs) /\ u = Len(a) /\ v = Len(x)
  BY DEF Text
<1>3. o \in [0 .. m + 2 -> Nat] /\ o[1] = u + 1
  BY <1>1, <1>2 DEF FrameAt
<1>4. \A n \in 0 .. m + 2 : o[n] \in Nat
  BY <1>3
<1>5. LineOf(t, b, b + u, FALSE) /\ t[b + u + 1] = NL /\ b + o[1] = b + u + 1
  <2>1. b + (u + 1) = b + u + 1
    OBVIOUS
  <2>2. t[b + u + 1] = NL /\ \A k \in 1 .. u : t[b + k] = a[k]
    BY <1>1, <1>2, <1>3, <2>1 DEF FrameAt
  <2>3. u <= LD_MAX /\ \A k \in 1 .. u : a[k] # NUL /\ ~IsNL(a[k])
    BY <1>1, <1>2, WellFormedIs, LimitsAssumption
  <2>4. LineOf(t, b, b + u, FALSE)
    BY <2>2, <2>3, LineHere
  <2> QED BY <1>3, <2>1, <2>2, <2>4
<1>6. ASSUME NEW j \in 0 .. m, NEW e \in Nat, e + 1 = b + o[j + 2]
      PROVE  /\ LineOf(t, b + o[j + 1], e, FALSE)
             /\ j < m => e = b + o[j + 1] + Len(hs[j + 1])
             /\ j = m => e = b + o[j + 1]
             /\ t[e + 1] = NL
  <2>1. PICK y1 \in Nat, y2 \in Nat : y1 = o[j + 1] /\ y2 = o[j + 2]
    BY <1>4
  <2>2. PICK p \in Nat : p = b + y1 /\ e + 1 = b + y2
    BY <1>6, <2>1
  <2>3. CASE j < m
    <3>1. PICK n \in 1 .. m : n = j + 1 /\ n + 1 = j + 2
      <4>1. j + 1 \in 1 .. m /\ (j + 1) + 1 = j + 2
        BY <2>3
      <4> QED BY <4>1
    <3>2. PICK w : w = hs[n]
      OBVIOUS
    <3>3. PICK z \in Nat : z = Len(w)
      BY <1>2, <3>2 DEF Text
    <3>4. y2 = y1 + z + 1 /\ t[b + y2] = NL /\ \A k \in 1 .. z : t[b + (y1 + k)] = w[k]
      BY <1>1, <1>2, <2>1, <3>1, <3>2, <3>3 DEF FrameAt
    <3>5. e = p + z /\ b + y2 = p + z + 1
      BY <2>2, <3>4
    <3>6. z \in 1 .. LD_MAX /\ \A k \in 1 .. z : w[k] # NUL /\ ~IsNL(w[k])
      BY <1>1, <1>2, <3>2, <3>3, WellFormedIs
    <3>7. z <= LD_MAX
      BY <3>6, LimitsAssumption
    <3>8. ASSUME NEW k \in 1 .. z PROVE t[p + k] = w[k]
      <4>1. p + k = b + (y1 + k)
        BY <2>2
      <4> QED BY <3>4, <4>1
    <3>9. t[p + z + 1] = NL
      BY <3>4, <3>5
    <3>10. LineOf(t, p, p + z, FALSE)
      BY <3>6, <3>7, <3>8, <3>9, LineHere
    <3>11. t[e + 1] = NL
      BY <2>2, <3>4
    <3>12. b + o[j + 1] = p /\ e = b + o[j + 1] + Len(hs[j + 1])
      BY <2>1, <2>2, <3>1, <3>2, <3>3, <3>5
    <3>13. j # m
      BY <2>3
    <3>14. LineOf(t, b + o[j + 1], e, FALSE)
      BY <3>5, <3>10, <3>12
    <3> QED BY <3>11, <3>12, <3>13, <3>14
  <2>4. CASE j = m
    <3>1. y2 = y1 + 1 /\ t[b + y2] = NL
      BY <1>1, <1>2, <2>1, <2>4 DEF FrameAt
    <3>2. e = p
      BY <2>2, <3>1
    <3>3. t[e + 1] = NL
      BY <2>2, <3>1
    <3>4. LineOf(t, e, e, FALSE)
      BY <3>3, EmptyLine
    <3>5. b + o[j + 1] = e
      BY <2>1, <2>2, <3>2
    <3>6. ~(j < m)
      BY <2>4
    <3>7. LineOf(t, b + o[j + 1], e, FALSE)
      BY <3>4, <3>5
    <3> QED BY <3>3, <3>5, <3>6, <3>7
  <2>5. j < m \/ j = m
    OBVIOUS
  <2> QED BY <2>3, <2>4, <2>5
<1>7. ASSUME NEW y \in 0 .. v
      PROVE  LineOf(t, b + o[m + 2] + y, b + o[m + 2] + v, TRUE)
  <2>1. PICK w \in Nat : w = o[m + 2]
    BY <1>4
  <2>2. (\A k \in 1 .. v : t[b + (w + k)] = x[k]) /\ t[b + (w + v + 1)] = NUL
    BY <1>1, <1>2, <2>1 DEF FrameAt
  <2>3. PICK p \in Nat, e \in Nat : p = b + w + y /\ e = b + w + v
    OBVIOUS
  <2>4. p <= e /\ e + 1 = b + (w + v + 1)
    BY <2>3
  <2>5. ASSUME NEW i \in 1 .. e - p PROVE t[p + i] # NUL
    <3>1. y + i \in 1 .. v /\ p + i = b + (w + (y + i))
      BY <2>3
    <3>2. x[y + i] # NUL
      BY <1>1, <1>2, <3>1, WellFormedIs
    <3> QED BY <2>2, <3>1, <3>2
  <2>6. LineOf(t, p, e, TRUE)
    BY <2>2, <2>4, <2>5 DEF LineOf
  <2> QED BY <2>1, <2>3, <2>6
<1> QED BY <1>1, <1>2, <1>4, <1>5, <1>6, <1>7

(* What recv_data() finds when it is in a line of the stream: the part of  *)
(* the line that the chunk has, up to LD_MAX tokens of it in a body.       *)
Here(t, base, q, e) ==
  /\ LineLen \in Nat /\ Len(prev) \in Nat /\ Len(Rest) \in Nat \ {0}
  /\ LineLen <= Len(Rest) /\ q + Len(prev) + LineLen <= e
  /\ ~is_body_input => q + Len(prev) + LineLen = e \/ LineLen = Len(Rest)
  /\ Line \in Text /\ Len(Line) = Len(prev) + LineLen
  /\ \A i \in 1 .. Len(Line) : Line[i] = t[q + i]
  /\ First = t[q + 1]
  /\ \A i \in 1 .. Len(Rest) : Rest[i] = t[q + Len(prev) + i]
  /\ base + Len(buf) = q + Len(prev) + Len(Rest)

LEMMA HereIs ==
  ASSUME TypeOK, Parsing, NEW t \in Text, NEW base, Received(t, base),
         NEW q, NEW e, InLine(t, base, q, e),
         NEW b \in BOOLEAN, b = is_body_input, LineOf(t, q, e, b)
  PROVE  Here(t, base, q, e)
<1>1. /\ q \in Nat /\ e \in Nat /\ base \in Nat /\ q <= e
      /\ \A i \in 1 .. e - q : t[q + i] # NUL /\ (~b => ~IsNL(t[q + i]))
      /\ t[e + 1] = NUL \/ (~b /\ t[e + 1] = NL)
      /\ ~b => e - q <= LD_MAX
  BY DEF LineOf, Received
<1>2. PICK s \in Text : s = Rest
  BY RestIs
<1>3. PICK p \in Nat, z \in Nat, c \in Nat, v \in Nat : p = Len(prev) /\ z = Len(buf) /\ c = curr /\ v = Len(s)
  <2>1. Len(prev) \in Nat /\ Len(buf) \in Nat /\ curr \in Nat /\ Len(s) \in Nat
    BY <1>2 DEF TypeOK, Text
  <2> QED BY <2>1
<1>4. v = z - c + 1 /\ v > 0 /\ 1 <= c /\ c <= z /\ \A k \in 1 .. v : s[k] = buf[c + k - 1]
  <2>1. Len(Rest) = Len(buf) - curr + 1 /\ Len(Rest) \in Nat \ {0}
        /\ \A k \in 1 .. Len(Rest) : Rest[k] = buf[curr + k - 1]
    BY RestIs
  <2>2. 1 <= c /\ c <= z
    BY <1>3 DEF TypeOK, Parsing
  <2>3. v = z - c + 1
    BY <1>2, <1>3, <2>1
  <2>4. v > 0
    BY <2>2, <2>3
  <2>5. \A k \in 1 .. v : s[k] = buf[c + k - 1]
    BY <1>2, <1>3, <2>1
  <2> QED BY <2>2, <2>3, <2>4, <2>5
<1>5. base + c - 1 = q + p /\ q + p <= e /\ \A i \in 1 .. p : prev[i] = t[q + i]
  <2>1. Read(base) = base + c - 1
    BY <1>3, <1>4 DEF Read
  <2> QED BY <1>3, <2>1 DEF InLine
<1>6. ASSUME NEW k \in 1 .. v PROVE s[k] = t[q + p + k]
  <2>1. c + k - 1 \in 1 .. z /\ base + (c + k - 1) = q + p + k
    BY <1>1, <1>4, <1>5
  <2>2. buf[c + k - 1] = t[base + (c + k - 1)]
    BY <1>3, <2>1 DEF Received
  <2> QED BY <1>4, <2>1, <2>2
<1>0. q \in Nat /\ e \in Nat /\ q + p <= e
  BY <1>1, <1>5
<1>7. PICK r \in Nat : r = e - (q + p) /\ q + p + r = e /\ p + r = e - q
  <2>1. e - (q + p) \in Nat /\ q + p + (e - (q + p)) = e /\ p + (e - (q + p)) = e - q
    BY <1>0
  <2> QED BY <2>1
<1>8. \A i \in 1 .. r : i <= Len(s) => s[i] # NUL /\ (~b => ~IsNL(s[i]))
  <2>1. SUFFICES ASSUME NEW i \in 1 .. r, i <= v PROVE s[i] # NUL /\ (~b => ~IsNL(s[i]))
    BY <1>3
  <2>2. i \in 1 .. v /\ p + i \in 1 .. e - q /\ q + (p + i) = q + p + i
    BY <1>1, <1>7, <2>1
  <2> QED BY <1>1, <1>6, <2>2
<1>9. r < Len(s) => s[r + 1] = NUL \/ (~b /\ s[r + 1] = NL)
  <2>1. SUFFICES ASSUME r < v PROVE s[r + 1] = NUL \/ (~b /\ s[r + 1] = NL)
    BY <1>3
  <2>2. r + 1 \in 1 .. v /\ q + p + (r + 1) = e + 1
    BY <1>0, <1>7, <2>1
  <2> QED BY <1>1, <1>6, <2>2
<1>10. PICK n : n = LineLen /\ n = ssplit(s, b)
  BY <1>2 DEF LineLen
<1>11. /\ n \in Nat /\ n <= r /\ n <= v
       /\ r <= LD_MAX => n = r \/ n = v
  <2>1. Len(s) > 0
    BY <1>3, <1>4
  <2>2. /\ ssplit(s, b) \in Nat /\ ssplit(s, b) <= r /\ ssplit(s, b) <= Len(s)
        /\ r <= LD_MAX => ssplit(s, b) = r \/ ssplit(s, b) = Len(s)
    BY <1>8, <1>9, <2>1, SplitText
  <2> QED BY <1>3, <1>10, <2>2
<1>12. ~b => q + p + n = e \/ n = v
  <2>1. SUFFICES ASSUME ~b PROVE q + p + n = e \/ n = v
    OBVIOUS
  <2>2. r <= LD_MAX
    BY <1>1, <1>7, <2>1, LimitsAssumption
  <2> QED BY <1>7, <1>11, <2>2
<1>13. PICK w : w = SubSeq(s, 1, n)
  OBVIOUS
<1>14. w \in Text /\ Len(w) = n /\ \A i \in 1 .. n : w[i] = s[i]
  BY <1>3, <1>11, <1>13, CutIs
<1>15. PICK y \in Text : y = prev
  BY DEF TypeOK
<1>16. PICK l : l = y \o w
  OBVIOUS
<1>17. l \in Text /\ Len(l) = p + n /\ \A i \in 1 .. p + n : l[i] = IF i <= p THEN y[i] ELSE w[i - p]
  <2>1. y \in Seq(Tokens) /\ w \in Seq(Tokens)
    BY <1>14 DEF Text
  <2>2. /\ y \o w \in Seq(Tokens) /\ Len(y \o w) = Len(y) + Len(w)
        /\ \A i \in 1 .. Len(y) + Len(w) : (y \o w)[i] = IF i <= Len(y) THEN y[i] ELSE w[i - Len(y)]
    BY <2>1, ConcatProperties
  <2> QED BY <1>3, <1>14, <1>15, <1>16, <2>2 DEF Text
<1>18. ASSUME NEW i \in 1 .. p + n PROVE l[i] = t[q + i]
  <2>1. CASE i <= p
    <3>1. i \in 1 .. p
      BY <2>1
    <3> QED BY <1>5, <1>15, <1>17, <2>1, <3>1
  <2>2. CASE ~(i <= p)
    <3>1. i - p \in 1 .. n /\ i - p \in 1 .. v /\ q + p + (i - p) = q + i
      BY <1>1, <1>11, <2>2
    <3> QED BY <1>6, <1>14, <1>17, <2>2, <3>1
  <2> QED BY <2>1, <2>2
<1>19. Line = l
  BY <1>2, <1>10, <1>13, <1>15, <1>16 DEF Line
<1>20. First = t[q + 1]
  <2>1. CASE y # <<>>
    <3>1. p \in Nat \ {0}
      BY <1>3, <1>15, <2>1 DEF Text
    <3>2. 1 \in 1 .. p
      BY <3>1
    <3> QED BY <1>5, <1>15, <2>1, <3>2 DEF First
  <2>2. CASE y = <<>>
    <3>1. p = 0
      BY <1>3, <1>15, <2>2
    <3>2. 1 \in 1 .. v /\ q + p + 1 = q + 1
      BY <1>1, <1>4, <3>1
    <3>3. s[1] = t[q + 1]
      BY <1>6, <3>2
    <3> QED BY <1>2, <1>15, <2>2, <3>3 DEF First
  <2> QED BY <2>1, <2>2
<1>21. base + z = q + p + v
  BY <1>1, <1>4, <1>5
<1>22. q + p + n <= e
  BY <1>1, <1>7, <1>11
<1>23. v \in Nat \ {0}
  BY <1>4
<1> QED BY <1>2, <1>3, <1>6, <1>10, <1>11, <1>12, <1>17, <1>18, <1>19, <1>20, <1>21, <1>22, <1>23
        DEF Here

Sent(t, fs, st, lay) == fs \in Scripts /\ Stream(t, fs, st, lay)

LEMMA SentIs ==
  ASSUME NEW t, NEW fs, NEW st, NEW lay, Sent(t, fs, st, lay)
  PROVE  /\ t \in Text /\ Len(t) \in Nat /\ Len(fs) \in Nat \ {0} /\ st[0] = 0 /\ Len(t) = st[Len(fs)]
         /\ \A n \in 0 .. Len(fs) : st[n] \in Nat /\ st[n] <= Len(t)
         /\ \A k \in 1 .. Len(fs) :
              /\ WellFormed(fs[k]) /\ st[k - 1] \in Nat /\ FrameAt(t, st[k - 1], fs[k], lay[k])
              /\ st[k] = st[k - 1] + FrameLen(fs[k], lay[k]) /\ FrameLen(fs[k], lay[k]) \in Nat \ {0}
              /\ t[st[k]] = NUL
<1>1. PICK L \in Nat \ {0} : L = Len(fs) /\ \A i \in 1 .. L : WellFormed(fs[i])
  BY ScriptsAssumption DEF Sent
<1>2. /\ t \in Text /\ st \in [0 .. L -> Nat] /\ st[0] = 0 /\ Len(t) = st[L]
      /\ \A k \in 1 .. L : FrameAt(t, st[k - 1], fs[k], lay[k]) /\ st[k] = st[k - 1] + FrameLen(fs[k], lay[k])
  BY <1>1 DEF Sent, Stream
<1>3. ASSUME NEW k \in 1 .. L
      PROVE  st[k - 1] \in Nat /\ FrameLen(fs[k], lay[k]) \in Nat \ {0} /\ t[st[k]] = NUL
  <2>1. PICK f : f = fs[k] /\ WellFormed(f)
    BY <1>1
  <2>2. PICK o : o = lay[k]
    OBVIOUS
  <2>3. PICK b \in Nat : b = st[k - 1]
    <3>1. k - 1 \in 0 .. L
      OBVIOUS
    <3> QED BY <1>2, <3>1
  <2>4. FrameAt(t, b, f, o) /\ st[k] = b + FrameLen(f, o)
    BY <1>2, <2>1, <2>2, <2>3
  <2>5. Len(f.attrs) \in Nat /\ Len(f.body) \in Nat
    BY <2>1, WellFormedIs, FrameSentIs
  <2>6. PICK m \in Nat, v \in Nat : m = Len(f.attrs) /\ v = Len(f.body)
    BY <2>5
  <2>7. PICK w \in Nat : w = o[m + 2]
    <3>1. m + 2 \in 0 .. m + 2
      OBVIOUS
    <3> QED BY <2>1, <2>4, <2>6, <3>1, LinesHere
  <2>8. FrameLen(f, o) = w + v + 1
    BY <2>6, <2>7 DEF FrameLen
  <2>9. t[b + (w + v + 1)] = NUL
    BY <2>4, <2>6, <2>7 DEF FrameAt
  <2> QED BY <2>1, <2>2, <2>3, <2>4, <2>8, <2>9
<1>4. \A k \in 1 .. L : st[k - 1] <= st[k]
  <2>1. SUFFICES ASSUME NEW k \in 1 .. L PROVE st[k - 1] <= st[k]
    OBVIOUS
  <2>2. PICK y1 \in Nat, y2 \in Nat : y1 = st[k - 1] /\ y2 = FrameLen(fs[k], lay[k])
    BY <1>3
  <2>3. st[k] = y1 + y2
    BY <1>2, <2>2
  <2> QED BY <2>2, <2>3
<1>5. ASSUME NEW n \in 0 .. L PROVE st[n] \in Nat /\ st[n] <= st[L]
  <2>1. L \in 0 .. L /\ n <= L
    OBVIOUS
  <2> QED BY <1>2, <1>4, <2>1, Nondecreasing
<1>6. Len(t) \in Nat
  BY <1>2 DEF Text
<1> QED BY <1>1, <1>2, <1>3, <1>5, <1>6

(* In a state of the parser the rest of the chunk is part of a line. *)
LEMMA LineOfStage ==
  ASSUME TypeOK, NEW t, NEW fs, NEW st, NEW lay, Sent(t, fs, st, lay),
         NEW base, NEW q, NEW e, At(t, fs, st, lay, base, q, e), Parsing
  PROVE  \E b \in BOOLEAN : b = is_body_input /\ LineOf(t, q, e, b)
<1>1. PICK n \in Nat, L \in Nat \ {0} : n = Len(bucket) /\ L = Len(fs) /\ n <= L
  <2>1. Len(bucket) \in Nat
    BY DEF TypeOK
  <2>2. Len(fs) \in Nat \ {0} /\ Len(bucket) <= Len(fs)
    BY SentIs DEF At, Delivered
  <2> QED BY <2>1, <2>2
<1>2. q \in Nat /\ e \in Nat /\ e <= Len(t) /\ Read(base) = q + Len(prev) /\ Read(base) <= e
  BY DEF At, InLine
<1>3. q < Len(t)
  <2>1. PICK p \in Nat, z \in Nat, c \in Nat, u \in Nat, y \in Nat :
          p = Len(prev) /\ z = Len(buf) /\ c = curr /\ u = Len(t) /\ y = Len(input)
    <3>1. Len(prev) \in Nat /\ Len(buf) \in Nat /\ curr \in Nat /\ Len(input) \in Nat
      BY DEF TypeOK, Text
    <3>2. Len(t) \in Nat
      BY SentIs
    <3> QED BY <3>1, <3>2
  <2>2. c <= z /\ Read(base) = base + c - 1
    BY <2>1 DEF Parsing, Read
  <2>3. base \in Nat /\ base + z + y <= u
    BY <2>1 DEF At, Received
  <2> QED BY <1>2, <2>1, <2>2, <2>3
<1>4. ASSUME n < L
      PROVE  /\ WellFormed(fs[n + 1]) /\ st[n] \in Nat
             /\ FrameAt(t, st[n], fs[n + 1], lay[n + 1])
  <2>1. n + 1 \in 1 .. L /\ (n + 1) - 1 = n
    BY <1>4
  <2> QED BY <1>1, <2>1, SentIs
<1>5. CASE BetweenFrames(fs, st, q, e)
  <2>1. is_body_input = FALSE
    BY <1>5, NoFrameIs DEF BetweenFrames, is_body_input
  <2>2. CASE n < L /\ q = st[n] /\ e = q + Len(fs[n + 1].name)
    <3>1. LineOf(t, st[n], st[n] + Len(fs[n + 1].name), FALSE)
      BY <1>4, <2>2, LinesHere
    <3> QED BY <2>1, <2>2, <3>1
  <2>3. CASE n = L /\ q = st[L] /\ e = q
    BY <1>1, <1>3, <2>3, SentIs
  <2>4. CASE n > 0 /\ q + 1 = st[n] /\ e = q
    <3>1. n \in 1 .. L
      BY <1>1, <2>4
    <3>2. t[q + 1] = NUL
      BY <1>1, <2>4, <3>1, SentIs
    <3>3. LineOf(t, q, q, FALSE)
      BY <1>2, <3>2, EmptyLine
    <3> QED BY <2>1, <2>4, <3>3
  <2> QED BY <1>1, <1>5, <2>2, <2>3, <2>4 DEF BetweenFrames
<1>6. CASE InFrame(fs, st, lay, q, e)
  <2>1. n < L
    BY <1>1, <1>6 DEF InFrame
  <2>2. PICK f : f = fs[n + 1] /\ WellFormed(f)
    BY <1>4, <2>1
  <2>3. PICK b \in Nat : b = st[n]
    BY <1>4, <2>1
  <2>4. PICK o : o = lay[n + 1] /\ FrameAt(t, b, f, o)
    BY <1>4, <2>1, <2>2, <2>3
  <2>5. InHeader(f, b, o, q, e) \/ InBody(f, b, o, q, e)
    BY <1>1, <1>6, <2>2, <2>3, <2>4 DEF InFrame
  <2>6. PICK m \in Nat, v \in Nat : m = Len(f.attrs) /\ v = Len(f.body)
    BY <2>2, WellFormedIs, FrameSentIs
  <2>7. CASE InHeader(f, b, o, q, e)
    <3>1. is_body_input = FALSE
      BY <2>7 DEF InHeader, HeaderOf, is_body_input
    <3>2. PICK j \in 0 .. m : j = Len(frame.attrs)
      <4>1. Len(frame.attrs) \in Nat
        BY FrameLengths
      <4>2. Len(frame.attrs) <= m
        BY <2>6, <2>7 DEF InHeader, HeaderOf
      <4> QED BY <4>1, <4>2
    <3>3. CASE q = b + o[j + 1] /\ e + 1 = b + o[j + 2]
      <4>1. LineOf(t, b + o[j + 1], e, FALSE)
        BY <1>2, <2>2, <2>4, <2>6, <3>3, LinesHere
      <4> QED BY <3>1, <3>3, <4>1
    <3>4. CASE q + 1 = b + o[1] /\ e = q
      <4>1. t[q + 1] = NL
        BY <2>4, <3>4 DEF FrameAt
      <4>2. LineOf(t, q, q, FALSE)
        BY <1>2, <4>1, EmptyLine
      <4> QED BY <3>1, <3>4, <4>2
    <3> QED BY <2>7, <3>2, <3>3, <3>4 DEF InHeader
  <2>8. CASE InBody(f, b, o, q, e)
    <3>1. is_body_input = TRUE
      BY <2>8 DEF InBody, BodyOf, is_body_input
    <3>2. PICK x \in 0 .. v : x = Len(frame.body)
      <4>1. Len(frame.body) \in Nat
        BY FrameLengths
      <4>2. Len(frame.body) < v
        BY <2>6, <2>8 DEF InBody, BodyOf
      <4> QED BY <2>6, <4>1, <4>2
    <3>3. LineOf(t, b + o[m + 2] + x, b + o[m + 2] + v, TRUE)
      BY <2>2, <2>4, <2>6, LinesHere
    <3>4. q = b + o[m + 2] + x /\ e = b + o[m + 2] + v
      BY <2>6, <2>8, <3>2 DEF InBody
    <3> QED BY <3>1, <3>3, <3>4
  <2> QED BY <2>5, <2>7, <2>8
<1> QED BY <1>5, <1>6 DEF At

LEMMA HereAtStage ==
  ASSUME TypeOK, NEW t, NEW fs, NEW st, NEW lay, Sent(t, fs, st, lay),
         NEW base, NEW q, NEW e, At(t, fs, st, lay, base, q, e), Parsing
  PROVE  Here(t, base, q, e)
<1>1. PICK b \in BOOLEAN : b = is_body_input /\ LineOf(t, q, e, b)
  BY LineOfStage
<1>2. t \in Text /\ Received(t, base) /\ InLine(t, base, q, e)
  BY SentIs DEF At
<1> QED BY <1>1, <1>2, HereIs

(* Where recv_data() goes on behind the line. *)
LEMMA MovedIs ==
  ASSUME TypeOK, HasLine, NEW t, NEW base, NEW q, NEW e, Received(t, base), q \in Nat,
         Here(t, base, q, e), NEW x \in 0 .. 1, NextLine(x)
  PROVE  /\ Received(t, base)' /\ prev' = <<>>
         /\ LineLen + x <= Len(Rest) => Read(base)' = q + Len(prev) + LineLen + x
         /\ ~(LineLen + x <= Len(Rest)) => Read(base)' = q + Len(prev) + LineLen
<1>1. Received(t, base)'
  BY DEF Received, NextLine, stream
<1>2. PICK p \in Nat, z \in Nat, c \in Nat, v \in Nat, n \in Nat :
        p = Len(prev) /\ z = Len(buf) /\ c = curr /\ v = Len(Rest) /\ n = LineLen
  <2>1. Len(buf) \in Nat /\ curr \in Nat
    BY DEF TypeOK, Text
  <2>2. Len(prev) \in Nat /\ Len(Rest) \in Nat /\ LineLen \in Nat
    BY DEF Here
  <2> QED BY <2>1, <2>2
<1>3. v = z - c + 1 /\ n <= v /\ base + z = q + p + v /\ base \in Nat
  <2>1. Len(Rest) = Len(buf) - curr + 1
    BY RestIs DEF HasLine
  <2> QED BY <1>2, <2>1 DEF Here, Received
<1>4. curr' = c + n + x /\ Len(buf') = z /\ prev' = <<>>
  BY <1>2 DEF NextLine
<1>5. Read(base)' = IF c + n + x <= z THEN base + (c + n + x) - 1 ELSE base + z
  BY <1>4 DEF Read
<1>6. ASSUME n + x <= v PROVE Read(base)' = q + p + n + x
  <2>1. CASE c + n + x <= z
    BY <1>3, <1>5, <2>1
  <2>2. CASE ~(c + n + x <= z)
    BY <1>3, <1>5, <1>6, <2>2
  <2> QED BY <2>1, <2>2
<1>7. ASSUME ~(n + x <= v) PROVE Read(base)' = q + p + n
  <2>1. n = v /\ ~(c + n + x <= z)
    BY <1>3, <1>7
  <2> QED BY <1>3, <1>5, <2>1
<1> QED BY <1>1, <1>2, <1>4, <1>6, <1>7

LEMMA NewLine ==
  ASSUME NEW t, NEW base, NEW q \in Nat, NEW e \in Nat, q <= e, e <= Len(t),
         prev' = <<>>, Read(base)' = q
  PROVE  InLine(t, base, q, e)'
<1>1. Len(prev') = 0 /\ q + 0 = q /\ \A i \in 1 .. 0 : FALSE
  OBVIOUS
<1> QED BY <1>1 DEF InLine

Follows(t, fs, st, lay) == \E base, q, e : At(t, fs, st, lay, base, q, e)

LEMMA SameStage ==
  ASSUME NEW t, NEW fs, NEW st, NEW lay, NEW base, NEW q, NEW e, At(t, fs, st, lay, base, q, e),
         frame' = frame, bucket' = bucket
  PROVE  Delivered(fs)' /\ (BetweenFrames(fs, st, q, e) \/ InFrame(fs, st, lay, q, e))'
BY DEF At, Delivered, BetweenFrames, InFrame, InHeader, HeaderOf, InBody, BodyOf, Content

LEMMA RecvFollows ==
  ASSUME TypeOK, NEW t, NEW fs, NEW st, NEW lay, Sent(t, fs, st, lay),
         NEW base, NEW q, NEW e, At(t, fs, st, lay, base, q, e), NEW n \in 1 .. MaxChunk, Recv(n)
  PROVE  Follows(t, fs, st, lay)'
<1>1. PICK s \in Text : s = input
  BY DEF TypeOK
<1>2. PICK z \in Nat, y \in Nat, u \in Nat : z = Len(buf) /\ y = Len(s) /\ u = Len(t)
  <2>1. Len(buf) \in Nat /\ Len(s) \in Nat
    BY DEF TypeOK, Text
  <2>2. Len(t) \in Nat
    BY SentIs
  <2> QED BY <2>1, <2>2
<1>3. n \in Nat /\ n <= y /\ n > 0
  BY <1>1, <1>2, LimitsAssumption DEF Recv
<1>4. PICK x1, x2 : x1 = SubSeq(s, 1, n) /\ x2 = SubSeq(s, n + 1, y)
  OBVIOUS
<1>5. /\ Len(x1) = n /\ Len(x2) = y - n
      /\ (\A i \in 1 .. n : x1[i] = s[i]) /\ (\A i \in 1 .. y - n : x2[i] = s[n + i])
  BY <1>2, <1>3, <1>4, CutIs
<1>6. buf' = x1 /\ input' = x2 /\ curr' = 1
  BY <1>1, <1>2, <1>4 DEF Recv
<1>7. /\ base \in Nat /\ base + z + y <= u /\ (~lost => base + z + y = u)
      /\ \A i \in 1 .. y : s[i] = t[base + z + i]
  BY <1>1, <1>2 DEF At, Received
<1>8. PICK base2 \in Nat : base2 = base + z
  BY <1>7
<1>9. Received(t, base2)'
  <2>1. base2 + n + (y - n) <= u /\ (~lost => base2 + n + (y - n) = u)
    BY <1>3, <1>7, <1>8
  <2>2. ASSUME NEW i \in 1 .. n PROVE x1[i] = t[base2 + i]
    <3>1. i \in 1 .. y
      BY <1>3
    <3> QED BY <1>5, <1>7, <1>8, <3>1
  <2>3. ASSUME NEW i \in 1 .. y - n PROVE x2[i] = t[base2 + n + i]
    <3>1. n + i \in 1 .. y /\ base2 + (n + i) = base2 + n + i
      BY <1>3
    <3> QED BY <1>5, <1>7, <1>8, <3>1
  <2>4. lost' = lost
    BY DEF Recv, stream
  <2> QED BY <1>2, <1>5, <1>6, <2>1, <2>2, <2>3, <2>4 DEF Received
<1>10. InLine(t, base2, q, e)'
  <2>1. Read(base) = base + z
    BY <1>2 DEF Recv, Parsing, Read
  <2>2. Read(base2)' = base2 + 1 - 1 /\ base2 + 1 - 1 = base2
    BY <1>3, <1>5, <1>6 DEF Read
  <2>3. prev' = prev
    BY DEF Recv, held
  <2> QED BY <1>8, <2>1, <2>2, <2>3 DEF At, InLine
<1>11. Delivered(fs)' /\ (BetweenFrames(fs, st, q, e) \/ InFrame(fs, st, lay, q, e))'
  BY SameStage DEF Recv
<1> QED BY <1>9, <1>10, <1>11 DEF Follows, At

LEMMA DisconnectFollows ==
  ASSUME TypeOK, NEW t, NEW fs, NEW st, NEW lay, Sent(t, fs, st, lay),
         NEW base, NEW q, NEW e, At(t, fs, st, lay, base, q, e), Disconnect
  PROVE  Follows(t, fs, st, lay)'
<1>1. Received(t, base)'
  <2>1. PICK z \in Nat, y \in Nat, u \in Nat : z = Len(buf) /\ y = Len(input) /\ u = Len(t)
    <3>1. Len(buf) \in Nat /\ Len(input) \in Nat
      BY DEF TypeOK, Text
    <3>2. Len(t) \in Nat
      BY SentIs
    <3> QED BY <3>1, <3>2
  <2>2. base \in Nat /\ base + z + y <= u /\ \A i \in 1 .. z : buf[i] = t[base + i]
    BY <2>1 DEF At, Received
  <2>3. buf' = buf /\ lost' = TRUE /\ Len(input') = 0 /\ \A i \in 1 .. 0 : FALSE
    BY DEF Disconnect
  <2>4. base + z + 0 <= u
    BY <2>2
  <2> QED BY <2>1, <2>2, <2>3, <2>4 DEF Received
<1>2. InLine(t, base, q, e)'
  BY DEF At, InLine, Read, Disconnect, held
<1>3. Delivered(fs)' /\ (BetweenFrames(fs, st, q, e) \/ InFrame(fs, st, lay, q, e))'
  BY SameStage DEF Disconnect
<1> QED BY <1>1, <1>2, <1>3 DEF Follows, At

LEMMA SaveTailFollows ==
  ASSUME TypeOK, NEW t, NEW fs, NEW st, NEW lay, Sent(t, fs, st, lay),
         NEW base, NEW q, NEW e, At(t, fs, st, lay, base, q, e), SaveTail
  PROVE  Follows(t, fs, st, lay)'
<1>1. Here(t, base, q, e)
  BY HereAtStage DEF SaveTail
<1>2. Received(t, base)'
  BY DEF At, Received, SaveTail, stream
<1>3. PICK y \in Text, s \in Text : y = prev /\ s = Rest
  BY RestIs DEF SaveTail, TypeOK
<1>4. PICK p \in Nat, v \in Nat, z \in Nat : p = Len(y) /\ v = Len(s) /\ z = Len(buf)
  <2>1. Len(y) \in Nat /\ Len(s) \in Nat /\ Len(buf) \in Nat
    BY DEF TypeOK, Text
  <2> QED BY <2>1
<1>5. /\ q \in Nat /\ e \in Nat /\ e <= Len(t) /\ q + p + v <= e /\ base + z = q + p + v
      /\ (\A i \in 1 .. p : y[i] = t[q + i]) /\ (\A i \in 1 .. v : s[i] = t[q + p + i])
  <2>1. LineLen = Len(Rest)
    BY DEF SaveTail, Unfinished
  <2> QED BY <1>1, <1>3, <1>4, <2>1 DEF Here, At, InLine
<1>6. PICK l : l = y \o s
  OBVIOUS
<1>7. Len(l) = p + v /\ \A i \in 1 .. p + v : l[i] = t[q + i]
  <2>1. y \in Seq(Tokens) /\ s \in Seq(Tokens)
    BY DEF Text
  <2>2. /\ Len(y \o s) = Len(y) + Len(s)
        /\ \A i \in 1 .. Len(y) + Len(s) : (y \o s)[i] = IF i <= Len(y) THEN y[i] ELSE s[i - Len(y)]
    BY <2>1, ConcatProperties
  <2>3. ASSUME NEW i \in 1 .. p + v PROVE l[i] = t[q + i]
    <3>1. CASE i <= p
      BY <1>4, <1>5, <1>6, <2>2, <3>1
    <3>2. CASE ~(i <= p)
      <4>1. i - p \in 1 .. v /\ q + p + (i - p) = q + i
        BY <1>5, <3>2
      <4> QED BY <1>4, <1>5, <1>6, <2>2, <3>2, <4>1
    <3> QED BY <3>1, <3>2
  <2> QED BY <1>4, <1>6, <2>2, <2>3
<1>8. prev' = l /\ curr' = z + 1 /\ buf' = buf
  BY <1>3, <1>4, <1>6 DEF SaveTail
<1>9. Read(base)' = base + z
  <2>1. ~(z + 1 <= z)
    OBVIOUS
  <2> QED BY <1>4, <1>8, <2>1 DEF Read
<1>10. q + (p + v) = q + p + v
  BY <1>5
<1>11. InLine(t, base, q, e)'
  BY <1>5, <1>7, <1>8, <1>9, <1>10 DEF InLine
<1>12. Delivered(fs)' /\ (BetweenFrames(fs, st, q, e) \/ InFrame(fs, st, lay, q, e))'
  BY SameStage DEF SaveTail
<1> QED BY <1>2, <1>11, <1>12 DEF Follows, At

(* A frame and its lines are within the stream. *)
Fits(t, f, b, o, end) ==
  /\ WellFormed(f) /\ b \in Nat /\ FrameAt(t, b, f, o) /\ o \in [0 .. Len(f.attrs) + 2 -> Nat]
  /\ Len(f.name) \in Nat \ {0} /\ Len(f.attrs) \in Nat /\ Len(f.body) \in Nat
  /\ b + Len(f.name) + 1 = b + o[1]
  /\ \A n \in 0 .. Len(f.attrs) + 2 : o[n] \in Nat /\ b + o[n] <= b + o[Len(f.attrs) + 2]
  /\ end = b + o[Len(f.attrs) + 2] + Len(f.body) + 1 /\ end <= Len(t) /\ Len(t) \in Nat

LEMMA FrameFits ==
  ASSUME NEW t, NEW fs, NEW st, NEW lay, Sent(t, fs, st, lay), NEW k \in 1 .. Len(fs)
  PROVE  Fits(t, fs[k], st[k - 1], lay[k], st[k])
<1>0. PICK f, b, o : f = fs[k] /\ b = st[k - 1] /\ o = lay[k]
  OBVIOUS
<1>1. PICK L \in Nat \ {0} : L = Len(fs) /\ k \in 1 .. L /\ k \in 0 .. L
  BY SentIs
<1>2. /\ WellFormed(f) /\ b \in Nat /\ FrameAt(t, b, f, o) /\ st[k] = b + FrameLen(f, o)
      /\ st[k] <= Len(t) /\ Len(t) \in Nat
  <2>1. /\ WellFormed(fs[k]) /\ st[k - 1] \in Nat /\ FrameAt(t, st[k - 1], fs[k], lay[k])
        /\ st[k] = st[k - 1] + FrameLen(fs[k], lay[k])
    BY SentIs
  <2>2. st[k] <= Len(t) /\ Len(t) \in Nat
    BY <1>1, SentIs
  <2> QED BY <1>0, <2>1, <2>2
<1>3. f \in FrameSent /\ Len(f.name) \in 1 .. LD_MAX
  BY <1>2, WellFormedIs
<1>4. PICK m \in Nat, v \in Nat, u \in Nat : m = Len(f.attrs) /\ v = Len(f.body) /\ u = Len(f.name)
  BY <1>3, FrameSentIs
<1>5. u \in Nat \ {0}
  BY <1>3, <1>4
<1>6. o \in [0 .. m + 2 -> Nat] /\ \A n \in 1 .. m + 2 : o[n] \in 1 .. o[m + 2]
  BY <1>2, <1>3, <1>4, OffsetsGrow
<1>7. PICK w \in Nat : w = o[m + 2]
  BY <1>6
<1>8. ASSUME NEW n \in 0 .. m + 2 PROVE o[n] \in Nat /\ b + o[n] <= b + w
  <2>1. o[n] \in Nat /\ o[n] <= w
    <3>1. CASE n = 0
      <4>1. o[0] = 0
        BY <1>2 DEF FrameAt
      <4> QED BY <1>7, <3>1, <4>1
    <3>2. CASE n # 0
      <4>1. n \in 1 .. m + 2
        BY <3>2
      <4> QED BY <1>6, <1>7, <4>1
    <3> QED BY <3>1, <3>2
  <2> QED BY <1>2, <2>1
<1>9. b + u + 1 = b + o[1]
  <2>1. o[1] = u + 1
    BY <1>2, <1>4 DEF FrameAt
  <2> QED BY <1>2, <2>1
<1>10. st[k] = b + w + v + 1
  <2>1. FrameLen(f, o) = w + v + 1
    BY <1>4, <1>7 DEF FrameLen
  <2> QED BY <1>2, <2>1
<1>11. Fits(t, f, b, o, st[k])
  BY <1>2, <1>4, <1>5, <1>6, <1>7, <1>8, <1>9, <1>10 DEF Fits
<1> QED BY <1>0, <1>11

(* Ready for the next frame, or at the end of the stream. *)
LEMMA StartNext ==
  ASSUME NEW t, NEW fs, NEW st, NEW lay, Sent(t, fs, st, lay), NEW base, Received(t, base)',
         Delivered(fs)', NEW n \in Nat, n = Len(bucket'), n <= Len(fs),
         frame' = NoFrame, prev' = <<>>, Read(base)' = st[n]
  PROVE  Follows(t, fs, st, lay)'
<1>1. PICK L \in Nat \ {0} : L = Len(fs)
  BY SentIs
<1>2. PICK q \in Nat : q = st[n] /\ q <= Len(t)
  <2>1. n \in 0 .. L
    BY <1>1
  <2> QED BY <1>1, <2>1, SentIs
<1>3. CASE n < L
  <2>1. PICK k \in 1 .. L : k = n + 1 /\ k - 1 = n
    <3>1. n + 1 \in 1 .. L /\ (n + 1) - 1 = n
      BY <1>3
    <3> QED BY <3>1
  <2>2. PICK f : f = fs[k]
    OBVIOUS
  <2>3. PICK o : o = lay[k]
    OBVIOUS
  <2>4. Fits(t, f, q, o, st[k])
    <3>1. k \in 1 .. Len(fs)
      BY <1>1
    <3>2. Fits(t, fs[k], st[k - 1], lay[k], st[k])
      BY <3>1, FrameFits
    <3> QED BY <1>2, <2>1, <2>2, <2>3, <3>2
  <2>5. PICK u \in Nat, m \in Nat, v \in Nat : u = Len(f.name) /\ m = Len(f.attrs) /\ v = Len(f.body)
    BY <2>4 DEF Fits
  <2>6. q + u + 1 <= Len(t)
    <3>1. PICK w \in Nat, y \in Nat : w = o[m + 2] /\ y = o[1]
      <4>1. m + 2 \in 0 .. m + 2 /\ 1 \in 0 .. m + 2
        OBVIOUS
      <4>2. \A n2 \in 0 .. m + 2 : o[n2] \in Nat
        BY <2>4, <2>5 DEF Fits
      <4> QED BY <4>1, <4>2
    <3>2. q + u + 1 = q + y /\ q + y <= q + w /\ q + w + v + 1 <= Len(t) /\ Len(t) \in Nat
      BY <2>4, <2>5, <3>1 DEF Fits
    <3> QED BY <3>2
  <2>7. PICK e \in Nat : e = q + u /\ q <= e /\ e <= Len(t)
    <3>1. Len(t) \in Nat
      BY SentIs
    <3>2. q + u <= Len(t)
      BY <2>6, <3>1
    <3> QED BY <3>2
  <2>8. InLine(t, base, q, e)'
    BY <1>2, <2>7, NewLine
  <2>9. BetweenFrames(fs, st, q, e)'
    BY <1>1, <1>2, <1>3, <2>1, <2>2, <2>5, <2>7 DEF BetweenFrames
  <2> QED BY <2>8, <2>9 DEF Follows, At
<1>4. CASE n = L
  <2>1. InLine(t, base, q, q)'
    BY <1>2, NewLine
  <2>2. BetweenFrames(fs, st, q, q)'
    BY <1>1, <1>2, <1>4 DEF BetweenFrames
  <2> QED BY <2>1, <2>2 DEF Follows, At
<1> QED BY <1>1, <1>3, <1>4

(* At the NUL behind the last frame. *)
LEMMA StartAtNul ==
  ASSUME NEW t, NEW fs, NEW st, NEW lay, Sent(t, fs, st, lay), NEW base, Received(t, base)',
         Delivered(fs)', NEW n \in Nat \ {0}, n = Len(bucket'), n <= Len(fs),
         frame' = NoFrame, prev' = <<>>, NEW q \in Nat, Read(base)' = q, q + 1 = st[n]
  PROVE  Follows(t, fs, st, lay)'
<1>1. q <= Len(t)
  <2>1. n \in 0 .. Len(fs) /\ Len(t) \in Nat
    BY SentIs
  <2>2. st[n] <= Len(t)
    BY <2>1, SentIs
  <2> QED BY <2>1, <2>2
<1>2. InLine(t, base, q, q)'
  BY <1>1, NewLine
<1>3. BetweenFrames(fs, st, q, q)'
  BY DEF BetweenFrames
<1> QED BY <1>2, <1>3 DEF Follows, At

LEMMA SkipBlankFollows ==
  ASSUME TypeOK, NEW t, NEW fs, NEW st, NEW lay, Sent(t, fs, st, lay),
         NEW base, NEW q, NEW e, At(t, fs, st, lay, base, q, e), SkipBlank
  PROVE  Follows(t, fs, st, lay)'
<1>1. HasLine /\ Parsing /\ NextLine(1) /\ frame' = frame /\ bucket' = bucket
  BY DEF SkipBlank, HasLine
<1>2. Here(t, base, q, e) /\ Received(t, base) /\ q \in Nat /\ e \in Nat /\ Delivered(fs)
  BY <1>1, HereAtStage DEF At, InLine
<1>3. BetweenFrames(fs, st, q, e) /\ frame = NoFrame
  BY DEF SkipBlank, At, InFrame, InHeader, HeaderOf, InBody, BodyOf, BetweenFrames
<1>4. PICK n \in Nat, L \in Nat \ {0} : n = Len(bucket) /\ L = Len(fs) /\ n <= L
  <2>1. Len(bucket) \in Nat
    BY DEF TypeOK
  <2>2. Len(fs) \in Nat \ {0} /\ Len(bucket) <= Len(fs)
    BY <1>2, SentIs DEF Delivered
  <2> QED BY <2>1, <2>2
<1>5. PICK v \in Nat \ {0} : v = Len(Rest) /\ Len(prev) = 0 /\ LineLen = 0
  <2>1. Len(prev) + LineLen = 0 /\ Len(prev) \in Nat /\ LineLen \in Nat /\ Len(Rest) \in Nat \ {0}
    <3>1. Len(Line) = 0
      BY DEF SkipBlank
    <3> QED BY <1>2, <3>1 DEF Here
  <2> QED BY <2>1
<1>6. e = q
  <2>1. ~is_body_input
    BY <1>3, NoFrameIs DEF is_body_input
  <2>2. q + 0 + 0 = e \/ 0 = v
    BY <1>2, <1>5, <2>1 DEF Here
  <2> QED BY <1>2, <1>5, <2>2
<1>7. q < Len(t)
  <2>1. base + Len(buf) = q + 0 + v
    BY <1>2, <1>5 DEF Here
  <2>2. base \in Nat /\ base + Len(buf) + Len(input) <= Len(t)
    BY <1>2 DEF Received
  <2>3. Len(buf) \in Nat /\ Len(input) \in Nat
    BY DEF TypeOK, Text
  <2>4. Len(t) \in Nat
    BY SentIs
  <2> QED BY <1>2, <2>1, <2>2, <2>3, <2>4
<1>8. q + 1 = st[n] /\ n > 0
  <2>1. CASE n < L /\ q = st[n] /\ e = q + Len(fs[n + 1].name)
    <3>1. n + 1 \in 1 .. Len(fs)
      BY <1>4, <2>1
    <3>2. Len(fs[n + 1].name) \in Nat \ {0}
      BY <3>1, FrameFits DEF Fits
    <3> QED BY <1>2, <1>6, <2>1, <3>2
  <2>2. CASE n = L /\ q = st[L]
    BY <1>4, <1>7, <2>2, SentIs
  <2> QED BY <1>3, <1>4, <2>1, <2>2 DEF BetweenFrames
<1>9. Received(t, base)' /\ prev' = <<>> /\ Read(base)' = q + 1
  <2>1. 1 \in 0 .. 1
    OBVIOUS
  <2>2. 0 + 1 <= v /\ q + 0 + 0 + 1 = q + 1
    BY <1>2
  <2>3. /\ Received(t, base)' /\ prev' = <<>>
        /\ LineLen + 1 <= Len(Rest) => Read(base)' = q + Len(prev) + LineLen + 1
    BY <1>1, <1>2, <2>1, MovedIs
  <2> QED BY <1>5, <2>2, <2>3
<1>10. Delivered(fs)'
  BY <1>1, <1>2 DEF Delivered, Content
<1> QED BY <1>1, <1>3, <1>4, <1>8, <1>9, <1>10, StartNext

LEMMA CommandInside ==
  ASSUME NEW c \in Commands, NEW d \in Commands, NEW p \in Nat, p < Len(d), p + Len(c) <= Len(d),
         \A i \in 1 .. Len(c) : c[i] = d[p + i]
  PROVE  p + Len(c) = Len(d)
<1>1. c \in Text /\ d \in Text
  BY TokensAssumption
<1>2. PICK x \in Nat, y \in Nat : x = Len(c) /\ y = Len(d)
  BY <1>1 DEF Text
<1>3. PICK w : w = SubSeq(d, p + 1, y)
  OBVIOUS
<1>4. w \in Text /\ Len(w) = y - p /\ \A i \in 1 .. y - p : w[i] = d[p + i]
  <2>1. d \in Text /\ p <= Len(d) /\ w = SubSeq(d, p + 1, Len(d))
    BY <1>1, <1>2, <1>3
  <2>2. /\ SubSeq(d, p + 1, Len(d)) \in Text /\ Len(SubSeq(d, p + 1, Len(d))) = Len(d) - p
        /\ \A i \in 1 .. Len(d) - p : SubSeq(d, p + 1, Len(d))[i] = d[p + i]
    BY <2>1, CutIs
  <2> QED BY <1>2, <2>1, <2>2
<1>5. IsPrefix(c, w)
  <2>1. x <= y - p
    BY <1>2
  <2>2. ASSUME NEW i \in 1 .. x PROVE c[i] = w[i]
    <3>1. i \in 1 .. y - p
      BY <1>2, <2>1
    <3> QED BY <1>2, <1>4, <3>1
  <2> QED BY <1>1, <1>2, <1>4, <2>1, <2>2, PrefixIs
<1>6. p + 1 \in DOMAIN d
  BY <1>1, <1>2 DEF Text
<1>7. c = w
  BY <1>2, <1>3, <1>5, <1>6, CommandsAssumption
<1>8. x = y - p
  BY <1>2, <1>4, <1>7
<1>9. p + x = y
  BY <1>8
<1> QED BY <1>2, <1>9

LEMMA CommandPrefix ==
  ASSUME NEW c \in Commands, NEW d \in Commands, IsPrefix(c, d)
  PROVE  c = d
<1>1. c \in Text /\ d \in Text
  BY TokensAssumption
<1>2. PICK x \in Nat, y \in Nat : x = Len(c) /\ y = Len(d)
  BY <1>1 DEF Text
<1>3. x <= y /\ \A i \in 1 .. x : c[i] = d[i]
  BY <1>1, <1>2, PrefixIs
<1>4. 0 < y
  BY <1>2, CommandsAssumption
<1>5. x = y
  <2>1. \A i \in 1 .. x : c[i] = d[0 + i]
    BY <1>3
  <2>2. 0 + x = y
    BY <1>2, <1>3, <1>4, <2>1, CommandInside
  <2> QED BY <2>2
<1>6. c \in Seq(Tokens) /\ d \in Seq(Tokens)
  BY <1>1 DEF Text
<1> QED BY <1>2, <1>3, <1>5, <1>6, SeqEqual

(* The next header line, or the empty one, is within the stream. *)
Room(t, b, o, j) ==
  \E q \in Nat, e \in Nat : q = b + o[j + 1] /\ e + 1 = b + o[j + 2] /\ q <= e /\ e <= Len(t)

LEMMA HeaderRoom ==
  ASSUME NEW t, NEW f, NEW b, NEW o, NEW end, Fits(t, f, b, o, end), NEW j \in 0 .. Len(f.attrs)
  PROVE  Room(t, b, o, j)
<1>1. PICK m \in Nat, v \in Nat, u \in Nat : m = Len(f.attrs) /\ v = Len(f.body) /\ u = Len(t) /\ b \in Nat
  BY DEF Fits
<1>2. PICK y1 \in Nat, y2 \in Nat, w \in Nat : y1 = o[j + 1] /\ y2 = o[j + 2] /\ w = o[m + 2]
  <2>1. j + 1 \in 0 .. m + 2 /\ j + 2 \in 0 .. m + 2 /\ m + 2 \in 0 .. m + 2
    BY <1>1
  <2>2. \A n \in 0 .. m + 2 : o[n] \in Nat
    BY <1>1 DEF Fits
  <2> QED BY <2>1, <2>2
<1>3. y1 < y2
  <2>1. j + 2 \in 1 .. m + 2 /\ (j + 2) - 1 = j + 1
    BY <1>1
  <2>2. f \in FrameSent /\ FrameAt(t, b, f, o)
    BY WellFormedIs DEF Fits
  <2>3. \A n \in 1 .. m + 2 : o[n - 1] < o[n]
    BY <1>1, <2>2, OffsetsGrow
  <2> QED BY <1>2, <2>1, <2>3
<1>4. b + y2 <= b + w /\ b + w + v + 1 <= u
  <2>1. j + 2 \in 0 .. m + 2
    BY <1>1
  <2> QED BY <1>1, <1>2, <2>1 DEF Fits
<1>5. PICK q \in Nat, e \in Nat : q = b + y1 /\ e = b + y2 - 1
  <2>1. b + y1 \in Nat /\ b + y2 - 1 \in Nat
    BY <1>1, <1>3
  <2> QED BY <2>1
<1>6. e + 1 = b + y2 /\ q <= e /\ e <= u
  <2>1. b \in Nat
    BY <1>1
  <2>2. e + 1 = b + y2
    BY <1>5, <2>1
  <2>3. q <= e
    BY <1>3, <1>5, <2>1
  <2>4. e <= u
    BY <1>4, <2>1, <2>2
  <2> QED BY <2>2, <2>3, <2>4
<1> QED BY <1>1, <1>2, <1>5, <1>6 DEF Room

LEMMA FitsNext ==
  ASSUME NEW t, NEW fs, NEW st, NEW lay, Sent(t, fs, st, lay), NEW n \in Nat, n < Len(fs)
  PROVE  Fits(t, fs[n + 1], st[n], lay[n + 1], st[n + 1])
<1>1. PICK k \in 1 .. Len(fs) : k = n + 1 /\ k - 1 = n
  <2>1. Len(fs) \in Nat
    BY SentIs
  <2>2. n + 1 \in 1 .. Len(fs) /\ (n + 1) - 1 = n
    BY <2>1
  <2> QED BY <2>2
<1>2. Fits(t, fs[k], st[k - 1], lay[k], st[k])
  BY FrameFits
<1> QED BY <1>1, <1>2

LEMMA Delivering ==
  ASSUME TypeOK, NEW t, NEW fs, NEW st, NEW lay, Sent(t, fs, st, lay),
         NEW base, NEW q, NEW e, At(t, fs, st, lay, base, q, e)
  PROVE  /\ Len(bucket) \in Nat /\ Len(fs) \in Nat \ {0} /\ Len(bucket) <= Len(fs)
         /\ Received(t, base) /\ q \in Nat /\ e \in Nat /\ Delivered(fs) /\ e <= Len(t)
BY SentIs DEF TypeOK, At, Delivered, InLine

(* The chunk has the whole rest of the name. *)
LEMMA NameWhole ==
  ASSUME TypeOK, HasLine, NEW t, NEW base, NEW q \in Nat, NEW e \in Nat, Here(t, base, q, e), ~is_body_input,
         NEW d \in Commands, e = q + Len(d), \A i \in 1 .. Len(d) : t[q + i] = d[i]
  PROVE  q + Len(prev) + LineLen = e /\ Line = d
<1>1. d \in Text
  BY TokensAssumption
<1>2. PICK s \in Text : s = Rest
  BY RestIs DEF HasLine
<1>3. PICK p \in Nat, v \in Nat, n \in Nat, u \in Nat : p = Len(prev) /\ v = Len(s) /\ n = LineLen /\ u = Len(d)
  <2>1. Len(prev) \in Nat /\ Len(s) \in Nat /\ LineLen \in Nat /\ Len(d) \in Nat
    BY <1>1, <1>2 DEF Here, Text
  <2> QED BY <2>1
<1>4. /\ q + p + n <= q + u /\ n <= v /\ v > 0 /\ (q + p + n = q + u \/ n = v)
      /\ \A i \in 1 .. v : s[i] = t[q + p + i]
  BY <1>2, <1>3 DEF Here
<1>5. p + n <= u
  BY <1>4
<1>6. p + n = u
  <2>1. SUFFICES ASSUME n = v PROVE p + n = u
    BY <1>4
  <2>2. PICK c \in Commands : IsPrefix(c, s)
    BY <1>2, <1>3, <2>1 DEF HasLine, Unfinished, is_frame_name
  <2>3. c \in Text
    BY TokensAssumption
  <2>4. PICK x \in Nat : x = Len(c)
    BY <2>3 DEF Text
  <2>5. x <= v /\ \A i \in 1 .. x : c[i] = s[i]
    BY <1>3, <2>2, <2>3, <2>4, PrefixIs
  <2>6. p < u /\ p + x <= u
    BY <1>4, <1>5, <2>1, <2>5
  <2>7. ASSUME NEW i \in 1 .. x PROVE c[i] = d[p + i]
    <3>1. i \in 1 .. v /\ p + i \in 1 .. u /\ q + p + i = q + (p + i)
      BY <2>5, <2>6
    <3>2. t[q + (p + i)] = d[p + i]
      BY <1>3, <3>1
    <3> QED BY <1>4, <2>5, <3>1, <3>2
  <2>8. p + x = u
    BY <1>3, <2>4, <2>6, <2>7, CommandInside
  <2> QED BY <1>5, <2>1, <2>5, <2>8
<1>7. PICK l \in Text : l = Line /\ Len(l) = u /\ \A i \in 1 .. u : l[i] = t[q + i]
  <2>1. Line \in Text /\ Len(Line) = p + n /\ \A i \in 1 .. Len(Line) : Line[i] = t[q + i]
    BY <1>3 DEF Here
  <2> QED BY <1>6, <2>1
<1>8. l = d
  <2>1. l \in Seq(Tokens) /\ d \in Seq(Tokens)
    BY <1>1 DEF Text
  <2>2. \A i \in 1 .. u : l[i] = d[i]
    BY <1>3, <1>7
  <2> QED BY <1>3, <1>7, <2>1, <2>2, SeqEqual
<1>9. q + p + n = e
  <2>1. e = q + u
    BY <1>3
  <2>2. q + p + n = q + u
    BY <1>6
  <2> QED BY <2>1, <2>2
<1> QED BY <1>3, <1>7, <1>8, <1>9

LEMMA SetNameFollows ==
  ASSUME TypeOK, NEW t, NEW fs, NEW st, NEW lay, Sent(t, fs, st, lay),
         NEW base, NEW q, NEW e, At(t, fs, st, lay, base, q, e), frame_setname
  PROVE  Follows(t, fs, st, lay)' /\ errors' = errors
<1>1. HasLine /\ Parsing /\ NextLine(1) /\ bucket' = bucket
  BY DEF frame_setname, HasLine
<1>2. Here(t, base, q, e) /\ Received(t, base) /\ q \in Nat /\ e \in Nat /\ Delivered(fs)
  BY <1>1, HereAtStage, Delivering
<1>3. PICK n \in Nat, L \in Nat \ {0} : n = Len(bucket) /\ L = Len(fs) /\ n <= L
  BY Delivering
<1>4. BetweenFrames(fs, st, q, e) /\ frame.status = "none" /\ Line # <<>> /\ ~is_body_input
  <2>1. BetweenFrames(fs, st, q, e)
    BY DEF frame_setname, At, InFrame, InHeader, HeaderOf, InBody, BodyOf
  <2>2. frame.status = "none"
    BY <2>1, NoFrameIs DEF BetweenFrames
  <2> QED BY <2>1, <2>2 DEF frame_setname, is_body_input
<1>5. q # e
  <2>1. SUFFICES ASSUME q = e PROVE FALSE
    OBVIOUS
  <2>2. Len(prev) \in Nat /\ LineLen \in Nat /\ q + Len(prev) + LineLen <= q /\ Line \in Text
        /\ Len(Line) = Len(prev) + LineLen
    BY <1>2, <2>1 DEF Here
  <2>3. Len(Line) = 0
    BY <1>2, <2>2
  <2> QED BY <1>4, <2>2, <2>3 DEF Text
<1>6. n < L /\ q = st[n] /\ e = q + Len(fs[n + 1].name)
  BY <1>3, <1>4, <1>5 DEF BetweenFrames
<1>7. PICK f, b, o, end : f = fs[n + 1] /\ b = st[n] /\ o = lay[n + 1] /\ end = st[n + 1]
  OBVIOUS
<1>8. Fits(t, f, b, o, end)
  BY <1>3, <1>6, <1>7, FitsNext
<1>9. PICK d \in Commands : d = f.name /\ e = b + Len(d) /\ b = q
  BY <1>6, <1>7, <1>8, WellFormedIs, FrameSentIs DEF Fits
<1>10. \A i \in 1 .. Len(d) : t[q + i] = d[i]
  BY <1>8, <1>9 DEF Fits, FrameAt
<1>11. q + Len(prev) + LineLen = e /\ Line = d
  BY <1>1, <1>2, <1>4, <1>9, <1>10, NameWhole
<1>12. errors' = errors /\ frame' = [alloc_frame EXCEPT !.status = "header", !.name = d]
  <2>1. IsPrefix(d, d)
    <3>1. d \in Text
      BY TokensAssumption
    <3>2. Len(d) \in Nat
      BY <3>1 DEF Text
    <3> QED BY <3>1, <3>2, PrefixIs
  <2>2. is_frame_name(Line)
    BY <1>11, <2>1 DEF is_frame_name
  <2>3. PICK c \in Commands :
          /\ IsPrefix(c, Line) /\ errors' = errors
          /\ frame' = [alloc_frame EXCEPT !.status = "header", !.name = c]
    BY <2>2 DEF frame_setname
  <2>4. c = d
    BY <1>11, <2>3, CommandPrefix
  <2> QED BY <2>3, <2>4
<1>13. /\ frame'.status = "header" /\ frame'.name = d /\ frame'.attrs = <<>>
       /\ frame'.contentlen = -1 /\ frame'.body = <<>>
  BY <1>12, NamedIs
<1>14. HeaderOf(f)' /\ Len(frame'.attrs) = 0
  <2>1. Len(frame'.attrs) = 0 /\ Len(f.attrs) \in Nat
    BY <1>8, <1>13 DEF Fits
  <2>2. 0 <= Len(f.attrs) /\ (\A i \in 1 .. 0 : FALSE) /\ \A i \in 1 .. Len(f.attrs) : ~(i <= 0)
    BY <2>1
  <2> QED BY <1>9, <1>13, <2>1, <2>2 DEF HeaderOf
<1>15. Delivered(fs)'
  BY <1>1, <1>2 DEF Delivered, Content
<1>16. /\ Received(t, base)' /\ prev' = <<>>
       /\ LineLen + 1 <= Len(Rest) => Read(base)' = e + 1
       /\ ~(LineLen + 1 <= Len(Rest)) => Read(base)' = e
  <2>1. 1 \in 0 .. 1
    OBVIOUS
  <2>2. /\ Received(t, base)' /\ prev' = <<>>
        /\ LineLen + 1 <= Len(Rest) => Read(base)' = q + Len(prev) + LineLen + 1
        /\ ~(LineLen + 1 <= Len(Rest)) => Read(base)' = q + Len(prev) + LineLen
    BY <1>1, <1>2, <2>1, MovedIs
  <2> QED BY <1>11, <2>2
<1>17. e + 1 = b + o[1] /\ e <= Len(t)
  BY <1>8, <1>9, Delivering DEF Fits
<1>18. CASE LineLen + 1 <= Len(Rest)
  <2>1. 0 \in 0 .. Len(f.attrs) /\ 0 + 1 = 1 /\ 0 + 2 = 2
    BY <1>8 DEF Fits
  <2>2. PICK q2 \in Nat, e2 \in Nat : q2 = b + o[1] /\ e2 + 1 = b + o[2] /\ q2 <= e2 /\ e2 <= Len(t)
    <3>1. Room(t, b, o, 0)
      BY <1>8, <2>1, HeaderRoom
    <3> QED BY <2>1, <3>1 DEF Room
  <2>3. InLine(t, base, q2, e2)'
    BY <1>16, <1>17, <1>18, <2>2, NewLine
  <2>4. InHeader(f, b, o, q2, e2)'
    BY <1>14, <2>1, <2>2 DEF InHeader
  <2>5. InFrame(fs, st, lay, q2, e2)'
    BY <1>1, <1>3, <1>6, <1>7, <2>4 DEF InFrame
  <2> QED BY <1>12, <1>15, <1>16, <2>3, <2>5 DEF Follows, At
<1>19. CASE ~(LineLen + 1 <= Len(Rest))
  <2>1. InLine(t, base, e, e)'
    BY <1>2, <1>16, <1>17, <1>19, NewLine
  <2>2. InHeader(f, b, o, e, e)'
    BY <1>14, <1>17 DEF InHeader
  <2>3. InFrame(fs, st, lay, e, e)'
    BY <1>1, <1>3, <1>6, <1>7, <2>2 DEF InFrame
  <2> QED BY <1>12, <1>15, <1>16, <2>1, <2>3 DEF Follows, At
<1> QED BY <1>18, <1>19

LEMMA ContentIs ==
  ASSUME NEW f \in FrameSent, NEW g, g.name = f.name, g.attrs = f.attrs, g.body = f.body
  PROVE  Content(g) = f
<1> HIDE DEF Text
<1> QED BY DEF Content, FrameSent

LEMMA DeliverNext ==
  ASSUME TypeOK, NEW fs, Delivered(fs), NEW n \in Nat, n = Len(bucket), n < Len(fs), Len(fs) \in Nat,
         NEW g, Done(g), bucket' = Append(bucket, g),
         Content(g) = fs[n + 1], g.contentlen = Len(fs[n + 1].body)
  PROVE  Delivered(fs)' /\ Len(bucket') = n + 1
<1>1. PICK y : y = bucket /\ Bucket(y)
  BY BucketTyped
<1>2. PICK z : z = Append(y, g)
  OBVIOUS
<1>3. Len(z) = n + 1 /\ (\A i \in 1 .. n : z[i] = y[i]) /\ z[n + 1] = g
  BY <1>1, <1>2, BucketAppend
<1>4. ASSUME NEW i \in 1 .. n + 1
      PROVE  Content(z[i]) = fs[i] /\ z[i].contentlen = Len(fs[i].body)
  <2>1. i \in 1 .. n \/ i = n + 1
    OBVIOUS
  <2>2. \A k \in 1 .. n : Content(y[k]) = fs[k] /\ y[k].contentlen = Len(fs[k].body)
    BY <1>1 DEF Delivered
  <2> QED BY <1>3, <2>1, <2>2
<1>5. n + 1 <= Len(fs)
  OBVIOUS
<1>6. bucket' = z
  BY <1>1, <1>2
<1> QED BY <1>3, <1>4, <1>5, <1>6 DEF Delivered, Content

(* What the parser has read of the content-length. *)
LEMMA ContentlenRead ==
  ASSUME NEW f, WellFormed(f), HeaderOf(f), NEW j \in Nat, j = Len(frame.attrs)
  PROVE  /\ j = 0 => frame.contentlen = -1
         /\ j = Len(f.attrs) => frame.contentlen = Len(f.body)
<1>1. Len(f.attrs) \in Nat /\ DOMAIN f.attrs = 1 .. Len(f.attrs)
  BY WellFormedIs, FrameSentIs
<1>2. PICK i \in 1 .. Len(f.attrs) : is_contentlen(f.attrs[i])
  BY <1>1 DEF WellFormed
<1>3. frame.contentlen = IF i <= j THEN Len(f.body) ELSE -1
  BY <1>2 DEF HeaderOf
<1> QED BY <1>1, <1>2, <1>3

LEMMA InHeaderStage ==
  ASSUME TypeOK, NEW t, NEW fs, NEW st, NEW lay, Sent(t, fs, st, lay),
         NEW base, NEW q, NEW e, At(t, fs, st, lay, base, q, e), frame.status = "header",
         NEW n \in Nat, n = Len(bucket)
  PROVE  /\ n < Len(fs) /\ Fits(t, fs[n + 1], st[n], lay[n + 1], st[n + 1])
         /\ InHeader(fs[n + 1], st[n], lay[n + 1], q, e)
         /\ Len(frame.attrs) \in 0 .. Len(fs[n + 1].attrs)
<1>1. InFrame(fs, st, lay, q, e)
  BY NoFrameIs DEF At, BetweenFrames
<1>2. n < Len(fs) /\ InHeader(fs[n + 1], st[n], lay[n + 1], q, e)
  BY <1>1 DEF InFrame, InBody, BodyOf
<1>3. Fits(t, fs[n + 1], st[n], lay[n + 1], st[n + 1])
  BY <1>2, FitsNext
<1>4. Len(frame.attrs) \in 0 .. Len(fs[n + 1].attrs)
  <2>1. Len(frame.attrs) \in Nat
    BY FrameLengths
  <2>2. Len(fs[n + 1].attrs) \in Nat
    BY <1>3 DEF Fits
  <2> QED BY <1>2, <2>1, <2>2 DEF InHeader, HeaderOf
<1> QED BY <1>2, <1>3, <1>4

(* The end of the header is where the parser sees it. *)
LEMMA HeaderEndSeen ==
  ASSUME TypeOK, NEW t, NEW f, NEW b, NEW o, NEW end, Fits(t, f, b, o, end), NEW base, NEW q \in Nat,
         NEW e \in Nat, InHeader(f, b, o, q, e), Here(t, base, q, e),
         NEW j \in 0 .. Len(f.attrs), j = Len(frame.attrs)
  PROVE  /\ EndOfHeader => j = Len(f.attrs) /\ q = b + o[j + 1]
         /\ j = Len(f.attrs) /\ q = b + o[j + 1] => EndOfHeader /\ q = e /\ q + 1 = b + o[j + 2]
<1>1. PICK m \in Nat : m = Len(f.attrs) /\ b \in Nat /\ WellFormed(f) /\ FrameAt(t, b, f, o) /\ Len(f.body) \in Nat
  BY DEF Fits
<1>2. First = t[q + 1] /\ HeaderOf(f)
  BY DEF Here, InHeader
<1>3. ASSUME EndOfHeader PROVE j = m /\ q = b + o[j + 1]
  <2>1. q = b + o[j + 1] /\ e + 1 = b + o[j + 2]
    <3>1. SUFFICES ASSUME j = 0 PROVE q = b + o[j + 1] /\ e + 1 = b + o[j + 2]
      BY DEF InHeader
    <3>2. frame.contentlen = -1
      BY <1>1, <1>2, <3>1, ContentlenRead
    <3> QED BY <1>3, <3>2 DEF EndOfHeader
  <2>2. SUFFICES ASSUME j < m PROVE FALSE
    BY <1>1, <2>1
  <2>3. PICK k \in 1 .. m : k = j + 1
    <3>1. j + 1 \in 1 .. m
      BY <1>1, <2>2
    <3> QED BY <3>1
  <2>4. Len(f.attrs[k]) \in 1 .. LD_MAX /\ \A i \in 1 .. Len(f.attrs[k]) : ~IsNL(f.attrs[k][i])
    BY <1>1, WellFormedIs
  <2>5. 1 \in 1 .. Len(f.attrs[k])
    BY <2>4, LimitsAssumption
  <2>6. PICK y \in Nat : y = o[k]
    <3>1. k \in 0 .. m + 2
      OBVIOUS
    <3> QED BY <1>1, <3>1 DEF Fits
  <2>7. t[b + (y + 1)] = f.attrs[k][1]
    BY <1>1, <2>5, <2>6 DEF FrameAt
  <2>8. q + 1 = b + (y + 1)
    BY <1>1, <2>1, <2>3, <2>6
  <2> QED BY <1>2, <1>3, <2>4, <2>5, <2>7, <2>8 DEF EndOfHeader
<1>4. ASSUME j = m, q = b + o[j + 1] PROVE EndOfHeader /\ q = e /\ q + 1 = b + o[j + 2]
  <2>1. PICK y1 \in Nat, y2 \in Nat : y1 = o[m + 1] /\ y2 = o[m + 2]
    <3>1. m + 1 \in 0 .. m + 2 /\ m + 2 \in 0 .. m + 2
      OBVIOUS
    <3>2. \A i \in 0 .. m + 2 : o[i] \in Nat
      BY <1>1 DEF Fits
    <3> QED BY <3>1, <3>2
  <2>2. y2 = y1 + 1 /\ t[b + y2] = NL
    BY <1>1, <2>1 DEF FrameAt
  <2>3. q + 1 = b + y2 /\ q = b + y1
    BY <1>1, <1>4, <2>1, <2>2
  <2>4. q = e
    <3>1. CASE q = b + o[j + 1] /\ e + 1 = b + o[j + 2]
      BY <1>4, <2>1, <2>3, <3>1
    <3>2. CASE e = q
      BY <3>2
    <3> QED BY <1>4, <3>1, <3>2 DEF InHeader
  <2>5. frame.contentlen = Len(f.body)
    BY <1>1, <1>2, <1>4, ContentlenRead
  <2>6. IsNL(First)
    BY <1>2, <2>2, <2>3 DEF IsNL
  <2>7. EndOfHeader
    BY <1>1, <2>5, <2>6 DEF EndOfHeader
  <2> QED BY <1>4, <2>1, <2>3, <2>4, <2>7
<1> QED BY <1>1, <1>3, <1>4

LEMMA HeaderEndsFollows ==
  ASSUME TypeOK, NEW t, NEW fs, NEW st, NEW lay, Sent(t, fs, st, lay),
         NEW base, NEW q, NEW e, At(t, fs, st, lay, base, q, e), HeaderEnds
  PROVE  Follows(t, fs, st, lay)'
<1>1. HasLine /\ Parsing /\ NextLine(1) /\ frame.status = "header" /\ EndOfHeader
  BY DEF HeaderEnds, HasLine
<1>2. Here(t, base, q, e) /\ Received(t, base) /\ q \in Nat /\ e \in Nat /\ Delivered(fs)
  BY <1>1, HereAtStage, Delivering
<1>3. PICK n \in Nat, L \in Nat \ {0} : n = Len(bucket) /\ L = Len(fs) /\ n <= L
  BY Delivering
<1>4. PICK f, b, o, end : f = fs[n + 1] /\ b = st[n] /\ o = lay[n + 1] /\ end = st[n + 1]
  OBVIOUS
<1>5. n < L /\ Fits(t, f, b, o, end) /\ InHeader(f, b, o, q, e) /\ Len(frame.attrs) \in 0 .. Len(f.attrs)
  BY <1>1, <1>3, <1>4, InHeaderStage
<1>6. PICK m \in Nat, v \in Nat : m = Len(f.attrs) /\ v = Len(f.body) /\ b \in Nat /\ WellFormed(f)
  BY <1>5 DEF Fits
<1>7. PICK w \in Nat : w = o[m + 2]
  <2>1. m + 2 \in 0 .. m + 2
    OBVIOUS
  <2> QED BY <1>5, <1>6, <2>1 DEF Fits
<1>8. Len(frame.attrs) = m /\ q = e /\ q + 1 = b + w
  <2>1. PICK j \in 0 .. m : j = Len(frame.attrs)
    BY <1>5, <1>6
  <2>2. /\ EndOfHeader => j = Len(f.attrs) /\ q = b + o[j + 1]
        /\ j = Len(f.attrs) /\ q = b + o[j + 1] => EndOfHeader /\ q = e /\ q + 1 = b + o[j + 2]
    BY <1>2, <1>5, <1>6, <2>1, HeaderEndSeen
  <2> QED BY <1>1, <1>6, <1>7, <2>1, <2>2
<1>9. HeaderOf(f) /\ frame.contentlen = v
  <2>1. HeaderOf(f)
    BY <1>5 DEF InHeader
  <2> QED BY <1>6, <1>8, <2>1, ContentlenRead
<1>10. f \in FrameSent
  BY <1>6, WellFormedIs
<1>11. PICK g \in FrameObject : g = frame /\ g.name \in Commands
  BY <1>1 DEF TypeOK
<1>12. g.name = f.name /\ g.attrs = f.attrs /\ g.body = <<>>
  <2>1. g.attrs \in Seq(Text) /\ f.attrs \in Seq(Text)
    BY <1>10, FrameFields, FrameSentIs
  <2>2. Len(g.attrs) = Len(f.attrs) /\ \A i \in 1 .. Len(g.attrs) : g.attrs[i] = f.attrs[i]
    BY <1>6, <1>8, <1>9, <1>11 DEF HeaderOf
  <2>3. g.attrs = f.attrs
    BY <2>1, <2>2, SeqEqual
  <2> QED BY <1>9, <1>11, <2>3 DEF HeaderOf
<1>13. Received(t, base)' /\ prev' = <<>> /\ Read(base)' = b + w
  <2>1. 1 \in 0 .. 1
    OBVIOUS
  <2>2. /\ Received(t, base)' /\ prev' = <<>>
        /\ LineLen + 1 <= Len(Rest) => Read(base)' = q + Len(prev) + LineLen + 1
    BY <1>1, <1>2, <2>1, MovedIs
  <2>3. Len(prev) \in Nat /\ LineLen \in Nat /\ Len(Rest) \in Nat \ {0} /\ q + Len(prev) + LineLen <= q
    BY <1>2, <1>8 DEF Here
  <2>4. Len(prev) = 0 /\ LineLen = 0
    BY <1>2, <2>3
  <2>5. LineLen + 1 <= Len(Rest) /\ q + Len(prev) + LineLen + 1 = q + 1
    BY <1>2, <2>3, <2>4
  <2> QED BY <1>8, <2>2, <2>5
<1>14. PICK q2 \in Nat, e2 \in Nat : q2 = b + w /\ e2 = b + w + v /\ q2 <= e2 /\ end = e2 + 1 /\ e2 <= Len(t)
  <2>0. b \in Nat
    BY <1>6
  <2>1. b + w \in Nat /\ b + w + v \in Nat /\ b + w <= b + w + v
    BY <2>0
  <2>2. end = b + w + v + 1 /\ end <= Len(t) /\ Len(t) \in Nat
    BY <1>5, <1>6, <1>7 DEF Fits
  <2>3. b + w + v <= Len(t) /\ end = (b + w + v) + 1
    BY <2>1, <2>2
  <2> QED BY <2>1, <2>3
<1>15. CASE v > 0 /\ frame' = [g EXCEPT !.status = "body"] /\ bucket' = bucket
  <2>1. "body" \in Statuses
    BY DEF Statuses
  <2>2. /\ frame'.status = "body" /\ frame'.name = f.name /\ frame'.attrs = f.attrs
        /\ frame'.contentlen = v /\ frame'.body = <<>>
    BY <1>9, <1>11, <1>12, <1>15, <2>1, StatusSet
  <2>3. Len(frame'.body) = 0
    BY <2>2
  <2>4. BodyOf(f)'
    <3>1. \A i \in 1 .. 0 : FALSE
      OBVIOUS
    <3> QED BY <1>6, <1>15, <2>2, <2>3, <3>1 DEF BodyOf
  <2>5. InBody(f, b, o, q2, e2)'
    <3>1. q2 = b + w + 0
      BY <1>6, <1>14
    <3> QED BY <1>6, <1>7, <1>14, <2>3, <2>4, <3>1 DEF InBody
  <2>6. InFrame(fs, st, lay, q2, e2)'
    BY <1>3, <1>4, <1>5, <1>15, <2>5 DEF InFrame
  <2>7. InLine(t, base, q2, e2)'
    BY <1>13, <1>14, NewLine
  <2>8. Delivered(fs)'
    BY <1>2, <1>15 DEF Delivered, Content
  <2> QED BY <1>13, <2>6, <2>7, <2>8 DEF Follows, At
<1>16. CASE v = 0 /\ frame' = NoFrame /\ bucket' = Append(bucket, frame_finish(g))
  <2>1. PICK h : h = frame_finish(g)
    OBVIOUS
  <2>2. Done(h) /\ h.name = f.name /\ h.attrs = f.attrs /\ h.body = <<>> /\ h.contentlen = v
    BY <1>9, <1>11, <1>12, <1>16, <2>1, FinishIs DEF Done
  <2>3. f.body = <<>>
    <3>1. f.body \in Seq(Tokens)
      BY <1>10, FrameSentIs DEF Text
    <3>2. Len(f.body) = 0
      BY <1>6, <1>16
    <3> QED BY <3>1, <3>2, EmptySeq
  <2>4. Content(h) = f
    BY <1>10, <2>2, <2>3, ContentIs
  <2>5. Delivered(fs)' /\ Len(bucket') = n + 1
    <3>1. Done(h) /\ bucket' = Append(bucket, h)
      BY <1>16, <2>1, <2>2
    <3>2. n < Len(fs) /\ Len(fs) \in Nat /\ n = Len(bucket)
      BY <1>3, <1>5
    <3>3. Content(h) = fs[n + 1] /\ h.contentlen = Len(fs[n + 1].body)
      BY <1>4, <1>6, <2>2, <2>4
    <3> QED BY <1>2, <3>1, <3>2, <3>3, DeliverNext
  <2>6. q2 + 1 = st[n + 1] /\ n + 1 \in Nat \ {0} /\ n + 1 <= Len(fs)
    <3>1. n < Len(fs) /\ Len(fs) \in Nat
      BY <1>3, <1>5
    <3>2. n + 1 \in Nat \ {0} /\ n + 1 <= Len(fs)
      BY <3>1
    <3>3. q2 + 1 = end
      <4>1. b \in Nat
        BY <1>6
      <4>2. b + w + v = b + w
        BY <1>16, <4>1
      <4> QED BY <1>14, <4>2
    <3>4. end = st[n + 1]
      BY <1>4
    <3> QED BY <3>2, <3>3, <3>4
  <2>7. PICK n2 \in Nat \ {0} : n2 = n + 1
    OBVIOUS
  <2> QED BY <1>13, <1>14, <1>16, <2>5, <2>6, <2>7, StartAtNul
<1> QED BY <1>9, <1>11, <1>15, <1>16 DEF HeaderEnds

LEMMA OnePiece == ASSUME NEW l \in Text, Len(l) \in 1 .. LD_MAX PROVE Pieces(l) = <<l>>
<1>1. PICK d \in Nat, n \in Nat : d = LD_MAX /\ n = Len(l) /\ 1 <= n /\ n <= d
  BY LimitsAssumption DEF Text
<1>2. (n + d - 1) \div d = 1
  <2>1. PICK x \in Nat : x = n + d - 1 /\ d <= x /\ x < d + d
    BY <1>1
  <2>2. d * 1 <= x /\ x < d * 1 + d /\ d > 0
    BY <1>1, <2>1
  <2>3. x \div d = 1
    BY <1>1, <2>1
  <2> QED BY <2>1, <2>3
<1>3. Min({1 * d, n}) = n
  <2>1. {1 * d, n} \in SUBSET Nat /\ {1 * d, n} # {}
    OBVIOUS
  <2>2. PICK x : x = Min({1 * d, n})
    OBVIOUS
  <2>3. x \in {1 * d, n} /\ \A j \in {1 * d, n} : x <= j
    BY <2>1, <2>2, MinIsLeast
  <2> QED BY <1>1, <2>2, <2>3
<1>4. (1 - 1) * d + 1 = 1
  OBVIOUS
<1>5. PICK w : w = SubSeq(l, 1, n)
  OBVIOUS
<1>6. w = l
  <2>1. w \in Text /\ Len(w) = n /\ \A i \in 1 .. n : w[i] = l[i]
    BY <1>1, <1>5, CutIs
  <2>2. w \in Seq(Tokens) /\ l \in Seq(Tokens)
    BY <2>1 DEF Text
  <2> QED BY <1>1, <2>1, <2>2, SeqEqual
<1>7. PICK p : p = Pieces(l)
  OBVIOUS
<1>8. p = [i \in 1 .. 1 |-> SubSeq(l, (i - 1) * d + 1, Min({i * d, n}))]
  BY <1>1, <1>2, <1>7 DEF Pieces
<1>9. DOMAIN p = 1 .. 1 /\ p[1] = l
  BY <1>3, <1>4, <1>5, <1>6, <1>8
<1>10. p \in Seq(Text) /\ <<l>> \in Seq(Text) /\ Len(p) = 1 /\ Len(<<l>>) = 1 /\ p[1] = <<l>>[1]
  <2>1. \A i \in 1 .. 1 : p[i] \in Text
    <3>1. \A i \in 1 .. 1 : i = 1
      OBVIOUS
    <3> QED BY <1>9, <3>1
  <2>2. p = [i \in 1 .. 1 |-> p[i]]
    BY <1>8
  <2>3. p \in [1 .. 1 -> Text]
    <3> HIDE DEF Text
    <3> QED BY <2>1, <2>2
  <2>4. p \in Seq(Text)
    <3>1. PICK k \in Nat : k = 1 /\ p \in [1 .. k -> Text]
      BY <2>3
    <3> QED BY <3>1, SeqDef
  <2> QED BY <1>9, <2>3, <2>4
<1>11. p = <<l>>
  <2>1. PICK z \in Seq(Text) : z = <<l>> /\ Len(z) = 1 /\ z[1] = l
    BY <1>10
  <2>2. \A i \in 1 .. Len(p) : p[i] = z[i]
    BY <1>9, <1>10, <2>1
  <2> QED BY <1>10, <2>1, <2>2, SeqEqual
<1> QED BY <1>7, <1>11

(* The parser has the next header line whole: no command begins in it, so  *)
(* the end of a chunk never looks like the end of the line.                *)
LEMMA HeaderWhole ==
  ASSUME TypeOK, HasLine, NEW t, NEW base, NEW q \in Nat, NEW e \in Nat, Here(t, base, q, e), ~is_body_input,
         NEW a \in Text, e = q + Len(a), \A i \in 1 .. Len(a) : t[q + i] = a[i],
         \A c \in Commands, k \in DOMAIN a : ~IsPrefix(c, SubSeq(a, k, Len(a))), Len(a) > 0
  PROVE  q + Len(prev) + LineLen = e /\ LineLen + 1 <= Len(Rest) /\ Line = a
<1>1. PICK s \in Text : s = Rest
  BY RestIs DEF HasLine
<1>2. PICK p \in Nat, v \in Nat, n \in Nat, u \in Nat : p = Len(prev) /\ v = Len(s) /\ n = LineLen /\ u = Len(a)
  <2>1. Len(prev) \in Nat /\ Len(s) \in Nat /\ LineLen \in Nat /\ Len(a) \in Nat
    BY <1>1 DEF Here, Text
  <2> QED BY <2>1
<1>3. /\ q + p + n <= q + u /\ n <= v /\ v > 0 /\ (q + p + n = q + u \/ n = v)
      /\ \A i \in 1 .. v : s[i] = t[q + p + i]
  BY <1>1, <1>2 DEF Here
<1>4. p + n <= u
  BY <1>3
<1>5. n < v
  <2>1. SUFFICES ASSUME n = v PROVE FALSE
    BY <1>3
  <2>2. PICK c \in Commands : IsPrefix(c, s)
    BY <1>1, <1>2, <2>1 DEF HasLine, Unfinished, is_frame_name
  <2>3. c \in Text
    BY TokensAssumption
  <2>4. PICK x \in Nat : x = Len(c)
    BY <2>3 DEF Text
  <2>5. x <= v /\ \A i \in 1 .. x : c[i] = s[i]
    BY <1>2, <2>2, <2>3, <2>4, PrefixIs
  <2>6. p < u /\ p + x <= u /\ p <= Len(a)
    BY <1>2, <1>3, <1>4, <2>1, <2>5
  <2>7. PICK w : w = SubSeq(a, p + 1, u)
    OBVIOUS
  <2>8. w \in Text /\ Len(w) = u - p /\ \A i \in 1 .. u - p : w[i] = a[p + i]
    <3>1. p <= Len(a)
      BY <2>6
    <3>2. /\ SubSeq(a, p + 1, Len(a)) \in Text /\ Len(SubSeq(a, p + 1, Len(a))) = Len(a) - p
          /\ \A i \in 1 .. Len(a) - p : SubSeq(a, p + 1, Len(a))[i] = a[p + i]
      BY <3>1, CutIs
    <3> QED BY <1>2, <2>7, <3>2
  <2>9. ASSUME NEW i \in 1 .. x PROVE c[i] = w[i]
    <3>1. i \in 1 .. v /\ i \in 1 .. u - p /\ p + i \in 1 .. u /\ q + p + i = q + (p + i)
      BY <2>5, <2>6
    <3>2. t[q + (p + i)] = a[p + i]
      BY <1>2, <3>1
    <3> QED BY <1>3, <2>5, <2>8, <3>1, <3>2
  <2>10. x <= u - p
    BY <2>6
  <2>11. IsPrefix(c, w)
    BY <2>3, <2>4, <2>8, <2>9, <2>10, PrefixIs
  <2>12. p + 1 \in DOMAIN a
    BY <1>2, <2>6 DEF Text
  <2> QED BY <1>2, <2>7, <2>11, <2>12
<1>6. p + n = u
  BY <1>3, <1>5
<1>7. PICK l \in Text : l = Line /\ Len(l) = u /\ \A i \in 1 .. u : l[i] = t[q + i]
  <2>1. Line \in Text /\ Len(Line) = p + n /\ \A i \in 1 .. Len(Line) : Line[i] = t[q + i]
    BY <1>2 DEF Here
  <2> QED BY <1>6, <2>1
<1>8. l = a
  <2>1. l \in Seq(Tokens) /\ a \in Seq(Tokens)
    BY DEF Text
  <2>2. \A i \in 1 .. u : l[i] = a[i]
    BY <1>2, <1>7
  <2> QED BY <1>2, <1>7, <2>1, <2>2, SeqEqual
<1>9. q + p + n = e
  <2>1. e = q + u
    BY <1>2
  <2>2. q + p + n = q + u
    BY <1>6
  <2> QED BY <2>1, <2>2
<1>10. n + 1 <= v
  BY <1>5
<1> QED BY <1>1, <1>2, <1>7, <1>8, <1>9, <1>10

(* One more header line of f. *)
LEMMA HeaderAdded ==
  ASSUME NEW f, WellFormed(f), HeaderOf(f), NEW g \in FrameObject, g = frame, NEW j \in Nat, j = Len(g.attrs),
         j < Len(f.attrs), NEW a, a = f.attrs[j + 1], NEW x \in Int, NEW y \in Seq(Text),
         x = IF is_contentlen(a) THEN get_contentlen(a) ELSE g.contentlen,
         Len(y) = j + 1, \A i \in 1 .. j : y[i] = g.attrs[i], y[j + 1] = a,
         frame' = WithHeader(g, x, y)
  PROVE  HeaderOf(f)' /\ Len(frame'.attrs) = j + 1
<1>1. Len(f.attrs) \in Nat /\ DOMAIN f.attrs = 1 .. Len(f.attrs)
  BY WellFormedIs, FrameSentIs
<1>2. PICK m \in Nat : m = Len(f.attrs)
  BY <1>1
<1>3. PICK k \in 1 .. m :
        /\ is_contentlen(f.attrs[k]) /\ get_contentlen(f.attrs[k]) = Len(f.body)
        /\ \A i \in 1 .. m : is_contentlen(f.attrs[i]) => i = k
  BY <1>1, <1>2 DEF WellFormed
<1>4. j + 1 \in 1 .. m /\ j + 1 <= m
  BY <1>2
<1>5. g.contentlen = IF k <= j THEN Len(f.body) ELSE -1
  BY <1>2, <1>3 DEF HeaderOf
<1>6. x = IF k <= j + 1 THEN Len(f.body) ELSE -1
  <2>1. CASE k = j + 1
    BY <1>3, <2>1
  <2>2. CASE k # j + 1
    <3>1. ~is_contentlen(a)
      BY <1>3, <1>4, <2>2
    <3>2. k <= j + 1 <=> k <= j
      BY <2>2
    <3> QED BY <1>5, <3>1, <3>2
  <2> QED BY <2>1, <2>2
<1>7. ASSUME NEW i \in 1 .. m, is_contentlen(f.attrs[i])
      PROVE  x = IF i <= j + 1 THEN Len(f.body) ELSE -1
  BY <1>3, <1>6, <1>7
<1>8. ASSUME NEW i \in 1 .. j + 1 PROVE y[i] = f.attrs[i]
  <2>1. i \in 1 .. j \/ i = j + 1
    OBVIOUS
  <2>2. \A n \in 1 .. j : g.attrs[n] = f.attrs[n]
    BY DEF HeaderOf
  <2> QED BY <2>1, <2>2
<1>9. /\ frame'.status = g.status /\ frame'.name = g.name /\ frame'.attrs = y
      /\ frame'.contentlen = x /\ frame'.body = g.body
  <2>1. PICK u : u = WithHeader(g, x, y)
    OBVIOUS
  <2>2. u.status = g.status /\ u.name = g.name /\ u.attrs = y /\ u.contentlen = x /\ u.body = g.body
    BY <2>1, HeaderSet
  <2> QED BY <2>1, <2>2
<1>10. g.status = "header" /\ g.name = f.name /\ g.body = <<>>
  BY DEF HeaderOf
<1>11. frame'.status = "header" /\ frame'.name = f.name /\ frame'.body = <<>> /\ Len(frame'.attrs) = j + 1
  BY <1>9, <1>10
<1>12. ASSUME NEW i \in 1 .. Len(f.attrs), is_contentlen(f.attrs[i])
       PROVE  frame'.contentlen = IF i <= Len(frame'.attrs) THEN Len(f.body) ELSE -1
  <2>1. i \in 1 .. m
    BY <1>2
  <2>2. x = IF i <= j + 1 THEN Len(f.body) ELSE -1
    BY <1>7, <1>12, <2>1
  <2> QED BY <1>9, <1>11, <2>2
<1>13. \A i \in 1 .. Len(frame'.attrs) : frame'.attrs[i] = f.attrs[i]
  BY <1>8, <1>9, <1>11
<1>14. Len(frame'.attrs) <= Len(f.attrs)
  BY <1>2, <1>4, <1>11
<1>15. HeaderOf(f)'
  BY <1>11, <1>12, <1>13, <1>14 DEF HeaderOf
<1> QED BY <1>11, <1>15

LEMMA HeaderLineFollows ==
  ASSUME TypeOK, NEW t, NEW fs, NEW st, NEW lay, Sent(t, fs, st, lay),
         NEW base, NEW q, NEW e, At(t, fs, st, lay, base, q, e), HeaderLine
  PROVE  Follows(t, fs, st, lay)'
<1>1. HasLine /\ Parsing /\ NextLine(1) /\ frame.status = "header" /\ ~EndOfHeader /\ bucket' = bucket
  BY DEF HeaderLine, HasLine
<1>2. Here(t, base, q, e) /\ Received(t, base) /\ q \in Nat /\ e \in Nat /\ Delivered(fs)
  BY <1>1, HereAtStage, Delivering
<1>3. PICK n \in Nat, L \in Nat \ {0} : n = Len(bucket) /\ L = Len(fs) /\ n <= L
  BY Delivering
<1>4. PICK f, b, o, end : f = fs[n + 1] /\ b = st[n] /\ o = lay[n + 1] /\ end = st[n + 1]
  OBVIOUS
<1>5. n < L /\ Fits(t, f, b, o, end) /\ InHeader(f, b, o, q, e) /\ Len(frame.attrs) \in 0 .. Len(f.attrs)
  BY <1>1, <1>3, <1>4, InHeaderStage
<1>6. PICK m \in Nat : m = Len(f.attrs) /\ b \in Nat /\ WellFormed(f) /\ FrameAt(t, b, f, o)
  BY <1>5 DEF Fits
<1>7. PICK j \in 0 .. m : j = Len(frame.attrs)
  BY <1>5, <1>6
<1>8. ~(j = m /\ q = b + o[j + 1])
  <2>1. j = Len(f.attrs) /\ q = b + o[j + 1] => EndOfHeader
    BY <1>2, <1>5, <1>6, <1>7, HeaderEndSeen
  <2> QED BY <1>1, <1>6, <2>1
<1>9. Delivered(fs)'
  BY <1>1, <1>2 DEF Delivered, Content
<1>10. HeaderOf(f)
  BY <1>5 DEF InHeader
<1>11. /\ Received(t, base)' /\ prev' = <<>>
       /\ LineLen + 1 <= Len(Rest) => Read(base)' = q + Len(prev) + LineLen + 1
  <2>1. 1 \in 0 .. 1
    OBVIOUS
  <2> QED BY <1>1, <1>2, <2>1, MovedIs
<1>12. ~is_body_input
  BY <1>1 DEF is_body_input
<1>13. ASSUME NEW i \in 0 .. m, Len(frame'.attrs) = i, HeaderOf(f)', Read(base)' = b + o[i + 1]
       PROVE  Follows(t, fs, st, lay)'
  <2>1. i \in 0 .. Len(f.attrs)
    BY <1>6
  <2>2. PICK q2 \in Nat, e2 \in Nat : q2 = b + o[i + 1] /\ e2 + 1 = b + o[i + 2] /\ q2 <= e2 /\ e2 <= Len(t)
    <3>1. Fits(t, f, b, o, end)
      BY <1>5
    <3>2. Room(t, b, o, i)
      BY <2>1, <3>1, HeaderRoom
    <3> QED BY <3>2 DEF Room
  <2>3. InLine(t, base, q2, e2)'
    BY <1>11, <1>13, <2>2, NewLine
  <2>4. InHeader(f, b, o, q2, e2)'
    BY <1>13, <2>2 DEF InHeader
  <2>5. InFrame(fs, st, lay, q2, e2)'
    BY <1>1, <1>3, <1>4, <1>5, <2>4 DEF InFrame
  <2> QED BY <1>9, <1>11, <2>3, <2>5 DEF Follows, At
<1>14. CASE j = 0 /\ q + 1 = b + o[1] /\ e = q
  <2>1. Len(prev) \in Nat /\ LineLen \in Nat /\ Len(Rest) \in Nat \ {0} /\ q + Len(prev) + LineLen <= q
        /\ Line \in Text /\ Len(Line) = Len(prev) + LineLen
    BY <1>2, <1>14 DEF Here
  <2>2. Len(prev) = 0 /\ LineLen = 0
    BY <1>2, <2>1
  <2>3. LineLen + 1 <= Len(Rest) /\ q + Len(prev) + LineLen + 1 = q + 1 /\ Len(Line) = 0
    BY <1>2, <2>1, <2>2
  <2>4. Line = <<>>
    BY <2>1, <2>3, EmptySeq DEF Text
  <2>5. frame' = frame
    BY <2>4 DEF HeaderLine
  <2>6. HeaderOf(f)' /\ Len(frame'.attrs) = 0
    BY <1>7, <1>10, <1>14, <2>5 DEF HeaderOf
  <2>7. 0 \in 0 .. m /\ 0 + 1 = 1
    OBVIOUS
  <2>8. Read(base)' = b + o[0 + 1]
    BY <1>11, <1>14, <2>3, <2>7
  <2> QED BY <1>13, <2>6, <2>7, <2>8
<1>15. CASE q = b + o[j + 1] /\ e + 1 = b + o[j + 2]
  <2>1. j < m /\ j + 1 \in 1 .. m /\ j + 1 \in 0 .. m /\ j \in 0 .. Len(f.attrs)
    BY <1>6, <1>7, <1>8, <1>15
  <2>2. f.attrs \in Seq(Text)
    BY <1>6, WellFormedIs, FrameSentIs
  <2>3. PICK a \in Text : a = f.attrs[j + 1]
    BY <1>6, <2>1, <2>2
  <2>4. e = q + Len(a)
    <3>1. PICK y \in Nat, k \in 1 .. m, u \in Nat : y = o[k] /\ k = j + 1 /\ u = Len(a)
      <4>1. j + 1 \in 0 .. m + 2
        BY <2>1
      <4>2. o[j + 1] \in Nat
        BY <1>5, <1>6, <4>1 DEF Fits
      <4>3. Len(a) \in Nat
        BY DEF Text
      <4> QED BY <2>1, <4>2, <4>3
    <3>2. o[k + 1] = y + u + 1
      BY <1>6, <2>3, <3>1 DEF FrameAt
    <3>3. k + 1 = j + 2
      BY <3>1
    <3>4. q = b + y /\ e + 1 = b + (y + u + 1)
      BY <1>15, <3>1, <3>2, <3>3
    <3>5. b \in Nat /\ e \in Nat
      BY <1>2, <1>6
    <3>6. e = b + y + u
      BY <3>4, <3>5
    <3> QED BY <3>1, <3>4, <3>6
  <2>5. Len(a) \in 1 .. LD_MAX
    BY <1>6, <2>1, <2>3, WellFormedIs
  <2>6. \A i \in 1 .. Len(a) : t[q + i] = a[i]
    <3>1. PICK y \in Nat : y = o[j + 1]
      <4>1. j + 1 \in 0 .. m + 2
        BY <2>1
      <4> QED BY <1>5, <1>6, <4>1 DEF Fits
    <3>2. SUFFICES ASSUME NEW i \in 1 .. Len(a) PROVE t[q + i] = a[i]
      OBVIOUS
    <3>3. t[b + (y + i)] = a[i]
      BY <1>6, <2>1, <2>3, <3>1, <3>2 DEF FrameAt
    <3>4. b \in Nat /\ i \in Nat /\ q = b + y
      BY <1>6, <1>15, <2>5, <3>1, <3>2
    <3>5. q + i = b + (y + i)
      BY <3>4
    <3> QED BY <3>3, <3>5
  <2>7. \A c \in Commands, k \in DOMAIN a : ~IsPrefix(c, SubSeq(a, k, Len(a)))
    <3>1. j + 1 \in DOMAIN f.attrs
      BY <1>6, <2>1, <2>2
    <3> QED BY <1>6, <2>3, <3>1 DEF WellFormed
  <2>8. Len(a) > 0
    BY <2>5, LimitsAssumption
  <2>9. q + Len(prev) + LineLen = e /\ LineLen + 1 <= Len(Rest) /\ Line = a
    BY <1>1, <1>2, <1>12, <2>4, <2>6, <2>7, <2>8, HeaderWhole
  <2>10. PICK g \in FrameObject : g = frame
    BY DEF TypeOK
  <2>11. PICK x \in Int : x = IF is_contentlen(a) THEN get_contentlen(a) ELSE g.contentlen
    <3>1. g.contentlen \in Int
      BY <2>10, FrameFields
    <3> QED BY <3>1, ContentlenIs
  <2>12. PICK y : y = g.attrs \o <<a>>
    OBVIOUS
  <2>13. y \in Seq(Text) /\ Len(y) = j + 1 /\ (\A i \in 1 .. j : y[i] = g.attrs[i]) /\ y[j + 1] = a
    <3>1. PICK z \in Seq(Text) : z = g.attrs
      BY <2>10, FrameFields
    <3>2. Len(z) = j /\ j \in Nat
      BY <1>7, <2>10, <3>1
    <3>3. y = z \o <<a>>
      BY <2>12, <3>1
    <3>4. y \in Seq(Text) /\ Len(y) = j + 1 /\ (\A i \in 1 .. j : y[i] = z[i]) /\ y[j + 1] = a
      <4> HIDE DEF Text
      <4> QED BY <3>2, <3>3
    <3> QED BY <3>1, <3>4
  <2>14. frame' = WithHeader(g, x, y)
    <3>1. Pieces(Line) = <<a>>
      BY <2>5, <2>9, OnePiece
    <3>2. Line # <<>>
      BY <2>8, <2>9
    <3> QED BY <2>9, <2>10, <2>11, <2>12, <3>1, <3>2 DEF HeaderLine, WithHeader
  <2>15. HeaderOf(f)' /\ Len(frame'.attrs) = j + 1
    <3>1. j \in Nat /\ j = Len(g.attrs) /\ j < Len(f.attrs)
      BY <1>6, <1>7, <2>1, <2>10
    <3>2. WellFormed(f) /\ y \in Seq(Text)
      BY <1>6, <2>13
    <3>3. Len(y) = j + 1 /\ (\A i \in 1 .. j : y[i] = g.attrs[i]) /\ y[j + 1] = a
      BY <2>13
    <3> HIDE DEF Text
    <3> QED BY <1>10, <2>3, <2>10, <2>11, <2>14, <3>1, <3>2, <3>3, HeaderAdded
  <2>16. Read(base)' = b + o[(j + 1) + 1]
    <3>1. (j + 1) + 1 = j + 2
      OBVIOUS
    <3> QED BY <1>11, <1>15, <2>9, <3>1
  <2> QED BY <1>13, <2>1, <2>15, <2>16
<1> QED BY <1>5, <1>7, <1>14, <1>15 DEF InHeader

LEMMA InBodyStage ==
  ASSUME TypeOK, NEW t, NEW fs, NEW st, NEW lay, Sent(t, fs, st, lay),
         NEW base, NEW q, NEW e, At(t, fs, st, lay, base, q, e), frame.status = "body",
         NEW n \in Nat, n = Len(bucket)
  PROVE  /\ n < Len(fs) /\ Fits(t, fs[n + 1], st[n], lay[n + 1], st[n + 1])
         /\ InBody(fs[n + 1], st[n], lay[n + 1], q, e)
<1>1. InFrame(fs, st, lay, q, e)
  BY NoFrameIs DEF At, BetweenFrames
<1>2. n < Len(fs) /\ InBody(fs[n + 1], st[n], lay[n + 1], q, e)
  BY <1>1 DEF InFrame, InHeader, HeaderOf
<1>3. Fits(t, fs[n + 1], st[n], lay[n + 1], st[n + 1])
  BY <1>2, FitsNext
<1> QED BY <1>2, <1>3

(* The body that the parser has with the line. *)
BodyWith(f, b, w, q, y) ==
  /\ y = frame.body \o Line /\ Len(y) <= Len(f.body) /\ Len(y) \in Nat
  /\ q + Len(prev) + LineLen = b + w + Len(y)
  /\ \A i \in 1 .. Len(y) : y[i] = f.body[i]

LEMMA BodyGrows ==
  ASSUME TypeOK, NEW t, NEW f, NEW b \in Nat, NEW o, NEW end, Fits(t, f, b, o, end), NEW base, NEW q \in Nat,
         NEW e \in Nat, InBody(f, b, o, q, e), Here(t, base, q, e)
  PROVE  \E y \in Text : BodyWith(f, b, o[Len(f.attrs) + 2], q, y)
<1>0. PICK w \in Nat : w = o[Len(f.attrs) + 2]
  <2>1. PICK m \in Nat : m = Len(f.attrs)
    BY DEF Fits
  <2>2. m + 2 \in 0 .. m + 2
    OBVIOUS
  <2> QED BY <2>1, <2>2 DEF Fits
<1>1. PICK v \in Nat : v = Len(f.body) /\ b \in Nat /\ WellFormed(f) /\ FrameAt(t, b, f, o)
  BY DEF Fits
<1>2. PICK x \in Text, l \in Text : x = frame.body /\ l = Line
  <2>1. frame.body \in Text
    BY FrameFields DEF TypeOK
  <2> QED BY <2>1 DEF Here
<1>3. PICK n \in Nat, k \in Nat : n = Len(x) /\ k = Len(l)
  BY DEF Text
<1>4. q = b + w + n /\ e = b + w + v /\ \A i \in 1 .. n : x[i] = f.body[i]
  BY <1>0, <1>1, <1>2, <1>3 DEF InBody, BodyOf
<1>5. PICK p \in Nat, c \in Nat : p = Len(prev) /\ c = LineLen /\ k = p + c /\ q + p + c <= e
  <2>1. Len(prev) \in Nat /\ LineLen \in Nat /\ Len(Line) = Len(prev) + LineLen /\ q + Len(prev) + LineLen <= e
    BY DEF Here
  <2> QED BY <1>2, <1>3, <2>1
<1>6. \A i \in 1 .. k : l[i] = t[q + i]
  BY <1>2, <1>3 DEF Here
<1>7. b \in Nat
  BY <1>1
<1>8. n + k <= v /\ q + p + c = b + w + (n + k)
  <2>1. q = b + w + n /\ e = b + w + v
    BY <1>4
  <2>2. k = p + c /\ q + p + c <= e
    BY <1>5
  <2>3. q + p + c = b + w + (n + k)
    BY <2>1, <2>2
  <2> QED BY <2>1, <2>2, <2>3
<1>9. PICK y : y = x \o l
  OBVIOUS
<1>10. y \in Text /\ Len(y) = n + k /\ \A i \in 1 .. n + k : y[i] = IF i <= n THEN x[i] ELSE l[i - n]
  <2>1. x \in Seq(Tokens) /\ l \in Seq(Tokens)
    BY DEF Text
  <2>2. /\ x \o l \in Seq(Tokens) /\ Len(x \o l) = Len(x) + Len(l)
        /\ \A i \in 1 .. Len(x) + Len(l) : (x \o l)[i] = IF i <= Len(x) THEN x[i] ELSE l[i - Len(x)]
    BY <2>1, ConcatProperties
  <2> QED BY <1>3, <1>9, <2>2 DEF Text
<1>11. ASSUME NEW i \in 1 .. n + k PROVE y[i] = f.body[i]
  <2>1. CASE i <= n
    <3>1. i \in 1 .. n
      BY <2>1
    <3> QED BY <1>4, <1>10, <2>1, <3>1
  <2>2. CASE ~(i <= n)
    <3>1. i - n \in 1 .. k /\ q + (i - n) = b + (w + i) /\ i \in 1 .. v
      <4>1. q = b + w + n /\ n + k <= v
        BY <1>4, <1>8
      <4>2. i - n \in 1 .. k /\ i \in 1 .. v
        BY <2>2, <4>1
      <4>3. q + (i - n) = b + (w + i)
        BY <4>1
      <4> QED BY <4>2, <4>3
    <3>2. t[b + (w + i)] = f.body[i]
      BY <1>0, <1>1, <3>1 DEF FrameAt
    <3> QED BY <1>6, <1>10, <2>2, <3>1, <3>2
  <2> QED BY <2>1, <2>2
<1>12. y = frame.body \o Line
  BY <1>2, <1>9
<1>13. Len(y) \in Nat /\ Len(y) <= Len(f.body) /\ q + Len(prev) + LineLen = b + w + Len(y)
  BY <1>1, <1>5, <1>8, <1>10
<1> QED BY <1>0, <1>10, <1>11, <1>12, <1>13 DEF BodyWith

LEMMA BodyLineFollows ==
  ASSUME TypeOK, NEW t, NEW fs, NEW st, NEW lay, Sent(t, fs, st, lay),
         NEW base, NEW q, NEW e, At(t, fs, st, lay, base, q, e), BodyLine
  PROVE  Follows(t, fs, st, lay)'
<1>1. HasLine /\ Parsing /\ frame.status = "body"
  BY DEF BodyLine, HasLine
<1>2. Here(t, base, q, e) /\ Received(t, base) /\ q \in Nat /\ e \in Nat /\ Delivered(fs)
  BY <1>1, HereAtStage, Delivering
<1>3. PICK n \in Nat, L \in Nat \ {0} : n = Len(bucket) /\ L = Len(fs) /\ n <= L
  BY Delivering
<1>4. PICK f, b, o, end : f = fs[n + 1] /\ b = st[n] /\ o = lay[n + 1] /\ end = st[n + 1]
  OBVIOUS
<1>5. n < L /\ Fits(t, f, b, o, end) /\ InBody(f, b, o, q, e)
  BY <1>1, <1>3, <1>4, InBodyStage
<1>6. PICK m \in Nat, v \in Nat : m = Len(f.attrs) /\ v = Len(f.body) /\ b \in Nat /\ WellFormed(f)
  BY <1>5 DEF Fits
<1>7. PICK w \in Nat : w = o[m + 2]
  <2>1. m + 2 \in 0 .. m + 2
    OBVIOUS
  <2> QED BY <1>5, <1>6, <2>1 DEF Fits
<1>0. w = o[Len(f.attrs) + 2]
  BY <1>6, <1>7
<1>00. PICK y \in Text : BodyWith(f, b, w, q, y)
  <2>1. b \in Nat
    BY <1>6
  <2>2. \E y \in Text : BodyWith(f, b, o[Len(f.attrs) + 2], q, y)
    BY <1>2, <1>5, <2>1, BodyGrows
  <2> QED BY <1>0, <2>2
<1>8. /\ y = frame.body \o Line /\ Len(y) <= Len(f.body) /\ Len(y) \in Nat
      /\ q + Len(prev) + LineLen = b + w + Len(y)
      /\ \A i \in 1 .. Len(y) : y[i] = f.body[i]
  BY <1>00 DEF BodyWith
<1>9. PICK k \in Nat : k = Len(y) /\ k <= v /\ q + Len(prev) + LineLen = b + w + k
  BY <1>6, <1>8
<1>10. /\ frame.name = f.name /\ frame.attrs = f.attrs /\ frame.contentlen = v
       /\ e = b + w + v
  BY <1>5, <1>6, <1>7 DEF InBody, BodyOf
<1>11. f \in FrameSent
  BY <1>6, WellFormedIs
<1>12. PICK g \in FrameObject : g = frame /\ g.name \in Commands
  BY <1>1 DEF TypeOK
<1>13. PICK h : h = [g EXCEPT !.body = y]
  OBVIOUS
<1>14. /\ h \in FrameObject /\ h.status = "body" /\ h.name = f.name /\ h.attrs = f.attrs
       /\ h.contentlen = v /\ h.body = y
  BY <1>1, <1>10, <1>12, <1>13, BodySet
<1>15. \/ v <= k /\ frame' = NoFrame /\ bucket' = Append(bucket, frame_finish(h)) /\ NextLine(1)
       \/ v > k /\ frame' = h /\ bucket' = bucket /\ NextLine(0)
  <2>1. h = [frame EXCEPT !.body = @ \o Line]
    BY <1>8, <1>12, <1>13
  <2> QED BY <1>9, <1>14, <2>1 DEF BodyLine
<1>16. PICK q2 \in Nat : q2 = b + w + k /\ q2 = q + Len(prev) + LineLen /\ q2 <= e
  <2>1. b \in Nat
    BY <1>6
  <2>2. b + w + k \in Nat /\ b + w + k <= b + w + v
    BY <1>9, <2>1
  <2> QED BY <1>9, <1>10, <2>2
<1>17. e + 1 = end /\ e <= Len(t)
  <2>1. end = b + w + v + 1
    BY <1>5, <1>6, <1>7 DEF Fits
  <2> QED BY <1>10, <2>1, Delivering
<1>18. CASE v <= k /\ frame' = NoFrame /\ bucket' = Append(bucket, frame_finish(h)) /\ NextLine(1)
  <2>1. y = f.body
    <3>1. y \in Seq(Tokens) /\ f.body \in Seq(Tokens)
      BY <1>11, FrameSentIs DEF Text
    <3>2. k = v
      BY <1>9, <1>18
    <3>3. Len(y) = Len(f.body) /\ \A i \in 1 .. Len(y) : y[i] = f.body[i]
      BY <1>6, <1>8, <1>9, <3>2
    <3> QED BY <3>1, <3>3, SeqEqual
  <2>2. PICK z : z = frame_finish(h)
    OBVIOUS
  <2>3. Done(z) /\ z.name = f.name /\ z.attrs = f.attrs /\ z.body = f.body /\ z.contentlen = v
    BY <1>12, <1>10, <1>14, <2>1, <2>2, FinishIs DEF Done
  <2>4. Content(z) = f
    BY <1>11, <2>3, ContentIs
  <2>5. Delivered(fs)' /\ Len(bucket') = n + 1
    <3>1. Done(z) /\ bucket' = Append(bucket, z)
      BY <1>18, <2>2, <2>3
    <3>2. n < Len(fs) /\ Len(fs) \in Nat /\ n = Len(bucket)
      BY <1>3, <1>5
    <3>3. Content(z) = fs[n + 1] /\ z.contentlen = Len(fs[n + 1].body)
      BY <1>4, <1>6, <2>3, <2>4
    <3> QED BY <1>2, <3>1, <3>2, <3>3, DeliverNext
  <2>6. PICK n2 \in Nat \ {0} : n2 = n + 1 /\ n2 <= Len(fs) /\ st[n2] = end
    BY <1>3, <1>4, <1>5
  <2>7. q2 = e
    BY <1>9, <1>10, <1>16, <1>18
  <2>8. /\ Received(t, base)' /\ prev' = <<>>
        /\ LineLen + 1 <= Len(Rest) => Read(base)' = q + Len(prev) + LineLen + 1
        /\ ~(LineLen + 1 <= Len(Rest)) => Read(base)' = q + Len(prev) + LineLen
    <3>1. 1 \in 0 .. 1
      OBVIOUS
    <3> QED BY <1>1, <1>2, <1>18, <3>1, MovedIs
  <2>9. CASE LineLen + 1 <= Len(Rest)
    <3>1. Read(base)' = st[n2]
      BY <1>16, <1>17, <2>6, <2>7, <2>8, <2>9
    <3>2. n2 \in Nat /\ n2 = Len(bucket')
      BY <2>5, <2>6
    <3> QED BY <1>18, <2>5, <2>6, <2>8, <3>1, <3>2, StartNext
  <2>10. CASE ~(LineLen + 1 <= Len(Rest))
    <3>1. Read(base)' = q2 /\ q2 + 1 = st[n2]
      BY <1>16, <1>17, <2>6, <2>7, <2>8, <2>10
    <3>2. n2 = Len(bucket')
      BY <2>5, <2>6
    <3> QED BY <1>18, <2>5, <2>6, <2>8, <3>1, <3>2, StartAtNul
  <2> QED BY <2>9, <2>10
<1>19. CASE v > k /\ frame' = h /\ bucket' = bucket /\ NextLine(0)
  <2>1. Received(t, base)' /\ prev' = <<>> /\ Read(base)' = q2
    <3>1. 0 \in 0 .. 1
      OBVIOUS
    <3>2. /\ Received(t, base)' /\ prev' = <<>>
          /\ LineLen + 0 <= Len(Rest) => Read(base)' = q + Len(prev) + LineLen + 0
      BY <1>1, <1>2, <1>19, <3>1, MovedIs
    <3>3. LineLen \in Nat /\ LineLen <= Len(Rest)
      BY <1>2 DEF Here
    <3>4. LineLen + 0 = LineLen /\ q2 + 0 = q2
      BY <3>3
    <3> QED BY <1>16, <3>2, <3>3, <3>4
  <2>2. InLine(t, base, q2, e)'
    BY <1>2, <1>16, <1>17, <2>1, NewLine
  <2>3. BodyOf(f)'
    BY <1>6, <1>8, <1>9, <1>14, <1>19 DEF BodyOf
  <2>4. InBody(f, b, o, q2, e)'
    BY <1>6, <1>7, <1>9, <1>10, <1>14, <1>16, <1>19, <2>3 DEF InBody
  <2>5. InFrame(fs, st, lay, q2, e)'
    BY <1>3, <1>4, <1>5, <1>19, <2>4 DEF InFrame
  <2>6. Delivered(fs)'
    BY <1>2, <1>19 DEF Delivered, Content
  <2> QED BY <2>1, <2>2, <2>5, <2>6 DEF Follows, At
<1> QED BY <1>15, <1>18, <1>19

-----------------------------------------------------------------------------
(* What RoundTrip says of the frames in the bucket. *)
Same(g, f) ==
  /\ Complete(g) => Content(g) = f
  /\ ~Complete(g) => Content(g) = [f EXCEPT !.body = g.body] /\ IsPrefix(g.body, f.body)
Faithful(b, fs) == Len(b) <= Len(fs) /\ \A i \in DOMAIN b : Same(b[i], fs[i])

Parses(fs) == \E st, lay : Sent(EncodeAll(fs), fs, st, lay) /\ Follows(EncodeAll(fs), fs, st, lay)

(* What the bucket is to the client's frames, and where prev_data may have *)
(* overflowed.                                                             *)
Carried == script # <<>> => /\ errors = 0 /\ Faithful(bucket, script)
                            /\ closed /\ ~lost => Len(bucket) = Len(script)
SpilledInBody ==
  (script # <<>> /\ spilled) => \E i \in DOMAIN script : Len(script[i].body) > LD_MAX

LEMMA RoundTripParts == ASSUME Carried, SpilledInBody PROVE RoundTrip
BY DEF RoundTrip, Carried, SpilledInBody, Faithful, Same

LEMMA DeliveredSame ==
  ASSUME NEW g, NEW f, WellFormed(f), Content(g) = f, g.contentlen = Len(f.body)
  PROVE  Same(g, f)
<1>1. Len(f.body) \in Nat
  BY WellFormedIs, FrameSentIs
<1>2. g.body = f.body
  BY DEF Content
<1>3. Complete(g)
  BY <1>1, <1>2 DEF Complete
<1> QED BY <1>3 DEF Same

LEMMA DeliveredFaithful ==
  ASSUME TypeOK, NEW t, NEW fs, NEW st, NEW lay, Sent(t, fs, st, lay), Delivered(fs)
  PROVE  Faithful(bucket, fs)
<1>1. PICK n \in Nat, L \in Nat : n = Len(bucket) /\ L = Len(fs) /\ n <= L /\ DOMAIN bucket = 1 .. n
  <2>1. Len(bucket) \in Nat /\ DOMAIN bucket = 1 .. Len(bucket)
    BY DEF TypeOK
  <2>2. Len(fs) \in Nat /\ Len(bucket) <= Len(fs)
    BY SentIs DEF Delivered
  <2> QED BY <2>1, <2>2
<1>2. ASSUME NEW i \in 1 .. n PROVE Same(bucket[i], fs[i])
  <2>1. i \in 1 .. Len(fs)
    BY <1>1
  <2>2. WellFormed(fs[i])
    BY <2>1, SentIs
  <2>3. Content(bucket[i]) = fs[i] /\ bucket[i].contentlen = Len(fs[i].body)
    BY <1>1 DEF Delivered
  <2> QED BY <2>2, <2>3, DeliveredSame
<1> QED BY <1>1, <1>2 DEF Faithful

(* Before the last frame is in the bucket the line the parser is in ends   *)
(* before the stream does.                                                 *)
LEMMA AtEnd ==
  ASSUME TypeOK, NEW t, NEW fs, NEW st, NEW lay, Sent(t, fs, st, lay),
         NEW base, NEW q, NEW e, At(t, fs, st, lay, base, q, e), ~(e < Len(t))
  PROVE  Len(bucket) = Len(fs) /\ frame = NoFrame
<1>1. PICK n \in Nat, L \in Nat \ {0} : n = Len(bucket) /\ L = Len(fs) /\ n <= L
  BY Delivering
<1>2. PICK z \in Nat : z = Len(t)
  BY SentIs
<1>3. PICK q1 \in Nat, e1 \in Nat : q1 = q /\ e1 = e /\ ~(e1 < z)
  BY <1>2, Delivering
<1>4. ASSUME n < L
      PROVE  \E f, b, o : /\ f = fs[n + 1] /\ b = st[n] /\ o = lay[n + 1]
                          /\ Fits(t, f, b, o, st[n + 1])
  BY <1>1, <1>4, FitsNext
<1>5. CASE BetweenFrames(fs, st, q, e)
  <2>1. frame = NoFrame
    BY <1>5 DEF BetweenFrames
  <2>2. CASE n < L /\ q = st[n] /\ e = q + Len(fs[n + 1].name)
    <3>1. Fits(t, fs[n + 1], st[n], lay[n + 1], st[n + 1])
      BY <1>4, <2>2
    <3>2. PICK f, o, end : f = fs[n + 1] /\ o = lay[n + 1] /\ end = st[n + 1]
      OBVIOUS
    <3>3. Fits(t, f, q1, o, end)
      BY <1>3, <2>2, <3>1, <3>2
    <3>4. PICK m \in Nat, v \in Nat, u \in Nat : m = Len(f.attrs) /\ v = Len(f.body) /\ u = Len(f.name)
      BY <3>3 DEF Fits
    <3>5. PICK x1 \in Nat, x2 \in Nat : x1 = o[1] /\ x2 = o[m + 2]
      <4>1. 1 \in 0 .. m + 2 /\ m + 2 \in 0 .. m + 2
        OBVIOUS
      <4>2. \A i \in 0 .. m + 2 : o[i] \in Nat
        BY <3>3, <3>4 DEF Fits
      <4> QED BY <4>1, <4>2
    <3>6. q1 + u + 1 = q1 + x1 /\ q1 + x1 <= q1 + x2
      <4>1. 1 \in 0 .. m + 2
        OBVIOUS
      <4> QED BY <3>3, <3>4, <3>5, <4>1 DEF Fits
    <3>7. q1 + x2 + v + 1 <= z
      BY <1>2, <3>3, <3>4, <3>5 DEF Fits
    <3>8. e1 = q1 + u
      BY <1>3, <2>2, <3>2, <3>4
    <3> QED BY <1>3, <3>6, <3>7, <3>8
  <2>3. CASE n = L
    BY <1>1, <2>1, <2>3
  <2>4. CASE n > 0 /\ q + 1 = st[n] /\ e = q
    <3>1. n \in 0 .. Len(fs)
      BY <1>1
    <3>2. PICK s \in Nat : s = st[n] /\ s <= z
      BY <1>2, <3>1, SentIs
    <3>3. q1 + 1 = s /\ e1 = q1
      BY <1>3, <2>4, <3>2
    <3> QED BY <1>3, <3>2, <3>3
  <2> QED BY <1>1, <1>5, <2>2, <2>3, <2>4 DEF BetweenFrames
<1>6. CASE InFrame(fs, st, lay, q, e)
  <2>1. n < L
    BY <1>1, <1>6 DEF InFrame
  <2>2. PICK f, o, end, b0 : f = fs[n + 1] /\ o = lay[n + 1] /\ end = st[n + 1] /\ b0 = st[n]
    OBVIOUS
  <2>3. Fits(t, f, b0, o, end) /\ (InHeader(f, b0, o, q, e) \/ InBody(f, b0, o, q, e))
    BY <1>1, <1>4, <1>6, <2>1, <2>2 DEF InFrame
  <2>4. PICK b \in Nat : b = b0
    BY <2>3 DEF Fits
  <2>5. PICK m \in Nat, v \in Nat : m = Len(f.attrs) /\ v = Len(f.body)
    BY <2>3 DEF Fits
  <2>6. PICK w \in Nat : w = o[m + 2]
    <3>1. m + 2 \in 0 .. m + 2
      OBVIOUS
    <3>2. \A i \in 0 .. m + 2 : o[i] \in Nat
      BY <2>3, <2>5 DEF Fits
    <3> QED BY <3>1, <3>2
  <2>7. b + w + v + 1 <= z /\ \A i \in 0 .. m + 2 : o[i] \in Nat /\ b + o[i] <= b + w
    BY <1>2, <2>3, <2>4, <2>5, <2>6 DEF Fits
  <2>8. ASSUME NEW i \in 0 .. m + 2, e + 1 = b + o[i] PROVE FALSE
    <3>1. PICK x \in Nat : x = o[i] /\ b + x <= b + w
      BY <2>7
    <3>2. e1 + 1 = b + x
      BY <1>3, <2>8, <3>1
    <3>3. b + w + v + 1 <= z
      BY <2>7
    <3> QED BY <1>3, <3>1, <3>2, <3>3
  <2>9. CASE InHeader(f, b, o, q, e)
    <3>1. PICK j \in 0 .. m : j = Len(frame.attrs)
      <4>1. Len(frame.attrs) \in Nat
        BY FrameLengths
      <4>2. Len(frame.attrs) <= m
        BY <2>5, <2>9 DEF InHeader, HeaderOf
      <4> QED BY <4>1, <4>2
    <3>2. j + 2 \in 0 .. m + 2 /\ 1 \in 0 .. m + 2
      OBVIOUS
    <3>3. e + 1 = b + o[j + 2] \/ e + 1 = b + o[1]
      BY <2>9, <3>1 DEF InHeader
    <3> QED BY <2>8, <3>2, <3>3
  <2>10. CASE InBody(f, b, o, q, e)
    <3>1. e1 = b + w + v
      BY <1>3, <2>5, <2>6, <2>10 DEF InBody
    <3>2. b + w + v + 1 <= z
      BY <2>7
    <3> QED BY <1>3, <3>1, <3>2
  <2> QED BY <2>3, <2>4, <2>9, <2>10
<1> QED BY <1>5, <1>6 DEF At

(* The stream has ended. *)
LEMMA StreamRead ==
  ASSUME TypeOK, NEW t, NEW fs, NEW st, NEW lay, Sent(t, fs, st, lay),
         NEW base, NEW q, NEW e, At(t, fs, st, lay, base, q, e), ~Parsing, input = <<>>, ~lost
  PROVE  Len(bucket) = Len(fs) /\ frame = NoFrame
<1>1. PICK z \in Nat, u \in Nat : z = Len(buf) /\ u = Len(t)
  <2>1. Len(buf) \in Nat
    BY DEF TypeOK, Text
  <2> QED BY <2>1, SentIs
<1>2. Len(input) = 0
  OBVIOUS
<1>3. base \in Nat /\ base + z + 0 = u
  BY <1>1, <1>2 DEF At, Received
<1>4. Read(base) = base + z
  BY <1>1 DEF Read, Parsing
<1>5. Read(base) <= e /\ e \in Nat
  BY DEF At, InLine
<1>6. ~(e < u)
  BY <1>3, <1>4, <1>5
<1> QED BY <1>1, <1>6, AtEnd

(* The frame that conn_finish() hands over is the beginning of the one the *)
(* client was sending.                                                     *)
LEMMA CutOffSame ==
  ASSUME NEW f, WellFormed(f), NEW g \in FrameObject, g = frame, BodyOf(f)
  PROVE  Same(frame_finish(g), f)
<1>1. f \in FrameSent
  BY WellFormedIs
<1>2. PICK x \in Text : x = f.body
  BY <1>1, FrameSentIs
<1>3. PICK y \in Text : y = g.body
  BY FrameFields
<1>4. PICK n \in Nat, v \in Nat : n = Len(y) /\ v = Len(x)
  BY DEF Text
<1>5. n < v /\ g.contentlen = v /\ g.name = f.name /\ g.attrs = f.attrs /\ \A i \in 1 .. n : y[i] = x[i]
  BY <1>2, <1>3, <1>4 DEF BodyOf
<1>6. PICK h : h = frame_finish(g)
  OBVIOUS
<1>7. h.name = f.name /\ h.attrs = f.attrs /\ h.contentlen = v /\ h.body = y
  BY <1>3, <1>5, <1>6, FinishIs
<1>8. ~Complete(h)
  BY <1>4, <1>5, <1>7 DEF Complete
<1>9. Content(h) = [f EXCEPT !.body = y]
  <2> HIDE DEF Text
  <2> QED BY <1>1, <1>7 DEF Content, FrameSent
<1>10. IsPrefix(y, x)
  <2>1. n <= v
    BY <1>5
  <2> QED BY <1>4, <1>5, <2>1, PrefixIs
<1>11. Same(h, f)
  BY <1>2, <1>7, <1>8, <1>9, <1>10 DEF Same
<1> QED BY <1>6, <1>11

LEMMA FaithfulAppend ==
  ASSUME TypeOK, NEW fs, Faithful(bucket, fs), NEW n \in Nat, n = Len(bucket), n < Len(fs), Len(fs) \in Nat,
         NEW g, Done(g), Same(g, fs[n + 1]), bucket' = Append(bucket, g)
  PROVE  Faithful(bucket', fs)
<1>1. PICK y : y = bucket /\ Bucket(y)
  BY BucketTyped
<1>2. PICK z : z = Append(y, g)
  OBVIOUS
<1>3. /\ Len(z) = n + 1 /\ DOMAIN z = 1 .. n + 1 /\ DOMAIN y = 1 .. n
      /\ (\A i \in 1 .. n : z[i] = y[i]) /\ z[n + 1] = g
  BY <1>1, <1>2, BucketAppend
<1>4. ASSUME NEW i \in 1 .. n + 1 PROVE Same(z[i], fs[i])
  <2>1. i \in 1 .. n \/ i = n + 1
    OBVIOUS
  <2>2. \A k \in 1 .. n : Same(y[k], fs[k])
    BY <1>1, <1>3 DEF Faithful
  <2> QED BY <1>3, <2>1, <2>2
<1>5. n + 1 <= Len(fs)
  OBVIOUS
<1>6. bucket' = z
  BY <1>1, <1>2
<1> QED BY <1>3, <1>4, <1>5, <1>6 DEF Faithful

LEMMA FinishFaithful ==
  ASSUME TypeOK, NEW fs, Parses(fs), conn_finish
  PROVE  Faithful(bucket', fs) /\ (~lost => Len(bucket') = Len(fs))
<1>1. PICK t : t = EncodeAll(fs)
  OBVIOUS
<1>2. PICK st, lay : Sent(t, fs, st, lay) /\ Follows(t, fs, st, lay)
  BY <1>1 DEF Parses
<1>3. PICK base, q, e : At(t, fs, st, lay, base, q, e)
  BY <1>2 DEF Follows
<1>4. Faithful(bucket, fs)
  BY <1>2, <1>3, DeliveredFaithful DEF At
<1>5. ~lost => Len(bucket) = Len(fs) /\ frame = NoFrame
  BY <1>2, <1>3, StreamRead DEF conn_finish
<1>6. CASE frame.status = "body"
  <2>1. PICK n \in Nat : n = Len(bucket)
    BY DEF TypeOK
  <2>2. PICK f : f = fs[n + 1]
    OBVIOUS
  <2>3. n < Len(fs) /\ WellFormed(f) /\ BodyOf(f)
    <3>1. /\ n < Len(fs) /\ Fits(t, fs[n + 1], st[n], lay[n + 1], st[n + 1])
          /\ InBody(fs[n + 1], st[n], lay[n + 1], q, e)
      BY <1>2, <1>3, <1>6, <2>1, InBodyStage
    <3> QED BY <2>2, <3>1 DEF Fits, InBody
  <2>4. PICK g \in FrameObject : g = frame /\ g.name \in Commands /\ g.contentlen > 0
    BY <1>6 DEF TypeOK
  <2>5. PICK h : h = frame_finish(g)
    OBVIOUS
  <2>6. Done(h) /\ Same(h, f) /\ bucket' = Append(bucket, h)
    <3>1. Done(h)
      BY <2>4, <2>5, FinishIs, FrameFields DEF Done
    <3>2. Same(h, f)
      BY <2>3, <2>4, <2>5, CutOffSame
    <3>3. bucket' = Append(bucket, h)
      BY <1>6, <2>4, <2>5 DEF conn_finish
    <3> QED BY <3>1, <3>2, <3>3
  <2>7. Len(fs) \in Nat
    BY <1>2, SentIs
  <2>8. Faithful(bucket', fs)
    BY <1>4, <2>1, <2>2, <2>3, <2>6, <2>7, FaithfulAppend
  <2>9. lost
    <3>1. frame # NoFrame
      BY <1>6, NoFrameIs
    <3> QED BY <1>5, <3>1
  <2> QED BY <2>8, <2>9
<1>7. CASE frame.status # "body"
  <2>1. bucket' = bucket
    BY <1>7 DEF conn_finish
  <2> QED BY <1>4, <1>5, <2>1
<1> QED BY <1>6, <1>7

LEMMA ParsesInit == ASSUME Init, NEW fs \in Scripts, fs = script, input = EncodeAll(fs) PROVE Parses(fs)
<1>1. PICK t : t = EncodeAll(fs)
  OBVIOUS
<1>2. PICK st, lay : Sent(t, fs, st, lay)
  BY <1>1, StreamIs DEF Sent
<1>3. PICK u \in Nat : u = Len(t) /\ t \in Text /\ st[0] = 0 /\ Len(fs) \in Nat \ {0}
  BY <1>2, SentIs
<1>4. buf = <<>> /\ curr = 1 /\ prev = <<>> /\ frame = NoFrame /\ bucket = <<>> /\ input = t
  BY <1>1 DEF Init
<1>5. Len(buf) = 0 /\ Len(prev) = 0 /\ Len(bucket) = 0 /\ \A i \in 1 .. 0 : FALSE
  BY <1>4
<1>6. Received(t, 0)
  <2>1. 0 + 0 + u = u /\ \A i \in 1 .. u : 0 + 0 + i = i
    OBVIOUS
  <2> QED BY <1>3, <1>4, <1>5, <2>1 DEF Received
<1>7. PICK k \in Nat : k = Len(fs[0 + 1].name) /\ k <= u
  <2>1. PICK n \in Nat : n = 0 /\ n < Len(fs)
    BY <1>3
  <2>2. Fits(t, fs[n + 1], st[n], lay[n + 1], st[n + 1])
    BY <1>2, <2>1, FitsNext
  <2>3. PICK f, o, end : f = fs[0 + 1] /\ o = lay[n + 1] /\ end = st[n + 1]
    OBVIOUS
  <2>4. Fits(t, f, 0, o, end)
    BY <1>3, <2>1, <2>2, <2>3
  <2>5. PICK m \in Nat, v \in Nat, x \in Nat : m = Len(f.attrs) /\ v = Len(f.body) /\ x = Len(f.name)
    BY <2>4 DEF Fits
  <2>6. PICK y \in Nat, w \in Nat : y = o[1] /\ w = o[m + 2]
    <3>1. 1 \in 0 .. m + 2 /\ m + 2 \in 0 .. m + 2
      OBVIOUS
    <3>2. \A i \in 0 .. m + 2 : o[i] \in Nat
      BY <2>4, <2>5 DEF Fits
    <3> QED BY <3>1, <3>2
  <2>7. 0 + x + 1 = 0 + y /\ 0 + y <= 0 + w /\ 0 + w + v + 1 <= u
    <3>1. 1 \in 0 .. m + 2
      OBVIOUS
    <3> QED BY <1>3, <2>4, <2>5, <2>6, <3>1 DEF Fits
  <2>8. x <= u
    BY <2>7
  <2> QED BY <2>3, <2>5, <2>8
<1>8. InLine(t, 0, 0, k)
  <2>1. ~(1 <= 0) /\ 0 + 0 = 0 /\ 0 <= k
    OBVIOUS
  <2>2. Read(0) = 0
    BY <1>4, <1>5, <2>1 DEF Read
  <2> QED BY <1>3, <1>5, <1>7, <2>1, <2>2 DEF InLine
<1>9. Delivered(fs) /\ BetweenFrames(fs, st, 0, k)
  <2>1. 0 < Len(fs) /\ 0 <= Len(fs) /\ 0 + k = k
    BY <1>3
  <2> QED BY <1>3, <1>4, <1>5, <1>7, <2>1 DEF Delivered, BetweenFrames
<1>10. Follows(t, fs, st, lay)
  BY <1>6, <1>8, <1>9 DEF Follows, At
<1> QED BY <1>1, <1>2, <1>10 DEF Parses

LEMMA ParsesStep ==
  ASSUME TypeOK, NEW fs, Parses(fs),
         recv_data \/ Disconnect \/ \E n \in 1 .. MaxChunk : Recv(n)
  PROVE  Parses(fs)' /\ errors' = errors
<1>1. PICK t : t = EncodeAll(fs)
  OBVIOUS
<1>2. PICK st, lay : Sent(t, fs, st, lay) /\ Follows(t, fs, st, lay)
  BY <1>1 DEF Parses
<1>3. PICK base, q, e : At(t, fs, st, lay, base, q, e)
  BY <1>2 DEF Follows
<1>4. Follows(t, fs, st, lay)' /\ errors' = errors
  <2>1. ASSUME NEW n \in 1 .. MaxChunk, Recv(n) PROVE Follows(t, fs, st, lay)' /\ errors' = errors
    <3>1. errors' = errors
      BY <2>1 DEF Recv
    <3> QED BY <1>2, <1>3, <2>1, <3>1, RecvFollows
  <2>2. CASE Disconnect
    <3>1. errors' = errors
      BY <2>2 DEF Disconnect
    <3> QED BY <1>2, <1>3, <2>2, <3>1, DisconnectFollows
  <2>3. CASE SaveTail
    <3>1. errors' = errors
      BY <2>3 DEF SaveTail
    <3> QED BY <1>2, <1>3, <2>3, <3>1, SaveTailFollows
  <2>4. CASE SkipBlank
    <3>1. errors' = errors
      BY <2>4 DEF SkipBlank
    <3> QED BY <1>2, <1>3, <2>4, <3>1, SkipBlankFollows
  <2>5. CASE frame_setname
    BY <1>2, <1>3, <2>5, SetNameFollows
  <2>6. CASE HeaderEnds
    <3>1. errors' = errors
      BY <2>6 DEF HeaderEnds
    <3> QED BY <1>2, <1>3, <2>6, <3>1, HeaderEndsFollows
  <2>7. CASE HeaderLine
    <3>1. errors' = errors
      BY <2>7 DEF HeaderLine
    <3> QED BY <1>2, <1>3, <2>7, <3>1, HeaderLineFollows
  <2>8. CASE BodyLine
    <3>1. errors' = errors
      BY <2>8 DEF BodyLine
    <3> QED BY <1>2, <1>3, <2>8, <3>1, BodyLineFollows
  <2>9. CASE Overflow
    <3>1. /\ lost' = lost /\ input' = input /\ buf' = buf /\ curr' = curr /\ prev' = prev
          /\ frame' = frame /\ bucket' = bucket /\ errors' = errors
      BY <2>9 DEF Overflow, stream, held
    <3>2. Delivered(fs)' /\ (BetweenFrames(fs, st, q, e) \/ InFrame(fs, st, lay, q, e))'
      BY <1>3, <3>1, SameStage
    <3>3. Received(t, base)' /\ InLine(t, base, q, e)'
      BY <1>3, <3>1 DEF At, Received, InLine, Read
    <3> QED BY <3>1, <3>2, <3>3 DEF Follows, At
  <2> QED BY <2>1, <2>2, <2>3, <2>4, <2>5, <2>6, <2>7, <2>8, <2>9 DEF recv_data
<1>5. Sent(t, fs, st, lay)'
  BY <1>2 DEF Sent, Stream
<1> QED BY <1>1, <1>4, <1>5 DEF Parses

LEMMA ParsesStutter ==
  ASSUME NEW fs, Parses(fs), lost' = lost, input' = input, buf' = buf, curr' = curr, prev' = prev,
         frame' = frame, bucket' = bucket
  PROVE  Parses(fs)'
<1>1. PICK t : t = EncodeAll(fs)
  OBVIOUS
<1>2. PICK st, lay : Sent(t, fs, st, lay) /\ Follows(t, fs, st, lay)
  BY <1>1 DEF Parses
<1>3. PICK base, q, e : At(t, fs, st, lay, base, q, e)
  BY <1>2 DEF Follows
<1>4. Delivered(fs)' /\ (BetweenFrames(fs, st, q, e) \/ InFrame(fs, st, lay, q, e))'
  BY <1>3, SameStage
<1>5. Received(t, base)' /\ InLine(t, base, q, e)'
  BY <1>3 DEF At, Received, InLine, Read
<1>6. Follows(t, fs, st, lay)'
  BY <1>4, <1>5 DEF Follows, At
<1>7. Sent(t, fs, st, lay)'
  BY <1>2 DEF Sent, Stream
<1> QED BY <1>1, <1>6, <1>7 DEF Parses

(* The inductive invariant: while the connection lasts the parser is       *)
(* somewhere in the client's stream; once it has ended nothing changes.    *)
ParsesScript == script # <<>> /\ ~closed => errors = 0 /\ Parses(script)
RoundTripInv == TypeOK /\ ClosedIdle /\ ParsesScript /\ (closed => Carried)

LEMMA RoundTripHolds == ASSUME RoundTripInv PROVE Carried
<1>1. SUFFICES ASSUME ~closed, script # <<>>
               PROVE  errors = 0 /\ Faithful(bucket, script)
  BY DEF RoundTripInv, Carried
<1>2. errors = 0 /\ Parses(script) /\ TypeOK
  BY <1>1 DEF RoundTripInv, ParsesScript
<1>3. PICK fs : fs = script
  OBVIOUS
<1>4. PICK t : t = EncodeAll(fs)
  OBVIOUS
<1>5. PICK st, lay : Sent(t, fs, st, lay) /\ Follows(t, fs, st, lay)
  BY <1>2, <1>3, <1>4 DEF Parses
<1>6. Delivered(fs)
  BY <1>5 DEF Follows, At
<1>7. Faithful(bucket, fs)
  BY <1>2, <1>5, <1>6, DeliveredFaithful
<1> QED BY <1>2, <1>3, <1>7

LEMMA RoundTripStep == ASSUME RoundTripInv, [Next]_vars PROVE RoundTripInv'
<1>1. TypeOK /\ ClosedIdle /\ ParsesScript /\ (closed => Carried) /\ TypeOK'
  BY TypeStep DEF RoundTripInv
<1>2. CASE UNCHANGED vars
  <2>1. /\ script' = script /\ input' = input /\ lost' = lost /\ closed' = closed /\ buf' = buf /\ curr' = curr
        /\ prev' = prev /\ frame' = frame /\ bucket' = bucket /\ errors' = errors
    BY <1>2 DEF vars, stream, held
  <2>2. ClosedIdle'
    BY <1>1, <2>1 DEF ClosedIdle, Parsing
  <2>3. closed' => Carried'
    BY <1>1, <2>1 DEF Carried
  <2>4. ParsesScript'
    <3>1. SUFFICES ASSUME script # <<>>, ~closed PROVE errors' = 0 /\ Parses(script)'
      BY <2>1 DEF ParsesScript
    <3>2. PICK fs : fs = script
      OBVIOUS
    <3>3. errors = 0 /\ Parses(fs)
      BY <1>1, <3>1, <3>2 DEF ParsesScript
    <3>4. Parses(fs)'
      BY <2>1, <3>3, ParsesStutter
    <3>5. script' = fs
      BY <2>1, <3>2
    <3> QED BY <2>1, <3>3, <3>4, <3>5
  <2> QED BY <1>1, <2>2, <2>3, <2>4 DEF RoundTripInv
<1>3. CASE conn_finish
  <2>1. ClosedIdle'
    BY <1>3 DEF conn_finish, ClosedIdle, Parsing
  <2>2. closed' /\ ~closed /\ script' = script /\ lost' = lost /\ errors' = errors
    BY <1>3 DEF conn_finish
  <2>3. Carried'
    <3>1. SUFFICES ASSUME script # <<>>
                   PROVE  /\ errors' = 0 /\ Faithful(bucket', script')
                          /\ ~lost' => Len(bucket') = Len(script')
      BY <2>2 DEF Carried
    <3>2. PICK fs : fs = script
      OBVIOUS
    <3>3. errors = 0 /\ Parses(fs)
      BY <1>1, <2>2, <3>1, <3>2 DEF ParsesScript
    <3>4. Faithful(bucket', fs) /\ (~lost => Len(bucket') = Len(fs))
      BY <1>1, <1>3, <3>3, FinishFaithful
    <3> QED BY <2>2, <3>2, <3>3, <3>4
  <2> QED BY <1>1, <2>1, <2>2, <2>3 DEF RoundTripInv, ParsesScript
<1>4. CASE recv_data \/ Disconnect \/ \E n \in 1 .. MaxChunk : Recv(n)
  <2>1. ~closed
    BY <1>1, <1>4 DEF ClosedIdle, recv_data, SaveTail, Overflow, SkipBlank, frame_setname, HeaderEnds, HeaderLine,
                      BodyLine, HasLine, Disconnect, Recv
  <2>2. closed' = closed /\ script' = script
    BY <1>4 DEF recv_data, SaveTail, Overflow, SkipBlank, frame_setname, HeaderEnds, HeaderLine,
                BodyLine, NextLine, stream, Disconnect, Recv
  <2>3. ParsesScript'
    <3>1. SUFFICES ASSUME script # <<>> PROVE errors' = 0 /\ Parses(script)'
      BY <2>2 DEF ParsesScript
    <3>2. PICK fs : fs = script
      OBVIOUS
    <3>3. errors = 0 /\ Parses(fs)
      BY <1>1, <2>1, <3>1, <3>2 DEF ParsesScript
    <3>4. Parses(fs)' /\ errors' = errors
      BY <1>1, <1>4, <3>3, ParsesStep
    <3>5. script' = fs
      BY <2>2, <3>2
    <3> QED BY <3>3, <3>4, <3>5
  <2>4. ClosedIdle'
    BY <2>1, <2>2 DEF ClosedIdle
  <2> QED BY <1>1, <2>1, <2>2, <2>3, <2>4 DEF RoundTripInv
<1> QED BY <1>2, <1>3, <1>4 DEF Next

-----------------------------------------------------------------------------
(* prev_data always has room for more than LD_MAX. *)
RoomInv == prev # <<>> => room > LD_MAX

LEMMA RoomStep == ASSUME TypeOK, RoomInv, [Next]_vars PROVE RoomInv'
<1>1. CASE SaveTail
  <2>1. PICK d \in Nat \ {0} : d = LD_MAX
    BY LimitsAssumption
  <2>2. prev \in Seq(Tokens)
    BY DEF TypeOK, Text
  <2>3. CASE prev = <<>>
    BY <1>1, <2>1, <2>3 DEF SaveTail, RoomInv
  <2>4. CASE prev # <<>>
    <3>1. PICK p \in Nat \ {0} : p = Len(prev)
      BY <2>2, <2>4, EmptySeq
    <3>2. p + d > d
      OBVIOUS
    <3> QED BY <1>1, <2>1, <2>4, <3>1, <3>2 DEF SaveTail, RoomInv
  <2> QED BY <2>3, <2>4
<1>2. CASE prev' = <<>>
  BY <1>2 DEF RoomInv
<1>3. CASE UNCHANGED held
  BY <1>3 DEF held, RoomInv
<1>4. ~SaveTail => prev' = <<>> \/ UNCHANGED held
  BY DEF Next, recv_data, Recv, Disconnect, conn_finish, Overflow, SkipBlank, frame_setname,
         HeaderEnds, HeaderLine, BodyLine, NextLine, vars
<1> QED BY <1>1, <1>2, <1>3, <1>4

(* A line that does not fit into prev_data is part of a body longer than   *)
(* LD_MAX.                                                                 *)
LEMMA OverflowIs ==
  ASSUME TypeOK, RoomInv, Overflow, NEW fs, Parses(fs)
  PROVE  \E i \in 1 .. Len(fs) : Len(fs[i].body) > LD_MAX
<1>1. PICK t : t = EncodeAll(fs)
  OBVIOUS
<1>2. PICK st, lay : Sent(t, fs, st, lay) /\ Follows(t, fs, st, lay)
  BY <1>1 DEF Parses
<1>3. PICK base, q, e : At(t, fs, st, lay, base, q, e)
  BY <1>2 DEF Follows
<1>4. Parsing
  BY DEF Overflow, HasLine
<1>5. PICK b \in BOOLEAN : b = is_body_input /\ LineOf(t, q, e, b)
  BY <1>2, <1>3, <1>4, LineOfStage
<1>6. Here(t, base, q, e)
  BY <1>2, <1>3, <1>4, HereAtStage
<1>7. PICK d \in Nat, z \in Nat : d = LD_MAX /\ z = Len(Line) /\ z > d
  <2>1. PICK d \in Nat : d = LD_MAX
    BY LimitsAssumption
  <2>5. Line \in Text
    BY <1>4, LineIs
  <2>2. PICK z \in Nat : z = Len(Line)
    BY <2>5 DEF Text
  <2>3. PICK r \in Nat : r = room
    BY DEF TypeOK
  <2>4. r > d /\ z + 1 > r
    BY <2>1, <2>2, <2>3 DEF Overflow, RoomInv
  <2>6. z > d
    BY <2>1, <2>2, <2>3, <2>4
  <2>7. \E y \in Nat : y = Len(Line) /\ y > d
    BY <2>2, <2>6
  <2> QED BY <2>1, <2>7
<1>8. PICK p \in Nat, w \in Nat : p = Len(prev) /\ w = LineLen /\ z = p + w /\ q + p + w <= e
  BY <1>6, <1>7 DEF Here
<1>9. q \in Nat /\ e \in Nat
  BY <1>5 DEF LineOf
<1>10. b = TRUE
  <2>1. ASSUME b = FALSE PROVE FALSE
    <3>1. e - q <= d
      BY <1>5, <1>7, <2>1 DEF LineOf
    <3> QED BY <1>7, <1>8, <1>9, <3>1
  <2> QED BY <2>1
<1>11. frame.status = "body"
  BY <1>5, <1>10 DEF is_body_input
<1>12. PICK n \in Nat : n = Len(bucket)
  BY DEF TypeOK
<1>13. n < Len(fs) /\ InBody(fs[n + 1], st[n], lay[n + 1], q, e)
  BY <1>2, <1>3, <1>11, <1>12, InBodyStage
<1>14. Fits(t, fs[n + 1], st[n], lay[n + 1], st[n + 1])
  BY <1>2, <1>3, <1>11, <1>12, InBodyStage
<1>15. PICK f, c, o : f = fs[n + 1] /\ c = st[n] /\ o = lay[n + 1]
  OBVIOUS
<1>16. PICK v \in Nat, k \in Nat, x \in Nat, y \in Nat :
         v = Len(f.body) /\ k = Len(frame.body) /\ x = c /\ y = o[Len(f.attrs) + 2]
  <2>1. Len(frame.body) \in Nat
    BY FrameLengths
  <2>2. Fits(t, f, c, o, st[n + 1])
    BY <1>14, <1>15
  <2>3. PICK m \in Nat : m = Len(f.attrs)
    BY <2>2 DEF Fits
  <2>4. m + 2 \in 0 .. m + 2
    OBVIOUS
  <2>5. Len(f.body) \in Nat /\ c \in Nat /\ o[m + 2] \in Nat
    BY <2>2, <2>3, <2>4 DEF Fits
  <2> QED BY <2>1, <2>3, <2>5
<1>17. q = x + y + k /\ e = x + y + v
  BY <1>13, <1>15, <1>16 DEF InBody
<1>18. v > d
  BY <1>7, <1>8, <1>9, <1>17
<1>19. Len(fs) \in Nat
  BY <1>2, SentIs
<1>20. n + 1 \in 1 .. Len(fs)
  BY <1>13, <1>19
<1> QED BY <1>7, <1>15, <1>16, <1>18, <1>20

SpillInv == RoundTripInv /\ RoomInv /\ SpilledInBody

LEMMA SpillStep == ASSUME SpillInv, [Next]_vars PROVE SpillInv'
<1>1. RoundTripInv /\ RoomInv /\ SpilledInBody /\ TypeOK
  BY DEF SpillInv, RoundTripInv
<1>2. RoundTripInv' /\ RoomInv'
  BY <1>1, RoundTripStep, RoomStep
<1>3. script' = script
  BY DEF Next, recv_data, Recv, Disconnect, conn_finish, SaveTail, Overflow, SkipBlank, frame_setname,
         HeaderEnds, HeaderLine, BodyLine, NextLine, vars, stream
<1>4. CASE Overflow
  <2>1. SUFFICES ASSUME script # <<>> PROVE \E i \in DOMAIN script : Len(script[i].body) > LD_MAX
    BY <1>2, <1>3 DEF SpillInv, SpilledInBody
  <2>2. ~closed
    BY <1>1, <1>4 DEF RoundTripInv, ClosedIdle, Overflow, HasLine
  <2>3. PICK fs : fs = script
    OBVIOUS
  <2>4. Parses(fs)
    BY <1>1, <2>1, <2>2, <2>3 DEF RoundTripInv, ParsesScript
  <2>5. \E i \in 1 .. Len(fs) : Len(fs[i].body) > LD_MAX
    BY <1>1, <1>4, <2>4, OverflowIs
  <2>6. DOMAIN fs = 1 .. Len(fs)
    <3>1. PICK t, st, lay : Sent(t, fs, st, lay)
      BY <2>4 DEF Parses
    <3> QED BY <3>1, ScriptsAssumption DEF Sent
  <2> QED BY <2>3, <2>5, <2>6
<1>5. CASE spilled' = spilled
  BY <1>1, <1>2, <1>3, <1>5 DEF SpillInv, SpilledInBody
<1>6. ~Overflow => spilled' = spilled
  BY DEF Next, recv_data, Recv, Disconnect, conn_finish, SaveTail, SkipBlank, frame_setname,
         HeaderEnds, HeaderLine, BodyLine, NextLine, vars
<1> QED BY <1>4, <1>5, <1>6

(* Wherever TCP cuts the stream of a client that sends well-formed frames, *)
(* and wherever the connection breaks, recv_data() and conn_finish() put   *)
(* into the bucket the frames the client sent, in order and unchanged, the *)
(* one that was cut off as a beginning of itself; a stream read to its end *)
(* loses no frame, and stomp_send_error() is never called.  The line that  *)
(* is put together in prev_data fits into it, unless a body is longer than *)
(* LD_MAX.                                                                 *)
THEOREM RoundTrips == Spec => []RoundTrip
<1>1. Init => SpillInv
  <2> SUFFICES ASSUME Init PROVE SpillInv
    OBVIOUS
  <2>1. TypeOK
    BY TypeInit
  <2>2. ~closed /\ ClosedIdle
    BY DEF Init, ClosedIdle
  <2>3. ParsesScript
    <3>1. SUFFICES ASSUME script # <<>> PROVE errors = 0 /\ Parses(script)
      BY DEF ParsesScript
    <3>2. PICK fs \in Scripts : fs = script /\ input = EncodeAll(fs)
      BY <3>1 DEF Init
    <3>3. Parses(fs)
      BY <3>2, ParsesInit
    <3>4. errors = 0
      BY DEF Init
    <3> QED BY <3>2, <3>3, <3>4
  <2>4. RoomInv /\ SpilledInBody
    BY DEF Init, RoomInv, SpilledInBody
  <2> QED BY <2>1, <2>2, <2>3, <2>4 DEF RoundTripInv, SpillInv
<1>2. SpillInv /\ [Next]_vars => SpillInv'
  BY SpillStep
<1>3. SpillInv => RoundTrip
  BY RoundTripHolds, RoundTripParts DEF SpillInv
<1> QED BY <1>1, <1>2, <1>3, PTL DEF Spec

=============================================================================
