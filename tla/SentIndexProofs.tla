-------------------------- MODULE SentIndexProofs ---------------------------
(***************************************************************************)
(* Proofs about the index of what was sent: while nothing happens that     *)
(* StoredOrSent names, every frame of the data file is sent or waits to    *)
(* be, and a frame that the index once stood for is restored only if the   *)
(* sizes fell short by as much as the frame.  Both compare an index, a sum *)
(* of sizes, with places in the file; so the frames get places, those in   *)
(* the list too, which are where they will be written.                     *)
(***************************************************************************)
EXTENDS PersistenceProofs

-----------------------------------------------------------------------------
(***************************************************************************)
(* What Total() adds up grows with the numbers, and with how many there    *)
(* are.                                                                    *)
(***************************************************************************)
SumsOf(f, s, L) ==
  f \in [0 .. L -> Nat] /\ f[0] = 0 /\ \A n \in 1 .. L : f[n] = f[n - 1] + s[n]

LEMMA SumsAreNat ==
  ASSUME NEW s, NEW L \in Nat, \A n \in 1 .. L : s[n] \in Nat, NEW f, Sums(f, s, L)
  PROVE  SumsOf(f, s, L)
<1>1. /\ f \in [0 .. L -> Nat] /\ f[0] = 0
      /\ \A n \in 1 .. L : f[n] = f[n - 1] + s[n]
  BY SumsNat
<1> QED BY <1>1 DEF SumsOf

LEMMA SumsOrdered ==
  ASSUME NEW a \in Nat, NEW b \in Nat, NEW c \in Nat, NEW d \in Nat, a <= b, c <= d
  PROVE  a + c <= b + d
OBVIOUS

LEMMA TotalGrows ==
  ASSUME NEW s \in Seq(Nat), NEW t \in Seq(Nat), Len(s) <= Len(t),
         \A n \in 1 .. Len(s) : s[n] <= t[n]
  PROVE  Total(s) \in Nat /\ Total(t) \in Nat /\ Total(s) <= Total(t)
<1>1. PICK K \in Nat : K = Len(s) /\ \A n \in 1 .. K : s[n] \in Nat
  OBVIOUS
<1>2. PICK L \in Nat : L = Len(t) /\ \A n \in 1 .. L : t[n] \in Nat
  OBVIOUS
<1>3. K <= L /\ \A n \in 1 .. K : s[n] <= t[n]
  BY <1>1, <1>2
<1>4. PICK f : Sums(f, s, K) /\ Total(s) = f[K]
  BY <1>1, TotalIs
<1>5. PICK g : Sums(g, t, L) /\ Total(t) = g[L]
  BY <1>2, TotalIs
<1>14. SumsOf(f, s, K) /\ SumsOf(g, t, L)
  BY <1>1, <1>2, <1>4, <1>5, SumsAreNat
<1>6. f \in [0 .. K -> Nat] /\ f[0] = 0 /\ \A n \in 1 .. K : f[n] = f[n - 1] + s[n]
  BY <1>14 DEF SumsOf
<1>7. g \in [0 .. L -> Nat] /\ g[0] = 0 /\ \A n \in 1 .. L : g[n] = g[n - 1] + t[n]
  BY <1>14 DEF SumsOf
<1> DEFINE Bad == {n \in 0 .. K : ~(f[n] <= g[n])}
<1>8. Bad = {}
  <2> SUFFICES ASSUME Bad # {} PROVE FALSE
    OBVIOUS
  <2>1. Bad \in SUBSET Nat
    OBVIOUS
  <2>2. PICK k \in Bad : \A j \in Bad : k <= j
    <3> HIDE DEF Bad
    <3> QED BY <2>1, Least
  <2>3. k \in 0 .. K /\ ~(f[k] <= g[k])
    OBVIOUS
  <2>4. k # 0
    BY <1>6, <1>7, <2>3
  <2>5. PICK j \in 0 .. K : j = k - 1 /\ ~(k <= j) /\ k \in 1 .. K /\ k \in 1 .. L /\ j \in 0 .. L
    BY <1>3, <2>3, <2>4
  <2>6. f[j] <= g[j]
    BY <2>2, <2>5
  <2>7. f[k] = f[j] + s[k] /\ g[k] = g[j] + t[k] /\ s[k] <= t[k]
    BY <1>3, <1>6, <1>7, <2>5
  <2>8. f[j] \in Nat /\ g[j] \in Nat /\ s[k] \in Nat /\ t[k] \in Nat
    BY <1>1, <1>2, <1>6, <1>7, <2>5
  <2>9. f[k] <= g[k]
    BY <2>6, <2>7, <2>8, SumsOrdered
  <2> QED BY <2>3, <2>9
<1>9. K \in 0 .. K /\ K \in 0 .. L /\ L \in 0 .. L
  BY <1>3
<1>10. f[K] <= g[K]
  BY <1>8, <1>9
<1>11. \A n \in 1 .. L : g[n - 1] <= g[n]
  <2> SUFFICES ASSUME NEW n \in 1 .. L PROVE g[n - 1] <= g[n]
    OBVIOUS
  <2>1. n - 1 \in 0 .. L /\ t[n] \in Nat /\ g[n] = g[n - 1] + t[n]
    BY <1>2, <1>7
  <2>2. g[n - 1] \in Nat
    BY <1>7, <2>1
  <2> QED BY <2>1, <2>2
<1>12. g[K] <= g[L]
  BY <1>3, <1>7, <1>9, <1>11, Nondecreasing
<1>13. f[K] \in Nat /\ g[K] \in Nat /\ g[L] \in Nat
  BY <1>6, <1>7, <1>9
<1> QED BY <1>4, <1>5, <1>10, <1>12, <1>13

(* The losses of the frames up to one, as a sequence. *)
LossOf(fr, red, j) ==
  (IF fr[j] \in {"body", "quoting"} THEN 0 ELSE 1) + (IF <<"sent", j>> \in red THEN 1 ELSE 0)
LossesOf(fr, snt, red, i) == [j \in 1 .. i |-> IF j \in snt THEN LossOf(fr, red, j) ELSE 0]
LossesTo(i) == LossesOf(frames, sent, early, i)

LEMMA LossesOfAre ==
  ASSUME NEW i \in Nat, NEW fr, NEW snt, NEW red
  PROVE  /\ LossesOf(fr, snt, red, i) \in Seq(Nat) /\ Len(LossesOf(fr, snt, red, i)) = i
         /\ \A j \in 1 .. i :
              LossesOf(fr, snt, red, i)[j] = IF j \in snt THEN LossOf(fr, red, j) ELSE 0
<1>1. \A j \in 1 .. i : LossOf(fr, red, j) \in Nat
  BY DEF LossOf
<1>2. PICK l : l = LossesOf(fr, snt, red, i)
  OBVIOUS
<1>3. l \in [1 .. i -> Nat] /\ \A j \in 1 .. i : l[j] = IF j \in snt THEN LossOf(fr, red, j) ELSE 0
  BY <1>1, <1>2 DEF LossesOf
<1>4. l \in Seq(Nat) /\ Len(l) = i
  BY <1>3
<1> QED BY <1>2, <1>3, <1>4

LEMMA LossesAre ==
  ASSUME NEW i \in Nat
  PROVE  /\ LossesTo(i) \in Seq(Nat) /\ Len(LossesTo(i)) = i /\ Shortfall(i) = Total(LossesTo(i))
         /\ \A j \in 1 .. i : LossesTo(i)[j] = IF j \in sent THEN Loss(j) ELSE 0
<1>1. PICK fr : fr = frames
  OBVIOUS
<1>2. PICK snt : snt = sent
  OBVIOUS
<1>3. PICK red : red = early
  OBVIOUS
<1>4. PICK l : l = LossesOf(fr, snt, red, i)
  OBVIOUS
<1>5. /\ l \in Seq(Nat) /\ Len(l) = i
      /\ \A j \in 1 .. i : l[j] = IF j \in snt THEN LossOf(fr, red, j) ELSE 0
  BY <1>4, LossesOfAre
<1>6. l = LossesTo(i)
  BY <1>1, <1>2, <1>3, <1>4 DEF LossesTo
<1>7. \A j : LossOf(fr, red, j) = Loss(j)
  BY <1>1, <1>3 DEF LossOf, Loss
<1>8. Shortfall(i) = Total(LossesTo(i))
  BY DEF Shortfall, LossesTo, LossesOf, Loss, LossOf
<1> QED BY <1>2, <1>5, <1>6, <1>7, <1>8

(* What is lost up to a frame is at least what is lost up to an earlier    *)
(* one, and its own loss if it was sent.                                   *)
LEMMA LossesStep ==
  ASSUME NEW fr, NEW snt, NEW red, NEW i \in Nat \ {0}, NEW j \in 0 .. i - 1, i \in snt
  PROVE  /\ Total(LossesOf(fr, snt, red, j)) \in Nat
         /\ Total(LossesOf(fr, snt, red, i)) \in Nat
         /\ Total(LossesOf(fr, snt, red, j)) + LossOf(fr, red, i) <= Total(LossesOf(fr, snt, red, i))
<1>1. PICK h \in Nat : h = i - 1 /\ h + 1 = i /\ j <= h
  OBVIOUS
<1>2. PICK s : s = LossesOf(fr, snt, red, h)
  OBVIOUS
<1>3. PICK t : t = LossesOf(fr, snt, red, i)
  OBVIOUS
<1>4. PICK r : r = LossesOf(fr, snt, red, j)
  OBVIOUS
<1>5. /\ s \in Seq(Nat) /\ Len(s) = h
      /\ \A n \in 1 .. h : s[n] = IF n \in snt THEN LossOf(fr, red, n) ELSE 0
  BY <1>2, LossesOfAre
<1>6. /\ t \in Seq(Nat) /\ Len(t) = i
      /\ \A n \in 1 .. i : t[n] = IF n \in snt THEN LossOf(fr, red, n) ELSE 0
  BY <1>3, LossesOfAre
<1>7. /\ r \in Seq(Nat) /\ Len(r) = j
      /\ \A n \in 1 .. j : r[n] = IF n \in snt THEN LossOf(fr, red, n) ELSE 0
  <2>1. j \in Nat
    OBVIOUS
  <2> QED BY <1>4, <2>1, LossesOfAre
<1>8. PICK x \in Nat : x = LossOf(fr, red, i)
  BY DEF LossOf
<1>9. \A n \in 1 .. h : n \in 1 .. i
  BY <1>1
<1>10. \A n \in 1 .. h : t[n] = s[n]
  BY <1>5, <1>6, <1>9
<1>11. \A n \in 1 .. j : n \in 1 .. h
  BY <1>1
<1>12. \A n \in 1 .. j : r[n] = s[n] /\ s[n] \in Nat
  <2>1. \A n \in 1 .. h : s[n] \in Nat
    BY <1>5
  <2>2. \A n \in 1 .. j : r[n] = s[n]
    BY <1>5, <1>7, <1>11, Zenon
  <2> QED BY <1>11, <2>1, <2>2
<1>13. i \in 1 .. i
  OBVIOUS
<1>14. t[h + 1] = x
  BY <1>1, <1>6, <1>8, <1>13
<1>15. Total(t) = Total(s) + x
  <2>1. Len(t) = Len(s) + 1 /\ t[Len(s) + 1] = x /\ \A n \in 1 .. Len(s) : t[n] = s[n]
    BY <1>1, <1>5, <1>6, <1>10, <1>14
  <2>2. s \in Seq(Nat)
    BY <1>5
  <2> QED BY <2>1, <2>2, TotalAppend
<1>16. \A n \in 1 .. j : r[n] <= s[n]
  BY <1>12
<1>17. Total(r) \in Nat /\ Total(s) \in Nat /\ Total(r) <= Total(s)
  BY <1>1, <1>5, <1>7, <1>16, TotalGrows
<1>18. Total(r) \in Nat /\ Total(t) \in Nat /\ Total(r) + x <= Total(t)
  BY <1>8, <1>15, <1>17
<1> QED BY <1>3, <1>4, <1>8, <1>18

LEMMA ShortfallStepNext ==
  ASSUME NEW i \in Nat \ {0}, NEW j \in 0 .. i - 1, i \in sent'
  PROVE  Shortfall(j)' + Loss(i)' <= Shortfall(i)' /\ Shortfall(j)' \in Nat /\ Shortfall(i)' \in Nat
<1>1. PICK fr : fr = frames'
  OBVIOUS
<1>2. PICK snt : snt = sent'
  OBVIOUS
<1>3. PICK red : red = early'
  OBVIOUS
<1>4. /\ Total(LossesOf(fr, snt, red, j)) + LossOf(fr, red, i) <= Total(LossesOf(fr, snt, red, i))
      /\ Total(LossesOf(fr, snt, red, j)) \in Nat /\ Total(LossesOf(fr, snt, red, i)) \in Nat
  BY <1>2, LossesStep
<1>5. Loss(i)' = LossOf(fr, red, i)
  BY <1>1, <1>3 DEF LossOf, Loss
<1>6. \A n : Shortfall(n)' = Total(LossesOf(fr, snt, red, n))
  BY <1>1, <1>2, <1>3 DEF Shortfall, LossesOf, Loss, LossOf
<1> QED BY <1>4, <1>5, <1>6

(* It only grows: frames stay sent, and sizes read early stay read early.  *)
Keeps(i) ==
  /\ sent \subseteq sent'
  /\ \A j \in 1 .. i : frames'[j] = frames[j]
  /\ \A j : <<"sent", j>> \in early => <<"sent", j>> \in early'

LEMMA ShortfallGrows ==
  ASSUME NEW i \in Nat, Keeps(i)
  PROVE  Shortfall(i) <= Shortfall(i)' /\ Shortfall(i) \in Nat /\ Shortfall(i)' \in Nat
<1>1. PICK s : s = LossesTo(i)
  OBVIOUS
<1>2. PICK t : t = LossesTo(i)'
  OBVIOUS
<1>3. /\ s \in Seq(Nat) /\ Len(s) = i /\ Shortfall(i) = Total(s)
      /\ \A n \in 1 .. i : s[n] = IF n \in sent THEN Loss(n) ELSE 0
  BY <1>1, LossesAre
<1>4. /\ t \in Seq(Nat) /\ Len(t) = i /\ Shortfall(i)' = Total(t)
      /\ \A n \in 1 .. i : t[n] = IF n \in sent' THEN Loss(n)' ELSE 0
  <2>1. PICK fr : fr = frames'
    OBVIOUS
  <2>2. PICK snt : snt = sent'
    OBVIOUS
  <2>3. PICK red : red = early'
    OBVIOUS
  <2>4. t = LossesOf(fr, snt, red, i)
    BY <1>2, <2>1, <2>2, <2>3 DEF LossesTo
  <2>5. /\ t \in Seq(Nat) /\ Len(t) = i
        /\ \A n \in 1 .. i : t[n] = IF n \in snt THEN LossOf(fr, red, n) ELSE 0
    BY <2>4, LossesOfAre
  <2>6. \A n : LossOf(fr, red, n) = Loss(n)'
    BY <2>1, <2>3 DEF LossOf, Loss
  <2>7. Shortfall(i)' = Total(t)
    BY <1>2 DEF Shortfall, LossesTo, LossesOf, Loss, LossOf
  <2> QED BY <2>2, <2>5, <2>6, <2>7
<1>5. ASSUME NEW n \in 1 .. i PROVE s[n] <= t[n]
  <2>1. Loss(n) \in Nat /\ Loss(n)' \in Nat /\ Loss(n) <= Loss(n)'
    BY DEF Keeps, Loss
  <2>2. s[n] = (IF n \in sent THEN Loss(n) ELSE 0) /\ t[n] = (IF n \in sent' THEN Loss(n)' ELSE 0)
    BY <1>3, <1>4
  <2>3. n \in sent => n \in sent'
    BY DEF Keeps
  <2> QED BY <2>1, <2>2, <2>3
<1>6. \A n \in 1 .. Len(s) : s[n] <= t[n]
  BY <1>3, <1>5
<1>7. Len(s) <= Len(t)
  BY <1>3, <1>4
<1>8. Total(s) <= Total(t) /\ Total(s) \in Nat /\ Total(t) \in Nat
  BY <1>3, <1>4, <1>6, <1>7, TotalGrows
<1> QED BY <1>3, <1>4, <1>8

-----------------------------------------------------------------------------
(***************************************************************************)
(* The length of what is written of a frame, and what its size may be.     *)
(***************************************************************************)
Span(i) == Len(Written(i))
Uncounted(kind) == IF kind \in {"body", "quoting"} THEN 0 ELSE 1

LEMMA SpanIs ==
  ASSUME frames \in Seq(Kinds), NEW i \in DOMAIN frames
  PROVE  /\ Span(i) = Len(Units(frames[i])) /\ Span(i) \in Nat \ {0}
         /\ FullSize(frames[i]) + Uncounted(frames[i]) = Span(i)
         /\ FullSize(frames[i]) \in Nat /\ Uncounted(frames[i]) \in Nat
<1>1. PICK k : k = frames[i]
  OBVIOUS
<1>2. k \in {"body", "empty", "reply", "quoting"}
  BY <1>1, KindOf
<1>3. Len(Units(k)) \in Nat /\ DOMAIN Units(k) = 1 .. Len(Units(k))
  BY <1>2, UnitsAre
<1>4. PICK L \in Nat : L = Len(Units(k))
  BY <1>3
<1>5. Span(i) = L
  <2>1. PICK w : w = Written(i)
    OBVIOUS
  <2>2. w = [n \in 1 .. L |-> [frame |-> i, unit |-> Units(k)[n]]]
    BY <1>1, <1>3, <1>4, <2>1 DEF Written
  <2>3. PICK U : U = {w[n] : n \in 1 .. L}
    OBVIOUS
  <2>4. w \in [1 .. L -> U]
    BY <2>2, <2>3
  <2>5. Len(w) = L
    BY <2>4
  <2> QED BY <2>1, <2>5 DEF Span
<1>6. /\ k = "body" => L = 5
      /\ k = "empty" => L = 4
      /\ k = "reply" => L = 7
      /\ k = "quoting" => L = 6
  BY <1>4 DEF Units
<1>8. L # 0
  BY <1>2, <1>6
<1>7. /\ k = "body" => FullSize(k) = 5 /\ Uncounted(k) = 0
      /\ k = "empty" => FullSize(k) = 3 /\ Uncounted(k) = 1
      /\ k = "reply" => FullSize(k) = 6 /\ Uncounted(k) = 1
      /\ k = "quoting" => FullSize(k) = 6 /\ Uncounted(k) = 0
  BY DEF FullSize, Uncounted
<1>9. FullSize(k) + Uncounted(k) = L /\ FullSize(k) \in Nat /\ Uncounted(k) \in Nat
  BY <1>2, <1>6, <1>7
<1> QED BY <1>1, <1>4, <1>5, <1>8, <1>9

(* A frame stays what it is. *)
LEMMA SpanSame ==
  ASSUME NEW i, frames'[i] = frames[i]
  PROVE  Span(i)' = Span(i)
BY DEF Span, Written

-----------------------------------------------------------------------------
(***************************************************************************)
(* Where the frames are.  A function gives every frame of the file, and    *)
(* every frame that waits in the list, the number of units before it; end  *)
(* is where the next one will go.  When the daemon stops, nothing of the   *)
(* list is written any more.                                               *)
(***************************************************************************)
Awaited == IF phase = "stopping" THEN {} ELSE Range(listed)
Placed == InFile \cup Awaited

UnitsAt(at) ==
  \A n \in DOMAIN data :
    /\ data[n].frame \in InFile
    /\ at[data[n].frame] < n /\ n <= at[data[n].frame] + Span(data[n].frame)
    /\ data[n].unit = Units(frames[data[n].frame])[n - at[data[n].frame]]
WholeAt(at) ==
  \A k \in InFile : /\ at[k] + Span(k) <= Len(data)
                    /\ \A u \in 1 .. Span(k) : data[at[k] + u].frame = k
ApartAt(at) == \A j, k \in Placed : j < k => at[j] + Span(j) <= at[k]

(* What parse_frame() does with a frame of each kind: it has counted and   *)
(* finished it after so many units, is in its body after so many, and      *)
(* knows the content-length after so many.                                 *)
RestoredSize(kind) ==
  CASE kind = "body" -> 5 [] kind = "empty" -> 3 [] kind = "reply" -> 7 [] kind = "quoting" -> 6
HeaderSize(kind) == IF kind \in {"reply", "quoting"} THEN 4 ELSE 3
LengthAt(kind) == IF kind = "quoting" THEN 3 ELSE 2

LEMMA UnitTable ==
  ASSUME NEW kind \in {"body", "empty", "reply", "quoting"}
  PROVE  /\ RestoredSize(kind) \in Nat /\ HeaderSize(kind) \in Nat /\ LengthAt(kind) \in Nat
         /\ 1 < LengthAt(kind) /\ LengthAt(kind) < HeaderSize(kind)
         /\ RestoredSize(kind) <= Len(Units(kind)) /\ RestoredSize(kind) <= FullSize(kind) + 1
         /\ FullSize(kind) <= RestoredSize(kind)
         /\ 3 <= HeaderSize(kind) /\ HeaderSize(kind) <= RestoredSize(kind)
         /\ contentlen(kind) \in {0, 1}
         /\ contentlen(kind) = 0 <=> HeaderSize(kind) = RestoredSize(kind)
         /\ contentlen(kind) = 1 => HeaderSize(kind) + 2 <= RestoredSize(kind)
<1>1. CASE kind = "body"
  BY <1>1 DEF RestoredSize, HeaderSize, LengthAt, contentlen, FullSize, Units
<1>2. CASE kind = "empty"
  BY <1>2 DEF RestoredSize, HeaderSize, LengthAt, contentlen, FullSize, Units
<1>3. CASE kind = "reply"
  BY <1>3 DEF RestoredSize, HeaderSize, LengthAt, contentlen, FullSize, Units
<1>4. CASE kind = "quoting"
  BY <1>4 DEF RestoredSize, HeaderSize, LengthAt, contentlen, FullSize, Units
<1> QED BY <1>1, <1>2, <1>3, <1>4

LEMMA UnitNext ==
  ASSUME NEW kind \in {"body", "empty", "reply", "quoting"}, NEW u \in Nat, 1 <= u, u < RestoredSize(kind)
  PROVE  /\ u + 1 < HeaderSize(kind) => Units(kind)[u + 1] \notin {"nl", "nul"}
         /\ u + 1 < HeaderSize(kind) => (Units(kind)[u + 1] = "header" <=> u + 1 = LengthAt(kind))
         /\ u + 1 = HeaderSize(kind) => Units(kind)[u + 1] = "nl"
         /\ u >= HeaderSize(kind) /\ u + 1 < RestoredSize(kind) => Units(kind)[u + 1] # "nul"
         /\ u >= HeaderSize(kind) /\ u + 1 = RestoredSize(kind) => Units(kind)[u + 1] = "nul"
<1>1. CASE kind = "body"
  <2>1. u \in {1, 2, 3, 4} /\ RestoredSize(kind) = 5 /\ HeaderSize(kind) = 3 /\ LengthAt(kind) = 2
    BY <1>1 DEF RestoredSize, HeaderSize, LengthAt
  <2>2. Units(kind) = <<"name", "header", "nl", "body", "nul">>
    BY <1>1 DEF Units
  <2> QED BY <2>1, <2>2
<1>2. CASE kind = "empty"
  <2>1. u \in {1, 2} /\ RestoredSize(kind) = 3 /\ HeaderSize(kind) = 3 /\ LengthAt(kind) = 2
    BY <1>2 DEF RestoredSize, HeaderSize, LengthAt
  <2>2. Units(kind) = <<"name", "header", "nl", "nul">>
    BY <1>2 DEF Units
  <2> QED BY <2>1, <2>2
<1>3. CASE kind = "reply"
  <2>1. u \in {1, 2, 3, 4, 5, 6} /\ RestoredSize(kind) = 7 /\ HeaderSize(kind) = 4 /\ LengthAt(kind) = 2
    BY <1>3 DEF RestoredSize, HeaderSize, LengthAt
  <2>2. Units(kind) = <<"name", "header", "id", "nl", "nl", "body", "nul">>
    BY <1>3 DEF Units
  <2> QED BY <2>1, <2>2
<1>4. CASE kind = "quoting"
  <2>1. u \in {1, 2, 3, 4, 5} /\ RestoredSize(kind) = 6 /\ HeaderSize(kind) = 4 /\ LengthAt(kind) = 3
    BY <1>4 DEF RestoredSize, HeaderSize, LengthAt
  <2>2. Units(kind) = <<"name", "hcmd", "header", "nl", "bcmd", "nul">>
    BY <1>4 DEF Units
  <2> QED BY <2>1, <2>2
<1> QED BY <1>1, <1>2, <1>3, <1>4

(* What comes behind the end that the parser sees is no line at all. *)
LEMMA UnitAfter ==
  ASSUME NEW kind \in {"body", "empty", "reply", "quoting"}, NEW u \in 1 .. Len(Units(kind)),
         RestoredSize(kind) < u
  PROVE  Units(kind)[u] = "nul"
<1>1. CASE kind = "body"
  BY <1>1 DEF RestoredSize, Units
<1>2. CASE kind = "empty"
  <2>1. RestoredSize(kind) = 3 /\ Units(kind) = <<"name", "header", "nl", "nul">>
    BY <1>2 DEF RestoredSize, Units
  <2>2. u = 4
    BY <2>1
  <2> QED BY <2>1, <2>2
<1>3. CASE kind = "reply"
  BY <1>3 DEF RestoredSize, Units
<1>4. CASE kind = "quoting"
  BY <1>4 DEF RestoredSize, Units
<1> QED BY <1>1, <1>2, <1>3, <1>4

(* The parser has read u units of frame k. *)
InFrame(p, k, u) ==
  /\ p.len = IF u < LengthAt(frames[k]) THEN -1 ELSE contentlen(frames[k])
  /\ p.frame = k /\ p.size = u
  /\ p.status = IF u < HeaderSize(frames[k]) THEN "header" ELSE "body"
  /\ p.has = IF u < HeaderSize(frames[k]) THEN 0 ELSE u - HeaderSize(frames[k])
(* It has finished frame k. *)
FinishedWith(r, p, k, u) ==
  /\ r \in ParserSet /\ r.status = "born"
  /\ \E y \in FoundSet : y.frame = k /\ y.size = u /\ r.out = Append(p.out, y)

LEMMA FinishIs ==
  ASSUME NEW p \in ParserSet, NEW k \in DOMAIN frames, NEW u \in Nat, p.frame = k, p.size = u
  PROVE  FinishedWith(frame_finish(p), p, k, u + 1)
<1>1. PICK y : y = [frame |-> p.frame, size |-> p.size + 1, has |-> p.has]
  OBVIOUS
<1>2. p.has \in Nat /\ p.out \in Seq(FoundSet)
  BY ParserFields
<1>3. y \in FoundSet /\ y.frame = k /\ y.size = u + 1
  BY <1>1, <1>2 DEF FoundSet
<1>4. PICK r : r = frame_finish(p)
  OBVIOUS
<1>5. PICK o : o = Append(p.out, y)
  OBVIOUS
<1>6. r = Born(o)
  BY <1>1, <1>4, <1>5 DEF frame_finish
<1>7. o \in Seq(FoundSet)
  BY <1>2, <1>3, <1>5, AppendIs
<1>8. r \in ParserSet /\ r.status = "born" /\ r.out = o
  BY <1>6, <1>7, BornIs
<1> QED BY <1>3, <1>4, <1>5, <1>8 DEF FinishedWith

(* One more unit of the frame it is in. *)
LEMMA InFrameStep ==
  ASSUME frames \in Seq(Kinds), NEW k \in DOMAIN frames, NEW p \in ParserSet, NEW v \in FileUnit,
         NEW u \in Nat, 1 <= u, u < RestoredSize(frames[k]), InFrame(p, k, u),
         v.frame = k, v.unit = Units(frames[k])[u + 1]
  PROVE  IF u + 1 < RestoredSize(frames[k])
         THEN /\ frame_update(p, v) \in ParserSet /\ frame_update(p, v).out = p.out
              /\ InFrame(frame_update(p, v), k, u + 1)
         ELSE FinishedWith(frame_update(p, v), p, k, u + 1)
<1>1. PICK c \in {"body", "empty", "reply", "quoting"} : c = frames[k]
  BY KindOf
<1>2. PICK h \in Nat : h = HeaderSize(c)
  BY UnitTable
<1>3. PICK z \in Nat : z = RestoredSize(c)
  BY UnitTable
<1>4. /\ 3 <= h /\ h <= z /\ contentlen(c) \in {0, 1} /\ (contentlen(c) = 0 <=> h = z)
      /\ contentlen(c) = 1 => h + 2 <= z
  BY <1>2, <1>3, UnitTable
<1>5. u < z
  BY <1>1, <1>3
<1>14. PICK g \in Nat : g = LengthAt(c) /\ g < h
  BY <1>2, UnitTable
<1>6. /\ u + 1 < h => v.unit \notin {"nl", "nul"}
      /\ u + 1 < h => (v.unit = "header" <=> u + 1 = g)
      /\ u + 1 = h => v.unit = "nl"
      /\ u >= h /\ u + 1 < z => v.unit # "nul"
      /\ u >= h /\ u + 1 = z => v.unit = "nul"
  BY <1>1, <1>2, <1>3, <1>14, UnitNext
<1>7. /\ p.frame = k /\ p.size = u /\ p.status = (IF u < h THEN "header" ELSE "body")
      /\ p.has = (IF u < h THEN 0 ELSE u - h)
      /\ p.len = IF u < g THEN -1 ELSE contentlen(c)
  BY <1>1, <1>2, <1>14 DEF InFrame
<1>15. Common(p, v) = k /\ contentlen(frames[v.frame]) = contentlen(c)
  BY <1>1, <1>7 DEF Common
<1>16. k \in {0} \cup DOMAIN frames
  OBVIOUS
<1>8. PICK r : r = frame_update(p, v)
  OBVIOUS
<1>9. CASE u + 1 < h
  <2>1. p.status = "header" /\ p.has = 0 /\ u + 1 < z
    BY <1>4, <1>7, <1>9
  <2>5. PICK l \in {-1, 0, 1} : l = IF u + 1 < g THEN -1 ELSE contentlen(c)
    BY <1>4
  <2>6. l = IF v.unit = "header" THEN contentlen(frames[v.frame]) ELSE p.len
    <3>1. u < g <=> (u + 1 < g \/ u + 1 = g)
      BY <1>14
    <3>2. ~(u + 1 = g /\ u + 1 < g)
      BY <1>14
    <3> QED BY <1>6, <1>7, <1>9, <1>15, <2>5, <3>1, <3>2
  <2>2. r = Grown(p, k, l)
    BY <1>6, <1>8, <1>9, <1>15, <2>1, <2>6 DEF frame_update, ParseHeader, Grown
  <2>3. /\ r \in ParserSet /\ r.status = p.status /\ r.frame = k /\ r.has = p.has /\ r.len = l
        /\ r.out = p.out /\ r.size = p.size + 1
    BY <1>16, <2>2, AddUnit
  <2>4. InFrame(r, k, u + 1)
    BY <1>1, <1>2, <1>7, <1>9, <1>14, <2>1, <2>3, <2>5 DEF InFrame
  <2> QED BY <1>1, <1>3, <1>8, <2>1, <2>3, <2>4
<1>10. CASE u + 1 = h /\ contentlen(c) = 0
  <2>1. p.status = "header" /\ u + 1 = z /\ p.len = 0
    BY <1>4, <1>7, <1>10, <1>14
  <2>2. r = frame_finish(p)
    BY <1>1, <1>6, <1>7, <1>8, <1>10, <2>1 DEF frame_update, ParseHeader
  <2>3. FinishedWith(r, p, k, u + 1)
    BY <1>7, <2>2, FinishIs
  <2> QED BY <1>1, <1>3, <1>8, <2>1, <2>3
<1>11. CASE u + 1 = h /\ contentlen(c) = 1
  <2>1. p.status = "header" /\ p.has = 0 /\ u + 1 < z /\ p.len = 1 /\ ~(u + 1 < g)
    BY <1>4, <1>7, <1>11, <1>14
  <2>2. r = [p EXCEPT !.status = "body", !.size = @ + 1]
    BY <1>1, <1>6, <1>7, <1>8, <1>11, <2>1 DEF frame_update, ParseHeader
  <2>3. /\ r \in ParserSet /\ r.status = "body" /\ r.frame = p.frame /\ r.has = p.has
        /\ r.len = p.len /\ r.out = p.out /\ r.size = p.size + 1
    BY <2>2, BodyBegins
  <2>4. InFrame(r, k, u + 1)
    BY <1>1, <1>2, <1>7, <1>11, <1>14, <2>1, <2>3 DEF InFrame
  <2> QED BY <1>1, <1>3, <1>8, <2>1, <2>3, <2>4
<1>12. CASE u >= h /\ u + 1 < z
  <2>1. p.status = "body" /\ p.has = u - h
    BY <1>7, <1>12
  <2>2. r = LongerBody(p, k)
    BY <1>6, <1>8, <1>12, <1>15, <2>1 DEF frame_update, ParseBody, LongerBody
  <2>3. /\ r \in ParserSet /\ r.status = p.status /\ r.frame = k /\ r.has = p.has + 1
        /\ r.len = p.len /\ r.out = p.out /\ r.size = p.size + 1
    BY <1>16, <2>2, BodyGrows
  <2>4. r.has = (u + 1) - h /\ ~(u + 1 < h) /\ ~(u + 1 < g) /\ ~(u < g)
    BY <1>12, <1>14, <2>1, <2>3
  <2>5. InFrame(r, k, u + 1)
    BY <1>1, <1>2, <1>7, <1>14, <2>1, <2>3, <2>4 DEF InFrame
  <2> QED BY <1>1, <1>3, <1>8, <1>12, <2>3, <2>5
<1>13. CASE u >= h /\ u + 1 = z
  <2>1. p.status = "body" /\ p.has = u - h /\ contentlen(c) = 1 /\ u - h >= 1
    BY <1>4, <1>7, <1>13
  <2>2. p.has >= p.len
    <3>1. ~(u < g)
      BY <1>13, <1>14
    <3> QED BY <1>7, <2>1, <3>1
  <2>3. r = frame_finish(p)
    BY <1>6, <1>8, <1>13, <2>1, <2>2 DEF frame_update, ParseBody
  <2>4. FinishedWith(r, p, k, u + 1)
    BY <1>7, <2>3, FinishIs
  <2> QED BY <1>1, <1>3, <1>8, <1>13, <2>4
<1> QED BY <1>4, <1>5, <1>9, <1>10, <1>11, <1>12, <1>13

-----------------------------------------------------------------------------
(***************************************************************************)
(* The parser begins behind unit x of the file, and has read up to unit n: *)
(* it has found the frames that begin behind x and are finished by then,   *)
(* in order, and is inside of the one that unit n belongs to.              *)
(***************************************************************************)
SizeRestored(k) == RestoredSize(frames[k])
Finds(k, at, x, n) == x <= at[k] /\ at[k] + SizeRestored(k) <= n
FoundPlaced(out, at, x, n) ==
  \A e \in DOMAIN out : /\ out[e].frame \in InFile /\ Finds(out[e].frame, at, x, n)
                        /\ out[e].size = SizeRestored(out[e].frame)
FoundAll(out, at, x, n) ==
  \A k \in InFile : Finds(k, at, x, n) => \E e \in DOMAIN out : out[e].frame = k
FoundGrows(out) == \A d, e \in DOMAIN out : d < e => out[d].frame < out[e].frame
FoundTo(out, at, x, n) == FoundPlaced(out, at, x, n) /\ FoundAll(out, at, x, n) /\ FoundGrows(out)
Tracks(p, at, x, n) ==
  /\ p \in ParserSet /\ FoundTo(p.out, at, x, n)
  /\ n = x => p.status = "born"
  /\ n > x => IF x <= at[data[n].frame] /\ n - at[data[n].frame] < SizeRestored(data[n].frame)
              THEN InFrame(p, data[n].frame, n - at[data[n].frame])
              ELSE p.status = "born"

LEMMA RestoredIs ==
  ASSUME Inv, NEW k \in InFile
  PROVE  /\ k \in DOMAIN frames /\ k \in Ids /\ k \in Nat
         /\ Span(k) \in Nat \ {0} /\ SizeRestored(k) \in Nat /\ 3 <= SizeRestored(k) /\ SizeRestored(k) <= Span(k)
<1>1. k \in DOMAIN frames /\ frames \in Seq(Kinds)
  BY InFileKnown DEF Inv, TypeOK
<1>2. frames[k] \in {"body", "empty", "reply", "quoting"} /\ k \in Nat
  BY <1>1, KindOf
<1>3. Span(k) = Len(Units(frames[k])) /\ Span(k) \in Nat \ {0}
  BY <1>1, SpanIs
<1>4. PICK c \in {"body", "empty", "reply", "quoting"} : c = frames[k]
  BY <1>2
<1>5. /\ RestoredSize(c) \in Nat /\ RestoredSize(c) <= Len(Units(c)) /\ 3 <= HeaderSize(c)
      /\ HeaderSize(c) \in Nat /\ HeaderSize(c) <= RestoredSize(c)
  BY UnitTable
<1>6. 3 <= RestoredSize(c)
  BY <1>5
<1> QED BY <1>1, <1>2, <1>3, <1>4, <1>5, <1>6, FramesInIds DEF Inv, SizeRestored

(* Nothing is found at a unit that finishes no frame, ... *)
LEMMA FoundSame ==
  ASSUME Inv, NEW at \in [Ids -> Nat], WholeAt(at), NEW x \in Nat, NEW n \in Nat,
         NEW out, FoundTo(out, at, x, n),
         ~Finds(data[n + 1].frame, at, x, n + 1) \/ Finds(data[n + 1].frame, at, x, n)
  PROVE  FoundTo(out, at, x, n + 1)
<1>1. \A k \in InFile : at[k] \in Nat /\ SizeRestored(k) \in Nat
  BY RestoredIs
<1>2. FoundPlaced(out, at, x, n + 1)
  <2> SUFFICES ASSUME NEW e \in DOMAIN out
               PROVE  /\ out[e].frame \in InFile /\ Finds(out[e].frame, at, x, n + 1)
                      /\ out[e].size = SizeRestored(out[e].frame)
    BY DEF FoundPlaced
  <2>1. PICK k : k = out[e].frame
    OBVIOUS
  <2>2. k \in InFile /\ Finds(k, at, x, n) /\ out[e].size = SizeRestored(k)
    BY <2>1 DEF FoundTo, FoundPlaced
  <2>3. Finds(k, at, x, n + 1)
    BY <1>1, <2>2 DEF Finds
  <2> QED BY <2>1, <2>2, <2>3
<1>3. FoundAll(out, at, x, n + 1)
  <2> SUFFICES ASSUME NEW k \in InFile, Finds(k, at, x, n + 1)
               PROVE  \E e \in DOMAIN out : out[e].frame = k
    BY DEF FoundAll
  <2>1. CASE Finds(k, at, x, n)
    BY <2>1 DEF FoundTo, FoundAll
  <2>2. CASE ~Finds(k, at, x, n)
    <3>1. at[k] + SizeRestored(k) = n + 1
      BY <1>1, <2>2 DEF Finds
    <3>2. SizeRestored(k) \in 1 .. Span(k)
      <4>1. PICK sp \in Nat : sp = Span(k) /\ 3 <= SizeRestored(k) /\ SizeRestored(k) <= sp /\ SizeRestored(k) \in Nat
        BY RestoredIs
      <4> QED BY <4>1
    <3>3. data[at[k] + SizeRestored(k)].frame = k
      BY <3>2 DEF WholeAt
    <3>4. data[n + 1].frame = k
      BY <3>1, <3>3
    <3> QED BY <2>1, <2>2, <3>4
  <2> QED BY <2>1, <2>2
<1> QED BY <1>2, <1>3 DEF FoundTo

LEMMA JustReached ==
  ASSUME NEW a \in Nat, NEW z \in Nat, NEW n \in Nat, a + z <= n + 1, ~(a + z <= n)
  PROVE  a + z = n + 1
OBVIOUS

LEMMA NotBefore ==
  ASSUME NEW a \in Nat, NEW z \in Nat, NEW sp \in Nat, NEW n \in Nat, NEW b \in Nat, NEW y \in Nat,
         a + z = n + 1, z <= sp, b + y <= n
  PROVE  ~(a + sp <= b)
OBVIOUS

(* ... and one frame is found at a unit that does. *)
LEMMA FoundOne ==
  ASSUME Inv, NEW at \in [Ids -> Nat], WholeAt(at), ApartAt(at), NEW x \in Nat, NEW n \in Nat,
         NEW out \in Seq(FoundSet), FoundTo(out, at, x, n), NEW k \in InFile,
         x <= at[k], at[k] + SizeRestored(k) = n + 1,
         NEW y \in FoundSet, y.frame = k, y.size = SizeRestored(k)
  PROVE  FoundTo(Append(out, y), at, x, n + 1)
<1>1. \A j \in InFile : at[j] \in Nat /\ SizeRestored(j) \in Nat /\ Span(j) \in Nat /\ SizeRestored(j) <= Span(j)
                        /\ j \in Nat /\ 3 <= SizeRestored(j)
  BY RestoredIs
<1>2. PICK t : t = Append(out, y)
  OBVIOUS
<1>3. /\ t \in Seq(FoundSet) /\ Len(out) \in Nat /\ DOMAIN out = 1 .. Len(out)
      /\ DOMAIN t = 1 .. Len(out) + 1
      /\ \A e \in 1 .. Len(out) : t[e] = out[e]
      /\ t[Len(out) + 1] = y
  BY <1>2, AppendIs
<1>4. PICK L \in Nat : L = Len(out)
  BY <1>3
<1>5. /\ \A e \in 1 .. L : e \in DOMAIN t /\ e \in DOMAIN out /\ t[e] = out[e]
      /\ L + 1 \in DOMAIN t /\ t[L + 1] = y /\ \A e \in DOMAIN t : e \in 1 .. L \/ e = L + 1
      /\ \A e \in DOMAIN t : e \in Nat
  BY <1>3, <1>4
<1>6. Finds(k, at, x, n + 1)
  BY DEF Finds
<1>7. \A j \in InFile : Finds(j, at, x, n) => Finds(j, at, x, n + 1)
  BY <1>1 DEF Finds
<1>8. FoundPlaced(t, at, x, n + 1)
  <2> SUFFICES ASSUME NEW e \in DOMAIN t
               PROVE  /\ t[e].frame \in InFile /\ Finds(t[e].frame, at, x, n + 1)
                      /\ t[e].size = SizeRestored(t[e].frame)
    BY DEF FoundPlaced
  <2>1. CASE e = L + 1
    BY <1>5, <1>6, <2>1
  <2>2. CASE e \in 1 .. L
    BY <1>5, <1>7, <2>2 DEF FoundTo, FoundPlaced
  <2> QED BY <1>5, <2>1, <2>2
<1>9. FoundAll(t, at, x, n + 1)
  <2> SUFFICES ASSUME NEW j \in InFile, Finds(j, at, x, n + 1)
               PROVE  \E e \in DOMAIN t : t[e].frame = j
    BY DEF FoundAll
  <2>1. CASE Finds(j, at, x, n)
    <3>1. PICK e \in DOMAIN out : out[e].frame = j
      BY <2>1 DEF FoundTo, FoundAll
    <3>2. e \in 1 .. L
      BY <1>3, <1>4
    <3> QED BY <1>5, <3>1, <3>2
  <2>2. CASE ~Finds(j, at, x, n)
    <3>1. at[j] + SizeRestored(j) = n + 1
      <4>1. at[j] + SizeRestored(j) <= n + 1 /\ ~(at[j] + SizeRestored(j) <= n)
        BY <2>2 DEF Finds
      <4>2. PICK a \in Nat : a = at[j]
        BY <1>1
      <4>3. PICK z \in Nat : z = SizeRestored(j)
        BY <1>1
      <4>4. a + z = n + 1
        BY <4>1, <4>2, <4>3, JustReached
      <4> QED BY <4>2, <4>3, <4>4
    <3>2. SizeRestored(j) \in 1 .. Span(j) /\ SizeRestored(k) \in 1 .. Span(k)
      BY <1>1
    <3>3. data[at[j] + SizeRestored(j)].frame = j /\ data[at[k] + SizeRestored(k)].frame = k
      BY <3>2 DEF WholeAt
    <3>4. j = k
      BY <3>1, <3>3
    <3> QED BY <1>5, <3>4
  <2> QED BY <2>1, <2>2
<1>10. \A e \in DOMAIN out : out[e].frame < k
  <2> SUFFICES ASSUME NEW e \in DOMAIN out PROVE out[e].frame < k
    OBVIOUS
  <2>1. PICK j : j = out[e].frame
    OBVIOUS
  <2>2. j \in InFile /\ Finds(j, at, x, n)
    BY <2>1 DEF FoundTo, FoundPlaced
  <2>3. at[j] + SizeRestored(j) <= n
    BY <2>2 DEF Finds
  <2>4. j # k
    <3> SUFFICES ASSUME j = k PROVE FALSE
      OBVIOUS
    <3>1. at[k] + SizeRestored(k) <= n
      BY <2>3
    <3> QED BY <3>1
  <2>5. k < j => at[k] + Span(k) <= at[j]
    BY <2>2 DEF ApartAt, Placed
  <2>6. ~(k < j)
    BY <1>1, <2>2, <2>3, <2>5, NotBefore
  <2>7. j \in Nat /\ k \in Nat
    BY <1>1, <2>2
  <2> QED BY <2>1, <2>4, <2>6, <2>7
<1>11. FoundGrows(t)
  <2> SUFFICES ASSUME NEW d \in DOMAIN t, NEW e \in DOMAIN t, d < e
               PROVE  t[d].frame < t[e].frame
    BY DEF FoundGrows
  <2>1. CASE e \in 1 .. L
    <3>1. d \in 1 .. L
      BY <1>5, <2>1
    <3> QED BY <1>5, <2>1, <3>1 DEF FoundTo, FoundGrows
  <2>2. CASE e = L + 1
    <3>1. d \in 1 .. L
      BY <1>5, <2>2
    <3> QED BY <1>5, <1>10, <2>2, <3>1
  <2> QED BY <1>5, <2>1, <2>2
<1> QED BY <1>2, <1>8, <1>9, <1>11 DEF FoundTo

(* Where the parser begins inside of a frame, no line of that frame is     *)
(* taken for a name unless unpersist() is misled.                          *)
LEMMA NotTaken ==
  ASSUME Inv, NEW at \in [Ids -> Nat], UnitsAt(at), WholeAt(at), NEW x \in Nat, ~Misread(x),
         NEW q \in DOMAIN data, x < q, at[data[q].frame] < x
  PROVE  data[q].unit \notin {"hcmd", "bcmd"}
<1> SUFFICES ASSUME data[q].unit \in {"hcmd", "bcmd"} PROVE FALSE
  OBVIOUS
<1>1. data \in Seq(FileUnit) /\ frames \in Seq(Kinds) /\ DOMAIN data = 1 .. Len(data) /\ Len(data) \in Nat
  BY DEF Inv, TypeOK
<1>2. PICK k \in InFile : k = data[q].frame
  BY DEF UnitsAt
<1>3. PICK a \in Nat : a = at[k]
  BY RestoredIs
<1>4. PICK sp \in Nat : sp = Span(k)
  BY RestoredIs
<1>5. a < x /\ q <= a + sp /\ q \in Nat
  BY <1>1, <1>2, <1>3, <1>4 DEF UnitsAt
<1>6. PICK c \in {"body", "empty", "reply", "quoting"} : c = frames[k]
  BY <1>1, RestoredIs, KindOf
<1>7. /\ DOMAIN Units(c) = 1 .. sp
      /\ \A w \in 1 .. sp : Units(c)[w] = "name" => w = 1
  <2>1. sp = Len(Units(c))
    BY <1>1, <1>4, <1>6, RestoredIs, SpanIs
  <2> QED BY <2>1, UnitsAre
<1>8. ASSUME NEW m \in x + 1 .. q PROVE data[m].unit # "name"
  <2>1. PICK w \in Nat : w = m - a
    BY <1>5
  <2>2. w \in 1 .. sp /\ a + w = m /\ w # 1 /\ m \in DOMAIN data
    BY <1>1, <1>5, <2>1
  <2>3. data[m].frame = k
    BY <1>3, <1>4, <2>2 DEF WholeAt
  <2>4. data[m].unit = Units(c)[w]
    BY <1>3, <1>6, <2>1, <2>2, <2>3 DEF UnitsAt
  <2> QED BY <1>7, <2>2, <2>4
<1>9. q \in x + 1 .. Len(data)
  BY <1>1, <1>5
<1> QED BY <1>8, <1>9 DEF Misread

LEMMA TracksStep ==
  ASSUME Inv, NEW at \in [Ids -> Nat], UnitsAt(at), WholeAt(at), ApartAt(at),
         NEW x \in Nat, ~Misread(x), NEW n \in Nat, x <= n, n + 1 \in DOMAIN data, NEW p, Tracks(p, at, x, n)
  PROVE  Tracks(frame_update(p, data[n + 1]), at, x, n + 1)
<1>1. data \in Seq(FileUnit) /\ frames \in Seq(Kinds) /\ DOMAIN data = 1 .. Len(data) /\ Len(data) \in Nat
  BY DEF Inv, TypeOK
<1>2. PICK v \in FileUnit : v = data[n + 1]
  BY <1>1
<1>3. PICK k \in InFile : k = v.frame
  BY <1>2 DEF UnitsAt
<1>4. PICK a \in Nat : a = at[k]
  BY RestoredIs
<1>5. PICK z \in Nat : z = SizeRestored(k) /\ 3 <= z
  BY RestoredIs
<1>6. PICK sp \in Nat : sp = Span(k) /\ z <= sp
  BY <1>5, RestoredIs
<1>7. a < n + 1 /\ n + 1 <= a + sp /\ v.unit = Units(frames[k])[(n + 1) - a]
  BY <1>2, <1>3, <1>4, <1>6 DEF UnitsAt
<1>8. PICK u \in Nat : a + u = n /\ u + 1 <= sp /\ (n + 1) - a = u + 1
  <2>1. n - a \in Nat /\ a + (n - a) = n /\ (n - a) + 1 <= sp /\ (n + 1) - a = (n - a) + 1
    BY <1>7
  <2> QED BY <2>1
<1>9. k \in DOMAIN frames /\ v.unit = Units(frames[k])[u + 1] /\ frames[k] \in {"body", "empty", "reply", "quoting"}
  BY <1>1, <1>7, <1>8, RestoredIs, KindOf
<1>10. v.unit = "name" <=> u = 0
  <2>1. PICK c \in {"body", "empty", "reply", "quoting"} : c = frames[k]
    BY <1>9
  <2>2. sp = Len(Units(c))
    BY <1>1, <1>6, <1>9, <2>1, SpanIs
  <2>3. u + 1 \in 1 .. sp
    BY <1>8
  <2>4. /\ DOMAIN Units(c) = 1 .. Len(Units(c))
        /\ \A w \in DOMAIN Units(c) : Units(c)[w] = "name" <=> w = 1
    BY UnitsAre
  <2>5. Units(c)[u + 1] = "name" <=> u + 1 = 1
    <3>1. PICK w : w = u + 1
      OBVIOUS
    <3>2. w \in DOMAIN Units(c)
      BY <2>2, <2>3, <2>4, <3>1
    <3>3. Units(c)[w] = "name" <=> w = 1
      BY <2>4, <3>2
    <3> QED BY <3>1, <3>3
  <2> QED BY <1>9, <2>1, <2>5
<1>11. p \in ParserSet /\ FoundTo(p.out, at, x, n) /\ (n = x => p.status = "born")
  BY DEF Tracks
<1>12. PICK r : r = frame_update(p, v)
  OBVIOUS
<1>13. u >= 1 => data[n].frame = k
  <2> SUFFICES ASSUME u >= 1 PROVE data[n].frame = k
    OBVIOUS
  <2>1. u \in 1 .. Span(k)
    BY <1>6, <1>8
  <2>2. data[at[k] + u].frame = k
    BY <2>1 DEF WholeAt
  <2> QED BY <1>4, <1>8, <2>2
<1>14. SUFFICES /\ r \in ParserSet /\ FoundTo(r.out, at, x, n + 1)
                /\ IF x <= a /\ u + 1 < z THEN InFrame(r, k, u + 1) ELSE r.status = "born"
  <2>1. n + 1 # x /\ n + 1 > x
    OBVIOUS
  <2> QED BY <1>2, <1>3, <1>4, <1>5, <1>8, <1>12, <2>1 DEF Tracks
<1>15. (Finds(k, at, x, n + 1) => Finds(k, at, x, n)) => FoundTo(p.out, at, x, n + 1)
  BY <1>2, <1>3, <1>11, FoundSame
<1>16. \A m : Finds(k, at, x, m) <=> x <= a /\ a + z <= m
  BY <1>4, <1>5 DEF Finds
<1>17. CASE u = 0
  <2>1. p.status = "born"
    <3>1. CASE n = x
      BY <1>11, <3>1
    <3>2. CASE n # x
      <4>1. n \in DOMAIN data /\ n > x
        BY <1>1, <3>2
      <4>2. PICK j \in InFile : j = data[n].frame
        BY <4>1 DEF UnitsAt
      <4>3. PICK b \in Nat : b = at[j]
        BY RestoredIs
      <4>4. PICK sj \in Nat : sj = Span(j)
        BY RestoredIs
      <4>5. b < n /\ n <= b + sj
        BY <4>1, <4>2, <4>3, <4>4 DEF UnitsAt
      <4>6. j \in Nat /\ k \in Nat /\ SizeRestored(j) \in Nat /\ SizeRestored(j) <= sj
        BY <4>4, RestoredIs
      <4>7. a = n
        BY <1>8, <1>17
      <4>8. k < j => a + sp <= b
        BY <1>4, <1>6, <4>3 DEF ApartAt, Placed
      <4>9. j < k => b + sj <= a
        BY <1>4, <4>3, <4>4 DEF ApartAt, Placed
      <4>10. j # k
        <5> SUFFICES ASSUME j = k PROVE FALSE
          OBVIOUS
        <5>1. a = b
          BY <1>4, <4>3
        <5>2. ~(n < n)
          OBVIOUS
        <5> QED BY <4>5, <4>7, <5>1, <5>2
      <4>11. n - b = sj
        BY <4>5, <4>6, <4>7, <4>8, <4>9, <4>10
      <4>12. ~(n - b < SizeRestored(j))
        BY <4>6, <4>11
      <4> QED BY <4>1, <4>2, <4>3, <4>12 DEF Tracks
    <3> QED BY <3>1, <3>2
  <2>2. r = [p EXCEPT !.status = "header", !.frame = k, !.size = 1, !.has = 0, !.len = -1]
    BY <1>3, <1>10, <1>12, <1>17, <2>1 DEF frame_update, frame_setname
  <2>3. /\ r \in ParserSet /\ r.status = "header" /\ r.frame = k /\ r.has = 0 /\ r.len = -1
        /\ r.out = p.out /\ r.size = 1
    <3>1. k \in {0} \cup DOMAIN frames
      BY <1>9
    <3> QED BY <1>11, <2>2, <3>1, SetName
  <2>4. x <= a /\ u + 1 < z /\ u + 1 = 1 /\ ~(a + z <= n + 1)
    BY <1>5, <1>8, <1>17
  <2>5. 1 < HeaderSize(frames[k]) /\ 1 < LengthAt(frames[k])
    BY <1>9 DEF HeaderSize, LengthAt
  <2>6. InFrame(r, k, u + 1)
    BY <1>3, <2>3, <2>4, <2>5 DEF InFrame
  <2>7. FoundTo(r.out, at, x, n + 1)
    BY <1>15, <1>16, <2>3, <2>4
  <2> QED BY <2>3, <2>4, <2>6, <2>7
<1>18. CASE u >= 1 /\ p.status = "born" /\ (x <= a => z <= u)
  <2>4. v.unit \notin {"hcmd", "bcmd"}
    <3>1. CASE x <= a
      <4>1. PICK c \in {"body", "empty", "reply", "quoting"} : c = frames[k]
        BY <1>9
      <4>2. u + 1 \in 1 .. Len(Units(c)) /\ RestoredSize(c) < u + 1
        <5>1. sp = Len(Units(c))
          BY <1>1, <1>6, <1>9, <4>1, SpanIs
        <5>2. z = RestoredSize(c)
          BY <1>5, <4>1 DEF SizeRestored
        <5> QED BY <1>8, <1>18, <3>1, <5>1, <5>2
      <4>3. Units(c)[u + 1] = "nul"
        BY <4>2, UnitAfter
      <4> QED BY <1>9, <4>1, <4>3
    <3>2. CASE ~(x <= a)
      <4>1. PICK q \in DOMAIN data : q = n + 1
        OBVIOUS
      <4>2. x < q /\ a < x
        BY <3>2, <4>1
      <4>3. data[q].frame = k /\ data[q].unit = v.unit
        BY <1>2, <1>3, <4>1
      <4> QED BY <1>4, <4>2, <4>3, NotTaken
    <3> QED BY <3>1, <3>2
  <2>1. r = p
    BY <1>10, <1>12, <1>18, <2>4 DEF frame_update, frame_setname
  <2>2. Finds(k, at, x, n + 1) => Finds(k, at, x, n)
    <3>1. z <= u => a + z <= n
      BY <1>8
    <3> QED BY <1>16, <1>18, <3>1
  <2>3. ~(x <= a /\ u + 1 < z)
    BY <1>18
  <2> QED BY <1>11, <1>15, <1>18, <2>1, <2>2, <2>3
<1>19. CASE u >= 1 /\ n = x
  <2>1. p.status = "born" /\ ~(x <= a)
    BY <1>8, <1>11, <1>19
  <2> QED BY <1>18, <1>19, <2>1
<1>20. n - a = u
  BY <1>8
<1>21. CASE u >= 1 /\ n # x /\ x <= a /\ u < z
  <2>1. n > x
    BY <1>21
  <2>2. InFrame(p, k, u)
    BY <1>4, <1>5, <1>13, <1>20, <1>21, <2>1 DEF Tracks
  <2>3. IF u + 1 < z THEN r \in ParserSet /\ r.out = p.out /\ InFrame(r, k, u + 1)
                     ELSE FinishedWith(r, p, k, u + 1)
    BY <1>1, <1>3, <1>5, <1>9, <1>11, <1>12, <1>21, <2>2, InFrameStep DEF SizeRestored
  <2>4. CASE u + 1 < z
    <3>1. ~(a + z <= n + 1)
      BY <1>8, <2>4
    <3> QED BY <1>15, <1>16, <1>21, <2>3, <2>4, <3>1
  <2>5. CASE ~(u + 1 < z)
    <3>1. u + 1 = z /\ a + z = n + 1
      BY <1>8, <1>21, <2>5
    <3>2. PICK y \in FoundSet : y.frame = k /\ y.size = u + 1 /\ r.out = Append(p.out, y)
      BY <2>3, <2>5 DEF FinishedWith
    <3>3. PICK o \in Seq(FoundSet) : o = p.out
      BY <1>11, ParserFields
    <3>4. FoundTo(Append(o, y), at, x, n + 1)
      BY <1>4, <1>5, <1>11, <1>21, <3>1, <3>2, <3>3, FoundOne
    <3>5. r \in ParserSet /\ r.status = "born"
      BY <2>3, <2>5 DEF FinishedWith
    <3> QED BY <2>5, <3>2, <3>3, <3>4, <3>5
  <2> QED BY <2>4, <2>5
<1>22. CASE u >= 1 /\ n # x /\ ~(x <= a /\ u < z)
  <2>1. n > x
    BY <1>22
  <2>2. p.status = "born"
    BY <1>4, <1>5, <1>13, <1>20, <1>22, <2>1 DEF Tracks
  <2>3. x <= a => z <= u
    BY <1>22
  <2> QED BY <1>18, <1>22, <2>2, <2>3
<1> QED BY <1>17, <1>19, <1>21, <1>22

(* So it is after the last unit. *)
LEMMA ParserTracks ==
  ASSUME Inv, NEW at \in [Ids -> Nat], UnitsAt(at), WholeAt(at), ApartAt(at),
         NEW x \in Nat, x <= Len(data), ~Misread(x)
  PROVE  FoundTo(unpersist_queue_context(x), at, x, Len(data))
<1>1. data \in Seq(FileUnit) /\ DOMAIN data = 1 .. Len(data) /\ Len(data) \in Nat
  BY DEF Inv, TypeOK
<1>2. PICK r : r = SubSeq(data, x + 1, Len(data))
  OBVIOUS
<1>3. PICK D \in Nat : D = Len(data)
  BY <1>1
<1>4. PICK L \in Nat : x + L = D /\ L = D - x
  <2>1. D - x \in Nat /\ x + (D - x) = D
    BY <1>3
  <2> QED BY <2>1
<1>5. Len(r) = L /\ \A n \in 1 .. L : r[n] = data[x + n]
  <2>1. CASE x < Len(data)
    <3>1. PICK file \in Seq(FileUnit) : file = data
      BY <1>1
    <3>2. /\ Len(SubSeq(file, x + 1, Len(file))) = Len(file) - x
          /\ \A n \in 1 .. Len(file) - x : SubSeq(file, x + 1, Len(file))[n] = file[x + n]
      BY <2>1, <3>1, SuffixIs
    <3> QED BY <1>2, <1>3, <1>4, <3>1, <3>2
  <2>2. CASE ~(x < Len(data))
    <3>1. L = 0
      BY <1>3, <1>4, <2>2
    <3>2. r = <<>>
      BY <1>1, <1>2, <2>2
    <3> QED BY <3>1, <3>2
  <2> QED BY <2>1, <2>2
<1>6. PICK st : st = Parsed(r)
  OBVIOUS
<1>7. st[0] = Born(<<>>) /\ \A n \in 1 .. L : st[n] = frame_update(st[n - 1], r[n])
  BY <1>5, <1>6, ParsedIs
<1> DEFINE Good(n) == Tracks(st[n], at, x, x + n)
           Bad == {n \in 0 .. L : ~Good(n)}
<1>8. Good(0)
  <2>1. <<>> \in Seq(FoundSet) /\ DOMAIN <<>> = {}
    OBVIOUS
  <2>2. PICK b : b = Born(<<>>)
    OBVIOUS
  <2>3. b \in ParserSet /\ b.status = "born" /\ b.out = <<>>
    BY <2>1, <2>2, BornIs
  <2>4. \A k \in InFile : ~Finds(k, at, x, x)
    <3> SUFFICES ASSUME NEW k \in InFile, Finds(k, at, x, x) PROVE FALSE
      OBVIOUS
    <3>1. at[k] \in Nat /\ SizeRestored(k) \in Nat /\ 3 <= SizeRestored(k)
      BY RestoredIs
    <3> QED BY <3>1 DEF Finds
  <2>5. FoundTo(b.out, at, x, x)
    BY <2>1, <2>3, <2>4 DEF FoundTo, FoundPlaced, FoundAll, FoundGrows
  <2>6. x + 0 = x /\ ~(x > x)
    OBVIOUS
  <2>7. Tracks(b, at, x, x)
    BY <2>3, <2>5, <2>6 DEF Tracks
  <2> QED BY <1>7, <2>2, <2>6, <2>7
<1>9. ASSUME NEW n \in 1 .. L, Good(n - 1) PROVE Good(n)
  <2>1. PICK m \in Nat : m = x + (n - 1) /\ m + 1 = x + n /\ x <= m /\ m + 1 \in DOMAIN data
    <3>1. x + (n - 1) \in Nat /\ (x + (n - 1)) + 1 = x + n /\ x <= x + (n - 1) /\ x + n \in 1 .. D
      BY <1>4
    <3> QED BY <1>1, <1>3, <3>1
  <2>2. PICK p : p = st[n - 1]
    OBVIOUS
  <2>3. Tracks(p, at, x, m)
    BY <1>9, <2>1, <2>2
  <2>4. Tracks(frame_update(p, data[m + 1]), at, x, m + 1)
    BY <2>1, <2>3, TracksStep
  <2>5. st[n] = frame_update(p, data[m + 1])
    BY <1>5, <1>7, <2>1, <2>2
  <2> QED BY <2>1, <2>4, <2>5
<1>10. Good(L)
  <2>1. CASE Bad = {}
    <3>1. L \in 0 .. L
      OBVIOUS
    <3> QED BY <2>1, <3>1
  <2>2. CASE Bad # {}
    <3>1. Bad \in SUBSET Nat
      OBVIOUS
    <3>2. PICK k \in Bad : \A j \in Bad : k <= j
      <4> HIDE DEF Bad
      <4> QED BY <2>2, <3>1, Least
    <3>3. k \in 0 .. L /\ ~Good(k)
      OBVIOUS
    <3> HIDE DEF Good
    <3>4. k \in 1 .. L /\ k - 1 \in 0 .. L /\ ~(k <= k - 1)
      BY <1>8, <3>3
    <3>5. Good(k - 1)
      BY <3>2, <3>4
    <3> QED BY <1>9, <3>3, <3>4, <3>5
  <2> QED BY <2>1, <2>2
<1>11. unpersist_queue_context(x) = st[L].out
  BY <1>2, <1>5, <1>6 DEF unpersist_queue_context, parse_frame
<1> QED BY <1>3, <1>4, <1>10, <1>11 DEF Tracks

(* What unpersist() enqueues: the frames that begin at the index or behind *)
(* it, in the order of the file, each with the size the parser counted.    *)
IdsOf(found) == [n \in DOMAIN found |-> found[n].frame]
RestoredBy(found, at, x) ==
  /\ IdsOf(found) \in Seq(Ids) /\ Range(IdsOf(found)) = {k \in InFile : x <= at[k]}
  /\ \A m, n \in DOMAIN IdsOf(found) : m < n => IdsOf(found)[m] < IdsOf(found)[n]
  /\ \A i \in Range(IdsOf(found)) : SizeIn(found, i) = SizeRestored(i)

LEMMA RestoredExactly ==
  ASSUME Inv, NEW at \in [Ids -> Nat], UnitsAt(at), WholeAt(at), ApartAt(at),
         NEW x \in Nat, x <= Len(data), ~Misread(x)
  PROVE  RestoredBy(unpersist_queue_context(x), at, x)
<1>12. PICK found : found = unpersist_queue_context(x)
  OBVIOUS
<1>13. PICK ids : ids = IdsOf(found)
  OBVIOUS
<1>1. found \in Seq(FoundSet)
  BY <1>12, UnpersistFinds DEF Inv
<1>2. DOMAIN found = 1 .. Len(found) /\ Len(found) \in Nat /\ \A n \in DOMAIN found : found[n] \in FoundSet
  BY <1>1
<1>3. FoundTo(found, at, x, Len(data))
  BY <1>12, ParserTracks
<1>4. \A n \in DOMAIN found : found[n].frame \in Ids
  BY <1>3, RestoredIs DEF FoundTo, FoundPlaced
<1>5. DOMAIN ids = DOMAIN found /\ \A n \in DOMAIN found : ids[n] = found[n].frame
  BY <1>13 DEF IdsOf
<1>6. ids \in Seq(Ids)
  <2>1. ids \in [1 .. Len(found) -> Ids]
    BY <1>2, <1>4, <1>13 DEF IdsOf
  <2> QED BY <1>2, <2>1
<1>7. \A k \in InFile : x <= at[k] => Finds(k, at, x, Len(data))
  <2> SUFFICES ASSUME NEW k \in InFile, x <= at[k] PROVE at[k] + SizeRestored(k) <= Len(data)
    BY DEF Finds
  <2>1. at[k] \in Nat /\ SizeRestored(k) \in Nat /\ Span(k) \in Nat /\ SizeRestored(k) <= Span(k)
    BY RestoredIs
  <2>2. at[k] + Span(k) <= Len(data) /\ Len(data) \in Nat
    BY DEF WholeAt, Inv, TypeOK
  <2> QED BY <2>1, <2>2
<1>8. ASSUME NEW k \in Range(ids) PROVE k \in InFile /\ x <= at[k]
  <2>1. PICK n \in DOMAIN found : k = found[n].frame
    BY <1>5 DEF Range
  <2> QED BY <1>3, <2>1 DEF FoundTo, FoundPlaced, Finds
<1>9. ASSUME NEW k \in InFile, x <= at[k] PROVE k \in Range(ids)
  <2>1. PICK n \in DOMAIN found : k = found[n].frame
    BY <1>3, <1>7, <1>9 DEF FoundTo, FoundAll
  <2> QED BY <1>5, <2>1 DEF Range
<1>10. ASSUME NEW i \in Range(ids) PROVE SizeIn(found, i) = SizeRestored(i)
  <2>1. PICK n \in DOMAIN found : i = found[n].frame
    BY <1>5 DEF Range
  <2>2. found[n] \in Range(found)
    BY DEF Range
  <2>3. PICK y : y = CHOOSE z \in Range(found) : z.frame = i
    OBVIOUS
  <2>4. y \in Range(found) /\ y.frame = i
    BY <2>1, <2>2, <2>3
  <2>5. PICK e \in DOMAIN found : y = found[e]
    BY <2>4 DEF Range
  <2>6. y.size = SizeRestored(i)
    BY <1>3, <2>4, <2>5 DEF FoundTo, FoundPlaced
  <2> QED BY <2>3, <2>6 DEF SizeIn
<1>11. \A m, n \in DOMAIN ids : m < n => ids[m] < ids[n]
  BY <1>3, <1>5 DEF FoundTo, FoundGrows
<1>14. Range(ids) = {k \in InFile : x <= at[k]}
  BY <1>8, <1>9
<1> QED BY <1>6, <1>10, <1>11, <1>12, <1>13, <1>14 DEF RestoredBy

-----------------------------------------------------------------------------
(***************************************************************************)
(* The places of all frames: one behind the other from the begin of the    *)
(* file on, and the frames of the list behind its end, in their order.     *)
(***************************************************************************)
JoinedAt(at) ==
  \A k \in Placed : at[k] = 0 \/ \E j \in Placed : j < k /\ at[k] = at[j] + Span(j)
TopAt(at, top) ==
  /\ \A k \in Placed : at[k] + Span(k) <= top
  /\ top = 0 \/ \E k \in Placed : at[k] + Span(k) = top
ListAt(at, top) ==
  IF phase = "stopping" \/ listed = <<>> THEN top = Len(data)
  ELSE /\ at[listed[1]] = Len(data)
       /\ at[listed[Len(listed)]] + Span(listed[Len(listed)]) = top
       /\ \A m \in 1 .. Len(listed) - 1 : at[listed[m + 1]] = at[listed[m]] + Span(listed[m])
Layout(at, top) ==
  /\ UnitsAt(at) /\ WholeAt(at) /\ ApartAt(at) /\ JoinedAt(at) /\ TopAt(at, top) /\ ListAt(at, top)

LEMMA PlacedIs ==
  ASSUME Inv, NEW k \in Placed
  PROVE  k \in DOMAIN frames /\ k \in Ids /\ k \in Nat \ {0} /\ Span(k) \in Nat \ {0} /\ frames[k] \in Kinds
<1>1. frames \in Seq(Kinds) /\ Range(listed) \subseteq DOMAIN frames
  BY DEF Inv, TypeOK
<1>2. k \in DOMAIN frames
  BY <1>1, InFileKnown DEF Placed, Awaited
<1>3. Span(k) \in Nat \ {0}
  BY <1>1, <1>2, SpanIs
<1>4. k \in Ids /\ k \in Nat \ {0}
  BY <1>2, FramesInIds DEF Inv
<1> QED BY <1>1, <1>2, <1>3, <1>4

(* What no step changes: frames are what they were, and stay sent.         *)
Continues ==
  /\ sent \subseteq sent'
  /\ \A j \in DOMAIN frames : frames'[j] = frames[j]
  /\ \A j : <<"sent", j>> \in early => <<"sent", j>> \in early'

LEMMA ShortfallKept ==
  ASSUME Inv, Continues, NEW k \in DOMAIN frames
  PROVE  Shortfall(k) <= Shortfall(k)' /\ Shortfall(k) \in Nat /\ Shortfall(k)' \in Nat
<1>1. k \in Nat /\ 1 .. k \subseteq DOMAIN frames
  BY FramesInIds DEF Inv
<1>2. Keeps(k)
  BY <1>1 DEF Keeps, Continues
<1> QED BY <1>1, <1>2, ShortfallGrows

LEMMA LayoutSame ==
  ASSUME Inv, NEW at, NEW top, Layout(at, top), Continues, data' = data,
         phase' = "stopping" <=> phase = "stopping", phase # "stopping" => listed' = listed
  PROVE  Layout(at, top)' /\ Placed' = Placed
<1>1. InFile' = InFile
  BY DEF InFile, NamesAt
<1>2. Awaited' = Awaited
  BY DEF Awaited
<1>3. Placed' = Placed
  BY <1>1, <1>2 DEF Placed
<1>4. \A k \in Placed : frames'[k] = frames[k]
  BY PlacedIs DEF Continues
<1>5. \A k \in Placed : Span(k)' = Span(k)
  BY <1>4, SpanSame
<1>6. InFile \subseteq Placed
  BY DEF Placed
<1>7. UnitsAt(at)'
  BY <1>1, <1>4, <1>5, <1>6 DEF Layout, UnitsAt
<1>8. WholeAt(at)'
  BY <1>1, <1>5, <1>6 DEF Layout, WholeAt
<1>9. ApartAt(at)'
  BY <1>3, <1>5 DEF Layout, ApartAt
<1>10. JoinedAt(at)'
  BY <1>3, <1>5 DEF Layout, JoinedAt
<1>11. TopAt(at, top)'
  BY <1>3, <1>5 DEF Layout, TopAt
<1>12. ListAt(at, top)'
  <2>1. CASE phase = "stopping" \/ listed = <<>>
    BY <2>1 DEF Layout, ListAt
  <2>2. CASE ~(phase = "stopping" \/ listed = <<>>)
    <3>1. listed' = listed /\ listed \in Seq(Ids) /\ Len(listed) \in Nat /\ Len(listed) # 0
      BY <2>2, EmptySeq DEF Inv, TypeOK
    <3>2. \A m \in 1 .. Len(listed) : listed[m] \in Placed
      BY <2>2, <3>1 DEF Placed, Awaited, Range
    <3>3. \A m \in 1 .. Len(listed) : Span(listed[m])' = Span(listed[m])
      BY <1>4, <3>1, <3>2, SpanSame DEF Span, Written
    <3>4. Len(listed) \in 1 .. Len(listed) /\ \A m \in 1 .. Len(listed) - 1 : m \in 1 .. Len(listed)
      BY <3>1
    <3>5. /\ at[listed[1]] = Len(data)
          /\ at[listed[Len(listed)]] + Span(listed[Len(listed)]) = top
          /\ \A m \in 1 .. Len(listed) - 1 : at[listed[m + 1]] = at[listed[m]] + Span(listed[m])
      BY <2>2 DEF Layout, ListAt
    <3>6. PICK l : l = listed
      OBVIOUS
    <3>7. l = listed'
      BY <3>1, <3>6
    <3>8. \A m \in 1 .. Len(l) : Span(l[m])' = Span(l[m])
      BY <1>5, <3>2, <3>6
    <3>9. /\ at[l[1]] = Len(data')
          /\ at[l[Len(l)]] + Span(l[Len(l)])' = top
          /\ \A m \in 1 .. Len(l) - 1 : at[l[m + 1]] = at[l[m]] + Span(l[m])'
      BY <3>4, <3>5, <3>6, <3>8
    <3> QED BY <2>2, <3>1, <3>7, <3>9 DEF ListAt, Span, Written
  <2> QED BY <2>1, <2>2
<1> QED BY <1>3, <1>7, <1>8, <1>9, <1>10, <1>11, <1>12 DEF Layout

LEMMA ListAtNext ==
  ASSUME NEW at, NEW top, NEW l, l = listed', l # <<>>,
         at[l[1]] = Len(data'), at[l[Len(l)]] + Span(l[Len(l)])' = top,
         \A m \in 1 .. Len(l) - 1 : at[l[m + 1]] = at[l[m]] + Span(l[m])'
  PROVE  phase' = "stopping" \/ ListAt(at, top)'
BY DEF ListAt, Span, Written

(* The list is dropped: the places behind the end of the file are free.    *)
LEMMA LayoutShrinks ==
  ASSUME Inv, OrderInv, NEW at \in [Ids -> Nat], NEW top, Layout(at, top), data' = data, frames' = frames,
         phase' = "stopping" \/ listed' = <<>>
  PROVE  Layout(at, Len(data))' /\ Placed' = InFile /\ InFile \subseteq Placed
<1>1. InFile' = InFile
  BY DEF InFile, NamesAt
<1>2. Awaited' = {}
  BY EmptyRange DEF Awaited
<1>3. Placed' = InFile /\ InFile \subseteq Placed
  BY <1>1, <1>2 DEF Placed
<1>4. \A k : Span(k)' = Span(k)
  BY SpanSame
<1>5. UnitsAt(at)'
  BY <1>1, <1>4 DEF Layout, UnitsAt
<1>6. WholeAt(at)'
  BY <1>1, <1>4 DEF Layout, WholeAt
<1>7. ApartAt(at)'
  BY <1>3, <1>4 DEF Layout, ApartAt
<1>8. JoinedAt(at)'
  <2> SUFFICES ASSUME NEW k \in InFile, at[k] # 0
               PROVE  \E j \in InFile : j < k /\ at[k] = at[j] + Span(j)
    BY <1>3, <1>4 DEF JoinedAt
  <2>1. PICK j \in Placed : j < k /\ at[k] = at[j] + Span(j)
    BY <1>3 DEF Layout, JoinedAt
  <2>2. j \in Range(listed) => k < j
    BY DEF OrderInv, FileInOrder
  <2>3. j \in Nat /\ k \in Nat
    BY <1>3, PlacedIs
  <2>4. j \in InFile
    BY <2>1, <2>2, <2>3 DEF Placed, Awaited
  <2> QED BY <2>1, <2>4
<1>9. PICK D \in Nat : D = Len(data)
  BY DEF Inv, TypeOK
<1>10. \A k \in InFile : at[k] + Span(k) <= D
  BY <1>9 DEF Layout, WholeAt
<1>11. D = 0 \/ \E k \in InFile : at[k] + Span(k) = D
  <2> SUFFICES ASSUME D # 0 PROVE \E k \in InFile : at[k] + Span(k) = D
    OBVIOUS
  <2>1. D \in DOMAIN data
    BY <1>9 DEF Inv, TypeOK
  <2>2. PICK k \in InFile : k = data[D].frame /\ D <= at[k] + Span(k)
    BY <2>1 DEF Layout, UnitsAt
  <2>3. at[k] \in Nat /\ Span(k) \in Nat
    BY <1>3, PlacedIs
  <2>4. at[k] + Span(k) = D
    BY <1>10, <2>2, <2>3
  <2> QED BY <2>4
<1>12. TopAt(at, Len(data))'
  BY <1>3, <1>4, <1>9, <1>10, <1>11 DEF TopAt
<1>13. ListAt(at, Len(data))'
  BY DEF ListAt
<1> QED BY <1>3, <1>5, <1>6, <1>7, <1>8, <1>12, <1>13 DEF Layout

(* A frame is listed: its place is behind all others. *)
Extended(at, top, c) ==
  \E b \in [Ids -> Nat] : \E up \in Nat :
    /\ Layout(b, up)' /\ Placed' = Placed \cup {c}
    /\ top <= up /\ b[c] = top /\ \A k \in Placed : b[k] = at[k]

LEMMA LayoutAdds ==
  ASSUME Inv, NEW c \in DOMAIN frames, c \in Ids, \A k \in InFile \cup Range(listed) : k < c,
         NEW at \in [Ids -> Nat], NEW top \in Nat, Layout(at, top), data' = data, frames' = frames,
         phase # "stopping", phase' # "stopping", listed' = Append(listed, c)
  PROVE  Extended(at, top, c)
<1>b. PICK b : b = [at EXCEPT ![c] = top]
  OBVIOUS
<1>u. PICK up : up = top + Span(c)
  OBVIOUS
<1>1. InFile' = InFile
  BY DEF InFile, NamesAt
<1>2. listed \in Seq(Ids) /\ frames \in Seq(Kinds) /\ c \in Nat
  BY FramesInIds DEF Inv, TypeOK
<1>3. Awaited = Range(listed) /\ Awaited' = Range(listed) \cup {c}
  BY <1>2, AppendRange DEF Awaited
<1>4. Placed' = Placed \cup {c} /\ InFile \subseteq Placed
  BY <1>1, <1>3 DEF Placed
<1>5. \A k \in Placed : k < c /\ k \in Nat /\ k \in Ids /\ Span(k) \in Nat /\ at[k] \in Nat
  BY <1>3, PlacedIs DEF Placed
<1>6. \A k : Span(k)' = Span(k)
  BY SpanSame
<1>7. c \notin Placed
  BY <1>2, <1>5
<1>8. PICK z \in Nat : z = Span(c)
  BY <1>2, SpanIs
<1>9. b \in [Ids -> Nat] /\ up \in Nat /\ top <= up /\ b[c] = top /\ up = top + z
  BY <1>8, <1>b, <1>u
<1>10. \A k \in Placed : b[k] = at[k] /\ k # c
  BY <1>5, <1>7, <1>b
<1>11. UnitsAt(b)'
  BY <1>1, <1>4, <1>6, <1>10 DEF Layout, UnitsAt
<1>12. WholeAt(b)'
  BY <1>1, <1>4, <1>6, <1>10 DEF Layout, WholeAt
<1>13. ApartAt(b)'
  <2> SUFFICES ASSUME NEW j \in Placed \cup {c}, NEW k \in Placed \cup {c}, j < k
               PROVE  b[j] + Span(j) <= b[k]
    BY <1>4, <1>6 DEF ApartAt
  <2>1. j # c
    BY <1>2, <1>5
  <2>2. CASE k = c
    BY <1>9, <1>10, <2>1, <2>2 DEF Layout, TopAt
  <2>3. CASE k # c
    BY <1>10, <2>1, <2>3 DEF Layout, ApartAt
  <2> QED BY <2>2, <2>3
<1>14. JoinedAt(b)'
  <2> SUFFICES ASSUME NEW k \in Placed \cup {c}, b[k] # 0
               PROVE  \E j \in Placed \cup {c} : j < k /\ b[k] = b[j] + Span(j)
    BY <1>4, <1>6 DEF JoinedAt
  <2>1. CASE k = c
    <3>1. PICK j \in Placed : at[j] + Span(j) = top
      BY <1>9, <2>1 DEF Layout, TopAt
    <3>2. j < k /\ b[k] = b[j] + Span(j)
      BY <1>5, <1>9, <1>10, <2>1, <3>1
    <3> QED BY <3>2
  <2>2. CASE k # c
    <3>1. PICK j \in Placed : j < k /\ at[k] = at[j] + Span(j)
      BY <1>10, <2>2 DEF Layout, JoinedAt
    <3> QED BY <1>10, <2>2, <3>1
  <2> QED BY <2>1, <2>2
<1>15. TopAt(b, up)'
  <2>1. \A k \in Placed : b[k] + Span(k) <= up
    <3> SUFFICES ASSUME NEW k \in Placed PROVE b[k] + Span(k) <= up
      OBVIOUS
    <3>1. at[k] + Span(k) <= top /\ at[k] \in Nat /\ Span(k) \in Nat /\ b[k] = at[k]
      BY <1>5, <1>10 DEF Layout, TopAt
    <3> QED BY <1>9, <3>1
  <2>2. b[c] + Span(c) = up
    BY <1>8, <1>9
  <2>3. up <= up
    BY <1>9
  <2>4. \A k \in Placed \cup {c} : b[k] + Span(k) <= up
    BY <2>1, <2>2, <2>3
  <2> QED BY <1>4, <1>6, <2>2, <2>4 DEF TopAt
<1>16. ListAt(b, up)'
  <2>1. PICK l \in Seq(Ids) : l = listed
    BY <1>2
  <2>2. PICK t : t = Append(l, c)
    OBVIOUS
  <2>3. PICK L \in Nat : L = Len(l)
    OBVIOUS
  <2>4. /\ t \in Seq(Ids) /\ DOMAIN t = 1 .. L + 1 /\ DOMAIN l = 1 .. L
        /\ \A k \in 1 .. L : t[k] = l[k]
        /\ t[L + 1] = c
    BY <2>2, <2>3, AppendIs
  <2>5. Len(t) = L + 1
    BY <2>4, LenProperties
  <2>6. t # <<>>
    BY <2>5
  <2>7. \A m \in 1 .. L : l[m] \in Placed
    BY <1>3, <2>1, <2>4 DEF Placed, Range
  <2>8. /\ b[t[1]] = Len(data)
        /\ \A m \in 1 .. L : b[t[m + 1]] = b[t[m]] + Span(t[m])
    <3>1. CASE L = 0
      <4>1. l = <<>> /\ t[1] = c
        BY <2>3, <2>4, <3>1, EmptySeq
      <4>2. top = Len(data)
        BY <2>1, <4>1 DEF Layout, ListAt
      <4> QED BY <1>9, <3>1, <4>1, <4>2
    <3>2. CASE L # 0
      <4>1. listed # <<>>
        BY <2>1, <2>3, <3>2
      <4>2. /\ at[l[1]] = Len(data)
            /\ at[l[L]] + Span(l[L]) = top
            /\ \A m \in 1 .. L - 1 : at[l[m + 1]] = at[l[m]] + Span(l[m])
        BY <2>1, <2>3, <4>1 DEF Layout, ListAt
      <4>3. 1 \in 1 .. L /\ L \in 1 .. L
        BY <3>2
      <4>4. b[t[1]] = Len(data)
        BY <1>10, <2>4, <2>7, <4>2, <4>3
      <4>5. ASSUME NEW m \in 1 .. L PROVE b[t[m + 1]] = b[t[m]] + Span(t[m])
        <5>1. CASE m = L
          BY <1>9, <1>10, <2>4, <2>7, <4>2, <4>3, <5>1
        <5>2. CASE m # L
          <6>1. m \in 1 .. L - 1 /\ m + 1 \in 1 .. L
            BY <5>2
          <6>2. t[m] = l[m] /\ t[m + 1] = l[m + 1] /\ l[m] \in Placed /\ l[m + 1] \in Placed
            BY <2>4, <2>7, <6>1
          <6> QED BY <1>10, <4>2, <6>1, <6>2
        <5> QED BY <5>1, <5>2
      <4> QED BY <4>4, <4>5
    <3> QED BY <3>1, <3>2
  <2>9. (L + 1) - 1 = L
    OBVIOUS
  <2>10. /\ b[t[1]] = Len(data')
         /\ b[t[Len(t)]] + Span(t[Len(t)])' = up
         /\ \A m \in 1 .. Len(t) - 1 : b[t[m + 1]] = b[t[m]] + Span(t[m])'
    BY <1>6, <1>8, <1>9, <2>4, <2>5, <2>8, <2>9
  <2>11. t = listed'
    BY <2>1, <2>2
  <2>12. PICK a : a = b
    OBVIOUS
  <2>13. PICK e : e = up
    OBVIOUS
  <2>14. /\ a[t[1]] = Len(data')
         /\ a[t[Len(t)]] + Span(t[Len(t)])' = e
         /\ \A m \in 1 .. Len(t) - 1 : a[t[m + 1]] = a[t[m]] + Span(t[m])'
    BY <2>10, <2>12, <2>13
  <2>15. phase' = "stopping" \/ ListAt(a, e)'
    BY <2>6, <2>11, <2>14, ListAtNext
  <2> QED BY <2>12, <2>13, <2>15
<1>17. Layout(b, up)'
  BY <1>11, <1>12, <1>13, <1>14, <1>15, <1>16 DEF Layout
<1> QED BY <1>4, <1>9, <1>10, <1>17 DEF Extended

LEMMA TailSplit ==
  ASSUME NEW S, NEW l \in Seq(S), l # <<>>
  PROVE  Range(l) = Range(Tail(l)) \cup {Head(l)}
<1>1. PICK t : t = Tail(l)
  OBVIOUS
<1>2. PICK L \in Nat \ {0} : L = Len(l)
  BY TailIs
<1>3. /\ DOMAIN l = 1 .. L /\ Head(l) = l[1] /\ DOMAIN t = 1 .. L - 1
      /\ \A k \in 1 .. L - 1 : t[k] = l[k + 1]
  BY <1>1, <1>2, TailIs
<1>4. \A k \in 1 .. L : k = 1 \/ (k - 1 \in 1 .. L - 1 /\ (k - 1) + 1 = k)
  OBVIOUS
<1>5. 1 \in 1 .. L /\ \A k \in 1 .. L - 1 : k + 1 \in 1 .. L
  OBVIOUS
<1>6. ASSUME NEW x \in Range(l) PROVE x \in Range(t) \cup {Head(l)}
  <2>1. PICK k \in 1 .. L : x = l[k]
    BY <1>3 DEF Range
  <2>2. CASE k = 1
    BY <1>3, <2>1, <2>2
  <2>3. CASE k # 1
    <3>1. PICK h \in 1 .. L - 1 : h + 1 = k
      BY <1>4, <2>3
    <3>2. t[h] = x
      BY <1>3, <2>1, <3>1
    <3> QED BY <1>3, <3>2 DEF Range
  <2> QED BY <2>2, <2>3
<1>7. ASSUME NEW x \in Range(t) PROVE x \in Range(l)
  <2>1. PICK k \in 1 .. L - 1 : x = t[k]
    BY <1>3 DEF Range
  <2>2. x = l[k + 1]
    BY <1>3, <2>1
  <2> QED BY <1>3, <1>5, <2>2 DEF Range
<1>8. Head(l) \in Range(l)
  BY <1>3, <1>5 DEF Range
<1> QED BY <1>1, <1>6, <1>7, <1>8

(* The first frame of the list is written, at its place. *)
LEMMA LayoutWrites ==
  ASSUME Inv, OrderInv, NEW at \in [Ids -> Nat], NEW top \in Nat, Layout(at, top),
         phase # "stopping", phase' # "stopping", frames' = frames, listed # <<>>,
         listed' = Tail(listed), data' = data \o Written(Head(listed))
  PROVE  Layout(at, top)' /\ Placed' = Placed
<1>1. /\ listed \in Seq(Ids) /\ data \in Seq(FileUnit) /\ frames \in Seq(Kinds)
      /\ Range(listed) \subseteq DOMAIN frames
  BY DEF Inv, TypeOK
<1>2. PICK l \in Seq(Ids) : l = listed
  BY <1>1
<1>3. PICK t : t = Tail(l)
  OBVIOUS
<1>4. PICK L \in Nat \ {0} : L = Len(l)
  BY <1>2, TailIs
<1>5. /\ DOMAIN l = 1 .. L /\ Head(l) = l[1] /\ t \in Seq(Ids) /\ DOMAIN t = 1 .. L - 1
      /\ \A k \in 1 .. L - 1 : t[k] = l[k + 1]
  BY <1>2, <1>3, <1>4, TailIs
<1>6. L - 1 \in Nat /\ 1 \in 1 .. L /\ L \in 1 .. L
  OBVIOUS
<1>7. Len(t) = L - 1
  BY <1>5, <1>6, LenProperties
<1>8. PICK i \in DOMAIN frames : i = l[1]
  BY <1>1, <1>2, <1>5, <1>6 DEF Range
<1>9. data' = data \o Written(i) /\ listed' = t
  BY <1>2, <1>3, <1>5, <1>8
<1>10. PICK D \in Nat : D = Len(data) /\ DOMAIN data = 1 .. D
  BY <1>1
<1>11. PICK w \in Seq(FileUnit) : w = Written(i)
  BY <1>1, WrittenIs
<1>12. PICK z \in Nat \ {0} : z = Span(i) /\ z = Len(w) /\ z = Len(Units(frames[i]))
  BY <1>1, <1>11, SpanIs DEF Span
<1>13. PICK new : new = data'
  OBVIOUS
<1>14. /\ new \in Seq(FileUnit) /\ Len(new) = D + z /\ DOMAIN new = 1 .. D + z
       /\ \A n \in 1 .. D : new[n] = data[n]
       /\ \A u \in 1 .. z : new[D + u] = w[u]
  <2>1. PICK file \in Seq(FileUnit) : file = data
    BY <1>1
  <2>2. new = file \o w
    BY <1>9, <1>11, <1>13, <2>1
  <2>3. Len(file) = D /\ Len(w) = z
    BY <1>10, <1>12, <2>1
  <2>4. new \in Seq(FileUnit) /\ Len(new) = Len(file) + Len(w)
    BY <2>2, ConcatProperties
  <2>5. \A n \in 1 .. Len(file) + Len(w) : new[n] = IF n <= Len(file) THEN file[n] ELSE w[n - Len(file)]
    BY <2>2, ConcatProperties
  <2>6. Len(new) = D + z /\ \A n \in 1 .. D + z : new[n] = IF n <= D THEN data[n] ELSE w[n - D]
    BY <2>1, <2>3, <2>4, <2>5
  <2>7. DOMAIN new = 1 .. D + z
    BY <2>4, <2>6, LenProperties
  <2>8. \A n \in 1 .. D : n \in 1 .. D + z /\ n <= D
    OBVIOUS
  <2>9. \A u \in 1 .. z : D + u \in 1 .. D + z /\ ~(D + u <= D) /\ (D + u) - D = u
    OBVIOUS
  <2>10. \A n \in 1 .. D : new[n] = data[n]
    BY <2>6, <2>8
  <2>11. \A u \in 1 .. z : new[D + u] = w[u]
    BY <2>6, <2>9
  <2> QED BY <2>4, <2>6, <2>7, <2>10, <2>11
<1>15. \A u \in 1 .. z : w[u].frame = i /\ w[u].unit = Units(frames[i])[u]
  <2>1. DOMAIN Units(frames[i]) = 1 .. z
    BY <1>1, <1>12, KindOf, UnitsAre
  <2> QED BY <1>11, <2>1 DEF Written
<1>16. InFile' = InFile \cup {i}
  <2>1. PICK m \in Nat : /\ \A n \in NamesAt : n \in Nat /\ n < m /\ data'[n] = data[n]
                         /\ \A n : n \in NamesAt' <=> n \in NamesAt \/ n = m
                         /\ data'[m].frame = i
    BY <1>1, <1>9, NamesWritten
  <2>2. InFile' = {data'[n].frame : n \in NamesAt'}
    BY DEF InFile
  <2> QED BY <2>1, <2>2 DEF InFile
<1>17. Range(listed) = Range(t) \cup {i}
  BY <1>2, <1>3, <1>5, <1>8, TailSplit
<1>18. Placed' = Placed
  BY <1>9, <1>16, <1>17 DEF Placed, Awaited
<1>19. \A k : Span(k)' = Span(k)
  BY SpanSame
<1>20. \A k \in InFile : at[k] \in Nat /\ Span(k) \in Nat
  BY PlacedIs DEF Placed
<1>21. at[i] = D
  BY <1>2, <1>8, <1>10 DEF Layout, ListAt
<1>22. UnitsAt(at)'
  <2> SUFFICES ASSUME NEW n \in 1 .. D + z
               PROVE  /\ new[n].frame \in InFile \cup {i}
                      /\ at[new[n].frame] < n /\ n <= at[new[n].frame] + Span(new[n].frame)
                      /\ new[n].unit = Units(frames[new[n].frame])[n - at[new[n].frame]]
    <3>1. data' = new /\ DOMAIN new = 1 .. D + z /\ frames' = frames
      BY <1>13, <1>14
    <3> QED BY <1>16, <1>19, <3>1 DEF UnitsAt
  <2>1. CASE n <= D
    <3>1. n \in 1 .. D
      BY <2>1
    <3>2. new[n] = data[n]
      BY <1>14, <3>1
    <3> QED BY <1>10, <3>1, <3>2 DEF Layout, UnitsAt
  <2>2. CASE ~(n <= D)
    <3>1. PICK u \in 1 .. z : n = D + u /\ n - D = u
      <4>1. n - D \in 1 .. z /\ n = D + (n - D)
        BY <2>2
      <4> QED BY <4>1
    <3>2. new[n] = w[u]
      BY <1>14, <3>1
    <3>3. new[n].frame = i /\ new[n].unit = Units(frames[i])[u]
      BY <1>15, <3>2
    <3>4. D < n /\ n <= D + z
      BY <3>1
    <3> QED BY <1>12, <1>21, <3>1, <3>3, <3>4
  <2> QED BY <2>1, <2>2
<1>23. WholeAt(at)'
  <2>1. ASSUME NEW k \in InFile \cup {i}
        PROVE  at[k] + Span(k) <= D + z /\ \A u \in 1 .. Span(k) : new[at[k] + u].frame = k
    <3>1. CASE k = i
      <4>1. D + z <= D + z
        OBVIOUS
      <4>2. at[k] = D /\ Span(k) = z
        BY <1>12, <1>21, <3>1
      <4>3. \A u \in 1 .. z : new[D + u].frame = k
        BY <1>14, <1>15, <3>1
      <4> QED BY <4>1, <4>2, <4>3
    <3>2. CASE k \in InFile
      <4>1. PICK a \in Nat : a = at[k]
        BY <1>20, <3>2
      <4>2. PICK sp \in Nat : sp = Span(k)
        BY <1>20, <3>2
      <4>3. a + sp <= D /\ \A u \in 1 .. sp : data[a + u].frame = k
        BY <1>10, <3>2, <4>1, <4>2 DEF Layout, WholeAt
      <4>4. a + sp <= D + z
        BY <4>3
      <4>5. \A u \in 1 .. sp : a + u \in 1 .. D
        BY <4>3
      <4>6. \A u \in 1 .. sp : new[a + u].frame = k
        BY <1>14, <4>3, <4>5
      <4> QED BY <4>1, <4>2, <4>4, <4>6
    <3> QED BY <3>1, <3>2
  <2> QED BY <1>13, <1>14, <1>16, <1>19, <2>1 DEF WholeAt
<1>24. ApartAt(at)'
  BY <1>18, <1>19 DEF Layout, ApartAt
<1>25. JoinedAt(at)'
  BY <1>18, <1>19 DEF Layout, JoinedAt
<1>26. TopAt(at, top)'
  BY <1>18, <1>19 DEF Layout, TopAt
<1>27. ListAt(at, top)'
  <2>1. /\ at[l[L]] + Span(l[L]) = top
        /\ \A m \in 1 .. L - 1 : at[l[m + 1]] = at[l[m]] + Span(l[m])
    BY <1>2, <1>4 DEF Layout, ListAt
  <2>2. CASE L = 1
    <3>1. listed' = <<>>
      BY <1>5, <1>7, <1>9, <2>2, EmptySeq
    <3>2. top = D + z
      BY <1>8, <1>12, <1>21, <2>1, <2>2
    <3> QED BY <1>13, <1>14, <3>1, <3>2 DEF ListAt
  <2>3. CASE L # 1
    <3>1. PICK K \in Nat \ {0} : K = L - 1 /\ K + 1 = L /\ 1 \in 1 .. K /\ K \in 1 .. K
      BY <2>3
    <3>2. t # <<>> /\ Len(t) = K
      BY <1>7, <3>1
    <3>3. t[1] = l[2] /\ t[K] = l[L]
      BY <1>5, <3>1
    <3>4. at[l[2]] = at[l[1]] + Span(l[1])
      BY <2>1, <3>1
    <3>5. at[t[1]] = Len(data')
      BY <1>8, <1>12, <1>13, <1>14, <1>21, <3>3, <3>4
    <3>6. ASSUME NEW m \in 1 .. K - 1 PROVE at[t[m + 1]] = at[t[m]] + Span(t[m])
      <4>1. m \in 1 .. L - 1 /\ m + 1 \in 1 .. L - 1
        BY <3>1
      <4>2. t[m] = l[m + 1] /\ t[m + 1] = l[(m + 1) + 1]
        BY <1>5, <4>1
      <4> QED BY <2>1, <4>1, <4>2
    <3> QED BY <1>9, <1>19, <2>1, <3>2, <3>3, <3>5, <3>6, ListAtNext
  <2> QED BY <2>2, <2>3
<1> QED BY <1>18, <1>22, <1>23, <1>24, <1>25, <1>26, <1>27 DEF Layout

-----------------------------------------------------------------------------
(***************************************************************************)
(* The runs that are spoken of: the queue has a name without "/", sending  *)
(* workers did not race, no index overtook the data, the writer did not go *)
(* over an object made after cleanup, and no start took another line for   *)
(* the name of a frame.                                                    *)
(***************************************************************************)
Calm == destination = "flat" /\ ~raced /\ ~overtaken /\ ~late /\ ~misled

LEMMA StepContinues == ASSUME Inv, [Next]_vars PROVE Continues
<1>1. frames \in Seq(Kinds)
  BY DEF Inv, TypeOK
<1>2. ASSUME UNCHANGED <<sent, frames>>, early' = early PROVE Continues
  BY <1>2 DEF Continues
<1>3. ASSUME UNCHANGED <<sent, frames>>, NEW w, NEW i, ReadSize(w, i) PROVE Continues
  BY <1>3 DEF Continues, ReadSize
<1>4. ASSUME UNCHANGED <<sent, frames>>, early' = EarlyBy("sent") PROVE Continues
  <2>1. \A j : <<"sent", j>>[1] = "sent"
    OBVIOUS
  <2> QED BY <1>4, <2>1 DEF Continues, EarlyBy
<1>5. ASSUME NEW kind \in Kinds, handler_stomp_send(kind) PROVE Continues
  <2>1. frames' = Append(frames, kind) /\ sent' = sent /\ early' = early
    BY <1>5 DEF handler_stomp_send, ghosts
  <2>2. \A j \in DOMAIN frames : frames'[j] = frames[j]
    BY <1>1, <2>1, AppendIs
  <2> QED BY <2>1, <2>2 DEF Continues
<1>6. ASSUME NEW i \in Ids, CountNul(i) PROVE Continues
  BY <1>2, <1>6 DEF CountNul, ghosts
<1>7. CASE Manager
  BY <1>2, <1>3, <1>4, <1>7 DEF Manager, alloc_qinfo, LinkQinfo, UnpersistScan, unpersist,
     add_frame_into_qinfo, persist_frame, enqueue, ghosts
<1>8. CASE Writer
  <2>1. CASE persist_queue_context
    <3>1. UNCHANGED <<sent, frames>>
      BY <2>1 DEF persist_queue_context
    <3>2. early' = early \/ \E i : ReadSize("written", i)
      BY <2>1, ContextIs
    <3> QED BY <1>2, <1>3, <3>1, <3>2
  <2> QED BY <1>2, <1>8, <2>1 DEF Writer, TestStop, ListEmpty, persist_queue_info, persistent_worker,
             ContextDone, ghosts
<1>9. ASSUME NEW s \in Senders, Sender(s) PROVE Continues
  <2>1. CASE SendAndRead(s)
    BY <2>1 DEF SendAndRead, ReadSize, Continues
  <2> QED BY <1>2, <1>9, <2>1 DEF Sender, dequeue, update_index_sent, SendingDone, ghosts
<1>10. CASE cleanup_persistent_worker
  BY <1>2, <1>10 DEF cleanup_persistent_worker, ghosts
<1>11. CASE Restart
  BY <1>4, <1>11 DEF Restart
<1>12. CASE UNCHANGED vars
  BY <1>2, <1>12 DEF vars, ghosts
<1> QED BY <1>5, <1>6, <1>7, <1>8, <1>9, <1>10, <1>11, <1>12 DEF Next, int_handle, Crash

LEMMA CalmBefore == ASSUME Inv, [Next]_vars, Calm' PROVE Calm
<1>1. ASSUME UNCHANGED <<destination, ghosts>> PROVE Calm
  BY <1>1 DEF Calm, ghosts, mishaps
<1>2. ASSUME UNCHANGED <<destination, mishaps>> PROVE Calm
  BY <1>2 DEF Calm, mishaps
<1>3. ASSUME NEW kind \in Kinds, handler_stomp_send(kind) PROVE Calm
  BY <1>1, <1>3 DEF handler_stomp_send
<1>4. ASSUME NEW i \in Ids, CountNul(i) PROVE Calm
  BY <1>1, <1>4 DEF CountNul
<1>5. CASE Manager
  <2>1. CASE unpersist
    <3>1. misled' = (misled \/ Misread(unpersist_queue_info)) /\ UNCHANGED <<destination, raced, overtaken, late>>
      BY <2>1 DEF unpersist
    <3>2. destination' = "flat" /\ ~raced' /\ ~overtaken' /\ ~late' /\ ~misled'
      BY DEF Calm
    <3>3. ~misled
      BY <3>1, <3>2, Zenon
    <3> QED BY <3>1, <3>2, <3>3 DEF Calm
  <2> QED BY <1>1, <1>2, <1>5, <2>1 DEF Manager, alloc_qinfo, LinkQinfo, UnpersistScan,
             add_frame_into_qinfo, persist_frame, enqueue
<1>6. CASE Writer
  <2>1. CASE persist_queue_info
    <3>1. late' = (late \/ phase = "stopping") /\ UNCHANGED <<destination, raced, overtaken, misled>>
      BY <2>1 DEF persist_queue_info
    <3>2. destination' = "flat" /\ ~raced' /\ ~overtaken' /\ ~late' /\ ~misled'
      BY DEF Calm
    <3>3. ~late
      BY <3>1, <3>2, Zenon
    <3> QED BY <3>1, <3>2, <3>3 DEF Calm
  <2> QED BY <1>1, <1>2, <1>6, <2>1 DEF Writer, TestStop, ListEmpty, persistent_worker, ContextDone,
             persist_queue_context
<1>7. ASSUME NEW s \in Senders, Sender(s) PROVE Calm
  <2>1. CASE dequeue(s)
    <3>1. raced' = (raced \/ Busy # {}) /\ UNCHANGED <<destination, overtaken, late, misled>>
      BY <2>1 DEF dequeue
    <3>2. destination' = "flat" /\ ~raced' /\ ~overtaken' /\ ~late' /\ ~misled'
      BY DEF Calm
    <3>3. ~raced
      BY <3>1, <3>2, Zenon
    <3> QED BY <3>1, <3>2, <3>3 DEF Calm
  <2> QED BY <1>1, <1>2, <1>7, <2>1 DEF Sender, SendAndRead, update_index_sent, SendingDone
<1>8. CASE cleanup_persistent_worker
  BY <1>1, <1>8 DEF cleanup_persistent_worker
<1>9. CASE Restart
  <2>1. overtaken' = (overtaken \/ sent_index > Len(data)) /\ UNCHANGED <<destination, raced, late, misled>>
    BY <1>9 DEF Restart
  <2>2. destination' = "flat" /\ ~raced' /\ ~overtaken' /\ ~late' /\ ~misled'
    BY DEF Calm
  <2>3. ~overtaken
    BY <2>1, <2>2, Zenon
  <2> QED BY <2>1, <2>2, <2>3 DEF Calm
<1>10. CASE UNCHANGED vars
  BY <1>1, <1>10 DEF vars
<1> QED BY <1>3, <1>4, <1>5, <1>6, <1>7, <1>8, <1>9, <1>10 DEF Next, int_handle, Crash

(* What the calm after a step says of it. *)
LEMMA NotMisled == ASSUME Calm', unpersist PROVE ~Misread(sent_index)
<1>1. misled' = (misled \/ Misread(unpersist_queue_info))
  BY DEF unpersist
<1>2. ~misled'
  BY DEF Calm
<1> QED BY <1>1, <1>2, Zenon DEF unpersist_queue_info

LEMMA NotLate == ASSUME Inv, Calm', persist_queue_info PROVE phase = "run"
<1>1. late' = (late \/ phase = "stopping") /\ writer = "lock"
  BY DEF persist_queue_info
<1>2. ~late'
  BY DEF Calm
<1>3. phase # "stopping"
  BY <1>1, <1>2, Zenon
<1>4. phase # "start"
  BY <1>1 DEF Inv, PhaseInv
<1> QED BY <1>3, <1>4 DEF Inv, TypeOK

(* What a sending worker becomes. *)
Moves(s, p, f, v) ==
  /\ worker'[s].pc = p /\ worker'[s].frame = f /\ worker'[s].value = v
  /\ \A r \in Senders : r # s => worker'[r] = worker[r]

LEMMA DequeueMoves ==
  ASSUME Inv, NEW s \in Senders, dequeue(s)
  PROVE  Moves(s, "send", Head(queue), 0)
<1>1. queue \in Seq(Objects) /\ Range(queue) \subseteq {0} \cup DOMAIN frames /\ queue # <<>>
  BY DEF Inv, TypeOK, dequeue
<1>2. PICK i \in {0} \cup DOMAIN frames : i = Head(queue)
  BY <1>1, TailRange
<1>3. PICK t : t = [pc |-> "send", frame |-> i, value |-> 0]
  OBVIOUS
<1>4. t \in ThreadState /\ t.pc = "send" /\ t.frame = i /\ t.value = 0
  BY <1>3, FramesInIds DEF Inv, ThreadState
<1>5. worker' = [worker EXCEPT ![s] = t]
  BY <1>2, <1>3 DEF dequeue
<1>6. worker'[s] = t /\ \A r \in Senders : r # s => worker'[r] = worker[r]
  BY <1>4, <1>5, WorkerSet DEF Inv
<1> QED BY <1>2, <1>4, <1>6 DEF Moves

LEMMA SendAndReadMoves ==
  ASSUME Inv, NEW s \in Senders, SendAndRead(s)
  PROVE  Moves(s, IF linked THEN "update" ELSE "done", worker[s].frame, index_sent + size[worker[s].frame])
<1>1. PICK t \in ThreadState : t = worker[s]
  BY DEF Inv, TypeOK
<1>2. t.frame \in {0} \cup DOMAIN frames
  BY <1>1 DEF Inv, WorkerInv, SendAndRead
<1>3. PICK p \in {"update", "done"} : p = IF linked THEN "update" ELSE "done"
  OBVIOUS
<1>4. PICK v \in Nat : v = index_sent + size[t.frame]
  BY <1>2, FramesInIds DEF Inv, TypeOK
<1>5. worker' = [worker EXCEPT ![s].pc = p, ![s].value = v]
  <2>1. worker' = [worker EXCEPT ![s].pc = IF get_qinfo THEN "update" ELSE "done",
                                 ![s].value = index_sent + size[worker[s].frame]]
    BY DEF SendAndRead
  <2>2. p = IF get_qinfo THEN "update" ELSE "done"
    BY <1>3 DEF get_qinfo
  <2> HIDE DEF get_qinfo
  <2> QED BY <1>1, <1>4, <2>1, <2>2
<1>6. PICK u : u = [t EXCEPT !.pc = p]
  OBVIOUS
<1>10. u \in ThreadState /\ u.pc = p /\ u.frame = t.frame
  <2>1. p \in {"idle", "send", "update", "stale", "done"}
    BY <1>3
  <2> QED BY <1>6, <2>1, ThreadSet
<1>11. PICK x : x = [u EXCEPT !.value = v]
  OBVIOUS
<1>7. x \in ThreadState /\ x.pc = p /\ x.frame = t.frame /\ x.value = v
  <2>1. u.pc \in {"idle", "send", "update", "stale", "done"} /\ u.frame \in Nat
    BY <1>10 DEF ThreadState
  <2>2. u = [pc |-> u.pc, frame |-> u.frame, value |-> u.value]
    BY <1>10 DEF ThreadState
  <2>3. x = [pc |-> u.pc, frame |-> u.frame, value |-> v]
    BY <1>11, <2>2
  <2> QED BY <1>10, <2>1, <2>3 DEF ThreadState
<1>8. worker' = [worker EXCEPT ![s] = x]
  BY <1>1, <1>5, <1>6, <1>11 DEF Inv, TypeOK
<1>9. worker'[s] = x /\ \A r \in Senders : r # s => worker'[r] = worker[r]
  BY <1>7, <1>8, WorkerSet DEF Inv
<1> QED BY <1>1, <1>3, <1>4, <1>7, <1>9 DEF Moves

LEMMA UpdateMoves ==
  ASSUME Inv, NEW s \in Senders, update_index_sent(s)
  PROVE  Moves(s, "done", worker[s].frame, worker[s].value)
<1>1. PICK t \in ThreadState : t = worker[s]
  BY DEF Inv, TypeOK
<1>2. PICK u : u = [t EXCEPT !.pc = "done"]
  OBVIOUS
<1>3. u \in ThreadState /\ u.pc = "done" /\ u.frame = t.frame /\ u.value = t.value
  BY <1>2, ThreadSet
<1>4. worker' = [worker EXCEPT ![s] = u]
  BY <1>1, <1>2 DEF update_index_sent
<1>5. worker'[s] = u /\ \A r \in Senders : r # s => worker'[r] = worker[r]
  BY <1>3, <1>4, WorkerSet DEF Inv
<1> QED BY <1>1, <1>3, <1>5 DEF Moves

LEMMA DoneMoves ==
  ASSUME Inv, NEW s \in Senders, SendingDone(s)
  PROVE  Moves(s, "idle", 0, 0)
<1>1. PICK u \in ThreadState : u = Resting /\ u.pc = "idle" /\ u.frame = 0 /\ u.value = 0
  BY RestingIs DEF Resting
<1>2. worker' = [worker EXCEPT ![s] = u]
  BY <1>1 DEF SendingDone
<1>3. worker'[s] = u /\ \A r \in Senders : r # s => worker'[r] = worker[r]
  BY <1>2, WorkerSet DEF Inv
<1> QED BY <1>1, <1>3 DEF Moves

LEMMA CleanupMoves ==
  ASSUME Inv, cleanup_persistent_worker, NEW s \in Senders
  PROVE  /\ worker'[s].frame = worker[s].frame /\ worker'[s].value = worker[s].value
         /\ worker'[s].pc = IF worker[s].pc = "update" THEN "stale" ELSE worker[s].pc
<1>1. PICK t \in ThreadState : t = worker[s]
  BY DEF Inv, TypeOK
<1>2. worker'[s] = IF t.pc = "update" THEN [t EXCEPT !.pc = "stale"] ELSE t
  BY <1>1 DEF cleanup_persistent_worker
<1>3. PICK u : u = [t EXCEPT !.pc = "stale"]
  OBVIOUS
<1>4. u.pc = "stale" /\ u.frame = t.frame /\ u.value = t.value
  BY <1>3, ThreadSet
<1> QED BY <1>1, <1>2, <1>3, <1>4

(* The frames in hand that the index does not count yet, and all those     *)
(* that are still to be sent or counted.                                   *)
Hand == {worker[s].frame : s \in {t \in Senders : worker[t].pc \in {"send", "update"}}}
Pending == Hand \cup Range(queue) \cup Enqueuing

LEMMA SoleWorker ==
  ASSUME NEW w, NEW s \in Senders, \A t \in Senders : t # s => w[t].pc = "idle"
  PROVE  /\ {w[t].frame : t \in {r \in Senders : w[r].pc # "idle"}}
              = IF w[s].pc = "idle" THEN {} ELSE {w[s].frame}
         /\ {w[t].frame : t \in {r \in Senders : w[r].pc \in {"send", "update"}}}
              = IF w[s].pc \in {"send", "update"} THEN {w[s].frame} ELSE {}
<1>1. \A t \in Senders : w[t].pc # "idle" => t = s
  OBVIOUS
<1>2. "idle" \notin {"send", "update"}
  OBVIOUS
<1>3. \A t \in Senders : w[t].pc \in {"send", "update"} => t = s
  BY <1>1, <1>2
<1> QED BY <1>1, <1>3

(* What is in hand when one worker is busy at most. *)
HandOf(w, s) == IF w[s].pc \in {"send", "update"} THEN {w[s].frame} ELSE {}
InHandOf(w, s) == IF w[s].pc = "idle" THEN {} ELSE {w[s].frame}

LEMMA SoleNow ==
  ASSUME NEW s \in Senders, \A t \in Senders : t # s => worker[t].pc = "idle"
  PROVE  Hand = HandOf(worker, s) /\ InHand = InHandOf(worker, s)
<1>1. PICK w : w = worker
  OBVIOUS
<1>2. /\ {w[t].frame : t \in {r \in Senders : w[r].pc # "idle"}} = InHandOf(w, s)
      /\ {w[t].frame : t \in {r \in Senders : w[r].pc \in {"send", "update"}}} = HandOf(w, s)
  BY <1>1, SoleWorker DEF HandOf, InHandOf
<1> QED BY <1>1, <1>2 DEF Hand, InHand, Busy

LEMMA SoleNext ==
  ASSUME NEW s \in Senders, \A t \in Senders : t # s => worker'[t].pc = "idle"
  PROVE  Hand' = HandOf(worker', s) /\ InHand' = InHandOf(worker', s)
<1>1. PICK w : w = worker'
  OBVIOUS
<1>2. /\ {w[t].frame : t \in {r \in Senders : w[r].pc # "idle"}} = InHandOf(w, s)
      /\ {w[t].frame : t \in {r \in Senders : w[r].pc \in {"send", "update"}}} = HandOf(w, s)
  BY <1>1, SoleWorker DEF HandOf, InHandOf
<1> QED BY <1>1, <1>2 DEF Hand, InHand, Busy

(* In these runs: nothing is freed, one worker is busy at a time, no frame *)
(* is made up, only a linked object counts, and nothing of an unlinked one *)
(* is there.                                                               *)
Idle == \A s \in Senders : worker[s].pc = "idle"
Genuine == 0 \notin Range(queue) /\ \A s \in Senders : worker[s].pc # "idle" => worker[s].frame # 0
Still ==
  /\ freed = {} /\ (~stored => data = <<>>) /\ (linked \/ manager = "link" => stored)
  /\ phase = "start" => queue = <<>> /\ Idle
  /\ phase = "run" /\ ~linked =>
       /\ data = <<>> /\ listed = <<>> /\ queue = <<>> /\ Idle
       /\ manager \notin {"add", "head", "enqueue"}
  /\ manager = "restore" => linked
  /\ phase = "stopping" => writer \in {"idle", "lock"}
  /\ Genuine
  /\ \A s, t \in Senders : worker[s].pc # "idle" /\ worker[t].pc # "idle" => s = t
  /\ \A s \in Senders : /\ worker[s].pc = "update" => linked
                        /\ worker[s].pc = "stale" => phase = "stopping"

LEMMA GenuineSame ==
  ASSUME Genuine, queue' = queue, worker' = worker
  PROVE  Genuine'
BY DEF Genuine

LEMMA GenuineRestored ==
  ASSUME Inv, Still, Calm', unpersist
  PROVE  Genuine'
<1>1. PICK x \in Nat : x = sent_index
  BY DEF Inv, TypeOK
<1>2. PICK found : found = unpersist_queue_context(x)
  OBVIOUS
<1>3. ~Misread(x)
  BY <1>1, NotMisled
<1>4. found \in Seq(FoundSet) /\ \A n \in DOMAIN found : Whole(found[n])
  BY <1>2, <1>3, UnpersistFinds DEF Inv
<1>5. PICK ids : ids = IdsOf(found)
  OBVIOUS
<1>6. DOMAIN ids = DOMAIN found /\ \A n \in DOMAIN found : ids[n] \in DOMAIN frames
  BY <1>4, <1>5 DEF IdsOf, Whole
<1>7. DOMAIN frames \subseteq Nat \ {0}
  BY FramesInIds DEF Inv
<1>8. DOMAIN found = 1 .. Len(found) /\ Len(found) \in Nat
  BY <1>4
<1>9. ids \in Seq(Nat)
  <2>1. \A n \in 1 .. Len(found) : ids[n] \in Nat
    BY <1>6, <1>7, <1>8
  <2>2. PICK l \in Nat : l = Len(found)
    BY <1>8
  <2>3. ids \in [1 .. l -> Nat]
    BY <1>5, <1>8, <2>1, <2>2 DEF IdsOf
  <2> QED BY <2>2, <2>3
<1>10. queue = <<>> /\ queue' = queue \o ids /\ worker' = worker /\ Idle
  BY <1>1, <1>2, <1>5 DEF unpersist, unpersist_queue_info, IdsOf, Still, Inv, PhaseInv
<1>11. queue' = ids
  BY <1>9, <1>10
<1>12. 0 \notin Range(ids)
  BY <1>6, <1>7 DEF Range
<1> QED BY <1>10, <1>11, <1>12 DEF Genuine, Idle

LEMMA GenuineDequeue ==
  ASSUME Inv, Genuine, NEW s \in Senders, dequeue(s), Moves(s, "send", Head(queue), 0)
  PROVE  Genuine'
<1>1. queue \in Seq(Objects) /\ queue # <<>> /\ queue' = Tail(queue)
  BY DEF Inv, TypeOK, dequeue
<1>2. Range(queue') \subseteq Range(queue) /\ Head(queue) \in Range(queue)
  BY <1>1, TailRange
<1> QED BY <1>2 DEF Genuine, Moves

LEMMA StillSame ==
  ASSUME Still, worker' = worker, UNCHANGED <<phase, freed, data, linked, listed, queue>>,
         stored' = stored \/ stored' = TRUE, manager' = "link" => stored',
         manager' = "restore" => linked,
         manager' \in {"add", "head", "enqueue"} => manager \in {"add", "head", "enqueue"} \/ linked,
         writer' = writer \/ phase # "stopping" \/ writer' = "idle"
  PROVE  Still'
<1>1. Idle' = Idle
  BY DEF Idle
<1>2. Genuine'
  BY GenuineSame DEF Still
<1> QED BY <1>1, <1>2 DEF Still

LEMMA StillManager ==
  ASSUME Inv, LinkedInv, Still, Calm, Calm', Manager
  PROVE  Still'
<1>a. ASSUME queue' = queue, worker' = worker PROVE Genuine'
  BY <1>a, GenuineSame DEF Still
<1>1. CASE alloc_qinfo
  <2>1. stored' = TRUE
    BY <1>1 DEF alloc_qinfo
  <2> QED BY <1>1, <2>1, StillSame DEF alloc_qinfo
<1>2. CASE LinkQinfo
  <2>1. Idle' = Idle
    BY <1>2 DEF Idle, LinkQinfo
  <2>2. Genuine'
    BY <1>a, <1>2 DEF LinkQinfo
  <2> QED BY <1>2, <2>1, <2>2 DEF Still, LinkQinfo, files
<1>3. CASE UnpersistScan
  <2>4. Genuine'
    BY <1>a, <1>3 DEF UnpersistScan
  <2>1. Idle' = Idle
    BY <1>3 DEF Idle, UnpersistScan
  <2>2. CASE destination = "flat" /\ stored
    BY <1>3, <2>1, <2>2, <2>4 DEF Still, UnpersistScan, files
  <2>3. CASE ~(destination = "flat" /\ stored)
    <3>1. phase = "start" /\ manager = "idle" /\ phase' = "run" /\ manager' = manager
      BY <1>3, <2>3 DEF UnpersistScan
    <3>2. data = <<>> /\ listed = <<>>
      BY <2>3, <3>1 DEF Still, Calm, Inv, PhaseInv
    <3> QED BY <1>3, <2>1, <2>4, <3>1, <3>2 DEF Still, UnpersistScan, files, Idle
  <2> QED BY <2>2, <2>3
<1>4. CASE unpersist
  <2>1. Idle' = Idle
    BY <1>4 DEF Idle, unpersist
  <2>2. phase = "start" /\ phase' = "run" /\ linked' /\ linked /\ manager' = "idle"
    BY <1>4 DEF unpersist, Inv, PhaseInv, Still
  <2>3. UNCHANGED <<freed, stored, data, worker>>
    BY <1>4 DEF unpersist, files
  <2>4. Genuine'
    BY <1>4, GenuineRestored
  <2> QED BY <2>1, <2>2, <2>3, <2>4 DEF Still, Idle
<1>5. CASE add_frame_into_qinfo
  <2>1. Idle' = Idle
    BY <1>5 DEF Idle, add_frame_into_qinfo
  <2>2. Genuine'
    BY <1>a, <1>5 DEF add_frame_into_qinfo
  <2> QED BY <1>5, <2>1, <2>2 DEF Still, add_frame_into_qinfo, files
<1>6. CASE persist_frame
  BY <1>6, StillSame DEF persist_frame, files
<1>7. CASE enqueue
  <2>1. Idle' = Idle
    BY <1>7 DEF Idle, enqueue
  <2>2. phase # "start" /\ Current \in Ids
    BY <1>7, CurrentIs DEF enqueue
  <2>6. 0 \notin Ids
    BY PersistenceAssumption DEF Ids
  <2>7. Ids \subseteq Objects
    BY FramesInIds DEF Inv
  <2>3. queue \in Seq(Objects) /\ Current \in Objects /\ Current # 0
    BY <2>2, <2>6, <2>7 DEF Inv, TypeOK
  <2>4. Range(queue)' = Range(queue) \cup {Current}
    BY <1>7, <2>3, AppendRange DEF enqueue
  <2>5. Genuine'
    BY <1>7, <2>3, <2>4 DEF Still, Genuine, enqueue
  <2> QED BY <1>7, <2>1, <2>2, <2>5 DEF Still, enqueue, files
<1> QED BY <1>1, <1>2, <1>3, <1>4, <1>5, <1>6, <1>7 DEF Manager

LEMMA StillWriter ==
  ASSUME Inv, Still, Calm', Writer
  PROVE  Still'
<1>1. CASE persist_queue_context
  <2>1. linked /\ stored /\ writer' = writer
    BY <1>1 DEF Inv, TypeOK, Still, persist_queue_context
  <2>2. Idle' = Idle
    BY <1>1 DEF Idle, persist_queue_context
  <2>3. Genuine'
    BY <1>1, GenuineSame DEF Still, persist_queue_context
  <2> QED BY <1>1, <2>1, <2>2, <2>3 DEF Still, persist_queue_context
<1>2. CASE persist_queue_info
  <2>1. phase = "run"
    BY <1>2, NotLate
  <2> QED BY <1>2, <2>1, StillSame DEF persist_queue_info, Still
<1>3. CASE persistent_worker
  <2>1. phase # "stopping"
    BY <1>3 DEF persistent_worker, Still
  <2> QED BY <1>3, <2>1, StillSame DEF persistent_worker, files, Still
<1>4. CASE TestStop \/ ListEmpty \/ ContextDone
  BY <1>4, StillSame DEF TestStop, ListEmpty, ContextDone, files, Still
<1> QED BY <1>1, <1>2, <1>3, <1>4 DEF Writer

LEMMA StillSender ==
  ASSUME Inv, Still, Calm', NEW s \in Senders, Sender(s)
  PROVE  Still'
<1>1. UNCHANGED <<phase, stored, data, linked, listed, manager, writer>>
  BY DEF Sender, dequeue, SendAndRead, update_index_sent, SendingDone, files
<1>2. CASE dequeue(s)
  <2>1. Moves(s, "send", Head(queue), 0)
    BY <1>2, DequeueMoves
  <2>2. Idle
    BY <1>2 DEF dequeue, Calm, Busy, Idle
  <2>3. phase # "start" /\ ~(phase = "run" /\ ~linked) /\ freed' = freed
    BY <1>2 DEF dequeue, Still
  <2>4. Genuine'
    BY <1>2, <2>1, GenuineDequeue DEF Still
  <2> QED BY <1>1, <2>1, <2>2, <2>3, <2>4 DEF Still, Moves, Idle
<1>3. CASE ~dequeue(s)
  <2>1. PICK p, f, v : /\ Moves(s, p, f, v) /\ (p = "update" => linked) /\ p # "stale"
                       /\ p = "idle" \/ f = worker[s].frame
    <3>1. CASE SendAndRead(s)
      BY <3>1, SendAndReadMoves
    <3>2. CASE update_index_sent(s)
      BY <3>2, UpdateMoves
    <3>3. CASE SendingDone(s)
      BY <3>3, DoneMoves
    <3> QED BY <1>3, <3>1, <3>2, <3>3 DEF Sender
  <2>2. worker[s].pc # "idle"
    BY <1>3 DEF Sender, SendAndRead, update_index_sent, SendingDone
  <2>3. freed' = freed /\ queue' = queue
    BY <1>3 DEF Sender, SendAndRead, update_index_sent, SendingDone, Calm
  <2>4. phase # "start" /\ ~(phase = "run" /\ ~linked)
    BY <2>2 DEF Still, Idle
  <2>5. \A r \in Senders : r # s => worker[r].pc = "idle" /\ worker'[r] = worker[r]
    BY <2>1, <2>2 DEF Still, Moves
  <2>6. Genuine'
    BY <2>1, <2>2, <2>3, <2>5 DEF Still, Genuine, Moves
  <2> QED BY <1>1, <2>1, <2>3, <2>4, <2>5, <2>6 DEF Still, Moves
<1> QED BY <1>2, <1>3

LEMMA StillStops ==
  ASSUME Inv, Still, cleanup_persistent_worker
  PROVE  Still'
<1>1. \A s \in Senders : /\ worker'[s].pc = IF worker[s].pc = "update" THEN "stale" ELSE worker[s].pc
                         /\ worker'[s].frame = worker[s].frame
  BY CleanupMoves
<1>2. /\ phase' = "stopping" /\ phase = "run" /\ linked' = FALSE
      /\ UNCHANGED <<freed, stored, data, manager, writer, queue>> /\ writer \in {"idle", "lock"}
  BY DEF cleanup_persistent_worker, free_qinfo, files
<1>3. manager # "restore"
  BY <1>2 DEF Inv, PhaseInv
<1>4. manager = "link" => stored
  BY DEF Still
<1>5. \A s, t \in Senders : worker'[s].pc # "idle" /\ worker'[t].pc # "idle" => s = t
  BY <1>1 DEF Still
<1>6. \A s \in Senders : worker'[s].pc # "update"
  BY <1>1
<1>7. Genuine'
  BY <1>1, <1>2 DEF Still, Genuine
<1> QED BY <1>2, <1>3, <1>4, <1>5, <1>6, <1>7 DEF Still

LEMMA StillRestart ==
  ASSUME Inv, Still, Restart
  PROVE  Still'
<1>1. \A s \in Senders : worker'[s].pc = "idle"
  BY DEF Restart, Resting
<1>2. /\ phase' = "start" /\ manager' = "idle" /\ queue' = <<>> /\ freed' = {}
      /\ linked' = FALSE /\ UNCHANGED <<stored, data>>
  BY DEF Restart, files
<1>3. Genuine'
  BY <1>1, <1>2, EmptyRange DEF Genuine
<1> QED BY <1>1, <1>2, <1>3 DEF Still, Idle

LEMMA StillNext ==
  ASSUME Inv, LinkedInv, Calm => Still, [Next]_vars, Calm'
  PROVE  Still'
<1>1. Calm /\ Still
  BY CalmBefore
<1>2. ASSUME NEW kind \in Kinds, handler_stomp_send(kind) PROVE Still'
  <2>1. manager' \in {"add", "create"} /\ (manager' = "add" => linked)
    BY <1>2 DEF handler_stomp_send, get_qinfo
  <2> QED BY <1>1, <1>2, <2>1, StillSame DEF handler_stomp_send, files
<1>3. ASSUME NEW i \in Ids, CountNul(i) PROVE Still'
  BY <1>1, <1>3, StillSame DEF CountNul, files, Still
<1>4. CASE Manager
  BY <1>1, <1>4, StillManager
<1>5. CASE Writer
  BY <1>1, <1>5, StillWriter
<1>6. ASSUME NEW s \in Senders, Sender(s) PROVE Still'
  BY <1>1, <1>6, StillSender
<1>7. CASE cleanup_persistent_worker
  BY <1>1, <1>7, StillStops
<1>8. CASE Restart
  BY <1>1, <1>8, StillRestart
<1>9. CASE UNCHANGED vars
  BY <1>1, <1>9, StillSame DEF vars, files, Still
<1> QED BY <1>2, <1>3, <1>4, <1>5, <1>6, <1>7, <1>8, <1>9 DEF Next, int_handle, Crash

(* What the steps of the sending workers make of the frames in hand.       *)
LEMMA OthersIdle ==
  ASSUME Still, NEW s \in Senders, worker[s].pc # "idle"
  PROVE  \A t \in Senders : t # s => worker[t].pc = "idle"
BY DEF Still

LEMMA DequeueHand ==
  ASSUME Inv, Still, Calm', NEW s \in Senders, dequeue(s)
  PROVE  Hand = {} /\ InHand = {} /\ Hand' = {Head(queue)} /\ InHand' = {Head(queue)}
<1>1. \A t \in Senders : worker[t].pc = "idle"
  BY DEF dequeue, Calm, Busy
<1>2. Moves(s, "send", Head(queue), 0)
  BY DequeueMoves
<1>3. Hand = HandOf(worker, s) /\ InHand = InHandOf(worker, s)
  BY <1>1, SoleNow
<1>4. Hand' = HandOf(worker', s) /\ InHand' = InHandOf(worker', s)
  BY <1>1, <1>2, SoleNext DEF Moves
<1> QED BY <1>1, <1>2, <1>3, <1>4 DEF HandOf, InHandOf, Moves

LEMMA SenderHand ==
  ASSUME Inv, Still, NEW s \in Senders, SendAndRead(s) \/ update_index_sent(s) \/ SendingDone(s)
  PROVE  /\ Hand = HandOf(worker, s) /\ InHand = {worker[s].frame}
         /\ Hand' = HandOf(worker', s) /\ InHand' = InHandOf(worker', s)
         /\ SendAndRead(s) => Hand = InHand /\ InHand' = InHand /\ Hand' = IF linked THEN Hand ELSE {}
         /\ update_index_sent(s) => InHand' = InHand /\ Hand' = {}
         /\ SendingDone(s) => Hand = {} /\ Hand' = {} /\ InHand' = {}
<1>1. worker[s].pc # "idle"
  BY DEF SendAndRead, update_index_sent, SendingDone
<1>2. \A t \in Senders : t # s => worker[t].pc = "idle"
  BY <1>1, OthersIdle
<1>3. Hand = HandOf(worker, s) /\ InHand = InHandOf(worker, s)
  BY <1>2, SoleNow
<1>4. \A t \in Senders : t # s => worker'[t] = worker[t]
  BY SendAndReadMoves, UpdateMoves, DoneMoves DEF Moves
<1>5. Hand' = HandOf(worker', s) /\ InHand' = InHandOf(worker', s)
  BY <1>2, <1>4, SoleNext
<1>6. InHand = {worker[s].frame}
  BY <1>1, <1>3 DEF InHandOf
<1>7. ASSUME SendAndRead(s)
      PROVE  Hand = InHand /\ InHand' = InHand /\ Hand' = IF linked THEN Hand ELSE {}
  <2>1. worker[s].pc = "send"
    BY <1>7 DEF SendAndRead
  <2>2. /\ worker'[s].pc = IF linked THEN "update" ELSE "done"
        /\ worker'[s].frame = worker[s].frame
    BY <1>7, SendAndReadMoves DEF Moves
  <2> QED BY <1>3, <1>5, <2>1, <2>2 DEF HandOf, InHandOf
<1>8. ASSUME update_index_sent(s) PROVE InHand' = InHand /\ Hand' = {}
  <2>1. worker'[s].pc = "done" /\ worker'[s].frame = worker[s].frame
    BY <1>8, UpdateMoves DEF Moves
  <2> QED BY <1>5, <1>6, <2>1 DEF HandOf, InHandOf
<1>9. ASSUME SendingDone(s) PROVE Hand = {} /\ Hand' = {} /\ InHand' = {}
  <2>1. worker'[s].pc = "idle" /\ worker[s].pc = "done"
    BY <1>9, DoneMoves DEF Moves, SendingDone
  <2> QED BY <1>3, <1>5, <2>1 DEF HandOf, InHandOf
<1> QED BY <1>3, <1>5, <1>6, <1>7, <1>8, <1>9

LEMMA CleanupHand ==
  ASSUME Inv, cleanup_persistent_worker
  PROVE  Hand' \subseteq Hand /\ InHand' = InHand
<1>1. \A s \in Senders : /\ worker'[s].frame = worker[s].frame
                         /\ worker'[s].pc = IF worker[s].pc = "update" THEN "stale" ELSE worker[s].pc
  BY CleanupMoves
<1>2. \A s \in Senders : worker'[s].pc \in {"send", "update"} => worker[s].pc \in {"send", "update"}
  BY <1>1
<1>3. \A s \in Senders : worker'[s].pc # "idle" <=> worker[s].pc # "idle"
  BY <1>1
<1>4. Hand' \subseteq Hand
  BY <1>1, <1>2 DEF Hand
<1>5. InHand' = InHand
  BY <1>1, <1>3 DEF InHand, Busy
<1> QED BY <1>4, <1>5

LEMMA RestartHand ==
  ASSUME Restart
  PROVE  Hand' = {} /\ InHand' = {}
<1>1. \A s \in Senders : worker'[s].pc = "idle"
  BY DEF Restart, Resting
<1> QED BY <1>1 DEF Hand, InHand, Busy

LEMMA IdleHand ==
  ASSUME Idle
  PROVE  Hand = {} /\ InHand = {}
BY DEF Idle, Hand, InHand, Busy

LEMMA HandSame ==
  ASSUME worker' = worker
  PROVE  Hand' = Hand /\ InHand' = InHand
BY DEF Hand, InHand, Busy

LEMMA HandKnown ==
  ASSUME Inv, Still
  PROVE  /\ Hand \subseteq DOMAIN frames /\ InHand \subseteq DOMAIN frames /\ Hand \subseteq InHand
         /\ Range(queue) \subseteq DOMAIN frames
<1>1. \A s \in Senders : worker[s].pc # "idle" => worker[s].frame \in DOMAIN frames
  BY DEF Inv, WorkerInv, Still, Genuine
<1>3. Range(queue) \subseteq DOMAIN frames
  BY DEF Inv, TypeOK, Still, Genuine
<1>2. \A s \in Senders : worker[s].pc \in {"send", "update"} => worker[s].pc # "idle"
  OBVIOUS
<1> QED BY <1>1, <1>2, <1>3 DEF Hand, InHand, Busy

(* While the daemon runs, what is pending is in order, and older than the  *)
(* frame the management worker has got.                                    *)
Grows(q) == \A m, n \in DOMAIN q : m < n => q[m] < q[n]
Orderly ==
  phase = "run" =>
    /\ Pending \subseteq Placed /\ Grows(queue)
    /\ \A h \in Hand, q \in Range(queue) : h < q
    /\ manager # "idle" => \A q \in Hand \cup Range(queue) : q < Current
    /\ manager \in {"create", "link", "add"} => Current \notin sent

LEMMA OrderlySame ==
  ASSUME Orderly, phase' = "run" => phase = "run", queue' = queue, Hand' \subseteq Hand,
         Enqueuing' \subseteq Enqueuing, Placed \subseteq Placed', frames' = frames,
         manager' # "idle" => manager # "idle",
         manager' \in {"create", "link", "add"} => manager \in {"create", "link", "add"} /\ sent' = sent
  PROVE  Orderly'
<1> SUFFICES ASSUME phase' = "run" PROVE Orderly'
  BY DEF Orderly
<1>1. Pending' \subseteq Placed'
  BY DEF Orderly, Pending
<1>2. Grows(queue)'
  BY DEF Orderly, Grows
<1>3. \A h \in Hand', q \in Range(queue)' : h < q
  BY DEF Orderly
<1>4. manager' # "idle" => \A q \in Hand' \cup Range(queue)' : q < Current'
  BY DEF Orderly, Current
<1>5. manager' \in {"create", "link", "add"} => Current' \notin sent'
  BY DEF Orderly, Current
<1> QED BY <1>1, <1>2, <1>3, <1>4, <1>5 DEF Orderly

LEMMA OrderlySend ==
  ASSUME Inv, Still, Orderly, NEW kind \in Kinds, handler_stomp_send(kind), Placed' = Placed
  PROVE  Orderly'
<1> SUFFICES ASSUME phase' = "run" PROVE Orderly'
  BY DEF Orderly
<1>1. /\ phase = "run" /\ manager = "idle" /\ queue' = queue /\ sent' = sent
      /\ worker' = worker /\ frames' = Append(frames, kind) /\ manager' \in {"add", "create"}
  BY DEF handler_stomp_send
<1>2. frames \in Seq(Kinds) /\ Len(frames) \in Nat /\ DOMAIN frames = 1 .. Len(frames)
  BY DEF Inv, TypeOK
<1>3. Current' = Len(frames) + 1
  BY <1>1, <1>2 DEF Current
<1>4. \A i \in DOMAIN frames : i < Current'
  BY <1>2, <1>3
<1>5. Hand' = Hand /\ Enqueuing' = {}
  BY <1>1, HandSame DEF Enqueuing
<1>6. Hand \cup Range(queue) \cup sent \subseteq DOMAIN frames
  BY HandKnown DEF Inv, TypeOK
<1>7. Current' \notin sent
  BY <1>2, <1>3, <1>6
<1>8. Pending' \subseteq Placed'
  BY <1>1, <1>5 DEF Orderly, Pending
<1>9. Grows(queue)'
  BY <1>1 DEF Orderly, Grows
<1>10. \A h \in Hand', q \in Range(queue)' : h < q
  BY <1>1, <1>5 DEF Orderly
<1>11. \A q \in Hand' \cup Range(queue)' : q < Current'
  BY <1>1, <1>4, <1>5, <1>6
<1> QED BY <1>1, <1>7, <1>8, <1>9, <1>10, <1>11 DEF Orderly

LEMMA GrowsTail ==
  ASSUME NEW q \in Seq(Objects), q # <<>>, Grows(q)
  PROVE  Grows(Tail(q)) /\ \A x \in Range(Tail(q)) : Head(q) < x
<1>1. PICK t : t = Tail(q)
  OBVIOUS
<1>2. PICK L \in Nat \ {0} : L = Len(q)
  BY TailIs
<1>3. /\ DOMAIN q = 1 .. L /\ Head(q) = q[1] /\ DOMAIN t = 1 .. L - 1
      /\ \A k \in 1 .. L - 1 : t[k] = q[k + 1]
  BY <1>1, <1>2, TailIs
<1>4. 1 \in 1 .. L /\ \A k \in 1 .. L - 1 : k + 1 \in 1 .. L /\ 1 < k + 1
  OBVIOUS
<1>5. \A m, n \in 1 .. L - 1 : m < n => m + 1 < n + 1
  OBVIOUS
<1>6. Grows(t)
  <2> SUFFICES ASSUME NEW m \in 1 .. L - 1, NEW n \in 1 .. L - 1, m < n PROVE t[m] < t[n]
    BY <1>3 DEF Grows
  <2>1. q[m + 1] < q[n + 1]
    BY <1>3, <1>4, <1>5 DEF Grows
  <2> QED BY <1>3, <2>1
<1>7. ASSUME NEW x \in Range(t) PROVE q[1] < x
  <2>1. PICK k \in 1 .. L - 1 : x = t[k]
    BY <1>3 DEF Range
  <2>2. q[1] < q[k + 1]
    BY <1>3, <1>4 DEF Grows
  <2> QED BY <1>3, <2>1, <2>2
<1> QED BY <1>1, <1>3, <1>6, <1>7

LEMMA GrowsAppend ==
  ASSUME NEW q \in Seq(Objects), NEW c \in Objects, Grows(q), \A x \in Range(q) : x < c
  PROVE  Grows(Append(q, c))
<1>1. PICK t : t = Append(q, c)
  OBVIOUS
<1>2. PICK L \in Nat : L = Len(q)
  OBVIOUS
<1>3. /\ DOMAIN q = 1 .. L /\ DOMAIN t = 1 .. L + 1
      /\ \A k \in 1 .. L : t[k] = q[k]
      /\ t[L + 1] = c
  BY <1>1, <1>2, AppendIs
<1>4. \A k \in 1 .. L : q[k] \in Range(q)
  BY <1>3 DEF Range
<1>5. ASSUME NEW m \in 1 .. L + 1, NEW n \in 1 .. L + 1, m < n PROVE t[m] < t[n]
  <2>1. m \in 1 .. L
    BY <1>5
  <2>2. CASE n = L + 1
    BY <1>3, <1>4, <2>1, <2>2
  <2>3. CASE n # L + 1
    <3>1. n \in 1 .. L
      BY <2>3
    <3> QED BY <1>3, <1>5, <2>1, <3>1 DEF Grows
  <2> QED BY <2>2, <2>3
<1> QED BY <1>1, <1>3, <1>5 DEF Grows

LEMMA OrderlyAdd ==
  ASSUME Inv, Orderly, add_frame_into_qinfo,
         phase = "run" => Placed' = Placed \cup {Current}
  PROVE  Orderly'
<1> SUFFICES ASSUME phase' = "run" PROVE Orderly'
  BY DEF Orderly
<1>1. /\ phase = "run" /\ manager = "add" /\ manager' = "head"
      /\ UNCHANGED <<queue, worker, frames, sent>>
  BY DEF add_frame_into_qinfo
<1>2. Hand' = Hand /\ Enqueuing' = {Current} /\ Enqueuing = {} /\ Current' = Current
  BY <1>1, HandSame DEF Enqueuing, Current
<1>3. Pending' \subseteq Placed'
  BY <1>1, <1>2 DEF Orderly, Pending
<1>4. Grows(queue)'
  BY <1>1 DEF Orderly, Grows
<1>5. \A h \in Hand', q \in Range(queue)' : h < q
  BY <1>1, <1>2 DEF Orderly
<1>6. \A q \in Hand' \cup Range(queue)' : q < Current'
  BY <1>1, <1>2 DEF Orderly
<1> QED BY <1>1, <1>3, <1>4, <1>5, <1>6 DEF Orderly

LEMMA OrderlyEnqueue ==
  ASSUME Inv, Orderly, enqueue, Placed' = Placed
  PROVE  Orderly'
<1> SUFFICES ASSUME phase' = "run" PROVE Orderly'
  BY DEF Orderly
<1>1. /\ phase = "run" /\ manager = "enqueue" /\ manager' = "idle"
      /\ UNCHANGED <<worker, frames, sent>> /\ queue' = Append(queue, Current)
  BY DEF enqueue
<1>2. queue \in Seq(Objects) /\ Current \in Objects
  BY CurrentIs, FramesInIds DEF Inv, TypeOK, enqueue
<1>3. Hand' = Hand /\ Enqueuing = {Current} /\ Enqueuing' = {}
  BY <1>1, HandSame DEF Enqueuing
<1>4. Range(queue)' = Range(queue) \cup {Current}
  BY <1>1, <1>2, AppendRange
<1>5. Pending' \subseteq Placed'
  BY <1>1, <1>3, <1>4 DEF Orderly, Pending
<1>6. PICK c \in Objects : c = Current
  BY <1>2
<1>7. PICK q \in Seq(Objects) : q = queue
  BY <1>2
<1>8. Grows(q) /\ \A x \in Range(q) : x < c
  BY <1>1, <1>6, <1>7 DEF Orderly
<1>9. Grows(Append(q, c))
  BY <1>8, GrowsAppend
<1>10. Grows(queue)'
  BY <1>1, <1>6, <1>7, <1>9 DEF Grows
<1>11. \A h \in Hand', x \in Range(queue)' : h < x
  BY <1>1, <1>3, <1>4 DEF Orderly
<1> QED BY <1>1, <1>5, <1>10, <1>11 DEF Orderly

LEMMA DequeueSplits ==
  ASSUME Inv, NEW s \in Senders, dequeue(s)
  PROVE  Range(queue) = Range(queue)' \cup {Head(queue)}
<1>1. queue \in Seq(Objects) /\ queue # <<>> /\ queue' = Tail(queue)
  BY DEF Inv, TypeOK, dequeue
<1> QED BY <1>1, TailSplit

LEMMA OrderlyDequeue ==
  ASSUME Inv, Still, Orderly, Calm', NEW s \in Senders, dequeue(s), Placed' = Placed
  PROVE  Orderly'
<1> SUFFICES ASSUME phase' = "run" PROVE Orderly'
  BY DEF Orderly
<1>1. phase = "run" /\ queue' = Tail(queue) /\ queue # <<>> /\ UNCHANGED <<manager, frames, sent>>
  BY DEF dequeue
<1>2. Hand = {} /\ Hand' = {Head(queue)}
  BY DequeueHand
<1>3. Range(queue) = Range(queue)' \cup {Head(queue)}
  BY DequeueSplits
<1>4. PICK q \in Seq(Objects) : q = queue
  BY DEF Inv, TypeOK
<1>5. Grows(q) /\ q # <<>>
  BY <1>1, <1>4 DEF Orderly
<1>6. Grows(Tail(q)) /\ \A x \in Range(Tail(q)) : Head(q) < x
  BY <1>5, GrowsTail
<1>7. Grows(queue)'
  BY <1>1, <1>4, <1>6 DEF Grows
<1>8. \A h \in Hand', x \in Range(queue)' : h < x
  BY <1>1, <1>2, <1>4, <1>6
<1>9. Enqueuing' = Enqueuing /\ Current' = Current
  BY <1>1 DEF Enqueuing, Current
<1>10. Pending' \subseteq Placed'
  BY <1>1, <1>2, <1>3, <1>9 DEF Orderly, Pending
<1>11. manager' # "idle" => \A x \in Hand' \cup Range(queue)' : x < Current'
  BY <1>1, <1>2, <1>3, <1>9 DEF Orderly
<1>12. manager' \in {"create", "link", "add"} => Current' \notin sent'
  BY <1>1, <1>9 DEF Orderly
<1> QED BY <1>7, <1>8, <1>10, <1>11, <1>12 DEF Orderly

LEMMA OrderlySent ==
  ASSUME Inv, Still, Orderly, NEW s \in Senders, SendAndRead(s), Placed' = Placed
  PROVE  Orderly'
<1> SUFFICES ASSUME phase' = "run" PROVE Orderly'
  BY DEF Orderly
<1>1. /\ phase = "run" /\ UNCHANGED <<manager, frames, queue>>
      /\ sent' \subseteq sent \cup {worker[s].frame}
  BY DEF SendAndRead
<1>2. Hand = {worker[s].frame} /\ Hand' \subseteq Hand
  BY SenderHand
<1>3. Enqueuing' = Enqueuing /\ Current' = Current
  BY <1>1 DEF Enqueuing, Current
<1>4. Pending' \subseteq Placed'
  BY <1>1, <1>2, <1>3 DEF Orderly, Pending
<1>5. Grows(queue)'
  BY <1>1 DEF Orderly, Grows
<1>6. \A h \in Hand', q \in Range(queue)' : h < q
  BY <1>1, <1>2 DEF Orderly
<1>7. manager' # "idle" => \A q \in Hand' \cup Range(queue)' : q < Current'
  BY <1>1, <1>2, <1>3 DEF Orderly
<1>8. manager' \in {"create", "link", "add"} => Current' \notin sent'
  <2> SUFFICES ASSUME manager \in {"create", "link", "add"} PROVE Current # worker[s].frame /\ Current \notin sent
    BY <1>1, <1>3
  <2>1. worker[s].frame < Current
    BY <1>1, <1>2 DEF Orderly
  <2>2. Current \in Nat /\ ~(Current < Current)
    BY DEF Current, Inv, TypeOK
  <2> QED BY <1>1, <2>1, <2>2 DEF Orderly
<1> QED BY <1>4, <1>5, <1>6, <1>7, <1>8 DEF Orderly

(* What a start restores. *)
LEMMA RestoreIs ==
  ASSUME Inv, Still, NEW at \in [Ids -> Nat], NEW top, Layout(at, top), unpersist, sent_index <= Len(data),
         ~Misread(sent_index)
  PROVE  /\ phase = "start" /\ phase' = "run" /\ manager' = "idle" /\ linked /\ linked'
         /\ Range(queue)' = {k \in InFile : sent_index <= at[k]} /\ Grows(queue)'
         /\ \A i \in Range(queue)' : size'[i] = SizeRestored(i)
         /\ repeated' = repeated \cup (Range(queue)' \cap known)
         /\ index_sent' = sent_index /\ counted' = recorded /\ Hand' = {} /\ InHand' = {}
         /\ UNCHANGED <<files, sent, frames, worker, listed, linked>>
<1>1. PICK x \in Nat : x = sent_index
  BY DEF Inv, TypeOK
<1>2. PICK found : found = unpersist_queue_context(x)
  OBVIOUS
<1>3. PICK ids : ids = IdsOf(found)
  OBVIOUS
<1>4. phase = "start" /\ linked /\ queue = <<>> /\ Idle
  BY DEF unpersist, Inv, PhaseInv, Still
<1>5. /\ queue' = queue \o ids
      /\ size' = [i \in Objects |-> IF i \in Range(ids) THEN SizeIn(found, i) ELSE size[i]]
      /\ repeated' = repeated \cup (Range(ids) \cap known)
      /\ index_sent' = sent_index /\ counted' = recorded
      /\ manager' = "idle" /\ phase' = "run"
      /\ UNCHANGED <<files, sent, frames, worker, listed, linked>>
  BY <1>1, <1>2, <1>3 DEF unpersist, unpersist_queue_info, IdsOf
<1>6. /\ ids \in Seq(Ids) /\ Range(ids) = {k \in InFile : x <= at[k]}
      /\ \A m, n \in DOMAIN ids : m < n => ids[m] < ids[n]
      /\ \A i \in Range(ids) : SizeIn(found, i) = SizeRestored(i)
  <2>1. UnitsAt(at) /\ WholeAt(at) /\ ApartAt(at) /\ x <= Len(data) /\ ~Misread(x)
    BY <1>1 DEF Layout
  <2>2. RestoredBy(found, at, x)
    BY <1>2, <2>1, RestoredExactly
  <2> QED BY <1>3, <2>2 DEF RestoredBy
<1>7. queue' = ids
  BY <1>4, <1>5, <1>6
<1>8. \A i \in Range(ids) : i \in Objects
  BY <1>6, FramesInIds DEF Range, Inv
<1>9. \A i \in Range(ids) : size'[i] = SizeRestored(i)
  BY <1>5, <1>6, <1>8
<1>10. Hand' = {} /\ InHand' = {}
  BY <1>4, <1>5, HandSame, IdleHand
<1> QED BY <1>1, <1>4, <1>5, <1>6, <1>7, <1>9, <1>10 DEF Grows

LEMMA OrderlyRestore ==
  ASSUME Inv, Still, NEW at \in [Ids -> Nat], NEW top, Layout(at, top), unpersist, sent_index <= Len(data),
         ~Misread(sent_index), Placed' = Placed
  PROVE  Orderly'
<1>1. /\ manager' = "idle" /\ Range(queue)' \subseteq InFile /\ Grows(queue)' /\ Hand' = {}
  BY RestoreIs
<1>2. Enqueuing' = {}
  BY <1>1 DEF Enqueuing
<1>3. Pending' \subseteq Placed'
  BY <1>1, <1>2 DEF Pending, Placed
<1> QED BY <1>1, <1>3 DEF Orderly

(* The size of a frame that is to be sent is that of what is written, but  *)
(* for the empty line of a frame without body and the identifier of a      *)
(* reply-to header; or the NUL is yet to be counted.                       *)
Fits(i) == i \in counting \/ (size[i] <= Span(i) /\ Span(i) <= size[i] + Uncounted(frames[i]))
Sized == Hand \cup Range(queue) \cup (IF phase # "start" /\ manager # "idle" THEN {Current} ELSE {})
SizesFit == \A i \in Sized : Fits(i)

LEMMA SizedKnown == ASSUME Inv, Still PROVE Sized \subseteq DOMAIN frames
BY HandKnown DEF Sized, Inv, TypeOK, PhaseInv

LEMMA FitsSame ==
  ASSUME NEW i, Fits(i), frames'[i] = frames[i], size'[i] = size[i], i \in counting => i \in counting'
  PROVE  Fits(i)'
<1>1. Span(i)' = Span(i)
  BY SpanSame
<1> QED BY <1>1 DEF Fits

LEMMA FitsSames ==
  ASSUME Inv, Still, SizesFit, Continues, Sized' \subseteq Sized, size' = size, counting' = counting
  PROVE  SizesFit'
<1> SUFFICES ASSUME NEW i \in Sized' PROVE Fits(i)'
  BY DEF SizesFit
<1>1. Fits(i) /\ frames'[i] = frames[i]
  BY SizedKnown DEF SizesFit, Continues
<1> QED BY <1>1, FitsSame

LEMMA FitsSend ==
  ASSUME Inv, Still, SizesFit, Continues, NEW kind \in Kinds, handler_stomp_send(kind)
  PROVE  SizesFit'
<1>1. /\ phase # "start" /\ manager = "idle" /\ frames' = Append(frames, kind)
      /\ size' = [size EXCEPT ![Len(frames')] = FullSize(kind) - 1]
      /\ counting' = counting \cup {Len(frames')} /\ UNCHANGED <<queue, worker>>
  BY DEF handler_stomp_send
<1>2. frames \in Seq(Kinds) /\ Len(frames) \in Nat /\ DOMAIN frames = 1 .. Len(frames) /\ size \in [Objects -> Nat]
  BY DEF Inv, TypeOK
<1>3. Len(frames') = Len(frames) + 1 /\ Len(frames) + 1 \notin DOMAIN frames
  BY <1>1, <1>2
<1>4. Hand' = Hand
  BY <1>1, HandSame
<1>5. Sized' \subseteq Sized \cup {Len(frames')}
  BY <1>1, <1>4 DEF Sized, Current
<1> SUFFICES ASSUME NEW i \in Sized' PROVE Fits(i)'
  BY DEF SizesFit
<1>6. CASE i = Len(frames')
  BY <1>1, <1>6 DEF Fits
<1>7. CASE i # Len(frames')
  <2>1. i \in Sized /\ i \in DOMAIN frames /\ i \in Objects
    BY <1>5, <1>7, SizedKnown, FramesInIds DEF Inv
  <2>2. Fits(i) /\ frames'[i] = frames[i]
    BY <2>1 DEF SizesFit, Continues
  <2>3. size'[i] = size[i] /\ (i \in counting => i \in counting')
    BY <1>1, <1>2, <1>7, <2>1
  <2> QED BY <2>2, <2>3, FitsSame
<1> QED BY <1>6, <1>7

LEMMA FitsCount ==
  ASSUME Inv, Still, SizesFit, NEW j \in Ids, CountNul(j)
  PROVE  SizesFit'
<1>1. /\ j \in counting /\ size' = [size EXCEPT ![j] = @ + 1] /\ counting' = counting \ {j}
      /\ UNCHANGED <<frames, queue, worker, phase, manager>>
  BY DEF CountNul
<1>2. /\ size \in [Objects -> Nat] /\ frames \in Seq(Kinds) /\ j \in DOMAIN frames /\ j \in Objects
      /\ size[j] = FullSize(frames[j]) - 1
  BY <1>1, FramesInIds DEF Inv, TypeOK
<1>3. Sized' = Sized
  BY <1>1, HandSame DEF Sized, Current
<1> SUFFICES ASSUME NEW i \in Sized PROVE Fits(i)'
  BY <1>3 DEF SizesFit
<1>4. CASE i = j
  <2>1. PICK f \in Nat : f = FullSize(frames[j])
    BY <1>2, SpanIs
  <2>2. PICK u \in Nat : u = Uncounted(frames[j]) /\ f + u = Span(j)
    BY <1>2, <2>1, SpanIs
  <2>3. size'[j] = f
    BY <1>1, <1>2, <2>1
  <2>4. f <= f + u
    OBVIOUS
  <2>5. Span(j)' = Span(j)
    BY <1>1, SpanSame
  <2>6. size'[j] <= Span(j)' /\ Span(j)' <= size'[j] + Uncounted(frames'[j])
    BY <1>1, <2>2, <2>3, <2>4, <2>5
  <2> QED BY <1>4, <2>6 DEF Fits
<1>5. CASE i # j
  <2>1. size'[i] = size[i] /\ (i \in counting => i \in counting') /\ i \in DOMAIN frames
    BY <1>1, <1>2, <1>5, SizedKnown, FramesInIds DEF Inv
  <2> QED BY <1>1, <2>1, FitsSame DEF SizesFit
<1> QED BY <1>4, <1>5

LEMMA FitsRestore ==
  ASSUME Inv, Still, NEW at \in [Ids -> Nat], NEW top, Layout(at, top), unpersist, sent_index <= Len(data),
         ~Misread(sent_index)
  PROVE  SizesFit'
<1>1. /\ manager' = "idle" /\ Range(queue)' \subseteq InFile /\ Hand' = {}
      /\ \A i \in Range(queue)' : size'[i] = SizeRestored(i)
      /\ frames' = frames
  BY RestoreIs
<1>2. Sized' = Range(queue)'
  BY <1>1 DEF Sized
<1> SUFFICES ASSUME NEW i \in Range(queue)' PROVE Fits(i)'
  BY <1>2 DEF SizesFit
<1>3. i \in InFile
  BY <1>1
<1>4. i \in DOMAIN frames /\ frames \in Seq(Kinds)
  BY <1>3, InFileKnown DEF Inv, TypeOK
<1>5. PICK c \in {"body", "empty", "reply", "quoting"} : c = frames[i]
  BY <1>4, KindOf
<1>6. PICK z \in Nat : z = RestoredSize(c) /\ z <= Len(Units(c)) /\ FullSize(c) <= z
  BY UnitTable
<1>7. PICK f \in Nat : f = FullSize(c)
  BY <1>4, <1>5, SpanIs
<1>8. PICK u \in Nat : u = Uncounted(c) /\ f + u = Span(i)
  BY <1>4, <1>5, <1>7, SpanIs
<1>9. Span(i) = Len(Units(c)) /\ Span(i)' = Span(i)
  BY <1>1, <1>4, <1>5, SpanIs, SpanSame
<1>10. size'[i] = z
  BY <1>1, <1>5, <1>6 DEF SizeRestored
<1>11. f + u <= z + u
  BY <1>6, <1>7
<1>12. size'[i] <= Span(i)' /\ Span(i)' <= size'[i] + Uncounted(frames'[i])
  BY <1>1, <1>5, <1>6, <1>8, <1>9, <1>10, <1>11
<1> QED BY <1>12 DEF Fits

-----------------------------------------------------------------------------
(***************************************************************************)
(* What the indexes stand for.  An index covers the frames that begin      *)
(* before it, and those that were counted into it: they were sent, and     *)
(* the index falls behind the end of each by what was lost at most.        *)
(***************************************************************************)
Covers(at, x, C) ==
  \A k \in Placed : at[k] < x \/ k \in C => k \in sent /\ at[k] + Span(k) <= x + Shortfall(k)

FileCovers(at) == Covers(at, sent_index, recorded)
IndexCovers(at) == ~(phase = "stopping" /\ linked) => Covers(at, index_sent, counted)
Writes(s) == (worker[s].pc = "update" /\ phase = "run") \/ (worker[s].pc = "stale" /\ ~linked)
ThreadCovers(at) ==
  \A s \in Senders :
    Writes(s) => Covers(at, worker[s].value, counted \cup recorded \cup {worker[s].frame})
(* The index divides the frames into those counted and those pending, ...  *)
Divides(at) ==
  phase = "run" =>
    /\ \A j \in Placed : j \in counted \/ at[j] < index_sent \/ j \in Pending
    /\ \A j \in Pending : index_sent <= at[j]
    /\ linked => recorded \subseteq counted
(* ... a value that a worker is about to write does it next, ...           *)
Ahead(at, top) ==
  phase = "run" =>
    \A s \in Senders : worker[s].pc = "update" =>
      /\ index_sent <= worker[s].value /\ worker[s].value <= top
      /\ \A q \in Range(queue) \cup Enqueuing : worker[s].value <= at[q]
(* ... and none is beyond what is written or waits to be. *)
Below(top) == phase # "stopping" => sent_index <= top /\ index_sent <= top
Covered(at, top) ==
  FileCovers(at) /\ IndexCovers(at) /\ ThreadCovers(at) /\ Divides(at) /\ Ahead(at, top) /\ Below(top)

LEMMA MoreCovered ==
  ASSUME NEW a \in Nat, NEW p \in Nat, NEW x \in Nat, NEW f \in Nat, NEW g \in Nat, a + p <= x + f, f <= g
  PROVE  a + p <= x + g
OBVIOUS

LEMMA CoversKept ==
  ASSUME Inv, Continues, NEW at \in [Ids -> Nat], NEW x \in Nat, NEW C, NEW D, D \subseteq C,
         Covers(at, x, C), Placed' \subseteq Placed
  PROVE  Covers(at, x, D)'
<1> SUFFICES ASSUME NEW k \in Placed', at[k] < x \/ k \in D
             PROVE  k \in sent' /\ at[k] + Span(k)' <= x + Shortfall(k)'
  BY DEF Covers
<1>1. k \in Placed
  OBVIOUS
<1>2. k \in sent /\ at[k] + Span(k) <= x + Shortfall(k)
  BY <1>1 DEF Covers
<1>3. k \in DOMAIN frames /\ k \in Ids /\ Span(k) \in Nat
  BY <1>1, PlacedIs
<1>4. Shortfall(k) <= Shortfall(k)' /\ Shortfall(k) \in Nat /\ Shortfall(k)' \in Nat
  BY <1>3, ShortfallKept
<1>5. Span(k)' = Span(k)
  BY <1>3, SpanSame DEF Continues
<1>6. at[k] \in Nat
  BY <1>3
<1>7. at[k] + Span(k) <= x + Shortfall(k)'
  BY <1>2, <1>3, <1>4, <1>6, MoreCovered
<1> QED BY <1>2, <1>5, <1>7 DEF Continues

(* A frame that is listed is behind every index. *)
LEMMA CoversAdd ==
  ASSUME Inv, Continues, NEW at \in [Ids -> Nat], NEW x \in Nat, NEW C,
         Covers(at, x, C), C \subseteq sent, NEW c, c \notin sent, Placed' = Placed \cup {c},
         NEW b, NEW top \in Nat, b[c] = top, x <= top, \A k \in Placed : b[k] = at[k]
  PROVE  Covers(b, x, C)'
<1> SUFFICES ASSUME NEW k \in Placed', b[k] < x \/ k \in C
             PROVE  k \in sent' /\ b[k] + Span(k)' <= x + Shortfall(k)'
  BY DEF Covers
<1>1. k # c
  <2> SUFFICES ASSUME k = c PROVE FALSE
    OBVIOUS
  <2>1. ~(top < x)
    OBVIOUS
  <2> QED BY <2>1
<1>2. k \in Placed /\ b[k] = at[k]
  BY <1>1
<1>3. k \in sent /\ at[k] + Span(k) <= x + Shortfall(k)
  BY <1>2 DEF Covers
<1>4. k \in DOMAIN frames /\ k \in Ids /\ Span(k) \in Nat
  BY <1>2, PlacedIs
<1>5. Shortfall(k) <= Shortfall(k)' /\ Shortfall(k) \in Nat /\ Shortfall(k)' \in Nat
  BY <1>4, ShortfallKept
<1>6. Span(k)' = Span(k)
  BY <1>4, SpanSame DEF Continues
<1>7. at[k] \in Nat
  BY <1>4
<1>8. at[k] + Span(k) <= x + Shortfall(k)'
  BY <1>3, <1>4, <1>5, <1>7, MoreCovered
<1> QED BY <1>2, <1>3, <1>6, <1>8 DEF Continues

LEMMA IndexNumbers ==
  ASSUME Inv
  PROVE  sent_index \in Nat /\ index_sent \in Nat /\ \A s \in Senders : worker[s].value \in Nat
BY ThreadFields DEF Inv, TypeOK

(* The steps that leave the indexes alone. *)
LEMMA CoveredSame ==
  ASSUME Inv, Continues, NEW at \in [Ids -> Nat], NEW top, Covered(at, top), Placed' = Placed,
         UNCHANGED <<phase, linked, sent_index, recorded, index_sent, counted>>,
         \A s \in Senders : Writes(s)' => worker'[s] = worker[s],
         phase = "run" => /\ Pending' = Pending
                          /\ Range(queue)' \cup Enqueuing' \subseteq Range(queue) \cup Enqueuing
  PROVE  Covered(at, top)'
<1>1. ASSUME NEW x \in Nat, NEW C, Covers(at, x, C) PROVE Covers(at, x, C)'
  BY <1>1, CoversKept
<1>2. FileCovers(at)'
  <2>1. PICK x \in Nat : x = sent_index
    BY IndexNumbers
  <2>2. PICK C : C = recorded
    OBVIOUS
  <2>3. Covers(at, x, C)'
    BY <1>1, <2>1, <2>2 DEF Covered, FileCovers
  <2> QED BY <2>1, <2>2, <2>3 DEF FileCovers, Covers
<1>3. IndexCovers(at)'
  <2> SUFFICES ASSUME ~(phase' = "stopping" /\ linked') PROVE Covers(at, index_sent, counted)'
    BY DEF IndexCovers
  <2>1. PICK x \in Nat : x = index_sent
    BY IndexNumbers
  <2>2. PICK C : C = counted
    OBVIOUS
  <2>3. Covers(at, x, C)'
    BY <1>1, <2>1, <2>2 DEF Covered, IndexCovers
  <2> QED BY <2>1, <2>2, <2>3 DEF Covers
<1>4. ThreadCovers(at)'
  <2> SUFFICES ASSUME NEW s \in Senders, Writes(s)'
               PROVE  Covers(at, worker[s].value, counted \cup recorded \cup {worker[s].frame})'
    BY DEF ThreadCovers
  <2>1. worker'[s] = worker[s]
    OBVIOUS
  <2>2. Writes(s)
    BY <2>1 DEF Writes
  <2>3. PICK x \in Nat : x = worker[s].value
    BY IndexNumbers
  <2>4. PICK C : C = counted \cup recorded \cup {worker[s].frame}
    OBVIOUS
  <2>5. Covers(at, x, C)'
    BY <1>1, <2>2, <2>3, <2>4 DEF Covered, ThreadCovers
  <2> QED BY <2>1, <2>3, <2>4, <2>5 DEF Covers
<1>5. Divides(at)'
  BY DEF Covered, Divides
<1>6. Ahead(at, top)'
  <2>1. \A s \in Senders : worker'[s].pc = "update" /\ phase' = "run" => worker'[s] = worker[s]
    BY DEF Writes
  <2> QED BY <2>1 DEF Covered, Ahead
<1>7. Below(top)'
  BY DEF Covered, Below
<1> QED BY <1>2, <1>3, <1>4, <1>5, <1>6, <1>7 DEF Covered

(* The size that is added to the index, and what is lost with it. *)
LEMMA FitsLoss ==
  ASSUME Inv, NEW i \in DOMAIN frames, Fits(i), ReadSize("sent", i), frames' = frames
  PROVE  /\ size[i] \in Nat /\ Span(i) \in Nat /\ Loss(i)' \in Nat
         /\ size[i] <= Span(i) /\ Span(i) <= size[i] + Loss(i)'
<1>1. frames \in Seq(Kinds) /\ size \in [Objects -> Nat] /\ (i \in counting => size[i] = FullSize(frames[i]) - 1)
  BY DEF Inv, TypeOK
<1>2. PICK f \in Nat : f = FullSize(frames[i]) /\ f >= 3
  BY <1>1, KindOf, FullSizeIs
<1>3. PICK u \in Nat : u = Uncounted(frames[i]) /\ f + u = Span(i)
  BY <1>1, <1>2, SpanIs
<1>4. PICK z \in Nat : z = size[i]
  BY <1>1, FramesInIds DEF Inv
<1>5. PICK e \in {0, 1} : e = IF <<"sent", i>> \in early' THEN 1 ELSE 0
  OBVIOUS
<1>6. Loss(i)' = u + e
  BY <1>3, <1>5 DEF Loss, Uncounted
<1>7. CASE i \in counting
  <2>1. z = f - 1
    BY <1>1, <1>2, <1>4, <1>7
  <2>2. <<"sent", i>> \in early'
    BY <1>7 DEF ReadSize
  <2>3. e = 1
    BY <1>5, <2>2
  <2>4. z <= f + u /\ f + u <= z + (u + e) /\ u + e \in Nat
    BY <1>2, <2>1, <2>3
  <2> QED BY <1>3, <1>4, <1>6, <2>4
<1>8. CASE i \notin counting
  <2>1. z <= f + u /\ f + u <= z + u
    BY <1>3, <1>4, <1>8 DEF Fits
  <2>2. f + u <= z + (u + e) /\ u + e \in Nat
    BY <2>1
  <2> QED BY <1>3, <1>4, <1>6, <2>1, <2>2
<1> QED BY <1>7, <1>8

LEMMA EndReached ==
  ASSUME NEW b \in Nat, NEW sp \in Nat, NEW x \in Nat, NEW z \in Nat, NEW l \in Nat, NEW f \in Nat,
         NEW g \in Nat, NEW h \in Nat,
         b <= x + f, f <= g, g + l <= h, sp <= z + l
  PROVE  b + sp <= (x + z) + h
OBVIOUS

(* One of the frames that are pending is the next. *)
LEMMA NextPending ==
  ASSUME Inv, Orderly, phase = "run", NEW i, Hand = {i}, NEW k \in Pending, k # i
  PROVE  i < k
<1>1. CASE k \in Range(queue)
  BY <1>1 DEF Orderly
<1>2. CASE k \in Enqueuing
  <2>1. k = Current /\ manager # "idle"
    BY <1>2 DEF Enqueuing
  <2> QED BY <2>1 DEF Orderly
<1> QED BY <1>1, <1>2 DEF Pending

LEMMA SendsGenuine ==
  ASSUME Inv, Still, NEW s \in Senders, SendAndRead(s)
  PROVE  /\ worker[s].frame \in DOMAIN frames /\ worker[s].frame # 0
         /\ sent' = sent \cup {worker[s].frame}
<1>1. /\ worker[s].pc = "send" /\ worker[s].frame \in {0} \cup DOMAIN frames
      /\ sent' = sent \cup ({worker[s].frame} \ {0})
  BY SendAndReadIs
<1>2. worker[s].frame # 0
  BY <1>1 DEF Still, Genuine
<1> QED BY <1>1, <1>2

LEMMA SentCovers ==
  ASSUME Inv, Still, Orderly, SizesFit, Continues, NEW at \in [Ids -> Nat], NEW top, Layout(at, top),
         Covered(at, top), NEW s \in Senders, SendAndRead(s), Placed' = Placed, phase = "run",
         NEW v \in Nat, v = index_sent + size[worker[s].frame],
         NEW C, C = counted \cup recorded \cup {worker[s].frame}
  PROVE  /\ Covers(at, v, C)' /\ index_sent <= v /\ (\E e \in Placed : v <= at[e] + Span(e))
         /\ \A k \in Range(queue) \cup Enqueuing : v <= at[k]
<1>1. PICK i \in DOMAIN frames : i = worker[s].frame /\ i # 0
  BY SendsGenuine
<1>2. worker[s].pc = "send" /\ frames' = frames /\ sent' = sent \cup {i} /\ ReadSize("sent", i)
  BY <1>1, SendsGenuine, SendAndReadIs DEF SendAndRead
<1>3. linked
  BY <1>2 DEF Still, Idle
<1>4. Hand = {i}
  BY <1>1, SenderHand
<1>5. i \in Pending /\ i \in Placed
  BY <1>4 DEF Pending, Orderly
<1>6. Fits(i)
  BY <1>4 DEF SizesFit, Sized
<1>7. PICK z \in Nat : z = size[i]
  BY <1>2, <1>6, FitsLoss
<1>8. PICK sp \in Nat : sp = Span(i) /\ z <= sp
  BY <1>2, <1>6, <1>7, FitsLoss
<1>9. PICK l \in Nat : l = Loss(i)' /\ sp <= z + l
  BY <1>2, <1>6, <1>7, <1>8, FitsLoss
<1>10. PICK x \in Nat : x = index_sent
  BY IndexNumbers
<1>11. v = x + z
  BY <1>1, <1>7, <1>10
<1>12. PICK a \in Nat : a = at[i]
  BY <1>5, PlacedIs
<1>13. x <= a
  BY <1>5, <1>10, <1>12 DEF Covered, Divides
<1>14. x <= v /\ v <= a + sp
  BY <1>8, <1>11, <1>13
<1>15. ASSUME NEW k \in Pending, k # i PROVE v <= at[k]
  <2>1. k \in Placed /\ i < k
    BY <1>4, <1>15, NextPending DEF Orderly
  <2>2. a + sp <= at[k]
    BY <1>5, <1>8, <1>12, <2>1 DEF Layout, ApartAt
  <2>3. at[k] \in Nat
    BY <2>1, PlacedIs
  <2> QED BY <1>14, <2>2, <2>3
<1>16. ~(i < i) /\ i \in Nat \ {0} /\ i \in sent'
  BY <1>2, <1>5, PlacedIs
<1>17. \A k \in Range(queue) \cup Enqueuing : k # i /\ k \in Pending
  <2>1. \A k \in Range(queue) : i < k
    BY <1>4 DEF Orderly
  <2>2. \A k \in Enqueuing : i < k
    BY <1>4 DEF Orderly, Enqueuing
  <2> QED BY <1>16, <2>1, <2>2 DEF Pending
<1>18. PICK h \in Nat : h = Shortfall(i)'
  BY ShortfallKept
<1>19. a + sp <= v + h
  <2>1. CASE a = 0
    <3>1. 0 \in 0 .. i - 1
      BY <1>16
    <3>2. Shortfall(0)' + l <= h /\ Shortfall(0)' \in Nat
      BY <1>9, <1>16, <1>18, <3>1, ShortfallStepNext
    <3>3. PICK g \in Nat : g = Shortfall(0)'
      BY <3>2
    <3>4. g + l <= h /\ a <= x + 0 /\ 0 <= g
      BY <2>1, <3>2, <3>3
    <3>5. a + sp <= (x + z) + h
      BY <1>9, <3>4, EndReached
    <3> QED BY <1>11, <3>5
  <2>2. CASE a # 0
    <3>1. PICK j \in Placed : j < i /\ a = at[j] + Span(j)
      BY <1>5, <1>12, <2>2 DEF Layout, JoinedAt
    <3>2. j \in DOMAIN frames /\ j \in Nat
      BY <3>1, PlacedIs
    <3>3. j \notin Pending
      <4> SUFFICES ASSUME j \in Pending PROVE FALSE
        OBVIOUS
      <4>1. j # i
        BY <1>16, <3>1
      <4>2. i < j
        BY <1>4, <4>1, NextPending
      <4> QED BY <1>16, <3>1, <3>2, <4>2
    <3>4. j \in counted \/ at[j] < index_sent
      BY <3>3 DEF Covered, Divides
    <3>5. a <= x + Shortfall(j)
      BY <1>10, <3>1, <3>4 DEF Covered, IndexCovers, Covers
    <3>6. j \in 0 .. i - 1
      BY <1>16, <3>1, <3>2
    <3>7. PICK f \in Nat : f = Shortfall(j)
      BY <3>2, ShortfallKept
    <3>8. PICK g \in Nat : g = Shortfall(j)' /\ f <= g
      BY <3>2, <3>7, ShortfallKept
    <3>9. g + l <= h
      BY <1>9, <1>16, <1>18, <3>6, <3>8, ShortfallStepNext
    <3>10. a <= x + f
      BY <3>5, <3>7
    <3>11. a + sp <= (x + z) + h
      BY <1>9, <3>8, <3>9, <3>10, EndReached
    <3> QED BY <1>11, <3>11
  <2> QED BY <2>1, <2>2
<1>20. Covers(at, v, C)'
  <2> SUFFICES ASSUME NEW k \in Placed, at[k] < v \/ k \in C
               PROVE  k \in sent' /\ at[k] + Span(k)' <= v + Shortfall(k)'
    BY DEF Covers
  <2>1. Span(k)' = Span(k)
    BY <1>2, SpanSame
  <2>2. CASE k = i
    BY <1>8, <1>12, <1>16, <1>18, <1>19, <2>1, <2>2
  <2>3. CASE k # i
    <3>1. k \in DOMAIN frames /\ at[k] \in Nat /\ Span(k) \in Nat
      BY PlacedIs
    <3>2. k \in counted \/ at[k] < index_sent
      <4>1. CASE k \in Pending
        <5>1. v <= at[k]
          BY <1>15, <2>3, <4>1
        <5>2. ~(at[k] < v)
          BY <3>1, <5>1
        <5>3. recorded \subseteq counted
          BY <1>3 DEF Covered, Divides
        <5> QED BY <1>1, <2>3, <5>2, <5>3
      <4>2. CASE k \notin Pending
        BY <4>2 DEF Covered, Divides
      <4> QED BY <4>1, <4>2
    <3>3. k \in sent /\ at[k] + Span(k) <= x + Shortfall(k)
      BY <1>10, <3>2 DEF Covered, IndexCovers, Covers
    <3>4. Shortfall(k) <= Shortfall(k)' /\ Shortfall(k) \in Nat /\ Shortfall(k)' \in Nat
      BY <3>1, ShortfallKept
    <3>5. at[k] + Span(k) <= x + Shortfall(k)'
      BY <3>1, <3>3, <3>4, MoreCovered
    <3>6. x + Shortfall(k)' <= v + Shortfall(k)'
      BY <1>14, <3>4
    <3>7. at[k] + Span(k) <= v + Shortfall(k)'
      BY <3>1, <3>4, <3>5, <3>6
    <3> QED BY <1>2, <2>1, <3>3, <3>7
  <2> QED BY <2>2, <2>3
<1>21. \A k \in Range(queue) \cup Enqueuing : v <= at[k]
  BY <1>15, <1>17
<1>22. v <= at[i] + Span(i)
  BY <1>8, <1>12, <1>14
<1> QED BY <1>5, <1>10, <1>14, <1>20, <1>21, <1>22

(* What covers the frames before a step does it after it. *)
LEMMA FileCoversNext ==
  ASSUME Inv, Continues, NEW at \in [Ids -> Nat], Placed' \subseteq Placed,
         NEW x \in Nat, NEW C, Covers(at, x, C), sent_index' = x, recorded' \subseteq C
  PROVE  FileCovers(at)'
<1>1. PICK D : D = recorded'
  OBVIOUS
<1>2. Covers(at, x, D)'
  BY <1>1, CoversKept
<1> QED BY <1>1, <1>2 DEF FileCovers, Covers

LEMMA IndexCoversNext ==
  ASSUME Inv, Continues, NEW at \in [Ids -> Nat], Placed' \subseteq Placed,
         NEW x \in Nat, NEW C, Covers(at, x, C), index_sent' = x, counted' \subseteq C
  PROVE  IndexCovers(at)'
<1>1. PICK D : D = counted'
  OBVIOUS
<1>2. Covers(at, x, D)'
  BY <1>1, CoversKept
<1> QED BY <1>1, <1>2 DEF IndexCovers, Covers

LEMMA FileCoversSame ==
  ASSUME Inv, Continues, NEW at \in [Ids -> Nat], Placed' \subseteq Placed, FileCovers(at),
         UNCHANGED <<sent_index, recorded>>
  PROVE  FileCovers(at)'
<1>1. PICK x \in Nat : x = sent_index
  BY IndexNumbers
<1>2. PICK C : C = recorded
  OBVIOUS
<1>3. Covers(at, x, C)
  BY <1>1, <1>2 DEF FileCovers
<1> QED BY <1>1, <1>2, <1>3, FileCoversNext

LEMMA IndexCoversSame ==
  ASSUME Inv, Continues, NEW at \in [Ids -> Nat], Placed' \subseteq Placed, IndexCovers(at),
         UNCHANGED <<index_sent, counted>>, ~(phase = "stopping" /\ linked)
  PROVE  IndexCovers(at)'
<1>1. PICK x \in Nat : x = index_sent
  BY IndexNumbers
<1>2. PICK C : C = counted
  OBVIOUS
<1>3. Covers(at, x, C)
  BY <1>1, <1>2 DEF IndexCovers
<1> QED BY <1>1, <1>2, <1>3, IndexCoversNext

LEMMA ThreadCoversNext ==
  ASSUME Inv, Continues, NEW at \in [Ids -> Nat], Placed' \subseteq Placed, ThreadCovers(at),
         \A s \in Senders : Writes(s)' =>
           Writes(s) /\ worker'[s].value = worker[s].value /\ worker'[s].frame = worker[s].frame,
         counted' \cup recorded' \subseteq counted \cup recorded
  PROVE  ThreadCovers(at)'
<1> SUFFICES ASSUME NEW s \in Senders, Writes(s)'
             PROVE  Covers(at, worker[s].value, counted \cup recorded \cup {worker[s].frame})'
  BY DEF ThreadCovers
<1>1. PICK x \in Nat : x = worker[s].value
  BY IndexNumbers
<1>2. PICK C : C = counted \cup recorded \cup {worker[s].frame}
  OBVIOUS
<1>3. PICK D : D = counted' \cup recorded' \cup {worker'[s].frame}
  OBVIOUS
<1>4. D \subseteq C
  BY <1>2, <1>3
<1>5. Covers(at, x, C)
  BY <1>1, <1>2 DEF ThreadCovers
<1>6. Covers(at, x, D)'
  BY <1>4, <1>5, CoversKept
<1>7. x = worker'[s].value
  BY <1>1
<1> QED BY <1>3, <1>6, <1>7 DEF Covers

LEMMA CoversNothing ==
  ASSUME Inv, NEW at \in [Ids -> Nat]
  PROVE  Covers(at, 0, {})
<1>1. \A k \in Placed : at[k] \in Nat /\ ~(at[k] < 0)
  BY PlacedIs
<1> QED BY <1>1 DEF Covers

(* An index of its own for each frame: it is sent, then counted. *)
LEMMA CoveredSent ==
  ASSUME Inv, Still, Orderly, SizesFit, Continues, NEW at \in [Ids -> Nat], NEW top \in Nat, Layout(at, top),
         Covered(at, top), NEW s \in Senders, SendAndRead(s), Placed' = Placed
  PROVE  Covered(at, top)'
<1>1. /\ worker[s].pc = "send"
      /\ UNCHANGED <<phase, linked, sent_index, recorded, index_sent, counted, queue, manager, frames>>
  BY DEF SendAndRead, files, indexes
<1>2. /\ Moves(s, IF linked THEN "update" ELSE "done", worker[s].frame, index_sent + size[worker[s].frame])
      /\ phase # "start"
  BY <1>1, SendAndReadMoves DEF Still, Idle
<1>3. CASE phase # "run"
  <2>1. \A r \in Senders : Writes(r)' => worker'[r] = worker[r]
    BY <1>1, <1>2, <1>3 DEF Writes, Moves
  <2> QED BY <1>1, <1>3, <2>1, CoveredSame
<1>4. CASE phase = "run"
  <2>1. linked
    BY <1>1, <1>4 DEF Still, Idle
  <2>2. PICK v \in Nat : v = index_sent + size[worker[s].frame]
    <3>1. PICK i \in DOMAIN frames : i = worker[s].frame
      BY SendsGenuine
    <3>2. size[i] \in Nat /\ index_sent \in Nat
      BY FramesInIds DEF Inv, TypeOK
    <3> QED BY <3>1, <3>2
  <2>3. PICK C : C = counted \cup recorded \cup {worker[s].frame}
    OBVIOUS
  <2>4. /\ Covers(at, v, C)' /\ index_sent <= v /\ (\E e \in Placed : v <= at[e] + Span(e))
        /\ \A k \in Range(queue) \cup Enqueuing : v <= at[k]
    BY <1>4, <2>2, <2>3, SentCovers
  <2>5. v <= top
    <3>1. PICK e \in Placed : v <= at[e] + Span(e)
      BY <2>4
    <3>2. at[e] + Span(e) <= top /\ at[e] \in Nat /\ Span(e) \in Nat
      BY PlacedIs DEF Layout, TopAt
    <3> QED BY <3>1, <3>2
  <2>6. worker'[s].pc = "update" /\ worker'[s].frame = worker[s].frame /\ worker'[s].value = v
    BY <1>2, <2>1, <2>2 DEF Moves
  <2>7. \A r \in Senders : r # s => worker'[r].pc = "idle"
    BY <1>1, <1>2, OthersIdle DEF Moves
  <2>8. FileCovers(at)' /\ IndexCovers(at)'
    BY <1>1, <1>4, FileCoversSame, IndexCoversSame DEF Covered
  <2>9. ThreadCovers(at)'
    <3> SUFFICES ASSUME NEW r \in Senders, Writes(r)'
                 PROVE  Covers(at, worker[r].value, counted \cup recorded \cup {worker[r].frame})'
      BY DEF ThreadCovers
    <3>1. r = s
      BY <2>7 DEF Writes
    <3>2. C = counted' \cup recorded' \cup {worker'[s].frame}
      BY <1>1, <2>3, <2>6
    <3> QED BY <2>4, <2>6, <3>1, <3>2 DEF Covers
  <2>10. Hand' = Hand /\ Enqueuing' = Enqueuing
    BY <1>1, <2>1, SenderHand DEF Enqueuing, Current
  <2>11. Pending' = Pending
    BY <1>1, <2>10 DEF Pending
  <2>12. Divides(at)'
    BY <1>1, <2>11 DEF Covered, Divides
  <2>13. Ahead(at, top)'
    BY <1>1, <2>4, <2>5, <2>6, <2>7, <2>10 DEF Ahead
  <2>14. Below(top)'
    BY <1>1 DEF Covered, Below
  <2> QED BY <2>8, <2>9, <2>12, <2>13, <2>14 DEF Covered
<1> QED BY <1>3, <1>4

LEMMA CoveredUpdate ==
  ASSUME Inv, Still, Orderly, Continues, NEW at \in [Ids -> Nat], NEW top \in Nat,
         Covered(at, top), NEW s \in Senders, update_index_sent(s), Placed' = Placed
  PROVE  Covered(at, top)'
<1>1. /\ worker[s].pc \in {"update", "stale"}
      /\ \/ index_sent' = worker[s].value /\ counted' = counted \cup {worker[s].frame}
         \/ worker[s].pc = "stale" /\ UNCHANGED <<index_sent, counted>>
      /\ UNCHANGED <<phase, linked, sent_index, recorded, queue, manager, frames>>
  <2>1. worker[s].pc \in {"update", "stale"}
    BY DEF update_index_sent
  <2>2. {worker[s].frame} \ {0} = {worker[s].frame}
    BY <2>1 DEF Still, Genuine
  <2> QED BY <2>2 DEF update_index_sent, files
<1>2. Moves(s, "done", worker[s].frame, worker[s].value)
  BY UpdateMoves
<1>3. phase # "start" /\ \A r \in Senders : r # s => worker'[r].pc = "idle"
  BY <1>1, <1>2, OthersIdle DEF Still, Idle, Moves
<1>4. \A r \in Senders : worker'[r].pc \notin {"update", "stale"}
  BY <1>2, <1>3 DEF Moves
<1>5. FileCovers(at)'
  BY <1>1, FileCoversSame DEF Covered
<1>6. ThreadCovers(at)'
  BY <1>4 DEF ThreadCovers, Writes
<1>7. Ahead(at, top)'
  BY <1>4 DEF Ahead
<1>8. PICK v \in Nat : v = worker[s].value
  BY IndexNumbers
<1>9. PICK C : C = counted \cup recorded \cup {worker[s].frame}
  OBVIOUS
<1>10. Writes(s) => Covers(at, v, C)
  BY <1>8, <1>9 DEF Covered, ThreadCovers
<1>11. CASE phase = "run"
  <2>1. worker[s].pc = "update" /\ linked /\ Writes(s)
    BY <1>1, <1>11 DEF Still, Writes
  <2>2. index_sent' = v /\ counted' = counted \cup {worker[s].frame}
    BY <1>1, <1>8, <2>1
  <2>3. IndexCovers(at)'
    BY <1>9, <1>10, <2>1, <2>2, IndexCoversNext
  <2>4. /\ index_sent <= v /\ v <= top
        /\ \A q \in Range(queue) \cup Enqueuing : v <= at[q]
    BY <1>8, <1>11, <2>1 DEF Covered, Ahead
  <2>5. Hand = {worker[s].frame} /\ Hand' = {}
    BY <2>1, SenderHand DEF HandOf
  <2>6. Enqueuing' = Enqueuing
    BY <1>1 DEF Enqueuing, Current
  <2>7. Pending' = Range(queue) \cup Enqueuing /\ Pending = Pending' \cup {worker[s].frame}
    BY <1>1, <2>5, <2>6 DEF Pending
  <2>8. Divides(at)'
    <3>1. ASSUME NEW j \in Placed PROVE j \in counted' \/ at[j] < v \/ j \in Pending'
      <4>1. j \in counted \/ at[j] < index_sent \/ j \in Pending
        BY <1>11 DEF Covered, Divides
      <4>2. at[j] < index_sent => at[j] < v
        <5>1. PICK x \in Nat : x = index_sent
          BY IndexNumbers
        <5>2. PICK a \in Nat : a = at[j]
          BY PlacedIs
        <5>3. a < x => a < v
          BY <2>4, <5>1
        <5> QED BY <5>1, <5>2, <5>3
      <4> QED BY <2>2, <2>7, <4>1, <4>2
    <3>2. \A j \in Pending' : v <= at[j]
      BY <2>4, <2>7
    <3>3. recorded' \subseteq counted'
      BY <1>1, <1>11, <2>1, <2>2 DEF Covered, Divides
    <3> QED BY <2>2, <3>1, <3>2, <3>3 DEF Divides
  <2>9. Below(top)'
    BY <1>1, <2>2, <2>4 DEF Covered, Below
  <2> QED BY <1>5, <1>6, <1>7, <2>3, <2>8, <2>9 DEF Covered
<1>12. CASE phase # "run"
  <2>1. phase' = "stopping" /\ phase = "stopping"
    BY <1>1, <1>3, <1>12 DEF Inv, TypeOK
  <2>2. IndexCovers(at)'
    <3>1. CASE linked
      BY <1>1, <2>1, <3>1 DEF IndexCovers
    <3>2. CASE ~linked
      <4>1. Writes(s)
        BY <1>1, <3>2 DEF Still, Writes
      <4>2. CASE index_sent' = worker[s].value /\ counted' = counted \cup {worker[s].frame}
        BY <1>8, <1>9, <1>10, <4>1, <4>2, IndexCoversNext
      <4>3. CASE UNCHANGED <<index_sent, counted>>
        BY <3>2, <4>3, IndexCoversSame DEF Covered
      <4> QED BY <1>1, <4>2, <4>3
    <3> QED BY <3>1, <3>2
  <2>3. Divides(at)' /\ Below(top)'
    BY <2>1 DEF Divides, Below
  <2> QED BY <1>5, <1>6, <1>7, <2>2, <2>3 DEF Covered
<1> QED BY <1>11, <1>12

(* The persistence worker copies the index to the file. *)
LEMMA CoveredInfo ==
  ASSUME Inv, Continues, Calm', NEW at \in [Ids -> Nat], NEW top,
         Covered(at, top), persist_queue_info, Placed' = Placed
  PROVE  Covered(at, top)'
<1>1. /\ phase = "run" /\ linked /\ sent_index' = index_sent /\ recorded' = counted
      /\ UNCHANGED <<phase, linked, index_sent, counted, queue, manager, frames, worker>>
  BY NotLate DEF persist_queue_info, indexes
<1>2. FileCovers(at)'
  <2>1. PICK x \in Nat : x = index_sent
    BY IndexNumbers
  <2>2. PICK C : C = counted
    OBVIOUS
  <2>3. Covers(at, x, C)
    BY <1>1, <2>1, <2>2 DEF Covered, IndexCovers
  <2> QED BY <1>1, <2>1, <2>2, <2>3, FileCoversNext
<1>3. IndexCovers(at)'
  BY <1>1, IndexCoversSame DEF Covered
<1>4. ThreadCovers(at)'
  BY <1>1, ThreadCoversNext DEF Covered, Writes
<1>5. Enqueuing' = Enqueuing
  BY <1>1 DEF Enqueuing, Current
<1>6. Pending' = Pending
  BY <1>1, <1>5, HandSame DEF Pending
<1>7. Divides(at)' /\ Ahead(at, top)' /\ Below(top)'
  BY <1>1, <1>5, <1>6 DEF Covered, Divides, Ahead, Below
<1> QED BY <1>2, <1>3, <1>4, <1>7 DEF Covered

(* The index is read from the file, which is empty until it is written. *)
LEMMA NothingPlaced ==
  ASSUME data = <<>>, phase = "stopping" \/ listed = <<>>
  PROVE  Placed = {}
<1>1. NamesAt = {}
  BY DEF NamesAt
<1>2. InFile = {}
  BY <1>1 DEF InFile
<1> QED BY <1>2, EmptyRange DEF Placed, Awaited

LEMMA UnlinkedEmpty ==
  ASSUME Inv, Still, phase = "run", ~linked
  PROVE  Placed = {} /\ Pending = {} /\ Idle /\ Enqueuing = {} /\ Range(queue) = {}
<1>1. data = <<>> /\ listed = <<>> /\ queue = <<>> /\ Idle /\ manager \notin {"add", "head", "enqueue"}
  BY DEF Still
<1>2. Placed = {} /\ Hand = {} /\ Enqueuing = {} /\ Range(queue) = {}
  BY <1>1, NothingPlaced, IdleHand, EmptyRange DEF Enqueuing
<1> QED BY <1>1, <1>2 DEF Pending

LEMMA CoveredAlloc ==
  ASSUME Inv, LinkedInv, Still, Continues, NEW at \in [Ids -> Nat], NEW top \in Nat,
         Covered(at, top), alloc_qinfo, Placed' = Placed
  PROVE  Covered(at, top)'
<1>1. /\ manager = "create" /\ ~linked /\ index_sent' = sent_index /\ counted' = recorded
      /\ sent_index' = 0 /\ recorded' = {} /\ manager' = "link"
      /\ UNCHANGED <<phase, linked, queue, worker, frames>>
  BY DEF alloc_qinfo, unpersist_queue_info, LinkedInv
<1>2. FileCovers(at)'
  BY <1>1, CoversNothing, FileCoversNext
<1>3. IndexCovers(at)'
  <2>1. PICK x \in Nat : x = sent_index
    BY IndexNumbers
  <2>2. PICK C : C = recorded
    OBVIOUS
  <2>3. Covers(at, x, C)
    BY <2>1, <2>2 DEF Covered, FileCovers
  <2> QED BY <1>1, <2>1, <2>2, <2>3, IndexCoversNext
<1>4. ThreadCovers(at)'
  BY <1>1, ThreadCoversNext DEF Covered, Writes
<1>5. phase = "run" => Placed = {} /\ Idle /\ Hand' = {} /\ Range(queue)' = {}
  BY <1>1, UnlinkedEmpty, HandSame, IdleHand
<1>6. Enqueuing' = {}
  BY <1>1 DEF Enqueuing
<1>7. Divides(at)'
  BY <1>1, <1>5, <1>6 DEF Divides, Pending
<1>8. Ahead(at, top)'
  BY <1>1, <1>5 DEF Ahead, Idle
<1>9. Below(top)'
  BY <1>1 DEF Covered, Below
<1> QED BY <1>2, <1>3, <1>4, <1>7, <1>8, <1>9 DEF Covered

LEMMA CoveredLink ==
  ASSUME Inv, LinkedInv, Still, Continues, NEW at \in [Ids -> Nat], NEW top \in Nat,
         Covered(at, top), LinkQinfo, Placed' = Placed
  PROVE  Covered(at, top)'
<1>1. /\ manager = "link" /\ ~linked /\ linked' /\ sent_index' = index_sent /\ recorded' = counted
      /\ manager' \in {"restore", "add"}
      /\ UNCHANGED <<phase, queue, worker, frames, index_sent, counted>>
  BY DEF LinkQinfo, LinkedInv, indexes
<1>2. FileCovers(at)'
  <2>1. PICK x \in Nat : x = index_sent
    BY IndexNumbers
  <2>2. PICK C : C = counted
    OBVIOUS
  <2>3. Covers(at, x, C)
    BY <1>1, <2>1, <2>2 DEF Covered, IndexCovers
  <2> QED BY <1>1, <2>1, <2>2, <2>3, FileCoversNext
<1>3. IndexCovers(at)'
  BY <1>1, IndexCoversSame DEF Covered
<1>4. phase = "run" => Placed = {} /\ Idle /\ Hand' = {} /\ Range(queue)' = {}
  BY <1>1, UnlinkedEmpty, HandSame, IdleHand
<1>5. ThreadCovers(at)'
  BY <1>1, <1>4 DEF ThreadCovers, Writes, Idle
<1>6. Enqueuing' = {}
  BY <1>1 DEF Enqueuing
<1>7. Divides(at)'
  BY <1>1, <1>4, <1>6 DEF Divides, Pending
<1>8. Ahead(at, top)'
  BY <1>1, <1>4 DEF Ahead, Idle
<1>9. Below(top)'
  BY <1>1 DEF Covered, Below
<1> QED BY <1>2, <1>3, <1>5, <1>7, <1>8, <1>9 DEF Covered

LEMMA CoveredScan ==
  ASSUME Inv, LinkedInv, Still, Calm, Continues, NEW at \in [Ids -> Nat], NEW top \in Nat,
         Covered(at, top), UnpersistScan, Placed' = Placed
  PROVE  Covered(at, top)'
<1>1. /\ phase = "start" /\ manager = "idle" /\ ~linked
      /\ UNCHANGED <<linked, queue, worker, frames, listed, sent_index, recorded, index_sent, counted>>
      /\ \/ stored /\ manager' = "create" /\ phase' = phase
         \/ ~stored /\ manager' = manager /\ phase' = "run"
  BY DEF UnpersistScan, LinkedInv, Calm, files, indexes
<1>2. queue = <<>> /\ Idle
  BY <1>1 DEF Still
<1>3. \A s \in Senders : worker'[s].pc = "idle"
  BY <1>1, <1>2 DEF Idle
<1>4. CASE phase' = phase
  BY <1>1, <1>3, <1>4, CoveredSame DEF Writes
<1>5. CASE ~stored /\ manager' = manager /\ phase' = "run"
  <2>1. data = <<>> /\ listed = <<>>
    BY <1>1, <1>5 DEF Still, Inv, PhaseInv
  <2>2. Placed = {} /\ Hand' = {} /\ Range(queue)' = {} /\ Enqueuing' = {}
    BY <1>1, <1>2, <1>5, <2>1, NothingPlaced, IdleHand, HandSame, EmptyRange DEF Enqueuing
  <2>3. FileCovers(at)' /\ IndexCovers(at)' /\ ThreadCovers(at)'
    BY <2>2 DEF FileCovers, IndexCovers, ThreadCovers, Covers
  <2>4. Divides(at)' /\ Ahead(at, top)'
    BY <1>1, <1>3, <2>2 DEF Divides, Ahead, Pending
  <2>5. Below(top)'
    BY <1>1 DEF Covered, Below
  <2> QED BY <2>3, <2>4, <2>5 DEF Covered
<1> QED BY <1>1, <1>4, <1>5

(* A start restores what the index does not cover. *)
LEMMA FileBelow ==
  ASSUME Inv, NEW at, NEW top, Layout(at, top), Covered(at, top), phase = "start"
  PROVE  sent_index <= Len(data) /\ top = Len(data) /\ Placed = InFile
<1>1. listed = <<>>
  BY DEF Inv, PhaseInv
<1>2. Placed = InFile
  BY <1>1, EmptyRange DEF Placed, Awaited
<1> QED BY <1>1, <1>2 DEF Layout, ListAt, Covered, Below

LEMMA CoveredRestore ==
  ASSUME Inv, Still, Continues, NEW at \in [Ids -> Nat], NEW top \in Nat, Layout(at, top),
         Covered(at, top), unpersist, ~Misread(sent_index), Placed' = Placed
  PROVE  Covered(at, top)'
<1>1. sent_index <= Len(data) /\ Placed = InFile
  BY FileBelow DEF unpersist, Inv, PhaseInv
<1>2. /\ phase = "start" /\ phase' = "run" /\ manager' = "idle"
      /\ Range(queue)' = {k \in InFile : sent_index <= at[k]}
      /\ index_sent' = sent_index /\ counted' = recorded /\ Hand' = {}
      /\ UNCHANGED <<files, worker>>
  BY <1>1, RestoreIs
<1>3. UNCHANGED <<sent_index, recorded>>
  BY <1>2 DEF files
<1>4. Enqueuing' = {}
  BY <1>2 DEF Enqueuing
<1>5. Pending' = Range(queue)'
  BY <1>2, <1>4 DEF Pending
<1>6. \A s \in Senders : worker'[s].pc = "idle"
  BY <1>2 DEF Still, Idle
<1>7. FileCovers(at)'
  BY <1>3, FileCoversSame DEF Covered
<1>8. IndexCovers(at)'
  <2>1. PICK x \in Nat : x = sent_index
    BY IndexNumbers
  <2>2. PICK C : C = recorded
    OBVIOUS
  <2>3. Covers(at, x, C)
    BY <2>1, <2>2 DEF Covered, FileCovers
  <2> QED BY <1>2, <2>1, <2>2, <2>3, IndexCoversNext
<1>9. ThreadCovers(at)' /\ Ahead(at, top)'
  BY <1>6 DEF ThreadCovers, Writes, Ahead
<1>10. Divides(at)'
  <2>1. ASSUME NEW j \in Placed PROVE at[j] < sent_index \/ j \in Pending'
    <3>1. at[j] \in Nat /\ sent_index \in Nat
      BY PlacedIs, IndexNumbers
    <3>2. at[j] < sent_index \/ sent_index <= at[j]
      BY <3>1
    <3> QED BY <1>1, <1>2, <1>5, <3>2
  <2> QED BY <1>2, <1>3, <1>5, <2>1 DEF Divides
<1>11. Below(top)'
  BY <1>2, <1>3 DEF Covered, Below
<1> QED BY <1>7, <1>8, <1>9, <1>10, <1>11 DEF Covered

(* A frame that is listed comes behind all the others. *)
LEMMA CoveredAdd ==
  ASSUME Inv, Still, Orderly, Continues, phase = "run", add_frame_into_qinfo,
         NEW at \in [Ids -> Nat], NEW top \in Nat, Covered(at, top),
         NEW b, NEW up \in Nat, top <= up, NEW c \in Ids, c = Current, Placed' = Placed \cup {c},
         b[c] = top, \A k \in Placed : b[k] = at[k]
  PROVE  Covered(b, up)'
<1>1. /\ manager = "add" /\ manager' = "head"
      /\ UNCHANGED <<phase, frames, linked, queue, worker, sent_index, recorded, index_sent, counted, sent>>
  BY DEF add_frame_into_qinfo, files, indexes
<1>2. linked
  BY <1>1 DEF Still
<1>3. c \notin sent
  BY <1>1 DEF Orderly
<1>4. ASSUME NEW x \in Nat, NEW C, Covers(at, x, C), C \subseteq sent, x <= top PROVE Covers(b, x, C)'
  BY <1>3, <1>4, CoversAdd
<1>5. PICK f \in Nat : f = sent_index
  BY IndexNumbers
<1>6. PICK x \in Nat : x = index_sent
  BY IndexNumbers
<1>7. f <= top /\ x <= top
  BY <1>5, <1>6 DEF Covered, Below
<1>8. recorded \subseteq sent /\ counted \subseteq sent
  BY DEF Inv, TypeOK
<1>9. FileCovers(b)'
  <2>1. PICK C : C = recorded
    OBVIOUS
  <2>2. Covers(b, f, C)'
    BY <1>4, <1>5, <1>7, <1>8, <2>1 DEF Covered, FileCovers
  <2> QED BY <1>1, <1>5, <2>1, <2>2 DEF FileCovers, Covers
<1>10. IndexCovers(b)'
  <2>1. PICK C : C = counted
    OBVIOUS
  <2>2. Covers(b, x, C)'
    BY <1>4, <1>6, <1>7, <1>8, <2>1 DEF Covered, IndexCovers
  <2> QED BY <1>1, <1>6, <2>1, <2>2 DEF IndexCovers, Covers
<1>11. ThreadCovers(b)'
  <2> SUFFICES ASSUME NEW s \in Senders, Writes(s)'
               PROVE  Covers(b, worker[s].value, counted \cup recorded \cup {worker[s].frame})'
    BY DEF ThreadCovers
  <2>1. worker[s].pc = "update" /\ Writes(s)
    BY <1>1, <1>2 DEF Writes
  <2>2. PICK v \in Nat : v = worker[s].value
    BY IndexNumbers
  <2>3. PICK C : C = counted \cup recorded \cup {worker[s].frame}
    OBVIOUS
  <2>4. v <= top
    BY <2>1, <2>2 DEF Covered, Ahead
  <2>5. C \subseteq sent
    BY <1>8, <2>1, <2>3 DEF Inv, WorkerInv, Still, Genuine
  <2>6. Covers(b, v, C)'
    BY <1>4, <2>1, <2>2, <2>3, <2>4, <2>5 DEF Covered, ThreadCovers
  <2> QED BY <1>1, <2>2, <2>3, <2>6 DEF Covers
<1>12. Enqueuing = {} /\ Enqueuing' = {c} /\ Hand' = Hand
  BY <1>1, HandSame DEF Enqueuing, Current
<1>13. Pending' = Pending \cup {c} /\ Pending \subseteq Placed /\ Range(queue) \subseteq Pending
  BY <1>1, <1>12 DEF Pending, Orderly
<1>14. Divides(b)'
  <2>1. ASSUME NEW j \in Placed' PROVE j \in counted \/ b[j] < x \/ j \in Pending'
    <3>1. CASE j = c
      BY <1>13, <3>1
    <3>2. CASE j \in Placed
      BY <1>6, <1>13, <3>2 DEF Covered, Divides
    <3> QED BY <3>1, <3>2
  <2>2. ASSUME NEW j \in Pending' PROVE x <= b[j]
    <3>1. CASE j = c
      BY <1>7, <3>1
    <3>2. CASE j \in Pending
      BY <1>6, <1>13, <3>2 DEF Covered, Divides
    <3> QED BY <1>13, <3>1, <3>2
  <2>3. recorded \subseteq counted
    BY <1>2 DEF Covered, Divides
  <2> QED BY <1>1, <1>6, <2>1, <2>2, <2>3 DEF Divides
<1>15. Ahead(b, up)'
  <2> SUFFICES ASSUME NEW s \in Senders, worker'[s].pc = "update"
               PROVE  /\ index_sent' <= worker'[s].value /\ worker'[s].value <= up
                      /\ \A q \in Range(queue)' \cup Enqueuing' : worker'[s].value <= b[q]
    BY DEF Ahead
  <2>1. PICK v \in Nat : v = worker[s].value
    BY IndexNumbers
  <2>2. index_sent <= v /\ v <= top /\ \A q \in Range(queue) : v <= at[q]
    BY <1>1, <2>1 DEF Covered, Ahead
  <2>3. v <= up
    BY <2>2
  <2>4. \A q \in Range(queue) : v <= b[q]
    BY <1>13, <2>2
  <2>5. v <= b[c]
    BY <2>2
  <2> QED BY <1>1, <1>12, <2>1, <2>2, <2>3, <2>4, <2>5
<1>16. Below(up)'
  <2>1. f <= up /\ x <= up
    BY <1>7
  <2> QED BY <1>1, <1>5, <1>6, <2>1 DEF Below
<1> QED BY <1>9, <1>10, <1>11, <1>14, <1>15, <1>16 DEF Covered

(* The end of a run, and the start of the next. *)
LEMMA CoveredStops ==
  ASSUME Inv, Still, Continues, NEW at \in [Ids -> Nat], NEW top, Covered(at, top),
         cleanup_persistent_worker, Placed' \subseteq Placed, NEW up
  PROVE  Covered(at, up)'
<1>1. /\ phase = "run" /\ phase' = "stopping" /\ ~linked'
      /\ UNCHANGED <<sent_index, recorded, index_sent, counted>>
  BY DEF cleanup_persistent_worker, free_qinfo, files, indexes
<1>2. FileCovers(at)' /\ IndexCovers(at)'
  BY <1>1, FileCoversSame, IndexCoversSame DEF Covered
<1>3. ASSUME NEW s \in Senders, Writes(s)'
      PROVE  Writes(s) /\ worker'[s].value = worker[s].value /\ worker'[s].frame = worker[s].frame
  <2>1. worker'[s].pc = "stale"
    BY <1>1, <1>3 DEF Writes
  <2>2. worker[s].pc \in {"update", "stale"}
    BY <2>1, CleanupMoves
  <2>3. worker[s].pc = "update"
    BY <1>1, <2>2 DEF Still
  <2> QED BY <1>1, <2>3, CleanupMoves DEF Writes
<1>4. ThreadCovers(at)'
  BY <1>1, <1>3, ThreadCoversNext DEF Covered
<1>5. Divides(at)' /\ Ahead(at, up)' /\ Below(up)'
  BY <1>1 DEF Divides, Ahead, Below
<1> QED BY <1>2, <1>4, <1>5 DEF Covered

LEMMA CoveredRestart ==
  ASSUME Inv, Continues, Calm', NEW at \in [Ids -> Nat], NEW top, Covered(at, top),
         Restart, Placed' \subseteq Placed
  PROVE  Covered(at, Len(data))'
<1>1. /\ phase' = "start" /\ index_sent' = 0 /\ counted' = {}
      /\ worker' = [s \in Senders |-> Resting]
      /\ overtaken' = (overtaken \/ sent_index > Len(data))
      /\ UNCHANGED <<data, sent_index, recorded>>
  BY DEF Restart, files
<1>2. FileCovers(at)' /\ IndexCovers(at)'
  BY <1>1, FileCoversSame, CoversNothing, IndexCoversNext DEF Covered
<1>3. ThreadCovers(at)'
  BY <1>1, RestingIs DEF ThreadCovers, Writes
<1>4. PICK l \in Nat : l = Len(data)
  BY DEF Inv, TypeOK
<1>5. PICK f \in Nat : f = sent_index
  BY IndexNumbers
<1>6. ~(f > l)
  BY <1>1, <1>4, <1>5 DEF Calm
<1>7. f <= l /\ 0 <= l
  BY <1>6
<1>8. Below(Len(data))'
  BY <1>1, <1>4, <1>5, <1>7 DEF Below
<1>9. Divides(at)' /\ Ahead(at, Len(data))'
  BY <1>1 DEF Divides, Ahead
<1> QED BY <1>2, <1>3, <1>8, <1>9 DEF Covered

-----------------------------------------------------------------------------
(***************************************************************************)
(* The invariant: in calm runs there are places for the frames such that   *)
(* the indexes cover what begins before them, and a frame that is placed   *)
(* is sent or on its way.                                                  *)
(***************************************************************************)
Tracked == \E at \in [Ids -> Nat] : \E top \in Nat : Layout(at, top) /\ Covered(at, top)
OnTheWay == sent \cup Range(queue) \cup InHand \cup Enqueuing
Kept == phase # "start" => Placed \subseteq OnTheWay
Good == Orderly /\ SizesFit /\ Kept /\ Tracked
SentInv == Calm => Still /\ Good

LEMMA TrackedNext ==
  ASSUME NEW at \in [Ids -> Nat], NEW top \in Nat, Layout(at, top)', Covered(at, top)'
  PROVE  Tracked'
BY DEF Tracked

LEMMA KeptSame ==
  ASSUME Kept, phase' # "start" => phase # "start", Placed' \subseteq Placed, OnTheWay \subseteq OnTheWay'
  PROVE  Kept'
BY DEF Kept

(* The steps that leave the frames where they are. *)
LEMMA GoodQuiet ==
  ASSUME Inv, Still, Good, Continues, Enqueuing' = Enqueuing,
         UNCHANGED <<phase, linked, sent_index, recorded, index_sent, counted, data, listed, frames, size,
                     counting, queue, worker, sent>>,
         manager' # "idle" => manager # "idle",
         manager' \in {"create", "link", "add"} => manager \in {"create", "link", "add"}
  PROVE  Good'
<1>1. PICK at \in [Ids -> Nat], top \in Nat : Layout(at, top) /\ Covered(at, top)
  BY DEF Good, Tracked
<1>2. Layout(at, top)' /\ Placed' = Placed
  BY <1>1, LayoutSame
<1>3. Hand' = Hand /\ InHand' = InHand
  BY HandSame
<1>4. Pending' = Pending
  BY <1>3 DEF Pending
<1>5. Covered(at, top)'
  BY <1>1, <1>2, <1>4, CoveredSame DEF Writes
<1>6. Orderly'
  BY <1>2, <1>3, OrderlySame DEF Good
<1>7. Sized' \subseteq Sized
  BY <1>3 DEF Sized, Current
<1>8. SizesFit'
  BY <1>7, FitsSames DEF Good
<1>9. OnTheWay' = OnTheWay
  BY <1>3 DEF OnTheWay
<1>10. Kept'
  BY <1>2, <1>9, KeptSame DEF Good
<1> QED BY <1>2, <1>5, <1>6, <1>8, <1>10, TrackedNext DEF Good

LEMMA GoodSend ==
  ASSUME Inv, Still, Good, Continues, NEW kind \in Kinds, handler_stomp_send(kind)
  PROVE  Good'
<1>1. /\ manager = "idle" /\ manager' \in {"add", "create"}
      /\ UNCHANGED <<phase, linked, sent_index, recorded, index_sent, counted, data, listed, queue, worker, sent>>
  BY DEF handler_stomp_send, files, indexes
<1>2. PICK at \in [Ids -> Nat], top \in Nat : Layout(at, top) /\ Covered(at, top)
  BY DEF Good, Tracked
<1>3. Layout(at, top)' /\ Placed' = Placed
  BY <1>1, <1>2, LayoutSame
<1>4. Hand' = Hand /\ InHand' = InHand /\ Enqueuing' = {} /\ Enqueuing = {}
  BY <1>1, HandSame DEF Enqueuing
<1>5. Pending' = Pending /\ OnTheWay' = OnTheWay
  BY <1>1, <1>4 DEF Pending, OnTheWay
<1>6. Covered(at, top)'
  BY <1>1, <1>2, <1>3, <1>4, <1>5, CoveredSame DEF Writes
<1>7. Orderly' /\ SizesFit'
  BY <1>3, OrderlySend, FitsSend DEF Good
<1>8. Kept'
  BY <1>1, <1>3, <1>5, KeptSame DEF Good
<1> QED BY <1>3, <1>6, <1>7, <1>8, TrackedNext DEF Good

LEMMA GoodCount ==
  ASSUME Inv, Still, Good, Continues, NEW i \in Ids, CountNul(i)
  PROVE  Good'
<1>1. UNCHANGED <<phase, linked, sent_index, recorded, index_sent, counted, data, listed, queue, worker,
                  sent, frames, manager>>
  BY DEF CountNul, files, indexes
<1>2. PICK at \in [Ids -> Nat], top \in Nat : Layout(at, top) /\ Covered(at, top)
  BY DEF Good, Tracked
<1>3. Layout(at, top)' /\ Placed' = Placed
  BY <1>1, <1>2, LayoutSame
<1>4. Hand' = Hand /\ InHand' = InHand /\ Enqueuing' = Enqueuing
  BY <1>1, HandSame DEF Enqueuing, Current
<1>5. Pending' = Pending /\ OnTheWay' = OnTheWay
  BY <1>1, <1>4 DEF Pending, OnTheWay
<1>6. Covered(at, top)'
  BY <1>1, <1>2, <1>3, <1>4, <1>5, CoveredSame DEF Writes
<1>7. Orderly' /\ SizesFit'
  BY <1>1, <1>3, <1>4, OrderlySame, FitsCount DEF Good
<1>8. Kept'
  BY <1>1, <1>3, <1>5, KeptSame DEF Good
<1> QED BY <1>3, <1>6, <1>7, <1>8, TrackedNext DEF Good

LEMMA GoodAlloc ==
  ASSUME Inv, LinkedInv, Still, Good, Continues, alloc_qinfo
  PROVE  Good'
<1>1. /\ manager = "create" /\ manager' = "link"
      /\ UNCHANGED <<phase, linked, data, listed, queue, worker, sent, frames, size, counting>>
  BY DEF alloc_qinfo
<1>2. PICK at \in [Ids -> Nat], top \in Nat : Layout(at, top) /\ Covered(at, top)
  BY DEF Good, Tracked
<1>3. Layout(at, top)' /\ Placed' = Placed
  BY <1>1, <1>2, LayoutSame
<1>4. Hand' = Hand /\ InHand' = InHand /\ Enqueuing' = Enqueuing
  BY <1>1, HandSame DEF Enqueuing
<1>5. Sized' \subseteq Sized /\ OnTheWay' = OnTheWay
  BY <1>1, <1>4 DEF Sized, OnTheWay, Current
<1>6. Covered(at, top)'
  BY <1>2, <1>3, CoveredAlloc
<1>7. Orderly' /\ SizesFit'
  BY <1>1, <1>3, <1>4, <1>5, OrderlySame, FitsSames DEF Good
<1>8. Kept'
  BY <1>1, <1>3, <1>5, KeptSame DEF Good
<1> QED BY <1>3, <1>6, <1>7, <1>8, TrackedNext DEF Good

LEMMA GoodLink ==
  ASSUME Inv, LinkedInv, Still, Good, Continues, LinkQinfo
  PROVE  Good'
<1>1. /\ manager = "link" /\ manager' \in {"restore", "add"} /\ listed' = <<>> /\ ~linked
      /\ UNCHANGED <<phase, data, queue, worker, sent, frames, size, counting>>
  BY DEF LinkQinfo, LinkedInv
<1>2. PICK at \in [Ids -> Nat], top \in Nat : Layout(at, top) /\ Covered(at, top)
  BY DEF Good, Tracked
<1>3. phase # "stopping" => listed = <<>>
  BY <1>1 DEF Still, Inv, PhaseInv, TypeOK
<1>4. Layout(at, top)' /\ Placed' = Placed
  BY <1>1, <1>2, <1>3, LayoutSame
<1>5. Hand' = Hand /\ InHand' = InHand /\ Enqueuing' = Enqueuing
  BY <1>1, HandSame DEF Enqueuing
<1>6. Sized' \subseteq Sized /\ OnTheWay' = OnTheWay
  BY <1>1, <1>5 DEF Sized, OnTheWay, Current
<1>7. Covered(at, top)'
  BY <1>2, <1>4, CoveredLink
<1>8. Orderly' /\ SizesFit'
  BY <1>1, <1>4, <1>5, <1>6, OrderlySame, FitsSames DEF Good
<1>9. Kept'
  BY <1>1, <1>4, <1>6, KeptSame DEF Good
<1> QED BY <1>4, <1>7, <1>8, <1>9, TrackedNext DEF Good

LEMMA GoodScan ==
  ASSUME Inv, LinkedInv, Still, Calm, Good, Continues, UnpersistScan
  PROVE  Good'
<1>1. /\ phase = "start" /\ manager = "idle" /\ listed = <<>> /\ queue = <<>> /\ Idle
      /\ UNCHANGED <<data, listed, queue, worker, sent, frames, size, counting>>
      /\ \/ manager' = "create" /\ phase' = "start"
         \/ ~stored /\ manager' = "idle" /\ phase' = "run"
  BY DEF UnpersistScan, Calm, Still, Inv, PhaseInv, files
<1>2. PICK at \in [Ids -> Nat], top \in Nat : Layout(at, top) /\ Covered(at, top)
  BY DEF Good, Tracked
<1>3. Layout(at, top)' /\ Placed' = Placed
  BY <1>1, <1>2, LayoutSame
<1>4. Covered(at, top)'
  BY <1>2, <1>3, CoveredScan
<1>5. Hand' = {} /\ Enqueuing' = {} /\ Range(queue)' = {}
  BY <1>1, HandSame, IdleHand, EmptyRange DEF Enqueuing
<1>6. SizesFit'
  BY <1>1, <1>5 DEF SizesFit, Sized
<1>7. Grows(queue)'
  BY <1>1 DEF Grows
<1>8. Orderly'
  BY <1>1, <1>5, <1>7 DEF Orderly, Pending
<1>9. phase' = "run" => Placed = {}
  BY <1>1, NothingPlaced DEF Still
<1>10. Kept'
  BY <1>1, <1>3, <1>9 DEF Kept
<1> QED BY <1>3, <1>4, <1>6, <1>8, <1>10, TrackedNext DEF Good

LEMMA GoodRestore ==
  ASSUME Inv, Still, Good, Continues, Calm', unpersist
  PROVE  Good'
<1>1. PICK at \in [Ids -> Nat], top \in Nat : Layout(at, top) /\ Covered(at, top)
  BY DEF Good, Tracked
<1>2. sent_index <= Len(data) /\ Placed = InFile /\ ~Misread(sent_index)
  BY <1>1, FileBelow, NotMisled DEF unpersist, Inv, PhaseInv
<1>3. /\ phase = "start" /\ phase' = "run" /\ Range(queue)' = {k \in InFile : sent_index <= at[k]}
      /\ UNCHANGED <<files, sent, frames, listed>>
  BY <1>1, <1>2, RestoreIs
<1>4. Layout(at, top)' /\ Placed' = Placed
  BY <1>1, <1>3, LayoutSame DEF files
<1>5. Covered(at, top)' /\ Orderly' /\ SizesFit'
  BY <1>1, <1>2, <1>4, CoveredRestore, OrderlyRestore, FitsRestore
<1>6. Kept'
  <2> SUFFICES ASSUME NEW k \in Placed PROVE k \in sent' \cup Range(queue)'
    BY <1>4 DEF Kept, OnTheWay
  <2>1. at[k] \in Nat /\ sent_index \in Nat
    BY PlacedIs, IndexNumbers
  <2>2. at[k] < sent_index \/ sent_index <= at[k]
    BY <2>1
  <2>3. at[k] < sent_index => k \in sent
    BY <1>1 DEF Covered, FileCovers, Covers
  <2> QED BY <1>2, <1>3, <2>2, <2>3
<1> QED BY <1>4, <1>5, <1>6, TrackedNext DEF Good

LEMMA GoodAdd ==
  ASSUME Inv, OrderInv, Still, Good, Continues, add_frame_into_qinfo
  PROVE  Good'
<1>1. /\ manager = "add" /\ manager' = "head" /\ phase # "start"
      /\ UNCHANGED <<phase, linked, data, queue, worker, sent, frames, size, counting, sent_index, recorded,
                     index_sent, counted>>
      /\ listed' = IF linked THEN Append(listed, Current) ELSE listed
  BY CurrentIs DEF add_frame_into_qinfo, files, indexes
<1>2. PICK at \in [Ids -> Nat], top \in Nat : Layout(at, top) /\ Covered(at, top)
  BY DEF Good, Tracked
<1>3. PICK c \in DOMAIN frames : c = Current /\ c \in Ids
  BY <1>1, CurrentIs
<1>4. Hand' = Hand /\ InHand' = InHand /\ Enqueuing' = {c} /\ Enqueuing = {}
  BY <1>1, <1>3, HandSame DEF Enqueuing, Current
<1>5. Sized' \subseteq Sized /\ OnTheWay' = OnTheWay \cup {c}
  BY <1>1, <1>4 DEF Sized, OnTheWay, Current
<1>6. SizesFit'
  BY <1>1, <1>5, FitsSames DEF Good
<1>7. CASE phase = "run"
  <2>1. linked /\ listed' = Append(listed, c)
    BY <1>1, <1>3, <1>7 DEF Still
  <2>2. \A k \in InFile \cup Range(listed) : k < c
    BY <1>1, <1>3 DEF OrderInv, NewestLast
  <2>3. data' = data /\ frames' = frames /\ phase # "stopping" /\ phase' # "stopping"
    BY <1>1, <1>7
  <2>4. Extended(at, top, c)
    BY <1>2, <1>3, <2>1, <2>2, <2>3, LayoutAdds
  <2>5. PICK b \in [Ids -> Nat], up \in Nat :
          /\ Layout(b, up)' /\ Placed' = Placed \cup {c}
          /\ top <= up /\ b[c] = top /\ \A k \in Placed : b[k] = at[k]
    BY <2>4 DEF Extended
  <2>6. Covered(b, up)'
    BY <1>2, <1>3, <1>7, <2>5, CoveredAdd DEF Good
  <2>7. Orderly'
    BY <1>3, <2>5, OrderlyAdd DEF Good
  <2>8. Kept'
    BY <1>1, <1>5, <2>5 DEF Good, Kept
  <2> QED BY <1>6, <2>5, <2>6, <2>7, <2>8, TrackedNext DEF Good
<1>8. CASE phase # "run"
  <2>1. phase = "stopping"
    BY <1>1, <1>8 DEF Inv, TypeOK
  <2>2. Layout(at, top)' /\ Placed' = Placed
    BY <1>1, <1>2, <2>1, LayoutSame
  <2>3. Covered(at, top)'
    BY <1>1, <1>2, <2>1, <2>2, CoveredSame DEF Writes
  <2>4. Orderly'
    BY <1>1, <2>1 DEF Orderly
  <2>5. Kept'
    BY <1>1, <1>5, <2>2, KeptSame DEF Good
  <2> QED BY <1>6, <2>2, <2>3, <2>4, <2>5, TrackedNext DEF Good
<1> QED BY <1>7, <1>8

LEMMA GoodHead ==
  ASSUME Inv, Still, Good, Continues, persist_frame
  PROVE  Good'
<1>1. UNCHANGED <<phase, linked, sent_index, recorded, index_sent, counted, data, listed, frames, size,
                  counting, queue, worker, sent>> /\ manager = "head" /\ manager' = "enqueue"
  BY DEF persist_frame, files
<1>2. Enqueuing' = Enqueuing
  BY <1>1 DEF Enqueuing, Current
<1> QED BY <1>1, <1>2, GoodQuiet

LEMMA GoodEnqueue ==
  ASSUME Inv, Still, Good, Continues, enqueue
  PROVE  Good'
<1>1. /\ manager = "enqueue" /\ manager' = "idle" /\ queue' = Append(queue, Current) /\ phase # "start"
      /\ UNCHANGED <<phase, linked, data, listed, worker, sent, frames, size, counting, sent_index, recorded,
                     index_sent, counted>>
  BY CurrentIs DEF enqueue, files, indexes
<1>2. PICK at \in [Ids -> Nat], top \in Nat : Layout(at, top) /\ Covered(at, top)
  BY DEF Good, Tracked
<1>3. Layout(at, top)' /\ Placed' = Placed
  BY <1>1, <1>2, LayoutSame
<1>4. PICK c \in Objects : c = Current
  BY <1>1, CurrentIs, FramesInIds DEF Inv
<1>5. Range(queue)' = Range(queue) \cup {c}
  BY <1>1, <1>4, AppendRange DEF Inv, TypeOK
<1>6. Hand' = Hand /\ InHand' = InHand /\ Enqueuing = {c} /\ Enqueuing' = {}
  BY <1>1, <1>4, HandSame DEF Enqueuing
<1>7. Pending' = Pending /\ OnTheWay' = OnTheWay
  BY <1>1, <1>5, <1>6 DEF Pending, OnTheWay
<1>8. Sized' \subseteq Sized
  BY <1>1, <1>4, <1>5, <1>6 DEF Sized
<1>9. Covered(at, top)'
  BY <1>1, <1>2, <1>3, <1>5, <1>6, <1>7, CoveredSame DEF Writes
<1>10. Orderly' /\ SizesFit'
  BY <1>1, <1>3, <1>8, OrderlyEnqueue, FitsSames DEF Good
<1>11. Kept'
  BY <1>1, <1>3, <1>7, KeptSame DEF Good
<1> QED BY <1>3, <1>9, <1>10, <1>11, TrackedNext DEF Good

LEMMA GoodInfo ==
  ASSUME Inv, Still, Good, Continues, Calm', persist_queue_info
  PROVE  Good'
<1>1. UNCHANGED <<phase, linked, data, listed, queue, worker, sent, frames, size, counting, manager>>
  BY DEF persist_queue_info
<1>2. PICK at \in [Ids -> Nat], top \in Nat : Layout(at, top) /\ Covered(at, top)
  BY DEF Good, Tracked
<1>3. Layout(at, top)' /\ Placed' = Placed
  BY <1>1, <1>2, LayoutSame
<1>4. Hand' = Hand /\ InHand' = InHand /\ Enqueuing' = Enqueuing
  BY <1>1, HandSame DEF Enqueuing, Current
<1>5. Sized' \subseteq Sized /\ OnTheWay' = OnTheWay
  BY <1>1, <1>4 DEF Sized, OnTheWay, Current
<1>6. Covered(at, top)'
  BY <1>2, <1>3, CoveredInfo
<1>7. Orderly' /\ SizesFit'
  BY <1>1, <1>3, <1>4, <1>5, OrderlySame, FitsSames DEF Good
<1>8. Kept'
  BY <1>1, <1>3, <1>5, KeptSame DEF Good
<1> QED BY <1>3, <1>6, <1>7, <1>8, TrackedNext DEF Good

LEMMA GoodContext ==
  ASSUME Inv, OrderInv, Still, Good, Continues, persist_queue_context
  PROVE  Good'
<1>1. /\ UNCHANGED <<phase, linked, queue, worker, sent, frames, size, counting, manager, sent_index, recorded,
                     index_sent, counted>>
      /\ writer = "context" /\ listed # <<>> /\ listed' = Tail(listed)
  BY DEF persist_queue_context
<1>2. data' = data \o Written(Head(listed))
  BY ContextIs DEF Still
<1>3. phase # "stopping"
  BY <1>1 DEF Still
<1>4. PICK at \in [Ids -> Nat], top \in Nat : Layout(at, top) /\ Covered(at, top)
  BY DEF Good, Tracked
<1>5. Layout(at, top)' /\ Placed' = Placed
  BY <1>1, <1>2, <1>3, <1>4, LayoutWrites
<1>6. Hand' = Hand /\ InHand' = InHand /\ Enqueuing' = Enqueuing
  BY <1>1, HandSame DEF Enqueuing, Current
<1>7. Sized' \subseteq Sized /\ OnTheWay' = OnTheWay /\ Pending' = Pending
  BY <1>1, <1>6 DEF Sized, OnTheWay, Current, Pending
<1>8. Covered(at, top)'
  BY <1>1, <1>4, <1>5, <1>6, <1>7, CoveredSame DEF Writes
<1>9. Orderly' /\ SizesFit'
  BY <1>1, <1>5, <1>6, <1>7, OrderlySame, FitsSames DEF Good
<1>10. Kept'
  BY <1>1, <1>5, <1>7, KeptSame DEF Good
<1> QED BY <1>5, <1>8, <1>9, <1>10, TrackedNext DEF Good

LEMMA GoodDequeue ==
  ASSUME Inv, Still, Good, Continues, Calm', NEW s \in Senders, dequeue(s)
  PROVE  Good'
<1>1. UNCHANGED <<phase, linked, data, listed, sent, frames, size, counting, sent_index, recorded,
                  index_sent, counted, manager>>
  BY DEF dequeue, files, indexes
<1>2. PICK at \in [Ids -> Nat], top \in Nat : Layout(at, top) /\ Covered(at, top)
  BY DEF Good, Tracked
<1>3. Layout(at, top)' /\ Placed' = Placed
  BY <1>1, <1>2, LayoutSame
<1>4. PICK h : h = Head(queue)
  OBVIOUS
<1>5. Hand = {} /\ InHand = {} /\ Hand' = {h} /\ InHand' = {h} /\ Range(queue) = Range(queue)' \cup {h}
  BY <1>4, DequeueHand, DequeueSplits
<1>6. Enqueuing' = Enqueuing
  BY <1>1 DEF Enqueuing, Current
<1>7. Pending' = Pending /\ OnTheWay' = OnTheWay
  BY <1>1, <1>5, <1>6 DEF Pending, OnTheWay
<1>8. Sized' \subseteq Sized
  BY <1>1, <1>5 DEF Sized, Current
<1>9. \A r \in Senders : Writes(r)' => worker'[r] = worker[r]
  BY DequeueMoves DEF Moves, Writes
<1>10. Covered(at, top)'
  BY <1>1, <1>2, <1>3, <1>5, <1>6, <1>7, <1>9, CoveredSame
<1>11. Orderly' /\ SizesFit'
  BY <1>1, <1>3, <1>8, OrderlyDequeue, FitsSames DEF Good
<1>12. Kept'
  BY <1>1, <1>3, <1>7, KeptSame DEF Good
<1> QED BY <1>3, <1>10, <1>11, <1>12, TrackedNext DEF Good

LEMMA GoodSent ==
  ASSUME Inv, Still, Good, Continues, NEW s \in Senders, SendAndRead(s)
  PROVE  Good'
<1>1. UNCHANGED <<phase, linked, data, listed, frames, size, counting, queue, manager>>
  BY DEF SendAndRead, files, indexes
<1>2. PICK at \in [Ids -> Nat], top \in Nat : Layout(at, top) /\ Covered(at, top)
  BY DEF Good, Tracked
<1>3. Layout(at, top)' /\ Placed' = Placed
  BY <1>1, <1>2, LayoutSame
<1>4. InHand' = InHand /\ Hand' \subseteq Hand /\ Enqueuing' = Enqueuing /\ sent \subseteq sent'
  BY <1>1, SenderHand DEF Enqueuing, Current, Continues
<1>5. Sized' \subseteq Sized /\ OnTheWay \subseteq OnTheWay'
  BY <1>1, <1>4 DEF Sized, OnTheWay, Current
<1>6. Covered(at, top)' /\ Orderly' /\ SizesFit'
  BY <1>1, <1>2, <1>3, <1>5, CoveredSent, OrderlySent, FitsSames DEF Good
<1>7. Kept'
  BY <1>1, <1>3, <1>5, KeptSame DEF Good
<1> QED BY <1>3, <1>6, <1>7, TrackedNext DEF Good

LEMMA GoodUpdate ==
  ASSUME Inv, Still, Good, Continues, NEW s \in Senders, update_index_sent(s)
  PROVE  Good'
<1>1. UNCHANGED <<phase, linked, data, listed, frames, size, counting, queue, manager, sent>>
  BY DEF update_index_sent, files
<1>2. PICK at \in [Ids -> Nat], top \in Nat : Layout(at, top) /\ Covered(at, top)
  BY DEF Good, Tracked
<1>3. Layout(at, top)' /\ Placed' = Placed
  BY <1>1, <1>2, LayoutSame
<1>4. InHand' = InHand /\ Hand' = {} /\ Enqueuing' = Enqueuing
  BY <1>1, SenderHand DEF Enqueuing, Current
<1>5. Sized' \subseteq Sized /\ OnTheWay' = OnTheWay
  BY <1>1, <1>4 DEF Sized, OnTheWay, Current
<1>6. Covered(at, top)' /\ Orderly' /\ SizesFit'
  BY <1>1, <1>2, <1>3, <1>4, <1>5, CoveredUpdate, OrderlySame, FitsSames DEF Good
<1>7. Kept'
  BY <1>1, <1>3, <1>5, KeptSame DEF Good
<1> QED BY <1>3, <1>6, <1>7, TrackedNext DEF Good

LEMMA GoodDone ==
  ASSUME Inv, Still, Good, Continues, NEW s \in Senders, SendingDone(s)
  PROVE  Good'
<1>1. /\ UNCHANGED <<phase, linked, data, listed, frames, size, counting, queue, manager, sent, sent_index,
                     recorded, index_sent, counted>>
      /\ worker[s].pc = "done"
  BY DEF SendingDone, files, indexes
<1>2. PICK at \in [Ids -> Nat], top \in Nat : Layout(at, top) /\ Covered(at, top)
  BY DEF Good, Tracked
<1>3. Layout(at, top)' /\ Placed' = Placed
  BY <1>1, <1>2, LayoutSame
<1>4. /\ InHand = {worker[s].frame} /\ InHand' = {} /\ Hand = {} /\ Hand' = {} /\ Enqueuing' = Enqueuing
      /\ worker[s].frame \in sent
  BY <1>1, SenderHand DEF Enqueuing, Current, Inv, WorkerInv, Still, Genuine
<1>5. Sized' \subseteq Sized /\ OnTheWay' = OnTheWay /\ Pending' = Pending
  BY <1>1, <1>4 DEF Sized, OnTheWay, Current, Pending
<1>6. \A r \in Senders : Writes(r)' => worker'[r] = worker[r]
  BY DoneMoves DEF Moves, Writes
<1>7. Covered(at, top)'
  BY <1>1, <1>2, <1>3, <1>4, <1>5, <1>6, CoveredSame
<1>8. Orderly' /\ SizesFit'
  BY <1>1, <1>3, <1>4, <1>5, OrderlySame, FitsSames DEF Good
<1>9. Kept'
  BY <1>1, <1>3, <1>5, KeptSame DEF Good
<1> QED BY <1>3, <1>7, <1>8, <1>9, TrackedNext DEF Good

LEMMA GoodStops ==
  ASSUME Inv, OrderInv, Still, Good, Continues, cleanup_persistent_worker
  PROVE  Good'
<1>1. /\ UNCHANGED <<data, frames, size, counting, queue, manager, sent>>
      /\ phase = "run" /\ phase' = "stopping"
  BY DEF cleanup_persistent_worker, files
<1>2. PICK at \in [Ids -> Nat], top \in Nat : Layout(at, top) /\ Covered(at, top)
  BY DEF Good, Tracked
<1>d. data \in Seq(FileUnit)
  BY DEF Inv, TypeOK
<1>3. PICK up \in Nat : up = Len(data)
  BY <1>d
<1>4. Layout(at, up)' /\ Placed' \subseteq Placed
  BY <1>1, <1>2, <1>3, LayoutShrinks DEF Layout, TopAt, ListAt
<1>5. Covered(at, up)'
  BY <1>2, <1>4, CoveredStops
<1>6. Hand' \subseteq Hand /\ InHand' = InHand /\ Enqueuing' = Enqueuing
  BY <1>1, CleanupHand DEF Enqueuing, Current
<1>7. Sized' \subseteq Sized /\ OnTheWay' = OnTheWay
  BY <1>1, <1>6 DEF Sized, OnTheWay, Current
<1>8. Orderly' /\ SizesFit'
  BY <1>1, <1>7, FitsSames DEF Good, Orderly
<1>9. Kept'
  BY <1>1, <1>4, <1>7, KeptSame DEF Good
<1> QED BY <1>4, <1>5, <1>8, <1>9, TrackedNext DEF Good

LEMMA GoodRestart ==
  ASSUME Inv, OrderInv, Good, Continues, Calm', Restart
  PROVE  Good'
<1>1. phase' = "start" /\ listed' = <<>> /\ queue' = <<>> /\ UNCHANGED <<data, frames>>
  BY DEF Restart, files
<1>2. PICK at \in [Ids -> Nat], top \in Nat : Layout(at, top) /\ Covered(at, top)
  BY DEF Good, Tracked
<1>d. data \in Seq(FileUnit)
  BY DEF Inv, TypeOK
<1>3. PICK up \in Nat : up = Len(data)
  BY <1>d
<1>4. Layout(at, up)' /\ Placed' \subseteq Placed
  BY <1>1, <1>2, <1>3, LayoutShrinks DEF Layout, TopAt, ListAt
<1>5. Covered(at, Len(data))'
  BY <1>2, <1>4, CoveredRestart
<1>6. Covered(at, up)'
  BY <1>1, <1>3, <1>5 DEF Covered, Ahead, Below
<1>7. Hand' = {} /\ Range(queue)' = {}
  BY <1>1, RestartHand, EmptyRange
<1>8. SizesFit'
  BY <1>1, <1>7 DEF SizesFit, Sized
<1>9. Orderly' /\ Kept'
  BY <1>1 DEF Orderly, Kept
<1> QED BY <1>4, <1>6, <1>8, <1>9, TrackedNext DEF Good

LEMMA GoodManager ==
  ASSUME Inv, OrderInv, LinkedInv, Still, Good, Calm, Calm', Continues, Manager
  PROVE  Good'
BY GoodAlloc, GoodLink, GoodScan, GoodRestore, GoodAdd, GoodHead, GoodEnqueue DEF Manager

LEMMA GoodWriter ==
  ASSUME Inv, OrderInv, Still, Good, Calm', Continues, Writer
  PROVE  Good'
<1>1. CASE TestStop \/ ListEmpty \/ persistent_worker \/ ContextDone
  <2>1. UNCHANGED <<phase, linked, sent_index, recorded, index_sent, counted, data, listed, frames, size,
                    counting, queue, worker, sent, manager>>
    BY <1>1 DEF TestStop, ListEmpty, persistent_worker, ContextDone, files, indexes
  <2>2. Enqueuing' = Enqueuing
    BY <2>1 DEF Enqueuing, Current
  <2> QED BY <2>1, <2>2, GoodQuiet
<1> QED BY <1>1, GoodInfo, GoodContext DEF Writer

LEMMA GoodStutters ==
  ASSUME Inv, Still, Good, Continues, UNCHANGED vars
  PROVE  Good'
<1>1. UNCHANGED <<phase, linked, sent_index, recorded, index_sent, counted, data, listed, frames, size,
                  counting, queue, worker, sent, manager>>
  BY DEF vars, files, indexes
<1>2. Enqueuing' = Enqueuing
  BY <1>1 DEF Enqueuing, Current
<1> QED BY <1>1, <1>2, GoodQuiet

LEMMA SentNext ==
  ASSUME Inv, OrderInv, IndexInv, SentInv, [Next]_vars
  PROVE  SentInv'
<1> SUFFICES ASSUME Calm' PROVE Still' /\ Good'
  BY DEF SentInv
<1>1. Calm /\ Still /\ Good /\ Continues /\ LinkedInv
  BY CalmBefore, StepContinues DEF SentInv, IndexInv
<1>2. Still'
  BY <1>1, StillNext
<1>3. ASSUME NEW kind \in Kinds, handler_stomp_send(kind) PROVE Good'
  BY <1>1, <1>3, GoodSend
<1>4. ASSUME NEW i \in Ids, CountNul(i) PROVE Good'
  BY <1>1, <1>4, GoodCount
<1>5. ASSUME NEW s \in Senders, Sender(s) PROVE Good'
  BY <1>1, <1>5, GoodDequeue, GoodSent, GoodUpdate, GoodDone DEF Sender
<1>6. CASE Manager \/ Writer
  BY <1>1, <1>2, <1>6, GoodManager, GoodWriter
<1>7. CASE cleanup_persistent_worker
  BY <1>1, <1>2, <1>7, GoodStops
<1>8. CASE Restart
  BY <1>1, <1>2, <1>8, GoodRestart
<1>9. CASE UNCHANGED vars
  BY <1>1, <1>2, <1>9, GoodStutters
<1>10. Good'
  BY <1>3, <1>4, <1>5, <1>6, <1>7, <1>8, <1>9 DEF Next, int_handle, Crash
<1> QED BY <1>2, <1>10

LEMMA SentInit == ASSUME Init PROVE SentInv
<1>1. /\ phase = "start" /\ manager = "idle" /\ linked = FALSE /\ listed = <<>> /\ queue = <<>>
      /\ worker = [s \in Senders |-> Resting] /\ freed = {} /\ data = <<>> /\ sent_index = 0
      /\ index_sent = 0
  BY DEF Init
<1>2. Inv
  BY InvInit
<1>3. Idle /\ Hand = {} /\ Range(queue) = {} /\ Placed = {}
  BY <1>1, RestingIs, IdleHand, EmptyRange, NothingPlaced DEF Idle
<1>4. Still
  BY <1>1, <1>3 DEF Still, Idle, Genuine
<1>5. Orderly /\ Kept /\ SizesFit
  BY <1>1, <1>3 DEF Orderly, Kept, SizesFit, Sized
<1>6. PICK at \in [Ids -> Nat] : at = [i \in Ids |-> 0]
  OBVIOUS
<1>7. NamesAt = {}
  BY <1>1 DEF NamesAt
<1>8. InFile = {}
  BY <1>7 DEF InFile
<1>9. Len(data) = 0 /\ DOMAIN data = {}
  BY <1>1
<1>10. Layout(at, 0)
  BY <1>1, <1>3, <1>8, <1>9 DEF Layout, UnitsAt, WholeAt, ApartAt, JoinedAt, TopAt, ListAt
<1>11. FileCovers(at) /\ IndexCovers(at) /\ ThreadCovers(at)
  BY <1>3 DEF FileCovers, IndexCovers, ThreadCovers, Covers
<1>12. Divides(at) /\ Ahead(at, 0) /\ Below(0)
  BY <1>1 DEF Divides, Ahead, Below
<1>13. Tracked
  BY <1>10, <1>11, <1>12 DEF Tracked, Covered
<1> QED BY <1>4, <1>5, <1>13 DEF SentInv, Good

(* Only a destination without "/" in its name is restored, and what was    *)
(* not calm stays so.                                                      *)
FlatInv == phase = "start" /\ manager # "idle" => destination = "flat"

LEMMA FlatNext ==
  ASSUME Inv, FlatInv, [Next]_vars
  PROVE  FlatInv'
<1>1. ASSUME destination' = destination, phase' = phase, manager = "idle" => manager' = "idle" PROVE FlatInv'
  BY <1>1 DEF FlatInv
<1>2. ASSUME phase' # "start" \/ manager' = "idle" PROVE FlatInv'
  BY <1>2 DEF FlatInv
<1>3. ASSUME NEW kind \in Kinds, handler_stomp_send(kind) PROVE FlatInv'
  BY <1>2, <1>3 DEF handler_stomp_send
<1>4. ASSUME NEW i \in Ids, CountNul(i) PROVE FlatInv'
  BY <1>1, <1>4 DEF CountNul
<1>5. CASE Manager
  <2>1. CASE UnpersistScan
    BY <2>1 DEF UnpersistScan, FlatInv
  <2>2. CASE unpersist \/ enqueue
    BY <1>2, <2>2 DEF unpersist, enqueue
  <2>3. CASE alloc_qinfo \/ LinkQinfo \/ add_frame_into_qinfo \/ persist_frame
    BY <1>1, <2>3 DEF alloc_qinfo, LinkQinfo, add_frame_into_qinfo, persist_frame
  <2> QED BY <1>5, <2>1, <2>2, <2>3 DEF Manager
<1>6. CASE Writer
  BY <1>1, <1>6 DEF Writer, TestStop, ListEmpty, persist_queue_info, persistent_worker, ContextDone,
     persist_queue_context
<1>7. ASSUME NEW s \in Senders, Sender(s) PROVE FlatInv'
  BY <1>1, <1>7 DEF Sender, dequeue, SendAndRead, update_index_sent, SendingDone
<1>8. CASE cleanup_persistent_worker
  BY <1>2, <1>8 DEF cleanup_persistent_worker
<1>9. CASE Restart
  BY <1>2, <1>9 DEF Restart
<1>10. CASE UNCHANGED vars
  BY <1>1, <1>10 DEF vars
<1> QED BY <1>3, <1>4, <1>5, <1>6, <1>7, <1>8, <1>9, <1>10 DEF Next, int_handle, Crash

LEMMA RepeatedBy ==
  ASSUME [Next]_vars
  PROVE  /\ (raced => raced') /\ (overtaken => overtaken') /\ (late => late') /\ (misled => misled')
         /\ (truncated => truncated')
         /\ repeated' = repeated \/ unpersist
<1> DEFINE G ==
      /\ (raced => raced') /\ (overtaken => overtaken') /\ (late => late') /\ (misled => misled')
      /\ (truncated => truncated')
      /\ repeated' = repeated \/ unpersist
<1>1. ASSUME UNCHANGED <<mishaps, repeated>> PROVE G
  BY <1>1 DEF mishaps
<1>2. ASSUME NEW kind \in Kinds, handler_stomp_send(kind) PROVE G
  BY <1>1, <1>2 DEF handler_stomp_send, ghosts
<1>3. ASSUME NEW i \in Ids, CountNul(i) PROVE G
  BY <1>1, <1>3 DEF CountNul, ghosts
<1>4. CASE Manager
  <2>1. CASE unpersist
    <3>1. /\ misled' = (misled \/ Misread(unpersist_queue_info))
          /\ UNCHANGED <<raced, overtaken, late, truncated>>
      BY <2>1 DEF unpersist
    <3>2. misled => misled'
      BY <3>1, Zenon
    <3> QED BY <2>1, <3>1, <3>2, Zenon
  <2> QED BY <1>1, <1>4, <2>1 DEF Manager, alloc_qinfo, LinkQinfo, UnpersistScan, add_frame_into_qinfo,
             persist_frame, enqueue, ghosts
<1>5. CASE Writer
  <2>1. CASE persist_queue_info
    <3>1. /\ late' = (late \/ phase = "stopping")
          /\ UNCHANGED <<raced, overtaken, misled, truncated, repeated>>
      BY <2>1 DEF persist_queue_info
    <3> QED BY <3>1, Zenon
  <2> QED BY <1>1, <1>5, <2>1 DEF Writer, TestStop, ListEmpty, persistent_worker, ContextDone,
             persist_queue_context, ghosts
<1>6. ASSUME NEW s \in Senders, Sender(s) PROVE G
  <2>1. CASE dequeue(s)
    <3>1. /\ raced' = (raced \/ Busy # {})
          /\ UNCHANGED <<late, overtaken, misled, truncated, repeated>>
      BY <2>1 DEF dequeue
    <3> QED BY <3>1, Zenon
  <2> QED BY <1>1, <1>6, <2>1 DEF Sender, SendAndRead, update_index_sent, SendingDone, ghosts
<1>7. CASE cleanup_persistent_worker
  BY <1>1, <1>7 DEF cleanup_persistent_worker, ghosts
<1>8. CASE Restart
  <2>1. /\ overtaken' = (overtaken \/ sent_index > Len(data))
        /\ truncated' = (truncated \/ manager = "link")
        /\ UNCHANGED <<late, raced, misled, repeated>>
    BY <1>8 DEF Restart
  <2> QED BY <2>1, Zenon
<1>9. CASE UNCHANGED vars
  BY <1>1, <1>9 DEF vars, ghosts
<1> QED BY <1>2, <1>3, <1>4, <1>5, <1>6, <1>7, <1>8, <1>9 DEF Next, int_handle, Crash

-----------------------------------------------------------------------------
(* What sent_index ever stood for it stands for still, or will when it is  *)
(* written again; only the end of the process between the two undoes that. *)
KnownInv ==
  Calm /\ ~truncated => known \subseteq (IF manager = "link" THEN counted ELSE recorded)

LEMMA LinksRecorded ==
  ASSUME Good, linked, phase = "run"
  PROVE  recorded \subseteq counted
BY DEF Good, Tracked, Covered, Divides

LEMMA KnownSame ==
  ASSUME known \subseteq (IF manager = "link" THEN counted ELSE recorded), UNCHANGED <<known, recorded>>,
         counted \subseteq counted', manager' = "link" <=> manager = "link"
  PROVE  KnownInv'
BY DEF KnownInv

LEMMA KnownNext ==
  ASSUME Inv, IndexInv, SentInv, KnownInv, [Next]_vars
  PROVE  KnownInv'
<1> SUFFICES ASSUME Calm', ~truncated' PROVE KnownInv'
  BY DEF KnownInv
<1>1. Calm /\ Good /\ LinkedInv
  BY CalmBefore DEF SentInv, IndexInv
<1>2. ~truncated
  BY RepeatedBy
<1>3. known \subseteq (IF manager = "link" THEN counted ELSE recorded)
  BY <1>1, <1>2 DEF KnownInv
<1>4. ASSUME UNCHANGED <<files, counted>>, manager' = "link" <=> manager = "link" PROVE KnownInv'
  BY <1>3, <1>4, KnownSame DEF files
<1>5. ASSUME NEW kind \in Kinds, handler_stomp_send(kind) PROVE KnownInv'
  <2>1. manager # "link" /\ manager' # "link"
    BY <1>5 DEF handler_stomp_send
  <2> QED BY <1>4, <1>5, <2>1 DEF handler_stomp_send
<1>6. ASSUME NEW i \in Ids, CountNul(i) PROVE KnownInv'
  BY <1>4, <1>6 DEF CountNul
<1>7. CASE Manager
  <2>1. CASE alloc_qinfo
    BY <1>3, <2>1 DEF alloc_qinfo, KnownInv
  <2>2. CASE LinkQinfo
    <3>1. manager = "link" /\ manager' # "link" /\ recorded' = counted /\ known' = known \cup recorded'
      BY <2>2 DEF LinkQinfo
    <3> QED BY <1>3, <3>1 DEF KnownInv
  <2>3. CASE UnpersistScan
    <3>1. manager # "link" /\ manager' # "link"
      BY <2>3 DEF UnpersistScan
    <3> QED BY <1>4, <2>3, <3>1 DEF UnpersistScan
  <2>4. CASE unpersist
    <3>1. manager # "link" /\ manager' # "link" /\ UNCHANGED <<known, recorded>>
      BY <2>4 DEF unpersist, files
    <3> QED BY <1>3, <3>1 DEF KnownInv
  <2>5. CASE add_frame_into_qinfo \/ persist_frame \/ enqueue
    <3>1. manager # "link" /\ manager' # "link" /\ UNCHANGED <<files, counted>>
      BY <2>5 DEF add_frame_into_qinfo, persist_frame, enqueue
    <3> QED BY <1>4, <3>1
  <2> QED BY <1>7, <2>1, <2>2, <2>3, <2>4, <2>5 DEF Manager
<1>8. CASE Writer
  <2>1. CASE persist_queue_info
    <3>1. /\ linked /\ recorded' = counted /\ known' = known \cup recorded'
          /\ manager' = manager
      BY <2>1 DEF persist_queue_info
    <3>2. phase = "run"
      BY <2>1, NotLate
    <3>3. recorded \subseteq counted
      BY <1>1, <3>1, <3>2, LinksRecorded
    <3>4. manager # "link"
      BY <1>1, <3>1 DEF LinkedInv
    <3> QED BY <1>3, <3>1, <3>3, <3>4 DEF KnownInv
  <2>2. CASE persist_queue_context
    BY <1>3, <2>2, KnownSame DEF persist_queue_context
  <2> QED BY <1>4, <1>8, <2>1, <2>2 DEF Writer, TestStop, ListEmpty, persistent_worker, ContextDone
<1>9. ASSUME NEW s \in Senders, Sender(s) PROVE KnownInv'
  <2>1. UNCHANGED <<files, manager>> /\ counted \subseteq counted'
    BY <1>9 DEF Sender, dequeue, SendAndRead, update_index_sent, SendingDone
  <2> QED BY <1>3, <2>1, KnownSame DEF files
<1>10. CASE cleanup_persistent_worker
  BY <1>4, <1>10 DEF cleanup_persistent_worker
<1>11. CASE Restart
  <2>1. truncated' = (truncated \/ manager = "link") /\ manager' = "idle" /\ UNCHANGED <<known, recorded>>
    BY <1>11 DEF Restart, files
  <2>2. manager # "link"
    BY <2>1, Zenon
  <2> QED BY <1>3, <2>1, <2>2 DEF KnownInv
<1>12. CASE UNCHANGED vars
  BY <1>4, <1>12 DEF vars
<1> QED BY <1>5, <1>6, <1>7, <1>8, <1>9, <1>10, <1>11, <1>12 DEF Next, int_handle, Crash

-----------------------------------------------------------------------------
(* What is restored although the index stood for it lies behind the index, *)
(* which covers it: the losses make up for the whole of it.                *)
LEMMA DriftedBy ==
  ASSUME NEW a \in Nat, NEW p \in Nat, NEW x \in Nat, NEW f \in Nat, x <= a, a + p <= x + f
  PROVE  f >= p
OBVIOUS

LEMMA DriftRestore ==
  ASSUME Inv, Still, Good, Continues, Calm', unpersist, known \subseteq recorded,
         NEW i \in repeated' \ repeated
  PROVE  i \in DOMAIN frames /\ Shortfall(i) >= Len(Written(i))
<1>1. PICK at \in [Ids -> Nat], top \in Nat : Layout(at, top) /\ Covered(at, top)
  BY DEF Good, Tracked
<1>2. sent_index <= Len(data) /\ Placed = InFile /\ ~Misread(sent_index)
  BY <1>1, FileBelow, NotMisled DEF unpersist, Inv, PhaseInv
<1>3. /\ Range(queue)' = {k \in InFile : sent_index <= at[k]}
      /\ repeated' = repeated \cup (Range(queue)' \cap known)
  BY <1>1, <1>2, RestoreIs
<1>4. i \in Placed /\ sent_index <= at[i] /\ i \in recorded
  BY <1>2, <1>3
<1>5. PICK a \in Nat : a = at[i]
  BY <1>4, PlacedIs
<1>6. PICK p \in Nat : p = Span(i)
  BY <1>4, PlacedIs
<1>7. PICK x \in Nat : x = sent_index
  BY IndexNumbers
<1>8. i \in DOMAIN frames
  BY <1>4, PlacedIs
<1>9. PICK f \in Nat : f = Shortfall(i)
  BY <1>8, ShortfallKept
<1>10. a + p <= x + f /\ x <= a
  BY <1>1, <1>4, <1>5, <1>6, <1>7, <1>9 DEF Covered, FileCovers, Covers
<1>11. f >= p
  BY <1>10, DriftedBy
<1> QED BY <1>6, <1>8, <1>9, <1>11 DEF Span

(* The property, as long as every start began with the name of a frame. *)
DriftInv == misled \/ RepeatedOnlyByDrift

LEMMA DriftNext ==
  ASSUME Inv, SentInv, FlatInv, KnownInv, DriftInv, [Next]_vars
  PROVE  DriftInv'
<1> SUFFICES ASSUME NEW i \in repeated', ~raced', ~overtaken', ~late', ~misled', ~truncated'
             PROVE  (Shortfall(i) >= Len(Written(i)))'
  BY DEF DriftInv, RepeatedOnlyByDrift
<1>1. ~raced /\ ~overtaken /\ ~late /\ ~misled /\ ~truncated /\ Continues
  BY RepeatedBy, StepContinues
<1>2. i \in DOMAIN frames /\ Shortfall(i) >= Len(Written(i))
  <2>1. CASE i \in repeated
    BY <1>1, <2>1 DEF DriftInv, RepeatedOnlyByDrift, Inv, TypeOK
  <2>2. CASE i \notin repeated
    <3>1. unpersist
      BY <2>2, RepeatedBy
    <3>2. destination = "flat" /\ destination' = destination /\ manager = "restore"
      BY <3>1 DEF unpersist, Inv, PhaseInv, FlatInv
    <3>3. Calm /\ Calm'
      BY <1>1, <3>2 DEF Calm
    <3>4. Still /\ Good /\ known \subseteq recorded
      BY <1>1, <3>2, <3>3 DEF SentInv, KnownInv
    <3> QED BY <1>1, <2>2, <3>1, <3>3, <3>4, DriftRestore
  <2> QED BY <2>1, <2>2
<1>3. PICK f \in Nat : f = Shortfall(i)
  BY <1>1, <1>2, ShortfallKept
<1>4. PICK g \in Nat : g = Shortfall(i)' /\ f <= g
  BY <1>1, <1>2, <1>3, ShortfallKept
<1>5. PICK p \in Nat : p = Span(i)
  BY <1>2, SpanIs DEF Inv, TypeOK
<1>6. Span(i)' = p
  BY <1>1, <1>2, <1>5, SpanSame DEF Continues
<1>7. f >= p
  BY <1>2, <1>3, <1>5 DEF Span
<1>8. g >= p
  BY <1>4, <1>7
<1> QED BY <1>4, <1>6, <1>8 DEF Span

FullInv == Inv /\ OrderInv /\ IndexInv /\ SentInv /\ FlatInv /\ KnownInv /\ DriftInv

LEMMA FullInvariant == Spec => []FullInv
<1>1. Init => FullInv
  <2> SUFFICES ASSUME Init PROVE FullInv
    OBVIOUS
  <2>1. FlatInv /\ KnownInv /\ DriftInv
    BY DEF Init, FlatInv, KnownInv, DriftInv, RepeatedOnlyByDrift
  <2> QED BY <2>1, InvInit, OrderInit, IndexInit, SentInit DEF FullInv
<1>2. FullInv /\ [Next]_vars => FullInv'
  <2> SUFFICES ASSUME FullInv, [Next]_vars PROVE FullInv'
    OBVIOUS
  <2>1. Inv /\ OrderInv /\ IndexInv /\ SentInv /\ FlatInv /\ KnownInv /\ DriftInv
    BY DEF FullInv
  <2>2. Inv' /\ OrderInv' /\ IndexInv'
    BY <2>1, InvNext, OrderNext, IndexNext
  <2>3. SentInv' /\ FlatInv' /\ KnownInv' /\ DriftInv'
    BY <2>1, SentNext, FlatNext, KnownNext, DriftNext
  <2> QED BY <2>2, <2>3 DEF FullInv
<1> QED BY <1>1, <1>2, PTL DEF Spec

(* For a destination without "/" in its name, and as long as none of these *)
(* has happened: two sending workers had frames in hand at the same time,  *)
(* an index was beyond the data at the end of a run, persistent_worker()   *)
(* went over an object made after cleanup, unpersist() took another line   *)
(* for the name of a frame.  Then every frame in the data file is sent, in *)
(* the queue, in the hand of a sending worker or on its way into the       *)
(* queue.  Whatever the sizes that went into sent_index, and wherever the  *)
(* process was killed, unpersist() never seeks past a frame that was not   *)
(* sent.                                                                   *)
THEOREM NothingLost == Spec => []StoredOrSent
<1>1. FullInv => StoredOrSent
  <2> SUFFICES ASSUME SentInv, phase # "start", Calm
               PROVE  InFile \subseteq sent \cup Range(queue) \cup InHand \cup Enqueuing
    BY DEF FullInv, StoredOrSent, Calm
  <2>1. Kept
    BY DEF SentInv, Good
  <2> QED BY <2>1 DEF Kept, OnTheWay, Placed
<1> QED BY <1>1, FullInvariant, PTL

(* As long as unpersist() took no other line for a name: a frame that      *)
(* sent_index once stood for is restored only after a race of sending      *)
(* workers, after a run that ended with an index beyond the data, after    *)
(* persistent_worker() went over an object made after cleanup, when the    *)
(* process ended while alloc_qinfo() had the file truncated, or when the   *)
(* sizes that were added to index_sent for the frames up to it fell short  *)
(* by as much as the frame is long.                                        *)
THEOREM OnlyByDrift == Spec => [](misled \/ RepeatedOnlyByDrift)
<1>1. FullInv => misled \/ RepeatedOnlyByDrift
  BY DEF FullInv, DriftInv
<1> QED BY <1>1, FullInvariant, PTL

=============================================================================
