--------------------------- MODULE SequenceLemmas ---------------------------
(***************************************************************************)
(* Facts about naturals and sequences that the proofs about several        *)
(* components need.                                                        *)
(***************************************************************************)
EXTENDS Naturals, Sequences, SequencesExt, FiniteSetsExt, SequenceTheorems,
        WellFoundedInduction, TLAPS

(* A set of naturals that is not empty has a smallest element. *)
LEMMA Least ==
  ASSUME NEW M, M \in SUBSET Nat, M # {}
  PROVE  \E k \in M : \A j \in M : k <= j
<1> DEFINE R == OpToRel(<, Nat)
<1>1. IsWellFoundedOn(R, Nat)
  BY NatLessThanWellFounded
<1>2. PICK k \in M : \A j \in M : ~(<<j, k>> \in R)
  <2> HIDE DEF R
  <2> QED BY <1>1, WFMin
<1>3. \A j \in M : ~(j < k)
  BY <1>2 DEF OpToRel
<1> QED BY <1>3

(* Offsets that do not decrease from one to the next never decrease. *)
LEMMA Nondecreasing ==
  ASSUME NEW L \in Nat, NEW o \in [0 .. L -> Nat], \A i \in 1 .. L : o[i - 1] <= o[i],
         NEW i \in 0 .. L, NEW j \in 0 .. L, i <= j
  PROVE  o[i] <= o[j]
<1> DEFINE M == {n \in 0 .. L : i <= n /\ ~(o[i] <= o[n])}
<1>1. SUFFICES ASSUME M # {} PROVE FALSE
  OBVIOUS
<1>2. PICK n \in M : \A k \in M : n <= k
  <2>1. M \in SUBSET Nat
    OBVIOUS
  <2> HIDE DEF M
  <2> QED BY <1>1, <2>1, Least
<1>3. n \in 1 .. L /\ i <= n - 1 /\ n - 1 \in 0 .. L
  <2>1. n \in 0 .. L /\ i <= n /\ n # i
    OBVIOUS
  <2> HIDE DEF M
  <2> QED BY <2>1
<1>4. ~(n - 1 \in M)
  <2> HIDE DEF M
  <2> QED BY <1>2, <1>3
<1>5. o[i] <= o[n - 1]
  BY <1>3, <1>4
<1>6. o[i] \in Nat /\ o[n - 1] \in Nat /\ o[n] \in Nat /\ o[n - 1] <= o[n]
  BY <1>3
<1>7. ~(o[i] <= o[n])
  OBVIOUS
<1> HIDE DEF M
<1> QED BY <1>5, <1>6, <1>7

(* A bounded set has a largest, which is what Max picks. *)
LEMMA MaxIsLargest ==
  ASSUME NEW n \in Nat, NEW M, M \in SUBSET (0 .. n), M # {}
  PROVE  Max(M) \in M /\ \A j \in M : j <= Max(M)
<1> DEFINE D == {n - j : j \in M}
<1>1. D \in SUBSET Nat /\ D # {}
  <2>1. \A j \in M : n - j \in Nat
    OBVIOUS
  <2> QED BY <2>1
<1>2. PICK d \in D : \A e \in D : d <= e
  <2> HIDE DEF D
  <2> QED BY <1>1, Least
<1>3. PICK k \in M : d = n - k
  OBVIOUS
<1>4. \A j \in M : j <= k
  BY <1>2, <1>3
<1> QED BY <1>3, <1>4 DEF Max

(* list_del(): what is left, and where it is. *)
LEMMA RemoveAtIs ==
  ASSUME NEW S, NEW s \in Seq(S), NEW n \in 1 .. Len(s)
  PROVE  /\ RemoveAt(s, n) \in Seq(S)
         /\ Len(RemoveAt(s, n)) = Len(s) - 1
         /\ \A k \in 1 .. Len(s) - 1 : RemoveAt(s, n)[k] = IF k < n THEN s[k] ELSE s[k + 1]
<1> DEFINE l == SubSeq(s, 1, n - 1)
           r == SubSeq(s, n + 1, Len(s))
<1>0. Len(s) \in Nat /\ n \in Nat
  OBVIOUS
<1>1. l \in Seq(S) /\ Len(l) = n - 1 /\ \A k \in 1 .. n - 1 : l[k] = s[k]
  OBVIOUS
<1>2. r \in Seq(S) /\ Len(r) = Len(s) - n /\ \A k \in 1 .. Len(s) - n : r[k] = s[n + k]
  OBVIOUS
<1> HIDE DEF l, r
<1>3. l \o r \in Seq(S)
  BY <1>1, <1>2, ConcatProperties
<1>4. /\ Len(l \o r) = Len(l) + Len(r)
      /\ \A k \in 1 .. Len(l) + Len(r) :
           (l \o r)[k] = IF k <= Len(l) THEN l[k] ELSE r[k - Len(l)]
  BY <1>1, <1>2, ConcatProperties
<1>5. ASSUME NEW k \in 1 .. Len(s) - 1
      PROVE  (l \o r)[k] = IF k < n THEN s[k] ELSE s[k + 1]
  <2>1. CASE k < n
    BY <2>1, <1>0, <1>1, <1>2, <1>4
  <2>2. CASE k >= n
    <3>0. k \in 1 .. Len(l) + Len(r) /\ ~(k <= Len(l)) /\ Len(l) = n - 1
      BY <2>2, <1>0, <1>1, <1>2
    <3>1. (l \o r)[k] = r[k - (n - 1)]
      BY <3>0, <1>4
    <3>2. k - (n - 1) \in 1 .. Len(s) - n /\ n + (k - (n - 1)) = k + 1
      BY <2>2, <1>0
    <3> QED BY <3>1, <3>2, <2>2, <1>0, <1>2
  <2>3. k < n \/ k >= n
    BY <1>0
  <2> QED BY <2>1, <2>2, <2>3
<1>6. Len(l \o r) = Len(s) - 1
  BY <1>0, <1>1, <1>2, <1>4
<1>7. RemoveAt(s, n) = l \o r
  BY DEF RemoveAt, l, r
<1> QED BY <1>3, <1>5, <1>6, <1>7

(* list_add(): the newest in front. *)
LEMMA PushedIs ==
  ASSUME NEW S, NEW s \in Seq(S), NEW x \in S
  PROVE  /\ <<x>> \o s \in Seq(S)
         /\ Len(s) \in Nat /\ DOMAIN s = 1 .. Len(s) /\ DOMAIN (<<x>> \o s) = 1 .. Len(s) + 1
         /\ (<<x>> \o s)[1] = x
         /\ \A k \in 1 .. Len(s) : (<<x>> \o s)[k + 1] = s[k]
OBVIOUS

LEMMA PushedRange ==
  ASSUME NEW S, NEW s \in Seq(S), NEW x \in S
  PROVE  Range(<<x>> \o s) = Range(s) \cup {x}
<1> DEFINE t == <<x>> \o s
<1>1. /\ Len(s) \in Nat /\ DOMAIN s = 1 .. Len(s) /\ DOMAIN t = 1 .. Len(s) + 1
      /\ t[1] = x /\ \A k \in 1 .. Len(s) : t[k + 1] = s[k]
  BY PushedIs
<1> HIDE DEF t
<1>2. \A k \in DOMAIN t : k = 1 \/ (k - 1 \in DOMAIN s /\ t[k] = s[k - 1])
  <2> SUFFICES ASSUME NEW k \in DOMAIN t, k # 1 PROVE k - 1 \in DOMAIN s /\ t[k] = s[k - 1]
    OBVIOUS
  <2>1. k - 1 \in 1 .. Len(s) /\ (k - 1) + 1 = k
    BY <1>1
  <2> QED BY <1>1, <2>1
<1>3. \A k \in DOMAIN s : k + 1 \in DOMAIN t /\ t[k + 1] = s[k]
  BY <1>1
<1>4. 1 \in DOMAIN t
  BY <1>1
<1>5. Range(t) = Range(s) \cup {x}
  BY <1>1, <1>2, <1>3, <1>4 DEF Range
<1> QED BY <1>5 DEF t

(* list_del() of the first, and list_add_tail(). *)
LEMMA TailIs ==
  ASSUME NEW S, NEW s \in Seq(S), s # <<>>
  PROVE  /\ Len(s) \in Nat \ {0} /\ DOMAIN s = 1 .. Len(s) /\ Head(s) = s[1] /\ Head(s) \in S
         /\ Tail(s) \in Seq(S) /\ DOMAIN Tail(s) = 1 .. Len(s) - 1
         /\ \A k \in 1 .. Len(s) - 1 : Tail(s)[k] = s[k + 1]
BY EmptySeq, LenProperties, HeadTailProperties

LEMMA AppendIs ==
  ASSUME NEW S, NEW s \in Seq(S), NEW x \in S
  PROVE  /\ Append(s, x) \in Seq(S)
         /\ Len(s) \in Nat /\ DOMAIN s = 1 .. Len(s) /\ DOMAIN Append(s, x) = 1 .. Len(s) + 1
         /\ \A k \in 1 .. Len(s) : Append(s, x)[k] = s[k]
         /\ Append(s, x)[Len(s) + 1] = x
OBVIOUS

(* The elements of a sequence with one more at its end. *)
LEMMA AppendElements ==
  ASSUME NEW S, NEW s \in Seq(S), NEW x \in S
  PROVE  \A j \in DOMAIN Append(s, x) :
           \/ j \in DOMAIN s /\ Append(s, x)[j] = s[j]
           \/ j = Len(s) + 1 /\ Append(s, x)[j] = x
<1> DEFINE t == Append(s, x)
<1>1. /\ Len(s) \in Nat /\ DOMAIN s = 1 .. Len(s) /\ DOMAIN t = 1 .. Len(s) + 1
      /\ \A k \in 1 .. Len(s) : t[k] = s[k]
      /\ t[Len(s) + 1] = x
  BY AppendIs
<1> HIDE DEF t
<1>2. \A j \in DOMAIN t : \/ j \in DOMAIN s /\ t[j] = s[j]
                          \/ j = Len(s) + 1 /\ t[j] = x
  BY <1>1
<1> QED BY <1>2 DEF t

(* Sequences whose elements grow. *)
Growing(s) == \A j \in DOMAIN s : \A i \in 1 .. j - 1 : s[i] < s[j]

LEMMA AppendGrows ==
  ASSUME NEW s \in Seq(Nat), Growing(s), NEW x \in Nat, \A k \in DOMAIN s : s[k] < x
  PROVE  Growing(Append(s, x)) /\ DOMAIN Append(s, x) = 1 .. Len(s) + 1 /\ Len(s) \in Nat
         /\ \A k \in DOMAIN Append(s, x) :
              Append(s, x)[k] = IF k \in DOMAIN s THEN s[k] ELSE x
<1> DEFINE t == Append(s, x)
           n == Len(s)
<1>1. /\ n \in Nat /\ DOMAIN s = 1 .. n /\ DOMAIN t = 1 .. n + 1
      /\ \A k \in 1 .. n : t[k] = s[k] /\ s[k] \in Nat
      /\ t[n + 1] = x
  OBVIOUS
<1> HIDE DEF t, n
<1>2. Growing(t)
  <2> SUFFICES ASSUME NEW j \in 1 .. n + 1, NEW i \in 1 .. j - 1
               PROVE  t[i] < t[j]
    BY <1>1 DEF Growing
  <2>1. CASE j = n + 1
    BY <1>1, <2>1
  <2>2. CASE j \in 1 .. n
    <3>1. i \in 1 .. n
      BY <1>1, <2>2
    <3>2. t[i] = s[i] /\ t[j] = s[j]
      BY <1>1, <2>2, <3>1
    <3>3. s[i] < s[j]
      BY <1>1, <2>2 DEF Growing
    <3> QED BY <3>2, <3>3
  <2> QED BY <1>1, <2>1, <2>2
<1>3. \A k \in DOMAIN t : t[k] = IF k \in DOMAIN s THEN s[k] ELSE x
  BY <1>1
<1> QED BY <1>1, <1>2, <1>3 DEF t, n

(* What is left of a sequence behind its first n elements. *)
LEMMA SuffixIs ==
  ASSUME NEW S, NEW s \in Seq(S), NEW n \in Nat, n < Len(s)
  PROVE  /\ SubSeq(s, n + 1, Len(s)) \in Seq(S)
         /\ Len(SubSeq(s, n + 1, Len(s))) = Len(s) - n
         /\ DOMAIN SubSeq(s, n + 1, Len(s)) = 1 .. Len(s) - n
         /\ \A k \in 1 .. Len(s) - n : SubSeq(s, n + 1, Len(s))[k] = s[n + k]
<1>1. Len(s) \in Nat /\ n + 1 \in 1 .. Len(s) /\ Len(s) - n = Len(s) - (n + 1) + 1
  OBVIOUS
<1>2. PICK m : m = n + 1
  OBVIOUS
<1>3. PICK r : r = SubSeq(s, m, Len(s))
  OBVIOUS
<1>4. r \in Seq(S) /\ Len(r) = Len(s) - m + 1 /\ \A k \in 1 .. Len(s) - m + 1 : r[k] = s[m + k - 1]
  BY <1>1, <1>2, <1>3
<1>5. DOMAIN r = 1 .. Len(r)
  BY <1>4
<1>6. ASSUME NEW k \in 1 .. Len(s) - n PROVE r[k] = s[n + k]
  <2>1. k \in 1 .. Len(s) - m + 1 /\ m + k - 1 = n + k
    BY <1>1, <1>2
  <2> QED BY <1>4, <2>1
<1> QED BY <1>1, <1>2, <1>3, <1>4, <1>5, <1>6

(* Sums(f, s, n): f holds the sums of the first numbers of s. *)
Sums(f, s, n) == f = [k \in 0 .. n |-> IF k = 0 THEN 0 ELSE f[k - 1] + s[k]]

LEMMA SumsExist == ASSUME NEW L \in Nat, NEW s PROVE \E f : Sums(f, s, L)
<1> DEFINE Bad == {k \in 0 .. L : ~ \E f : Sums(f, s, k)}
<1>1. CASE Bad = {}
  <2>1. L \in 0 .. L
    OBVIOUS
  <2> QED BY <1>1, <2>1
<1>2. CASE Bad # {}
  <2>1. Bad \in SUBSET Nat
    OBVIOUS
  <2>2. PICK k \in Bad : \A j \in Bad : k <= j
    <3> HIDE DEF Bad
    <3> QED BY <1>2, <2>1, Least
  <2>3. k \in 0 .. L /\ ~ \E f : Sums(f, s, k)
    OBVIOUS
  <2>4. CASE k = 0
    <3> DEFINE g == [n \in 0 .. 0 |-> 0]
    <3>1. Sums(g, s, 0)
      BY DEF Sums
    <3> HIDE DEF g
    <3> QED BY <2>3, <2>4, <3>1
  <2>5. CASE k # 0
    <3>1. k - 1 \in 0 .. L /\ ~(k <= k - 1)
      BY <2>3, <2>5
    <3>2. PICK f : Sums(f, s, k - 1)
      BY <2>2, <3>1
    <3> DEFINE g == [n \in 0 .. k |-> IF n = k THEN f[k - 1] + s[k] ELSE f[n]]
    <3>3. \A n \in 0 .. k - 1 : f[n] = IF n = 0 THEN 0 ELSE f[n - 1] + s[n]
      BY <3>2 DEF Sums
    <3>4. \A n \in 0 .. k : n = k \/ n \in 0 .. k - 1
      BY <2>3
    <3>5. \A n \in 0 .. k : n # 0 => n - 1 \in 0 .. k /\ n - 1 # k
      BY <2>3
    <3>6. ASSUME NEW n \in 0 .. k PROVE g[n] = IF n = 0 THEN 0 ELSE g[n - 1] + s[n]
      <4>1. CASE n = k
        <5>1. g[n - 1] = f[n - 1] /\ g[n] = f[n - 1] + s[n]
          BY <2>5, <3>5, <4>1
        <5> QED BY <2>5, <4>1, <5>1
      <4>2. CASE n # k /\ n # 0
        <5>1. g[n] = f[n] /\ g[n - 1] = f[n - 1]
          BY <3>5, <4>2
        <5>2. n \in 0 .. k - 1
          BY <3>4, <4>2
        <5> QED BY <3>3, <4>2, <5>1, <5>2
      <4>3. CASE n # k /\ n = 0
        <5>1. n \in 0 .. k - 1
          BY <3>4, <4>3
        <5> QED BY <3>3, <4>3, <5>1
      <4> QED BY <4>1, <4>2, <4>3
    <3>7. g = [n \in 0 .. k |-> g[n]]
      OBVIOUS
    <3>8. Sums(g, s, k)
      <4> HIDE DEF g
      <4> QED BY <3>6, <3>7 DEF Sums
    <3> HIDE DEF g
    <3> QED BY <2>3, <3>8
  <2> QED BY <2>4, <2>5
<1> QED BY <1>1, <1>2

LEMMA SumsNat ==
  ASSUME NEW L \in Nat, NEW f, NEW s, Sums(f, s, L), \A n \in 1 .. L : s[n] \in Nat
  PROVE  /\ f \in [0 .. L -> Nat] /\ f[0] = 0
         /\ \A n \in 1 .. L : f[n] = f[n - 1] + s[n]
<1>1. \A n \in 0 .. L : f[n] = IF n = 0 THEN 0 ELSE f[n - 1] + s[n]
  BY DEF Sums
<1>2. 0 \in 0 .. L /\ \A n \in 1 .. L : n \in 0 .. L /\ n # 0 /\ n - 1 \in 0 .. L
  OBVIOUS
<1>3. f[0] = 0 /\ \A n \in 1 .. L : f[n] = f[n - 1] + s[n]
  BY <1>1, <1>2
<1> DEFINE Bad == {n \in 0 .. L : f[n] \notin Nat}
<1>4. Bad = {}
  <2> SUFFICES ASSUME Bad # {} PROVE FALSE
    OBVIOUS
  <2>1. Bad \in SUBSET Nat
    OBVIOUS
  <2>2. PICK k \in Bad : \A j \in Bad : k <= j
    <3> HIDE DEF Bad
    <3> QED BY <2>1, Least
  <2>3. k \in 0 .. L /\ f[k] \notin Nat
    OBVIOUS
  <2>4. k # 0
    BY <1>3, <2>3
  <2>5. k - 1 \in 0 .. L /\ ~(k <= k - 1) /\ k \in 1 .. L
    BY <2>3, <2>4
  <2>6. f[k - 1] \in Nat
    BY <2>2, <2>5
  <2>7. f[k] = f[k - 1] + s[k] /\ s[k] \in Nat
    BY <1>3, <2>5
  <2> QED BY <2>3, <2>6, <2>7
<1>5. \A n \in 0 .. L : f[n] \in Nat
  BY <1>4
<1>6. f = [n \in 0 .. L |-> f[n]]
  BY DEF Sums
<1> QED BY <1>3, <1>5, <1>6

(***************************************************************************)
(* Where the parts of FlattenSeq(q) are: part n begins behind position     *)
(* o[n - 1] and ends at o[n].                                              *)
(***************************************************************************)
Flattening(g, q, n) == g = [i \in 1 .. n |-> IF i = 1 THEN q[i] ELSE g[i - 1] \o q[i]]

LEMMA FlatteningExists == ASSUME NEW L \in Nat, L # 0, NEW q PROVE \E g : Flattening(g, q, L)
<1> DEFINE Bad == {k \in 1 .. L : ~ \E g : Flattening(g, q, k)}
<1>1. CASE Bad = {}
  <2>1. L \in 1 .. L
    OBVIOUS
  <2> QED BY <1>1, <2>1
<1>2. CASE Bad # {}
  <2>1. Bad \in SUBSET Nat
    OBVIOUS
  <2>2. PICK k \in Bad : \A j \in Bad : k <= j
    <3> HIDE DEF Bad
    <3> QED BY <1>2, <2>1, Least
  <2>3. k \in 1 .. L /\ ~ \E g : Flattening(g, q, k)
    OBVIOUS
  <2>4. CASE k = 1
    <3> DEFINE g == [i \in 1 .. 1 |-> q[i]]
    <3>1. Flattening(g, q, 1)
      BY DEF Flattening
    <3> HIDE DEF g
    <3> QED BY <2>3, <2>4, <3>1
  <2>5. CASE k # 1
    <3>1. k - 1 \in 1 .. L /\ ~(k <= k - 1)
      BY <2>3, <2>5
    <3>2. PICK f : Flattening(f, q, k - 1)
      BY <2>2, <3>1
    <3> DEFINE g == [n \in 1 .. k |-> IF n = k THEN f[k - 1] \o q[k] ELSE f[n]]
    <3>3. \A n \in 1 .. k - 1 : f[n] = IF n = 1 THEN q[n] ELSE f[n - 1] \o q[n]
      BY <3>2 DEF Flattening
    <3>4. \A n \in 1 .. k : n = k \/ n \in 1 .. k - 1
      BY <2>3
    <3>5. \A n \in 1 .. k : n # 1 => n - 1 \in 1 .. k /\ n - 1 # k
      BY <2>3
    <3>6. ASSUME NEW n \in 1 .. k PROVE g[n] = IF n = 1 THEN q[n] ELSE g[n - 1] \o q[n]
      <4>1. CASE n = k
        <5>1. g[n - 1] = f[n - 1] /\ g[n] = f[n - 1] \o q[n]
          BY <2>5, <3>5, <4>1
        <5> QED BY <2>5, <4>1, <5>1
      <4>2. CASE n # k /\ n # 1
        <5>1. g[n] = f[n] /\ g[n - 1] = f[n - 1]
          BY <3>5, <4>2
        <5>2. n \in 1 .. k - 1
          BY <3>4, <4>2
        <5> QED BY <3>3, <4>2, <5>1, <5>2
      <4>3. CASE n # k /\ n = 1
        <5>1. n \in 1 .. k - 1 /\ g[n] = f[n]
          BY <3>4, <4>3
        <5> QED BY <3>3, <4>3, <5>1
      <4> QED BY <4>1, <4>2, <4>3
    <3>7. g = [n \in 1 .. k |-> g[n]]
      OBVIOUS
    <3>8. Flattening(g, q, k)
      <4> HIDE DEF g
      <4> QED BY <3>6, <3>7 DEF Flattening
    <3> HIDE DEF g
    <3> QED BY <2>3, <3>8
  <2> QED BY <2>4, <2>5
<1> QED BY <1>1, <1>2

LEMMA WithinSum ==
  ASSUME NEW x \in Nat, NEW y \in Nat, NEW z \in Nat, 1 <= z, z <= x
  PROVE  z \in 1 .. x + y /\ z <= x + y
OBVIOUS

(* t is made of the parts of q, which end at the positions o[n]. *)
Joins(t, q, o, L) ==
  \A n \in 1 .. L : \A k \in 1 .. Len(q[n]) : o[n - 1] + k <= o[L] /\ t[o[n - 1] + k] = q[n][k]

LEMMA FlattenIs ==
  ASSUME NEW S, NEW q \in Seq(Seq(S)), Len(q) # 0
  PROVE  \E o \in [0 .. Len(q) -> Nat] :
           /\ o[0] = 0 /\ \A n \in 1 .. Len(q) : o[n] = o[n - 1] + Len(q[n])
           /\ FlattenSeq(q) \in Seq(S) /\ Len(FlattenSeq(q)) = o[Len(q)]
           /\ Joins(FlattenSeq(q), q, o, Len(q))
<1>1. PICK L \in Nat \ {0} : L = Len(q)
  OBVIOUS
<1>2. \A n \in 1 .. L : q[n] \in Seq(S) /\ Len(q[n]) \in Nat
  BY <1>1
<1>3. PICK lens : lens = [n \in 1 .. L |-> Len(q[n])]
  OBVIOUS
<1>4. PICK o : Sums(o, lens, L)
  BY SumsExist
<1>5. o \in [0 .. L -> Nat] /\ o[0] = 0 /\ \A n \in 1 .. L : o[n] = o[n - 1] + Len(q[n])
  <2>1. \A n \in 1 .. L : lens[n] \in Nat /\ lens[n] = Len(q[n])
    BY <1>2, <1>3
  <2>2. o \in [0 .. L -> Nat] /\ o[0] = 0 /\ \A n \in 1 .. L : o[n] = o[n - 1] + lens[n]
    BY <1>4, <2>1, SumsNat
  <2> QED BY <2>1, <2>2
<1>6. PICK g : g = CHOOSE h : Flattening(h, q, L)
  OBVIOUS
<1>7. Flattening(g, q, L)
  BY <1>6, FlatteningExists
<1>8. \A n \in 1 .. L : g[n] = IF n = 1 THEN q[n] ELSE g[n - 1] \o q[n]
  BY <1>7 DEF Flattening
<1>9. FlattenSeq(q) = g[L]
  BY <1>1, <1>6 DEF FlattenSeq, Flattening
<1> DEFINE Ok(n) == g[n] \in Seq(S) /\ Len(g[n]) = o[n] /\ Joins(g[n], q, o, n)
           Bad == {n \in 1 .. L : ~Ok(n)}
<1>10. Bad = {}
  <2> SUFFICES ASSUME Bad # {} PROVE FALSE
    OBVIOUS
  <2>1. Bad \in SUBSET Nat
    OBVIOUS
  <2>2. PICK k \in Bad : \A j \in Bad : k <= j
    <3> HIDE DEF Bad
    <3> QED BY <2>1, Least
  <2>3. k \in 1 .. L /\ ~Ok(k)
    OBVIOUS
  <2>4. CASE k = 1
    <3>1. g[1] = q[1] /\ q[1] \in Seq(S) /\ o[1] = o[0] + Len(q[1]) /\ Len(q[1]) \in Nat
      BY <1>2, <1>5, <1>8, <2>3, <2>4
    <3>2. Len(g[1]) = o[1]
      BY <1>5, <3>1
    <3>3. Joins(g[1], q, o, 1)
      <4> SUFFICES ASSUME NEW n \in 1 .. 1, NEW i \in 1 .. Len(q[n])
                   PROVE  o[n - 1] + i <= o[1] /\ g[1][o[n - 1] + i] = q[n][i]
        BY DEF Joins
      <4>1. n = 1 /\ n - 1 = 0
        OBVIOUS
      <4>2. PICK l \in Nat : l = Len(q[1])
        BY <3>1
      <4>3. PICK h \in Nat : h = i /\ h <= l
        <5>1. i \in 1 .. l
          BY <4>1, <4>2
        <5> QED BY <5>1
      <4>4. 0 + h = h /\ 0 + l = l
        OBVIOUS
      <4>5. o[n - 1] + i = h /\ o[1] = l
        BY <1>5, <3>1, <4>1, <4>2, <4>3, <4>4
      <4> QED BY <3>1, <4>1, <4>3, <4>5
    <3>4. Ok(1)
      BY <3>1, <3>2, <3>3
    <3> HIDE DEF Ok
    <3> QED BY <2>3, <2>4, <3>4
  <2>5. CASE k # 1
    <3>1. PICK j \in 1 .. L : j = k - 1 /\ ~(k <= j)
      BY <2>3, <2>5
    <3>2. Ok(j)
      BY <2>2, <3>1
    <3>3. g[k] = g[j] \o q[k] /\ q[k] \in Seq(S) /\ o[k] = o[j] + Len(q[k]) /\ Len(q[k]) \in Nat
          /\ o[j] \in Nat /\ Len(g[j]) = o[j] /\ g[j] \in Seq(S)
      <4>1. j \in 0 .. L
        OBVIOUS
      <4>2. g[k] = g[j] \o q[k] /\ q[k] \in Seq(S) /\ Len(q[k]) \in Nat
        BY <1>2, <1>8, <2>3, <2>5, <3>1
      <4>3. o[k] = o[j] + Len(q[k]) /\ o[j] \in Nat
        BY <1>5, <2>3, <3>1, <4>1
      <4> QED BY <3>2, <4>2, <4>3
    <3>4. PICK a \in Seq(S) : a = g[j]
      BY <3>3
    <3>5. PICK b \in Seq(S) : b = q[k]
      BY <3>3
    <3>6. PICK c : c = a \o b
      OBVIOUS
    <3>7. /\ c \in Seq(S) /\ Len(c) = Len(a) + Len(b)
          /\ \A i \in 1 .. Len(a) + Len(b) : c[i] = IF i <= Len(a) THEN a[i] ELSE b[i - Len(a)]
      BY <3>6, ConcatProperties
    <3>8. Len(a) = o[j] /\ Len(b) \in Nat /\ o[k] = o[j] + Len(b) /\ g[k] = c
      BY <3>3, <3>4, <3>5, <3>6
    <3>9. Joins(c, q, o, k)
      <4> SUFFICES ASSUME NEW n \in 1 .. k, NEW i \in 1 .. Len(q[n])
                   PROVE  o[n - 1] + i <= o[k] /\ c[o[n - 1] + i] = q[n][i]
        BY DEF Joins
      <4>1. CASE n = k
        <5>1. n - 1 = j /\ i \in 1 .. Len(b) /\ q[n] = b
          BY <3>1, <3>5, <4>1
        <5>2. o[j] + i \in 1 .. Len(a) + Len(b) /\ ~(o[j] + i <= Len(a)) /\ (o[j] + i) - Len(a) = i
              /\ o[j] + i <= o[k]
          <6>1. PICK x \in Nat, y \in Nat : x = o[j] /\ y = Len(b)
            BY <3>3, <3>8
          <6>2. i \in 1 .. y /\ Len(a) = x /\ o[k] = x + y
            BY <3>8, <5>1, <6>1
          <6>3. x + i \in 1 .. x + y /\ ~(x + i <= x) /\ (x + i) - x = i /\ x + i <= x + y
            BY <6>2
          <6> QED BY <6>1, <6>2, <6>3
        <5> QED BY <3>7, <5>1, <5>2
      <4>2. CASE n # k
        <5>1. n \in 1 .. j /\ n \in 1 .. L /\ n - 1 \in 0 .. L
          BY <2>3, <3>1, <4>2
        <5>2. o[n - 1] + i <= o[j] /\ a[o[n - 1] + i] = q[n][i]
          BY <3>2, <3>4, <5>1 DEF Joins
        <5>3. o[n - 1] \in Nat /\ i \in Nat /\ 1 <= i
          <6>1. o[n - 1] \in Nat
            BY <1>5, <5>1
          <6>2. PICK l \in Nat : l = Len(q[n])
            BY <1>2, <5>1
          <6>3. i \in 1 .. l
            BY <6>2
          <6> QED BY <6>1, <6>3
        <5>4. o[n - 1] + i \in 1 .. Len(a) + Len(b) /\ o[n - 1] + i <= Len(a) /\ o[n - 1] + i <= o[k]
          <6>1. PICK p \in Nat : p = o[n - 1]
            BY <5>3
          <6>2. PICK h \in Nat : h = i /\ 1 <= h
            BY <5>3
          <6>3. PICK z \in Nat : z = p + h
            OBVIOUS
          <6>4. 1 <= z
            BY <6>2, <6>3
          <6>5. PICK x \in Nat : x = o[j]
            BY <3>3
          <6>6. PICK y \in Nat : y = Len(b)
            BY <3>8
          <6>7. z <= x
            BY <5>2, <6>1, <6>2, <6>3, <6>5
          <6>8. z \in 1 .. x + y /\ z <= x + y
            BY <6>4, <6>7, WithinSum
          <6>9. z = o[n - 1] + i /\ Len(a) = x /\ o[k] = x + y
            BY <3>8, <6>1, <6>2, <6>3, <6>5, <6>6
          <6> QED BY <6>6, <6>7, <6>8, <6>9
        <5> QED BY <3>7, <5>2, <5>4
      <4> QED BY <4>1, <4>2
    <3>10. Ok(k)
      BY <3>7, <3>8, <3>9
    <3> HIDE DEF Ok
    <3> QED BY <2>3, <3>10
  <2> QED BY <2>4, <2>5
<1>11. Ok(L)
  <2>1. L \in 1 .. L
    OBVIOUS
  <2> HIDE DEF Ok
  <2> QED BY <1>10, <2>1
<1>12. /\ FlattenSeq(q) \in Seq(S) /\ Len(FlattenSeq(q)) = o[L] /\ Joins(FlattenSeq(q), q, o, L)
  BY <1>9, <1>11
<1> HIDE DEF Ok
<1> QED BY <1>1, <1>5, <1>12

=============================================================================
