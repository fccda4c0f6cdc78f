------------------------------ MODULE TextProofs ------------------------------
(***************************************************************************)
(* Lemmas about texts: where a search finds something, what substr leaves, *)
(* and the least and the greatest of a set of places.                      *)
(***************************************************************************)
EXTENDS Text, FiniteSets, FiniteSetsExt, SequenceTheorems, WellFoundedInduction, TLAPS

\* A nonempty set of natural numbers has a least element.
LEMMA MinNat ==
    ASSUME NEW S, S \subseteq Nat, S # {}
    PROVE  Min(S) \in S /\ \A y \in S : Min(S) <= y
<1> DEFINE R == {p \in Nat \X Nat : p[1] < p[2]}
<1>1. IsWellFoundedOn(R, Nat)
  BY NatLessThanWellFounded DEF OpToRel
<1>2. PICK x \in S : \A y \in S : <<y, x>> \notin R
  BY <1>1, WFMin
<1>3. \A y \in S : ~ (y < x)
  BY <1>2
<1>4. \A y \in S : x =< y
  BY <1>2, <1>3
<1> QED
  BY <1>2, <1>4 DEF Min

\* A bounded one has a greatest element.
LEMMA MaxNat ==
    ASSUME NEW n \in Nat, NEW S, S \subseteq 0 .. n, S # {}
    PROVE  Max(S) \in S /\ \A y \in S : y <= Max(S)
<1> DEFINE T == {k \in 0 .. n : n - k \in S}
<1>1. T \subseteq Nat /\ T # {}
  <2>1. PICK x \in S : TRUE
    OBVIOUS
  <2>2. n - x \in 0 .. n /\ n - (n - x) = x
    BY <2>1
  <2>3. n - x \in T
    BY <2>1, <2>2
  <2>4. T \subseteq Nat
    OBVIOUS
  <2> QED
    BY <2>3, <2>4
<1>2. Min(T) \in T /\ \A k \in T : Min(T) <= k
  <2> HIDE DEF T
  <2> QED
    BY <1>1, MinNat
<1> DEFINE x == n - Min(T)
<1>3. x \in S
  BY <1>2
<1>4. \A y \in S : x >= y
  <2> SUFFICES ASSUME NEW y \in S PROVE x >= y
    OBVIOUS
  <2>1. n - y \in T
    OBVIOUS
  <2> QED
    BY <1>2, <2>1
<1> HIDE DEF x
<1> QED
  BY <1>3, <1>4 DEF Max

\* What is found lies within the text.
LEMMA FindsWithin ==
    ASSUME NEW T, NEW s \in Seq(T), NEW p
    PROVE  /\ Finds(s, p) \subseteq 1 .. Len(s) /\ Finds(s, p) \subseteq Nat
           /\ \A i \in Finds(s, p) : i + Len(p) - 1 <= Len(s)
BY DEF Finds, IsAt

\* The first place where something is found.
LEMMA FirstFound ==
    ASSUME NEW T, NEW s \in Seq(T), NEW p, Finds(s, p) # {}
    PROVE  /\ Min(Finds(s, p)) \in Finds(s, p)
           /\ \A i \in Finds(s, p) : Min(Finds(s, p)) <= i
BY FindsWithin, MinNat

\* Texts up to a place and from a place on.
LEMMA TakeType ==
    ASSUME NEW T, NEW s \in Seq(T), NEW n \in 0 .. Len(s)
    PROVE  /\ Take(s, n) \in Seq(T) /\ Len(Take(s, n)) = n
           /\ \A i \in 1 .. n : Take(s, n)[i] = s[i]
BY DEF Take

LEMMA DropType ==
    ASSUME NEW T, NEW s \in Seq(T), NEW n \in 0 .. Len(s)
    PROVE  /\ Drop(s, n) \in Seq(T) /\ Len(Drop(s, n)) = Len(s) - n
           /\ \A i \in 1 .. Len(s) - n : Drop(s, n)[i] = s[n + i]
BY DEF Drop

\* The end of a line.
LEMMA EndOfLine ==
    ASSUME NEW s, NEW i \in Int
    PROVE  IsAt(s, CRLF, i) <=> i + 1 <= Len(s) /\ s[i] = CR /\ s[i + 1] = LF
<1>1. Len(CRLF) = 2 /\ DOMAIN CRLF = {1, 2} /\ CRLF[1] = CR /\ CRLF[2] = LF
  BY DEF CRLF
<1> QED
  BY <1>1 DEF IsAt
-------------------------------------------------------------------------------
(***************************************************************************)
(* The part of a text between two places: what it consists of, how it is   *)
(* divided and joined, and where something is found in it.                 *)
(***************************************************************************)
Slice(t, a, b) == SubSeq(t, a + 1, b)

LEMMA SliceType ==
    ASSUME NEW T, NEW t \in Seq(T), NEW a \in Nat, NEW b \in a .. Len(t)
    PROVE  /\ Slice(t, a, b) \in Seq(T) /\ Len(Slice(t, a, b)) = b - a
           /\ \A i \in 1 .. b - a : Slice(t, a, b)[i] = t[a + i]
<1>1. a \in Nat /\ b \in Nat /\ Len(t) \in Nat /\ a <= b /\ b <= Len(t)
  BY LenProperties
<1> DEFINE lo == a + 1
           x == SubSeq(t, lo, b)
<1>2. lo \in Int /\ b \in Int /\ b - lo + 1 = b - a /\ (lo <= b \/ b - a = 0)
      /\ \A i \in 1 .. b - a : lo + i - 1 = a + i
  BY <1>1
<1>3. \A i \in lo .. b : i \in 1 .. Len(t)
  BY <1>1
<1>4. \A i \in lo .. b : t[i] \in T
  BY <1>3, ElementOfSeq
<1> HIDE DEF lo
<1>5. /\ x \in Seq(T) /\ Len(x) = IF lo <= b THEN b - lo + 1 ELSE 0
      /\ \A i \in 1 .. b - lo + 1 : x[i] = t[lo + i - 1]
  BY <1>2, <1>4, SubSeqProperties
<1> HIDE DEF x
<1>6. Len(x) = b - a /\ \A i \in 1 .. b - a : x[i] = t[a + i]
  BY <1>1, <1>2, <1>5
<1> QED
  BY <1>5, <1>6 DEF x, lo, Slice

\* A text is that part when it has its length and its characters.
LEMMA IsCut ==
    ASSUME NEW T, NEW t \in Seq(T), NEW a \in Nat, NEW b \in a .. Len(t),
           NEW x \in Seq(T), Len(x) = b - a, \A i \in 1 .. b - a : x[i] = t[a + i]
    PROVE  x = Slice(t, a, b)
<1>1. /\ Slice(t, a, b) \in Seq(T) /\ Len(Slice(t, a, b)) = b - a
      /\ \A i \in 1 .. b - a : Slice(t, a, b)[i] = t[a + i]
  BY SliceType
<1>2. Len(x) = Len(Slice(t, a, b)) /\ \A i \in 1 .. Len(x) : x[i] = Slice(t, a, b)[i]
  BY <1>1
<1> QED
  BY <1>1, <1>2, SeqEqual

LEMMA SliceNone ==
    ASSUME NEW T, NEW t \in Seq(T), NEW a \in 0 .. Len(t)
    PROVE  Slice(t, a, a) = <<>>
<1>1. a \in Nat /\ a \in a .. Len(t) /\ a - a = 0
  BY LenProperties
<1>2. Slice(t, a, a) \in Seq(T) /\ Len(Slice(t, a, a)) = 0
  BY <1>1, SliceType
<1> QED
  BY <1>2, EmptySeq

LEMMA SliceAll ==
    ASSUME NEW T, NEW t \in Seq(T)
    PROVE  Slice(t, 0, Len(t)) = t
<1>1. Len(t) \in Nat /\ 0 \in Nat /\ Len(t) \in 0 .. Len(t) /\ Len(t) = Len(t) - 0
      /\ \A i \in 1 .. Len(t) - 0 : t[i] = t[0 + i]
  BY LenProperties
<1> QED
  BY <1>1, IsCut

LEMMA SliceJoin ==
    ASSUME NEW T, NEW t \in Seq(T), NEW a \in Nat, NEW b \in a .. Len(t), NEW c \in b .. Len(t)
    PROVE  Slice(t, a, b) \o Slice(t, b, c) = Slice(t, a, c)
<1>1. Len(t) \in Nat /\ b \in Nat /\ c \in Nat /\ c \in a .. Len(t)
  BY LenProperties
<1> DEFINE x == Slice(t, a, b)
           y == Slice(t, b, c)
<1>2. /\ x \in Seq(T) /\ Len(x) = b - a /\ \A i \in 1 .. b - a : x[i] = t[a + i]
  BY SliceType
<1>3. /\ y \in Seq(T) /\ Len(y) = c - b /\ \A i \in 1 .. c - b : y[i] = t[b + i]
  BY <1>1, SliceType
<1> HIDE DEF x, y
<1>4. /\ x \o y \in Seq(T) /\ Len(x \o y) = Len(x) + Len(y)
      /\ \A i \in 1 .. Len(x) + Len(y) :
            (x \o y)[i] = IF i <= Len(x) THEN x[i] ELSE y[i - Len(x)]
  BY <1>2, <1>3, ConcatProperties
<1>5. Len(x \o y) = c - a
  BY <1>1, <1>2, <1>3, <1>4
<1>6. ASSUME NEW i \in 1 .. c - a PROVE (x \o y)[i] = t[a + i]
  <2>1. (x \o y)[i] = IF i <= b - a THEN x[i] ELSE y[i - (b - a)]
    BY <1>1, <1>2, <1>3, <1>4
  <2>2. CASE i <= b - a
    BY <1>1, <1>2, <2>1, <2>2
  <2>3. CASE ~(i <= b - a)
    <3>1. i - (b - a) \in 1 .. c - b /\ b + (i - (b - a)) = a + i
      BY <1>1, <2>3
    <3> QED
      BY <1>3, <2>1, <2>3, <3>1
  <2> QED
    BY <2>2, <2>3
<1>7. x \o y = Slice(t, a, c)
  BY <1>1, <1>4, <1>5, <1>6, IsCut
<1> QED
  BY <1>7 DEF x, y

LEMMA SliceCut ==
    ASSUME NEW T, NEW t \in Seq(T), NEW a \in Nat, NEW b \in a .. Len(t),
           NEW k \in Nat, NEW m \in k .. b - a
    PROVE  Slice(Slice(t, a, b), k, m) = Slice(t, a + k, a + m)
<1>1. Len(t) \in Nat /\ b \in Nat /\ m \in Nat
  BY LenProperties
<1> DEFINE x == Slice(t, a, b)
           y == Slice(x, k, m)
<1>2. /\ x \in Seq(T) /\ Len(x) = b - a /\ \A i \in 1 .. b - a : x[i] = t[a + i]
  BY SliceType
<1> HIDE DEF x
<1>3. m \in k .. Len(x)
  BY <1>1, <1>2
<1>4. /\ y \in Seq(T) /\ Len(y) = m - k /\ \A i \in 1 .. m - k : y[i] = x[k + i]
  BY <1>3, <1>2, SliceType
<1> HIDE DEF y
<1> DEFINE lo == a + k
           hi == a + m
<1>5. lo \in Nat /\ hi \in lo .. Len(t) /\ hi - lo = m - k
  BY <1>1
<1>6. ASSUME NEW i \in 1 .. m - k PROVE y[i] = t[lo + i]
  <2>1. k + i \in 1 .. b - a /\ a + (k + i) = lo + i
    BY <1>1
  <2> QED
    BY <1>2, <1>4, <2>1
<1> HIDE DEF lo, hi
<1>7. y = Slice(t, lo, hi)
  <2>1. Len(y) = hi - lo /\ \A i \in 1 .. hi - lo : y[i] = t[lo + i]
    BY <1>4, <1>5, <1>6
  <2> QED
    BY <1>4, <1>5, <2>1, IsCut
<1> QED
  BY <1>7 DEF x, y, lo, hi

\* What is taken off the front of a part, and what is left.
LEMMA SliceTake ==
    ASSUME NEW T, NEW t \in Seq(T), NEW a \in Nat, NEW b \in a .. Len(t), NEW n \in 0 .. b - a
    PROVE  Take(Slice(t, a, b), n) = Slice(t, a, a + n)
<1>1. 0 \in Nat /\ n \in 0 .. b - a /\ a + 0 = a
  OBVIOUS
<1>2. Slice(Slice(t, a, b), 0, n) = Slice(t, a, a + n)
  BY <1>1, SliceCut
<1>3. Take(Slice(t, a, b), n) = Slice(Slice(t, a, b), 0, n)
  BY DEF Take, Slice
<1> QED
  BY <1>2, <1>3

LEMMA SliceDrop ==
    ASSUME NEW T, NEW t \in Seq(T), NEW a \in Nat, NEW b \in a .. Len(t), NEW n \in 0 .. b - a
    PROVE  Drop(Slice(t, a, b), n) = Slice(t, a + n, b)
<1>1. n \in Nat /\ b - a \in n .. b - a /\ a + (b - a) = b /\ Len(t) \in Nat /\ b \in Nat
  BY LenProperties
<1> DEFINE m == b - a
<1>2. Len(Slice(t, a, b)) = m
  BY SliceType
<1>3. Slice(Slice(t, a, b), n, m) = Slice(t, a + n, b)
  <2>1. m \in n .. b - a /\ a + m = b
    BY <1>1
  <2>2. Slice(Slice(t, a, b), n, m) = Slice(t, a + n, a + m)
    <3> HIDE DEF m
    <3> QED
      BY <1>1, <2>1, SliceCut
  <2> QED
    BY <2>1, <2>2
<1> QED
  BY <1>2, <1>3 DEF Drop, Slice

\* What is found in a part is found in the whole, at the same place.
LEMMA SliceFinds ==
    ASSUME NEW T, NEW t \in Seq(T), NEW a \in Nat, NEW b \in a .. Len(t),
           NEW p, Len(p) \in Nat \ {0}, DOMAIN p = 1 .. Len(p), NEW i \in Int
    PROVE  i \in Finds(Slice(t, a, b), p) <=>
             i >= 1 /\ a + i \in Finds(t, p) /\ a + i + Len(p) - 1 <= b
<1> DEFINE x == Slice(t, a, b)
<1>1. /\ x \in Seq(T) /\ Len(x) = b - a /\ \A j \in 1 .. b - a : x[j] = t[a + j]
  BY SliceType
<1>2. Len(t) \in Nat /\ b \in Nat /\ Len(p) \in Nat /\ DOMAIN p = 1 .. Len(p)
      /\ DOMAIN x = 1 .. Len(x) /\ DOMAIN t = 1 .. Len(t)
  BY <1>1, LenProperties
<1> HIDE DEF x
<1>3. ASSUME i \in Finds(x, p)
      PROVE  i >= 1 /\ a + i \in Finds(t, p) /\ a + i + Len(p) - 1 <= b
  <2>1. i \in DOMAIN x /\ i + Len(p) - 1 <= Len(x) /\ \A j \in DOMAIN p : x[i + j - 1] = p[j]
    BY <1>3 DEF Finds, IsAt
  <2>2. \A j \in 1 .. Len(p) : x[i + j - 1] = p[j]
    BY <1>2, <2>1
  <2>3. i >= 1 /\ i + Len(p) - 1 <= b - a
    <3>1. i \in 1 .. Len(x)
      BY <1>2, <2>1
    <3> QED
      BY <1>1, <1>2, <2>1, <3>1
  <2>4. i >= 1 /\ i + Len(p) - 1 <= b - a /\ \A j \in 1 .. Len(p) : x[i + j - 1] = p[j]
    BY <2>2, <2>3
  <2>5. ASSUME NEW j \in 1 .. Len(p) PROVE t[a + i + j - 1] = p[j]
    <3>1. i + j - 1 \in 1 .. b - a /\ a + (i + j - 1) = a + i + j - 1
      BY <1>2, <2>4
    <3> QED
      BY <1>1, <2>4, <3>1
  <2>6. a + i \in 1 .. Len(t) /\ a + i + Len(p) - 1 <= b /\ b <= Len(t)
    BY <1>2, <2>4
  <2>7. a + i + Len(p) - 1 <= Len(t)
    BY <1>2, <2>6
  <2> QED
    BY <1>2, <2>4, <2>5, <2>6, <2>7 DEF Finds, IsAt
<1>4. ASSUME i >= 1, a + i \in Finds(t, p), a + i + Len(p) - 1 <= b
      PROVE  i \in Finds(x, p)
  <2>1. \A j \in 1 .. Len(p) : t[a + i + j - 1] = p[j]
    BY <1>2, <1>4 DEF Finds, IsAt
  <2>2. ASSUME NEW j \in 1 .. Len(p) PROVE x[i + j - 1] = p[j]
    <3>1. i + j - 1 \in 1 .. b - a /\ a + (i + j - 1) = a + i + j - 1
      BY <1>2, <1>4
    <3> QED
      BY <1>1, <2>1, <3>1
  <2>3. i \in 1 .. Len(x) /\ i + Len(p) - 1 <= Len(x)
    BY <1>1, <1>2, <1>4
  <2> QED
    BY <1>2, <2>2, <2>3 DEF Finds, IsAt
<1> QED
  BY <1>3, <1>4 DEF x
===============================================================================
