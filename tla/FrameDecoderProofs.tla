------------------------- MODULE FrameDecoderProofs -------------------------
(***************************************************************************)
(* Theorems about FrameDecoder: for any frames, cut in any way, listeners  *)
(* get the frames that were sent (the refinement of FrameStream), and the  *)
(* buffer holds exactly what has arrived and is not yet a whole frame.     *)
(***************************************************************************)
EXTENDS FrameDecoder, SequenceTheorems, WellFoundedInduction, TLAPS

-----------------------------------------------------------------------------
(* Sequences: what is left of one without its first n elements, and those. *)
From(q, n) == SubSeq(q, n + 1, Len(q))

UpTo(q, n) == SubSeq(q, 1, n)

LEMMA FromSeq ==
  ASSUME NEW S, NEW q \in Seq(S), NEW n \in 0 .. Len(q)
  PROVE  /\ From(q, n) \in Seq(S)
         /\ Len(From(q, n)) = Len(q) - n
         /\ \A i \in 1 .. Len(q) - n : From(q, n)[i] = q[n + i]
<1>1. Len(q) \in Nat /\ n \in Nat /\ n <= Len(q)
  OBVIOUS
<1>2. \A i \in n + 1 .. Len(q) : q[i] \in S
  BY <1>1, ElementOfSeq
<1>3. /\ SubSeq(q, n + 1, Len(q)) \in Seq(S)
      /\ Len(SubSeq(q, n + 1, Len(q))) = IF n + 1 <= Len(q) THEN Len(q) - (n + 1) + 1 ELSE 0
      /\ \A i \in 1 .. Len(q) - (n + 1) + 1 : SubSeq(q, n + 1, Len(q))[i] = q[n + 1 + i - 1]
  <2>1. n + 1 \in Int /\ Len(q) \in Int
    BY <1>1
  <2> QED
    BY <1>2, <2>1, SubSeqProperties
<1>4. Len(q) - (n + 1) + 1 = Len(q) - n
  BY <1>1
<1>5. \A i \in 1 .. Len(q) - n : n + 1 + i - 1 = n + i
  BY <1>1
<1>6. Len(SubSeq(q, n + 1, Len(q))) = Len(q) - n
  BY <1>1, <1>3
<1>7. \A i \in 1 .. Len(q) - n : SubSeq(q, n + 1, Len(q))[i] = q[n + i]
  BY <1>3, <1>4, <1>5
<1> QED
  BY <1>3, <1>6, <1>7, Zenon DEF From

LEMMA UpToSeq ==
  ASSUME NEW S, NEW q \in Seq(S), NEW n \in 0 .. Len(q)
  PROVE  /\ UpTo(q, n) \in Seq(S)
         /\ Len(UpTo(q, n)) = n
         /\ \A i \in 1 .. n : UpTo(q, n)[i] = q[i]
<1>1. Len(q) \in Nat /\ n \in Nat /\ n <= Len(q)
  OBVIOUS
<1>2. \A i \in 1 .. n : q[i] \in S
  BY <1>1, ElementOfSeq
<1>3. /\ SubSeq(q, 1, n) \in Seq(S)
      /\ Len(SubSeq(q, 1, n)) = IF 1 <= n THEN n - 1 + 1 ELSE 0
      /\ \A i \in 1 .. n - 1 + 1 : SubSeq(q, 1, n)[i] = q[1 + i - 1]
  <2>1. 1 \in Int /\ n \in Int
    BY <1>1
  <2> QED
    BY <1>2, <2>1, SubSeqProperties
<1>4. n - 1 + 1 = n /\ \A i \in 1 .. n : 1 + i - 1 = i
  BY <1>1
<1> QED
  BY <1>1, <1>3, <1>4 DEF UpTo

LEMMA Split ==
  ASSUME NEW S, NEW q \in Seq(S), NEW n \in 0 .. Len(q)
  PROVE  UpTo(q, n) \o From(q, n) = q
<1>1. Len(q) \in Nat /\ n \in Nat /\ n <= Len(q)
  OBVIOUS
<1>2. 1 \in 1 .. Len(q) + 1 /\ n \in 1 - 1 .. Len(q) /\ Len(q) \in n .. Len(q)
  BY <1>1
<1> QED
  BY <1>2, ConcatAdjacentSubSeq, SubSeqFull DEF UpTo, From

LEMMA FromNone ==
  ASSUME NEW S, NEW q \in Seq(S)
  PROVE  From(q, 0) = q
BY SubSeqFull DEF From

LEMMA FromFrom ==
  ASSUME NEW S, NEW q \in Seq(S), NEW m \in Nat, NEW n \in Nat, m + n <= Len(q)
  PROVE  From(From(q, m), n) = From(q, m + n)
<1>1. Len(q) \in Nat /\ m \in 0 .. Len(q) /\ m + n \in 0 .. Len(q) /\ n \in 0 .. Len(q) - m
  OBVIOUS
<1> DEFINE p == From(q, m)
<1>2. p \in Seq(S) /\ Len(p) = Len(q) - m /\ \A i \in 1 .. Len(q) - m : p[i] = q[m + i]
  BY <1>1, FromSeq
<1>3. /\ From(q, m + n) \in Seq(S) /\ Len(From(q, m + n)) = Len(q) - (m + n)
      /\ \A i \in 1 .. Len(q) - (m + n) : From(q, m + n)[i] = q[m + n + i]
  BY <1>1, FromSeq
<1> HIDE DEF p
<1>4. /\ From(p, n) \in Seq(S) /\ Len(From(p, n)) = Len(p) - n
      /\ \A i \in 1 .. Len(p) - n : From(p, n)[i] = p[n + i]
  <2>1. p \in Seq(S) /\ n \in 0 .. Len(p)
    BY <1>1, <1>2
  <2> QED
    BY <2>1, FromSeq, Zenon
<1>5. Len(From(p, n)) = Len(From(q, m + n))
  <2>1. Len(From(p, n)) = Len(q) - m - n /\ Len(From(q, m + n)) = Len(q) - (m + n)
    BY <1>2, <1>3, <1>4, Zenon
  <2>2. Len(q) - m - n = Len(q) - (m + n)
    BY <1>1
  <2> QED
    BY <2>1, <2>2, Zenon
<1>6. ASSUME NEW i \in 1 .. Len(From(p, n))
      PROVE  From(p, n)[i] = From(q, m + n)[i]
  <2>1. i \in 1 .. Len(p) - n /\ n + i \in 1 .. Len(q) - m /\ i \in 1 .. Len(q) - (m + n)
    BY <1>1, <1>2, <1>4
  <2>2. m + (n + i) = m + n + i
    BY <2>1
  <2> QED
    BY <1>2, <1>3, <1>4, <2>1, <2>2
<1>7. From(p, n) = From(q, m + n)
  BY <1>3, <1>4, <1>5, <1>6, SeqEqual
<1> QED
  BY <1>7 DEF p

(* A concatenation, cut inside its first part and behind it.               *)
LEMMA FromConcat ==
  ASSUME NEW S, NEW p \in Seq(S), NEW q \in Seq(S), NEW n \in 0 .. Len(p)
  PROVE  From(p \o q, n) = From(p, n) \o q
<1>1. Len(p) \in Nat /\ Len(q) \in Nat /\ n \in Nat /\ n <= Len(p)
  OBVIOUS
<1>2. /\ p \o q \in Seq(S) /\ Len(p \o q) = Len(p) + Len(q)
      /\ \A i \in 1 .. Len(p) + Len(q) :
           (p \o q)[i] = IF i <= Len(p) THEN p[i] ELSE q[i - Len(p)]
  BY ConcatProperties
<1> DEFINE z == p \o q
           y == From(p, n)
<1>3. /\ y \in Seq(S) /\ Len(y) = Len(p) - n
      /\ \A i \in 1 .. Len(p) - n : y[i] = p[n + i]
  BY FromSeq
<1>4. /\ From(z, n) \in Seq(S) /\ Len(From(z, n)) = Len(p) + Len(q) - n
      /\ \A i \in 1 .. Len(p) + Len(q) - n : From(z, n)[i] = z[n + i]
  <2>1. n \in 0 .. Len(z)
    BY <1>1, <1>2
  <2> HIDE DEF z
  <2>2. z \in Seq(S) /\ Len(z) = Len(p) + Len(q)
    BY <1>2 DEF z
  <2>3. /\ From(z, n) \in Seq(S) /\ Len(From(z, n)) = Len(z) - n
        /\ \A i \in 1 .. Len(z) - n : From(z, n)[i] = z[n + i]
    BY <2>1, <2>2, FromSeq, Zenon
  <2> QED
    BY <2>2, <2>3
<1> HIDE DEF y
<1>5. /\ y \o q \in Seq(S) /\ Len(y \o q) = Len(y) + Len(q)
      /\ \A i \in 1 .. Len(y) + Len(q) :
           (y \o q)[i] = IF i <= Len(y) THEN y[i] ELSE q[i - Len(y)]
  BY <1>3, ConcatProperties
<1>6. Len(From(z, n)) = Len(y \o q)
  BY <1>1, <1>3, <1>4, <1>5
<1>7. ASSUME NEW i \in 1 .. Len(From(z, n))
      PROVE  From(z, n)[i] = (y \o q)[i]
  <2>1. i \in 1 .. Len(p) + Len(q) - n /\ n + i \in 1 .. Len(p) + Len(q)
    BY <1>1, <1>4
  <2>2. From(z, n)[i] = IF n + i <= Len(p) THEN p[n + i] ELSE q[n + i - Len(p)]
    BY <1>2, <1>4, <2>1
  <2>3. i \in 1 .. Len(y) + Len(q)
    BY <1>1, <1>3, <2>1
  <2>4. CASE n + i <= Len(p)
    BY <1>1, <1>3, <1>5, <2>1, <2>2, <2>3, <2>4
  <2>5. CASE ~(n + i <= Len(p))
    <3>1. ~(i <= Len(y)) /\ n + i - Len(p) = i - Len(y)
      BY <1>1, <1>3, <2>1, <2>5
    <3> QED
      BY <1>5, <2>2, <2>3, <2>5, <3>1
  <2> QED
    BY <2>4, <2>5
<1>8. From(z, n) = y \o q
  <2> HIDE DEF z
  <2> QED
    BY <1>4, <1>5, <1>6, <1>7, SeqEqual
<1> QED
  BY <1>8 DEF z, y

LEMMA FromBehind ==
  ASSUME NEW S, NEW p \in Seq(S), NEW q \in Seq(S), NEW n \in 0 .. Len(q)
  PROVE  From(p \o q, Len(p) + n) = From(q, n)
<1>1. Len(p) \in Nat /\ Len(q) \in Nat /\ n \in Nat /\ n <= Len(q)
  OBVIOUS
<1>2. p \o q \in Seq(S) /\ Len(p \o q) = Len(p) + Len(q)
  BY ConcatProperties
<1>3. From(p \o q, Len(p)) = From(p, Len(p)) \o q
  <2>1. Len(p) \in 0 .. Len(p)
    BY <1>1
  <2> QED
    BY <2>1, FromConcat, Zenon
<1>4. From(p, Len(p)) = <<>>
  BY <1>1, SubSeqEmpty DEF From
<1>5. From(p \o q, Len(p)) = q
  BY <1>3, <1>4, ConcatEmptySeq
<1> DEFINE z == p \o q
<1>6. z \in Seq(S) /\ Len(p) + n <= Len(z)
  BY <1>1, <1>2
<1> HIDE DEF z
<1>7. From(From(z, Len(p)), n) = From(z, Len(p) + n)
  BY <1>1, <1>6, FromFrom
<1> QED
  BY <1>5, <1>7 DEF z

(* Two ways of writing one sequence: the longer beginning starts with the  *)
(* shorter one.                                                            *)
LEMMA Cut ==
  ASSUME NEW S, NEW p \in Seq(S), NEW q \in Seq(S), NEW r \in Seq(S), NEW t \in Seq(S),
         p \o q = r \o t, Len(r) <= Len(p)
  PROVE  UpTo(p, Len(r)) = r /\ From(p, Len(r)) \o q = t
<1>1. Len(p) \in Nat /\ Len(q) \in Nat /\ Len(r) \in Nat /\ Len(t) \in Nat
  OBVIOUS
<1>2. Len(r) \in 0 .. Len(p)
  BY <1>1
<1>3. From(p, Len(r)) \o q = t
  <2>1. From(p \o q, Len(r)) = From(p, Len(r)) \o q
    BY <1>2, FromConcat
  <2>2. From(r \o t, Len(r) + 0) = From(t, 0)
    BY <1>1, FromBehind
  <2>3. Len(r) + 0 = Len(r)
    BY <1>1
  <2> QED
    BY <2>1, <2>2, <2>3, FromNone
<1>4. UpTo(p, Len(r)) = r
  <2>1. /\ UpTo(p, Len(r)) \in Seq(S) /\ Len(UpTo(p, Len(r))) = Len(r)
        /\ \A i \in 1 .. Len(r) : UpTo(p, Len(r))[i] = p[i]
    BY <1>2, UpToSeq
  <2>2. ASSUME NEW i \in 1 .. Len(r)
        PROVE  UpTo(p, Len(r))[i] = r[i]
    <3>1. /\ i <= Len(r) /\ i <= Len(p)
          /\ i \in 1 .. Len(p) + Len(q) /\ i \in 1 .. Len(r) + Len(t)
      BY <1>1
    <3>2. (p \o q)[i] = p[i]
      BY <3>1, ConcatProperties
    <3>3. (r \o t)[i] = r[i]
      BY <3>1, ConcatProperties
    <3> QED
      BY <2>1, <3>2, <3>3
  <2> QED
    BY <2>1, <2>2, SeqEqual
<1> QED
  BY <1>3, <1>4
-----------------------------------------------------------------------------
(* Induction over sets of numbers and of sequences.                        *)

(* The order of the numbers, as a set of pairs.                            *)
LessNat == {p \in Nat \X Nat : p[1] < p[2]}

(* What holds of 0 and of every successor of a number it holds of, holds   *)
(* of every number.                                                        *)
LEMMA EveryNumber ==
  ASSUME NEW S \in SUBSET Nat, 0 \in S, \A n \in S : n + 1 \in S
  PROVE  S = Nat
<1> SUFFICES ASSUME Nat \ S # {} PROVE FALSE
  OBVIOUS
<1>1. IsWellFoundedOn(LessNat, Nat)
  BY NatLessThanWellFounded DEF OpToRel, LessNat
<1> DEFINE T == Nat \ S
<1>2. T \subseteq Nat /\ T # {}
  OBVIOUS
<1> HIDE DEF T
<1>3. PICK n \in T : \A m \in T : ~(<<m, n>> \in LessNat)
  BY <1>1, <1>2, WFMin
<1>4. n \in Nat \ {0} /\ n \notin S
  BY <1>3 DEF T
<1>5. n - 1 \in Nat /\ n - 1 < n /\ n - 1 + 1 = n
  BY <1>4
<1>6. <<n - 1, n>> \in LessNat
  BY <1>4, <1>5 DEF LessNat
<1>7. n - 1 \in S
  BY <1>3, <1>5, <1>6 DEF T
<1> QED
  BY <1>4, <1>5, <1>7

(* What holds of the empty sequence, and with a sequence of it and one     *)
(* element more, holds of every sequence.                                  *)
LEMMA EverySequence ==
  ASSUME NEW S, NEW T \in SUBSET Seq(S), <<>> \in T,
         \A s \in T : \A e \in S : Append(s, e) \in T
  PROVE  T = Seq(S)
<1> DEFINE N == {n \in Nat : \A s \in Seq(S) : Len(s) = n => s \in T}
<1>1. 0 \in N
  <2>1. \A s \in Seq(S) : Len(s) = 0 => s = <<>>
    OBVIOUS
  <2> QED
    BY <2>1
<1>2. ASSUME NEW n \in N PROVE n + 1 \in N
  <2> SUFFICES ASSUME NEW s \in Seq(S), Len(s) = n + 1 PROVE s \in T
    OBVIOUS
  <2>1. n \in Nat /\ s # <<>>
    OBVIOUS
  <2>2. PICK r \in Seq(S), e \in S : s = Append(r, e)
    BY <2>1, SequenceEmptyOrAppend
  <2>3. Len(s) = Len(r) + 1 /\ Len(r) \in Nat
    BY <2>2, AppendProperties, LenProperties
  <2>4. Len(r) = n
    BY <2>1, <2>3
  <2> QED
    BY <2>2, <2>4
<1> HIDE DEF N
<1>3. N \in SUBSET Nat
  BY DEF N
<1>4. N = Nat
  BY <1>1, <1>2, <1>3, EveryNumber
<1> QED
  BY <1>4, LenProperties DEF N

-----------------------------------------------------------------------------
(* FlattenSeq.                                                             *)
Lists == Seq(Seq(Nat))

(* The function FlattenSeq is defined by.                                  *)
Flats(f, s) == f = [i \in 1 .. Len(s) |-> IF i = 1 THEN s[i] ELSE f[i - 1] \o s[i]]

LEMMA FlatsAt ==
  ASSUME NEW s \in Lists, NEW f, Flats(f, s), NEW i \in 1 .. Len(s)
  PROVE  f[i] = IF i = 1 THEN s[i] ELSE f[i - 1] \o s[i]
<1> DEFINE g == [j \in 1 .. Len(s) |-> IF j = 1 THEN s[j] ELSE f[j - 1] \o s[j]]
<1>1. f = g
  BY DEF Flats
<1>2. g[i] = IF i = 1 THEN s[i] ELSE f[i - 1] \o s[i]
  OBVIOUS
<1> HIDE DEF g
<1> QED
  BY <1>1, <1>2

LEMMA FlatsType ==
  ASSUME NEW s \in Lists, NEW f, Flats(f, s)
  PROVE  \A i \in 1 .. Len(s) : f[i] \in Seq(Nat)
<1> DEFINE N == {n \in Nat : n \in 1 .. Len(s) => f[n] \in Seq(Nat)}
<1>0. Len(s) \in Nat
  BY DEF Lists
<1>1. 0 \in N
  OBVIOUS
<1>2. ASSUME NEW n \in N PROVE n + 1 \in N
  <2> SUFFICES ASSUME n + 1 \in 1 .. Len(s) PROVE f[n + 1] \in Seq(Nat)
    OBVIOUS
  <2>1. n \in Nat /\ s[n + 1] \in Seq(Nat)
    BY ElementOfSeq DEF Lists
  <2>2. CASE n = 0
    <3>1. n + 1 = 1
      BY <2>2
    <3>2. f[n + 1] = s[n + 1]
      BY <3>1, FlatsAt
    <3> QED
      BY <2>1, <3>2
  <2>3. CASE n # 0
    <3>1. n + 1 # 1 /\ n + 1 - 1 = n /\ n \in 1 .. Len(s)
      BY <1>0, <2>1, <2>3
    <3>2. f[n + 1] = f[n] \o s[n + 1]
      <4>1. f[n + 1] = IF n + 1 = 1 THEN s[n + 1] ELSE f[n + 1 - 1] \o s[n + 1]
        BY FlatsAt
      <4> QED
        BY <3>1, <4>1, Zenon
    <3>3. f[n] \in Seq(Nat)
      BY <3>1
    <3> QED
      BY <2>1, <3>2, <3>3, ConcatProperties
  <2> QED
    BY <2>2, <2>3
<1> HIDE DEF N
<1>3. N \in SUBSET Nat
  BY DEF N
<1>4. N = Nat
  BY <1>1, <1>2, <1>3, EveryNumber
<1> QED
  BY <1>0, <1>4 DEF N

LEMMA FlatsExist == \A s \in Lists : \E f : Flats(f, s)
<1> DEFINE T == {s \in Lists : \E f : Flats(f, s)}
<1>1. <<>> \in T
  <2>1. <<>> \in Lists
    BY DEF Lists
  <2> DEFINE f == [i \in 1 .. Len(<<>>) |-> <<>>]
  <2>2. Flats(f, <<>>)
    <3>1. 1 .. Len(<<>>) = {}
      OBVIOUS
    <3> QED
      BY <3>1 DEF Flats
  <2> QED
    BY <2>1, <2>2
<1>2. ASSUME NEW s \in T, NEW e \in Seq(Nat) PROVE Append(s, e) \in T
  <2> DEFINE t == Append(s, e)
             n == Len(s)
  <2>1. s \in Seq(Seq(Nat))
    BY DEF Lists
  <2>2. /\ n \in Nat /\ t \in Lists /\ Len(t) = n + 1 /\ t[n + 1] = e
        /\ \A i \in 1 .. n : t[i] = s[i]
    <3>1. n \in Nat
      BY <2>1, LenProperties
    <3> QED
      BY <2>1, <3>1, AppendProperties DEF Lists
  <2>3. PICK f : Flats(f, s)
    OBVIOUS
  <2> HIDE DEF t, n
  <2> DEFINE g == [i \in 1 .. n + 1 |->
                     IF i = n + 1 THEN IF i = 1 THEN e ELSE f[n] \o e ELSE f[i]]
             h == [i \in 1 .. Len(t) |-> IF i = 1 THEN t[i] ELSE g[i - 1] \o t[i]]
  <2>4. ASSUME NEW i \in 1 .. n + 1 PROVE g[i] = h[i]
    <3>1. i \in 1 .. Len(t)
      BY <2>2
    <3>2. h[i] = IF i = 1 THEN t[i] ELSE g[i - 1] \o t[i]
      BY <3>1
    <3>3. CASE i = n + 1
      <4>1. t[i] = e
        BY <2>2, <3>3
      <4>2. CASE i = 1
        BY <3>2, <3>3, <4>1, <4>2
      <4>3. CASE i # 1
        <5>1. i - 1 \in 1 .. n + 1 /\ i - 1 # n + 1 /\ i - 1 = n
          BY <2>2, <3>3, <4>3
        <5>2. g[i - 1] = f[n]
          BY <5>1
        <5>3. g[i] = f[n] \o e
          BY <3>3, <4>3
        <5> HIDE DEF g, h
        <5> QED
          BY <3>2, <4>1, <4>3, <5>2, <5>3
      <4> QED
        BY <4>2, <4>3
    <3>4. CASE i # n + 1
      <4>1. i \in 1 .. Len(s) /\ g[i] = f[i] /\ t[i] = s[i]
        BY <2>2, <3>4 DEF n
      <4>2. f[i] = IF i = 1 THEN s[i] ELSE f[i - 1] \o s[i]
        BY <2>3, <4>1, FlatsAt
      <4>3. CASE i = 1
        <5> HIDE DEF g, h
        <5> QED
          BY <3>2, <4>1, <4>2, <4>3
      <4>4. CASE i # 1
        <5>1. i - 1 \in 1 .. n + 1 /\ i - 1 # n + 1
          BY <2>2, <3>4, <4>4
        <5>2. g[i - 1] = f[i - 1]
          BY <5>1
        <5> HIDE DEF g, h
        <5> QED
          BY <3>2, <4>1, <4>2, <4>4, <5>2
      <4> QED
        BY <4>3, <4>4
    <3> QED
      BY <3>3, <3>4
  <2>5. g = h
    <3>1. DOMAIN g = 1 .. n + 1 /\ DOMAIN h = 1 .. n + 1
      BY <2>2
    <3>2. g = [i \in DOMAIN g |-> g[i]] /\ h = [i \in DOMAIN h |-> h[i]]
      OBVIOUS
    <3> HIDE DEF g, h
    <3> QED
      BY <2>4, <3>1, <3>2
  <2>6. Flats(g, t)
    BY <2>5 DEF Flats
  <2> QED
    BY <2>2, <2>6 DEF t
<1> HIDE DEF T
<1>3. T \in SUBSET Seq(Seq(Nat))
  BY DEF T, Lists
<1>4. T = Seq(Seq(Nat))
  BY <1>1, <1>2, <1>3, EverySequence
<1> QED
  BY <1>4 DEF T, Lists

LEMMA FlatsLast ==
  ASSUME NEW s \in Lists, s # <<>>
  PROVE  \E f : Flats(f, s) /\ FlattenSeq(s) = f[Len(s)]
<1> DEFINE flatten == CHOOSE f : Flats(f, s)
<1>1. Flats(flatten, s)
  BY FlatsExist
<1>2. Len(s) # 0
  BY DEF Lists
<1>3. FlattenSeq(s) = flatten[Len(s)]
  BY <1>2 DEF FlattenSeq, Flats
<1> QED
  BY <1>1, <1>3
LEMMA FlatType ==
  ASSUME NEW s \in Lists
  PROVE  FlattenSeq(s) \in Seq(Nat)
<1>1. CASE s = <<>>
  BY <1>1 DEF FlattenSeq
<1>2. CASE s # <<>>
  <2>1. PICK f : Flats(f, s) /\ FlattenSeq(s) = f[Len(s)]
    BY <1>2, FlatsLast
  <2>2. Len(s) \in 1 .. Len(s)
    BY <1>2 DEF Lists
  <2> QED
    BY <2>1, <2>2, FlatsType
<1> QED
  BY <1>1, <1>2

LEMMA FlatEmpty == FlattenSeq(<<>>) = <<>>
BY DEF FlattenSeq

LEMMA FlatOne ==
  ASSUME NEW e \in Seq(Nat)
  PROVE  FlattenSeq(<<e>>) = e
<1>1. <<e>> \in Lists /\ <<e>> # <<>> /\ Len(<<e>>) = 1 /\ <<e>>[1] = e
  BY DEF Lists
<1>2. PICK f : Flats(f, <<e>>) /\ FlattenSeq(<<e>>) = f[1]
  BY <1>1, FlatsLast
<1>3. f[1] = IF 1 = 1 THEN <<e>>[1] ELSE f[1 - 1] \o <<e>>[1]
  <2>1. 1 \in 1 .. Len(<<e>>)
    BY <1>1
  <2> QED
    BY <1>1, <1>2, <2>1, FlatsAt, Zenon
<1> QED
  BY <1>1, <1>2, <1>3

(* One element more.                                                       *)
LEMMA FlatAppend ==
  ASSUME NEW s \in Lists, NEW e \in Seq(Nat)
  PROVE  FlattenSeq(Append(s, e)) = FlattenSeq(s) \o e
<1> DEFINE t == Append(s, e)
           n == Len(s)
<1>1. s \in Seq(Seq(Nat))
  BY DEF Lists
<1>2. /\ n \in Nat /\ t \in Lists /\ Len(t) = n + 1 /\ t[n + 1] = e /\ t # <<>>
      /\ \A i \in 1 .. n : t[i] = s[i]
  <2>1. n \in Nat
    BY <1>1, LenProperties
  <2> QED
    BY <1>1, <2>1, AppendProperties DEF Lists
<1>3. CASE s = <<>>
  <2>1. t = <<e>>
    BY <1>3
  <2>2. FlattenSeq(t) = e
    BY <2>1, FlatOne
  <2> QED
    BY <1>3, <2>2, FlatEmpty, ConcatEmptySeq
<1>4. CASE s # <<>>
  <2>1. PICK f : Flats(f, s) /\ FlattenSeq(s) = f[n]
    BY <1>4, FlatsLast
  <2> HIDE DEF t
  <2>2. PICK g : Flats(g, t) /\ FlattenSeq(t) = g[n + 1]
    BY <1>2, FlatsLast
  <2> HIDE DEF n
  <2>3. n # 0
    BY <1>1, <1>4 DEF n
  <2> DEFINE N == {m \in Nat : m \in 1 .. n => g[m] = f[m]}
  <2>4. 0 \in N
    OBVIOUS
  <2>5. ASSUME NEW m \in N PROVE m + 1 \in N
    <3> SUFFICES ASSUME m + 1 \in 1 .. n PROVE g[m + 1] = f[m + 1]
      OBVIOUS
    <3>1. m \in Nat /\ m + 1 \in 1 .. Len(s) /\ m + 1 \in 1 .. Len(t) /\ t[m + 1] = s[m + 1]
      BY <1>2 DEF n
    <3>2. f[m + 1] = IF m + 1 = 1 THEN s[m + 1] ELSE f[m + 1 - 1] \o s[m + 1]
      BY <2>1, <3>1, FlatsAt
    <3>3. g[m + 1] = IF m + 1 = 1 THEN t[m + 1] ELSE g[m + 1 - 1] \o t[m + 1]
      BY <1>2, <2>2, <3>1, FlatsAt
    <3>4. CASE m = 0
      <4>1. m + 1 = 1
        BY <3>4
      <4> QED
        BY <3>1, <3>2, <3>3, <4>1, Zenon
    <3>5. CASE m # 0
      <4>1. m + 1 # 1 /\ m + 1 - 1 = m /\ m \in 1 .. n
        BY <1>2, <3>1, <3>5
      <4>2. g[m] = f[m]
        BY <4>1
      <4> QED
        BY <3>1, <3>2, <3>3, <4>1, <4>2, Zenon
    <3> QED
      BY <3>4, <3>5
  <2> HIDE DEF N
  <2>6. N \in SUBSET Nat
    BY DEF N
  <2>7. N = Nat
    BY <2>4, <2>5, <2>6, EveryNumber
  <2>8. n \in 1 .. n
    BY <1>2, <2>3
  <2>9. g[n] = f[n]
    BY <1>2, <2>7, <2>8 DEF N
  <2>10. n + 1 \in 1 .. Len(t) /\ n + 1 # 1 /\ n + 1 - 1 = n
    BY <1>2, <2>3
  <2>11. g[n + 1] = g[n] \o t[n + 1]
    <3>1. \A i \in 1 .. Len(t) : g[i] = IF i = 1 THEN t[i] ELSE g[i - 1] \o t[i]
      BY <1>2, <2>2, FlatsAt
    <3> DEFINE k == n + 1
    <3>2. k \in 1 .. Len(t) /\ k # 1 /\ k - 1 = n
      BY <1>2, <2>10
    <3> HIDE DEF k
    <3>3. g[k] = g[k - 1] \o t[k]
      BY <3>1, <3>2
    <3>4. g[k] = g[n] \o t[k]
      BY <3>2, <3>3, Zenon
    <3> QED
      BY <3>4 DEF k
  <2>12. FlattenSeq(t) = FlattenSeq(s) \o e
    BY <1>2, <2>1, <2>2, <2>9, <2>10, <2>11, Zenon
  <2> QED
    BY <2>12 DEF t
<1> QED
  BY <1>3, <1>4

LEMMA Associative ==
  \A p, q, r \in Seq(Nat) : (p \o q) \o r = p \o (q \o r)
<1> TAKE p, q, r \in Seq(Nat)
<1> QED
  BY ConcatAssociative, SMTT(30)

LEMMA FlatConcat ==
  ASSUME NEW s \in Lists, NEW t \in Lists
  PROVE  FlattenSeq(s \o t) = FlattenSeq(s) \o FlattenSeq(t)
<1> DEFINE T == {r \in Lists : FlattenSeq(s \o r) = FlattenSeq(s) \o FlattenSeq(r)}
<1>0. s \in Seq(Seq(Nat)) /\ FlattenSeq(s) \in Seq(Nat)
  BY FlatType DEF Lists
<1>1. <<>> \in T
  <2>1. s \o <<>> = s /\ FlattenSeq(s) \o <<>> = FlattenSeq(s)
    BY <1>0, ConcatEmptySeq
  <2>2. <<>> \in Lists
    BY DEF Lists
  <2> QED
    BY <2>1, <2>2, FlatEmpty
<1>2. ASSUME NEW r \in T, NEW e \in Seq(Nat) PROVE Append(r, e) \in T
  <2>1. r \in Seq(Seq(Nat)) /\ r \in Lists
    BY DEF Lists
  <2>2. Append(r, e) = r \o <<e>> /\ Append(r, e) \in Lists
    BY <2>1, AppendIsConcat, AppendProperties DEF Lists
  <2>3. <<e>> \in Seq(Seq(Nat)) /\ s \o r \in Seq(Seq(Nat)) /\ s \o r \in Lists
    BY <1>0, <2>1, ConcatProperties DEF Lists
  <2>4. s \o Append(r, e) = Append(s \o r, e)
    <3>1. s \o (r \o <<e>>) = (s \o r) \o <<e>>
      BY <1>0, <2>1, <2>3, ConcatAssociative
    <3>2. Append(s \o r, e) = (s \o r) \o <<e>>
      BY <2>3, AppendIsConcat
    <3> QED
      BY <2>2, <3>1, <3>2
  <2>5. FlattenSeq(s \o Append(r, e)) = FlattenSeq(s \o r) \o e
    BY <2>3, <2>4, FlatAppend
  <2>6. FlattenSeq(Append(r, e)) = FlattenSeq(r) \o e /\ FlattenSeq(r) \in Seq(Nat)
    BY <2>1, FlatAppend, FlatType
  <2>7. FlattenSeq(s \o r) = FlattenSeq(s) \o FlattenSeq(r)
    OBVIOUS
  <2>8. (FlattenSeq(s) \o FlattenSeq(r)) \o e = FlattenSeq(s) \o (FlattenSeq(r) \o e)
    BY <1>0, <2>6, Associative
  <2> QED
    BY <2>2, <2>5, <2>6, <2>7, <2>8
<1> HIDE DEF T
<1>3. T \in SUBSET Seq(Seq(Nat))
  BY DEF T, Lists
<1>4. T = Seq(Seq(Nat))
  BY <1>1, <1>2, <1>3, EverySequence
<1> QED
  BY <1>4 DEF T, Lists
-----------------------------------------------------------------------------
(* The bytes of frames.                                                    *)
Coded(fs) == [i \in 1 .. Len(fs) |-> Encode(fs[i])]

LEMMA EncodeBytes ==
  ASSUME NEW f \in Frame
  PROVE  /\ f.type \in Nat /\ f.connectionId \in Nat /\ f.payload \in Seq(Nat)
         /\ Encode(f) \in Seq(Nat)
         /\ Len(Encode(f)) = HeaderSize + Len(f.payload)
         /\ Encode(f)[1] = f.type /\ Encode(f)[2] = f.connectionId
         /\ Encode(f)[3] = Len(f.payload)
         /\ From(Encode(f), HeaderSize) = f.payload
<1> DEFINE h == <<f.type, f.connectionId, Len(f.payload)>>
<1>1. f.type \in Nat /\ f.connectionId \in Nat /\ f.payload \in Seq(Nat)
  BY DEF Frame
<1>2. /\ h \in Seq(Nat) /\ Len(h) = 3
      /\ h[1] = f.type /\ h[2] = f.connectionId /\ h[3] = Len(f.payload)
  BY <1>1, LenProperties
<1>3. Encode(f) = h \o f.payload
  BY DEF Encode
<1> HIDE DEF h
<1>4. /\ Encode(f) \in Seq(Nat) /\ Len(Encode(f)) = 3 + Len(f.payload)
      /\ \A i \in 1 .. 3 + Len(f.payload) :
           Encode(f)[i] = IF i <= 3 THEN h[i] ELSE f.payload[i - 3]
  <2> DEFINE b == f.payload
             z == h \o b
  <2>1. b \in Seq(Nat) /\ h \in Seq(Nat)
    BY <1>1, <1>2
  <2> HIDE DEF b
  <2>2. /\ z \in Seq(Nat) /\ Len(z) = Len(h) + Len(b)
        /\ \A i \in 1 .. Len(h) + Len(b) : z[i] = IF i <= Len(h) THEN h[i] ELSE b[i - Len(h)]
    BY <2>1, ConcatProperties
  <2> HIDE DEF z
  <2>3. /\ z \in Seq(Nat) /\ Len(z) = 3 + Len(b)
        /\ \A i \in 1 .. 3 + Len(b) : z[i] = IF i <= 3 THEN h[i] ELSE b[i - 3]
    BY <1>2, <2>2
  <2> QED
    BY <1>3, <2>3 DEF z, b
<1>5. Encode(f)[1] = h[1] /\ Encode(f)[2] = h[2] /\ Encode(f)[3] = h[3]
  <2>1. Len(f.payload) \in Nat
    BY <1>1
  <2>2. 1 \in 1 .. 3 + Len(f.payload) /\ 2 \in 1 .. 3 + Len(f.payload)
        /\ 3 \in 1 .. 3 + Len(f.payload)
    BY <2>1
  <2> QED
    BY <1>4, <2>2
<1>6. From(Encode(f), 3) = f.payload
  <2>1. From(h \o f.payload, 3 + 0) = From(f.payload, 0)
    <3> DEFINE b == f.payload
    <3>1. b \in Seq(Nat) /\ 0 \in 0 .. Len(b)
      BY <1>1
    <3> HIDE DEF b
    <3>2. From(h \o b, Len(h) + 0) = From(b, 0)
      BY <1>2, <3>1, FromBehind
    <3> QED
      BY <1>2, <3>2 DEF b
  <2> QED
    BY <1>1, <1>3, <2>1, FromNone
<1> QED
  BY <1>1, <1>2, <1>4, <1>5, <1>6 DEF HeaderSize

LEMMA CodedType ==
  ASSUME NEW fs \in Seq(Frame)
  PROVE  /\ Coded(fs) \in Lists /\ Len(Coded(fs)) = Len(fs)
         /\ \A i \in 1 .. Len(fs) : Coded(fs)[i] = Encode(fs[i])
<1>1. Len(fs) \in Nat
  OBVIOUS
<1>2. \A i \in 1 .. Len(fs) : Encode(fs[i]) \in Seq(Nat)
  BY ElementOfSeq, EncodeBytes
<1>3. Coded(fs) \in [1 .. Len(fs) -> Seq(Nat)]
  BY <1>2 DEF Coded
<1>4. Coded(fs) \in Lists
  BY <1>1, <1>3, SeqDef DEF Lists
<1>5. DOMAIN Coded(fs) = 1 .. Len(fs)
  BY DEF Coded
<1>6. Len(Coded(fs)) = Len(fs)
  BY <1>1, <1>4, <1>5, LenProperties DEF Lists
<1> QED
  BY <1>4, <1>6 DEF Coded

LEMMA CodedConcat ==
  ASSUME NEW p \in Seq(Frame), NEW q \in Seq(Frame)
  PROVE  Coded(p \o q) = Coded(p) \o Coded(q)
<1>1. Len(p) \in Nat /\ Len(q) \in Nat
  OBVIOUS
<1>2. /\ p \o q \in Seq(Frame) /\ Len(p \o q) = Len(p) + Len(q)
      /\ \A i \in 1 .. Len(p) + Len(q) :
           (p \o q)[i] = IF i <= Len(p) THEN p[i] ELSE q[i - Len(p)]
  BY ConcatProperties
<1> DEFINE z == p \o q
           a == Coded(p)
           b == Coded(q)
           c == Coded(z)
<1>3. /\ a \in Seq(Seq(Nat)) /\ Len(a) = Len(p) /\ \A i \in 1 .. Len(p) : a[i] = Encode(p[i])
      /\ b \in Seq(Seq(Nat)) /\ Len(b) = Len(q) /\ \A i \in 1 .. Len(q) : b[i] = Encode(q[i])
  BY CodedType DEF Lists
<1>4. /\ c \in Seq(Seq(Nat)) /\ Len(c) = Len(p) + Len(q)
      /\ \A i \in 1 .. Len(p) + Len(q) : c[i] = Encode(z[i])
  <2>1. /\ c \in Lists /\ Len(c) = Len(z) /\ \A i \in 1 .. Len(z) : c[i] = Encode(z[i])
    BY <1>2, CodedType
  <2> HIDE DEF c, z
  <2>2. Len(z) = Len(p) + Len(q)
    BY <1>2 DEF z
  <2> QED
    BY <2>1, <2>2 DEF Lists
<1> HIDE DEF a, b, c
<1>5. /\ a \o b \in Seq(Seq(Nat)) /\ Len(a \o b) = Len(p) + Len(q)
      /\ \A i \in 1 .. Len(p) + Len(q) :
           (a \o b)[i] = IF i <= Len(p) THEN a[i] ELSE b[i - Len(p)]
  <2>1. /\ a \o b \in Seq(Seq(Nat)) /\ Len(a \o b) = Len(a) + Len(b)
        /\ \A i \in 1 .. Len(a) + Len(b) :
             (a \o b)[i] = IF i <= Len(a) THEN a[i] ELSE b[i - Len(a)]
    <3>1. a \in Seq(Seq(Nat)) /\ b \in Seq(Seq(Nat))
      BY <1>3
    <3> QED
      BY <3>1, ConcatProperties
  <2> QED
    BY <1>3, <2>1
<1>6. ASSUME NEW i \in 1 .. Len(p) + Len(q)
      PROVE  c[i] = (a \o b)[i]
  <2>1. CASE i <= Len(p)
    <3>1. i \in 1 .. Len(p)
      BY <1>1, <2>1
    <3>2. z[i] = p[i] /\ (a \o b)[i] = a[i]
      BY <1>2, <1>5, <2>1
    <3> QED
      BY <1>3, <1>4, <3>1, <3>2
  <2>2. CASE ~(i <= Len(p))
    <3>1. i - Len(p) \in 1 .. Len(q)
      BY <1>1, <2>2
    <3>2. z[i] = q[i - Len(p)] /\ (a \o b)[i] = b[i - Len(p)]
      BY <1>2, <1>5, <2>2
    <3> QED
      BY <1>3, <1>4, <3>1, <3>2
  <2> QED
    BY <2>1, <2>2
<1>7. c = a \o b
  BY <1>4, <1>5, <1>6, SeqEqual
<1> QED
  BY <1>7 DEF a, b, c

LEMMA WireType ==
  ASSUME NEW fs \in Seq(Frame)
  PROVE  Wire(fs) \in Seq(Nat)
BY CodedType, FlatType DEF Wire, Coded

LEMMA WireConcat ==
  ASSUME NEW p \in Seq(Frame), NEW q \in Seq(Frame)
  PROVE  Wire(p \o q) = Wire(p) \o Wire(q)
<1>1. Coded(p) \in Lists /\ Coded(q) \in Lists
  BY CodedType
<1>2. FlattenSeq(Coded(p) \o Coded(q)) = FlattenSeq(Coded(p)) \o FlattenSeq(Coded(q))
  BY <1>1, FlatConcat
<1>3. FlattenSeq(Coded(p \o q)) = FlattenSeq(Coded(p)) \o FlattenSeq(Coded(q))
  BY <1>2, CodedConcat
<1> QED
  BY <1>3 DEF Wire, Coded

LEMMA WireEmpty == Wire(<<>>) = <<>>
<1>1. <<>> \in Seq(Frame)
  OBVIOUS
<1>2. Coded(<<>>) \in Seq(Seq(Nat)) /\ Len(Coded(<<>>)) = 0
  BY <1>1, CodedType DEF Lists
<1>3. Coded(<<>>) = <<>>
  BY <1>2
<1> QED
  BY <1>3, FlatEmpty DEF Wire, Coded

LEMMA WireOne ==
  ASSUME NEW f \in Frame
  PROVE  Wire(<<f>>) = Encode(f)
<1>1. <<f>> \in Seq(Frame) /\ Len(<<f>>) = 1 /\ <<f>>[1] = f
  OBVIOUS
<1>2. /\ Coded(<<f>>) \in Seq(Seq(Nat)) /\ Len(Coded(<<f>>)) = 1
      /\ Coded(<<f>>)[1] = Encode(f)
  <2>1. 1 \in 1 .. Len(<<f>>)
    BY <1>1
  <2> QED
    BY <1>1, <2>1, CodedType, Zenon DEF Lists
<1>3. Encode(f) \in Seq(Nat)
  BY EncodeBytes
<1>4. Coded(<<f>>) = <<Encode(f)>>
  <2> DEFINE c == Coded(<<f>>)
             e == Encode(f)
  <2>1. c \in Seq(Seq(Nat)) /\ Len(c) = 1 /\ c[1] = e /\ e \in Seq(Nat)
    BY <1>2, <1>3
  <2> HIDE DEF c, e
  <2>2. c = <<e>>
    BY <2>1
  <2> QED
    BY <2>2 DEF c, e
<1> QED
  BY <1>3, <1>4, FlatOne DEF Wire, Coded

(* The first frame, and the others.                                        *)
LEMMA WireFirst ==
  ASSUME NEW fs \in Seq(Frame), fs # <<>>
  PROVE  /\ fs[1] \in Frame /\ From(fs, 1) \in Seq(Frame)
         /\ Wire(fs) = Encode(fs[1]) \o Wire(From(fs, 1))
<1>1. Len(fs) \in Nat \ {0} /\ 1 \in 0 .. Len(fs) /\ 1 \in 1 .. Len(fs)
  OBVIOUS
<1>2. fs[1] \in Frame
  BY <1>1, ElementOfSeq
<1>3. From(fs, 1) \in Seq(Frame)
  BY <1>1, FromSeq
<1>4. UpTo(fs, 1) = <<fs[1]>>
  <2> DEFINE u == UpTo(fs, 1)
  <2>1. u \in Seq(Frame) /\ Len(u) = 1 /\ u[1] = fs[1]
    <3> DEFINE k == 1
    <3>1. k \in 1 .. k /\ k \in 0 .. Len(fs)
      BY <1>1
    <3> HIDE DEF k
    <3>2. /\ UpTo(fs, k) \in Seq(Frame) /\ Len(UpTo(fs, k)) = k
          /\ \A i \in 1 .. k : UpTo(fs, k)[i] = fs[i]
      BY <3>1, UpToSeq
    <3>3. UpTo(fs, k)[k] = fs[k]
      BY <3>1, <3>2
    <3> QED
      BY <3>2, <3>3 DEF k
  <2> HIDE DEF u
  <2>2. u = <<fs[1]>>
    BY <2>1
  <2> QED
    BY <2>2 DEF u
<1>5. <<fs[1]>> \in Seq(Frame)
  BY <1>2
<1>6. fs = <<fs[1]>> \o From(fs, 1)
  BY <1>1, <1>4, Split
<1>7. Wire(<<fs[1]>> \o From(fs, 1)) = Wire(<<fs[1]>>) \o Wire(From(fs, 1))
  BY <1>3, <1>5, WireConcat
<1> QED
  BY <1>2, <1>3, <1>6, <1>7, WireOne
-----------------------------------------------------------------------------
(* The chunks of a decoder.                                                *)
States ==
  [chunks : Lists, start : Nat, offset : Nat, total : Nat,
   frames : Seq(Frame), errors : Seq({"limit", "large", "fault"})]

(* The chunks that are not used up.                                        *)
Left(d) == From(d.chunks, d.start)

(* The offset lies inside the first of them.                               *)
Fit(d) ==
  /\ d \in States
  /\ d.start <= Len(d.chunks)
  /\ IF d.start < Len(d.chunks) THEN d.offset < Len(First(d)) ELSE d.offset = 0

LEMMA StateFields ==
  ASSUME NEW d \in States
  PROVE  /\ d.chunks \in Lists /\ d.chunks \in Seq(Seq(Nat)) /\ Len(d.chunks) \in Nat
         /\ d.start \in Nat /\ d.offset \in Nat /\ d.total \in Nat
         /\ d.frames \in Seq(Frame) /\ d.errors \in Seq({"limit", "large", "fault"})
BY DEF States, Lists

LEMMA LeftChunks ==
  ASSUME NEW d, Fit(d)
  PROVE  /\ Left(d) \in Lists /\ Left(d) \in Seq(Seq(Nat))
         /\ Len(Left(d)) \in Nat /\ Len(Left(d)) = Len(d.chunks) - d.start
         /\ \A k \in 1 .. Len(Left(d)) : Left(d)[k] = d.chunks[d.start + k]
         /\ FlattenSeq(Left(d)) \in Seq(Nat) /\ Len(FlattenSeq(Left(d))) \in Nat
<1>1. /\ d.chunks \in Seq(Seq(Nat)) /\ d.start \in 0 .. Len(d.chunks)
      /\ Len(d.chunks) \in Nat
  BY StateFields DEF Fit
<1> DEFINE c == d.chunks
           n == d.start
           q == From(c, n)
<1>2. /\ q \in Seq(Seq(Nat)) /\ Len(q) = Len(c) - n
      /\ \A k \in 1 .. Len(c) - n : q[k] = c[n + k]
  <2>1. c \in Seq(Seq(Nat)) /\ n \in 0 .. Len(c)
    BY <1>1
  <2> HIDE DEF c, n
  <2> QED
    BY <2>1, FromSeq
<1>3. Len(q) \in Nat
  BY <1>1, <1>2
<1>4. FlattenSeq(q) \in Seq(Nat) /\ Len(FlattenSeq(q)) \in Nat
  BY <1>2, FlatType, LenProperties DEF Lists
<1> QED
  BY <1>2, <1>3, <1>4 DEF Left, Lists

LEMMA HeldLeft ==
  ASSUME NEW d
  PROVE  Held(d) = From(FlattenSeq(Left(d)), d.offset)
BY DEF Held, Left, From

(* The chunks up to the k-th, and the ones behind.                         *)
LEMMA Parts ==
  ASSUME NEW d, Fit(d), NEW k \in 0 .. Len(Left(d))
  PROVE  /\ UpTo(Left(d), k) \in Lists /\ From(Left(d), k) \in Lists
         /\ FlattenSeq(UpTo(Left(d), k)) \in Seq(Nat)
         /\ FlattenSeq(From(Left(d), k)) \in Seq(Nat)
         /\ FlattenSeq(Left(d)) =
              FlattenSeq(UpTo(Left(d), k)) \o FlattenSeq(From(Left(d), k))
<1> DEFINE q == Left(d)
<1>1. q \in Seq(Seq(Nat)) /\ k \in 0 .. Len(q)
  BY LeftChunks
<1> HIDE DEF q
<1>2. UpTo(q, k) \in Seq(Seq(Nat)) /\ From(q, k) \in Seq(Seq(Nat))
  BY <1>1, UpToSeq, FromSeq
<1>3. UpTo(q, k) \o From(q, k) = q
  BY <1>1, Split
<1>4. FlattenSeq(q) = FlattenSeq(UpTo(q, k)) \o FlattenSeq(From(q, k))
  BY <1>2, <1>3, FlatConcat DEF Lists
<1>5. FlattenSeq(UpTo(q, k)) \in Seq(Nat) /\ FlattenSeq(From(q, k)) \in Seq(Nat)
  BY <1>2, FlatType DEF Lists
<1> QED
  BY <1>2, <1>4, <1>5 DEF q, Lists

LEMMA WholeParts ==
  ASSUME NEW d, Fit(d), NEW k \in 0 .. Len(Left(d))
  PROVE  /\ Whole(d, k) = Len(FlattenSeq(UpTo(Left(d), k)))
         /\ Whole(d, k) \in Nat
         /\ Len(FlattenSeq(Left(d))) = Whole(d, k) + Len(FlattenSeq(From(Left(d), k)))
<1> DEFINE c == d.chunks
           n == d.start
           q == Left(d)
           a == SubSeq(c, n + 1, n + k)
           b == UpTo(q, k)
<1>1. /\ c \in Seq(Seq(Nat)) /\ Len(c) \in Nat /\ n \in Nat /\ n <= Len(c)
      /\ q \in Seq(Seq(Nat)) /\ Len(q) = Len(c) - n
      /\ \A i \in 1 .. Len(q) : q[i] = c[n + i]
  BY StateFields, LeftChunks DEF Fit
<1>2. k \in Nat /\ k <= Len(q) /\ n + k <= Len(c)
  BY <1>1
<1>3. /\ b \in Seq(Seq(Nat)) /\ Len(b) = k /\ \A i \in 1 .. k : b[i] = q[i]
  <2>1. q \in Seq(Seq(Nat)) /\ k \in 0 .. Len(q)
    BY <1>1
  <2> HIDE DEF q
  <2> QED
    BY <2>1, UpToSeq
<1> HIDE DEF c, n, q, b
<1>4. /\ a \in Seq(Seq(Nat)) /\ Len(a) = k /\ \A i \in 1 .. k : a[i] = c[n + i]
  <2>1. n + 1 \in Int /\ n + k \in Int
    BY <1>1, <1>2
  <2>2. \A i \in n + 1 .. n + k : c[i] \in Seq(Nat)
    <3>1. \A i \in n + 1 .. n + k : i \in 1 .. Len(c)
      BY <1>1, <1>2
    <3> QED
      BY <1>1, <3>1, ElementOfSeq
  <2> DEFINE lo == n + 1
             hi == n + k
  <2>3. lo \in Int /\ hi \in Int /\ \A i \in lo .. hi : c[i] \in Seq(Nat)
    BY <2>1, <2>2
  <2>4. hi - lo + 1 = k /\ (IF lo <= hi THEN hi - lo + 1 ELSE 0) = k
        /\ \A i \in 1 .. k : lo + i - 1 = n + i
    BY <1>1, <1>2
  <2>5. a = SubSeq(c, lo, hi)
    OBVIOUS
  <2> HIDE DEF a, lo, hi
  <2>6. /\ a \in Seq(Seq(Nat))
        /\ Len(a) = IF lo <= hi THEN hi - lo + 1 ELSE 0
        /\ \A i \in 1 .. hi - lo + 1 : a[i] = c[lo + i - 1]
    BY <2>3, <2>5, SubSeqProperties
  <2> QED
    BY <2>4, <2>6
<1> HIDE DEF a
<1>5. ASSUME NEW i \in 1 .. k PROVE a[i] = b[i]
  <2>1. i \in 1 .. Len(q)
    BY <1>1, <1>2
  <2> QED
    BY <1>1, <1>3, <1>4, <2>1
<1>6. a = b
  BY <1>3, <1>4, <1>5, SeqEqual
<1>7. Whole(d, k) = Len(FlattenSeq(b))
  BY <1>6 DEF Whole, a, c, n
<1>8. FlattenSeq(b) \in Seq(Nat)
  BY <1>3, FlatType DEF Lists
<1>9. /\ FlattenSeq(From(q, k)) \in Seq(Nat)
      /\ FlattenSeq(q) = FlattenSeq(b) \o FlattenSeq(From(q, k))
  BY Parts DEF q, b
<1>10. Len(FlattenSeq(q)) = Len(FlattenSeq(b)) + Len(FlattenSeq(From(q, k)))
  BY <1>8, <1>9, ConcatProperties
<1>11. Whole(d, k) \in Nat
  BY <1>7, <1>8, LenProperties
<1> QED
  BY <1>7, <1>10, <1>11 DEF q, b

LEMMA WholeNone ==
  ASSUME NEW d, Fit(d)
  PROVE  Whole(d, 0) = 0
<1>1. 0 \in 0 .. Len(Left(d))
  BY LeftChunks
<1>2. UpTo(Left(d), 0) = <<>>
  BY SubSeqEmpty DEF UpTo
<1>3. Whole(d, 0) = Len(FlattenSeq(<<>>))
  BY <1>1, <1>2, WholeParts
<1> QED
  BY <1>3, FlatEmpty

(* One chunk more.                                                         *)
LEMMA WholeNext ==
  ASSUME NEW d, Fit(d), NEW k \in 0 .. Len(Left(d)) - 1
  PROVE  /\ Left(d)[k + 1] \in Seq(Nat)
         /\ Whole(d, k + 1) = Whole(d, k) + Len(Left(d)[k + 1])
<1> DEFINE q == Left(d)
           a == UpTo(q, k)
           b == UpTo(q, k + 1)
           e == q[k + 1]
<1>1. q \in Seq(Seq(Nat)) /\ Len(q) \in Nat
  BY LeftChunks
<1>2. k \in 0 .. Len(q) /\ k + 1 \in 0 .. Len(q) /\ k + 1 \in 1 .. Len(q) /\ k \in Nat
  BY <1>1
<1>3. Whole(d, k) = Len(FlattenSeq(a)) /\ Whole(d, k + 1) = Len(FlattenSeq(b))
  BY <1>2, WholeParts
<1>4. FlattenSeq(a) \in Seq(Nat) /\ a \in Lists
  BY <1>2, Parts
<1> HIDE DEF q
<1>5. e \in Seq(Nat)
  BY <1>1, <1>2, ElementOfSeq
<1>6. b = Append(a, e)
  <2>1. SubSeq(q, 1, k + 1) = SubSeq(q, 1, k + 1 - 1) \o <<q[k + 1]>>
    <3>1. 1 \in 1 .. Len(q) /\ k + 1 \in 1 .. Len(q)
      BY <1>1, <1>2
    <3> QED
      BY <1>1, <3>1, SubSeqRecursiveSecond
  <2>2. k + 1 - 1 = k
    BY <1>2
  <2>3. a \o <<e>> = Append(a, e)
    <3>1. a \in Seq(Seq(Nat))
      BY <1>4 DEF Lists
    <3> HIDE DEF a, e
    <3> QED
      BY <1>5, <3>1, AppendIsConcat
  <2> QED
    BY <2>1, <2>2, <2>3 DEF UpTo
<1> HIDE DEF a, b, e
<1>7. FlattenSeq(b) = FlattenSeq(a) \o e
  BY <1>4, <1>5, <1>6, FlatAppend
<1>8. Len(FlattenSeq(b)) = Len(FlattenSeq(a)) + Len(e)
  BY <1>4, <1>5, <1>7, ConcatProperties
<1> QED
  BY <1>3, <1>5, <1>8 DEF q, e
LEMMA WholeGrows ==
  ASSUME NEW d, Fit(d), NEW k \in 0 .. Len(Left(d)), k # 0
  PROVE  Whole(d, 1) <= Whole(d, k)
<1> DEFINE m == Len(Left(d))
           N == {n \in Nat : n + 1 <= m => Whole(d, 1) <= Whole(d, n + 1)}
<1>1. m \in Nat
  BY LeftChunks
<1> HIDE DEF m
<1>2. \A j \in 0 .. m : Whole(d, j) \in Nat
  BY WholeParts DEF m
<1>3. 0 \in N
  <2> SUFFICES ASSUME 0 + 1 <= m PROVE Whole(d, 1) <= Whole(d, 0 + 1)
    OBVIOUS
  <2>1. 0 + 1 = 1 /\ 1 \in 0 .. m
    BY <1>1
  <2>2. Whole(d, 1) \in Nat
    BY <1>2, <2>1
  <2>3. Whole(d, 1) <= Whole(d, 1)
    BY <2>2
  <2> QED
    BY <2>1, <2>3, Zenon
<1>4. ASSUME NEW n \in N PROVE n + 1 \in N
  <2> SUFFICES ASSUME n + 1 + 1 <= m PROVE Whole(d, 1) <= Whole(d, n + 1 + 1)
    OBVIOUS
  <2>1. /\ n \in Nat /\ n + 1 <= m /\ n + 1 \in 0 .. m /\ n + 1 + 1 \in 0 .. m /\ 1 \in 0 .. m
        /\ n + 1 \in 0 .. m - 1 /\ n + 1 + 1 \in 1 .. m
    BY <1>1
  <2>2. Whole(d, 1) <= Whole(d, n + 1)
    BY <2>1
  <2>3. /\ Left(d)[n + 1 + 1] \in Seq(Nat)
        /\ Whole(d, n + 1 + 1) = Whole(d, n + 1) + Len(Left(d)[n + 1 + 1])
    BY <2>1, WholeNext DEF m
  <2>4. Len(Left(d)[n + 1 + 1]) \in Nat
    BY <2>3, LenProperties
  <2>5. Whole(d, 1) \in Nat /\ Whole(d, n + 1) \in Nat
    BY <1>2, <2>1
  <2> QED
    BY <2>2, <2>3, <2>4, <2>5
<1> HIDE DEF N
<1>5. N \in SUBSET Nat
  BY DEF N
<1>6. N = Nat
  BY <1>3, <1>4, <1>5, EveryNumber
<1>7. k - 1 \in N /\ k - 1 + 1 = k /\ k <= m
  BY <1>1, <1>6 DEF m
<1> QED
  BY <1>7, Zenon DEF N
(* The first chunk is not used up: the offset lies inside of what is left. *)
LEMMA HeldBytes ==
  ASSUME NEW d, Fit(d)
  PROVE  /\ d.offset \in 0 .. Len(FlattenSeq(Left(d)))
         /\ Held(d) \in Seq(Nat) /\ Len(Held(d)) \in Nat
         /\ Len(Held(d)) = Len(FlattenSeq(Left(d))) - d.offset
         /\ d.start < Len(d.chunks) =>
              Whole(d, 1) = Len(First(d)) /\ 1 \in 0 .. Len(Left(d))
<1> DEFINE all == FlattenSeq(Left(d))
<1>1. /\ d.start \in Nat /\ d.offset \in Nat /\ Len(d.chunks) \in Nat
      /\ d.start <= Len(d.chunks)
  BY StateFields DEF Fit
<1>2. all \in Seq(Nat) /\ Len(all) \in Nat /\ Len(Left(d)) = Len(d.chunks) - d.start
  BY LeftChunks
<1>3. ASSUME d.start < Len(d.chunks)
      PROVE  /\ Whole(d, 1) = Len(First(d)) /\ 1 \in 0 .. Len(Left(d))
             /\ d.offset <= Len(all)
  <2>1. 1 \in 1 .. Len(Left(d)) /\ 0 \in 0 .. Len(Left(d)) - 1 /\ 1 \in 0 .. Len(Left(d))
    BY <1>1, <1>2, <1>3
  <2>2. Left(d)[1] = First(d)
    BY <2>1, LeftChunks DEF First
  <2>3. Whole(d, 1) = Whole(d, 0) + Len(Left(d)[1]) /\ Left(d)[1] \in Seq(Nat)
    <3>1. 0 + 1 = 1
      OBVIOUS
    <3>2. Left(d)[0 + 1] \in Seq(Nat) /\ Whole(d, 0 + 1) = Whole(d, 0) + Len(Left(d)[0 + 1])
      BY <2>1, WholeNext
    <3> QED
      BY <3>1, <3>2, Zenon
  <2>4. Whole(d, 1) = Len(First(d)) /\ Len(First(d)) \in Nat
    <3>1. Len(First(d)) \in Nat
      BY <2>2, <2>3, LenProperties
    <3> QED
      BY <2>2, <2>3, <3>1, WholeNone
  <2>5. Len(all) = Whole(d, 1) + Len(FlattenSeq(From(Left(d), 1)))
    BY <2>1, WholeParts
  <2>6. Len(FlattenSeq(From(Left(d), 1))) \in Nat
    BY <2>1, Parts, LenProperties
  <2>7. d.offset < Len(First(d))
    BY <1>3 DEF Fit
  <2> HIDE DEF all
  <2> QED
    BY <1>1, <2>1, <2>4, <2>5, <2>6, <2>7
<1>4. d.offset \in 0 .. Len(all)
  <2>1. CASE d.start < Len(d.chunks)
    BY <1>1, <1>2, <1>3, <2>1
  <2>2. CASE ~(d.start < Len(d.chunks))
    <3>1. d.offset = 0
      BY <2>2 DEF Fit
    <3> QED
      BY <1>2, <3>1
  <2> QED
    BY <2>1, <2>2
<1> HIDE DEF all
<1>5. From(all, d.offset) \in Seq(Nat) /\ Len(From(all, d.offset)) = Len(all) - d.offset
  BY <1>2, <1>4, FromSeq
<1>6. Held(d) = From(all, d.offset)
  BY HeldLeft DEF all
<1>7. Len(Held(d)) \in Nat
  BY <1>5, <1>6, LenProperties
<1> QED
  BY <1>3, <1>4, <1>5, <1>6, <1>7 DEF all

(* The greatest of some numbers that are not above a bound.                *)
LEMMA MaxOf ==
  ASSUME NEW m \in Nat, NEW S \in SUBSET (0 .. m), S # {}
  PROVE  Max(S) \in S /\ \A x \in S : x <= Max(S)
<1> DEFINE N == {n \in Nat : \A T \in SUBSET (0 .. n) :
                   T # {} => \E x \in T : \A y \in T : x >= y}
<1>1. 0 \in N
  <2>1. 0 .. 0 = {0} /\ 0 >= 0
    OBVIOUS
  <2> QED
    BY <2>1
<1>2. ASSUME NEW n \in N PROVE n + 1 \in N
  <2> SUFFICES ASSUME NEW T \in SUBSET (0 .. n + 1), T # {}
               PROVE  \E x \in T : \A y \in T : x >= y
    OBVIOUS
  <2>1. n \in Nat
    OBVIOUS
  <2>2. CASE n + 1 \in T
    <3>1. \A y \in T : n + 1 >= y
      BY <2>1
    <3> QED
      BY <2>2, <3>1
  <2>3. CASE n + 1 \notin T
    <3>1. T \in SUBSET (0 .. n)
      BY <2>1, <2>3
    <3> QED
      BY <3>1
  <2> QED
    BY <2>2, <2>3
<1> HIDE DEF N
<1>3. N \in SUBSET Nat
  BY DEF N
<1>4. N = Nat
  BY <1>1, <1>2, <1>3, EveryNumber
<1>5. \E x \in S : \A y \in S : x >= y
  BY <1>4 DEF N
<1>6. Max(S) \in S /\ \A y \in S : Max(S) >= y
  BY <1>5, Zenon DEF Max
<1>7. \A x \in S : x \in Int
  OBVIOUS
<1>8. Max(S) \in Int
  BY <1>6, <1>7
<1>9. ASSUME NEW x \in S PROVE x <= Max(S)
  <2>1. Max(S) >= x /\ x \in Int
    BY <1>6, <1>7
  <2> QED
    BY <1>8, <2>1
<1> QED
  BY <1>6, <1>9

(* _consume lets go of the first n bytes.                                  *)
LEMMA Passed ==
  ASSUME NEW d, Fit(d), NEW n \in Nat, n <= Len(Held(d))
  PROVE  /\ Fit(Pass(d, n)) /\ Held(Pass(d, n)) = From(Held(d), n)
         /\ Pass(d, n).chunks = d.chunks /\ Pass(d, n).total = d.total
         /\ Pass(d, n).frames = d.frames /\ Pass(d, n).errors = d.errors
         /\ d.start < Len(d.chunks) /\ Available(d) > n => Pass(d, n).start = d.start
<1> DEFINE p == Pass(d, n)
           q == Left(d)
           all == FlattenSeq(q)
           S == {k \in 0 .. Len(d.chunks) - d.start : Whole(d, k) <= d.offset + n}
           u == UsedUp(d, n)
<1>1. /\ d \in States /\ d.start \in Nat /\ d.offset \in Nat /\ Len(d.chunks) \in Nat
      /\ d.start <= Len(d.chunks) /\ d.chunks \in Seq(Seq(Nat))
  BY StateFields DEF Fit
<1>2. /\ q \in Seq(Seq(Nat)) /\ Len(q) = Len(d.chunks) - d.start /\ Len(q) \in Nat
      /\ all \in Seq(Nat) /\ Len(all) \in Nat
      /\ \A k \in 1 .. Len(q) : q[k] = d.chunks[d.start + k]
  BY LeftChunks
<1>3. /\ d.offset \in 0 .. Len(all) /\ Len(Held(d)) = Len(all) - d.offset
      /\ Held(d) = From(all, d.offset)
  BY HeldBytes, HeldLeft
<1>4. /\ p = [d EXCEPT !.start = @ + u, !.offset = @ + n - Whole(d, u)]
      /\ u = Max(S)
  BY Zenon DEF Pass, UsedUp
<1> HIDE DEF q, all
<1>5. u \in S /\ \A k \in S : k <= u
  <2>1. S \in SUBSET (0 .. Len(q))
    BY <1>2
  <2>2. 0 \in S
    <3>1. Whole(d, 0) = 0
      BY WholeNone
    <3> QED
      BY <1>1, <1>2, <3>1
  <2> HIDE DEF S, u
  <2>3. S # {}
    BY <2>2
  <2> QED
    BY <1>2, <1>4, <2>1, <2>3, MaxOf
<1> HIDE DEF u, p
<1>6. u \in 0 .. Len(q) /\ Whole(d, u) \in Nat /\ Whole(d, u) <= d.offset + n /\ u \in Nat
  <2>1. u \in 0 .. Len(q) /\ Whole(d, u) <= d.offset + n
    BY <1>2, <1>5
  <2> QED
    BY <2>1, WholeParts DEF q
<1>7. d.offset + n <= Len(all)
  BY <1>1, <1>2, <1>3
<1>8. u < Len(q) => Whole(d, u + 1) > d.offset + n /\ Whole(d, u + 1) \in Nat
  <2> SUFFICES ASSUME u < Len(q)
               PROVE  Whole(d, u + 1) > d.offset + n /\ Whole(d, u + 1) \in Nat
    OBVIOUS
  <2>1. u + 1 \in 0 .. Len(q)
    BY <1>2, <1>6
  <2>2. Whole(d, u + 1) \in Nat
    BY <2>1, WholeParts DEF q
  <2>3. u + 1 \notin S
    <3>1. ~(u + 1 <= u)
      BY <1>6
    <3> QED
      BY <1>5, <3>1
  <2>4. ~(Whole(d, u + 1) <= d.offset + n)
    BY <1>2, <2>1, <2>3
  <2> QED
    BY <1>1, <2>2, <2>4
<1>9. /\ p \in States /\ p.chunks = d.chunks /\ p.start = d.start + u
      /\ p.offset = d.offset + n - Whole(d, u) /\ p.offset \in Nat
      /\ p.total = d.total /\ p.frames = d.frames /\ p.errors = d.errors
  <2> DEFINE w == Whole(d, u)
  <2>1. /\ d.start \in Nat /\ d.offset \in Nat /\ u \in Nat /\ n \in Nat
        /\ w \in Nat /\ w <= d.offset + n
    BY <1>1, <1>6
  <2> HIDE DEF w
  <2>2. d.start + u \in Nat /\ d.offset + n - w \in Nat
    BY ONLY <2>1
  <2> QED
    BY <1>1, <1>4, <2>2 DEF States, w
<1>10. Fit(p)
  <2>1. p.start <= Len(p.chunks)
    <3>1. /\ d.start \in Nat /\ Len(d.chunks) \in Nat /\ u \in Nat
          /\ u <= Len(d.chunks) - d.start
      BY <1>1, <1>2, <1>6
    <3>2. d.start + u <= Len(d.chunks)
      BY ONLY <3>1
    <3> QED
      BY <1>9, <3>2
  <2>2. CASE u < Len(q)
    <3>1. u \in 0 .. Len(q) - 1
      BY <1>2, <1>6, <2>2
    <3>2. /\ q[u + 1] \in Seq(Nat)
          /\ Whole(d, u + 1) = Whole(d, u) + Len(q[u + 1])
      BY <3>1, WholeNext DEF q
    <3>3. q[u + 1] = First(p)
      <4>1. u + 1 \in 1 .. Len(q)
        <5>1. u \in Nat /\ Len(q) \in Nat /\ u < Len(q)
          BY <1>2, <1>6, <2>2
        <5> QED
          BY <5>1
      <4>2. d.start + (u + 1) = d.start + u + 1
        <5>1. u \in Nat /\ d.start \in Nat
          BY <1>1, <1>6
        <5> QED
          BY <5>1
      <4>3. q[u + 1] = d.chunks[d.start + (u + 1)]
        BY <1>2, <4>1
      <4>4. First(p) = d.chunks[d.start + u + 1]
        BY <1>9, Zenon DEF First
      <4> QED
        BY <4>2, <4>3, <4>4, Zenon
    <3>4. Len(First(p)) \in Nat
      BY <3>2, <3>3, LenProperties
    <3>5. p.start < Len(p.chunks) /\ p.offset < Len(First(p))
      <4>1. d.start + u < Len(d.chunks)
        <5>1. /\ d.start \in Nat /\ Len(d.chunks) \in Nat /\ u \in Nat
              /\ u < Len(d.chunks) - d.start
          BY <1>1, <1>2, <1>6, <2>2
        <5> QED
          BY ONLY <5>1
      <4>2. Whole(d, u + 1) > d.offset + n
        BY <1>8, <2>2
      <4>3. Whole(d, u + 1) = Whole(d, u) + Len(First(p))
        BY <3>2, <3>3
      <4>4. d.offset + n - Whole(d, u) < Len(First(p))
        BY <1>1, <1>6, <3>4, <4>2, <4>3
      <4> QED
        BY <1>9, <4>1, <4>4, Zenon
    <3> QED
      BY <1>9, <2>1, <3>5 DEF Fit
  <2>3. CASE ~(u < Len(q))
    <3>1. u = Len(q)
      BY <1>2, <1>6, <2>3
    <3>2. Len(all) = Whole(d, u) + Len(FlattenSeq(From(q, u)))
      BY <1>6, WholeParts DEF q, all
    <3>3. From(q, u) = <<>>
      BY <1>2, <3>1, SubSeqEmpty DEF From
    <3>4. Len(FlattenSeq(From(q, u))) = 0
      BY <3>3, FlatEmpty
    <3>5. p.offset = 0 /\ ~(p.start < Len(p.chunks))
      <4> DEFINE w == Whole(d, u)
                 l == Len(all)
                 m == Len(d.chunks)
      <4>1. /\ w \in Nat /\ w <= d.offset + n /\ d.offset + n <= l /\ l = w
            /\ d.offset \in Nat /\ d.start \in Nat /\ m \in Nat /\ u = m - d.start
            /\ n \in Nat
        BY <1>1, <1>2, <1>6, <1>7, <3>1, <3>2, <3>4
      <4> HIDE DEF w, l, m
      <4>2. d.offset + n - w = 0 /\ ~(d.start + u < m)
        BY ONLY <4>1
      <4> QED
        BY <1>9, <4>2 DEF w, m
    <3> QED
      BY <1>9, <2>1, <3>5 DEF Fit
  <2> QED
    BY <2>2, <2>3
<1>11. Held(p) = From(Held(d), n)
  <2>1. Left(p) = From(q, u)
    <3>1. From(From(d.chunks, d.start), u) = From(d.chunks, d.start + u)
      <4>1. d.start + u <= Len(d.chunks)
        <5>1. /\ d.start \in Nat /\ Len(d.chunks) \in Nat /\ u \in Nat
              /\ u <= Len(d.chunks) - d.start
          BY <1>1, <1>2, <1>6
        <5> QED
          BY ONLY <5>1
      <4> QED
        BY <1>1, <1>6, <4>1, FromFrom
    <3> QED
      BY <1>9, <3>1 DEF Left, q
  <2> DEFINE a == FlattenSeq(UpTo(q, u))
             b == FlattenSeq(From(q, u))
  <2>2. a \in Seq(Nat) /\ b \in Seq(Nat) /\ all = a \o b /\ Len(a) = Whole(d, u)
    BY <1>6, Parts, WholeParts DEF q, all
  <2> HIDE DEF a, b
  <2>3. Len(all) = Len(a) + Len(b) /\ Len(b) \in Nat
    BY <2>2, ConcatProperties, LenProperties
  <2>4. From(a \o b, Len(a) + p.offset) = From(b, p.offset)
    <3>1. p.offset \in 0 .. Len(b)
      <4> DEFINE w == Whole(d, u)
                 l == Len(all)
      <4>1. /\ w \in Nat /\ w <= d.offset + n /\ d.offset + n <= l /\ l = w + Len(b)
            /\ Len(b) \in Nat /\ d.offset \in Nat /\ n \in Nat
        BY <1>1, <1>6, <1>7, <2>2, <2>3
      <4> HIDE DEF w, l
      <4>2. d.offset + n - w \in 0 .. Len(b)
        BY ONLY <4>1
      <4> QED
        BY <1>9, <4>2 DEF w
    <3> QED
      BY <2>2, <3>1, FromBehind
  <2>5. Len(a) + p.offset = d.offset + n
    BY <1>1, <1>6, <1>9, <2>2
  <2>6. From(From(all, d.offset), n) = From(all, d.offset + n)
    BY <1>2, <1>3, <1>7, FromFrom
  <2>7. Held(p) = From(FlattenSeq(Left(p)), p.offset)
    BY HeldLeft
  <2> QED
    BY <1>3, <2>1, <2>2, <2>4, <2>5, <2>6, <2>7 DEF b
<1>12. ASSUME d.start < Len(d.chunks), Available(d) > n
       PROVE  p.start = d.start
  <2>1. Whole(d, 1) = Len(First(d)) /\ 1 \in 0 .. Len(q)
    BY <1>12, HeldBytes DEF q
  <2>2. Whole(d, 1) > d.offset + n /\ Whole(d, 1) \in Nat
    <3>1. Whole(d, 1) \in Nat
      BY <2>1, WholeParts DEF q
    <3> QED
      BY <1>1, <1>12, <2>1, <3>1 DEF Available
  <2>3. u = 0
    <3> SUFFICES ASSUME u # 0 PROVE FALSE
      OBVIOUS
    <3>1. Whole(d, 1) <= Whole(d, u)
      BY <1>6, WholeGrows DEF q
    <3> QED
      BY <1>1, <1>6, <2>2, <3>1
  <2> QED
    BY <1>1, <1>9, <2>3
<1> QED
  BY <1>9, <1>10, <1>11, <1>12 DEF p
-----------------------------------------------------------------------------
(* What _consume, _peek and push do to a sound decoder.                    *)
Retained(d) == d.start <= CompactAt \/ d.start * 2 <= Len(d.chunks)

Sound(d) == Fit(d) /\ d.total = Len(Held(d)) /\ Retained(d)

LEMMA Compacted ==
  ASSUME NEW d, Fit(d)
  PROVE  /\ Fit(Compact(d)) /\ Held(Compact(d)) = Held(d) /\ Retained(Compact(d))
         /\ Compact(d).total = d.total
         /\ Compact(d).frames = d.frames /\ Compact(d).errors = d.errors
<1> DEFINE Used == d.start > CompactAt /\ d.start * 2 > Len(d.chunks)
           q == Left(d)
           p == [d EXCEPT !.chunks = SubSeq(@, d.start + 1, Len(@)), !.start = 0]
<1>1. /\ d \in States /\ d.start \in Nat /\ d.offset \in Nat /\ Len(d.chunks) \in Nat
      /\ d.start <= Len(d.chunks)
  BY StateFields DEF Fit
<1>2. CASE ~Used
  <2>1. Compact(d) = d
    BY <1>2 DEF Compact
  <2>2. CompactAt \in Nat
    BY FrameDecoderAssumption
  <2>3. Retained(d)
    BY <1>1, <1>2, <2>2 DEF Retained
  <2> QED
    BY <2>1, <2>3
<1>3. CASE Used
  <2>1. /\ q \in Lists /\ q \in Seq(Seq(Nat)) /\ Len(q) = Len(d.chunks) - d.start
        /\ \A k \in 1 .. Len(q) : q[k] = d.chunks[d.start + k]
    BY LeftChunks
  <2>2. Compact(d) = p /\ SubSeq(d.chunks, d.start + 1, Len(d.chunks)) = q
    BY <1>3 DEF Compact, Left, From
  <2> HIDE DEF q
  <2>3. /\ p \in States /\ p.chunks = q /\ p.start = 0 /\ p.offset = d.offset
        /\ p.total = d.total /\ p.frames = d.frames /\ p.errors = d.errors
    BY <1>1, <2>1, <2>2 DEF States
  <2> HIDE DEF p
  <2>4. Left(p) = q
    BY <2>1, <2>3, FromNone DEF Left
  <2>5. Held(p) = Held(d)
    BY <2>3, <2>4, HeldLeft DEF q
  <2>6. Fit(p)
    <3>1. p.start <= Len(p.chunks)
      BY <1>1, <2>1, <2>3
    <3>2. CASE d.start < Len(d.chunks)
      <4>1. First(p) = First(d)
        <5>1. 1 \in 1 .. Len(q) /\ 0 + 1 = 1
          BY <1>1, <2>1, <3>2
        <5>2. q[1] = d.chunks[d.start + 1]
          BY <2>1, <5>1
        <5> QED
          BY <2>3, <5>1, <5>2 DEF First
      <4>2. p.start < Len(p.chunks)
        BY <1>1, <2>1, <2>3, <3>2
      <4> QED
        BY <2>3, <3>1, <3>2, <4>1, <4>2 DEF Fit
    <3>3. CASE ~(d.start < Len(d.chunks))
      <4>1. ~(p.start < Len(p.chunks))
        BY <1>1, <2>1, <2>3, <3>3
      <4> QED
        BY <2>3, <3>1, <3>3, <4>1 DEF Fit
    <3> QED
      BY <3>2, <3>3
  <2>7. Retained(p)
    BY <2>3, FrameDecoderAssumption DEF Retained
  <2> QED
    BY <2>2, <2>3, <2>5, <2>6, <2>7
<1> QED
  BY <1>2, <1>3

LEMMA Consumed ==
  ASSUME NEW d, Sound(d), NEW n \in 1 .. d.total
  PROVE  /\ Sound(Consume(d, n)) /\ Held(Consume(d, n)) = From(Held(d), n)
         /\ Consume(d, n).total = d.total - n
         /\ Consume(d, n).frames = d.frames /\ Consume(d, n).errors = d.errors
<1> DEFINE p == Pass(d, n)
           c == [p EXCEPT !.total = @ - n]
<1>1. /\ Fit(d) /\ d.total = Len(Held(d)) /\ Retained(d) /\ d \in States
      /\ d.total \in Nat /\ Held(d) \in Seq(Nat)
  BY StateFields, HeldBytes DEF Sound, Fit
<1>2. n \in Nat /\ n <= Len(Held(d)) /\ n # 0 /\ d.total - n \in Nat
  BY <1>1
<1>3. /\ Fit(p) /\ Held(p) = From(Held(d), n)
      /\ p.chunks = d.chunks /\ p.total = d.total
      /\ p.frames = d.frames /\ p.errors = d.errors
      /\ d.start < Len(d.chunks) /\ Available(d) > n => p.start = d.start
  BY <1>1, <1>2, Passed
<1> HIDE DEF p
<1>4. /\ c \in States /\ c.chunks = p.chunks /\ c.start = p.start
      /\ c.offset = p.offset /\ c.total = d.total - n
      /\ c.frames = d.frames /\ c.errors = d.errors
  <2>1. p \in States
    BY <1>3 DEF Fit
  <2> QED
    BY <1>2, <1>3, <2>1 DEF States
<1> HIDE DEF c
<1>5. Fit(c) /\ Held(c) = Held(p)
  BY <1>3, <1>4 DEF Fit, First, Held
<1>6. Len(From(Held(d), n)) = d.total - n
  <2>1. n \in 0 .. Len(Held(d))
    BY <1>1, <1>2
  <2> QED
    BY <1>1, <2>1, FromSeq
<1>7. d.start < Len(d.chunks)
  <2> SUFFICES ASSUME ~(d.start < Len(d.chunks)) PROVE FALSE
    OBVIOUS
  <2>1. /\ d.start \in Nat /\ Len(d.chunks) \in Nat /\ d.start <= Len(d.chunks)
        /\ d.offset = 0
    BY <1>1, StateFields DEF Fit
  <2>2. Left(d) = <<>>
    <3>1. Len(d.chunks) < d.start + 1 /\ d.start + 1 \in Int /\ Len(d.chunks) \in Int
      BY <2>1
    <3> QED
      BY <3>1, SubSeqEmpty DEF Left, From
  <2>3. Len(Held(d)) = 0
    BY <1>1, <2>1, <2>2, HeldBytes, FlatEmpty
  <2> QED
    BY <1>1, <1>2, <2>3
<1>8. CASE Available(d) > n
  <2>1. Consume(d, n) = c
    BY <1>8 DEF Consume, c, p
  <2>2. Retained(c)
    BY <1>1, <1>3, <1>4, <1>7, <1>8 DEF Retained
  <2> QED
    BY <1>3, <1>4, <1>5, <1>6, <2>1, <2>2 DEF Sound
<1>9. CASE ~(Available(d) > n)
  <2>1. Consume(d, n) = Compact(c)
    BY <1>9 DEF Consume, c, p
  <2> QED
    BY <1>3, <1>4, <1>5, <1>6, <2>1, Compacted DEF Sound
<1> QED
  BY <1>8, <1>9

LEMMA Peeked ==
  ASSUME NEW d, Fit(d), NEW n \in Nat, n <= Len(Held(d))
  PROVE  Peek(d, n) = UpTo(Held(d), n) /\ Len(Peek(d, n)) = n
<1>1. Held(d) \in Seq(Nat) /\ Len(Held(d)) \in Nat
  BY HeldBytes
<1> DEFINE l == Len(Held(d))
<1>2. Min({n, l}) = n
  <2>1. l \in Nat /\ n <= l
    BY <1>1
  <2> HIDE DEF l
  <2>2. n \in {n, l} /\ \A y \in {n, l} : n <= y
    BY <2>1
  <2>3. \A x \in {n, l} : (\A y \in {n, l} : x <= y) => x = n
    BY <2>1
  <2> QED
    BY <2>2, <2>3 DEF Min
<1>3. Peek(d, n) = UpTo(Held(d), n)
  BY <1>2 DEF Peek, UpTo
<1>4. n \in 0 .. Len(Held(d))
  BY <1>1
<1> QED
  BY <1>1, <1>3, <1>4, UpToSeq

LEMMA EmptiedSound ==
  ASSUME NEW d \in States
  PROVE  /\ Sound(Emptied(d)) /\ Held(Emptied(d)) = <<>>
         /\ Emptied(d).total = 0 /\ Emptied(d).frames = d.frames
         /\ Emptied(d).errors = d.errors
<1> DEFINE p == Emptied(d)
<1>1. /\ p \in States /\ p.chunks = <<>> /\ p.start = 0 /\ p.offset = 0 /\ p.total = 0
      /\ p.frames = d.frames /\ p.errors = d.errors
  <2> DEFINE none == <<>>
  <2>1. none \in Lists
    BY DEF Lists
  <2>2. p = [d EXCEPT !.chunks = none, !.start = 0, !.offset = 0, !.total = 0]
    BY DEF Emptied
  <2> HIDE DEF none, p
  <2>3. /\ p \in States /\ p.chunks = none /\ p.start = 0 /\ p.offset = 0 /\ p.total = 0
        /\ p.frames = d.frames /\ p.errors = d.errors
    BY <2>1, <2>2 DEF States
  <2> QED
    BY <2>3 DEF none
<1> HIDE DEF p
<1>2. Fit(p)
  BY <1>1 DEF Fit
<1>3. Left(p) = <<>>
  <2>1. <<>> \in Seq(Nat)
    OBVIOUS
  <2>2. From(<<>>, 0) = <<>>
    BY <2>1, FromNone
  <2> QED
    BY <1>1, <2>2 DEF Left
<1>4. Held(p) = <<>>
  <2>1. Held(p) = From(<<>>, 0)
    BY <1>1, <1>3, HeldLeft, FlatEmpty
  <2>2. <<>> \in Seq(Nat)
    OBVIOUS
  <2> QED
    BY <2>1, <2>2, FromNone
<1>5. Retained(p)
  BY <1>1, FrameDecoderAssumption DEF Retained
<1> QED
  BY <1>1, <1>2, <1>4, <1>5 DEF Sound, p

LEMMA FailedSound ==
  ASSUME NEW d \in States, NEW cause \in {"limit", "large", "fault"}
  PROVE  /\ Sound(Failed(d, cause)) /\ Held(Failed(d, cause)) = <<>>
         /\ Failed(d, cause).total = 0 /\ Failed(d, cause).frames = d.frames
         /\ Failed(d, cause).errors = Append(d.errors, cause)
<1> DEFINE e == Emptied(d)
           p == Failed(d, cause)
<1>1. /\ Sound(e) /\ Held(e) = <<>> /\ e.total = 0 /\ e.frames = d.frames
      /\ e.errors = d.errors /\ e \in States
  BY EmptiedSound DEF Sound, Fit
<1> HIDE DEF e
<1>2. d.errors \in Seq({"limit", "large", "fault"})
  BY DEF States
<1>3. Append(d.errors, cause) \in Seq({"limit", "large", "fault"})
  BY <1>2, AppendProperties
<1>4. p = [e EXCEPT !.errors = Append(@, cause)]
  BY DEF Failed, e
<1> HIDE DEF p
<1>5. /\ p \in States /\ p.chunks = e.chunks /\ p.start = e.start
      /\ p.offset = e.offset /\ p.total = 0
      /\ p.frames = d.frames /\ p.errors = Append(d.errors, cause)
  BY <1>1, <1>3, <1>4 DEF States
<1>6. Fit(p) /\ Held(p) = <<>> /\ Retained(p)
  BY <1>1, <1>5 DEF Sound, Fit, First, Held, Retained
<1>7. Len(<<>>) = 0
  OBVIOUS
<1> QED
  BY <1>5, <1>6, <1>7 DEF Sound, p

(* push() puts a chunk behind the others.                                  *)
LEMMA Extended ==
  ASSUME NEW d, Sound(d), NEW chunk \in Seq(Nat), chunk # <<>>
  PROVE  LET p == [d EXCEPT !.chunks = Append(@, chunk), !.total = @ + Len(chunk)]
         IN  /\ Sound(p) /\ Held(p) = Held(d) \o chunk
             /\ p.total = d.total + Len(chunk)
             /\ p.frames = d.frames /\ p.errors = d.errors
<1> DEFINE p == [d EXCEPT !.chunks = Append(@, chunk), !.total = @ + Len(chunk)]
           c == d.chunks
           q == Left(d)
<1>1. /\ Fit(d) /\ d \in States /\ c \in Lists /\ c \in Seq(Seq(Nat)) /\ Len(c) \in Nat
      /\ d.start \in Nat /\ d.offset \in Nat /\ d.total \in Nat
      /\ d.start <= Len(c) /\ d.total = Len(Held(d)) /\ Retained(d)
  BY StateFields DEF Sound, Fit
<1>2. Len(chunk) \in Nat \ {0}
  BY EmptySeq
<1>3. /\ Append(c, chunk) \in Seq(Seq(Nat)) /\ Len(Append(c, chunk)) = Len(c) + 1
      /\ \A i \in 1 .. Len(c) : Append(c, chunk)[i] = c[i]
      /\ Append(c, chunk)[Len(c) + 1] = chunk
  BY <1>1, AppendProperties
<1> HIDE DEF c
<1>4. /\ p \in States /\ p.chunks = Append(c, chunk) /\ p.start = d.start
      /\ p.offset = d.offset /\ p.total = d.total + Len(chunk)
      /\ p.frames = d.frames /\ p.errors = d.errors
  <2>1. Append(c, chunk) \in Lists /\ d.total + Len(chunk) \in Nat
    BY <1>1, <1>2, <1>3 DEF Lists
  <2> QED
    BY <1>1, <2>1 DEF States, c
<1> HIDE DEF p
<1>5. q \in Seq(Seq(Nat)) /\ q \in Lists
  BY <1>1, LeftChunks
<1>6. Left(p) = Append(q, chunk)
  <2>1. Append(c, chunk) = c \o <<chunk>> /\ <<chunk>> \in Seq(Seq(Nat))
    BY <1>1, AppendIsConcat
  <2>2. From(c \o <<chunk>>, d.start) = From(c, d.start) \o <<chunk>>
    <3>1. d.start \in 0 .. Len(c)
      BY <1>1
    <3> QED
      BY <1>1, <2>1, <3>1, FromConcat
  <2>3. Append(q, chunk) = q \o <<chunk>>
    <3> HIDE DEF q
    <3> QED
      BY <1>5, AppendIsConcat
  <2> QED
    BY <1>4, <2>1, <2>2, <2>3 DEF Left, c
<1> HIDE DEF q
<1>7. FlattenSeq(Left(p)) = FlattenSeq(q) \o chunk
  BY <1>5, <1>6, FlatAppend
<1>8. Held(p) = Held(d) \o chunk
  <2>1. FlattenSeq(q) \in Seq(Nat) /\ d.offset \in 0 .. Len(FlattenSeq(q))
        /\ Held(d) = From(FlattenSeq(q), d.offset)
    BY <1>1, <1>5, FlatType, HeldBytes, HeldLeft DEF q
  <2>2. From(FlattenSeq(q) \o chunk, d.offset) = From(FlattenSeq(q), d.offset) \o chunk
    BY <2>1, FromConcat
  <2>3. Held(p) = From(FlattenSeq(Left(p)), p.offset)
    BY HeldLeft
  <2> QED
    BY <1>4, <1>7, <2>1, <2>2, <2>3
<1>9. Len(Held(p)) = p.total
  <2>1. Held(d) \in Seq(Nat)
    BY <1>1, HeldBytes
  <2> QED
    BY <1>1, <1>4, <1>8, <2>1, ConcatProperties
<1>10. Fit(p)
  <2>1. p.start < Len(p.chunks)
    BY <1>1, <1>3, <1>4
  <2>2. p.offset < Len(First(p))
    <3>1. CASE d.start < Len(c)
      <4>1. First(p) = First(d)
        <5>1. d.start + 1 \in 1 .. Len(c)
          BY <1>1, <3>1
        <5> QED
          BY <1>3, <1>4, <5>1 DEF First, c
      <4> QED
        BY <1>1, <1>4, <3>1, <4>1 DEF Fit, c
    <3>2. CASE ~(d.start < Len(c))
      <4>1. d.start = Len(c)
        BY <1>1, <3>2
      <4>2. First(p) = chunk
        BY <1>3, <1>4, <4>1 DEF First
      <4>3. d.offset = 0
        BY <1>1, <3>2 DEF Fit, c
      <4> QED
        BY <1>2, <1>4, <4>2, <4>3
    <3> QED
      BY <3>1, <3>2
  <2>3. p.start <= Len(p.chunks)
    BY <1>1, <1>3, <1>4
  <2> QED
    BY <1>4, <2>1, <2>2, <2>3 DEF Fit
<1>11. Retained(p)
  BY <1>1, <1>3, <1>4 DEF Retained, c
<1>12. Sound(p)
  BY <1>9, <1>10, <1>11 DEF Sound
<1>13. /\ Sound(p) /\ Held(p) = Held(d) \o chunk
       /\ p.total = d.total + Len(chunk)
       /\ p.frames = d.frames /\ p.errors = d.errors
  BY <1>4, <1>8, <1>12
<1> QED
  BY <1>13 DEF p
-----------------------------------------------------------------------------
(* One round of the loop in _processBuffer.                                *)

(* No frame is complete, and the next one is not too large.                *)
Stuck(d) ==
  \/ d.total < HeaderSize
  \/ Held(d)[3] <= MaxFrameSize /\ d.total < HeaderSize + Held(d)[3]

Large(f) == Len(f.payload) > MaxFrameSize

(* A header that has arrived is that of the next frame.                    *)
LEMMA HeaderArrived ==
  ASSUME NEW d, Sound(d), NEW fs \in Seq(Frame), NEW u \in Seq(Nat),
         Held(d) \o u = Wire(fs), d.total >= HeaderSize
  PROVE  /\ fs # <<>> /\ fs[1] \in Frame
         /\ Held(d)[1] = fs[1].type /\ Held(d)[2] = fs[1].connectionId
         /\ Held(d)[3] = Len(fs[1].payload) /\ Len(fs[1].payload) \in Nat
<1> DEFINE h == Held(d)
           f == fs[1]
           e == Encode(f)
           w == Wire(From(fs, 1))
<1>1. h \in Seq(Nat) /\ Len(h) \in Nat /\ Len(h) >= 3 /\ Len(u) \in Nat
  BY HeldBytes DEF Sound, HeaderSize
<1>2. /\ h \o u \in Seq(Nat) /\ Len(h \o u) = Len(h) + Len(u)
      /\ \A i \in 1 .. Len(h) + Len(u) : (h \o u)[i] = IF i <= Len(h) THEN h[i] ELSE u[i - Len(h)]
  <2> HIDE DEF h
  <2> QED
    BY <1>1, ConcatProperties
<1>3. fs # <<>>
  <2> SUFFICES ASSUME fs = <<>> PROVE FALSE
    OBVIOUS
  <2>1. Len(h \o u) = 0
    BY WireEmpty
  <2> HIDE DEF h
  <2> QED
    BY <1>1, <1>2, <2>1
<1>4. f \in Frame /\ From(fs, 1) \in Seq(Frame) /\ h \o u = e \o w
  BY <1>3, WireFirst
<1> HIDE DEF h, f
<1>5. /\ e \in Seq(Nat) /\ Len(e) = 3 + Len(f.payload) /\ Len(f.payload) \in Nat
      /\ e[1] = f.type /\ e[2] = f.connectionId /\ e[3] = Len(f.payload)
  BY <1>4, EncodeBytes, LenProperties DEF HeaderSize
<1>6. w \in Seq(Nat) /\ Len(w) \in Nat
  BY <1>4, WireType, LenProperties
<1> HIDE DEF e, w
<1>7. \A i \in 1 .. Len(e) + Len(w) : (e \o w)[i] = IF i <= Len(e) THEN e[i] ELSE w[i - Len(e)]
  <2>1. e \in Seq(Nat) /\ w \in Seq(Nat)
    BY <1>5, <1>6
  <2> QED
    BY <2>1, ConcatProperties
<1>8. ASSUME NEW i \in 1 .. 3 PROVE h[i] = e[i]
  <2>1. i \in 1 .. Len(h) + Len(u) /\ i <= Len(h)
    BY <1>1
  <2>2. i \in 1 .. Len(e) + Len(w) /\ i <= Len(e)
    <3>1. Len(e) \in Nat /\ 3 <= Len(e) /\ Len(w) \in Nat
      BY <1>5, <1>6
    <3> QED
      BY <3>1
  <2>3. (h \o u)[i] = h[i]
    BY <1>2, <2>1
  <2>4. (e \o w)[i] = e[i]
    BY <1>7, <2>2
  <2> QED
    BY <1>4, <2>3, <2>4
<1>9. h[1] = e[1] /\ h[2] = e[2] /\ h[3] = e[3]
  BY <1>8
<1> QED
  BY <1>3, <1>4, <1>5, <1>9 DEF h, f

(* A whole frame has arrived: its payload, and what is behind it.          *)
LEMMA FrameArrived ==
  ASSUME NEW h \in Seq(Nat), NEW fs \in Seq(Frame), fs # <<>>, NEW u \in Seq(Nat),
         h \o u = Wire(fs), Len(h) >= HeaderSize + Len(fs[1].payload)
  PROVE  LET l == Len(fs[1].payload)
             b == From(h, HeaderSize)
         IN  /\ l \in Nat /\ l <= Len(b) /\ UpTo(b, l) = fs[1].payload
             /\ From(b, l) \in Seq(Nat) /\ Len(From(b, l)) = Len(h) - (HeaderSize + l)
             /\ From(b, l) \o u = Wire(From(fs, 1))
<1> DEFINE f == fs[1]
           x == f.payload
           l == Len(x)
           e == Encode(f)
           w == Wire(From(fs, 1))
           b == From(h, 3)
           y == From(h, 3 + l)
<1>1. f \in Frame /\ From(fs, 1) \in Seq(Frame) /\ h \o u = e \o w
  BY WireFirst
<1> HIDE DEF f
<1>2. /\ x \in Seq(Nat) /\ l \in Nat
      /\ e \in Seq(Nat) /\ Len(e) = 3 + l /\ From(e, 3) = x
  BY <1>1, EncodeBytes, LenProperties DEF HeaderSize
<1>3. w \in Seq(Nat)
  BY <1>1, WireType
<1> HIDE DEF x, e, w
<1>4. Len(h) \in Nat /\ Len(h) >= 3 + l
  BY LenProperties DEF HeaderSize, f, x
<1> HIDE DEF l
<1>5. 3 \in 0 .. Len(h) /\ 3 + l \in 0 .. Len(h) /\ 3 \in 0 .. Len(e)
  BY <1>2, <1>4
<1>6. UpTo(h, 3 + l) = e /\ y \o u = w
  <2>1. Len(e) <= Len(h)
    BY <1>2, <1>4
  <2>2. UpTo(h, Len(e)) = e /\ From(h, Len(e)) \o u = w
    BY <1>1, <1>2, <1>3, <2>1, Cut
  <2> QED
    BY <1>2, <2>2
<1>7. y \in Seq(Nat) /\ Len(y) = Len(h) - (3 + l)
  BY <1>5, FromSeq
<1>8. b \in Seq(Nat) /\ Len(b) = Len(h) - 3
  BY <1>5, FromSeq
<1>9. b = x \o y
  <2>1. h = e \o y
    BY <1>5, <1>6, Split
  <2> HIDE DEF y
  <2>2. From(e \o y, 3) = From(e, 3) \o y
    BY <1>2, <1>5, <1>7, FromConcat
  <2> QED
    BY <1>2, <2>1, <2>2
<1>10. l <= Len(b)
  BY <1>2, <1>4, <1>8
<1> HIDE DEF b, y
<1>11. UpTo(b, l) = x /\ From(b, l) = y
  <2>1. From(b, Len(x)) \o <<>> = y /\ UpTo(b, Len(x)) = x
    <3> DEFINE none == <<>>
    <3>1. b \o none = x \o y
      BY <1>8, <1>9, ConcatEmptySeq
    <3>2. none \in Seq(Nat) /\ b \in Seq(Nat) /\ x \in Seq(Nat) /\ y \in Seq(Nat)
      BY <1>2, <1>7, <1>8
    <3>3. Len(x) <= Len(b)
      BY <1>10 DEF l
    <3> HIDE DEF none
    <3>4. UpTo(b, Len(x)) = x /\ From(b, Len(x)) \o none = y
      BY <3>1, <3>2, <3>3, Cut
    <3> QED
      BY <3>4 DEF none
  <2>2. From(b, Len(x)) \in Seq(Nat)
    <3>1. Len(x) \in 0 .. Len(b)
      BY <1>2, <1>8, <1>10, LenProperties DEF l
    <3> QED
      BY <1>8, <3>1, FromSeq
  <2>3. From(b, Len(x)) \o <<>> = From(b, Len(x))
    BY <2>2, ConcatEmptySeq
  <2> QED
    BY <2>1, <2>3 DEF l
<1> QED
  BY <1>2, <1>6, <1>7, <1>10, <1>11 DEF HeaderSize, f, x, l, w, b

(* The first frame taken out, or too large, or not complete.               *)
Took(d, fs, u, r) ==
  /\ fs # <<>> /\ ~Large(fs[1])
  /\ Sound(r) /\ Held(r) \o u = Wire(From(fs, 1))
  /\ r.total + HeaderSize <= d.total
  /\ r.frames = Append(d.frames, fs[1]) /\ r.errors = d.errors

LEMMA RoundOf ==
  ASSUME NEW d, Sound(d), NEW fs \in Seq(Frame), NEW u \in Seq(Nat),
         Held(d) \o u = Wire(fs)
  PROVE  \/ Round(d) = d /\ Stuck(d)
         \/ /\ fs # <<>> /\ Large(fs[1]) /\ d.total >= HeaderSize
            /\ Round(d) = Failed(d, "large")
         \/ Took(d, fs, u, Round(d))
<1> DEFINE header  == Peek(d, HeaderSize)
           length  == header[3]
           body    == Consume(d, HeaderSize)
           payload == Peek(body, length)
           after   == IF length > 0 THEN Consume(body, length) ELSE body
           frame   == [type |-> header[1], connectionId |-> header[2], payload |-> payload]
           f == fs[1]
           l == Len(f.payload)
           h == Held(d)
<1>1. /\ Fit(d) /\ d \in States /\ h \in Seq(Nat) /\ Len(h) \in Nat
      /\ d.total = Len(h) /\ d.frames \in Seq(Frame)
  BY HeldBytes, StateFields DEF Sound, Fit
<1>2. CASE d.total < HeaderSize
  <2>1. Round(d) = d
    BY <1>2 DEF Round
  <2> QED
    BY <1>2, <2>1 DEF Stuck
<1>3. CASE ~(d.total < HeaderSize)
  <2>1. d.total >= HeaderSize
    BY <1>1, <1>3 DEF HeaderSize
  <2>2. /\ fs # <<>> /\ f \in Frame
        /\ h[1] = f.type /\ h[2] = f.connectionId /\ h[3] = l /\ l \in Nat
    BY <2>1, HeaderArrived
  <2>3. /\ Len(header) = HeaderSize
        /\ header[1] = f.type /\ header[2] = f.connectionId /\ length = l
    <3>1. 3 \in Nat /\ 3 <= Len(h) /\ 3 \in 0 .. Len(h)
      BY <1>1, <2>1 DEF HeaderSize
    <3>2. Peek(d, 3) = UpTo(h, 3) /\ Len(Peek(d, 3)) = 3
      BY <1>1, <3>1, Peeked
    <3> HIDE DEF h
    <3>3. \A i \in 1 .. 3 : UpTo(h, 3)[i] = h[i]
      BY <1>1, <3>1, UpToSeq
    <3>4. UpTo(h, 3)[1] = h[1] /\ UpTo(h, 3)[2] = h[2] /\ UpTo(h, 3)[3] = h[3]
      BY <3>3
    <3> QED
      BY <2>2, <3>2, <3>4 DEF HeaderSize
  <2> HIDE DEF header, l
  <2>4. CASE length > MaxFrameSize
    <3>1. Round(d) = Failed(d, "large")
      <4>1. ~(Len(header) < HeaderSize)
        BY <2>3 DEF HeaderSize
      <4> QED
        BY <1>3, <2>4, <4>1, Zenon DEF Round, header
    <3>2. Large(f)
      BY <2>3, <2>4 DEF Large, l
    <3> QED
      BY <2>1, <2>2, <3>1, <3>2
  <2>5. CASE ~(length > MaxFrameSize) /\ d.total < HeaderSize + length
    <3>1. Round(d) = d
      <4>1. ~(Len(header) < HeaderSize)
        BY <2>3 DEF HeaderSize
      <4> QED
        BY <1>3, <2>5, <4>1, Zenon DEF Round, header
    <3>2. Stuck(d)
      <4>1. MaxFrameSize \in Nat
        BY FrameDecoderAssumption
      <4>2. h[3] <= MaxFrameSize /\ d.total < HeaderSize + h[3]
        BY <2>2, <2>3, <2>5, <4>1
      <4> QED
        BY <4>2 DEF Stuck
    <3> QED
      BY <3>1, <3>2
  <2>6. CASE ~(length > MaxFrameSize) /\ ~(d.total < HeaderSize + length)
    <3>1. Len(h) >= HeaderSize + l
      BY <1>1, <2>2, <2>3, <2>6 DEF HeaderSize
    <3> DEFINE b == From(h, HeaderSize)
               y == From(b, l)
    <3>2. /\ l <= Len(b) /\ UpTo(b, l) = f.payload
          /\ y \in Seq(Nat) /\ Len(y) = Len(h) - (HeaderSize + l)
          /\ y \o u = Wire(From(fs, 1))
      <4> HIDE DEF h
      <4>1. h \o u = Wire(fs)
        BY DEF h
      <4>2. Len(h) >= HeaderSize + Len(fs[1].payload)
        BY <3>1 DEF l
      <4> QED
        BY <1>1, <2>2, <4>1, <4>2, FrameArrived DEF l
    <3>3. /\ Sound(body) /\ Held(body) = b /\ body.total = d.total - HeaderSize
          /\ body.frames = d.frames /\ body.errors = d.errors
      <4>1. HeaderSize \in 1 .. d.total
        BY <1>1, <2>1 DEF HeaderSize
      <4> QED
        BY <4>1, Consumed
    <3> HIDE DEF body, h
    <3>4. payload = f.payload /\ Len(payload) = l
      <4>1. Fit(body) /\ l <= Len(Held(body))
        BY <3>2, <3>3 DEF Sound
      <4>2. Peek(body, l) = UpTo(Held(body), l)
        BY <2>2, <4>1, Peeked
      <4> QED
        BY <2>3, <3>2, <3>3, <4>2 DEF l
    <3> HIDE DEF payload
    <3>5. frame = f
      <4>1. frame = [type |-> f.type, connectionId |-> f.connectionId, payload |-> f.payload]
        BY <2>3, <3>4
      <4> QED
        BY <2>2, <4>1 DEF Frame
    <3> HIDE DEF frame
    <3>6. /\ Sound(after) /\ Held(after) = y /\ after.total = d.total - (HeaderSize + l)
          /\ after.frames = d.frames /\ after.errors = d.errors
      <4>1. CASE l = 0
        <5>1. after = body
          BY <2>3, <4>1
        <5>2. b \in Seq(Nat)
          <6>1. HeaderSize \in 0 .. Len(h)
            BY <1>1, <2>1 DEF HeaderSize
          <6> QED
            BY <1>1, <6>1, FromSeq
        <5>3. y = b
          BY <4>1, <5>2, FromNone
        <5> QED
          BY <1>1, <3>3, <4>1, <5>1, <5>3 DEF HeaderSize
      <4>2. CASE l # 0
        <5>1. after = Consume(body, l)
          BY <2>2, <2>3, <4>2
        <5>2. l \in 1 .. body.total
          <6>1. body.total = Len(h) - 3 /\ l \in Nat /\ Len(h) \in Nat /\ Len(h) >= 3 + l
            BY <1>1, <2>2, <3>1, <3>3 DEF HeaderSize
          <6> QED
            BY <4>2, <6>1
        <5>3. body.total - l = d.total - (HeaderSize + l)
          BY <1>1, <2>2, <3>3 DEF HeaderSize
        <5> QED
          BY <3>3, <5>1, <5>2, <5>3, Consumed
      <4> QED
        BY <4>1, <4>2
    <3> HIDE DEF after, y
    <3> DEFINE r == [after EXCEPT !.frames = Append(@, frame)]
    <3>7. Round(d) = r
      <4>1. ~(Len(header) < HeaderSize) /\ ~(Len(payload) < length)
        BY <2>2, <2>3, <3>4 DEF HeaderSize
      <4> QED
        BY <1>3, <2>6, <4>1, Zenon DEF Round, header, body, payload, after, frame
    <3>8. /\ r \in States /\ r.chunks = after.chunks /\ r.start = after.start
          /\ r.offset = after.offset /\ r.total = after.total
          /\ r.frames = Append(d.frames, f) /\ r.errors = d.errors
      <4>1. after \in States
        BY <3>6 DEF Sound, Fit
      <4>2. Append(d.frames, f) \in Seq(Frame)
        BY <1>1, <2>2, AppendProperties
      <4> QED
        BY <3>5, <3>6, <4>1, <4>2 DEF States
    <3> HIDE DEF r
    <3>9. Sound(r) /\ Held(r) = y
      BY <3>6, <3>8 DEF Sound, Fit, First, Held, Retained
    <3>10. r.total + HeaderSize <= d.total
      BY <1>1, <2>2, <3>6, <3>8 DEF HeaderSize
    <3>11. ~Large(f)
      BY <2>2, <2>3, <2>6 DEF Large, l
    <3>12. Took(d, fs, u, r)
      BY <2>2, <3>2, <3>8, <3>9, <3>10, <3>11 DEF Took
    <3> QED
      BY <3>7, <3>12
  <2> QED
    BY <2>4, <2>5, <2>6
<1> QED
  BY <1>2, <1>3
(* A round changes nothing when no frame is complete.                      *)
LEMMA StuckStays ==
  ASSUME NEW d, Sound(d), Stuck(d)
  PROVE  Round(d) = d
<1> DEFINE header == Peek(d, HeaderSize)
<1>1. /\ Fit(d) /\ Held(d) \in Seq(Nat) /\ Len(Held(d)) \in Nat
      /\ d.total = Len(Held(d))
  BY HeldBytes DEF Sound
<1>2. CASE d.total < HeaderSize
  BY <1>2 DEF Round
<1>3. CASE ~(d.total < HeaderSize)
  <2>1. 3 <= Len(Held(d)) /\ 3 \in 0 .. Len(Held(d)) /\ 3 \in Nat
    BY <1>1, <1>3 DEF HeaderSize
  <2>2. header = UpTo(Held(d), 3) /\ Len(header) = 3
    BY <1>1, <2>1, Peeked DEF HeaderSize
  <2>3. header[3] = Held(d)[3] /\ Held(d)[3] \in Nat
    <3>1. \A i \in 1 .. 3 : UpTo(Held(d), 3)[i] = Held(d)[i]
      BY <1>1, <2>1, UpToSeq
    <3>2. 3 \in 1 .. 3 /\ 3 \in 1 .. Len(Held(d))
      BY <1>1, <2>1
    <3> QED
      BY <1>1, <2>2, <3>1, <3>2, ElementOfSeq
  <2> HIDE DEF header
  <2>4. Held(d)[3] <= MaxFrameSize /\ d.total < HeaderSize + Held(d)[3]
    BY <1>3 DEF Stuck
  <2>5. ~(header[3] > MaxFrameSize) /\ ~(Len(header) < HeaderSize)
    BY <2>2, <2>3, <2>4, FrameDecoderAssumption DEF HeaderSize
  <2> QED
    BY <1>3, <2>3, <2>4, <2>5, Zenon DEF Round, header
<1> QED
  BY <1>2, <1>3
-----------------------------------------------------------------------------
(* The loop in _processBuffer.                                             *)

(* A state x of the loop that began with d, when the frames fs were        *)
(* expected: n of them have been taken out, and the next one may have been *)
(* refused.                                                                *)
Reached(x, d, fs, u, n) ==
  /\ n \in 0 .. Len(fs)
  /\ \A j \in 1 .. n : ~Large(fs[j])
  /\ Sound(x) /\ x.total <= d.total
  /\ x.frames = d.frames \o UpTo(fs, n)
  /\ \/ x.errors = d.errors /\ Held(x) \o u = Wire(From(fs, n))
     \/ /\ x.errors = Append(d.errors, "large") /\ x.total = 0
        /\ n < Len(fs) /\ Large(fs[n + 1])
        /\ Len(Wire(From(fs, n))) >= Len(u) + HeaderSize

LEMMA OneMore ==
  ASSUME NEW fs \in Seq(Frame), NEW n \in 0 .. Len(fs), From(fs, n) # <<>>
  PROVE  /\ n + 1 \in 0 .. Len(fs) /\ n + 1 \in 1 .. Len(fs) /\ n < Len(fs)
         /\ From(fs, n)[1] = fs[n + 1] /\ fs[n + 1] \in Frame
         /\ From(From(fs, n), 1) = From(fs, n + 1)
         /\ UpTo(fs, n + 1) = Append(UpTo(fs, n), fs[n + 1])
<1>1. Len(fs) \in Nat /\ n \in Nat /\ n <= Len(fs)
  OBVIOUS
<1>2. /\ From(fs, n) \in Seq(Frame) /\ Len(From(fs, n)) = Len(fs) - n
      /\ \A i \in 1 .. Len(fs) - n : From(fs, n)[i] = fs[n + i]
  BY FromSeq
<1>3. Len(From(fs, n)) \in Nat \ {0}
  BY <1>2, EmptySeq
<1>4. n < Len(fs) /\ n + 1 \in 0 .. Len(fs) /\ n + 1 \in 1 .. Len(fs) /\ 1 \in 1 .. Len(fs) - n
  BY <1>1, <1>2, <1>3
<1>5. From(fs, n)[1] = fs[n + 1] /\ fs[n + 1] \in Frame
  BY <1>2, <1>4, ElementOfSeq
<1>6. From(From(fs, n), 1) = From(fs, n + 1)
  <2>1. n + 1 <= Len(fs) /\ 1 \in Nat
    BY <1>4
  <2> QED
    BY <1>1, <2>1, FromFrom
<1>7. UpTo(fs, n + 1) = Append(UpTo(fs, n), fs[n + 1])
  <2>1. SubSeq(fs, 1, n + 1) = SubSeq(fs, 1, n + 1 - 1) \o <<fs[n + 1]>>
    <3>1. 1 \in 1 .. Len(fs) /\ n + 1 \in 1 .. Len(fs)
      BY <1>1, <1>4
    <3> QED
      BY <3>1, SubSeqRecursiveSecond
  <2>2. n + 1 - 1 = n
    BY <1>1
  <2>3. UpTo(fs, n) \in Seq(Frame)
    BY UpToSeq
  <2>4. Append(UpTo(fs, n), fs[n + 1]) = UpTo(fs, n) \o <<fs[n + 1]>>
    <3> DEFINE a == UpTo(fs, n)
               e == fs[n + 1]
    <3>1. a \in Seq(Frame) /\ e \in Frame
      BY <1>5, <2>3
    <3> HIDE DEF a, e
    <3>2. Append(a, e) = a \o <<e>>
      BY <3>1, AppendIsConcat
    <3> QED
      BY <3>2 DEF a, e
  <2> QED
    BY <2>1, <2>2, <2>4 DEF UpTo
<1> QED
  BY <1>4, <1>5, <1>6, <1>7

LEMMA ReachedStep ==
  ASSUME NEW d \in States, NEW fs \in Seq(Frame), NEW u \in Seq(Nat),
         NEW x, NEW n, Reached(x, d, fs, u, n)
  PROVE  /\ \E m : Reached(Round(x), d, fs, u, m)
         /\ \/ Round(x) = x /\ Stuck(x)
            \/ Stuck(Round(x))
            \/ Round(x).total + HeaderSize <= x.total
<1>1. /\ n \in 0 .. Len(fs) /\ n \in Nat /\ Len(fs) \in Nat
      /\ \A j \in 1 .. n : ~Large(fs[j])
      /\ Sound(x) /\ x.total <= d.total /\ x.frames = d.frames \o UpTo(fs, n)
  BY DEF Reached
<1>2. /\ x \in States /\ x.total \in Nat /\ d.total \in Nat
      /\ d.frames \in Seq(Frame)
  BY <1>1, StateFields DEF Sound, Fit
<1>3. CASE x.errors = Append(d.errors, "large") /\ x.total = 0
  <2>1. x.total < HeaderSize
    BY <1>3 DEF HeaderSize
  <2>2. Round(x) = x
    BY <2>1 DEF Round
  <2> QED
    BY <2>1, <2>2 DEF Stuck
<1>4. CASE x.errors = d.errors /\ Held(x) \o u = Wire(From(fs, n))
  <2> DEFINE gs == From(fs, n)
             r == Round(x)
  <2>1. gs \in Seq(Frame)
    BY <1>1, FromSeq
  <2>2. \/ r = x /\ Stuck(x)
        \/ gs # <<>> /\ Large(gs[1]) /\ x.total >= HeaderSize /\ r = Failed(x, "large")
        \/ Took(x, gs, u, r)
    BY <1>1, <1>4, <2>1, RoundOf
  <2>3. CASE r = x /\ Stuck(x)
    BY <2>3
  <2>4. CASE gs # <<>> /\ Large(gs[1]) /\ x.total >= HeaderSize /\ r = Failed(x, "large")
    <3>1. n < Len(fs) /\ gs[1] = fs[n + 1]
      BY <1>1, <2>4, OneMore
    <3>2. /\ Sound(r) /\ r.total = 0 /\ r.frames = x.frames
          /\ r.errors = Append(x.errors, "large")
      BY <1>2, <2>4, FailedSound
    <3>3. r.total <= d.total
      BY <1>2, <3>2
    <3> HIDE DEF r
    <3>4. Len(Wire(From(fs, n))) >= Len(u) + HeaderSize
      <4>1. Held(x) \in Seq(Nat) /\ x.total = Len(Held(x)) /\ Len(u) \in Nat
        BY <1>1, HeldBytes DEF Sound
      <4>2. Len(Held(x) \o u) = x.total + Len(u)
        BY <4>1, ConcatProperties
      <4> QED
        BY <1>2, <1>4, <2>4, <4>1, <4>2 DEF HeaderSize
    <3>5. Reached(r, d, fs, u, n)
      BY <1>1, <1>4, <2>4, <3>1, <3>2, <3>3, <3>4 DEF Reached
    <3>6. Stuck(r)
      BY <3>2 DEF Stuck, HeaderSize
    <3> QED
      BY <3>5, <3>6 DEF r
  <2>5. CASE Took(x, gs, u, r)
    <3>1. /\ gs # <<>> /\ ~Large(gs[1]) /\ Sound(r) /\ Held(r) \o u = Wire(From(gs, 1))
          /\ r.total + HeaderSize <= x.total
          /\ r.frames = Append(x.frames, gs[1]) /\ r.errors = x.errors
      BY <2>5 DEF Took
    <3>2. /\ n + 1 \in 0 .. Len(fs) /\ gs[1] = fs[n + 1] /\ fs[n + 1] \in Frame
          /\ From(gs, 1) = From(fs, n + 1)
          /\ UpTo(fs, n + 1) = Append(UpTo(fs, n), fs[n + 1])
      BY <1>1, <3>1, OneMore
    <3> HIDE DEF gs, r
    <3>3. r.frames = d.frames \o UpTo(fs, n + 1)
      <4> DEFINE a == d.frames
                 b == UpTo(fs, n)
                 e == fs[n + 1]
      <4>1. a \in Seq(Frame) /\ b \in Seq(Frame) /\ e \in Frame
        BY <1>1, <1>2, <3>2, UpToSeq
      <4> HIDE DEF a, b, e
      <4>2. /\ <<e>> \in Seq(Frame) /\ a \o b \in Seq(Frame)
            /\ Append(b, e) = b \o <<e>> /\ Append(a \o b, e) = (a \o b) \o <<e>>
        <5>1. <<e>> \in Seq(Frame)
          BY <4>1
        <5>2. a \o b \in Seq(Frame)
          BY <4>1, ConcatProperties
        <5> QED
          BY <4>1, <5>1, <5>2, AppendIsConcat
      <4>3. Append(a \o b, e) = a \o Append(b, e)
        <5> DEFINE one == <<e>>
        <5>1. one \in Seq(Frame)
          BY <4>2
        <5> HIDE DEF one
        <5>2. (a \o b) \o one = a \o (b \o one)
          BY ONLY <4>1, <5>1, ConcatAssociative, SMTT(30)
        <5> QED
          BY <4>2, <5>2 DEF one
      <4> QED
        BY <1>1, <3>1, <3>2, <4>3 DEF a, b, e
    <3>4. r.total \in Nat /\ r.total <= d.total
      <4>1. r.total \in Nat
        BY <3>1, StateFields DEF Sound, Fit
      <4>2. x.total <= d.total /\ r.total + 3 <= x.total
        BY <1>1, <3>1 DEF HeaderSize
      <4> QED
        BY ONLY <1>2, <4>1, <4>2
    <3>5. \A j \in 1 .. n + 1 : ~Large(fs[j])
      <4>1. \A j \in 1 .. n + 1 : j \in 1 .. n \/ j = n + 1
        BY <1>1
      <4> QED
        BY <1>1, <3>1, <3>2, <4>1
    <3>6. Reached(r, d, fs, u, n + 1)
      BY <1>4, <3>1, <3>2, <3>3, <3>4, <3>5 DEF Reached
    <3> QED
      BY <3>1, <3>6 DEF r
  <2> QED
    BY <2>2, <2>3, <2>4, <2>5
<1> QED
  BY <1>3, <1>4 DEF Reached

(* The function ProcessBuffer is defined by.                               *)
Rounds(f, d, m) == f = [i \in 0 .. m |-> IF i = 0 THEN d ELSE Round(f[i - 1])]

LEMMA RoundsAt ==
  ASSUME NEW d, NEW m \in Nat, NEW f, Rounds(f, d, m)
  PROVE  /\ f[0] = d
         /\ \A i \in 0 .. m - 1 : f[i + 1] = Round(f[i])
<1> DEFINE g == [i \in 0 .. m |-> IF i = 0 THEN d ELSE Round(f[i - 1])]
<1>1. f = g
  BY DEF Rounds
<1>2. \A i \in 0 .. m : g[i] = IF i = 0 THEN d ELSE Round(f[i - 1])
  OBVIOUS
<1> HIDE DEF g
<1>3. \A i \in 0 .. m - 1 : i + 1 \in 0 .. m /\ i + 1 # 0 /\ i + 1 - 1 = i
  OBVIOUS
<1>4. 0 \in 0 .. m
  OBVIOUS
<1>5. ASSUME NEW i \in 0 .. m - 1 PROVE f[i + 1] = Round(f[i])
  <2> DEFINE j == i + 1
  <2>1. j \in 0 .. m /\ j # 0 /\ j - 1 = i
    BY <1>3
  <2> HIDE DEF j
  <2>2. f[j] = Round(f[j - 1])
    BY <1>1, <1>2, <2>1
  <2>3. f[j] = Round(f[i])
    BY <2>1, <2>2, Zenon
  <2> QED
    BY <2>3 DEF j
<1> QED
  BY <1>1, <1>2, <1>4, <1>5

LEMMA RoundsExist ==
  ASSUME NEW d
  PROVE  \A m \in Nat : \E f : Rounds(f, d, m)
<1> DEFINE N == {m \in Nat : \E f : Rounds(f, d, m)}
<1>1. 0 \in N
  <2> DEFINE f == [i \in 0 .. 0 |-> d]
  <2>1. 0 .. 0 = {0}
    OBVIOUS
  <2>2. Rounds(f, d, 0)
    BY <2>1 DEF Rounds
  <2> QED
    BY <2>2
<1>2. ASSUME NEW m \in N PROVE m + 1 \in N
  <2>1. m \in Nat
    OBVIOUS
  <2>2. PICK f : Rounds(f, d, m)
    OBVIOUS
  <2>3. f[0] = d /\ \A i \in 0 .. m - 1 : f[i + 1] = Round(f[i])
    BY <2>1, <2>2, RoundsAt
  <2> DEFINE g == [i \in 0 .. m + 1 |-> IF i = m + 1 THEN Round(f[m]) ELSE f[i]]
             h == [i \in 0 .. m + 1 |-> IF i = 0 THEN d ELSE Round(g[i - 1])]
  <2>4. ASSUME NEW i \in 0 .. m + 1 PROVE g[i] = h[i]
    <3>1. CASE i = 0
      <4>1. i # m + 1
        BY <2>1, <3>1
      <4>2. g[i] = f[0] /\ h[i] = d
        BY <3>1, <4>1
      <4> QED
        BY <2>3, <4>2
    <3>2. CASE i # 0
      <4> DEFINE j == i - 1
      <4>1. j \in 0 .. m /\ j \in 0 .. m + 1 /\ j # m + 1 /\ j + 1 = i
        BY <2>1, <3>2
      <4>2. h[i] = Round(g[j])
        BY <3>2
      <4> HIDE DEF j, h
      <4>3. g[j] = f[j]
        BY <4>1
      <4>4. CASE i = m + 1
        <5>1. j = m
          BY <2>1, <4>1, <4>4
        <5>2. g[i] = Round(f[m])
          BY <4>4
        <5> HIDE DEF g
        <5> QED
          BY <4>2, <4>3, <5>1, <5>2
      <4>5. CASE i # m + 1
        <5>1. j \in 0 .. m - 1
          BY <2>1, <4>1, <4>5
        <5>2. g[i] = f[i]
          BY <4>5
        <5>3. f[j + 1] = Round(f[j])
          BY <2>3, <5>1
        <5> HIDE DEF g
        <5> QED
          BY <4>1, <4>2, <4>3, <5>2, <5>3, Zenon
      <4> QED
        BY <4>4, <4>5
    <3> QED
      BY <3>1, <3>2
  <2>5. g = h
    <3>1. DOMAIN g = 0 .. m + 1 /\ DOMAIN h = 0 .. m + 1
      OBVIOUS
    <3>2. g = [i \in DOMAIN g |-> g[i]] /\ h = [i \in DOMAIN h |-> h[i]]
      OBVIOUS
    <3> HIDE DEF g, h
    <3> QED
      BY <2>4, <3>1, <3>2
  <2>6. Rounds(g, d, m + 1)
    BY <2>5 DEF Rounds
  <2> QED
    BY <2>1, <2>6
<1> HIDE DEF N
<1>3. N \in SUBSET Nat
  BY DEF N
<1>4. N = Nat
  BY <1>1, <1>2, <1>3, EveryNumber
<1> QED
  BY <1>4 DEF N

LEMMA Processed ==
  ASSUME NEW d, Sound(d), NEW fs \in Seq(Frame), NEW u \in Seq(Nat),
         Held(d) \o u = Wire(fs)
  PROVE  (\E n : Reached(ProcessBuffer(d), d, fs, u, n)) /\ Stuck(ProcessBuffer(d))
<1> DEFINE m == d.total \div HeaderSize
           f == CHOOSE g : Rounds(g, d, m)
<1>1. d \in States /\ d.total \in Nat /\ d.frames \in Seq(Frame)
  BY StateFields DEF Sound, Fit
<1>2. m \in Nat /\ d.total < 3 * m + 3
  BY <1>1 DEF HeaderSize
<1>3. Rounds(f, d, m)
  BY <1>2, RoundsExist
<1>4. ProcessBuffer(d) = f[m]
  BY DEF ProcessBuffer, Rounds
<1> HIDE DEF m, f
<1>5. f[0] = d /\ \A i \in 0 .. m - 1 : f[i + 1] = Round(f[i])
  BY <1>2, <1>3, RoundsAt
<1> DEFINE Fewer(i) == Stuck(f[i]) \/ f[i].total + 3 * i <= d.total
           N == {i \in Nat : i <= m => (\E n : Reached(f[i], d, fs, u, n)) /\ Fewer(i)}
<1>6. 0 \in N
  <2>1. Reached(d, d, fs, u, 0)
    <3>1. 0 \in 0 .. Len(fs) /\ 1 .. 0 = {}
      OBVIOUS
    <3>2. d.frames \o UpTo(fs, 0) = d.frames
      <4>1. UpTo(fs, 0) = <<>>
        BY SubSeqEmpty DEF UpTo
      <4> QED
        BY <1>1, <4>1, ConcatEmptySeq
    <3>3. From(fs, 0) = fs
      BY FromNone
    <3> QED
      BY <1>1, <3>1, <3>2, <3>3 DEF Reached
  <2>2. d.total + 3 * 0 <= d.total
    BY <1>1
  <2> QED
    BY <1>5, <2>1, <2>2
<1>7. ASSUME NEW i \in N PROVE i + 1 \in N
  <2> SUFFICES ASSUME i + 1 <= m
               PROVE  (\E n : Reached(f[i + 1], d, fs, u, n)) /\ Fewer(i + 1)
    OBVIOUS
  <2>1. i \in Nat /\ i <= m /\ i \in 0 .. m - 1
    BY <1>2
  <2>2. PICK n : Reached(f[i], d, fs, u, n)
    BY <2>1
  <2>3. Fewer(i)
    BY <2>1
  <2>4. f[i + 1] = Round(f[i])
    BY <1>5, <2>1
  <2> DEFINE x == f[i]
             y == f[i + 1]
  <2> HIDE DEF N
  <2>5. /\ \E k : Reached(y, d, fs, u, k)
        /\ (y = x /\ Stuck(x)) \/ Stuck(y) \/ y.total + HeaderSize <= x.total
    BY <1>1, <2>2, <2>4, ReachedStep
  <2>6. x.total \in Nat /\ y.total \in Nat
    BY <2>2, <2>5, StateFields DEF Reached, Sound, Fit
  <2>7. ASSUME Stuck(x) PROVE y = x
    BY <1>1, <2>2, <2>4, <2>7, StuckStays DEF Reached
  <2>8. Fewer(i + 1)
    <3>1. CASE Stuck(x)
      BY <2>7, <3>1
    <3>2. CASE ~Stuck(x)
      <4>1. x.total + 3 * i <= d.total
        BY <2>3, <3>2
      <4>2. Stuck(y) \/ y.total + 3 <= x.total
        BY <2>5, <3>2 DEF HeaderSize
      <4>3. CASE Stuck(y)
        BY <4>3
      <4>4. CASE y.total + 3 <= x.total
        <5> HIDE DEF x, y
        <5> DEFINE s == x.total
                   t == y.total
                   l == d.total
        <5>1. /\ s \in Nat /\ t \in Nat /\ l \in Nat /\ i \in Nat
              /\ s + 3 * i <= l /\ t + 3 <= s
          BY <1>1, <2>1, <2>6, <4>1, <4>4 DEF x, y
        <5> HIDE DEF s, t, l
        <5>2. t + 3 * (i + 1) <= l
          BY ONLY <5>1
        <5> QED
          BY <5>2 DEF s, t, l, y
      <4> QED
        BY <4>2, <4>3, <4>4
    <3> QED
      BY <3>1, <3>2
  <2> QED
    BY <2>5, <2>8
<1> HIDE DEF N
<1>8. N \in SUBSET Nat
  BY DEF N
<1>9. N = Nat
  BY <1>6, <1>7, <1>8, EveryNumber
<1>10. (\E n : Reached(f[m], d, fs, u, n)) /\ Fewer(m)
  <2>1. m \in N /\ m <= m
    BY <1>2, <1>9
  <2> QED
    BY <2>1, Zenon DEF N
<1>11. Stuck(f[m])
  <2>1. CASE Stuck(f[m])
    BY <2>1
  <2>2. CASE f[m].total + 3 * m <= d.total
    <3>1. f[m].total \in Nat
      BY <1>10, StateFields DEF Reached, Sound, Fit
    <3>2. f[m].total < 3
      BY <1>1, <1>2, <2>2, <3>1
    <3> QED
      BY <3>2 DEF Stuck, HeaderSize
  <2> QED
    BY <1>10, <2>1, <2>2
<1> QED
  BY <1>4, <1>10, <1>11
-----------------------------------------------------------------------------
(* The inductive invariant, and what a push does.                          *)

(* The frames that are neither delivered nor refused, and the bytes that   *)
(* have not been fed.                                                      *)
Expected == From(sent, Len(frames) + Len(errors))

Unfed == From(Encoded, fed)

(* push() may still be called.                                             *)
Listening == framing = "message" \/ errors = <<>>

DecoderInv ==
  /\ framing \in {"message", "stream"} /\ sent \in Streams
  /\ fed \in 0 .. Len(Encoded)
  /\ Len(frames) + Len(errors) \in 0 .. Len(sent)
  /\ Sound(Decoder) /\ totalLength <= 2 * MaxFrameSize
  /\ \A i \in 1 .. Len(errors) : errors[i] # "fault"
  /\ Listening => Held(Decoder) \o Unfed = Wire(Expected) /\ Stuck(Decoder)
  /\ framing = "message" \/ errors # <<>> => totalLength = 0

LEMMA DecoderFields ==
  /\ Decoder.chunks = chunks /\ Decoder.start = chunkStart
  /\ Decoder.offset = chunkOffset /\ Decoder.total = totalLength
  /\ Decoder.frames = frames /\ Decoder.errors = errors
BY DEF Decoder

LEMMA SentTypes ==
  ASSUME DecoderInv
  PROVE  /\ sent \in Seq(Frame) /\ Len(sent) \in Nat
         /\ Encoded \in Seq(Nat) /\ Len(Encoded) \in Nat
         /\ Expected \in Seq(Frame) /\ Unfed \in Seq(Nat)
         /\ Len(Expected) = Len(sent) - (Len(frames) + Len(errors))
         /\ Len(Unfed) = Len(Encoded) - fed
         /\ Decoder \in States /\ Held(Decoder) \in Seq(Nat)
         /\ frames \in Seq(Frame) /\ errors \in Seq({"limit", "large", "fault"})
         /\ Len(frames) \in Nat /\ Len(errors) \in Nat
         /\ totalLength \in Nat /\ totalLength = Len(Held(Decoder))
<1>1. sent \in Seq(Frame) /\ Len(sent) \in Nat
  BY FrameDecoderAssumption DEF DecoderInv
<1>2. Encoded \in Seq(Nat) /\ Len(Encoded) \in Nat
  BY <1>1, WireType, LenProperties DEF Encoded
<1>3. /\ Len(frames) + Len(errors) \in 0 .. Len(sent) /\ fed \in 0 .. Len(Encoded)
      /\ Sound(Decoder)
  BY DEF DecoderInv
<1>4. /\ Expected \in Seq(Frame)
      /\ Len(Expected) = Len(sent) - (Len(frames) + Len(errors))
  BY <1>1, <1>3, FromSeq DEF Expected
<1>5. Unfed \in Seq(Nat) /\ Len(Unfed) = Len(Encoded) - fed
  BY <1>2, <1>3, FromSeq DEF Unfed
<1>6. /\ Decoder \in States /\ Held(Decoder) \in Seq(Nat)
      /\ Decoder.total = Len(Held(Decoder)) /\ Decoder.total \in Nat
      /\ Decoder.frames \in Seq(Frame)
      /\ Decoder.errors \in Seq({"limit", "large", "fault"})
  BY <1>3, HeldBytes, StateFields DEF Sound, Fit
<1>7. /\ frames \in Seq(Frame) /\ errors \in Seq({"limit", "large", "fault"})
      /\ totalLength = Len(Held(Decoder)) /\ totalLength \in Nat
  BY <1>6, DecoderFields
<1>8. Len(frames) \in Nat /\ Len(errors) \in Nat
  BY <1>7, LenProperties
<1> QED
  BY <1>1, <1>2, <1>4, <1>5, <1>6, <1>7, <1>8

(* The n elements behind the first m, and those behind them.               *)
Chunk(q, m, n) == SubSeq(q, m + 1, m + n)

LEMMA ChunkFed ==
  ASSUME NEW S, NEW q \in Seq(S), NEW m \in Nat, NEW n \in Nat, n # 0, m + n <= Len(q)
  PROVE  /\ Chunk(q, m, n) \in Seq(S) /\ Len(Chunk(q, m, n)) = n
         /\ Chunk(q, m, n) # <<>>
         /\ Chunk(q, m, n) = UpTo(From(q, m), n)
         /\ Chunk(q, m, n) \o From(q, m + n) = From(q, m)
<1> DEFINE lo == m + 1
           hi == m + n
           c == SubSeq(q, lo, hi)
           p == From(q, m)
<1>1. Len(q) \in Nat /\ m \in 0 .. Len(q) /\ n \in 0 .. Len(q) - m
  OBVIOUS
<1>2. /\ p \in Seq(S) /\ Len(p) = Len(q) - m
      /\ \A i \in 1 .. Len(q) - m : p[i] = q[m + i]
  BY <1>1, FromSeq
<1>3. From(p, n) = From(q, m + n)
  BY FromFrom
<1> HIDE DEF p
<1>4. n \in 0 .. Len(p)
  BY <1>1, <1>2
<1>5. /\ UpTo(p, n) \in Seq(S) /\ Len(UpTo(p, n)) = n
      /\ \A i \in 1 .. n : UpTo(p, n)[i] = p[i]
  BY <1>2, <1>4, UpToSeq
<1>6. UpTo(p, n) \o From(p, n) = p
  BY <1>2, <1>4, Split
<1>7. /\ lo \in Int /\ hi \in Int /\ \A i \in lo .. hi : q[i] \in S
      /\ hi - lo + 1 = n /\ (IF lo <= hi THEN hi - lo + 1 ELSE 0) = n
      /\ \A i \in 1 .. n : lo + i - 1 = m + i /\ i \in 1 .. Len(q) - m
  <2>1. \A i \in lo .. hi : i \in 1 .. Len(q)
    BY <1>1
  <2>2. \A i \in lo .. hi : q[i] \in S
    BY <2>1, ElementOfSeq
  <2>3. hi - lo + 1 = n /\ (IF lo <= hi THEN hi - lo + 1 ELSE 0) = n
    OBVIOUS
  <2>4. \A i \in 1 .. n : lo + i - 1 = m + i /\ i \in 1 .. Len(q) - m
    BY <1>1
  <2>5. lo \in Int /\ hi \in Int
    OBVIOUS
  <2> QED
    BY <2>2, <2>3, <2>4, <2>5
<1> HIDE DEF lo, hi
<1>8. /\ c \in Seq(S) /\ Len(c) = IF lo <= hi THEN hi - lo + 1 ELSE 0
      /\ \A i \in 1 .. hi - lo + 1 : c[i] = q[lo + i - 1]
  <2>1. lo \in Int /\ hi \in Int /\ \A i \in lo .. hi : q[i] \in S
    BY <1>7
  <2> QED
    BY ONLY <2>1, SubSeqProperties
<1> HIDE DEF c
<1>9. c = UpTo(p, n)
  <2>1. Len(c) = n
    BY <1>7, <1>8
  <2>2. ASSUME NEW i \in 1 .. n PROVE c[i] = UpTo(p, n)[i]
    <3>1. i \in 1 .. hi - lo + 1 /\ lo + i - 1 = m + i /\ i \in 1 .. Len(q) - m
      BY <1>7
    <3>2. c[i] = q[lo + i - 1] /\ p[i] = q[m + i] /\ UpTo(p, n)[i] = p[i]
      BY <1>2, <1>5, <1>8, <3>1, Zenon
    <3> QED
      BY <3>1, <3>2
  <2> QED
    BY <1>5, <1>8, <2>1, <2>2, SeqEqual
<1>10. c # <<>>
  BY <1>5, <1>9
<1> QED
  BY <1>3, <1>5, <1>6, <1>9, <1>10 DEF c, lo, hi, p, Chunk

(* What push() may do with n bytes: it takes out k frames and then has     *)
(* none that is complete, or refuses the next frame, or all it holds.      *)
Waits(k) ==
  /\ errors' = errors
  /\ Held(Decoder') \o From(Encoded, fed') = Wire(From(Expected, k))
  /\ Stuck(Decoder')
  /\ framing = "message" => totalLength' = 0

Refuses(k) ==
  /\ errors' = Append(errors, "large") /\ totalLength' = 0
  /\ k < Len(Expected) /\ Large(Expected[k + 1])
  /\ framing = "message" => k = 0 /\ From(Encoded, fed') = Wire(From(Expected, 1))

Overruns(n, k) ==
  /\ errors' = Append(errors, "limit") /\ totalLength' = 0
  /\ k = 0 /\ Expected # <<>> /\ totalLength + n > 2 * MaxFrameSize
  /\ framing = "message" => /\ n = Len(Encode(Expected[1]))
                            /\ From(Encoded, fed') = Wire(From(Expected, 1))

Outcome(n, k) ==
  /\ k \in 0 .. Len(Expected) /\ \A j \in 1 .. k : ~Large(Expected[j])
  /\ frames' = frames \o UpTo(Expected, k)
  /\ Sound(Decoder') /\ totalLength' <= 2 * MaxFrameSize
  /\ fed' = fed + n /\ fed' \in 0 .. Len(Encoded)
  /\ UNCHANGED <<framing, sent>>
  /\ Waits(k) \/ Refuses(k) \/ Overruns(n, k)
(* A whole message is the next frame.                                      *)
LEMMA MessageFed ==
  ASSUME DecoderInv, framing = "message", NEW n \in Nat, Expected # <<>>,
         n = Len(NextMessage), fed + n <= Len(Encoded)
  PROVE  /\ n = Len(Encode(Expected[1])) /\ Held(Decoder) = <<>>
         /\ Chunk(Encoded, fed, n) = Encode(Expected[1])
         /\ From(Encoded, fed + n) = Wire(From(Expected, 1))
<1> DEFINE e == Encode(Expected[1])
           w == Wire(From(Expected, 1))
<1>1. /\ sent \in Seq(Frame) /\ Encoded \in Seq(Nat) /\ Expected \in Seq(Frame)
      /\ Unfed \in Seq(Nat) /\ Held(Decoder) \in Seq(Nat) /\ Len(Held(Decoder)) = 0
      /\ fed \in Nat /\ Len(frames) + Len(errors) \in 0 .. Len(sent)
  <2>1. fed \in 0 .. Len(Encoded) /\ Len(frames) + Len(errors) \in 0 .. Len(sent) /\ totalLength = 0
    BY DEF DecoderInv
  <2> QED
    BY <2>1, SentTypes
<1>2. Held(Decoder) = <<>>
  BY <1>1
<1>3. Unfed = Wire(Expected)
  <2>1. Held(Decoder) \o Unfed = Wire(Expected)
    BY DEF DecoderInv, Listening
  <2> QED
    BY <1>1, <1>2, <2>1, ConcatEmptySeq
<1>4. e \in Seq(Nat) /\ w \in Seq(Nat) /\ Wire(Expected) = e \o w /\ Len(e) \in Nat \ {0}
  <2>1. Expected[1] \in Frame /\ From(Expected, 1) \in Seq(Frame) /\ Wire(Expected) = e \o w
    BY <1>1, WireFirst
  <2>2. /\ e \in Seq(Nat) /\ Len(e) = 3 + Len(Expected[1].payload)
        /\ Len(Expected[1].payload) \in Nat
    BY <2>1, EncodeBytes, LenProperties DEF HeaderSize
  <2> QED
    BY <2>1, <2>2, WireType
<1>5. NextMessage = e
  <2>1. Expected[1] = sent[Len(frames) + Len(errors) + 1]
    BY <1>1, OneMore DEF Expected
  <2> QED
    BY <2>1 DEF NextMessage
<1> HIDE DEF e, w
<1>6. n = Len(e)
  BY <1>5
<1> DEFINE c == Chunk(Encoded, fed, n)
<1>7. /\ c \in Seq(Nat) /\ Len(c) = n /\ c = UpTo(Unfed, n)
      /\ c \o From(Encoded, fed + n) = Unfed
  <2>1. n \in Nat /\ n # 0 /\ Encoded \in Seq(Nat) /\ fed \in Nat /\ fed + n <= Len(Encoded)
    BY <1>1, <1>4, <1>6
  <2>2. Unfed = From(Encoded, fed)
    BY DEF Unfed
  <2> QED
    BY ONLY <2>1, <2>2, ChunkFed, SMTT(30)
<1>8. From(Encoded, fed + n) \in Seq(Nat)
  <2>1. fed + n \in 0 .. Len(Encoded)
    BY <1>1
  <2> QED
    BY <1>1, <2>1, FromSeq
<1> HIDE DEF c
<1> DEFINE y == From(Encoded, fed + n)
<1>9. UpTo(c, Len(e)) = e /\ From(c, Len(e)) \o y = w
  <2> HIDE DEF y
  <2>1. y \in Seq(Nat)
    BY <1>8 DEF y
  <2>2. c \o y = e \o w
    BY <1>3, <1>4, <1>7 DEF y
  <2>3. Len(e) <= Len(c)
    BY <1>4, <1>6, <1>7
  <2> QED
    BY ONLY <1>4, <1>7, <2>1, <2>2, <2>3, Cut
<1>10. UpTo(c, Len(e)) = c /\ From(c, Len(e)) = <<>>
  <2>1. Len(e) = Len(c)
    BY <1>6, <1>7
  <2>2. SubSeq(c, 1, Len(c)) = c
    BY <1>7, SubSeqFull
  <2>3. SubSeq(c, Len(c) + 1, Len(c)) = <<>>
    BY <1>7, SubSeqEmpty
  <2> QED
    BY <2>1, <2>2, <2>3 DEF UpTo, From
<1>11. y = w
  BY <1>8, <1>9, <1>10, ConcatEmptySeq
<1> QED
  BY <1>2, <1>6, <1>9, <1>10, <1>11 DEF e, w, c

(* With one message per frame the loop takes out that frame or refuses it. *)
LEMMA MessageProcessed ==
  ASSUME NEW d, NEW r, Sound(d), NEW fs \in Seq(Frame), fs # <<>>, NEW k,
         Reached(r, d, fs, Wire(From(fs, 1)), k)
  PROVE  /\ r.errors = d.errors /\ Stuck(r) => r.total = 0
         /\ Len(Wire(From(fs, k))) >= Len(Wire(From(fs, 1))) + HeaderSize => k = 0
<1> DEFINE u == Wire(From(fs, 1))
           e == Encode(fs[1])
           w == Wire(From(fs, k))
           h == Held(r)
<1>1. /\ k \in 0 .. Len(fs) /\ k \in Nat /\ Len(fs) \in Nat /\ Sound(r)
  BY DEF Reached
<1>2. /\ h \in Seq(Nat) /\ r.total = Len(h) /\ Len(h) \in Nat
  BY <1>1, HeldBytes DEF Sound
<1>3. /\ fs[1] \in Frame /\ From(fs, 1) \in Seq(Frame) /\ Wire(fs) = e \o u
  BY WireFirst
<1>4. /\ u \in Seq(Nat) /\ Len(u) \in Nat
  BY <1>3, WireType, LenProperties
<1>5. w \in Seq(Nat) /\ Len(w) \in Nat
  BY <1>1, FromSeq, WireType, LenProperties
<1>6. /\ e \in Seq(Nat) /\ Len(e) = HeaderSize + Len(fs[1].payload)
      /\ e[3] = Len(fs[1].payload) /\ Len(fs[1].payload) \in Nat
  BY <1>3, EncodeBytes, LenProperties
<1>7. ASSUME k # 0 PROVE Len(w) <= Len(u)
  <2> DEFINE g == From(fs, 1)
             j == k - 1
  <2>1. j \in Nat /\ j \in 0 .. Len(g) /\ 1 + j = k /\ 1 + j <= Len(fs)
    <3>1. Len(g) = Len(fs) - 1
      <4>1. 1 \in 0 .. Len(fs)
        BY <1>1, <1>7
      <4> QED
        BY <4>1, FromSeq
    <3> QED
      BY <1>1, <1>7, <3>1
  <2> HIDE DEF j
  <2>2. From(g, j) = From(fs, k)
    BY <2>1, FromFrom
  <2> HIDE DEF g
  <2>3. /\ UpTo(g, j) \in Seq(Frame) /\ From(g, j) \in Seq(Frame)
        /\ UpTo(g, j) \o From(g, j) = g
    BY <1>3, <2>1, UpToSeq, FromSeq, Split DEF g
  <2> DEFINE a == Wire(UpTo(g, j))
  <2>4. Wire(g) = a \o w /\ a \in Seq(Nat)
    BY <2>2, <2>3, WireConcat, WireType
  <2> HIDE DEF a, w
  <2>5. Len(Wire(g)) = Len(a) + Len(w) /\ Len(a) \in Nat
    BY <1>5, <2>4, ConcatProperties, LenProperties
  <2> QED
    BY <1>5, <2>5 DEF g
<1>8. ASSUME r.errors = d.errors, Stuck(r)
      PROVE  r.total = 0
  <2>1. h \o u = w
    <3>1. d.errors \in Seq({"limit", "large", "fault"})
      BY StateFields DEF Sound, Fit
    <3>2. Len(Append(d.errors, "large")) = Len(d.errors) + 1 /\ Len(d.errors) \in Nat
      BY <3>1, AppendProperties, LenProperties
    <3>3. r.errors # Append(d.errors, "large")
      BY <1>8, <3>2
    <3> QED
      BY <3>3 DEF Reached
  <2>2. Len(w) = Len(h) + Len(u)
    <3> HIDE DEF h, u, w
    <3> QED
      BY <1>2, <1>4, <2>1, ConcatProperties
  <2>3. CASE k # 0
    <3> HIDE DEF h, u, w
    <3> QED
      BY <1>2, <1>4, <1>5, <1>7, <2>2, <2>3
  <2>4. CASE k = 0
    <3>1. h \o u = e \o u
      BY <1>3, <2>1, <2>4, FromNone
    <3>2. h = e
      <4> HIDE DEF h, u, e
      <4> QED
        BY <1>2, <1>4, <1>6, <3>1, ConcatSimplifications
    <3>3. r.total = HeaderSize + Len(fs[1].payload) /\ Held(r)[3] = Len(fs[1].payload)
      BY <1>2, <1>6, <3>2
    <3>4. FALSE
      BY <1>6, <1>8, <3>3 DEF Stuck, HeaderSize
    <3> QED
      BY <3>4
  <2> QED
    BY <2>3, <2>4
<1>9. ASSUME Len(w) >= Len(u) + HeaderSize PROVE k = 0
  <2> HIDE DEF w, u
  <2> QED
    BY <1>4, <1>5, <1>7, <1>9 DEF HeaderSize
<1> QED
  BY <1>8, <1>9

LEMMA UpToNone ==
  ASSUME NEW S, NEW q \in Seq(S)
  PROVE  UpTo(q, 0) = <<>>
<1>1. 0 \in 0 .. Len(q)
  BY LenProperties
<1>2. UpTo(q, 0) \in Seq(S) /\ Len(UpTo(q, 0)) = 0
  BY <1>1, UpToSeq
<1> QED
  BY <1>2, EmptySeq

(* Every push has one of these outcomes.                                   *)
LEMMA PushOutcome ==
  ASSUME DecoderInv, NEW n \in 1 .. Len(Encoded), Push(n)
  PROVE  \E k : Outcome(n, k)
<1> DEFINE c == Chunk(Encoded, fed, n)
           u == From(Encoded, fed + n)
           d == Pushed(Decoder, c)
           x == [Decoder EXCEPT !.chunks = Append(@, c), !.total = @ + Len(c)]
           r == ProcessBuffer(x)
<1>1. /\ n \in Nat /\ n # 0 /\ fed \in Nat /\ fed + n <= Len(Encoded)
      /\ fed' = fed + n /\ fed' \in 0 .. Len(Encoded) /\ UNCHANGED <<framing, sent>>
      /\ Len(Encoded) \in Nat /\ Encoded \in Seq(Nat)
  <2>1. fed \in 0 .. Len(Encoded) /\ Len(Encoded) \in Nat /\ Encoded \in Seq(Nat)
    BY SentTypes DEF DecoderInv
  <2>2. /\ n <= Len(Encoded) - fed /\ fed' = fed + n /\ UNCHANGED <<framing, sent>>
    BY DEF Push
  <2> QED
    BY <2>1, <2>2
<1>2. /\ Expected \in Seq(Frame) /\ Unfed \in Seq(Nat) /\ Decoder \in States
      /\ Held(Decoder) \in Seq(Nat) /\ frames \in Seq(Frame)
      /\ Sound(Decoder) /\ Len(Expected) \in Nat
      /\ Len(Held(Decoder)) \in Nat /\ MaxFrameSize \in Nat
  BY SentTypes, LenProperties, FrameDecoderAssumption DEF DecoderInv
<1>3. /\ Held(Decoder) \o Unfed = Wire(Expected)
      /\ framing = "message" => n = Len(NextMessage)
  BY DEF DecoderInv, Listening, Push
<1>4. /\ c \in Seq(Nat) /\ Len(c) = n /\ c # <<>> /\ c \o u = Unfed
  <2>1. Unfed = From(Encoded, fed)
    BY DEF Unfed
  <2>2. /\ n \in Nat /\ n # 0 /\ Encoded \in Seq(Nat) /\ fed \in Nat
        /\ fed + n <= Len(Encoded)
    BY <1>1
  <2> QED
    BY ONLY <2>1, <2>2, ChunkFed, SMTT(30)
<1>5. u \in Seq(Nat) /\ Len(u) \in Nat /\ fed' = fed + n
  BY <1>1, FromSeq, LenProperties
<1>6. Expected # <<>>
  <2>1. Len(Unfed) = n + Len(u)
    <3> HIDE DEF c, u
    <3> QED
      BY <1>4, <1>5, ConcatProperties
  <2>2. Len(Held(Decoder) \o Unfed) = Len(Held(Decoder)) + Len(Unfed)
    BY <1>2, ConcatProperties
  <2>3. Len(Wire(<<>>)) = 0
    BY WireEmpty
  <2> HIDE DEF u
  <2> QED
    BY <1>1, <1>2, <1>3, <1>5, <2>1, <2>2, <2>3
<1>7. framing = "message" =>
        /\ n = Len(Encode(Expected[1])) /\ u = Wire(From(Expected, 1))
  BY <1>1, <1>3, <1>6, MessageFed
<1>8. ASSUME d \in States PROVE Decoder' = d
  <2>1. Decoder' = [chunks |-> d.chunks, start |-> d.start, offset |-> d.offset,
                    total |-> d.total, frames |-> d.frames, errors |-> d.errors]
    BY DEF Push, Decoder, Chunk
  <2> HIDE DEF d
  <2> QED
    BY <1>8, <2>1 DEF States
<1>9. /\ Decoder'.total = totalLength' /\ Decoder'.frames = frames' /\ Decoder'.errors = errors'
      /\ Decoder.total = totalLength /\ Decoder.frames = frames /\ Decoder.errors = errors
  BY DEF Decoder
<1> HIDE DEF c, u
<1>10. CASE Overflows(Decoder, c)
  <2>1. d = Failed(Decoder, "limit")
    BY <1>10 DEF Pushed
  <2>2. /\ Sound(d) /\ d.total = 0 /\ d.frames = frames
        /\ d.errors = Append(errors, "limit")
    BY <1>2, <1>9, <2>1, FailedSound
  <2>3. Decoder' = d
    BY <1>8, <2>2 DEF Sound, Fit
  <2> HIDE DEF d
  <2>4. frames' = frames \o UpTo(Expected, 0)
    BY <1>2, <1>9, <2>2, <2>3, UpToNone, ConcatEmptySeq
  <2>5. Overruns(n, 0)
    BY <1>4, <1>5, <1>6, <1>7, <1>9, <1>10, <2>2, <2>3 DEF Overruns, Overflows, u
  <2>6. 0 \in 0 .. Len(Expected) /\ \A j \in 1 .. 0 : ~Large(Expected[j])
    BY <1>2
  <2>7. Sound(Decoder') /\ totalLength' <= 2 * MaxFrameSize
    BY <1>2, <1>9, <2>2, <2>3
  <2>8. Outcome(n, 0)
    BY <1>1, <2>4, <2>5, <2>6, <2>7 DEF Outcome
  <2> QED
    BY <2>8
<1>11. CASE ~Overflows(Decoder, c)
  <2>1. d = r
    BY <1>11 DEF Pushed
  <2>2. /\ Sound(x) /\ Held(x) = Held(Decoder) \o c /\ x.total = totalLength + n
        /\ x.frames = frames /\ x.errors = errors
    BY <1>2, <1>4, <1>9, Extended
  <2>3. x.total <= 2 * MaxFrameSize
    <3>1. ~(Decoder.total + Len(c) > 2 * MaxFrameSize)
      BY <1>11 DEF Overflows
    <3>2. /\ Decoder.total = totalLength /\ Len(c) = n /\ x.total = totalLength + n
          /\ totalLength \in Nat /\ n \in Nat /\ MaxFrameSize \in Nat
      BY <1>1, <1>2, <1>4, <1>9, <2>2, SentTypes
    <3> HIDE DEF x
    <3> QED
      BY ONLY <3>1, <3>2
  <2>4. Held(x) \o u = Wire(Expected)
    <3>1. (Held(Decoder) \o c) \o u = Held(Decoder) \o (c \o u)
      BY <1>2, <1>4, <1>5, Associative
    <3> QED
      BY <1>3, <1>4, <2>2, <3>1
  <2> HIDE DEF x
  <2>5. (\E k : Reached(r, x, Expected, u, k)) /\ Stuck(r)
    BY <1>2, <1>5, <2>2, <2>4, Processed
  <2>6. PICK k : Reached(r, x, Expected, u, k)
    BY <2>5
  <2> HIDE DEF r
  <2>7. /\ k \in 0 .. Len(Expected) /\ \A j \in 1 .. k : ~Large(Expected[j])
        /\ Sound(r) /\ r.total <= x.total /\ r.frames = frames \o UpTo(Expected, k)
    BY <2>2, <2>6 DEF Reached
  <2>8. Decoder' = r
    BY <1>8, <2>1, <2>7 DEF Sound, Fit
  <2>9. Sound(Decoder') /\ totalLength' <= 2 * MaxFrameSize /\ frames' = frames \o UpTo(Expected, k)
    <3>1. r.total \in Nat /\ x.total \in Nat
      BY <2>2, <2>7, StateFields DEF Sound, Fit
    <3>2. totalLength' = r.total /\ frames' = r.frames /\ Sound(Decoder')
      BY <1>9, <2>7, <2>8
    <3>3. r.total <= 2 * MaxFrameSize
      BY ONLY <1>2, <2>3, <2>7, <3>1
    <3> QED
      BY <2>7, <3>2, <3>3
  <2>10. ASSUME framing = "message"
         PROVE  /\ r.errors = x.errors => r.total = 0
                /\ Len(Wire(From(Expected, k))) >= Len(u) + HeaderSize => k = 0
                /\ u = Wire(From(Expected, 1))
    <3>1. u = Wire(From(Expected, 1))
      BY <1>7, <2>10
    <3>2. Reached(r, x, Expected, Wire(From(Expected, 1)), k)
      BY <2>6, <3>1
    <3>3. /\ r.errors = x.errors /\ Stuck(r) => r.total = 0
          /\ Len(Wire(From(Expected, k))) >= Len(Wire(From(Expected, 1))) + HeaderSize => k = 0
      BY ONLY <1>2, <1>6, <2>2, <3>2, MessageProcessed
    <3> QED
      BY <2>5, <3>1, <3>3
  <2>11. CASE r.errors = x.errors /\ Held(r) \o u = Wire(From(Expected, k))
    <3>1. Waits(k)
      BY <1>5, <1>9, <2>2, <2>5, <2>8, <2>10, <2>11 DEF Waits, u
    <3>2. Outcome(n, k)
      BY <1>1, <2>7, <2>9, <3>1 DEF Outcome
    <3> QED
      BY <3>2
  <2>12. CASE /\ r.errors = Append(x.errors, "large") /\ r.total = 0
              /\ k < Len(Expected) /\ Large(Expected[k + 1])
              /\ Len(Wire(From(Expected, k))) >= Len(u) + HeaderSize
    <3>1. Refuses(k)
      BY <1>5, <1>9, <2>2, <2>8, <2>10, <2>12 DEF Refuses, u
    <3>2. Outcome(n, k)
      BY <1>1, <2>7, <2>9, <3>1 DEF Outcome
    <3> QED
      BY <3>2
  <2> QED
    BY <2>6, <2>11, <2>12 DEF Reached
<1> QED
  BY <1>10, <1>11

(* The frames that are still expected afterwards.                          *)
LEMMA AfterPush ==
  ASSUME DecoderInv, NEW n, NEW k, Outcome(n, k)
  PROVE  /\ frames' \in Seq(Frame) /\ Len(frames') = Len(frames) + k /\ k \in Nat
         /\ sent' = sent /\ framing' = framing
         /\ Encoded' = Encoded /\ Unfed' = From(Encoded, fed')
         /\ Waits(k) => /\ Len(errors') = Len(errors) /\ Expected' = From(Expected, k)
                        /\ Len(frames') + Len(errors') \in 0 .. Len(sent)
         /\ Refuses(k) \/ Overruns(n, k) =>
              /\ k < Len(Expected)
              /\ Len(errors') = Len(errors) + 1 /\ Expected' = From(Expected, k + 1)
              /\ Len(frames') + Len(errors') \in 0 .. Len(sent)
<1> DEFINE a == Len(frames) + Len(errors)
<1>1. /\ sent \in Seq(Frame) /\ Len(sent) \in Nat /\ Expected \in Seq(Frame)
      /\ Len(Expected) = Len(sent) - a /\ frames \in Seq(Frame)
      /\ errors \in Seq({"limit", "large", "fault"})
      /\ Len(frames) \in Nat /\ Len(errors) \in Nat /\ a \in Nat /\ a <= Len(sent)
  BY SentTypes DEF DecoderInv
<1>2. /\ k \in 0 .. Len(Expected) /\ frames' = frames \o UpTo(Expected, k)
      /\ sent' = sent /\ framing' = framing
  BY DEF Outcome
<1>3. k \in Nat /\ Len(Expected) \in Nat
  BY <1>1, <1>2
<1>4. frames' \in Seq(Frame) /\ Len(frames') = Len(frames) + k
  <2>1. UpTo(Expected, k) \in Seq(Frame) /\ Len(UpTo(Expected, k)) = k
    BY <1>1, <1>2, UpToSeq
  <2>2. frames \in Seq(Frame) /\ frames' = frames \o UpTo(Expected, k)
    BY <1>1, <1>2
  <2> DEFINE g == UpTo(Expected, k)
  <2> HIDE DEF g
  <2>3. frames \o g \in Seq(Frame) /\ Len(frames \o g) = Len(frames) + Len(g)
    BY <2>1, <2>2, ConcatProperties DEF g
  <2> QED
    BY <2>1, <2>2, <2>3 DEF g
<1>5. Encoded' = Encoded /\ Unfed' = From(Encoded, fed')
  BY <1>2 DEF Encoded, Unfed
<1>6. Expected' = From(sent, Len(frames') + Len(errors'))
  BY <1>2 DEF Expected
<1>7. \A m \in 0 .. Len(Expected) : From(sent, a + m) = From(Expected, m)
  <2> TAKE m \in 0 .. Len(Expected)
  <2>1. m \in Nat /\ a + m <= Len(sent)
    BY <1>1, <1>3
  <2>2. Expected = From(sent, a)
    BY DEF Expected
  <2> HIDE DEF a
  <2> QED
    BY ONLY <1>1, <2>1, <2>2, FromFrom
<1>8. ASSUME Waits(k)
      PROVE  /\ Len(errors') = Len(errors) /\ Expected' = From(Expected, k)
             /\ Len(frames') + Len(errors') \in 0 .. Len(sent)
  <2>1. errors' = errors
    BY <1>8 DEF Waits
  <2>2. Len(frames') + Len(errors') = a + k
    BY <1>1, <1>3, <1>4, <2>1
  <2>3. Expected' = From(Expected, k)
    BY <1>2, <1>6, <1>7, <2>2
  <2>4. a + k \in 0 .. Len(sent)
    BY <1>1, <1>2, <1>3
  <2> QED
    BY <2>1, <2>2, <2>3, <2>4
<1>9. ASSUME Refuses(k) \/ Overruns(n, k)
      PROVE  /\ k < Len(Expected)
             /\ Len(errors') = Len(errors) + 1 /\ Expected' = From(Expected, k + 1)
             /\ Len(frames') + Len(errors') \in 0 .. Len(sent)
  <2>1. k < Len(Expected)
    <3>1. CASE Refuses(k)
      BY <3>1 DEF Refuses
    <3>2. CASE Overruns(n, k)
      <4>1. Expected # <<>> /\ k = 0
        BY <3>2 DEF Overruns
      <4>2. Len(Expected) # 0
        BY <1>1, <4>1, EmptySeq
      <4> QED
        BY <1>3, <4>1, <4>2
    <3> QED
      BY <1>9, <3>1, <3>2
  <2>2. Len(errors') = Len(errors) + 1
    <3>1. errors' = Append(errors, "large") \/ errors' = Append(errors, "limit")
      BY <1>9 DEF Refuses, Overruns
    <3> QED
      BY <1>1, <3>1, AppendProperties
  <2>3. Len(frames') + Len(errors') = a + (k + 1)
    BY <1>1, <1>3, <1>4, <2>2
  <2>4. k + 1 \in 0 .. Len(Expected)
    BY <1>3, <2>1
  <2>5. Expected' = From(Expected, k + 1)
    BY <1>6, <1>7, <2>3, <2>4
  <2>6. a + (k + 1) \in 0 .. Len(sent)
    BY <1>1, <1>3, <2>1
  <2> QED
    BY <2>1, <2>2, <2>3, <2>5, <2>6
<1> QED
  BY <1>2, <1>3, <1>4, <1>5, <1>8, <1>9

LEMMA InvAfterPush ==
  ASSUME DecoderInv, Listening, NEW n, NEW k, Outcome(n, k)
  PROVE  DecoderInv'
<1>1. /\ framing' \in {"message", "stream"} /\ sent' \in Streams /\ sent' = sent
      /\ framing' = framing /\ Encoded' = Encoded /\ Unfed' = From(Encoded, fed')
      /\ fed' \in 0 .. Len(Encoded')
      /\ Sound(Decoder') /\ totalLength' <= 2 * MaxFrameSize
  BY AfterPush DEF Outcome, DecoderInv
<1>2. /\ errors \in Seq({"limit", "large", "fault"}) /\ Len(errors) \in Nat
      /\ \A i \in 1 .. Len(errors) : errors[i] # "fault"
      /\ Expected \in Seq(Frame) /\ Encoded \in Seq(Nat) /\ Len(Encoded) \in Nat
  BY SentTypes DEF DecoderInv
<1>3. /\ Held(Decoder') \in Seq(Nat) /\ Decoder'.total = totalLength'
      /\ totalLength' = Len(Held(Decoder'))
  <2>1. Decoder'.total = totalLength'
    BY DEF Decoder
  <2> QED
    BY <1>1, <2>1, HeldBytes DEF Sound
<1>4. Unfed' \in Seq(Nat)
  BY <1>1, <1>2, FromSeq
<1>5. Waits(k) \/ Refuses(k) \/ Overruns(n, k)
  BY DEF Outcome
<1>6. Len(frames') + Len(errors') \in 0 .. Len(sent')
  BY <1>1, <1>5, AfterPush
<1>7. \A i \in 1 .. Len(errors') : errors'[i] # "fault"
  <2>1. CASE errors' = errors
    BY <1>2, <2>1
  <2>2. ASSUME NEW cause \in {"large", "limit"}, errors' = Append(errors, cause)
        PROVE  \A i \in 1 .. Len(errors') : errors'[i] # "fault"
    <3>1. /\ Len(errors') = Len(errors) + 1
          /\ \A i \in 1 .. Len(errors) : errors'[i] = errors[i]
          /\ errors'[Len(errors) + 1] = cause
      BY <1>2, <2>2, AppendProperties
    <3>2. \A i \in 1 .. Len(errors') : i \in 1 .. Len(errors) \/ i = Len(errors) + 1
      BY <1>2, <3>1
    <3>3. cause # "fault"
      OBVIOUS
    <3> QED
      BY ONLY <1>2, <3>1, <3>2, <3>3, Zenon
  <2> QED
    BY <1>5, <2>1, <2>2 DEF Waits, Refuses, Overruns
<1>8. CASE Waits(k)
  <2>1. /\ Held(Decoder') \o Unfed' = Wire(Expected') /\ Stuck(Decoder')
        /\ framing' = "message" => totalLength' = 0
    BY <1>1, <1>8, AfterPush DEF Waits
  <2>2. framing' # "message" => errors' = <<>>
    BY <1>1, <1>8 DEF Waits, Listening
  <2> QED
    BY <1>1, <1>6, <1>7, <2>1, <2>2 DEF DecoderInv
<1>9. CASE Refuses(k) \/ Overruns(n, k)
  <2>1. /\ totalLength' = 0 /\ Expected' = From(Expected, k + 1)
        /\ Len(errors') = Len(errors) + 1
    BY <1>9, AfterPush DEF Refuses, Overruns
  <2>2. Held(Decoder') = <<>>
    <3> DEFINE h == Held(Decoder')
    <3>1. h \in Seq(Nat) /\ Len(h) = 0
      BY <1>3, <2>1
    <3> HIDE DEF h
    <3>2. h = <<>>
      BY <3>1, EmptySeq
    <3> QED
      BY <3>2 DEF h
  <2>3. Stuck(Decoder')
    BY <1>3, <2>1 DEF Stuck, HeaderSize
  <2>4. ASSUME Listening' PROVE Held(Decoder') \o Unfed' = Wire(Expected')
    <3>1. framing = "message"
      <4>1. errors' # <<>>
        BY <1>2, <2>1
      <4> QED
        BY <1>1, <2>4, <4>1 DEF Listening
    <3>2. k = 0 /\ Unfed' = Wire(From(Expected, 1))
      BY <1>1, <1>9, <3>1 DEF Refuses, Overruns
    <3>3. Expected' = From(Expected, 1)
      BY <2>1, <3>2
    <3>4. Held(Decoder') \o Unfed' = Unfed'
      BY <1>4, <2>2, ConcatEmptySeq
    <3> QED
      BY <3>2, <3>3, <3>4
  <2> QED
    BY <1>1, <1>6, <1>7, <2>1, <2>3, <2>4 DEF DecoderInv
<1> QED
  BY <1>5, <1>8, <1>9

LEMMA PushListens ==
  ASSUME DecoderInv, NEW n, Push(n)
  PROVE  Listening
BY DEF Push, Listening, DecoderInv

LEMMA InvStep ==
  ASSUME DecoderInv, [Next]_vars
  PROVE  DecoderInv'
<1>1. ASSUME NEW n \in 1 .. Len(Encoded), Push(n) PROVE DecoderInv'
  <2>1. PICK k : Outcome(n, k)
    BY <1>1, PushOutcome
  <2> QED
    BY <1>1, <2>1, PushListens, InvAfterPush
<1>2. CASE UNCHANGED vars
  <2>1. UNCHANGED <<framing, sent, fed, totalLength, frames, errors, Decoder, Encoded>>
    BY <1>2 DEF vars, Decoder, Encoded
  <2>2. UNCHANGED <<Unfed, Expected, Listening>>
    BY <2>1 DEF Unfed, Expected, Listening
  <2> QED
    BY <2>1, <2>2 DEF DecoderInv
<1> QED
  BY <1>1, <1>2 DEF Next

LEMMA InvInit ==
  ASSUME Init
  PROVE  DecoderInv
<1> DEFINE none == [chunks |-> <<>>, start |-> 0, offset |-> 0, total |-> 0,
                    frames |-> <<>>, errors |-> <<>>]
<1>1. /\ framing \in {"message", "stream"} /\ sent \in Streams /\ fed = 0
      /\ totalLength = 0 /\ frames = <<>> /\ errors = <<>> /\ Decoder = none
  BY DEF Init, Decoder
<1>2. sent \in Seq(Frame)
  BY <1>1, FrameDecoderAssumption
<1>3. /\ Encoded \in Seq(Nat) /\ Encoded = Wire(sent) /\ Len(Encoded) \in Nat
      /\ Len(sent) \in Nat
  BY <1>2, WireType, LenProperties DEF Encoded
<1>4. Unfed = Encoded /\ Expected = sent
  <2>1. Len(frames) = 0 /\ Len(errors) = 0
    BY <1>1
  <2> QED
    BY <1>1, <1>2, <1>3, <2>1, FromNone DEF Unfed, Expected
<1>5. Sound(Decoder) /\ Held(Decoder) = <<>>
  <2>1. none \in States
    <3>1. /\ <<>> \in Lists /\ <<>> \in Seq(Frame)
          /\ <<>> \in Seq({"limit", "large", "fault"})
      BY EmptySeq DEF Lists
    <3> QED
      BY <3>1 DEF States
  <2> DEFINE e == Emptied(none)
  <2>2. /\ e.chunks = <<>> /\ e.start = 0 /\ e.offset = 0 /\ e.total = 0
        /\ e.frames = <<>> /\ e.errors = <<>> /\ e \in States
    BY <2>1, EmptiedSound DEF Emptied, Sound, Fit
  <2> HIDE DEF e
  <2>3. e = none
    BY <2>2 DEF States
  <2> HIDE DEF none
  <2> QED
    BY <1>1, <2>1, <2>3, EmptiedSound DEF e
<1>6. Held(Decoder) \o Unfed = Wire(Expected)
  BY <1>3, <1>4, <1>5, ConcatEmptySeq
<1>7. Stuck(Decoder)
  BY <1>1 DEF Stuck, HeaderSize
<1>8. Len(frames) + Len(errors) \in 0 .. Len(sent) /\ fed \in 0 .. Len(Encoded)
  BY <1>1, <1>3
<1>9. totalLength <= 2 * MaxFrameSize
  BY <1>1, FrameDecoderAssumption
<1>10. \A i \in 1 .. Len(errors) : errors[i] # "fault"
  BY <1>1
<1> QED
  BY <1>1, <1>5, <1>6, <1>7, <1>8, <1>9, <1>10 DEF DecoderInv

LEMMA InvHolds == Spec => []DecoderInv
BY InvInit, InvStep, PTL DEF Spec

-----------------------------------------------------------------------------
(* In every state the decoder's variables have their types: no more bytes  *)
(* are ever kept than the limit on the whole buffer, and the index of the  *)
(* first chunk stays inside the list.                                      *)
THEOREM TypeCorrect == Spec => []TypeOK
<1>1. ASSUME DecoderInv PROVE TypeOK
  <2>1. /\ frames \in Seq(Frame) /\ errors \in Seq({"limit", "large", "fault"})
        /\ totalLength \in Nat
    BY <1>1, SentTypes
  <2>2. /\ framing \in {"message", "stream"} /\ sent \in Streams
        /\ fed \in 0 .. Len(Encoded) /\ totalLength <= 2 * MaxFrameSize
    BY <1>1 DEF DecoderInv
  <2>3. /\ chunks \in Seq(Seq(Nat)) /\ chunkStart \in Nat /\ chunkOffset \in Nat
        /\ chunkStart <= Len(chunks) /\ Len(chunks) \in Nat
    <3>1. Decoder \in States /\ Decoder.start <= Len(Decoder.chunks)
      BY <1>1 DEF DecoderInv, Sound, Fit
    <3> QED
      BY <3>1, StateFields, DecoderFields
  <2>4. totalLength \in 0 .. 2 * MaxFrameSize /\ chunkStart \in 0 .. Len(chunks)
    BY <2>1, <2>2, <2>3, FrameDecoderAssumption
  <2> QED
    BY <2>1, <2>2, <2>3, <2>4 DEF TypeOK
<1> QED
  BY <1>1, InvHolds, PTL

(* The bytes held are the last ones fed.                                   *)
LEMMA HeldIsTail ==
  ASSUME DecoderInv, totalLength # 0
  PROVE  Held(Decoder) = SubSeq(Encoded, fed - totalLength + 1, fed)
<1> DEFINE a == Len(frames) + Len(errors)
           h == Held(Decoder)
           p == Wire(UpTo(sent, a))
           m == fed - totalLength
<1>1. /\ sent \in Seq(Frame) /\ a \in 0 .. Len(sent) /\ Encoded \in Seq(Nat)
      /\ h \in Seq(Nat) /\ Unfed \in Seq(Nat) /\ Len(Unfed) = Len(Encoded) - fed
      /\ Len(h) = totalLength /\ totalLength \in Nat /\ fed \in 0 .. Len(Encoded)
      /\ Len(Encoded) \in Nat
  BY SentTypes DEF DecoderInv
<1>2. h \o Unfed = Wire(Expected)
  BY DEF DecoderInv, Listening
<1>3. Encoded = p \o (h \o Unfed) /\ p \in Seq(Nat)
  <2>1. /\ UpTo(sent, a) \in Seq(Frame) /\ From(sent, a) \in Seq(Frame)
        /\ UpTo(sent, a) \o From(sent, a) = sent
    BY <1>1, UpToSeq, FromSeq, Split
  <2>2. Wire(sent) = p \o Wire(From(sent, a)) /\ p \in Seq(Nat)
    BY <2>1, WireConcat, WireType
  <2> QED
    BY <1>2, <2>2 DEF Encoded, Expected
<1> HIDE DEF a, h, p
<1>4. /\ h \o Unfed \in Seq(Nat) /\ Len(h \o Unfed) = Len(h) + Len(Unfed)
      /\ Len(Encoded) = Len(p) + Len(h \o Unfed) /\ Len(p) \in Nat
  <2> DEFINE t == h \o Unfed
  <2>1. t \in Seq(Nat) /\ Len(t) = Len(h) + Len(Unfed)
    BY <1>1, ConcatProperties
  <2> HIDE DEF t
  <2>2. Len(p \o t) = Len(p) + Len(t) /\ Len(p) \in Nat
    BY <1>3, <2>1, ConcatProperties, LenProperties
  <2> QED
    BY <1>3, <2>1, <2>2 DEF t
<1>5. m = Len(p) /\ m \in Nat /\ m + totalLength = fed
  <2>1. Len(Encoded) = Len(p) + (totalLength + (Len(Encoded) - fed))
    BY <1>1, <1>4
  <2>2. /\ Len(p) \in Nat /\ totalLength \in Nat /\ fed \in Nat
        /\ Len(Encoded) \in Nat
    BY <1>1, <1>4
  <2> QED
    BY ONLY <2>1, <2>2
<1> HIDE DEF m
<1>6. From(Encoded, m) = h \o Unfed
  <2> DEFINE t == h \o Unfed
  <2>1. t \in Seq(Nat) /\ Encoded = p \o t
    BY <1>3, <1>4
  <2> HIDE DEF t
  <2>2. 0 \in 0 .. Len(t)
    BY <2>1, LenProperties
  <2>3. From(p \o t, Len(p) + 0) = From(t, 0)
    BY <1>3, <2>1, <2>2, FromBehind
  <2>4. From(t, 0) = t /\ Len(p) + 0 = m
    BY <1>5, <2>1, FromNone
  <2> QED
    BY <2>1, <2>3, <2>4 DEF t
<1>7. Chunk(Encoded, m, totalLength) = UpTo(From(Encoded, m), totalLength)
  <2>1. /\ totalLength \in Nat /\ totalLength # 0 /\ Encoded \in Seq(Nat)
        /\ m \in Nat /\ m + totalLength <= Len(Encoded)
    BY <1>1, <1>5
  <2> QED
    BY ONLY <2>1, ChunkFed, SMTT(30)
<1>8. UpTo(h \o Unfed, Len(h)) = h
  <2> DEFINE t == h \o Unfed
             none == <<>>
  <2>1. t \in Seq(Nat) /\ Len(h) <= Len(t) /\ t = h \o Unfed
    BY <1>1, <1>4
  <2>2. none \in Seq(Nat)
    OBVIOUS
  <2>3. t \o none = t
    BY <2>1, ConcatEmptySeq
  <2> HIDE DEF t, none
  <2>4. t \o none = h \o Unfed
    BY <2>1, <2>3
  <2>5. UpTo(t, Len(h)) = h
    BY ONLY <1>1, <2>1, <2>2, <2>4, Cut
  <2> QED
    BY <2>5 DEF t
<1> QED
  BY <1>1, <1>5, <1>6, <1>7, <1>8 DEF h, m, Chunk

(* Between two calls of push() the chunks hold exactly the last            *)
(* totalLength bytes that were fed, and no whole frame: no frame that has  *)
(* arrived waits for the next message, and _peek and _consume meet no      *)
(* integrity fault, whatever the frames and however their bytes are cut.   *)
THEOREM BufferHoldsWhatArrived == Spec => []BufferExact
<1>1. ASSUME DecoderInv PROVE BufferExact
  <2>1. /\ totalLength = Len(Held(Decoder)) /\ totalLength \in Nat
        /\ Held(Decoder) \in Seq(Nat) /\ Encoded \in Seq(Nat) /\ fed \in Nat
        /\ \A i \in 1 .. Len(errors) : errors[i] # "fault"
    BY <1>1, SentTypes DEF DecoderInv
  <2>2. Held(Decoder) = SubSeq(Encoded, fed - totalLength + 1, fed)
    <3>1. CASE totalLength = 0
      <4>1. Held(Decoder) = <<>>
        BY <2>1, <3>1, EmptySeq
      <4>2. SubSeq(Encoded, fed - totalLength + 1, fed) = SubSeq(Encoded, fed + 1, fed)
        BY <2>1, <3>1
      <4>3. SubSeq(Encoded, fed + 1, fed) = <<>>
        BY <2>1, SubSeqEmpty
      <4> QED
        BY <4>1, <4>2, <4>3
    <3> QED
      BY <1>1, <3>1, HeldIsTail
  <2>3. chunkOffset > 0 => Available(Decoder) > 0
    <3>1. /\ Fit(Decoder) /\ Decoder \in States
      BY <1>1 DEF DecoderInv, Sound, Fit
    <3>2. /\ Decoder.chunks \in Seq(Seq(Nat)) /\ Len(Decoder.chunks) \in Nat
          /\ Decoder.start \in Nat /\ Decoder.offset \in Nat /\ Decoder.offset = chunkOffset
      BY <3>1, StateFields, DecoderFields
    <3>3. ASSUME chunkOffset > 0
          PROVE  Decoder.start < Len(Decoder.chunks) /\ Decoder.offset < Len(First(Decoder))
      BY <3>1, <3>2, <3>3 DEF Fit
    <3>4. ASSUME chunkOffset > 0
          PROVE  Len(First(Decoder)) \in Nat
      <4>1. Decoder.start + 1 \in 1 .. Len(Decoder.chunks)
        BY <3>2, <3>3, <3>4
      <4>2. First(Decoder) \in Seq(Nat)
        BY <3>2, <4>1, ElementOfSeq DEF First
      <4> QED
        BY <4>2, LenProperties
    <3> QED
      BY <3>2, <3>3, <3>4 DEF Available
  <2>4. totalLength >= HeaderSize => totalLength < HeaderSize + Held(Decoder)[3]
    <3> SUFFICES ASSUME totalLength >= HeaderSize
                 PROVE  totalLength < HeaderSize + Held(Decoder)[3]
      OBVIOUS
    <3>1. totalLength # 0 /\ ~(totalLength < HeaderSize)
      BY <2>1 DEF HeaderSize
    <3>2. Listening
      BY <1>1, <3>1 DEF DecoderInv, Listening
    <3>3. Stuck(Decoder)
      BY <1>1, <3>2 DEF DecoderInv
    <3> QED
      BY <3>1, <3>3, DecoderFields DEF Stuck
  <2> QED
    BY <2>1, <2>2, <2>3, <2>4 DEF BufferExact
<1> QED
  BY <1>1, InvHolds, PTL

(* What is kept is bounded: however long the decoder lives, the bytes by   *)
(* the limit on the buffer, and the chunks in front of the first one in    *)
(* use by CompactAt or half of the list.                                   *)
THEOREM ChunksReleased == Spec => []Retention
<1>1. ASSUME DecoderInv PROVE Retention
  <2>1. totalLength <= 2 * MaxFrameSize
    BY <1>1 DEF DecoderInv
  <2>2. chunkStart <= Len(chunks)
    BY <1>1, DecoderFields DEF DecoderInv, Sound, Fit
  <2>3. chunkStart <= CompactAt \/ chunkStart * 2 <= Len(chunks)
    BY <1>1, DecoderFields DEF DecoderInv, Sound, Retained
  <2> QED
    BY <2>1, <2>2, <2>3 DEF Retention
<1> QED
  BY <1>1, InvHolds, PTL

(* MAX_FRAME_SIZE is at least as large as a header.  Below that two limits *)
(* leave no room for the header of a small message, which is refused.      *)
LimitHoldsHeader == MaxFrameSize >= HeaderSize

(* A message that overruns the buffer is a frame that is too large.        *)
LEMMA OverrunIsLarge ==
  ASSUME LimitHoldsHeader, DecoderInv, framing = "message", NEW n, NEW k,
         Overruns(n, k)
  PROVE  Large(Expected[1])
<1>1. /\ totalLength = 0 /\ Expected # <<>> /\ Expected \in Seq(Frame)
      /\ n = Len(Encode(Expected[1])) /\ totalLength + n > 2 * MaxFrameSize
  BY SentTypes DEF DecoderInv, Overruns
<1>2. Expected[1] \in Frame
  BY <1>1, WireFirst
<1>3. n = 3 + Len(Expected[1].payload) /\ Len(Expected[1].payload) \in Nat
  BY <1>1, <1>2, EncodeBytes, LenProperties DEF HeaderSize
<1>4. MaxFrameSize \in Nat /\ MaxFrameSize >= 3
  BY FrameDecoderAssumption DEF LimitHoldsHeader, HeaderSize
<1> QED
  BY ONLY <1>1, <1>3, <1>4 DEF Large

(* A stream overruns it only with a long chunk.                            *)
LEMMA OverrunIsLong ==
  ASSUME DecoderInv, Listening, NEW n \in Nat, NEW k, Overruns(n, k)
  PROVE  n > MaxFrameSize - HeaderSize + 1
<1>1. /\ totalLength + n > 2 * MaxFrameSize /\ totalLength \in Nat
      /\ Held(Decoder) \in Seq(Nat) /\ Stuck(Decoder) /\ Decoder.total = totalLength
  BY SentTypes, DecoderFields DEF DecoderInv, Overruns
<1>2. MaxFrameSize \in Nat
  BY FrameDecoderAssumption
<1>3. totalLength < 3 + MaxFrameSize
  <2>1. CASE totalLength < 3
    BY <1>1, <1>2, <2>1
  <2>2. CASE totalLength >= 3
    <3>1. /\ Held(Decoder)[3] <= MaxFrameSize
          /\ totalLength < 3 + Held(Decoder)[3]
      BY <1>1, <2>2 DEF Stuck, HeaderSize
    <3>2. Held(Decoder)[3] \in Nat
      <4>1. 3 \in 1 .. Len(Held(Decoder))
        BY <2>2, SentTypes
      <4> QED
        BY <1>1, <4>1, ElementOfSeq
    <3> QED
      BY ONLY <1>1, <1>2, <3>1, <3>2
  <2> QED
    BY <1>1, <2>1, <2>2
<1> QED
  BY ONLY <1>1, <1>2, <1>3 DEF HeaderSize

(* The next frame that is expected, in the sequence that was sent.         *)
LEMMA NextSent ==
  ASSUME DecoderInv, NEW n, NEW k, Outcome(n, k), Refuses(k) \/ Overruns(n, k)
  PROVE  sent[Len(frames') + Len(errors')] = Expected[k + 1]
<1> DEFINE a == Len(frames) + Len(errors)
<1>1. /\ sent \in Seq(Frame) /\ a \in 0 .. Len(sent) /\ Len(sent) \in Nat
      /\ Len(frames) \in Nat /\ Len(errors) \in Nat /\ Len(Expected) = Len(sent) - a
  BY SentTypes DEF DecoderInv
<1>2. /\ Len(frames') = Len(frames) + k /\ k \in Nat
      /\ Len(errors') = Len(errors) + 1 /\ k < Len(Expected)
  BY AfterPush
<1>3. Len(frames') + Len(errors') = a + (k + 1)
  BY <1>1, <1>2
<1>4. k + 1 \in 1 .. Len(sent) - a
  BY <1>1, <1>2
<1>5. Expected = From(sent, a)
  BY DEF Expected
<1> HIDE DEF a
<1>6. From(sent, a)[k + 1] = sent[a + (k + 1)]
  BY <1>1, <1>4, FromSeq
<1> QED
  BY <1>3, <1>5, <1>6

(* A frame that is small enough is never refused, as long as no chunk of a *)
(* stream is longer than what the limit on the whole buffer leaves next to *)
(* an incomplete frame; one that comes as a message never is.              *)
THEOREM LegalFramesPass ==
  ASSUME LimitHoldsHeader
  PROVE  Spec => LegalNeverRefused
<1> DEFINE Refused(n) ==
             Push(n) /\ errors' # errors =>
               \/ Len(sent[Len(frames') + Len(errors')].payload) > MaxFrameSize
               \/ framing = "stream" /\ n > MaxFrameSize - HeaderSize + 1
<1>1. ASSUME DecoderInv PROVE \A n \in 1 .. Len(Encoded) : Refused(n)
  <2> SUFFICES ASSUME NEW n \in 1 .. Len(Encoded), Push(n), errors' # errors
               PROVE  \/ Large(sent[Len(frames') + Len(errors')])
                      \/ framing = "stream" /\ n > MaxFrameSize - HeaderSize + 1
    BY DEF Large
  <2>1. PICK k : Outcome(n, k)
    BY <1>1, PushOutcome
  <2>2. Listening /\ n \in Nat /\ framing \in {"message", "stream"}
    BY <1>1, PushListens DEF DecoderInv
  <2>3. Refuses(k) \/ Overruns(n, k)
    BY <2>1 DEF Outcome, Waits
  <2>4. sent[Len(frames') + Len(errors')] = Expected[k + 1]
    BY <1>1, <2>1, <2>3, NextSent
  <2>5. CASE Refuses(k)
    BY <2>4, <2>5 DEF Refuses
  <2>6. CASE Overruns(n, k)
    <3>1. CASE framing = "stream"
      BY <1>1, <2>2, <2>6, <3>1, OverrunIsLong
    <3>2. CASE framing = "message"
      <4>1. Large(Expected[1]) /\ k = 0
        BY <1>1, <2>6, <3>2, OverrunIsLarge DEF Overruns
      <4> QED
        BY <2>4, <4>1
    <3> QED
      BY <2>2, <3>1, <3>2
  <2> QED
    BY <2>3, <2>5, <2>6
<1>2. ASSUME DecoderInv
      PROVE  [\A n \in 1 .. Len(Encoded) : Refused(n)]_vars
  BY <1>1, <1>2
<1> QED
  BY <1>2, InvHolds, PTL DEF LegalNeverRefused

-----------------------------------------------------------------------------
LEMMA TailIsFrom ==
  ASSUME NEW S, NEW q \in Seq(S), q # <<>>
  PROVE  Tail(q) = From(q, 1) /\ Head(q) = q[1]
<1>1. Len(q) \in Nat \ {0} /\ 1 \in 0 .. Len(q)
  BY LenProperties, EmptySeq
<1>2. /\ From(q, 1) \in Seq(S) /\ Len(From(q, 1)) = Len(q) - 1
      /\ \A i \in 1 .. Len(q) - 1 : From(q, 1)[i] = q[1 + i]
  BY <1>1, FromSeq
<1>3. /\ Tail(q) \in Seq(S) /\ Len(Tail(q)) = Len(q) - 1
      /\ \A i \in 1 .. Len(Tail(q)) : Tail(q)[i] = q[i + 1]
  BY HeadTailProperties
<1>4. \A i \in 1 .. Len(Tail(q)) : Tail(q)[i] = From(q, 1)[i]
  BY <1>1, <1>2, <1>3
<1>5. Tail(q) = From(q, 1)
  BY <1>2, <1>3, <1>4, SeqEqual
<1> QED
  BY <1>5

(* Every push is a step of FrameStream, or leaves its state alone.         *)
LEMMA StreamStep ==
  ASSUME LimitHoldsHeader, DecoderInv, [Next]_vars
  PROVE  [Abstract!Next]_(Abstract!vars)
<1>1. ASSUME NEW n \in 1 .. Len(Encoded), Push(n)
      PROVE  Abstract!Next \/ UNCHANGED <<framing, Pending, frames>>
  <2>1. PICK k : Outcome(n, k)
    BY <1>1, PushOutcome
  <2>2. Listening /\ framing \in {"message", "stream"}
    BY <1>1, PushListens DEF DecoderInv
  <2>3. /\ Expected \in Seq(Frame) /\ frames \in Seq(Frame) /\ Len(Expected) \in Nat
        /\ errors \in Seq({"limit", "large", "fault"})
    BY SentTypes, LenProperties
  <2>4. Pending = Expected
    BY <2>2 DEF Pending, Expected, From, Listening
  <2>5. Pending' = IF framing' = "stream" /\ errors' # <<>> THEN <<>> ELSE Expected'
    BY DEF Pending, Expected, From
  <2>6. /\ k \in 0 .. Len(Expected) /\ k \in Nat /\ framing' = framing
        /\ \A j \in 1 .. k : ~Abstract!TooLarge(Expected[j])
        /\ frames' = frames \o SubSeq(Expected, 1, k)
    BY <2>1, <2>3 DEF Outcome, Large, Abstract!TooLarge, UpTo
  <2>7. ASSUME k = 0 PROVE frames' = frames
    BY <2>1, <2>3, <2>7, UpToNone, ConcatEmptySeq DEF Outcome
  <2>8. CASE Waits(k)
    <3>1. Expected' = From(Expected, k) /\ errors' = errors
      BY <2>1, <2>8, AfterPush DEF Waits
    <3>2. Pending' = From(Expected, k)
      BY <2>2, <2>5, <2>6, <3>1 DEF Listening
    <3>3. CASE k = 0
      BY <2>3, <2>4, <2>6, <2>7, <3>2, <3>3, FromNone
    <3>4. CASE k # 0
      <4>1. k \in 1 .. Len(Expected)
        BY <2>3, <2>6, <3>4
      <4>2. Abstract!Deliver
        BY <2>4, <2>6, <3>2, <4>1 DEF Abstract!Deliver, From
      <4> QED
        BY <4>2 DEF Abstract!Next
    <3> QED
      BY <3>3, <3>4
  <2>9. CASE Refuses(k) \/ Overruns(n, k)
    <3>1. /\ Expected' = From(Expected, k + 1) /\ Len(errors') = Len(errors) + 1
          /\ Len(errors) \in Nat /\ k < Len(Expected)
      BY <2>1, <2>9, AfterPush, SentTypes
    <3>2. CASE framing = "stream"
      <4>1. errors' # <<>>
        BY <3>1
      <4>2. Pending' = <<>>
        BY <2>5, <2>6, <3>2, <4>1
      <4>3. Abstract!GiveUp
        BY <2>4, <2>6, <3>2, <4>2 DEF Abstract!GiveUp
      <4> QED
        BY <4>3 DEF Abstract!Next
    <3>3. CASE framing = "message"
      <4>1. k = 0 /\ Large(Expected[1])
        <5>1. CASE Refuses(k)
          BY <3>3, <5>1 DEF Refuses
        <5>2. CASE Overruns(n, k)
          BY <3>3, <5>2, OverrunIsLarge DEF Overruns
        <5> QED
          BY <2>9, <5>1, <5>2
      <4>2. Expected # <<>>
        BY <3>1, <4>1
      <4>3. Pending' = Tail(Expected) /\ Head(Expected) = Expected[1]
        <5>1. Pending' = From(Expected, 1)
          BY <2>5, <2>6, <3>1, <3>3, <4>1
        <5> QED
          BY <2>3, <4>2, <5>1, TailIsFrom
      <4>4. frames' = frames
        BY <2>7, <4>1
      <4>5. Abstract!TooLarge(Head(Pending))
        BY <2>4, <4>1, <4>3 DEF Large, Abstract!TooLarge
      <4>6. Abstract!LeaveOut
        BY <2>4, <2>6, <3>3, <4>2, <4>3, <4>4, <4>5 DEF Abstract!LeaveOut
      <4> QED
        BY <4>6 DEF Abstract!Next
    <3> QED
      BY <2>2, <3>2, <3>3
  <2> QED
    BY <2>1, <2>8, <2>9 DEF Outcome
<1>2. CASE UNCHANGED vars
  BY <1>2 DEF vars, Abstract!vars, Pending
<1> QED
  BY <1>1, <1>2 DEF Next, Abstract!vars

(* The decoder implements FrameStream: however the bytes are cut, its      *)
(* listeners get the frames that were sent, in order, none twice, none     *)
(* altered and none mixed from two; with a message per frame exactly those *)
(* that are small enough.                                                  *)
THEOREM ImplementsStream ==
  ASSUME LimitHoldsHeader
  PROVE  Spec => ImplementsFrameStream
<1>1. Init => Abstract!Init
  BY DEF Init, Abstract!Init
<1>2. ASSUME DecoderInv, [Next]_vars
      PROVE  [Abstract!Next]_(Abstract!vars)
  BY <1>2, StreamStep
<1> QED
  BY <1>1, <1>2, InvHolds, PTL DEF Spec, ImplementsFrameStream, Abstract!Spec
=============================================================================
