------------------------- MODULE CryptoStreamProofs --------------------------
(***************************************************************************)
(* The proofs about CryptoStream, for every even width of the counters and *)
(* every number of messages.                                               *)
(*                                                                         *)
(* Both counters are a position modulo 2^w, so the difference that         *)
(* decryptMessage looks at is the distance between two positions as long   *)
(* as that is less than the range, before as well as ahead.  The invariant *)
(* says so of the counters, of every message on the way and, when the link *)
(* is faithful, of what exactly is on the way.                             *)
(***************************************************************************)
EXTENDS CryptoStream, SequenceTheorems, TLAPS

-----------------------------------------------------------------------------
(* Remainders.                                                             *)

LEMMA ModulusType == Modulus \in Nat \ {0, 1}
  BY CryptoStreamAssumption

(* A remainder in range is the remainder.                                  *)
LEMMA RemainderUnique ==
  ASSUME NEW a \in Int, NEW q \in Int, NEW r \in 0 .. Modulus - 1, a = q * Modulus + r
  PROVE  a % Modulus = r
  BY ModulusType

LEMMA RemainderType ==
  ASSUME NEW a \in Int
  PROVE  a % Modulus \in 0 .. Modulus - 1
  BY ModulusType

(* The counters of two positions differ, modulo 2^w, as the positions do.  *)
LEMMA DifferenceOfCounters ==
  ASSUME NEW p \in Int, NEW b \in Int, NEW q \in Int, NEW d \in 0 .. Modulus - 1,
         p - b = q * Modulus + d
  PROVE  ((p % Modulus) - (b % Modulus)) % Modulus = d
  <1>0. Modulus \in Nat \ {0}
    BY ModulusType
  <1> DEFINE x == p \div Modulus
             y == b \div Modulus
  <1>1. x \in Int /\ y \in Int
    BY <1>0
  <1>2. p = x * Modulus + (p % Modulus) /\ b = y * Modulus + (b % Modulus)
    BY <1>0
  <1>3. p % Modulus \in Int /\ b % Modulus \in Int
    BY RemainderType
  <1> HIDE DEF x, y
  <1>4. (p % Modulus) - (b % Modulus) = (q - x + y) * Modulus + d
    BY <1>0, <1>1, <1>2, <1>3
  <1> QED
    BY <1>1, <1>3, <1>4, RemainderUnique

(* Of a position ahead, and of one behind, by less than the range.         *)
LEMMA DifferenceAhead ==
  ASSUME NEW p \in Int, NEW b \in Int, p - b \in 0 .. Modulus - 1
  PROVE  ((p % Modulus) - (b % Modulus)) % Modulus = p - b
  <1> DEFINE q == 0
  <1>1. q \in Int /\ p - b = q * Modulus + (p - b)
    BY ModulusType
  <1> HIDE DEF q
  <1> QED
    BY <1>1, DifferenceOfCounters

LEMMA DifferenceBehind ==
  ASSUME NEW p \in Int, NEW b \in Int, NEW d \in 0 .. Modulus - 1, p - b = d - Modulus
  PROVE  ((p % Modulus) - (b % Modulus)) % Modulus = d
  <1> DEFINE q == -1
  <1>1. q \in Int /\ p - b = q * Modulus + d
    BY ModulusType
  <1> HIDE DEF q
  <1> QED
    BY <1>1, DifferenceOfCounters

(* A counter that is incremented is the counter of the next position.      *)
LEMMA IncrementOfCounter ==
  ASSUME NEW p \in Int
  PROVE  Increment(p % Modulus) = (p + 1) % Modulus
  <1>0. Modulus \in Nat \ {0}
    BY ModulusType
  <1> DEFINE x == p \div Modulus
             r == ((p % Modulus) + 1) % Modulus
             y == ((p % Modulus) + 1) \div Modulus
  <1>1. x \in Int /\ p % Modulus \in Int /\ p = x * Modulus + (p % Modulus)
    BY <1>0, RemainderType
  <1>2. y \in Int /\ r \in 0 .. Modulus - 1 /\ (p % Modulus) + 1 = y * Modulus + r
    BY <1>0, <1>1
  <1> HIDE DEF x, y, r
  <1>3. p + 1 = (x + y) * Modulus + r
    BY <1>0, <1>1, <1>2
  <1>4. (p + 1) % Modulus = r
    BY <1>1, <1>2, <1>3, RemainderUnique
  <1> QED
    BY <1>4 DEF Increment, r

-----------------------------------------------------------------------------
(* The invariant.                                                          *)

(* The counters are positions modulo 2^w, and the sender is no further     *)
(* ahead than the window.                                                  *)
Counters ==
  /\ outSeq = encrypted % Modulus
  /\ expectedInSeq = Position % Modulus
  /\ Position <= encrypted /\ encrypted <= Position + Window

(* So are those of the messages on the way.                                *)
OnTheWay ==
  \A j \in 1 .. Len(link) :
    link[j].pos < encrypted /\ link[j].seq = link[j].pos % Modulus

(* A faithful link holds what was sent and not yet returned.               *)
Faithful ==
  faithful =>
    /\ ~terminated
    /\ Len(link) = encrypted - Position
    /\ \A j \in 1 .. Len(link) : link[j].pos = Position + j - 1

IInv == TypeOK /\ Counters /\ OnTheWay /\ Faithful /\ StrictPrefix /\ NoReplay

LEMMA PositionType ==
  ASSUME TypeOK
  PROVE  Position \in Nat
  BY DEF TypeOK, Position

LEMMA WindowType == /\ Window \in Nat \ {0} /\ Window < Modulus
                    /\ ~strict => 2 * Window = Modulus
  BY CryptoStreamAssumption DEF Window

LEMMA IInvInit == Init => IInv
  <1> SUFFICES ASSUME Init PROVE IInv
    OBVIOUS
  <1>1. TypeOK
    <2>1. 0 \in 0 .. Modulus - 1 /\ link = <<>> /\ accepted = <<>>
      BY ModulusType DEF Init
    <2> QED
      BY <2>1, EmptySeq DEF Init, TypeOK
  <1>2. Position = 0
    BY DEF Init, Position
  <1>3. 0 % Modulus = 0
    BY RemainderUnique, ModulusType
  <1> QED
    BY <1>1, <1>2, <1>3, WindowType
       DEF Init, IInv, Counters, OnTheWay, Faithful, StrictPrefix, NoReplay

-----------------------------------------------------------------------------
(* Taking messages off the link, with or without keeping a copy, leaves    *)
(* messages that were there.                                               *)
LEMMA WithoutKeeps ==
  ASSUME TypeOK, NEW j \in 1 .. Len(link)
  PROVE  /\ Without(link, j) \in Seq(Messages)
         /\ \A i \in 1 .. Len(Without(link, j)) :
              \E m \in 1 .. Len(link) : Without(link, j)[i] = link[m]
  <1> DEFINE a == SubSeq(link, 1, j - 1)
             b == SubSeq(link, j + 1, Len(link))
  <1>1. link \in Seq(Messages)
    BY DEF TypeOK, Messages
  <1>2. /\ a \in Seq(Messages) /\ Len(a) = j - 1
        /\ \A i \in 1 .. Len(a) : a[i] = link[i]
    BY <1>1
  <1>3. /\ b \in Seq(Messages) /\ Len(b) = Len(link) - j
        /\ \A i \in 1 .. Len(b) : b[i] = link[j + i]
    BY <1>1
  <1>4. Without(link, j) = a \o b
    BY DEF Without
  <1> HIDE DEF a, b
  <1>5. a \o b \in Seq(Messages) /\ Len(a \o b) = Len(a) + Len(b)
    BY <1>2, <1>3, ConcatProperties
  <1>6. ASSUME NEW i \in 1 .. Len(a \o b)
        PROVE  \E m \in 1 .. Len(link) : (a \o b)[i] = link[m]
    <2>1. CASE i <= Len(a)
      <3>1. i \in 1 .. Len(link) /\ (a \o b)[i] = link[i]
        BY <1>1, <1>2, <1>3, <2>1
      <3> QED
        BY <3>1
    <2>2. CASE i > Len(a)
      <3>1. /\ i - Len(a) \in 1 .. Len(b) /\ (a \o b)[i] = b[i - Len(a)]
            /\ j + (i - Len(a)) \in 1 .. Len(link)
        BY <1>1, <1>2, <1>3, <1>5, <2>2
      <3> QED
        BY <1>3, <3>1
    <2> QED
      BY <1>2, <2>1, <2>2
  <1> QED
    BY <1>4, <1>5, <1>6

(* What stays on the link after an arrival or a loss.                      *)
Stays(q) ==
  /\ q \in Seq(Messages)
  /\ \A i \in 1 .. Len(q) : \E m \in 1 .. Len(link) : q[i] = link[m]

LEMMA LeftoverStays ==
  ASSUME TypeOK, NEW j \in 1 .. Len(link), NEW q \in Leftover(j)
  PROVE  Stays(q)
  <1>1. CASE q = Tail(link)
    <2>1. link \in Seq(Messages) /\ link # <<>>
      BY DEF TypeOK
    <2>2. /\ q \in Seq(Messages) /\ Len(q) = Len(link) - 1
          /\ \A i \in 1 .. Len(q) : q[i] = link[i + 1]
      BY <1>1, <2>1
    <2>3. \A i \in 1 .. Len(q) : i + 1 \in 1 .. Len(link)
      BY <2>1, <2>2
    <2> QED
      BY <2>2, <2>3 DEF Stays
  <1>2. CASE q = link
    BY <1>2 DEF TypeOK, Stays
  <1>3. CASE q = Without(link, j)
    BY <1>3, WithoutKeeps DEF Stays
  <1> QED
    BY <1>1, <1>2, <1>3 DEF Leftover

LEMMA StaysOnTheWay ==
  ASSUME TypeOK, OnTheWay, Stays(link'), encrypted' = encrypted
  PROVE  OnTheWay'
  BY DEF OnTheWay, Stays

(* The sender.                                                             *)
LEMMA EncryptKeeps ==
  ASSUME IInv, EncryptMessage
  PROVE  IInv'
  <1> DEFINE m == [pos |-> encrypted, seq |-> outSeq]
  <1>1. /\ encrypted \in Nat /\ Position \in Nat /\ Window \in Nat
        /\ m \in Messages
        /\ link \in Seq(Messages) /\ Len(link) \in Nat
    BY PositionType, WindowType DEF IInv, TypeOK, Messages
  <1>2. Position' = Position /\ Window' = Window
    BY DEF EncryptMessage, Position, Window, setting
  <1>3. outSeq' = (encrypted + 1) % Modulus
    BY <1>1, IncrementOfCounter DEF EncryptMessage, IInv, Counters
  <1>4. /\ link' \in Seq(Messages)
        /\ Len(link') = Len(link) + 1
        /\ link'[Len(link) + 1].pos = encrypted
        /\ link'[Len(link) + 1].seq = outSeq
        /\ \A j \in 1 .. Len(link) : link'[j] = link[j]
    BY <1>1 DEF EncryptMessage
  <1>5. TypeOK'
    <2>1. outSeq' \in 0 .. Modulus - 1
      BY <1>1, <1>3, RemainderType
    <2> QED
      BY <1>1, <1>4, <2>1 DEF EncryptMessage, IInv, TypeOK, setting
  <1>6. Counters'
    BY <1>1, <1>2, <1>3 DEF EncryptMessage, IInv, Counters
  <1>7. OnTheWay'
    <2> SUFFICES ASSUME NEW j \in 1 .. Len(link) + 1
                 PROVE  /\ link'[j].pos < encrypted + 1
                        /\ link'[j].seq = link'[j].pos % Modulus
      BY <1>4 DEF OnTheWay, EncryptMessage
    <2>1. CASE j = Len(link) + 1
      BY <1>1, <1>4, <2>1 DEF IInv, Counters
    <2>2. CASE j \in 1 .. Len(link)
      <3>1. link[j] \in Messages
        BY <1>1, <2>2
      <3>2. link[j].pos \in Nat
        BY <3>1 DEF Messages
      <3> QED
        BY <1>1, <1>4, <2>2, <3>2 DEF IInv, OnTheWay
    <2> QED
      BY <1>1, <2>1, <2>2
  <1>8. Faithful'
    <2>1. CASE ~faithful
      BY <2>1 DEF EncryptMessage, setting, Faithful
    <2>2. CASE faithful
      <3>1. /\ ~terminated
            /\ Len(link) = encrypted - Position
            /\ \A j \in 1 .. Len(link) : link[j].pos = Position + j - 1
        BY <2>2 DEF IInv, Faithful
      <3> HIDE DEF m
      <3>2. ~terminated'
        BY <3>1 DEF EncryptMessage
      <3>3. encrypted' = encrypted + 1
        BY DEF EncryptMessage
      <3>4. Len(link') = encrypted' - Position'
        BY <1>1, <1>2, <1>4, <3>1, <3>3
      <3>5. ASSUME NEW j \in 1 .. Len(link')
            PROVE  link'[j].pos = Position' + j - 1
        <4>1. CASE j = Len(link) + 1
          BY <1>1, <1>2, <1>4, <3>1, <4>1
        <4>2. CASE j \in 1 .. Len(link)
          BY <1>2, <1>4, <3>1, <4>2
        <4> QED
          BY <1>1, <1>4, <4>1, <4>2
      <3> QED
        BY <3>2, <3>4, <3>5 DEF Faithful
    <2> QED
      BY <2>1, <2>2
  <1>9. StrictPrefix' /\ NoReplay'
    BY DEF EncryptMessage, IInv, StrictPrefix, NoReplay, setting
  <1> QED
    BY <1>5, <1>6, <1>7, <1>8, <1>9 DEF IInv

-----------------------------------------------------------------------------
(* The receiver.  For a message that can arrive the difference of the      *)
(* counters is the distance of the positions; one that is behind seems to  *)
(* be at least Modulus - Window ahead.                                     *)
LEMMA DistanceSeen ==
  ASSUME IInv, NEW j \in Arrivals
  PROVE  /\ j \in 1 .. Len(link)
         /\ link[j].pos \in Nat /\ link[j].seq = link[j].pos % Modulus
         /\ link[j].pos < Position + Window
         /\ link[j].pos >= Position => Difference(link[j].seq) = link[j].pos - Position
         /\ link[j].pos < Position =>
              Difference(link[j].seq) >= Modulus - Window
         /\ faithful => j = 1 /\ link[j].pos = Position
  <1>0. /\ Modulus \in Nat \ {0, 1} /\ Position \in Nat /\ encrypted \in Nat
        /\ Window \in Nat \ {0} /\ Window < Modulus
    BY CryptoStreamAssumption, PositionType, WindowType DEF IInv, TypeOK
  <1>1. j \in 1 .. Len(link)
    BY DEF Arrivals
  <1>2. link[j] \in Messages
    BY <1>1 DEF IInv, TypeOK
  <1> DEFINE p == link[j].pos
  <1>3. p \in Nat /\ link[j].seq = p % Modulus /\ p < encrypted
    BY <1>1, <1>2 DEF IInv, OnTheWay, Messages
  <1>4. p < Position + Window
    BY <1>0, <1>3 DEF IInv, Counters
  <1>5. faithful => j = 1 /\ p = Position
    BY <1>0, <1>1 DEF Arrivals, IInv, Faithful
  <1>6. p >= Position - Window
    BY <1>0, <1>3, <1>5 DEF Arrivals
  <1>7. Difference(link[j].seq) = ((p % Modulus) - (Position % Modulus)) % Modulus
    BY <1>3 DEF Difference, IInv, Counters
  <1> HIDE DEF p
  <1>8. p >= Position => Difference(link[j].seq) = p - Position
    <2> SUFFICES ASSUME p >= Position
                 PROVE  ((p % Modulus) - (Position % Modulus)) % Modulus = p - Position
      BY <1>7
    <2>1. p - Position \in 0 .. Modulus - 1
      BY <1>0, <1>3, <1>4
    <2>2. p \in Int /\ Position \in Int
      BY <1>0, <1>3
    <2> QED
      BY <2>1, <2>2, DifferenceAhead, Zenon
  <1>9. p < Position => Difference(link[j].seq) >= Modulus - Window
    <2> SUFFICES ASSUME p < Position
                 PROVE  ((p % Modulus) - (Position % Modulus)) % Modulus >= Modulus - Window
      BY <1>7
    <2> DEFINE d == Modulus + p - Position
    <2>1. d \in 0 .. Modulus - 1 /\ p - Position = d - Modulus /\ d >= Modulus - Window
      BY <1>0, <1>3, <1>6
    <2> HIDE DEF d
    <2>2. ((p % Modulus) - (Position % Modulus)) % Modulus = d
      <3>1. p \in Int /\ Position \in Int
        BY <1>0, <1>3
      <3> QED
        BY <2>1, <3>1, DifferenceBehind, Zenon
    <2> QED
      BY <2>1, <2>2
  <1> QED
    BY <1>1, <1>3, <1>4, <1>5, <1>8, <1>9 DEF p

(* What passes is not behind, and in strict mode is the next one; what is  *)
(* next always passes.                                                     *)
LEMMA PassesAhead ==
  ASSUME IInv, NEW j \in Arrivals
  PROVE  /\ Passes(link[j].seq) => link[j].pos >= Position
         /\ Passes(link[j].seq) /\ strict => link[j].pos = Position
         /\ link[j].pos = Position => Passes(link[j].seq)
  <1>0. /\ Modulus \in Nat \ {0, 1} /\ Modulus % 2 = 0 /\ Position \in Nat
        /\ Window \in Nat \ {0} /\ Window < Modulus
        /\ ~strict => 2 * Window = Modulus
    BY CryptoStreamAssumption, PositionType, WindowType DEF IInv
  <1>1. link[j].pos \in Nat
    BY DistanceSeen
  <1>2. Modulus \div 2 \in Nat \ {0} /\ 2 * (Modulus \div 2) = Modulus
    BY <1>0
  <1>3. ~strict => Modulus - Window > Modulus \div 2 - 1
    BY <1>0, <1>2
  <1>4. Difference(link[j].seq) \in Int
    <2>1. link[j].seq \in Int /\ expectedInSeq \in Int
      <3>1. link[j].seq = link[j].pos % Modulus
        BY DistanceSeen
      <3>2. link[j].pos % Modulus \in 0 .. Modulus - 1
        BY <1>1, RemainderType
      <3> QED
        BY <3>1, <3>2, ModulusType DEF IInv, TypeOK
    <2> QED
      BY <2>1, RemainderType DEF Difference
  <1>5. CASE strict
    BY <1>0, <1>1, <1>4, <1>5, DistanceSeen DEF Passes
  <1>6. CASE ~strict
    BY <1>0, <1>1, <1>2, <1>3, <1>4, <1>6, DistanceSeen DEF Passes
  <1> QED
    BY <1>5, <1>6

LEMMA AcceptKeeps ==
  ASSUME IInv, NEW j \in Arrivals, Accept(j)
  PROVE  IInv'
  <1> DEFINE p == link[j].pos
  <1>0. /\ j \in 1 .. Len(link) /\ p \in Nat /\ p >= Position /\ Position \in Nat
        /\ p < encrypted /\ encrypted \in Nat
        /\ strict => p = Position
        /\ faithful => j = 1 /\ p = Position
        /\ accepted \in Seq(Nat) /\ Len(accepted) \in Nat /\ Len(link) \in Nat
    BY PositionType, DistanceSeen, PassesAhead DEF Accept, IInv, TypeOK, OnTheWay
  <1>00. link[j].seq = p % Modulus /\ Difference(link[j].seq) = p - Position
    BY <1>0, DistanceSeen
  <1>1. accepted' = Append(accepted, p)
    BY DEF Accept
  <1> HIDE DEF p
  <1>2. /\ accepted' \in Seq(Nat) /\ Len(accepted') = Len(accepted) + 1
        /\ accepted'[Len(accepted) + 1] = p
        /\ \A n \in 1 .. Len(accepted) : accepted'[n] = accepted[n]
    BY <1>0, <1>1
  <1>3. Position' = p + 1 /\ Window' = Window
    <2>1. accepted' # <<>>
      BY <1>2
    <2> QED
      BY <1>2, <2>1 DEF Position, Window, Accept, setting
  <1>4. expectedInSeq' = (p + 1) % Modulus
    <2>1. expectedInSeq = Position % Modulus
      BY DEF IInv, Counters
    <2>2. CASE Difference(link[j].seq) = 0 \/ strict
      <3>1. p = Position
        BY <1>0, <1>00, <2>2
      <3>2. expectedInSeq' = Increment(Position % Modulus)
        BY <2>1, <2>2 DEF Accept
      <3> QED
        BY <1>0, <3>1, <3>2, IncrementOfCounter
    <2>3. CASE ~(Difference(link[j].seq) = 0 \/ strict)
      <3>1. expectedInSeq' = Increment(p % Modulus)
        BY <1>00, <2>3 DEF Accept
      <3> QED
        BY <1>0, <3>1, IncrementOfCounter
    <2> QED
      BY <2>2, <2>3
  <1>5. Stays(link')
    BY <1>0, LeftoverStays DEF IInv, Accept
  <1>6. TypeOK'
    <2>1. expectedInSeq' \in 0 .. Modulus - 1
      BY <1>0, <1>4, RemainderType
    <2> QED
      BY <1>2, <1>5, <2>1 DEF IInv, TypeOK, Accept, Stays, setting
  <1>7. Counters'
    <2>1. outSeq' = outSeq /\ encrypted' = encrypted
      BY DEF Accept
    <2>2. Position' <= encrypted' /\ encrypted' <= Position' + Window'
      BY <1>0, <1>3, <2>1, WindowType DEF IInv, Counters
    <2> QED
      BY <1>3, <1>4, <2>1, <2>2 DEF IInv, Counters
  <1>8. OnTheWay'
    BY <1>5, StaysOnTheWay DEF IInv, Accept
  <1>9. Faithful'
    <2> SUFFICES ASSUME faithful
                 PROVE  /\ ~terminated
                        /\ Len(link') = encrypted - (p + 1)
                        /\ \A i \in 1 .. Len(link') : link'[i].pos = p + 1 + i - 1
      BY <1>3 DEF Faithful, Accept, setting
    <2>1. link' = Tail(link) /\ link \in Seq(Messages) /\ link # <<>>
      BY <1>0 DEF Accept, Leftover, IInv, TypeOK
    <2>2. /\ Len(link') = Len(link) - 1
          /\ \A i \in 1 .. Len(link') : link'[i] = link[i + 1] /\ i + 1 \in 1 .. Len(link)
      BY <2>1
    <2>3. Len(link) = encrypted - Position
          /\ \A i \in 1 .. Len(link) : link[i].pos = Position + i - 1
      BY DEF IInv, Faithful
    <2>4. ~terminated
      BY DEF IInv, Faithful
    <2>5. Len(link') = encrypted - (p + 1)
      BY <1>0, <2>2, <2>3
    <2>6. ASSUME NEW i \in 1 .. Len(link')
          PROVE  link'[i].pos = p + 1 + i - 1
      <3>1. link'[i] = link[i + 1] /\ i + 1 \in 1 .. Len(link)
        BY <2>2
      <3>2. link[i + 1].pos = Position + (i + 1) - 1
        BY ONLY <2>3, <3>1
      <3>3. p = Position /\ Position \in Nat /\ i \in Int
        BY ONLY faithful, <1>0
      <3>4. Position + (i + 1) - 1 = p + 1 + i - 1
        BY ONLY <3>3
      <3> QED
        BY ONLY <3>1, <3>2, <3>4
    <2> QED
      BY <2>4, <2>5, <2>6
  <1>10. StrictPrefix'
    <2> SUFFICES ASSUME strict, NEW n \in 1 .. Len(accepted) + 1
                 PROVE  accepted'[n] = n - 1
      BY <1>2 DEF StrictPrefix, Accept, setting
    <2>1. Position = Len(accepted)
      <3>1. \A e \in 1 .. Len(accepted) : accepted[e] = e - 1
        BY DEF IInv, StrictPrefix
      <3> QED
        BY <1>0, <3>1 DEF Position
    <2>2. p = Len(accepted) /\ Len(accepted) \in Nat
      BY <1>0, <2>1
    <2>3. CASE n \in 1 .. Len(accepted)
      BY <1>2, <2>3 DEF IInv, StrictPrefix
    <2>4. CASE n = Len(accepted) + 1
      BY <1>2, <2>2, <2>4
    <2> QED
      BY <2>2, <2>3, <2>4
  <1>11. NoReplay'
    <2> SUFFICES ASSUME NEW m \in 1 .. Len(accepted) + 1, NEW n \in 1 .. Len(accepted) + 1, m < n
                 PROVE  accepted'[m] < accepted'[n]
      BY <1>2 DEF NoReplay
    <2>1. CASE n <= Len(accepted)
      BY <1>2, <2>1 DEF IInv, NoReplay
    <2>2. CASE n = Len(accepted) + 1
      <3>0. accepted \in Seq(Nat) /\ Len(accepted) \in Nat
        BY <1>0
      <3>1. m \in 1 .. Len(accepted) /\ accepted # <<>>
        BY <2>2, <3>0
      <3>2. accepted[m] < Position
        <4>1. /\ accepted[m] \in Nat /\ accepted[Len(accepted)] \in Nat
              /\ m < Len(accepted) => accepted[m] < accepted[Len(accepted)]
          BY <3>0, <3>1 DEF IInv, NoReplay
        <4>2. Position = accepted[Len(accepted)] + 1
          BY <3>1 DEF Position
        <4> QED
          BY <3>0, <3>1, <4>1, <4>2
      <3>3. accepted[m] \in Nat /\ Position \in Nat /\ p \in Nat /\ p >= Position
        BY <1>0, <3>0, <3>1
      <3> QED
        BY <1>2, <2>2, <3>1, <3>2, <3>3
    <2> QED
      BY <1>0, <2>1, <2>2
  <1> QED
    BY <1>6, <1>7, <1>8, <1>9, <1>10, <1>11 DEF IInv

(* Nothing the receiver has is touched, and the link holds no more.        *)
LEMMA LinkOnly ==
  ASSUME IInv, Stays(link'), ~faithful, terminated' \in BOOLEAN,
         UNCHANGED <<setting, outSeq, encrypted, expectedInSeq, accepted>>
  PROVE  IInv'
  <1>1. Position' = Position /\ Window' = Window
    BY DEF Position, Window, setting
  <1>2. TypeOK'
    BY DEF IInv, TypeOK, Stays, setting
  <1>3. OnTheWay'
    BY StaysOnTheWay DEF IInv
  <1> QED
    BY <1>1, <1>2, <1>3
       DEF IInv, Counters, Faithful, StrictPrefix, NoReplay, setting

LEMMA IInvNext ==
  ASSUME IInv, [Next]_vars
  PROVE  IInv'
  <1>1. CASE EncryptMessage
    BY <1>1, EncryptKeeps
  <1>2. ASSUME NEW j \in Arrivals, Accept(j)
        PROVE  IInv'
    BY <1>2, AcceptKeeps
  <1>3. ASSUME NEW j \in Arrivals, Reject(j)
        PROVE  IInv'
    <2>1. ~faithful
      BY <1>3, DistanceSeen, PassesAhead DEF Reject
    <2>2. Stays(link')
      BY <1>3, DistanceSeen, LeftoverStays DEF Reject, IInv
    <2> QED
      BY <1>3, <2>1, <2>2, LinkOnly DEF Reject
  <1>4. ASSUME NEW j \in 1 .. Len(link), Lose(j)
        PROVE  IInv'
    <2>1. Stays(link')
      BY <1>4, WithoutKeeps DEF Lose, IInv, Stays
    <2> QED
      BY <1>4, <2>1, LinkOnly DEF Lose, IInv, TypeOK
  <1>5. CASE UNCHANGED vars
    BY <1>5 DEF vars, setting, IInv, TypeOK, Counters, OnTheWay, Faithful,
       StrictPrefix, NoReplay, Position, Window
  <1> QED
    BY <1>1, <1>2, <1>3, <1>4, <1>5 DEF Next

LEMMA Invariance == Spec => []IInv
  BY IInvInit, IInvNext, PTL DEF Spec

-----------------------------------------------------------------------------
(* The counters of cryptoStream.js stay in their width, for every width.   *)
THEOREM TypeCorrect == Spec => []TypeOK
  <1>1. IInv => TypeOK
    BY DEF IInv
  <1> QED
    BY <1>1, Invariance, PTL

(* In strict mode decryptMessage returns exactly the messages that were    *)
(* encrypted, in order, however often the counter wraps and whatever the   *)
(* link loses, repeats or reorders within a window of its range.           *)
THEOREM StrictInOrder == Spec => []StrictPrefix
  <1>1. IInv => StrictPrefix
    BY DEF IInv
  <1> QED
    BY <1>1, Invariance, PTL

(* In either mode it returns no message twice and none older than one it   *)
(* has returned, as long as the link keeps within half the range.          *)
THEOREM NeverReplayed == Spec => []NoReplay
  <1>1. IInv => NoReplay
    BY DEF IInv
  <1> QED
    BY <1>1, Invariance, PTL

(* On a link that delivers faithfully decryptMessage never throws for its  *)
(* counters, in either mode and past every wrap.                           *)
THEOREM WrapsUnnoticed == Spec => []NoFalseAlarm
  <1>1. IInv => NoFalseAlarm
    BY DEF IInv, Faithful, NoFalseAlarm
  <1> QED
    BY <1>1, Invariance, PTL
=============================================================================
