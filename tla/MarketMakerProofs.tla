-------------------------- MODULE MarketMakerProofs --------------------------
(***************************************************************************)
(* Theorems about the market maker for every width of the generator, every *)
(* seed, every length of a run and every limit that admits what it draws.  *)
(***************************************************************************)
EXTENDS MarketMaker, FiniteSetTheorems, SequenceTheorems, TLAPS, WellFoundedInduction,
        NaturalsInduction

-----------------------------------------------------------------------------
(* The generator.                                                            *)

\* The words the generator may be in.
LiveWords == Words \ {Zero}

\* Xor-ing a word with itself shifted up leaves its lowest bit that is set.
LEMMA LeftKeepsLowest ==
  ASSUME NEW x \in LiveWords, NEW k \in Nat \ {0}
  PROVE  Xor(x, Left(x, k)) \in LiveWords
<1> DEFINE Set == {i \in Bits : x[i]}
           y   == Xor(x, Left(x, k))
<1>0. Bits \subseteq Nat BY XorShiftAssumption DEF Bits
<1>1. PICK i \in Bits : x[i]
  <2>1. x \in [Bits -> BOOLEAN] /\ x # [i \in Bits |-> FALSE] BY DEF LiveWords, Words, Zero
  <2> QED BY <2>1, Zenon
<1>2. PICK m \in Set : \A j \in Set : ~(<<j, m>> \in OpToRel(<, Nat))
  <2>1. Set # {} /\ Set \subseteq Nat BY <1>0, <1>1
  <2> QED BY <2>1, WFMin, NatLessThanWellFounded
<1>3. m \in Nat /\ m \in Bits /\ x[m] BY <1>0, <1>2
<1>4. ~Left(x, k)[m]
  <2>1. SUFFICES ASSUME m - k \in Bits, x[m - k] PROVE FALSE BY <1>3 DEF Left
  <2>2. m - k \in Nat /\ m - k < m BY <1>0, <1>3, <2>1
  <2>3. <<m - k, m>> \in OpToRel(<, Nat) BY <1>3, <2>2 DEF OpToRel
  <2> QED BY <1>2, <2>1, <2>3
<1>5. y[m] = (x[m] # Left(x, k)[m]) BY <1>3 DEF Xor
<1>6. x[m] = TRUE /\ Left(x, k)[m] = FALSE
  <2>1. x[m] \in BOOLEAN BY <1>3 DEF LiveWords, Words
  <2>2. Left(x, k)[m] \in BOOLEAN BY <1>3 DEF Left
  <2> QED BY <1>3, <1>4, <2>1, <2>2
<1>7. y # Zero BY <1>3, <1>5, <1>6 DEF Zero
<1>8. y \in Words BY DEF Xor, Words
<1> QED BY <1>7, <1>8 DEF LiveWords

\* Xor-ing a word with itself shifted down leaves its highest bit that is set.
LEMMA RightKeepsHighest ==
  ASSUME NEW x \in LiveWords, NEW k \in Nat \ {0}
  PROVE  Xor(x, Right(x, k)) \in LiveWords
<1> DEFINE Free == {n \in Nat : n < Width /\ x[Width - 1 - n]}
           y    == Xor(x, Right(x, k))
<1>0. Bits \subseteq Nat /\ Width \in Nat BY XorShiftAssumption DEF Bits
<1>1. PICK i \in Bits : x[i]
  <2>1. x \in [Bits -> BOOLEAN] /\ x # [i \in Bits |-> FALSE] BY DEF LiveWords, Words, Zero
  <2> QED BY <2>1, Zenon
<1>2. PICK n \in Free : \A j \in Free : ~(<<j, n>> \in OpToRel(<, Nat))
  <2>1. Width - 1 - i \in Nat /\ Width - 1 - i < Width /\ Width - 1 - (Width - 1 - i) = i
    BY <1>0, <1>1 DEF Bits
  <2>2. Width - 1 - i \in Free BY <1>1, <2>1
  <2>3. Free # {} /\ Free \subseteq Nat BY <2>2
  <2> QED BY <2>3, WFMin, NatLessThanWellFounded
<1> DEFINE m == Width - 1 - n
<1>3. n \in Nat /\ m \in Bits /\ x[m]
  <2>1. n \in Nat /\ n < Width /\ x[Width - 1 - n] BY <1>2
  <2>2. Width - 1 - n \in Bits BY <1>0, <2>1 DEF Bits
  <2> QED BY <2>1, <2>2
<1>4. ~Right(x, k)[m]
  <2>1. SUFFICES ASSUME m + k \in Bits, x[m + k] PROVE FALSE BY <1>3 DEF Right
  <2>2. n - k \in Nat /\ n - k < n /\ n - k < Width /\ Width - 1 - (n - k) = m + k
    BY <1>0, <1>3, <2>1 DEF Bits
  <2>3. n - k \in Free BY <2>1, <2>2
  <2>4. <<n - k, n>> \in OpToRel(<, Nat) BY <1>3, <2>2 DEF OpToRel
  <2> QED BY <1>2, <2>3, <2>4
<1> HIDE DEF m
<1>5. y[m] = (x[m] # Right(x, k)[m]) BY <1>3 DEF Xor
<1>6. x[m] = TRUE /\ Right(x, k)[m] = FALSE
  <2>1. x[m] \in BOOLEAN BY <1>3 DEF LiveWords, Words
  <2>2. Right(x, k)[m] \in BOOLEAN BY <1>3 DEF Right
  <2> QED BY <1>3, <1>4, <2>1, <2>2
<1>7. y # Zero BY <1>3, <1>5, <1>6 DEF Zero
<1>8. y \in Words BY DEF Xor, Words
<1> QED BY <1>7, <1>8 DEF LiveWords

\* A draw keeps a word from being zero.
LEMMA NextStaysLive ==
  ASSUME NEW x \in LiveWords
  PROVE  NextUint64(x) \in LiveWords
<1> DEFINE a == Xor(x, Left(x, Shift1))
           b == Xor(a, Right(a, Shift2))
<1>0. Shift1 \in Nat \ {0} /\ Shift2 \in Nat \ {0} /\ Shift3 \in Nat \ {0}
  BY XorShiftAssumption
<1>1. a \in LiveWords BY <1>0, LeftKeepsLowest
<1> HIDE DEF a
<1>2. b \in LiveWords BY <1>0, <1>1, RightKeepsHighest
<1> HIDE DEF b
<1>3. Xor(b, Left(b, Shift3)) \in LiveWords BY <1>0, <1>2, LeftKeepsLowest
<1>4. NextUint64(x) = Xor(b, Left(b, Shift3)) BY Zenon DEF NextUint64, a, b
<1> QED BY <1>3, <1>4

\* Every set of naturals that is not empty has a least element.
LEMMA LeastExists ==
  ASSUME NEW S \in SUBSET Nat, S # {}
  PROVE  \E x \in S : \A y \in S : x <= y
<1> DEFINE R == OpToRel(<, Nat)
<1>1. \E x \in S : \A y \in S : ~(<<y, x>> \in R)
  BY NatLessThanWellFounded, WFMin
<1>2. \A x, y \in Nat : y < x => <<y, x>> \in R
  BY DEF OpToRel
<1> HIDE DEF R
<1>3. PICK x \in S : \A y \in S : ~(<<y, x>> \in R)
  BY <1>1
<1>4. \A y \in S : ~(y < x)
  BY <1>2, <1>3
<1>5. \A y \in S : x <= y
  <2> TAKE y \in S
  <2> x \in Nat /\ y \in Nat
    OBVIOUS
  <2> QED BY <1>4
<1> QED BY <1>5

\* Going down from n.
LEMMA Downward ==
  ASSUME NEW n \in Nat, NEW S \in SUBSET (0 .. n), n \in S,
         \A i \in S : i > 0 => i - 1 \in S
  PROVE  0 \in S
<1>1. PICK m \in S : \A j \in S : m <= j
  <2>1. S \in SUBSET Nat /\ S # {} OBVIOUS
  <2> QED BY <2>1, LeastExists
<1>2. m > 0 => m - 1 \in S /\ ~(m <= m - 1) BY <1>1
<1> QED BY <1>1, <1>2

\* Horner's rule makes a remainder.
LEMMA ResidueBound ==
  ASSUME NEW x \in Words, NEW r \in Nat \ {0}
  PROVE  Residue(x, r) \in 0 .. r - 1
<1> DEFINE Digit(f, i) == (2 * f[i + 1] + (IF x[i] THEN 1 ELSE 0)) % r
           Horner(f) == [i \in 0 .. Width |-> IF i = Width THEN 0 ELSE Digit(f, i)]
           Begun(f, n) == /\ f[Width] = 0
                          /\ \A i \in 0 .. Width : n <= i /\ i # Width => f[i] = Digit(f, i)
           Found == {n \in 0 .. Width : \E f \in [0 .. Width -> 0 .. r - 1] : Begun(f, n)}
<1>0. Width \in Nat \ {0} BY XorShiftAssumption
<1>1. ASSUME NEW f, NEW i \in 0 .. Width, f[i + 1] \in Int
      PROVE  Digit(f, i) \in 0 .. r - 1
  <2>1. 2 * f[i + 1] + (IF x[i] THEN 1 ELSE 0) \in Int BY <1>1
  <2> QED BY <2>1
<1>2. \E f \in [0 .. Width -> 0 .. r - 1] : f = Horner(f)
  <2>1. Width \in Found
    <3>1. [i \in 0 .. Width |-> 0] \in [0 .. Width -> 0 .. r - 1] OBVIOUS
    <3>2. Begun([i \in 0 .. Width |-> 0], Width) BY <1>0
    <3> QED BY <1>0, <3>1, <3>2
  <2>2. ASSUME NEW n \in Found, n > 0 PROVE n - 1 \in Found
    <3>1. PICK f \in [0 .. Width -> 0 .. r - 1] : Begun(f, n) OBVIOUS
    <3>2. n - 1 \in 0 .. Width /\ n - 1 # Width /\ n \in 0 .. Width /\ n = (n - 1) + 1
      BY <1>0, <2>2
    <3> DEFINE d == Digit(f, n - 1)
               g == [f EXCEPT ![n - 1] = d]
    <3>3. d \in 0 .. r - 1 
      <4>1. f[(n - 1) + 1] \in Int BY <3>2
      <4> QED BY <4>1, <3>2, <1>1
    <3>d. d = Digit(f, n - 1) OBVIOUS
    <3> HIDE DEF d
    <3>4. g \in [0 .. Width -> 0 .. r - 1] BY <3>3
    <3>5. Begun(g, n - 1)
      <4>1. g[Width] = 0 BY <1>0, <3>1, <3>2
      <4>2. \A i \in 0 .. Width : n <= i + 1 => g[i + 1] = f[i + 1] BY <3>2
      <4>3. ASSUME NEW i \in 0 .. Width, n - 1 <= i, i # Width PROVE g[i] = Digit(g, i)
        <5>1. Digit(g, i) = Digit(f, i) 
          <6>1. g[i + 1] = f[i + 1] BY <4>2, <4>3, <3>2
          <6> QED BY <6>1, Zenon
        <5>2. CASE i = n - 1
          <6>1. g[i] = d BY <5>2, <3>2
          <6> QED BY <6>1, <5>1, <5>2, <3>d, Zenon
        <5>3. CASE i # n - 1 
          <6>1. n <= i BY <5>3, <4>3, <3>2
          <6>2. g[i] = f[i] BY <5>3
          <6>3. f[i] = Digit(f, i) BY <6>1, <4>3, <3>1
          <6> QED BY <6>2, <6>3, <5>1, Zenon
        <5> QED BY <5>2, <5>3
      <4> HIDE DEF g
      <4> QED BY <4>1, <4>3, Zenon
    <3> HIDE DEF g, Begun
    <3> QED BY <3>2, <3>4, <3>5
  <2>3. 0 \in Found
    <3> HIDE DEF Found
    <3>1. Found \in SUBSET (0 .. Width) BY DEF Found
    <3> QED BY <2>1, <2>2, <3>1, <1>0, Downward
  <2>4. PICK f \in [0 .. Width -> 0 .. r - 1] : Begun(f, 0) BY <2>3
  <2>5. f = Horner(f)
    <3> HIDE DEF Digit
    <3>1. \A i \in 0 .. Width : f[i] = IF i = Width THEN 0 ELSE Digit(f, i) BY <2>4
    <3> QED BY <3>1
  <2> QED BY <2>5
<1> DEFINE rest == CHOOSE f : f = Horner(f)
<1>3. rest = Horner(rest) 
  <2> HIDE DEF Horner
  <2> QED BY <1>2
<1>4. Residue(x, r) = rest[0] BY Zenon DEF Residue
<1> HIDE DEF rest
<1>5. /\ rest[Width] = 0
      /\ \A i \in 0 .. Width : i # Width => rest[i] = Digit(rest, i)
  <2> HIDE DEF Digit
  <2>1. \A i \in 0 .. Width : Horner(rest)[i] = IF i = Width THEN 0 ELSE Digit(rest, i)
    OBVIOUS
  <2> HIDE DEF Horner
  <2>2. \A i \in 0 .. Width : rest[i] = IF i = Width THEN 0 ELSE Digit(rest, i)
    BY <1>3, <2>1, Zenon
  <2> QED BY <1>0, <2>2
<1> DEFINE Good == {n \in 0 .. Width : rest[n] \in 0 .. r - 1}
<1>6. Width \in Good BY <1>0, <1>5
<1>7. ASSUME NEW n \in Good, n > 0 PROVE n - 1 \in Good
  <2>1. n - 1 \in 0 .. Width /\ n - 1 # Width /\ rest[(n - 1) + 1] \in Int BY <1>7, <1>0
  <2>2. Digit(rest, n - 1) \in 0 .. r - 1 BY <2>1, <1>1
  <2>3. rest[n - 1] = Digit(rest, n - 1) BY <2>1, <1>5
  <2> QED BY <2>1, <2>2, <2>3
<1>8. 0 \in Good
  <2> HIDE DEF Good
  <2>1. Good \in SUBSET (0 .. Width) BY DEF Good
  <2> QED BY <1>0, <1>6, <1>7, <2>1, Downward
<1> QED BY <1>4, <1>8

-----------------------------------------------------------------------------
(* Sequences as sets.                                                        *)

\* The elements of a sequence.
LEMMA ToSetIs ==
  ASSUME NEW S, NEW q \in Seq(S)
  PROVE  /\ DOMAIN q = 1 .. Len(q) /\ Len(q) \in Nat
         /\ ToSet(q) = {q[i] : i \in 1 .. Len(q)} /\ ToSet(q) \subseteq S
         /\ q \in Seq(ToSet(q))
BY DEF ToSet

\* Appending adds an element.
LEMMA ToSetAppend ==
  ASSUME NEW S, NEW q \in Seq(S), NEW k \in S
  PROVE  /\ ToSet(Append(q, k)) = ToSet(q) \cup {k}
         /\ Append(q, k) \in Seq(S) /\ Len(Append(q, k)) = Len(q) + 1
         /\ \A i \in 1 .. Len(q) : Append(q, k)[i] = q[i]
         /\ Append(q, k)[Len(q) + 1] = k
<1>1. /\ Append(q, k) \in Seq(S) /\ Len(Append(q, k)) = Len(q) + 1
      /\ \A i \in 1 .. Len(q) : Append(q, k)[i] = q[i]
      /\ Append(q, k)[Len(q) + 1] = k
  OBVIOUS
<1>2. ToSet(Append(q, k)) = {Append(q, k)[i] : i \in 1 .. Len(q) + 1}
  BY <1>1, ToSetIs
<1>3. ToSet(q) = {q[i] : i \in 1 .. Len(q)} /\ Len(q) \in Nat
  BY ToSetIs
<1>4. 1 .. Len(q) + 1 = (1 .. Len(q)) \cup {Len(q) + 1}
  BY <1>3
<1> QED BY <1>1, <1>2, <1>3, <1>4

\* Joining two sequences joins their elements.
LEMMA ToSetConcat ==
  ASSUME NEW S, NEW a \in Seq(S), NEW b \in Seq(S)
  PROVE  /\ ToSet(a \o b) = ToSet(a) \cup ToSet(b)
         /\ a \o b \in Seq(S) /\ Len(a \o b) = Len(a) + Len(b)
         /\ \A i \in 1 .. Len(a) : (a \o b)[i] = a[i]
         /\ \A i \in 1 .. Len(b) : (a \o b)[Len(a) + i] = b[i]
<1>1. /\ a \o b \in Seq(S) /\ Len(a \o b) = Len(a) + Len(b)
      /\ \A i \in 1 .. Len(a) + Len(b) :
           (a \o b)[i] = IF i <= Len(a) THEN a[i] ELSE b[i - Len(a)]
      /\ Len(a) \in Nat /\ Len(b) \in Nat
  BY ConcatProperties, LenProperties
<1>2. /\ \A i \in 1 .. Len(a) : (a \o b)[i] = a[i]
      /\ \A i \in 1 .. Len(b) : (a \o b)[Len(a) + i] = b[i]
  <2>1. ASSUME NEW i \in 1 .. Len(a) PROVE (a \o b)[i] = a[i]
    <3>1. i \in 1 .. Len(a) + Len(b) /\ i <= Len(a)
      BY <1>1
    <3> QED BY <3>1, <1>1
  <2>2. ASSUME NEW i \in 1 .. Len(b) PROVE (a \o b)[Len(a) + i] = b[i]
    <3>1. /\ Len(a) + i \in 1 .. Len(a) + Len(b) /\ ~(Len(a) + i <= Len(a))
          /\ Len(a) + i - Len(a) = i
      BY <1>1
    <3> QED BY <3>1, <1>1
  <2> QED BY <2>1, <2>2
<1>3. ToSet(a \o b) = {(a \o b)[i] : i \in 1 .. Len(a) + Len(b)}
  BY <1>1, ToSetIs
<1>4. \A i \in 1 .. Len(a) + Len(b) :
        i \in 1 .. Len(a) \/ \E j \in 1 .. Len(b) : i = Len(a) + j
  <2> TAKE i \in 1 .. Len(a) + Len(b)
  <2>1. CASE i <= Len(a)
    BY <1>1, <2>1
  <2>2. CASE ~(i <= Len(a))
    <3>1. i - Len(a) \in 1 .. Len(b) /\ i = Len(a) + (i - Len(a))
      BY <1>1, <2>2
    <3> QED BY <3>1
  <2> QED BY <2>1, <2>2
<1>5. /\ \A i \in 1 .. Len(a) : i \in 1 .. Len(a) + Len(b)
      /\ \A i \in 1 .. Len(b) : Len(a) + i \in 1 .. Len(a) + Len(b)
  BY <1>1
<1>6. /\ ToSet(a) = {a[i] : i \in 1 .. Len(a)} /\ ToSet(b) = {b[i] : i \in 1 .. Len(b)}
  BY ToSetIs
<1>7. ToSet(a \o b) \subseteq ToSet(a) \cup ToSet(b)
  <2> SUFFICES ASSUME NEW i \in 1 .. Len(a) + Len(b)
               PROVE  (a \o b)[i] \in ToSet(a) \cup ToSet(b)
    BY <1>3
  <2> QED BY <1>2, <1>4, <1>6
<1>8. ToSet(a) \subseteq ToSet(a \o b)
  BY <1>2, <1>3, <1>5, <1>6
<1>9. ToSet(b) \subseteq ToSet(a \o b)
  <2> SUFFICES ASSUME NEW i \in 1 .. Len(b) PROVE b[i] \in ToSet(a \o b)
    BY <1>6
  <2> QED BY <1>2, <1>3, <1>5
<1> QED BY <1>1, <1>2, <1>7, <1>8, <1>9

\* An element put at the end of the second part is at the end of the whole.
LEMMA ConcatAppend ==
  ASSUME NEW S, NEW a \in Seq(S), NEW b \in Seq(S), NEW e \in S
  PROVE  a \o Append(b, e) = Append(a \o b, e)
<1>1. <<e>> \in Seq(S)
  OBVIOUS
<1>2. Append(b, e) = b \o <<e>> /\ a \o b \in Seq(S)
  BY AppendIsConcat, ConcatProperties
<1>3. Append(a \o b, e) = (a \o b) \o <<e>>
  BY <1>2, AppendIsConcat
<1>4. a \o (b \o <<e>>) = (a \o b) \o <<e>>
  BY <1>1, ConcatAssociative
<1> QED BY <1>2, <1>3, <1>4, Zenon

\* The head of the second part can go to the first.
LEMMA ConcatMove ==
  ASSUME NEW S, NEW a \in Seq(S), NEW b \in Seq(S), b # <<>>
  PROVE  Append(a, Head(b)) \o Tail(b) = a \o b
<1> DEFINE h == Head(b)
           t == Tail(b)
<1>1. h \in S /\ t \in Seq(S)
  BY HeadTailProperties
<1>5. b = <<h>> \o t
  <2> DEFINE n == Len(b)
  <2>1. n \in Nat \ {0} /\ h = b[1]
    BY EmptySeq
  <2>2. 1 \in 1 .. n /\ n \in 1 .. n /\ 1 + 1 = 2
    BY <2>1
  <2>3. t = SubSeq(b, 2, n)
    BY TailIsSubSeq
  <2>4. b = SubSeq(b, 1, n)
    BY SubSeqFull
  <2> HIDE DEF n, h, t
  <2>5. SubSeq(b, 1, n) = <<b[1]>> \o SubSeq(b, 1 + 1, n)
    BY <2>2, SubSeqRecursiveFirst DEF n
  <2> QED BY <2>1, <2>2, <2>3, <2>4, <2>5, Zenon
<1> HIDE DEF h, t
<1>2. <<h>> \in Seq(S) BY <1>1
<1>3. Append(a, h) = a \o <<h>> BY <1>1, AppendIsConcat
<1>4. (a \o <<h>>) \o t = a \o (<<h>> \o t) BY <1>1, <1>2, ConcatAssociative
<1>6. Append(a, h) \o t = a \o b BY <1>3, <1>4, <1>5, Zenon
<1> QED BY <1>6 DEF h, t

\* The sequence t is s without the element at k.
Without(s, t, k) ==
  /\ k \in 1 .. Len(s) /\ Len(t) = Len(s) - 1
  /\ \A i \in 1 .. Len(t) : t[i] = IF i < k THEN s[i] ELSE s[i + 1]

\* Taking the head off the second part takes one element out of the whole.
LEMMA ConcatTail ==
  ASSUME NEW S, NEW a \in Seq(S), NEW b \in Seq(S), b # <<>>
  PROVE  Without(a \o b, a \o Tail(b), Len(a) + 1)
<1> DEFINE t == Tail(b)
<1>1. t \in Seq(S) /\ Len(b) = Len(t) + 1 /\ \A i \in 1 .. Len(t) : t[i] = b[i + 1]
  BY HeadTailProperties, LenProperties
<1> HIDE DEF t
<1> DEFINE s == a \o b
           u == a \o t
<1>2. /\ s \in Seq(S) /\ Len(s) = Len(a) + Len(b)
      /\ \A i \in 1 .. Len(a) : s[i] = a[i]
      /\ \A i \in 1 .. Len(b) : s[Len(a) + i] = b[i]
  BY ToSetConcat
<1>3. /\ u \in Seq(S) /\ Len(u) = Len(a) + Len(t)
      /\ \A i \in 1 .. Len(a) : u[i] = a[i]
      /\ \A i \in 1 .. Len(t) : u[Len(a) + i] = t[i]
  BY <1>1, ToSetConcat
<1>4. Len(a) \in Nat /\ Len(t) \in Nat BY <1>1, LenProperties
<1> HIDE DEF s, u
<1>5. ASSUME NEW i \in 1 .. Len(u)
      PROVE  u[i] = IF i < Len(a) + 1 THEN s[i] ELSE s[i + 1]
  <2>1. CASE i <= Len(a)
    BY <2>1, <1>2, <1>3, <1>4
  <2>2. CASE ~(i <= Len(a))
    <3> DEFINE j == i - Len(a)
    <3>1. j \in 1 .. Len(t) /\ j + 1 \in 1 .. Len(b) /\ i = Len(a) + j
          /\ i + 1 = Len(a) + (j + 1) /\ ~(i < Len(a) + 1)
      BY <2>2, <1>1, <1>3, <1>4
    <3>2. u[Len(a) + j] = t[j] /\ t[j] = b[j + 1] /\ s[Len(a) + (j + 1)] = b[j + 1]
      BY <3>1, <1>1, <1>2, <1>3
    <3> HIDE DEF j
    <3> QED BY <3>1, <3>2
  <2> QED BY <2>1, <2>2
<1>6. Len(a) + 1 \in 1 .. Len(s) /\ Len(u) = Len(s) - 1
  BY <1>1, <1>2, <1>3, <1>4
<1>7. Without(s, u, Len(a) + 1)
  BY <1>5, <1>6 DEF Without
<1> QED BY <1>7 DEF s, u, t

-----------------------------------------------------------------------------
(* Steps back.                                                               *)

\* What the market maker can draw.
Order == [life : Nat, id : Nat, side : {1, 2}, price : 99 .. 101, qty : {10}]

\* They can be counted.
LEMMA StepsCount ==
  ASSUME NEW s \in Seq(Order), NEW l
  PROVE  IsFiniteSet(StepsBack(s, l)) /\ Cardinality(StepsBack(s, l)) \in Nat
<1>1. Len(s) \in Nat /\ StepsBack(s, l) \in SUBSET (2 .. Len(s))
  BY LenProperties DEF StepsBack
<1>2. IsFiniteSet(2 .. Len(s))
  BY <1>1, FS_Interval
<1> QED BY <1>1, <1>2, FS_Subset, FS_CardinalityType

\* An order put at the end makes at most one more, and none if its number is higher
\* than all others.
LEMMA StepsAppend ==
  ASSUME NEW s \in Seq(Order), NEW e \in Order, NEW l
  PROVE  /\ Cardinality(StepsBack(Append(s, e), l)) <= Cardinality(StepsBack(s, l)) + 1
         /\ (\A i \in 1 .. Len(s) : s[i].life = l => s[i].id < e.id)
              => StepsBack(Append(s, e), l) = StepsBack(s, l)
<1> DEFINE t == Append(s, e)
           n == Len(s)
<1>1. /\ t \in Seq(Order) /\ Len(t) = n + 1
      /\ \A i \in 1 .. n : t[i] = s[i]
      /\ t[n + 1] = e /\ n \in Nat
  BY ToSetAppend, LenProperties
<1> HIDE DEF t, n
<1>2. /\ \A i \in 2 .. n : i \in 2 .. n + 1 /\ i \in 1 .. n /\ i - 1 \in 1 .. n
      /\ \A i \in 2 .. n + 1 : i - 1 \in 1 .. n /\ (i \in 2 .. n \/ i = n + 1)
  BY <1>1
<1>3. StepsBack(s, l) =
        {i \in 2 .. n : s[i].life = l /\ s[i - 1].life = l /\ s[i].id <= s[i - 1].id}
  BY DEF StepsBack, n
<1>4. StepsBack(t, l) =
        {i \in 2 .. n + 1 : t[i].life = l /\ t[i - 1].life = l /\ t[i].id <= t[i - 1].id}
  BY <1>1, Zenon DEF StepsBack
<1>5. \A i \in 2 .. n : i \in StepsBack(t, l) <=> i \in StepsBack(s, l)
  BY <1>1, <1>2, <1>3, <1>4
<1>6. StepsBack(t, l) \subseteq StepsBack(s, l) \cup {n + 1}
  BY <1>2, <1>4, <1>5
<1>7. StepsBack(s, l) \subseteq StepsBack(t, l)
  BY <1>3, <1>5
<1>8. Cardinality(StepsBack(t, l)) <= Cardinality(StepsBack(s, l)) + 1
  <2> DEFINE A == StepsBack(s, l)
             B == StepsBack(t, l)
  <2>1. IsFiniteSet(A) /\ Cardinality(A) \in Nat
    BY StepsCount
  <2>2. B \in SUBSET (A \cup {n + 1})
    BY <1>6
  <2> HIDE DEF A, B
  <2>3. /\ IsFiniteSet(A \cup {n + 1})
        /\ Cardinality(A \cup {n + 1}) = IF n + 1 \in A THEN Cardinality(A)
                                                        ELSE Cardinality(A) + 1
    BY <2>1, FS_AddElement
  <2>4. IsFiniteSet(B) /\ Cardinality(B) <= Cardinality(A \cup {n + 1})
    BY <2>2, <2>3, FS_Subset
  <2>5. Cardinality(B) \in Nat
    BY <2>4, FS_CardinalityType
  <2>6. Cardinality(B) <= Cardinality(A) + 1
    BY <2>1, <2>3, <2>4, <2>5
  <2> QED BY <2>6 DEF A, B
<1>9. ASSUME \A i \in 1 .. n : s[i].life = l => s[i].id < e.id
      PROVE  StepsBack(t, l) = StepsBack(s, l)
  <2>1. ASSUME n + 1 \in StepsBack(t, l) PROVE FALSE
    <3>1. n \in 1 .. n /\ (n + 1) - 1 = n
      BY <1>1, <1>2, <1>4, <2>1
    <3>2. t[n].life = l /\ e.id <= t[n].id
      BY <1>1, <1>4, <2>1, <3>1
    <3>3. s[n].life = l /\ e.id <= s[n].id /\ s[n] \in Order
      BY <1>1, <3>1, <3>2, ElementOfSeq DEF n
    <3>4. s[n].id < e.id
      BY <1>9, <3>1, <3>3
    <3>5. s[n].id \in Nat /\ e.id \in Nat
      BY <3>3 DEF Order
    <3> QED BY <3>3, <3>4, <3>5
  <2> QED BY <1>6, <1>7, <2>1
<1> QED BY <1>8, <1>9 DEF t, n

\* Taking an order of the process out makes none more.
LEMMA StepsWithout ==
  ASSUME NEW s \in Seq(Order), NEW t \in Seq(Order), NEW k, NEW l,
         Without(s, t, k), s[k].life = l
  PROVE  Cardinality(StepsBack(t, l)) <= Cardinality(StepsBack(s, l))
<1> DEFINE A == StepsBack(s, l)
           B == StepsBack(t, l)
           n == Len(t)
           F == [i \in B |-> IF i < k THEN i
                             ELSE IF i = k /\ k \in A THEN k ELSE i + 1]
<1>1. /\ n \in Nat /\ Len(s) = n + 1 /\ k \in 1 .. n + 1
      /\ \A i \in 1 .. n : t[i] = IF i < k THEN s[i] ELSE s[i + 1]
  BY LenProperties DEF Without
<1>2. A = {i \in 2 .. n + 1 : s[i].life = l /\ s[i - 1].life = l /\ s[i].id <= s[i - 1].id}
  BY <1>1, Zenon DEF StepsBack
<1>3. B = {i \in 2 .. n : t[i].life = l /\ t[i - 1].life = l /\ t[i].id <= t[i - 1].id}
  BY DEF StepsBack
<1>4. \A i \in 1 .. n + 1 : s[i].id \in Nat
  <2>1. \A i \in 1 .. n + 1 : s[i] \in Order
    BY <1>1, ElementOfSeq
  <2> QED BY <2>1 DEF Order
<1>n. Len(s) = n + 1 /\ n \in Nat
  BY <1>1
<1> HIDE DEF A, B, n
<1>5. ASSUME NEW i \in B PROVE F[i] \in A
  <2>1. /\ i \in 2 .. n /\ i - 1 \in 1 .. n /\ i \in 1 .. n /\ i + 1 \in 2 .. n + 1
        /\ i \in 2 .. n + 1 /\ (i + 1) - 1 = i
    BY <1>1, <1>3
  <2>2. t[i].life = l /\ t[i - 1].life = l /\ t[i].id <= t[i - 1].id
    BY <1>3
  <2>3. CASE i < k
    <3>1. t[i] = s[i] /\ t[i - 1] = s[i - 1]
      BY <1>1, <2>1, <2>3
    <3>2. i \in A
      BY <1>2, <2>1, <2>2, <3>1
    <3> QED BY <2>3, <3>2
  <2>4. CASE i = k
    <3>1. t[i] = s[i + 1] /\ t[i - 1] = s[i - 1]
      BY <1>1, <2>1, <2>4
    <3>2. s[i].life = l /\ s[i + 1].life = l /\ s[i - 1].life = l /\ s[i + 1].id <= s[i - 1].id
      BY <2>2, <2>4, <3>1
    <3>3. s[i].id \in Nat /\ s[i + 1].id \in Nat /\ s[i - 1].id \in Nat
      BY <1>1, <1>4, <2>1
    <3>4. s[i].id <= s[i - 1].id \/ s[i + 1].id <= s[i].id
      BY <3>2, <3>3
    <3>5. i \in A \/ i + 1 \in A
      BY <1>2, <2>1, <3>2, <3>4
    <3> QED BY <2>4, <3>5, <2>1
  <2>5. CASE i > k
    <3>1. t[i] = s[i + 1] /\ t[i - 1] = s[i]
      BY <1>1, <2>1, <2>5
    <3>2. i + 1 \in A
      BY <1>2, <2>1, <2>2, <3>1
    <3> QED BY <2>5, <3>2, <1>1, <2>1
  <2> QED BY <2>3, <2>4, <2>5, <1>1, <2>1
<1>6. ASSUME NEW i \in B, NEW j \in B, F[i] = F[j] PROVE i = j
  <2>1. i \in Int /\ j \in Int /\ k \in Int
    BY <1>1, <1>3
  <2> QED BY <2>1, <1>6
<1>7. F \in Injection(B, A)
  <2>0. F = [i \in B |-> F[i]]
    OBVIOUS
  <2> HIDE DEF F
  <2>1. F \in [B -> A]
    BY <1>5, <2>0
  <2> QED BY <2>1, <1>6 DEF Injection, IsInjective
<1>8. IsFiniteSet(A)
  BY StepsCount DEF A
<1>9. Cardinality(B) <= Cardinality(A)
  BY <1>7, <1>8, FS_Injection
<1> QED BY <1>9 DEF A, B

-----------------------------------------------------------------------------
(* What is drawn.                                                            *)

\* A draw makes an order of the process in hand.
LEMMA DrawMakes ==
  ASSUME rng \in LiveWords, orderId \in Nat, count.starts \in Nat, Draw
  PROVE  /\ rng' \in LiveWords /\ request' \in Order
         /\ request'.id = orderId + 1 /\ request'.life = count.starts
<1> DEFINE first  == NextUint64(rng)
           second == NextUint64(first)
<1>1. first \in LiveWords
  BY NextStaysLive
<1>2. first \in Words
  BY <1>1 DEF LiveWords
<1> HIDE DEF first
<1>3. second \in LiveWords
  BY <1>1, NextStaysLive
<1>4. second \in Words
  BY <1>3 DEF LiveWords
<1> HIDE DEF second
<1>5. InRange(first, 1, 3) \in {1, 2}
  <2>1. Residue(first, 2) \in 0 .. 2 - 1
    BY <1>2, ResidueBound
  <2>2. 3 - 1 = 2
    OBVIOUS
  <2>3. InRange(first, 1, 3) = 1 + Residue(first, 2)
    BY <2>2, Zenon DEF InRange
  <2> QED BY <2>1, <2>3
<1>6. InRange(second, 99, 102) \in 99 .. 101
  <2>1. Residue(second, 3) \in 0 .. 3 - 1
    BY <1>4, ResidueBound
  <2>2. 102 - 99 = 3
    OBVIOUS
  <2>3. InRange(second, 99, 102) = 99 + Residue(second, 3)
    BY <2>2, Zenon DEF InRange
  <2> QED BY <2>1, <2>3
<1>7. /\ rng' = second
      /\ request' = [life |-> count.starts, id |-> orderId + 1, side |-> InRange(first, 1, 3),
                     price |-> InRange(second, 99, 102), qty |-> 10]
  BY Zenon DEF Draw, first, second
<1>8. request' \in Order
  BY <1>5, <1>6, <1>7 DEF Order
<1> QED BY <1>3, <1>7, <1>8

\* The limits admit every order that can be drawn against every other.
LEMMA DrawnPasses ==
  ASSUME NEW o \in Order, NEW m \in Order
  PROVE  /\ o.side \in {1, 2} /\ o.price \in MinPrice .. MaxPrice
         /\ ValidateOrder(o.price, o.qty, m.price) = "Passed"
<1> DEFINE p == o.price
           q == m.price
<1>1. p \in 99 .. 101 /\ q \in 99 .. 101 /\ o.qty = 10 /\ o.side \in {1, 2}
  BY DEF Order
<1> HIDE DEF p, q
<1>2. Half \in Nat /\ MaxOrderQuantity \in Nat /\ MaxNotionalValue \in Nat
      /\ MaxPriceDeviation \in Nat
  BY RiskAssumption
<1>3. ASSUME NEW n \in -Half .. Half - 1 PROVE Wrap(n) = n
  <2>1. n + Half \in 0 .. 2 * Half - 1 /\ 2 * Half \in Nat \ {0}
    BY <1>2, <1>3, LimitsAssumption
  <2> DEFINE x == n + Half
             w == 2 * Half
  <2>2. x \in Nat /\ x < w /\ w \in Nat \ {0}
    BY <2>1
  <2> HIDE DEF x, w
  <2>3. x \div w = 0
    BY <2>2, SMTT(30)
  <2>4. x % w = x
    BY <2>2, <2>3, SMTT(30)
  <2>5. x - Half = n
    BY <1>2 DEF x
  <2> QED BY <2>4, <2>5, Zenon DEF Wrap, x, w
<1>4. p * 10 \in 990 .. 1010 /\ p - q \in -2 .. 2
  BY <1>1
<1>5. Wrap(p * 10) = p * 10 /\ Wrap(p - q) = p - q
  BY <1>2, <1>3, <1>4, LimitsAssumption
<1>6. ~(10 > MaxOrderQuantity) /\ ~(Wrap(p * 10) > MaxNotionalValue)
      /\ Wrap(p - q) # -Half /\ ~(PriceDiff(p, q) > MaxPriceDeviation)
  BY <1>2, <1>4, <1>5, LimitsAssumption DEF PriceDiff, Abs
<1>7. ValidateOrder(p, 10, q) = "Passed"
  BY <1>6 DEF ValidateOrder
<1> QED BY <1>1, <1>7, LimitsAssumption DEF p, q

-----------------------------------------------------------------------------
(* The invariant.                                                            *)

\* Types, the history's numbering, and whose orders are where.
Typed ==
  /\ phase \in {"probe", "create", "elect", "loop", "batch", "backoff", "pause", "flush",
                "ended"}
  /\ orderId \in Nat /\ orderId = Len(made)
  /\ inBatch \in 0 .. BatchCount
  /\ rng \in LiveWords
  /\ Len(outbox) <= OutboxCap
  /\ {brokerUp, cancelled} \subseteq BOOLEAN
  /\ topic \in Seq(Order) /\ outbox \in Seq(Order) /\ made \in Seq(Order)
  /\ count \in [faults : Nat, starts : Nat, resent : Nat]

\* An order's identifier is its place among those of its process.
Numbered == \A i \in 1 .. Len(made) : made[i].id = i

\* What waits is of this process, what was sent of no later one.
Current ==
  /\ ToSet(outbox) \subseteq ToSet(made)
  /\ \A o \in ToSet(outbox) : o.life = count.starts
  /\ \A o \in ToSet(topic) : o.life <= count.starts
  /\ \A o \in ToSet(topic) : o.life = count.starts => o \in ToSet(made)

\* The steps back are paid for.
FewBack == Cardinality(StepsBack(topic \o outbox, count.starts)) <= count.resent

\* The inductive invariant.
IInv == Typed /\ Numbered /\ Current /\ FewBack

USE DEF loopVars

\* It holds at the start.
LEMMA InitInvariant == Init => IInv
<1> SUFFICES ASSUME Init PROVE IInv
  OBVIOUS
<1> USE DEF Init
<1>1. Typed
  <2>1. <<>> \in Seq(Order) /\ Len(<<>>) = 0
    BY EmptySeq
  <2>2. rng \in LiveWords
    BY XorShiftAssumption DEF LiveWords
  <2>3. 0 \in 0 .. BatchCount /\ OutboxCap \in Nat
    BY MakerAssumption
  <2>4. /\ count \in [faults : Nat, starts : Nat, resent : Nat]
        /\ {brokerUp, cancelled} \subseteq BOOLEAN
    OBVIOUS
  <2> QED BY <2>1, <2>2, <2>3, <2>4 DEF Typed
<1>2. Numbered /\ Current
  BY DEF Numbered, Current, ToSet
<1>3. FewBack
  <2>1. <<>> \in Seq(Order) /\ Len(<<>>) = 0
    BY EmptySeq
  <2>2. topic \o outbox = <<>>
    BY <2>1, ConcatEmptySeq
  <2>3. StepsBack(<<>>, count.starts) = {}
    BY <2>1 DEF StepsBack
  <2>4. Cardinality({}) = 0 /\ count.resent = 0
    BY FS_EmptySet
  <2>5. Cardinality(StepsBack(topic \o outbox, count.starts)) = 0
    BY <2>2, <2>3, <2>4, Zenon
  <2> QED BY <2>4, <2>5 DEF FewBack
<1> QED BY <1>1, <1>2, <1>3 DEF IInv

\* A step that leaves orders and queues alone.
LEMMA QuietKeeps ==
  ASSUME IInv, UNCHANGED <<orderId, made, outbox, topic>>,
         count' \in [faults : Nat, starts : Nat, resent : Nat],
         count'.starts = count.starts, count'.resent = count.resent,
         phase' \in {"probe", "create", "elect", "loop", "batch", "backoff", "pause", "flush",
                     "ended"},
         inBatch' \in 0 .. BatchCount, rng' \in LiveWords,
         {brokerUp', cancelled'} \subseteq BOOLEAN
  PROVE  IInv'
<1>1. Typed'
  BY DEF IInv, Typed
<1>2. Numbered'
  BY DEF IInv, Numbered
<1>3. Current'
  BY DEF IInv, Current
<1>4. FewBack'
  BY DEF IInv, FewBack
<1> QED BY <1>1, <1>2, <1>3, <1>4 DEF IInv

\* What the queue and the topic are together.
LEMMA Together ==
  ASSUME IInv
  PROVE  /\ topic \o outbox \in Seq(Order)
         /\ ToSet(topic \o outbox) = ToSet(topic) \cup ToSet(outbox)
         /\ \A o \in ToSet(topic \o outbox) : o.life = count.starts => o \in ToSet(made)
         /\ \A o \in ToSet(made) : o.id \in 1 .. orderId
<1>1. topic \in Seq(Order) /\ outbox \in Seq(Order) /\ made \in Seq(Order)
      /\ orderId = Len(made) /\ orderId \in Nat
  BY DEF IInv, Typed
<1>2. /\ topic \o outbox \in Seq(Order)
      /\ ToSet(topic \o outbox) = ToSet(topic) \cup ToSet(outbox)
  BY <1>1, ToSetConcat
<1>3. \A o \in ToSet(made) : o.id \in 1 .. orderId
  <2>1. ToSet(made) = {made[i] : i \in 1 .. Len(made)}
    BY <1>1, ToSetIs
  <2> QED BY <1>1, <2>1 DEF IInv, Numbered
<1>4. \A o \in ToSet(topic) \cup ToSet(outbox) : o.life = count.starts => o \in ToSet(made)
  BY DEF IInv, Current
<1> QED BY <1>2, <1>3, <1>4

\* An order is drawn, and put in the queue or not.
LEMMA MakeOrderKeeps ==
  ASSUME IInv, MakeOrder
  PROVE  IInv'
<1>0. Typed
  BY DEF IInv
<1>1. rng' \in LiveWords /\ request' \in Order /\ request'.id = orderId + 1
      /\ request'.life = count.starts
  BY <1>0, DrawMakes DEF Typed, MakeOrder
<1>2. /\ made' \in Seq(Order) /\ Len(made') = Len(made) + 1
      /\ ToSet(made') = ToSet(made) \cup {request'}
      /\ \A i \in 1 .. Len(made) : made'[i] = made[i]
      /\ made'[Len(made) + 1] = request'
  <2>1. made \in Seq(Order) /\ made' = Append(made, request')
    BY <1>0 DEF Typed, MakeOrder
  <2> QED BY <1>1, <2>1, ToSetAppend
<1>3. \/ outbox' = Append(outbox, request') /\ Len(outbox) < OutboxCap
      \/ outbox' = outbox
  BY DEF MakeOrder
<1>4. /\ outbox' \in Seq(Order) /\ Len(outbox') <= OutboxCap
      /\ ToSet(outbox') \subseteq ToSet(outbox) \cup {request'}
  <2>1. outbox \in Seq(Order) /\ Len(outbox) \in Nat /\ OutboxCap \in Nat
        /\ Len(outbox) <= OutboxCap
    BY <1>0, MakerAssumption, LenProperties DEF Typed
  <2>2. CASE outbox' = outbox
    BY <2>1, <2>2
  <2>3. CASE outbox' = Append(outbox, request') /\ Len(outbox) < OutboxCap
    <3>1. /\ ToSet(outbox') = ToSet(outbox) \cup {request'}
          /\ outbox' \in Seq(Order) /\ Len(outbox') = Len(outbox) + 1
      BY <1>1, <2>1, <2>3, ToSetAppend
    <3> QED BY <2>1, <2>3, <3>1
  <2> QED BY <1>3, <2>2, <2>3
<1>5. Typed'
  <2>1. orderId' = orderId + 1 /\ inBatch' = inBatch + 1 /\ inBatch < BatchCount
        /\ phase' \in {"batch", "backoff"} /\ UNCHANGED <<topic, brokerUp, cancelled, count>>
    BY DEF MakeOrder, InBatch
  <2>2. inBatch' \in 0 .. BatchCount /\ orderId' \in Nat /\ orderId' = Len(made')
    BY <1>0, <1>2, <2>1, MakerAssumption DEF Typed
  <2> QED BY <1>0, <1>1, <1>2, <1>4, <2>1, <2>2 DEF Typed
<1>6. Numbered'
  <2> SUFFICES ASSUME NEW i \in 1 .. Len(made') PROVE made'[i].id = i
    BY DEF Numbered
  <2>1. Len(made) \in Nat /\ orderId = Len(made)
    BY <1>0 DEF Typed
  <2>2. i \in 1 .. Len(made) \/ i = Len(made) + 1
    BY <1>2, <2>1
  <2> QED BY <1>1, <1>2, <2>1, <2>2 DEF IInv, Numbered
<1>7. Current'
  BY <1>1, <1>2, <1>4 DEF IInv, Current, MakeOrder
<1>8. FewBack'
  <2> DEFINE s == topic \o outbox
  <2>1. s \in Seq(Order) /\ \A i \in 1 .. Len(s) : s[i] \in ToSet(s)
    BY Together, ToSetIs
  <2>2. \A o \in ToSet(s) : o.life = count.starts => o.id \in 1 .. orderId
    BY Together
  <2> HIDE DEF s
  <2>3. \A i \in 1 .. Len(s) : s[i].life = count.starts => s[i].id < request'.id
    BY <1>0, <1>1, <2>1, <2>2 DEF Typed
  <2>4. StepsBack(Append(s, request'), count.starts) = StepsBack(s, count.starts)
    BY <1>1, <2>1, <2>3, StepsAppend
  <2>5. UNCHANGED <<topic, count>>
    BY DEF MakeOrder
  <2>6. topic' \o outbox' = s \/ topic' \o outbox' = Append(s, request')
    <3>1. topic \in Seq(Order) /\ outbox \in Seq(Order)
      BY <1>0 DEF Typed
    <3>2. topic \o Append(outbox, request') = Append(topic \o outbox, request')
      BY <1>1, <3>1, ConcatAppend
    <3>3. topic' = topic
      BY <2>5
    <3> QED BY <1>3, <3>2, <3>3, Zenon DEF s
  <2>7. StepsBack(topic' \o outbox', count.starts) = StepsBack(s, count.starts)
    BY <2>4, <2>6, Zenon
  <2>8. Cardinality(StepsBack(s, count.starts)) <= count.resent
    BY DEF IInv, FewBack, s
  <2>9. Cardinality(StepsBack(topic' \o outbox', count.starts)) <= count.resent
    BY <2>7, <2>8, Zenon
  <2> QED BY <2>5, <2>9 DEF FewBack
<1> QED BY <1>5, <1>6, <1>7, <1>8 DEF IInv

\* The first of the queue and the rest.
LEMMA QueueHead ==
  ASSUME Typed, outbox # <<>>
  PROVE  /\ Head(outbox) \in Order /\ Tail(outbox) \in Seq(Order)
         /\ Len(Tail(outbox)) = Len(outbox) - 1 /\ Len(outbox) \in Nat \ {0}
         /\ Head(outbox) \in ToSet(outbox) /\ ToSet(Tail(outbox)) \subseteq ToSet(outbox)
<1> DEFINE t == Tail(outbox)
<1>1. outbox \in Seq(Order)
  BY DEF Typed
<1>2. Head(outbox) \in Order /\ t \in Seq(Order) /\ Len(t) = Len(outbox) - 1
      /\ \A i \in 1 .. Len(t) : t[i] = outbox[i + 1]
  BY <1>1, HeadTailProperties
<1>3. Len(outbox) \in Nat \ {0} /\ Head(outbox) = outbox[1]
  BY <1>1, EmptySeq
<1> HIDE DEF t
<1>4. /\ ToSet(outbox) = {outbox[i] : i \in 1 .. Len(outbox)}
      /\ ToSet(t) = {t[i] : i \in 1 .. Len(t)}
  BY <1>1, <1>2, ToSetIs
<1>5. ToSet(t) \subseteq ToSet(outbox)
  <2> SUFFICES ASSUME NEW i \in 1 .. Len(t) PROVE t[i] \in ToSet(outbox)
    BY <1>4
  <2>1. i + 1 \in 1 .. Len(outbox)
    BY <1>2, <1>3
  <2> QED BY <1>2, <1>4, <2>1
<1>6. Head(outbox) \in ToSet(outbox)
  BY <1>3, <1>4
<1> QED BY <1>2, <1>3, <1>5, <1>6 DEF t

\* The broker gets an order.
LEMMA DeliverKeeps ==
  ASSUME IInv, Deliver
  PROVE  IInv'
<1> DEFINE h == Head(outbox)
<1>0. Typed /\ outbox # <<>>
  BY DEF IInv, Deliver
<1>1. h \in Order /\ outbox' = Tail(outbox) /\ topic' = Append(topic, h)
      /\ UNCHANGED <<phase, loopVars, brokerUp, cancelled, count>>
  BY <1>0, QueueHead DEF Deliver
<1>2. h \in ToSet(outbox) /\ ToSet(outbox') \subseteq ToSet(outbox)
  BY <1>0, <1>1, QueueHead
<1>3. outbox' \in Seq(Order) /\ Len(outbox') <= OutboxCap
  <2>1. Len(outbox) \in Nat /\ OutboxCap \in Nat /\ Len(outbox) <= OutboxCap
    BY <1>0, QueueHead, MakerAssumption DEF Typed
  <2> QED BY <1>0, <1>1, <2>1, QueueHead
<1>4. topic' \in Seq(Order) /\ ToSet(topic') = ToSet(topic) \cup {h}
  <2>1. topic \in Seq(Order)
    BY <1>0 DEF Typed
  <2> QED BY <1>1, <2>1, ToSetAppend
<1>5. topic' \o outbox' = topic \o outbox
  <2>1. topic \in Seq(Order) /\ outbox \in Seq(Order)
    BY <1>0 DEF Typed
  <2> QED BY <1>0, <1>1, <2>1, ConcatMove
<1> HIDE DEF h
<1>6. Typed'
  BY <1>0, <1>1, <1>3, <1>4 DEF Typed
<1>7. Numbered'
  BY <1>1 DEF IInv, Numbered
<1>8. Current'
  <2>1. h.life \in Nat
    BY <1>1 DEF Order
  <2> QED BY <1>1, <1>2, <1>4, <2>1 DEF IInv, Current
<1>9. FewBack'
  BY <1>1, <1>5 DEF IInv, FewBack
<1> QED BY <1>6, <1>7, <1>8, <1>9 DEF IInv

\* Without its head the queue makes no step back more.
LEMMA TailFewBack ==
  ASSUME IInv, outbox # <<>>
  PROVE  /\ topic \o Tail(outbox) \in Seq(Order)
         /\ Cardinality(StepsBack(topic \o Tail(outbox), count.starts)) <= count.resent
<1> DEFINE s == topic \o outbox
           t == topic \o Tail(outbox)
           k == Len(topic) + 1
<1>1. topic \in Seq(Order) /\ outbox \in Seq(Order) /\ Tail(outbox) \in Seq(Order)
      /\ Len(outbox) \in Nat \ {0} /\ count.resent \in Nat
  BY QueueHead DEF IInv, Typed
<1>2. s \in Seq(Order) /\ t \in Seq(Order)
  BY <1>1, ConcatProperties
<1>3. Without(s, t, k)
  BY <1>1, ConcatTail
<1>4. s[k].life = count.starts
  <2>1. s[k] = outbox[1]
    <3>1. \A i \in 1 .. Len(outbox) : s[Len(topic) + i] = outbox[i]
      BY <1>1, ToSetConcat
    <3>2. 1 \in 1 .. Len(outbox)
      BY <1>1
    <3> HIDE DEF s
    <3> QED BY <3>1, <3>2
  <2>2. outbox[1] \in ToSet(outbox)
    BY <1>1, ToSetIs
  <2> HIDE DEF s, k
  <2> QED BY <2>1, <2>2 DEF IInv, Current
<1>5. Cardinality(StepsBack(s, count.starts)) <= count.resent
  BY DEF IInv, FewBack
<1> HIDE DEF s, t, k
<1>6. Cardinality(StepsBack(t, count.starts)) <= Cardinality(StepsBack(s, count.starts))
  BY <1>2, <1>3, <1>4, StepsWithout
<1>7. Cardinality(StepsBack(t, count.starts)) \in Nat
      /\ Cardinality(StepsBack(s, count.starts)) \in Nat
  BY <1>2, StepsCount
<1>8. Cardinality(StepsBack(t, count.starts)) <= count.resent
  BY <1>1, <1>5, <1>6, <1>7
<1> QED BY <1>2, <1>8 DEF t

\* No broker answers in time.
LEMMA ExpireKeeps ==
  ASSUME IInv, Expire
  PROVE  IInv'
<1>0. Typed /\ outbox # <<>>
  BY DEF IInv, Expire
<1>1. outbox' = Tail(outbox) /\ UNCHANGED <<phase, loopVars, topic, brokerUp, cancelled, count>>
  BY DEF Expire
<1>2. ToSet(outbox') \subseteq ToSet(outbox)
  BY <1>0, <1>1, QueueHead
<1>3. outbox' \in Seq(Order) /\ Len(outbox') <= OutboxCap
  <2>1. Len(outbox) \in Nat /\ OutboxCap \in Nat /\ Len(outbox) <= OutboxCap
    BY <1>0, QueueHead, MakerAssumption DEF Typed
  <2> QED BY <1>0, <1>1, <2>1, QueueHead
<1>4. Typed'
  BY <1>0, <1>1, <1>3 DEF Typed
<1>5. Numbered' /\ Current'
  BY <1>1, <1>2 DEF IInv, Numbered, Current
<1>6. FewBack'
  <2>1. Cardinality(StepsBack(topic \o Tail(outbox), count.starts)) <= count.resent
    BY <1>0, TailFewBack
  <2> QED BY <1>1, <2>1 DEF FewBack
<1> QED BY <1>4, <1>5, <1>6 DEF IInv

\* An order is sent again, behind what waits.
LEMMA SendAgainKeeps ==
  ASSUME IInv, SendAgain
  PROVE  IInv'
<1> DEFINE h == Head(outbox)
           t == Tail(outbox)
<1>0. Typed /\ outbox # <<>>
  BY DEF IInv, SendAgain
<1>1. h \in Order /\ t \in Seq(Order) /\ Len(t) = Len(outbox) - 1
      /\ Len(outbox) \in Nat \ {0} /\ h \in ToSet(outbox) /\ ToSet(t) \subseteq ToSet(outbox)
  BY <1>0, QueueHead
<1>2. /\ outbox' = Append(t, h) /\ (topic' = topic \/ topic' = Append(topic, h))
      /\ count' = [count EXCEPT !.faults = @ + 1, !.resent = @ + 1]
      /\ UNCHANGED <<phase, loopVars, brokerUp, cancelled>>
  BY DEF SendAgain
<1>3. topic \in Seq(Order) /\ count \in [faults : Nat, starts : Nat, resent : Nat]
      /\ Len(outbox) <= OutboxCap
  BY <1>0 DEF Typed
<1>4. /\ count' \in [faults : Nat, starts : Nat, resent : Nat]
      /\ count'.starts = count.starts /\ count'.resent = count.resent + 1
  <2>1. /\ count.faults + 1 \in Nat /\ count.resent + 1 \in Nat /\ count.starts \in Nat
    BY <1>3
  <2>2. count' = [faults |-> count.faults + 1, starts |-> count.starts,
                  resent |-> count.resent + 1]
    BY <1>2, <1>3
  <2> QED BY <2>1, <2>2
<1>c. topic \o t \in Seq(Order)
      /\ Cardinality(StepsBack(topic \o t, count.starts)) <= count.resent
  BY <1>0, TailFewBack
<1>m. Append(topic, h) \o t = topic \o outbox
  <2>1. outbox \in Seq(Order)
    BY <1>0 DEF Typed
  <2> QED BY <1>0, <1>3, <2>1, ConcatMove
<1> HIDE DEF h, t
<1>5. /\ outbox' \in Seq(Order) /\ Len(outbox') = Len(t) + 1
      /\ ToSet(outbox') = ToSet(t) \cup {h}
  BY <1>1, <1>2, ToSetAppend
<1>6. topic' \in Seq(Order) /\ ToSet(topic') \subseteq ToSet(topic) \cup {h}
  <2>1. CASE topic' = topic
    BY <1>3, <2>1
  <2>2. CASE topic' = Append(topic, h)
    BY <1>1, <1>3, <2>2, ToSetAppend
  <2> QED BY <1>2, <2>1, <2>2
<1>7. Typed'
  <2>1. Len(outbox') <= OutboxCap
    BY <1>1, <1>3, <1>5, MakerAssumption
  <2> QED BY <1>0, <1>2, <1>4, <1>5, <1>6, <2>1 DEF Typed
<1>8. Numbered'
  BY <1>2 DEF IInv, Numbered
<1>9. Current'
  <2>1. h.life \in Nat
    BY <1>1 DEF Order
  <2> QED BY <1>1, <1>2, <1>4, <1>5, <1>6, <2>1 DEF IInv, Current
<1>10. FewBack'
  <2>1. PICK s \in Seq(Order) : /\ topic' \o outbox' = Append(s, h)
                                /\ Cardinality(StepsBack(s, count.starts)) <= count.resent
    <3>1. CASE topic' = topic
      <4>1. topic' \o outbox' = Append(topic \o t, h)
        BY <1>1, <1>2, <1>3, <3>1, ConcatAppend
      <4> QED BY <4>1, <1>c
    <3>2. CASE topic' = Append(topic, h)
      <4>1. topic' \in Seq(Order)
        BY <1>6
      <4>2. topic' \o outbox' = Append(topic' \o t, h)
        BY <1>1, <1>2, <4>1, ConcatAppend
      <4>3. topic' \o t = topic \o outbox
        BY <1>m, <3>2, Zenon
      <4>4. topic \o outbox \in Seq(Order)
        BY Together
      <4>5. Cardinality(StepsBack(topic \o outbox, count.starts)) <= count.resent
        BY DEF IInv, FewBack
      <4> QED BY <4>2, <4>3, <4>4, <4>5, Zenon
    <3> QED BY <1>2, <3>1, <3>2
  <2>2. Cardinality(StepsBack(Append(s, h), count.starts))
          <= Cardinality(StepsBack(s, count.starts)) + 1
    BY <1>1, StepsAppend
  <2>3. Cardinality(StepsBack(Append(s, h), count.starts)) \in Nat
        /\ Cardinality(StepsBack(s, count.starts)) \in Nat
    <3>1. Append(s, h) \in Seq(Order)
      BY <1>1, AppendProperties
    <3> QED BY <3>1, StepsCount
  <2>4. Cardinality(StepsBack(Append(s, h), count.starts)) <= count.resent + 1
    BY <1>3, <2>1, <2>2, <2>3
  <2>5. Cardinality(StepsBack(topic' \o outbox', count'.starts)) <= count'.resent
    BY <1>4, <2>1, <2>4, Zenon
  <2> QED BY <2>5 DEF FewBack
<1> QED BY <1>7, <1>8, <1>9, <1>10 DEF IInv

\* What waits is gone: at the end of a flush, or with the process.
LEMMA EmptiedKeeps ==
  ASSUME IInv, Flush \/ Restart
  PROVE  IInv'
<1>0. Typed /\ topic \in Seq(Order)
  BY DEF IInv, Typed
<1>1. outbox' = <<>> /\ topic' = topic
  BY DEF Flush, Restart
<1>2. <<>> \in Seq(Order) /\ Len(<<>>) = 0 /\ ToSet(<<>>) = {}
  BY EmptySeq DEF ToSet
<1>3. topic' \o outbox' = topic
  BY <1>0, <1>1, ConcatEmptySeq
<1>4. CASE Flush
  <2>1. UNCHANGED <<loopVars, brokerUp, cancelled, count>> /\ phase' = "ended"
    BY <1>4 DEF Flush
  <2>2. Typed'
    BY <1>0, <1>1, <1>2, <2>1, MakerAssumption DEF Typed
  <2>3. Numbered' /\ Current'
    BY <1>1, <1>2, <2>1 DEF IInv, Numbered, Current
  <2>4. FewBack'
    <3> DEFINE A == StepsBack(topic, count.starts)
               B == StepsBack(topic \o outbox, count.starts)
    <3>1. B \in SUBSET B /\ IsFiniteSet(B) /\ Cardinality(B) \in Nat
          /\ Cardinality(B) <= count.resent
      BY Together, StepsCount DEF IInv, FewBack
    <3>2. A \subseteq B
      <4> DEFINE s == topic \o outbox
      <4>1. /\ Len(s) = Len(topic) + Len(outbox)
            /\ \A i \in 1 .. Len(topic) : s[i] = topic[i]
            /\ Len(topic) \in Nat /\ Len(outbox) \in Nat
        <5>1. outbox \in Seq(Order)
          BY <1>0 DEF Typed
        <5> QED BY <1>0, <5>1, ToSetConcat, LenProperties
      <4> HIDE DEF s
      <4>2. \A i \in 2 .. Len(topic) : i \in 2 .. Len(s) /\ i \in 1 .. Len(topic)
                                       /\ i - 1 \in 1 .. Len(topic)
        BY <4>1
      <4>3. StepsBack(topic, count.starts) \subseteq StepsBack(s, count.starts)
        BY <4>1, <4>2 DEF StepsBack
      <4> QED BY <4>3 DEF s
    <3>3. Cardinality(A) <= Cardinality(B) /\ IsFiniteSet(A)
      BY <3>1, <3>2, FS_Subset
    <3>4. Cardinality(A) \in Nat /\ count.resent \in Nat
      BY <1>0, <3>3, FS_CardinalityType DEF Typed
    <3> HIDE DEF A, B
    <3>5. Cardinality(A) <= count.resent
      BY <3>1, <3>3, <3>4
    <3> QED BY <1>3, <2>1, <3>5 DEF FewBack, A
  <2> QED BY <2>2, <2>3, <2>4 DEF IInv
<1>5. CASE Restart
  <2>1. /\ count' = [count EXCEPT !.starts = @ + 1, !.resent = 0]
        /\ phase' = "probe" /\ cancelled' = FALSE /\ brokerUp' = brokerUp
        /\ orderId' = 0 /\ inBatch' = 0 /\ rng' = DefaultSeed /\ made' = <<>>
    BY <1>5 DEF Restart
  <2>2. /\ count' \in [faults : Nat, starts : Nat, resent : Nat]
        /\ count'.starts = count.starts + 1 /\ count'.resent = 0 /\ count.starts \in Nat
    <3>1. /\ count \in [faults : Nat, starts : Nat, resent : Nat]
          /\ count.starts + 1 \in Nat /\ count.faults \in Nat /\ count.starts \in Nat
      BY <1>0 DEF Typed
    <3>2. count' = [faults |-> count.faults, starts |-> count.starts + 1, resent |-> 0]
      BY <2>1, <3>1
    <3> QED BY <3>1, <3>2
  <2>3. Typed'
    <3>1. DefaultSeed \in LiveWords
      BY XorShiftAssumption DEF LiveWords
    <3>2. 0 \in 0 .. BatchCount /\ OutboxCap \in Nat
      BY MakerAssumption
    <3>3. Len(outbox') <= OutboxCap /\ orderId' \in Nat /\ orderId' = Len(made')
          /\ inBatch' \in 0 .. BatchCount
      BY <1>1, <1>2, <2>1, <3>2
    <3>4. outbox' \in Seq(Order) /\ made' \in Seq(Order) /\ topic' \in Seq(Order)
      BY <1>0, <1>1, <1>2, <2>1, Zenon
    <3>5. phase' = "probe" /\ {brokerUp', cancelled'} \subseteq BOOLEAN
      BY <1>0, <2>1 DEF Typed
    <3> QED BY <2>1, <2>2, <3>1, <3>3, <3>4, <3>5 DEF Typed
  <2>4. Numbered'
    BY <1>2, <2>1 DEF Numbered
  <2>5. \A o \in ToSet(topic) : o.life \in Nat /\ o.life < count'.starts
    <3>1. ToSet(topic) \subseteq Order
      BY <1>0, ToSetIs
    <3>2. \A o \in ToSet(topic) : o.life \in Nat /\ o.life <= count.starts
      BY <3>1 DEF IInv, Current, Order
    <3> QED BY <2>2, <3>2
  <2>6. Current'
    BY <1>1, <1>2, <2>2, <2>5 DEF Current
  <2>7. FewBack'
    <3>1. \A i \in 2 .. Len(topic) : topic[i] \in ToSet(topic)
      BY <1>0, ToSetIs
    <3>2. StepsBack(topic, count'.starts) = {}
      BY <2>5, <3>1 DEF StepsBack
    <3>3. Cardinality({}) = 0
      BY FS_EmptySet
    <3>4. Cardinality(StepsBack(topic' \o outbox', count'.starts)) = 0
      BY <1>3, <3>2, <3>3, Zenon
    <3> QED BY <2>2, <3>4 DEF FewBack
  <2> QED BY <2>3, <2>4, <2>6, <2>7 DEF IInv
<1> QED BY <1>4, <1>5

\* Every step keeps the invariant.
LEMMA Invariant == Spec => []IInv
<1>1. IInv /\ [Next]_vars => IInv'
  <2> SUFFICES ASSUME IInv, [Next]_vars PROVE IInv'
    OBVIOUS
  <2>0. Typed /\ count \in [faults : Nat, starts : Nat, resent : Nat]
        /\ inBatch \in 0 .. BatchCount /\ rng \in LiveWords /\ 0 \in 0 .. BatchCount
        /\ {brokerUp, cancelled} \subseteq BOOLEAN
    BY MakerAssumption DEF IInv, Typed
  <2>1. CASE \/ Probe \/ CreateTopic \/ CancelledBefore \/ BackoffOver \/ BatchDone
             \/ PauseOver \/ LeaveLoop
    <3>1. \E p \in {"create", "ended", "elect", "batch", "pause", "loop", "flush"} : Goto(p)
      BY <2>1 DEF Probe, CreateTopic, CancelledBefore, BackoffOver, BatchDone, PauseOver,
         LeaveLoop
    <3> QED BY <2>0, <3>1, QuietKeeps DEF Goto
  <2>2. CASE BeginLoop
    <3>1. rng' \in LiveWords
      BY <2>2, MakerAssumption, XorShiftAssumption DEF BeginLoop, Seed, LiveWords
    <3> QED BY <2>0, <2>2, <3>1, QuietKeeps DEF BeginLoop
  <2>3. CASE BeginBatch
    BY <2>0, <2>3, QuietKeeps DEF BeginBatch
  <2>4. CASE MakeOrder
    BY <2>4, MakeOrderKeeps
  <2>5. CASE Flush \/ Restart
    BY <2>5, EmptiedKeeps
  <2>6. CASE Deliver
    BY <2>6, DeliverKeeps
  <2>7. CASE Expire
    BY <2>7, ExpireKeeps
  <2>8. CASE SendAgain
    BY <2>8, SendAgainKeeps
  <2>9. CASE BrokerChanges
    <3>1. /\ count.faults + 1 \in Nat /\ count.starts \in Nat /\ count.resent \in Nat
      BY <2>0
    <3>2. count' = [faults |-> count.faults + 1, starts |-> count.starts,
                    resent |-> count.resent]
      BY <2>0, <2>9 DEF BrokerChanges
    <3>3. /\ count' \in [faults : Nat, starts : Nat, resent : Nat]
          /\ count'.starts = count.starts /\ count'.resent = count.resent
      BY <3>1, <3>2
    <3>4. brokerUp' \in BOOLEAN
      BY <2>9 DEF BrokerChanges
    <3> QED BY <2>0, <2>9, <3>3, <3>4, QuietKeeps DEF BrokerChanges, Typed
  <2>10. CASE Cancel
    BY <2>0, <2>10, QuietKeeps DEF Cancel, Typed
  <2>11. CASE UNCHANGED vars
    BY <2>0, <2>11, QuietKeeps DEF vars, Typed
  <2> QED BY <2>1, <2>2, <2>3, <2>4, <2>5, <2>6, <2>7, <2>8, <2>9, <2>10, <2>11
          DEF Next, Worker
<1> QED BY <1>1, InitInvariant, PTL DEF Spec

-----------------------------------------------------------------------------
(* What follows.                                                             *)

\* The state of ExecuteAsync has the types of its program, in particular the local
\* queue never exceeds its limit, whatever the broker does.
THEOREM TypeCorrect == Spec => []TypeOK
<1>1. IInv => TypeOK
  BY DEF IInv, Typed, TypeOK, LiveWords
<1> QED BY <1>1, Invariant, PTL

\* The word of the generator, XorShift64.cs, is never zero, whatever the clock
\* says at the start, however many orders are drawn and however often the service
\* starts again.
THEOREM NeverStuck == Spec => []GeneratorNeverStuck
<1>1. IInv => GeneratorNeverStuck
  BY DEF IInv, Typed, LiveWords, GeneratorNeverStuck
<1> QED BY <1>1, Invariant, PTL

\* What ExecuteAsync sends is what it drew, for every length of its queue and every
\* number of orders that expire, find no room or are sent again: a step back in the
\* identifiers is paid for by an order sent again.
THEOREM AlwaysSentAsDrawn == Spec => []SentAsDrawn
<1>1. ASSUME IInv PROVE SentAsDrawn
  <2> DEFINE s == topic \o outbox
  <2>1. s \in Seq(Order) /\ \A o \in ToSet(s) : o.life = count.starts => o \in ToSet(made)
    BY <1>1, Together
  <2>2. \A i \in DOMAIN s : s[i] \in ToSet(s)
    BY DEF ToSet
  <2> HIDE DEF s
  <2>3. \A i \in DOMAIN s : s[i].life = count.starts => s[i] \in ToSet(made)
    BY <2>1, <2>2
  <2> QED BY <1>1, <2>3 DEF IInv, FewBack, SentAsDrawn, s
<1> QED BY <1>1, Invariant, PTL

\* Whatever the generator draws, at any width: an order of the topic has a price of
\* the engine's band, and PreTradeRiskChecker passes it against the price of any
\* other order of the topic.
THEOREM AlwaysAdmitted == Spec => []OrdersAdmitted
<1>1. ASSUME IInv PROVE OrdersAdmitted
  <2>1. topic \in Seq(Order)
    BY <1>1 DEF IInv, Typed
  <2>2. ToSet(topic) \subseteq Order
    BY <2>1, ToSetIs
  <2> QED BY <2>2, DrawnPasses DEF OrdersAdmitted
<1> QED BY <1>1, Invariant, PTL
=============================================================================
