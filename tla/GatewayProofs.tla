---------------------------- MODULE GatewayProofs ----------------------------
(***************************************************************************)
(* Theorems about Gateway for any number of pages, updates, handlers and   *)
(* faults and any capacity of the channel: a page that stays connected     *)
(* misses only what was lost, and no page goes back to an older            *)
(* update unless the handlers of the two ran together.                     *)
(***************************************************************************)
EXTENDS Gateway, FiniteSetTheorems, SequenceTheorems, TLAPS

-----------------------------------------------------------------------------
(* The inductive invariant.                                                  *)

\* The types, with what the place of the loop says about the update it holds.
Typed ==
  /\ published \in 0 .. MaxUpdates
  /\ running \subseteq 1 .. published /\ Cardinality(running) <= Handlers
  /\ written \in Seq(1 .. published)
  /\ channel \in Seq(Updates) /\ Len(channel) <= ChannelCap
  /\ ToSet(channel) \subseteq ToSet(written)
  /\ loop \in {"wait", "drain", "send", "ended"}
  /\ update \in IF loop = "send" THEN ToSet(written) ELSE {None}
  /\ link \in [Pages -> {"connecting", "live", "reconnecting", "closed"}]
  /\ wire \in [Pages -> Seq(Updates)] /\ shown \in [Pages -> Updates \cup {None}]
  /\ bus \in Seq(Updates) /\ ToSet(bus) \subseteq ToSet(written)
  /\ subscribed \in BOOLEAN
  /\ Lost \subseteq ToSet(written) /\ missed \subseteq Pages
  /\ cancelled \in BOOLEAN /\ faults \in 0 .. MaxFaults

\* A handler writes its update once, and an update overtakes an older one only when
\* their handlers ran together.
Handling ==
  /\ IsInjective(written) /\ running \cap ToSet(written) = {}
  /\ \A j, k \in running : j # k => {j, k} \in overlapped
  /\ \A k \in running, v \in ToSet(written) : k < v => {k, v} \in overlapped
  /\ \A v, x \in ToSet(written) :
       Before(written, x, v) /\ v < x => {x, v} \in overlapped

\* The updates q are of w, behind the one a page shows, x, and in the order of w.
Queued(w, x, q) ==
  /\ x \in ToSet(w) \cup {None}
  /\ ToSet(q) \subseteq {k \in ToSet(w) : x = None \/ Before(w, x, k)}
  /\ \A i, j \in DOMAIN q : i < j => Before(w, q[i], q[j])

\* Any page, cut off now and then or not, has its updates in that order.
AllQueued == \A p \in Pages : Queued(written, shown[p], Ahead(p))

IInv == Typed /\ Handling /\ AllQueued /\ PageFollows

-----------------------------------------------------------------------------
(* Sequences as sets.                                                        *)

\* The elements of a sequence.
LEMMA ToSetIs ==
  ASSUME NEW S, NEW q \in Seq(S)
  PROVE  /\ DOMAIN q = 1 .. Len(q) /\ Len(q) \in Nat
         /\ ToSet(q) = {q[i] : i \in 1 .. Len(q)} /\ ToSet(q) \subseteq S
         /\ q \in Seq(ToSet(q))
BY DEF ToSet

\* Appending adds an element.
LEMMA ToSetAppend ==
  ASSUME NEW S, NEW q \in Seq(S), NEW k \in S
  PROVE  /\ ToSet(Append(q, k)) = ToSet(q) \cup {k}
         /\ Append(q, k) \in Seq(S) /\ Len(Append(q, k)) = Len(q) + 1
         /\ \A i \in 1 .. Len(q) : Append(q, k)[i] = q[i]
         /\ Append(q, k)[Len(q) + 1] = k
<1>1. /\ Append(q, k) \in Seq(S) /\ Len(Append(q, k)) = Len(q) + 1
      /\ \A i \in 1 .. Len(q) : Append(q, k)[i] = q[i]
      /\ Append(q, k)[Len(q) + 1] = k
  OBVIOUS
<1>2. ToSet(Append(q, k)) = {Append(q, k)[i] : i \in 1 .. Len(q) + 1}
  BY <1>1, ToSetIs
<1>3. ToSet(q) = {q[i] : i \in 1 .. Len(q)} /\ Len(q) \in Nat
  BY ToSetIs
<1>4. 1 .. Len(q) + 1 = (1 .. Len(q)) \cup {Len(q) + 1}
  BY <1>3
<1> QED BY <1>1, <1>2, <1>3, <1>4

\* Joining two sequences joins their elements.
LEMMA ToSetConcat ==
  ASSUME NEW S, NEW a \in Seq(S), NEW b \in Seq(S)
  PROVE  /\ ToSet(a \o b) = ToSet(a) \cup ToSet(b)
         /\ a \o b \in Seq(S) /\ Len(a \o b) = Len(a) + Len(b)
         /\ \A i \in 1 .. Len(a) : (a \o b)[i] = a[i]
         /\ \A i \in 1 .. Len(b) : (a \o b)[Len(a) + i] = b[i]
<1>1. /\ a \o b \in Seq(S) /\ Len(a \o b) = Len(a) + Len(b)
      /\ \A i \in 1 .. Len(a) + Len(b) :
           (a \o b)[i] = IF i <= Len(a) THEN a[i] ELSE b[i - Len(a)]
      /\ Len(a) \in Nat /\ Len(b) \in Nat
  BY ConcatProperties, LenProperties
<1>2. /\ \A i \in 1 .. Len(a) : (a \o b)[i] = a[i]
      /\ \A i \in 1 .. Len(b) : (a \o b)[Len(a) + i] = b[i]
  <2>1. ASSUME NEW i \in 1 .. Len(a) PROVE (a \o b)[i] = a[i]
    <3>1. i \in 1 .. Len(a) + Len(b) /\ i <= Len(a)
      BY <1>1
    <3> QED BY <3>1, <1>1
  <2>2. ASSUME NEW i \in 1 .. Len(b) PROVE (a \o b)[Len(a) + i] = b[i]
    <3>1. /\ Len(a) + i \in 1 .. Len(a) + Len(b) /\ ~(Len(a) + i <= Len(a))
          /\ Len(a) + i - Len(a) = i
      BY <1>1
    <3> QED BY <3>1, <1>1
  <2> QED BY <2>1, <2>2
<1>3. ToSet(a \o b) = {(a \o b)[i] : i \in 1 .. Len(a) + Len(b)}
  BY <1>1, ToSetIs
<1>4. \A i \in 1 .. Len(a) + Len(b) :
        i \in 1 .. Len(a) \/ \E j \in 1 .. Len(b) : i = Len(a) + j
  <2> TAKE i \in 1 .. Len(a) + Len(b)
  <2>1. CASE i <= Len(a)
    BY <1>1, <2>1
  <2>2. CASE ~(i <= Len(a))
    <3>1. i - Len(a) \in 1 .. Len(b) /\ i = Len(a) + (i - Len(a))
      BY <1>1, <2>2
    <3> QED BY <3>1
  <2> QED BY <2>1, <2>2
<1>5. /\ \A i \in 1 .. Len(a) : i \in 1 .. Len(a) + Len(b)
      /\ \A i \in 1 .. Len(b) : Len(a) + i \in 1 .. Len(a) + Len(b)
  BY <1>1
<1>6. /\ ToSet(a) = {a[i] : i \in 1 .. Len(a)} /\ ToSet(b) = {b[i] : i \in 1 .. Len(b)}
  BY ToSetIs
<1>7. ToSet(a \o b) \subseteq ToSet(a) \cup ToSet(b)
  <2> SUFFICES ASSUME NEW i \in 1 .. Len(a) + Len(b)
               PROVE  (a \o b)[i] \in ToSet(a) \cup ToSet(b)
    BY <1>3
  <2> QED BY <1>2, <1>4, <1>6
<1>8. ToSet(a) \subseteq ToSet(a \o b)
  BY <1>2, <1>3, <1>5, <1>6
<1>9. ToSet(b) \subseteq ToSet(a \o b)
  <2> SUFFICES ASSUME NEW i \in 1 .. Len(b) PROVE b[i] \in ToSet(a \o b)
    BY <1>6
  <2> QED BY <1>2, <1>3, <1>5
<1> QED BY <1>1, <1>2, <1>7, <1>8, <1>9

-----------------------------------------------------------------------------
(* The order in which updates entered the channel.                           *)

\* Before is a strict order of the elements, total when none is repeated.
LEMMA BeforeOrders ==
  ASSUME NEW S, NEW w \in Seq(S), IsInjective(w)
  PROVE  /\ \A x, y : Before(w, x, y) => x \in ToSet(w) /\ y \in ToSet(w) /\ x # y
         /\ \A x, y, z : Before(w, x, y) /\ Before(w, y, z) => Before(w, x, z)
         /\ \A x, y : ~(Before(w, x, y) /\ Before(w, y, x))
<1>0. /\ DOMAIN w = 1 .. Len(w) /\ Len(w) \in Nat
      /\ ToSet(w) = {w[i] : i \in 1 .. Len(w)}
  BY ToSetIs
<1>inj. \A a, b \in DOMAIN w : w[a] = w[b] => a = b
  BY Zenon DEF IsInjective
<1>1. /\ DOMAIN w = 1 .. Len(w) /\ Len(w) \in Nat
      /\ ToSet(w) = {w[i] : i \in 1 .. Len(w)}
      /\ \A a, b \in 1 .. Len(w) : w[a] = w[b] => a = b
  BY <1>0, <1>inj
<1>2. \A x, y : Before(w, x, y) <=>
                  \E a, b \in 1 .. Len(w) : a < b /\ w[a] = x /\ w[b] = y
  BY <1>1 DEF Before
<1>3. \A x, y : Before(w, x, y) => x \in ToSet(w) /\ y \in ToSet(w) /\ x # y
  BY <1>1, <1>2
<1>4. \A x, y, z : Before(w, x, y) /\ Before(w, y, z) => Before(w, x, z)
  <2> TAKE x, y, z
  <2> SUFFICES ASSUME Before(w, x, y), Before(w, y, z) PROVE Before(w, x, z)
    OBVIOUS
  <2>1. PICK a, b \in 1 .. Len(w) : a < b /\ w[a] = x /\ w[b] = y
    BY <1>2
  <2>2. PICK c, d \in 1 .. Len(w) : c < d /\ w[c] = y /\ w[d] = z
    BY <1>2
  <2>3. b = c
    BY <1>1, <2>1, <2>2
  <2>4. a < d
    BY <1>1, <2>1, <2>2, <2>3
  <2> QED BY <1>2, <2>1, <2>2, <2>4
<1> QED BY <1>3, <1>4

\* A new update is behind all others and changes nothing among them.
LEMMA BeforeAppend ==
  ASSUME NEW S, NEW w \in Seq(S), IsInjective(w), NEW k \in S, k \notin ToSet(w)
  PROVE  /\ IsInjective(Append(w, k))
         /\ \A x, y : Before(Append(w, k), x, y) <=>
                        Before(w, x, y) \/ (x \in ToSet(w) /\ y = k)
<1> DEFINE v == Append(w, k)
<1>0. /\ DOMAIN w = 1 .. Len(w) /\ Len(w) \in Nat
      /\ ToSet(w) = {w[i] : i \in 1 .. Len(w)}
  BY ToSetIs
<1>inj. \A a, b \in DOMAIN w : w[a] = w[b] => a = b
  BY Zenon DEF IsInjective
<1>1. /\ DOMAIN w = 1 .. Len(w) /\ Len(w) \in Nat
      /\ ToSet(w) = {w[i] : i \in 1 .. Len(w)}
      /\ \A a, b \in 1 .. Len(w) : w[a] = w[b] => a = b
  BY <1>0, <1>inj
<1>2. /\ v \in Seq(S) /\ Len(v) = Len(w) + 1
      /\ \A i \in 1 .. Len(w) : v[i] = w[i]
      /\ v[Len(w) + 1] = k
  BY ToSetAppend
<1>3. DOMAIN v = 1 .. Len(w) + 1
  BY <1>2, ToSetIs
<1> HIDE DEF v
<1>4. \A a, b \in 1 .. Len(w) + 1 : v[a] = v[b] => a = b
  <2> TAKE a, b \in 1 .. Len(w) + 1
  <2>1. \A i \in 1 .. Len(w) : w[i] # k
    BY <1>1
  <2>2. (a \in 1 .. Len(w) \/ a = Len(w) + 1) /\ (b \in 1 .. Len(w) \/ b = Len(w) + 1)
    BY <1>1
  <2> QED BY <1>1, <1>2, <2>1, <2>2
<1>5. \A x, y : Before(v, x, y) <=>
                  \E a, b \in 1 .. Len(w) + 1 : a < b /\ v[a] = x /\ v[b] = y
  BY <1>3 DEF Before
<1>6. \A x, y : Before(w, x, y) <=>
                  \E a, b \in 1 .. Len(w) : a < b /\ w[a] = x /\ w[b] = y
  BY <1>1 DEF Before
<1>7. ASSUME NEW x, NEW y, Before(v, x, y)
      PROVE  Before(w, x, y) \/ (x \in ToSet(w) /\ y = k)
  <2>1. PICK a, b \in 1 .. Len(w) + 1 : a < b /\ v[a] = x /\ v[b] = y
    BY <1>5, <1>7
  <2>2. a \in 1 .. Len(w) /\ (b \in 1 .. Len(w) \/ b = Len(w) + 1)
    BY <1>1, <2>1
  <2> QED BY <1>1, <1>2, <1>6, <2>1, <2>2
<1>8. ASSUME NEW x, NEW y, Before(w, x, y)
      PROVE  Before(v, x, y)
  <2>1. PICK a, b \in 1 .. Len(w) : a < b /\ w[a] = x /\ w[b] = y
    BY <1>6, <1>8
  <2>2. a \in 1 .. Len(w) + 1 /\ b \in 1 .. Len(w) + 1
    BY <1>1
  <2> QED BY <1>2, <1>5, <2>1, <2>2
<1>9. ASSUME NEW x \in ToSet(w)
      PROVE  Before(v, x, k)
  <2>1. PICK a \in 1 .. Len(w) : w[a] = x
    BY <1>1
  <2>2. a \in 1 .. Len(w) + 1 /\ Len(w) + 1 \in 1 .. Len(w) + 1 /\ a < Len(w) + 1
    BY <1>1
  <2> QED BY <1>2, <1>5, <2>1, <2>2
<1>10. IsInjective(v)
  BY <1>3, <1>4 DEF IsInjective
<1> QED BY <1>7, <1>8, <1>9, <1>10 DEF v

-----------------------------------------------------------------------------
(* What is still to reach a page.                                            *)

\* The updates q in the order of w: the last part of Queued and of Follows.
InLine(w, q) == \A i, j \in DOMAIN q : i < j => Before(w, q[i], q[j])

\* An update that is written gets behind the others.
LEMMA InLineAppend ==
  ASSUME NEW S, NEW w \in Seq(S), IsInjective(w), NEW k \in S, k \notin ToSet(w),
         NEW q \in Seq(S), ToSet(q) \subseteq ToSet(w), InLine(w, q)
  PROVE  InLine(Append(w, k), Append(q, k))
<1> DEFINE v == Append(w, k)
           r == Append(q, k)
<1>1. /\ DOMAIN q = 1 .. Len(q) /\ Len(q) \in Nat
      /\ ToSet(q) = {q[i] : i \in 1 .. Len(q)}
  BY ToSetIs
<1>2. /\ r \in Seq(S) /\ Len(r) = Len(q) + 1
      /\ \A i \in 1 .. Len(q) : r[i] = q[i]
      /\ r[Len(q) + 1] = k
  BY ToSetAppend
<1>3. DOMAIN r = 1 .. Len(q) + 1
  BY <1>2, ToSetIs
<1>4. \A x, y : Before(v, x, y) <=> Before(w, x, y) \/ (x \in ToSet(w) /\ y = k)
  BY BeforeAppend
<1> HIDE DEF v, r
<1>5. ASSUME NEW i \in 1 .. Len(q) + 1, NEW j \in 1 .. Len(q) + 1, i < j
      PROVE  Before(v, r[i], r[j])
  <2>1. i \in 1 .. Len(q) /\ (j \in 1 .. Len(q) \/ j = Len(q) + 1)
    BY <1>1, <1>5
  <2>2. CASE j \in 1 .. Len(q)
    BY <1>1, <1>2, <1>4, <1>5, <2>1, <2>2 DEF InLine
  <2>3. CASE j = Len(q) + 1
    BY <1>1, <1>2, <1>4, <2>1, <2>3
  <2> QED BY <2>1, <2>2, <2>3
<1> QED BY <1>3, <1>5 DEF InLine, v, r

\* One that is lost leaves the others in line, and is not among them any more.
LEMMA InLineLoses ==
  ASSUME NEW S, NEW w \in Seq(S), IsInjective(w),
         NEW a \in Seq(S), NEW h \in S, NEW b \in Seq(S), InLine(w, a \o <<h>> \o b)
  PROVE  /\ InLine(w, a \o b)
         /\ ToSet(a \o b) = ToSet(a \o <<h>> \o b) \ {h}
         /\ h \in ToSet(a \o <<h>> \o b)
         /\ a \o <<h>> \o b \in Seq(S) /\ a \o b \in Seq(S)
<1> DEFINE o == a \o <<h>>
           q == o \o b
           r == a \o b
<1>1. o = Append(a, h)
  BY AppendIsConcat
<1> HIDE DEF o
<1>2. /\ ToSet(o) = ToSet(a) \cup {h} /\ o \in Seq(S) /\ Len(o) = Len(a) + 1
      /\ \A i \in 1 .. Len(a) : o[i] = a[i]
      /\ o[Len(a) + 1] = h
  BY <1>1, ToSetAppend
<1>3. /\ ToSet(q) = ToSet(o) \cup ToSet(b) /\ q \in Seq(S)
      /\ Len(q) = Len(a) + 1 + Len(b)
      /\ \A i \in 1 .. Len(o) : q[i] = o[i]
      /\ \A i \in 1 .. Len(b) : q[Len(o) + i] = b[i]
  <2>1. o \in Seq(S)
    BY <1>2
  <2>2. /\ ToSet(q) = ToSet(o) \cup ToSet(b) /\ q \in Seq(S)
        /\ Len(q) = Len(o) + Len(b)
        /\ \A i \in 1 .. Len(o) : q[i] = o[i]
        /\ \A i \in 1 .. Len(b) : q[Len(o) + i] = b[i]
    BY <2>1, ToSetConcat
  <2> QED BY <1>2, <2>2
<1>4. /\ ToSet(r) = ToSet(a) \cup ToSet(b) /\ r \in Seq(S) /\ Len(r) = Len(a) + Len(b)
      /\ \A i \in 1 .. Len(a) : r[i] = a[i]
      /\ \A i \in 1 .. Len(b) : r[Len(a) + i] = b[i]
  BY ToSetConcat
<1> HIDE DEF q, r
<1>5. /\ DOMAIN q = 1 .. Len(q) /\ DOMAIN r = 1 .. Len(r)
      /\ Len(a) \in Nat /\ Len(b) \in Nat
      /\ ToSet(a) = {a[i] : i \in 1 .. Len(a)} /\ ToSet(b) = {b[i] : i \in 1 .. Len(b)}
  BY <1>3, <1>4, ToSetIs
<1>6. InLine(w, q)
  BY DEF q, o
\* Where an element of the shorter queue was in the longer one.
<1> DEFINE at(i) == IF i <= Len(a) THEN i ELSE i + 1
<1>7. ASSUME NEW i \in 1 .. Len(r)
      PROVE  at(i) \in 1 .. Len(q) /\ q[at(i)] = r[i]
  <2>1. CASE i <= Len(a)
    <3>1. i \in 1 .. Len(a) /\ i \in 1 .. Len(o) /\ i \in 1 .. Len(q) /\ at(i) = i
      BY <1>2, <1>3, <1>4, <1>5, <2>1
    <3> QED BY <1>2, <1>3, <1>4, <3>1
  <2>2. CASE ~(i <= Len(a))
    <3>1. /\ i - Len(a) \in 1 .. Len(b) /\ i = Len(a) + (i - Len(a))
          /\ at(i) = Len(o) + (i - Len(a)) /\ at(i) \in 1 .. Len(q)
      BY <1>2, <1>3, <1>4, <1>5, <2>2
    <3>2. PICK k \in 1 .. Len(b) : i = Len(a) + k /\ at(i) = Len(o) + k
      BY <3>1
    <3>3. q[Len(o) + k] = b[k] /\ r[Len(a) + k] = b[k]
      BY <1>3, <1>4
    <3> QED BY <3>1, <3>2, <3>3
  <2> QED BY <2>1, <2>2
<1>8. ASSUME NEW i \in 1 .. Len(r), NEW j \in 1 .. Len(r), i < j
      PROVE  at(i) < at(j)
  BY <1>4, <1>5, <1>8
<1> HIDE DEF at
<1>9. InLine(w, r)
  BY <1>5, <1>6, <1>7, <1>8 DEF InLine
<1>10. Len(a) + 1 \in 1 .. Len(q) /\ q[Len(a) + 1] = h
  <2>1. Len(a) + 1 \in 1 .. Len(o) /\ Len(a) + 1 \in 1 .. Len(q)
    BY <1>2, <1>3, <1>5
  <2> QED BY <1>2, <1>3, <2>1
<1>11. \A x : ~Before(w, x, x)
  BY BeforeOrders
<1>12. h \notin ToSet(r)
  <2> SUFFICES ASSUME NEW i \in 1 .. Len(r), r[i] = h PROVE FALSE
    <3>1. ToSet(r) = {r[i] : i \in 1 .. Len(r)}
      BY <1>4, ToSetIs
    <3> QED BY <3>1
  <2>1. at(i) \in 1 .. Len(q) /\ q[at(i)] = h
    BY <1>7
  <2>2. at(i) # Len(a) + 1 /\ at(i) \in Int
    BY <1>4, <1>5 DEF at
  <2>3. at(i) < Len(a) + 1 \/ Len(a) + 1 < at(i)
    BY <1>5, <2>2
  <2> QED BY <1>5, <1>6, <1>10, <1>11, <2>1, <2>3 DEF InLine
<1>13. h \in ToSet(q) /\ ToSet(r) = ToSet(q) \ {h}
  BY <1>2, <1>3, <1>4, <1>12
<1> QED BY <1>3, <1>4, <1>9, <1>13 DEF q, r, o

\* So does cutting off what is nearest to the page.
LEMMA InLineCut ==
  ASSUME NEW S, NEW w, NEW a \in Seq(S), NEW b \in Seq(S), InLine(w, a \o b)
  PROVE  InLine(w, b) /\ ToSet(b) \subseteq ToSet(a \o b)
<1> DEFINE q == a \o b
<1>1. /\ ToSet(q) = ToSet(a) \cup ToSet(b) /\ q \in Seq(S) /\ Len(q) = Len(a) + Len(b)
      /\ \A i \in 1 .. Len(b) : q[Len(a) + i] = b[i]
  BY ToSetConcat
<1>2. InLine(w, q)
  OBVIOUS
<1> HIDE DEF q
<1>3. /\ DOMAIN q = 1 .. Len(q) /\ DOMAIN b = 1 .. Len(b)
      /\ Len(a) \in Nat /\ Len(b) \in Nat
  BY <1>1, ToSetIs
<1>4. ASSUME NEW i \in 1 .. Len(b), NEW j \in 1 .. Len(b), i < j
      PROVE  Before(w, b[i], b[j])
  <2>1. /\ Len(a) + i \in 1 .. Len(q) /\ Len(a) + j \in 1 .. Len(q)
        /\ Len(a) + i < Len(a) + j
    BY <1>1, <1>3, <1>4
  <2> QED BY <1>1, <1>2, <1>3, <2>1 DEF InLine
<1> QED BY <1>1, <1>3, <1>4 DEF InLine, q

\* The update that arrives is before all that follow it.
LEMMA InLineFirst ==
  ASSUME NEW S, NEW w \in Seq(S), IsInjective(w), NEW h \in S, NEW b \in Seq(S),
         InLine(w, <<h>> \o b)
  PROVE  /\ InLine(w, b) /\ ToSet(b) = ToSet(<<h>> \o b) \ {h}
         /\ \A k \in ToSet(b) : Before(w, h, k)
         /\ h \in ToSet(<<h>> \o b)
<1> DEFINE q == <<h>> \o b
<1>1. /\ <<h>> \in Seq(S) /\ Len(<<h>>) = 1 /\ <<h>>[1] = h
  OBVIOUS
<1>2. /\ q \in Seq(S) /\ Len(q) = 1 + Len(b) /\ q[1] = h
      /\ \A i \in 1 .. Len(b) : q[1 + i] = b[i]
  <2>1. \A i \in 1 .. Len(<<h>>) : q[i] = <<h>>[i]
    BY <1>1, ToSetConcat
  <2>2. q[1] = h
    BY <1>1, <2>1
  <2>3. \A i \in 1 .. Len(b) : q[Len(<<h>>) + i] = b[i]
    BY <1>1, ToSetConcat
  <2> QED BY <1>1, <2>2, <2>3, ToSetConcat
<1>3. InLine(w, q)
  OBVIOUS
<1>4. /\ DOMAIN q = 1 .. Len(q) /\ Len(b) \in Nat /\ ToSet(b) = {b[i] : i \in 1 .. Len(b)}
  BY <1>2, ToSetIs
<1>5. ASSUME NEW k \in ToSet(b) PROVE Before(w, h, k)
  <2>1. PICK i \in 1 .. Len(b) : b[i] = k
    BY <1>4
  <2>2. 1 \in 1 .. Len(q) /\ 1 + i \in 1 .. Len(q) /\ 1 < 1 + i
    BY <1>2, <1>4
  <2>3. 1 \in DOMAIN q /\ 1 + i \in DOMAIN q
    BY <1>4, <2>2
  <2>4. Before(w, q[1], q[1 + i])
    BY <1>3, <2>2, <2>3 DEF InLine
  <2> QED BY <1>2, <1>4, <2>1, <2>2, <2>4
<1>6. InLine(w, b)
  BY <1>1, <1>3, InLineCut
<1>7. h \notin ToSet(b)
  BY <1>5, BeforeOrders
<1>8. ToSet(q) = {h} \cup ToSet(b)
  <2>1. ToSet(<<h>>) = {<<h>>[i] : i \in 1 .. Len(<<h>>)}
    BY <1>1, ToSetIs
  <2>2. ToSet(<<h>>) = {h}
    BY <1>1, <2>1
  <2> DEFINE o == <<h>>
  <2>3. o \in Seq(S)
    BY <1>1
  <2> HIDE DEF o
  <2>4. ToSet(o \o b) = ToSet(o) \cup ToSet(b)
    BY <2>3, ToSetConcat
  <2> QED BY <2>2, <2>4 DEF o
<1> QED BY <1>5, <1>6, <1>7, <1>8

\* An update that is written gets to the end of what is ahead of a page ...
LEMMA QueuedAppend ==
  ASSUME NEW S, NEW w \in Seq(S), IsInjective(w), NEW k \in S, k \notin ToSet(w),
         NEW x, NEW q \in Seq(S), Queued(w, x, q)
  PROVE  Queued(Append(w, k), x, Append(q, k))
<1>1. ToSet(q) \subseteq ToSet(w) /\ InLine(w, q)
  BY DEF Queued, InLine
<1>2. InLine(Append(w, k), Append(q, k))
  BY <1>1, InLineAppend
<1>3. ToSet(Append(w, k)) = ToSet(w) \cup {k} /\ ToSet(Append(q, k)) = ToSet(q) \cup {k}
  BY ToSetAppend
<1>4. \A y, z : Before(Append(w, k), y, z) <=> Before(w, y, z) \/ (y \in ToSet(w) /\ z = k)
  BY BeforeAppend
<1> QED BY <1>2, <1>3, <1>4 DEF Queued, InLine

\* ... and nothing is missing before it ...
LEMMA FollowsAppend ==
  ASSUME NEW S, NEW w \in Seq(S), IsInjective(w), NEW k \in S, k \notin ToSet(w),
         NEW x, NEW q \in Seq(S), NEW lost \in SUBSET ToSet(w), Follows(w, lost, x, q)
  PROVE  Follows(Append(w, k), lost, x, Append(q, k))
<1>1. ToSet(q) \subseteq ToSet(w) /\ InLine(w, q)
  BY DEF Follows, InLine
<1>2. InLine(Append(w, k), Append(q, k))
  BY <1>1, InLineAppend
<1>3. ToSet(Append(w, k)) = ToSet(w) \cup {k} /\ ToSet(Append(q, k)) = ToSet(q) \cup {k}
  BY ToSetAppend
<1>4. \A y, z : Before(Append(w, k), y, z) <=> Before(w, y, z) \/ (y \in ToSet(w) /\ z = k)
  BY BeforeAppend
<1>5. x \in (ToSet(Append(w, k)) \ lost) \cup {None}
  BY <1>3 DEF Follows
<1>6. \A j \in ToSet(w) \ lost : x = None \/ Before(Append(w, k), x, j) <=>
                                 x = None \/ Before(w, x, j)
  BY <1>4
<1>7. x = None \/ Before(Append(w, k), x, k)
  BY <1>4 DEF Follows
<1>8. ToSet(Append(q, k)) =
        {j \in ToSet(Append(w, k)) \ lost : x = None \/ Before(Append(w, k), x, j)}
  BY <1>3, <1>6, <1>7 DEF Follows
<1> QED BY <1>2, <1>5, <1>8 DEF Follows, InLine

\* ... what is lost leaves it ...
LEMMA QueuedLoses ==
  ASSUME NEW S, NEW w \in Seq(S), IsInjective(w), NEW x,
         NEW a \in Seq(S), NEW h \in S, NEW b \in Seq(S), Queued(w, x, a \o <<h>> \o b)
  PROVE  Queued(w, x, a \o b)
<1>1. InLine(w, a \o <<h>> \o b)
  BY DEF Queued, InLine
<1>2. InLine(w, a \o b) /\ ToSet(a \o b) = ToSet(a \o <<h>> \o b) \ {h}
  BY <1>1, InLineLoses
<1> QED BY <1>2 DEF Queued, InLine

\* ... and it counts as lost ...
LEMMA FollowsLoses ==
  ASSUME NEW S, NEW w \in Seq(S), IsInjective(w), NEW lost, NEW x,
         NEW a \in Seq(S), NEW h \in S, NEW b \in Seq(S),
         Follows(w, lost, x, a \o <<h>> \o b)
  PROVE  Follows(w, lost \cup {h}, x, a \o b)
<1>1. InLine(w, a \o <<h>> \o b)
  BY DEF Follows, InLine
<1>2. /\ InLine(w, a \o b) /\ ToSet(a \o b) = ToSet(a \o <<h>> \o b) \ {h}
      /\ h \in ToSet(a \o <<h>> \o b)
  BY <1>1, InLineLoses
<1>3. x = None \/ x # h
  BY <1>2, BeforeOrders DEF Follows
<1> QED BY <1>2, <1>3 DEF Follows, InLine

\* ... and what arrives is shown.
LEMMA QueuedArrives ==
  ASSUME NEW S, NEW w \in Seq(S), IsInjective(w), NEW x,
         NEW h \in S, NEW b \in Seq(S), Queued(w, x, <<h>> \o b)
  PROVE  Queued(w, h, b) /\ h \in ToSet(w) /\ (x = None \/ Before(w, x, h))
<1>1. InLine(w, <<h>> \o b)
  BY DEF Queued, InLine
<1>2. /\ InLine(w, b) /\ ToSet(b) = ToSet(<<h>> \o b) \ {h}
      /\ \A k \in ToSet(b) : Before(w, h, k)
      /\ h \in ToSet(<<h>> \o b)
  BY <1>1, InLineFirst
<1> QED BY <1>2 DEF Queued, InLine

\* ... and what was next is still all that is next.
LEMMA FollowsArrives ==
  ASSUME NEW S, NEW w \in Seq(S), IsInjective(w), NEW lost, NEW x, None \notin S,
         NEW h \in S, NEW b \in Seq(S), Follows(w, lost, x, <<h>> \o b)
  PROVE  Follows(w, lost, h, b)
<1>1. InLine(w, <<h>> \o b)
  BY DEF Follows, InLine
<1>2. /\ InLine(w, b) /\ ToSet(b) = ToSet(<<h>> \o b) \ {h}
      /\ \A k \in ToSet(b) : Before(w, h, k)
      /\ h \in ToSet(<<h>> \o b)
  BY <1>1, InLineFirst
<1>3. /\ \A y, z : Before(w, y, z) => y # z
      /\ \A y, z, u : Before(w, y, z) /\ Before(w, z, u) => Before(w, y, u)
  BY BeforeOrders
<1>4. h # None
  OBVIOUS
<1>5. ASSUME NEW k \in ToSet(w) \ lost, Before(w, h, k)
      PROVE  k \in ToSet(b)
  <2>1. x = None \/ Before(w, x, k)
    BY <1>2, <1>3, <1>5 DEF Follows
  <2>2. k \in ToSet(<<h>> \o b)
    BY <2>1 DEF Follows
  <2> QED BY <1>2, <1>3, <1>5, <2>2
<1>6. ToSet(b) \subseteq ToSet(w) \ lost /\ h \in ToSet(w) \ lost
  BY <1>2 DEF Follows
<1>7. ToSet(b) = {k \in ToSet(w) \ lost : h = None \/ Before(w, h, k)}
  BY <1>2, <1>4, <1>5, <1>6
<1> QED BY <1>2, <1>6, <1>7 DEF Follows, InLine

\* A page that is cut off loses what was nearest.
LEMMA QueuedCut ==
  ASSUME NEW S, NEW w, NEW x, NEW a \in Seq(S), NEW b \in Seq(S), Queued(w, x, a \o b)
  PROVE  Queued(w, x, b)
<1>1. InLine(w, a \o b)
  BY DEF Queued, InLine
<1>2. InLine(w, b) /\ ToSet(b) \subseteq ToSet(a \o b)
  BY <1>1, InLineCut
<1> QED BY <1>2 DEF Queued, InLine

-----------------------------------------------------------------------------
(* The steps that move updates towards a page.                               *)

\* The update the loop holds, as a piece of what is ahead of a page.
Sending == IF update = None THEN <<>> ELSE <<update>>

\* The pieces of what is ahead of a page are sequences of updates.
LEMMA Pieces ==
  ASSUME Typed
  PROVE  /\ None \notin Updates /\ ToSet(written) \subseteq Updates
         /\ written \in Seq(Updates)
         /\ channel \in Seq(Updates) /\ Sending \in Seq(Updates) /\ bus \in Seq(Updates)
         /\ Leaving = bus \o Sending /\ Leaving \in Seq(Updates)
         /\ \A p \in Pages : /\ wire[p] \in Seq(Updates) /\ Ahead(p) \in Seq(Updates)
                             /\ Ahead(p) = wire[p] \o Leaving \o channel
         /\ loop # "send" => update = None /\ Sending = <<>>
         /\ loop = "send" => update \in Updates /\ Sending = <<update>>
<1>1. None \notin Updates
  BY DEF None, Updates
<1>2. 1 .. published \subseteq Updates
  BY GatewayAssumption DEF Typed, Updates
<1>3. written \in Seq(Updates)
  BY <1>2, SeqMonotonic DEF Typed
<1>4. ToSet(written) \subseteq Updates
  BY <1>3, ToSetIs
<1>5. /\ loop # "send" => update = None /\ Sending = <<>>
      /\ loop = "send" => update \in Updates /\ Sending = <<update>>
  BY <1>1, <1>4 DEF Typed, Sending
<1>6. Sending \in Seq(Updates)
  <2>1. CASE loop = "send"
    <3>1. update \in Updates /\ Sending = <<update>>
      BY <1>5, <2>1
    <3> QED BY <3>1
  <2>2. CASE loop # "send"
    BY <1>5, <2>2
  <2> QED BY <2>1, <2>2
<1>7. /\ channel \in Seq(Updates) /\ bus \in Seq(Updates)
      /\ \A p \in Pages : wire[p] \in Seq(Updates)
  BY DEF Typed
<1>8. Leaving = bus \o Sending
  BY DEF Leaving, Sending
<1>9. Leaving \in Seq(Updates)
  BY <1>6, <1>7, <1>8, ConcatProperties
<1>10. ASSUME NEW p \in Pages PROVE Ahead(p) \in Seq(Updates)
  <2>1. wire[p] \o Leaving \in Seq(Updates)
    BY <1>7, <1>9, ConcatProperties
  <2>2. wire[p] \o Leaving \o channel \in Seq(Updates)
    BY <1>7, <2>1, ConcatProperties
  <2> QED BY <2>2 DEF Ahead
<1> QED BY <1>1, <1>3, <1>4, <1>5, <1>6, <1>7, <1>8, <1>9, <1>10 DEF Ahead

\* A sequence is its head and its tail.
LEMMA HeadFirst ==
  ASSUME NEW S, NEW q \in Seq(S), q # <<>>
  PROVE  /\ Head(q) \in S /\ Tail(q) \in Seq(S) /\ Head(q) = q[1]
         /\ q = <<Head(q)>> \o Tail(q) /\ Len(Tail(q)) = Len(q) - 1
<1>1. /\ Head(q) \in S /\ Tail(q) \in Seq(S)
      /\ Len(Tail(q)) = Len(q) - 1 /\ Len(q) \in Nat \ {0}
      /\ \A i \in 1 .. Len(Tail(q)) : Tail(q)[i] = q[i + 1]
      /\ Head(q) = q[1]
  BY HeadTailProperties
<1>2. <<Head(q)>> \in Seq(S) /\ Len(<<Head(q)>>) = 1 /\ <<Head(q)>>[1] = Head(q)
  BY <1>1
<1> DEFINE r == <<Head(q)>> \o Tail(q)
<1>3. /\ r \in Seq(S) /\ Len(r) = 1 + Len(Tail(q))
      /\ \A i \in 1 .. 1 + Len(Tail(q)) :
           r[i] = IF i <= 1 THEN <<Head(q)>>[i] ELSE Tail(q)[i - 1]
  BY <1>1, <1>2, ConcatProperties
<1> HIDE DEF r
<1>4. Len(r) = Len(q)
  BY <1>1, <1>3
<1>5. ASSUME NEW i \in 1 .. Len(q) PROVE q[i] = r[i]
  <2>1. CASE i = 1
    BY <1>1, <1>2, <1>3, <2>1
  <2>2. CASE i # 1
    <3>1. /\ i \in 1 .. 1 + Len(Tail(q)) /\ ~(i <= 1)
          /\ i - 1 \in 1 .. Len(Tail(q)) /\ i - 1 + 1 = i
      BY <1>1, <2>2
    <3> QED BY <1>1, <1>3, <3>1
  <2> QED BY <2>1, <2>2
<1>6. q = r
  BY <1>3, <1>4, <1>5, SeqEqual
<1> QED BY <1>1, <1>6 DEF r

\* The pieces may be joined from either end.
Joins(S, a, b, c) == (a \o b) \o c = a \o (b \o c) /\ a \o b \in Seq(S)

\* They always may.
LEMMA AllJoin ==
  ASSUME NEW S
  PROVE  \A a, b, c \in Seq(S) : Joins(S, a, b, c)
<1> TAKE a, b, c \in Seq(S)
<1>1. (a \o b) \o c = a \o (b \o c)
  BY ConcatAssociative
<1>2. a \o b \in Seq(S)
  BY ConcatProperties
<1> QED BY <1>1, <1>2 DEF Joins

\* Appending to the last of two sequences appends to both.
LEMMA AppendLast ==
  ASSUME NEW S, NEW a \in Seq(S), NEW b \in Seq(S), NEW c \in Seq(S), NEW k \in S
  PROVE  /\ a \o Append(b, k) = Append(a \o b, k)
         /\ a \o b \o Append(c, k) = Append(a \o b \o c, k)
<1>1. ASSUME NEW x \in Seq(S), NEW y \in Seq(S)
      PROVE  x \o Append(y, k) = Append(x \o y, k)
  <2>1. /\ Append(y, k) = y \o <<k>> /\ <<k>> \in Seq(S)
    BY AppendIsConcat
  <2>2. x \o y \in Seq(S)
    BY ConcatProperties
  <2>3. Append(x \o y, k) = (x \o y) \o <<k>>
    BY <2>2, AppendIsConcat
  <2> DEFINE o == <<k>>
  <2>4. o \in Seq(S)
    BY <2>1
  <2> HIDE DEF o
  <2>5. Joins(S, x, y, o)
    BY <1>1, <2>4, AllJoin, Zenon
  <2>6. (x \o y) \o o = x \o (y \o o)
    BY <2>5, Zenon DEF Joins
  <2> QED BY <2>1, <2>3, <2>6 DEF o
<1>2. a \o b \in Seq(S)
  BY ConcatProperties
<1> QED BY <1>1, <1>2

\* What the steps keep about the pages.
Queues == AllQueued /\ PageFollows

\* Queues, of the next state.
LEMMA QueuesNext ==
  ASSUME IsInjective(written'),
         \A p \in Pages : Queued(written', shown'[p], wire'[p] \o Leaving' \o channel'),
         \A p \in Pages \ missed' :
           Follows(written', Lost', shown'[p], wire'[p] \o Leaving' \o channel')
  PROVE  Queues'
BY DEF Queues, AllQueued, PageFollows, Ahead

\* A handler that writes puts its update behind all others; a full channel loses the
\* oldest.
LEMMA HandleQueues ==
  ASSUME IInv, NEW k \in running, Handle(k)
  PROVE  Queues'
<1>1. /\ Typed /\ IsInjective(written) /\ k \notin ToSet(written) /\ k \in Updates
      /\ Lost \in SUBSET ToSet(written)
      /\ \A p \in Pages : Queued(written, shown[p], Ahead(p))
      /\ \A p \in Pages \ missed : Follows(written, Lost, shown[p], Ahead(p))
  BY GatewayAssumption DEF IInv, Handling, Typed, AllQueued, PageFollows, Updates
<1>2. /\ written \in Seq(Updates) /\ channel \in Seq(Updates) /\ Leaving \in Seq(Updates)
      /\ \A p \in Pages : /\ wire[p] \in Seq(Updates) /\ Ahead(p) \in Seq(Updates)
                          /\ Ahead(p) = wire[p] \o Leaving \o channel
  BY <1>1, Pieces
<1>3. /\ wire' = wire /\ Leaving' = Leaving /\ shown' = shown /\ missed' = missed
      /\ gone' = gone
  BY DEF Handle, loopVars, busVars, pageVars, Leaving
<1>4. CASE k \in Malformed
  <2>1. written' = written /\ channel' = channel /\ Lost' = Lost
    BY <1>3, <1>4 DEF Handle, Lost
  <2> QED BY <1>1, <1>2, <1>3, <2>1, QueuesNext
<1>5. CASE k \notin Malformed /\ Len(channel) < ChannelCap
  <2>1. /\ written' = Append(written, k) /\ channel' = Append(channel, k)
        /\ Lost' = Lost
    BY <1>3, <1>5 DEF Handle, Put, Lost
  <2>2. ASSUME NEW p \in Pages
        PROVE  wire[p] \o Leaving \o Append(channel, k) = Append(Ahead(p), k)
    <3>1. wire[p] \o Leaving \in Seq(Updates)
      BY <1>2, ConcatProperties
    <3> DEFINE W == wire[p] \o Leaving
    <3> HIDE DEF W
    <3>2. W \in Seq(Updates)
      BY <3>1 DEF W
    <3>3. W \o Append(channel, k) = Append(W \o channel, k)
      BY <1>1, <1>2, <3>2, AppendLast
    <3> QED BY <1>2, <3>3 DEF W
  <2>3. \A p \in Pages : Queued(Append(written, k), shown[p], Append(Ahead(p), k))
    BY <1>1, <1>2, QueuedAppend
  <2>4. \A p \in Pages \ missed :
          Follows(Append(written, k), Lost, shown[p], Append(Ahead(p), k))
    BY <1>1, <1>2, FollowsAppend
  <2>5. IsInjective(Append(written, k))
    BY <1>1, <1>2, BeforeAppend
  <2> QED BY <1>3, <2>1, <2>2, <2>3, <2>4, <2>5, QueuesNext
<1>6. CASE k \notin Malformed /\ ~(Len(channel) < ChannelCap)
  <2> DEFINE h == Head(channel)
             t == Tail(channel)
  <2>1. /\ written' = Append(written, k) /\ channel' = Append(t, k)
        /\ Lost' = Lost \cup {h}
    BY <1>3, <1>6 DEF Handle, Put, Lost
  <2>2. channel # <<>>
    BY <1>6, GatewayAssumption
  <2>3. h \in Updates /\ t \in Seq(Updates) /\ channel = <<h>> \o t
    BY <1>2, <2>2, HeadFirst
  <2>4. h \in ToSet(written)
    <3>1. h = channel[1] /\ 1 \in 1 .. Len(channel)
      BY <1>2, <2>2, HeadFirst
    <3>2. h \in ToSet(channel)
      BY <1>2, <3>1, ToSetIs
    <3> QED BY <1>1, <3>2 DEF Typed
  <2> HIDE DEF h, t
  <2>5. ASSUME NEW p \in Pages
        PROVE  /\ wire[p] \o Leaving \in Seq(Updates)
               /\ Ahead(p) = (wire[p] \o Leaving) \o <<h>> \o t
               /\ (wire[p] \o Leaving) \o t \in Seq(Updates)
               /\ wire[p] \o Leaving \o Append(t, k) =
                    Append((wire[p] \o Leaving) \o t, k)
    <3>1. wire[p] \o Leaving \in Seq(Updates)
      BY <1>2, ConcatProperties
    <3> DEFINE W == wire[p] \o Leaving
               o == <<h>>
    <3> HIDE DEF W
    <3>2. W \in Seq(Updates) /\ o \in Seq(Updates)
      BY <2>3, <3>1 DEF W
    <3>3. channel = o \o t
      BY <2>3
    <3> HIDE DEF o
    <3>a. t \in Seq(Updates)
      BY <2>3
    <3>b. W \o t \in Seq(Updates)
      BY <3>2, <3>a, ConcatProperties
    <3>c. (W \o o) \o t = W \o (o \o t)
      BY <3>2, <3>a, ConcatAssociative
    <3>4. W \o (o \o t) = (W \o o) \o t /\ W \o t \in Seq(Updates)
      BY <3>b, <3>c
    <3>5. W \o Append(t, k) = Append(W \o t, k)
      BY <1>1, <2>3, <3>2, AppendLast
    <3>6. Ahead(p) = W \o channel
      BY <1>2 DEF W
    <3>7. Ahead(p) = W \o o \o t
      BY <3>3, <3>4, <3>6
    <3> QED BY <3>2, <3>4, <3>5, <3>7 DEF W, o
  <2>6. ASSUME NEW p \in Pages
        PROVE  Queued(written, shown[p], (wire[p] \o Leaving) \o t)
    <3>1. Queued(written, shown[p], (wire[p] \o Leaving) \o <<h>> \o t)
      BY <1>1, <2>5
    <3> QED BY <1>1, <1>2, <2>3, <2>5, <3>1, QueuedLoses
  <2>7. \A p \in Pages \ missed :
          Follows(written, Lost \cup {h}, shown[p], (wire[p] \o Leaving) \o t)
    BY <1>1, <1>2, <2>3, <2>5, FollowsLoses
  <2>8. Lost \cup {h} \in SUBSET ToSet(written)
    BY <1>1, <2>4
  <2>9. \A p \in Pages :
          Queued(Append(written, k), shown[p], Append((wire[p] \o Leaving) \o t, k))
    BY <1>1, <1>2, <2>5, <2>6, QueuedAppend
  <2>10. \A p \in Pages \ missed :
           Follows(Append(written, k), Lost \cup {h}, shown[p],
                   Append((wire[p] \o Leaving) \o t, k))
    BY <1>1, <1>2, <2>5, <2>7, <2>8, FollowsAppend
  <2>11. IsInjective(Append(written, k))
    BY <1>1, <1>2, BeforeAppend
  <2> QED BY <1>3, <2>1, <2>5, <2>9, <2>10, <2>11, QueuesNext
<1> QED BY <1>4, <1>5, <1>6

\* The same for the sequences at hand.
LEMMA Assoc == \A a, b, c \in Seq(Updates) : Joins(Updates, a, b, c)
BY AllJoin

\* Four pieces, joined from the left or the first to the rest.
JoinsLong(a, b, c, d) == ((a \o b) \o c) \o d = a \o ((b \o c) \o d)

\* They always may.
LEMMA AssocLong == \A a, b, c, d \in Seq(Updates) : JoinsLong(a, b, c, d)
<1> TAKE a, b, c, d \in Seq(Updates)
<1>1. Joins(Updates, a, b, c) /\ Joins(Updates, b, c, d)
  BY Assoc, Zenon
<1>2. (a \o b) \o c = a \o (b \o c) /\ b \o c \in Seq(Updates)
  BY <1>1, Zenon DEF Joins
<1> DEFINE e == b \o c
<1>3. e \in Seq(Updates)
  BY <1>2
<1> HIDE DEF e
<1>4. Joins(Updates, a, e, d)
  BY <1>3, Assoc, Zenon
<1>5. (a \o e) \o d = a \o (e \o d)
  BY <1>4, Zenon DEF Joins
<1> QED BY <1>2, <1>5 DEF e, JoinsLong

\* Pieces of a sequence may be joined in any order, and an empty one left out.
LEMMA Regroup ==
  ASSUME NEW S, NEW a \in Seq(S), NEW b \in Seq(S), NEW c \in Seq(S)
  PROVE  /\ a \o (b \o c) = a \o b \o c
         /\ a \o <<>> \o c = a \o c /\ <<>> \o c = c
         /\ a \o b \in Seq(S) /\ a \o b \o c \in Seq(S)
<1>1. (a \o b) \o c = a \o (b \o c)
  BY ConcatAssociative
<1>2. a \o <<>> = a /\ <<>> \o c = c
  BY ConcatEmptySeq
<1>3. a \o b \in Seq(S)
  BY ConcatProperties
<1>4. a \o b \o c \in Seq(S)
  BY <1>3, ConcatProperties
<1> QED BY <1>1, <1>2, <1>3, <1>4

\* What IInv says of the pages, in pieces.
LEMMA PagesOf ==
  ASSUME IInv
  PROVE  /\ Typed /\ IsInjective(written) /\ written \in Seq(Updates)
         /\ channel \in Seq(Updates) /\ Leaving \in Seq(Updates)
         /\ \A p \in Pages :
              /\ wire[p] \in Seq(Updates)
              /\ Queued(written, shown[p], wire[p] \o Leaving \o channel)
         /\ \A p \in Pages \ missed :
              Follows(written, Lost, shown[p], wire[p] \o Leaving \o channel)
<1>1. Typed
  BY DEF IInv
<1>2. /\ written \in Seq(Updates) /\ channel \in Seq(Updates) /\ Leaving \in Seq(Updates)
      /\ \A p \in Pages : wire[p] \in Seq(Updates) /\ Ahead(p) = wire[p] \o Leaving \o channel
  BY <1>1, Pieces
<1> QED BY <1>1, <1>2 DEF IInv, AllQueued, PageFollows

\* A step that leaves what is ahead of every page as it is, however it is cut.
LEMMA KeepQueues ==
  ASSUME IInv, written' = written, shown' = shown, missed' = missed, Lost' = Lost,
         \A p \in Pages :
           wire'[p] \o Leaving' \o channel' = wire[p] \o Leaving \o channel
  PROVE  Queues'
BY PagesOf, QueuesNext

\* A step that loses one update for all pages.
LEMMA LossQueues ==
  ASSUME IInv, NEW h \in Updates,
         written' = written, shown' = shown, missed' = missed, Lost' = Lost \cup {h},
         \A p \in Pages : \E a, b \in Seq(Updates) :
           /\ wire[p] \o Leaving \o channel = a \o <<h>> \o b
           /\ wire'[p] \o Leaving' \o channel' = a \o b
  PROVE  Queues'
<1>1. ASSUME NEW p \in Pages
      PROVE  Queued(written', shown'[p], wire'[p] \o Leaving' \o channel')
  <2>1. PICK a, b \in Seq(Updates) :
          /\ wire[p] \o Leaving \o channel = a \o <<h>> \o b
          /\ wire'[p] \o Leaving' \o channel' = a \o b
    OBVIOUS
  <2>2. Queued(written, shown[p], a \o <<h>> \o b)
    BY <2>1, PagesOf
  <2>3. Queued(written, shown[p], a \o b)
    BY <2>2, PagesOf, QueuedLoses
  <2> QED BY <2>1, <2>3
<1>2. ASSUME NEW p \in Pages \ missed'
      PROVE  Follows(written', Lost', shown'[p], wire'[p] \o Leaving' \o channel')
  <2>1. PICK a, b \in Seq(Updates) :
          /\ wire[p] \o Leaving \o channel = a \o <<h>> \o b
          /\ wire'[p] \o Leaving' \o channel' = a \o b
    OBVIOUS
  <2>2. Follows(written, Lost, shown[p], a \o <<h>> \o b)
    BY <2>1, PagesOf
  <2>3. Follows(written, Lost \cup {h}, shown[p], a \o b)
    BY <2>2, PagesOf, FollowsLoses
  <2> QED BY <2>1, <2>3
<1> QED BY <1>1, <1>2, PagesOf, QueuesNext

\* Five pieces on their way, the middle three of them between the channel and the pages,
\* with the middle one taken out.
Regroups(w, x, y, z, c) ==
  w \o ((x \o y) \o z) \o c = (w \o x) \o y \o (z \o c)

\* They always may be.
LEMMA AllRegroup == \A w, x, y, z, c \in Seq(Updates) : Regroups(w, x, y, z, c)
<1> TAKE w, x, y, z, c \in Seq(Updates)
<1>1. /\ (x \o y) \o z = x \o (y \o z) /\ y \o z \in Seq(Updates) /\ w \o x \in Seq(Updates)
  <2>1. Joins(Updates, x, y, z) /\ Joins(Updates, y, z, c) /\ Joins(Updates, w, x, c)
    BY Assoc, Zenon
  <2> QED BY <2>1, Zenon DEF Joins
<1> DEFINE e == y \o z
           f == w \o x
<1>2. e \in Seq(Updates) /\ f \in Seq(Updates)
  BY <1>1
<1> HIDE DEF e, f
<1>3. w \o (x \o e) = (w \o x) \o e
  <2>1. Joins(Updates, w, x, e)
    BY <1>2, Assoc, Zenon
  <2> QED BY <2>1, Zenon DEF Joins
<1>4. f \o (y \o z) = (f \o y) \o z /\ f \o y \in Seq(Updates)
  <2>1. Joins(Updates, f, y, z)
    BY <1>2, Assoc, Zenon
  <2> QED BY <2>1, Zenon DEF Joins
<1> DEFINE g == f \o y
<1>5. g \in Seq(Updates)
  BY <1>4
<1> HIDE DEF g
<1>6. (g \o z) \o c = g \o (z \o c)
  <2>1. Joins(Updates, g, z, c)
    BY <1>5, Assoc, Zenon
  <2> QED BY <2>1, Zenon DEF Joins
<1>7. w \o ((x \o y) \o z) = g \o z
  BY <1>1, <1>3, <1>4 DEF e, f, g
<1> QED BY <1>1, <1>6, <1>7 DEF Regroups, g, f

\* Reading moves the oldest update from the channel to the loop.
LEMMA ReadQueues ==
  ASSUME IInv, Read
  PROVE  Queues'
<1>0. /\ UNCHANGED <<written, dropped, gone, missed, shown, wire, bus>> /\ loop = "drain"
      /\ Lost' = Lost
  BY DEF Read, handlerVars, busVars, pageVars, history, Lost
<1>1. CASE channel = <<>>
  <2>1. UNCHANGED <<channel, update>>
    BY <1>1 DEF Read
  <2>2. Leaving' = Leaving
    BY <1>0, <2>1 DEF Leaving
  <2> QED BY <1>0, <2>1, <2>2, KeepQueues
<1>2. CASE channel # <<>>
  <2> DEFINE o == <<Head(channel)>>
             t == Tail(channel)
  <2>1. update' = Head(channel) /\ channel' = t
    BY <1>2 DEF Read
  <2>2. /\ Head(channel) \in Updates /\ t \in Seq(Updates) /\ channel = o \o t
        /\ Sending = <<>> /\ Head(channel) # None
        /\ bus \in Seq(Updates) /\ Leaving = bus \o Sending
    BY <1>0, <1>2, PagesOf, Pieces, HeadFirst
  <2>3. Leaving' = bus \o o /\ o \in Seq(Updates)
    BY <1>0, <2>1, <2>2 DEF Leaving
  <2>4. Leaving = bus
    BY <2>2, ConcatEmptySeq
  <2> HIDE DEF o, t
  <2>5. ASSUME NEW p \in Pages
        PROVE  wire'[p] \o Leaving' \o channel' = wire[p] \o Leaving \o channel
    <3>1. wire[p] \in Seq(Updates)
      BY PagesOf
    <3> DEFINE w == wire[p]
    <3>2. w \in Seq(Updates)
      BY <3>1
    <3> HIDE DEF w
    <3>3. /\ w \o (bus \o o) = (w \o bus) \o o /\ w \o bus \in Seq(Updates)
      <4>1. Joins(Updates, w, bus, o)
        BY <2>2, <2>3, <3>2, Assoc, Zenon
      <4> QED BY <4>1, Zenon DEF Joins
    <3> DEFINE v == w \o bus
    <3>4. v \in Seq(Updates)
      BY <3>3
    <3> HIDE DEF v
    <3>5. (v \o o) \o t = v \o (o \o t)
      <4>1. Joins(Updates, v, o, t)
        BY <2>2, <2>3, <3>4, Assoc, Zenon
      <4> QED BY <4>1, Zenon DEF Joins
    <3> QED BY <1>0, <2>1, <2>2, <2>3, <2>4, <3>3, <3>5 DEF v, w
  <2> QED BY <1>0, <2>5, KeepQueues
<1> QED BY <1>1, <1>2

\* Whatever the loop was sending, it holds nothing afterwards.
LEMMA SendingEnds ==
  ASSUME Typed, loop = "send", update' = None
  PROVE  /\ Leaving = bus \o <<update>> /\ update \in Updates /\ update \in ToSet(written)
         /\ bus \in Seq(Updates) /\ Leaving' = bus' \o <<>>
<1>1. /\ Leaving = bus \o <<update>> /\ update \in Updates /\ bus \in Seq(Updates)
  BY Pieces
<1>2. Leaving' = bus' \o <<>>
  BY DEF Leaving
<1> QED BY <1>1, <1>2 DEF Typed

\* An update that is published is on the backplane.
LEMMA PublishedQueues ==
  ASSUME IInv, loop = "send", update' = None, bus' = Append(bus, update), gone' = gone,
         UNCHANGED <<written, dropped, shown, missed, wire, channel>>
  PROVE  Queues'
<1>1. /\ Leaving = bus \o <<update>> /\ update \in Updates /\ bus \in Seq(Updates)
      /\ Leaving' = bus' \o <<>>
  BY PagesOf, SendingEnds
<1>2. bus' = bus \o <<update>> /\ bus' \in Seq(Updates)
  BY <1>1, AppendIsConcat, AppendProperties
<1>3. Leaving' = bus'
  <2> DEFINE b == bus'
  <2>1. b \in Seq(Updates) /\ Leaving' = b \o <<>>
    BY <1>1, <1>2
  <2> HIDE DEF b
  <2>2. b \o <<>> = b
    BY <2>1, ConcatEmptySeq
  <2> QED BY <2>1, <2>2 DEF b
<1>4. Leaving' = Leaving
  BY <1>1, <1>2, <1>3
<1>5. Lost' = Lost
  BY DEF Lost
<1> QED BY <1>4, <1>5, KeepQueues

\* One that is not is lost for all pages.
LEMMA UnsentQueues ==
  ASSUME IInv, loop = "send", update' = None, Unsent,
         UNCHANGED <<written, dropped, shown, missed, wire, channel>>
  PROVE  Queues'
<1>1. /\ Leaving = bus \o <<update>> /\ update \in Updates /\ bus \in Seq(Updates)
      /\ Leaving' = bus' \o <<>> /\ bus' = bus /\ Lost' = Lost \cup {update}
  BY PagesOf, SendingEnds DEF Unsent, Lost
<1>2. Leaving' = bus
  BY <1>1, ConcatEmptySeq
<1>3. ASSUME NEW p \in Pages
      PROVE  \E a, b \in Seq(Updates) :
               /\ wire[p] \o Leaving \o channel = a \o <<update>> \o b
               /\ wire'[p] \o Leaving' \o channel' = a \o b
  <2> DEFINE w == wire[p]
             o == <<update>>
  <2>1. w \in Seq(Updates) /\ channel \in Seq(Updates) /\ o \in Seq(Updates)
    BY <1>1, PagesOf
  <2> HIDE DEF w, o
  <2>2. w \o (bus \o o) = (w \o bus) \o o /\ w \o bus \in Seq(Updates)
    <3>1. Joins(Updates, w, bus, o)
      BY <1>1, <2>1, Assoc, Zenon
    <3> QED BY <3>1, Zenon DEF Joins
  <2>3. wire'[p] = w
    BY DEF w
  <2>4. /\ w \o (bus \o o) \o channel = (w \o bus) \o o \o channel
        /\ wire'[p] \o Leaving' \o channel' = (w \o bus) \o channel
    BY <1>2, <2>2, <2>3
  <2>5. wire[p] \o Leaving \o channel = (w \o bus) \o o \o channel
    BY <1>1, <2>4 DEF w, o
  <2> QED BY <2>1, <2>2, <2>4, <2>5 DEF o
<1> QED BY <1>1, <1>3, LossQueues

\* Sending moves the update to the backplane, or loses it when nobody is subscribed; so
\* does a send that fails.
LEMMA SendQueues ==
  ASSUME IInv, Send \/ SendFails
  PROVE  Queues'
<1>1. /\ UNCHANGED <<written, dropped, shown, channel, wire, missed>>
      /\ update' = None /\ loop = "send"
      /\ Publish \/ Unsent
  BY DEF Send, SendFails, handlerVars, pageVars
<1>2. CASE Publish /\ subscribed
  BY <1>1, <1>2, PublishedQueues DEF Publish
<1>3. CASE Unsent
  BY <1>1, <1>3, UnsentQueues
<1> QED BY <1>1, <1>2, <1>3 DEF Publish, Unsent

\* A page that is connected gets what is received, one that is not has missed it.
LEMMA DeliverQueues ==
  ASSUME IInv, Deliver
  PROVE  Queues'
<1> DEFINE h == Head(bus)
           o == <<h>>
           t == Tail(bus)
<1>1. /\ UNCHANGED <<written, dropped, gone, shown, channel, update>>
      /\ bus # <<>> /\ bus' = t /\ missed' = missed \cup (Pages \ Live)
      /\ \A p \in Live : wire'[p] = Append(wire[p], h)
      /\ \A p \in Pages \ Live : wire'[p] = wire[p]
      /\ Live \subseteq Pages
  BY DEF Deliver, handlerVars, loopVars, history, Live
<1>2. /\ bus \in Seq(Updates) /\ channel \in Seq(Updates) /\ Sending \in Seq(Updates)
      /\ Leaving = bus \o Sending /\ written \in Seq(Updates) /\ IsInjective(written)
  BY PagesOf, Pieces
<1>3. /\ h \in Updates /\ t \in Seq(Updates) /\ bus = o \o t /\ o \in Seq(Updates)
  <2>1. h \in Updates /\ t \in Seq(Updates) /\ bus = o \o t
    BY <1>1, <1>2, HeadFirst
  <2> QED BY <2>1
<1>4. Lost' = Lost /\ Leaving' = t \o Sending
  BY <1>1 DEF Lost, Leaving, Sending
<1> HIDE DEF h, o, t
<1>5. /\ Leaving = (o \o t) \o Sending /\ t \o Sending \in Seq(Updates)
      /\ (t \o Sending) \o channel \in Seq(Updates)
  BY <1>2, <1>3, Regroup
<1>6. ASSUME NEW p \in Pages
      PROVE  /\ wire[p] \in Seq(Updates)
             /\ wire[p] \o Leaving \o channel =
                  (wire[p] \o o) \o (t \o Sending) \o channel
             /\ wire[p] \o Leaving \o channel =
                  wire[p] \o o \o ((t \o Sending) \o channel)
             /\ wire[p] \o (t \o Sending) \o channel =
                  wire[p] \o ((t \o Sending) \o channel)
  <2> DEFINE w == wire[p]
             e == t \o Sending
  <2>1. w \in Seq(Updates) /\ e \in Seq(Updates)
    BY <1>5, PagesOf
  <2>2. (o \o t) \o Sending = o \o e
    <3>1. Joins(Updates, o, t, Sending)
      BY <1>2, <1>3, Assoc, Zenon
    <3> QED BY <3>1, Zenon DEF Joins
  <2> HIDE DEF w, e
  <2>3. w \o (o \o e) = (w \o o) \o e /\ w \o o \in Seq(Updates)
    <3>1. Joins(Updates, w, o, e)
      BY <1>3, <2>1, Assoc, Zenon
    <3> QED BY <3>1, Zenon DEF Joins
  <2>4. (w \o e) \o channel = w \o (e \o channel)
    <3>1. Joins(Updates, w, e, channel)
      BY <1>2, <2>1, Assoc, Zenon
    <3> QED BY <3>1, Zenon DEF Joins
  <2> DEFINE v == w \o o
  <2>5. v \in Seq(Updates)
    BY <2>3
  <2> HIDE DEF v
  <2>6. (v \o e) \o channel = v \o (e \o channel)
    <3>1. Joins(Updates, v, e, channel)
      BY <1>2, <2>1, <2>5, Assoc, Zenon
    <3> QED BY <3>1, Zenon DEF Joins
  <2>7. w \o Leaving \o channel = v \o e \o channel
    BY <1>5, <2>2, <2>3 DEF v
  <2> QED BY <2>1, <2>4, <2>6, <2>7 DEF w, e, v
<1>7. ASSUME NEW p \in Live
      PROVE  wire'[p] \o Leaving' \o channel' = wire[p] \o Leaving \o channel
  <2>1. wire'[p] = wire[p] \o o
    BY <1>1, <1>3, <1>6, AppendIsConcat DEF o
  <2> QED BY <1>1, <1>4, <1>6, <2>1
<1>8. ASSUME NEW p \in Pages \ Live
      PROVE  Queued(written', shown'[p], wire'[p] \o Leaving' \o channel')
  <2> DEFINE b == (t \o Sending) \o channel
  <2>1. b \in Seq(Updates) /\ wire[p] \in Seq(Updates)
    BY <1>5, <1>6
  <2>2. Queued(written, shown[p], wire[p] \o <<h>> \o b)
    BY <1>6, PagesOf DEF o
  <2>3. wire'[p] \o Leaving' \o channel' = wire[p] \o b
    BY <1>1, <1>4, <1>6
  <2> HIDE DEF b
  <2>4. Queued(written, shown[p], wire[p] \o b)
    BY <1>2, <1>3, <2>1, <2>2, QueuedLoses
  <2> QED BY <1>1, <2>3, <2>4
<1>9. ASSUME NEW p \in Pages
      PROVE  Queued(written', shown'[p], wire'[p] \o Leaving' \o channel')
  BY <1>1, <1>7, <1>8, PagesOf
<1>10. ASSUME NEW p \in Pages \ missed'
       PROVE  Follows(written', Lost', shown'[p], wire'[p] \o Leaving' \o channel')
  BY <1>1, <1>4, <1>7, PagesOf
<1> QED BY <1>1, <1>9, <1>10, PagesOf, QueuesNext

\* A sequence is its front and its last element.
LEMMA LastLast ==
  ASSUME NEW S, NEW q \in Seq(S), q # <<>>
  PROVE  /\ Last(q) \in S /\ Front(q) \in Seq(S) /\ q = Front(q) \o <<Last(q)>>
         /\ ToSet(Front(q)) \subseteq ToSet(q) /\ Last(q) \in ToSet(q)
<1>1. /\ Len(q) \in Nat \ {0} /\ Last(q) = q[Len(q)] /\ \A i \in 1 .. Len(q) : q[i] \in S
      /\ Front(q) = [i \in 1 .. Len(q) - 1 |-> q[i]]
  <2>1. /\ Len(q) \in Nat /\ Len(q) # 0 /\ \A i \in 1 .. Len(q) : q[i] \in S
    BY EmptySeq, ElementOfSeq, LenProperties
  <2>2. Len(q) - 1 \in Nat /\ 1 .. Len(q) - 1 \subseteq 1 .. Len(q)
    BY <2>1
  <2>3. SubSeq(q, 1, Len(q) - 1) = [i \in 1 .. Len(q) - 1 |-> q[i]]
    BY <2>1, <2>2
  <2> QED BY <2>1, <2>3 DEF Last, Front
<1> DEFINE f == Front(q)
           l == Last(q)
<1>2. /\ f \in Seq(S) /\ Len(f) = Len(q) - 1 /\ l \in S
      /\ \A i \in 1 .. Len(q) - 1 : f[i] = q[i]
  BY <1>1
<1> HIDE DEF f
<1>3. /\ Append(f, l) \in Seq(S) /\ Len(Append(f, l)) = Len(q)
      /\ \A i \in 1 .. Len(q) : Append(f, l)[i] = q[i]
  <2>1. /\ Append(f, l) \in Seq(S) /\ Len(Append(f, l)) = Len(f) + 1
        /\ \A i \in 1 .. Len(f) : Append(f, l)[i] = f[i]
        /\ Append(f, l)[Len(f) + 1] = l
    BY <1>2, ToSetAppend
  <2> QED BY <1>1, <1>2, <2>1
<1>4. q = Append(f, l)
  BY <1>1, <1>3, SeqEqual
<1>5. ToSet(q) = ToSet(f) \cup {l}
  <2> HIDE DEF l
  <2>1. ToSet(Append(f, l)) = ToSet(f) \cup {l}
    BY <1>2, ToSetAppend
  <2> QED BY <1>4, <2>1
<1>6. Append(f, l) = f \o <<l>>
  BY <1>2, AppendIsConcat
<1> QED BY <1>2, <1>4, <1>5, <1>6 DEF f

\* What strays on the backplane is lost for all pages.
LEMMA StrayQueues ==
  ASSUME IInv, Stray
  PROVE  Queues'
<1> DEFINE l == Last(bus)
           o == <<l>>
           f == Front(bus)
<1>1. /\ UNCHANGED <<written, dropped, shown, channel, update, wire, missed>>
      /\ bus # <<>> /\ bus' = f /\ gone' = gone \cup {l}
  BY DEF Stray, handlerVars, loopVars, pageVars
<1>2. /\ bus \in Seq(Updates) /\ channel \in Seq(Updates) /\ Sending \in Seq(Updates)
      /\ Leaving = bus \o Sending
  BY PagesOf, Pieces
<1>3. l \in Updates /\ f \in Seq(Updates) /\ bus = f \o o /\ o \in Seq(Updates)
  <2>1. l \in Updates /\ f \in Seq(Updates) /\ bus = f \o o
    BY <1>1, <1>2, LastLast
  <2> QED BY <2>1
<1>4. Lost' = Lost \cup {l} /\ Leaving' = f \o Sending
  BY <1>1 DEF Lost, Leaving, Sending
<1> HIDE DEF f, l, o
<1>5. ASSUME NEW p \in Pages
      PROVE  \E a, b \in Seq(Updates) :
               /\ wire[p] \o Leaving \o channel = a \o <<l>> \o b
               /\ wire'[p] \o Leaving' \o channel' = a \o b
  <2> DEFINE w == wire[p]
  <2>1. w \in Seq(Updates) /\ wire'[p] = w
    BY <1>1, PagesOf
  <2> HIDE DEF w
  <2>2. Regroups(w, f, o, Sending, channel)
    BY <1>2, <1>3, <2>1, AllRegroup, Zenon
  <2>3. w \o ((f \o o) \o Sending) \o channel = (w \o f) \o o \o (Sending \o channel)
    BY <2>2, Zenon DEF Regroups
  <2>4. /\ (w \o f) \o (Sending \o channel) = w \o (f \o Sending) \o channel
        /\ w \o f \in Seq(Updates) /\ Sending \o channel \in Seq(Updates)
    <3>2. /\ Joins(Updates, w, f, Sending) /\ Joins(Updates, Sending, channel, f)
          /\ Joins(Updates, f, Sending, channel)
      BY <1>2, <1>3, <2>1, Assoc, Zenon
    <3> DEFINE v == w \o f
    <3>3. v \in Seq(Updates) /\ Sending \o channel \in Seq(Updates)
      BY <3>2, Zenon DEF Joins
    <3> HIDE DEF v
    <3>4. Joins(Updates, v, Sending, channel)
      BY <1>2, <3>3, Assoc, Zenon
    <3>5. (v \o Sending) \o channel = v \o (Sending \o channel)
      BY <3>4, Zenon DEF Joins
    <3>6. (w \o f) \o Sending = w \o (f \o Sending)
      BY <3>2, Zenon DEF Joins
    <3> QED BY <3>3, <3>5, <3>6 DEF v
  <2>5. wire[p] \o Leaving \o channel = (w \o f) \o o \o (Sending \o channel)
    BY <1>2, <1>3, <2>3 DEF w
  <2>6. wire'[p] \o Leaving' \o channel' = (w \o f) \o (Sending \o channel)
    BY <1>1, <1>4, <2>1, <2>4
  <2> QED BY <2>4, <2>5, <2>6 DEF o
<1> QED BY <1>1, <1>3, <1>4, <1>5, LossQueues

\* What arrives is shown, and everything ahead is behind it.
LEMMA ShowQueues ==
  ASSUME IInv, NEW p \in Pages, Show(p)
  PROVE  /\ Queues'
         /\ shown'[p] \in ToSet(written)
         /\ shown[p] = None \/ Before(written, shown[p], shown'[p])
<1> DEFINE h == Head(wire[p])
           o == <<h>>
           t == Tail(wire[p])
<1>1. /\ UNCHANGED <<written, dropped, gone, channel, update, bus, missed>>
      /\ wire[p] # <<>>
      /\ shown' = [shown EXCEPT ![p] = h] /\ wire' = [wire EXCEPT ![p] = t]
      /\ shown \in [Pages -> Updates \cup {None}] /\ wire \in [Pages -> Seq(Updates)]
  BY PagesOf DEF Show, handlerVars, loopVars, busVars, history, Typed
<1>2. /\ wire[p] \in Seq(Updates) /\ channel \in Seq(Updates) /\ Leaving \in Seq(Updates)
      /\ written \in Seq(Updates) /\ IsInjective(written) /\ None \notin Updates
      /\ Lost' = Lost /\ Leaving' = Leaving
  BY <1>1, PagesOf, Pieces DEF Lost, Leaving
<1>3. h \in Updates /\ t \in Seq(Updates) /\ wire[p] = o \o t /\ o \in Seq(Updates)
  <2>1. h \in Updates /\ t \in Seq(Updates) /\ wire[p] = o \o t
    BY <1>1, <1>2, HeadFirst
  <2> QED BY <2>1
<1>4. /\ shown'[p] = h /\ wire'[p] = t
      /\ \A q \in Pages \ {p} : shown'[q] = shown[q] /\ wire'[q] = wire[q]
  BY <1>1
<1> HIDE DEF h, t
<1>5. wire[p] \o Leaving \o channel = <<h>> \o (t \o Leaving \o channel)
  <2>1. o \in Seq(Updates) /\ t \in Seq(Updates) /\ wire[p] = o \o t
    BY <1>3
  <2> HIDE DEF o
  <2>2. JoinsLong(o, t, Leaving, channel)
    BY <1>2, <2>1, AssocLong, Zenon
  <2>3. ((o \o t) \o Leaving) \o channel = o \o ((t \o Leaving) \o channel)
    BY <2>2, Zenon DEF JoinsLong
  <2> QED BY <2>1, <2>3 DEF o
<1>6. t \o Leaving \o channel \in Seq(Updates)
  BY <1>2, <1>3, Regroup
<1>7. /\ Queued(written, h, t \o Leaving \o channel)
      /\ h \in ToSet(written) /\ (shown[p] = None \/ Before(written, shown[p], h))
  <2>1. Queued(written, shown[p], <<h>> \o (t \o Leaving \o channel))
    BY <1>5, PagesOf
  <2> QED BY <1>2, <1>3, <1>6, <2>1, QueuedArrives
<1>8. p \notin missed => Follows(written, Lost, h, t \o Leaving \o channel)
  <2> SUFFICES ASSUME p \notin missed
               PROVE  Follows(written, Lost, h, t \o Leaving \o channel)
    OBVIOUS
  <2>1. Follows(written, Lost, shown[p], <<h>> \o (t \o Leaving \o channel))
    BY <1>5, PagesOf
  <2> QED BY <1>2, <1>3, <1>6, <2>1, FollowsArrives
<1>9. ASSUME NEW q \in Pages
      PROVE  Queued(written', shown'[q], wire'[q] \o Leaving' \o channel')
  BY <1>1, <1>2, <1>4, <1>7, PagesOf
<1>10. ASSUME NEW q \in Pages \ missed'
       PROVE  Follows(written', Lost', shown'[q], wire'[q] \o Leaving' \o channel')
  BY <1>1, <1>2, <1>4, <1>8, PagesOf
<1> QED BY <1>1, <1>2, <1>4, <1>7, <1>9, <1>10, QueuesNext

\* A page that is cut off goes on from what is still in the gateway.
LEMMA CutOffQueues ==
  ASSUME IInv, NEW p \in Pages, CutOff(p)
  PROVE  Queues'
<1>1. /\ UNCHANGED <<written, dropped, gone, channel, update, bus, shown>>
      /\ missed' = missed \cup {p} /\ wire' = [wire EXCEPT ![p] = <<>>]
      /\ wire \in [Pages -> Seq(Updates)]
  BY PagesOf DEF CutOff, handlerVars, loopVars, busVars, history, Typed
<1>2. /\ wire[p] \in Seq(Updates) /\ channel \in Seq(Updates) /\ Leaving \in Seq(Updates)
      /\ Lost' = Lost /\ Leaving' = Leaving
  BY <1>1, PagesOf DEF Lost, Leaving
<1>3. /\ wire'[p] = <<>> /\ \A q \in Pages \ {p} : wire'[q] = wire[q]
  BY <1>1
<1>4. Queued(written, shown[p], <<>> \o Leaving \o channel)
  <2>1. Leaving \o channel \in Seq(Updates)
    BY <1>2, Regroup
  <2>6. Joins(Updates, wire[p], Leaving, channel)
    BY <1>2, Assoc, Zenon
  <2>2. (wire[p] \o Leaving) \o channel = wire[p] \o (Leaving \o channel)
    BY <2>6, Zenon DEF Joins
  <2>3. Queued(written, shown[p], wire[p] \o (Leaving \o channel))
    BY <2>2, PagesOf
  <2>4. Queued(written, shown[p], Leaving \o channel)
    BY <1>2, <2>1, <2>3, QueuedCut
  <2>5. <<>> \o Leaving = Leaving
    BY <1>2, ConcatEmptySeq
  <2> QED BY <2>4, <2>5
<1>5. ASSUME NEW q \in Pages
      PROVE  Queued(written', shown'[q], wire'[q] \o Leaving' \o channel')
  BY <1>1, <1>2, <1>3, <1>4, PagesOf
<1>6. ASSUME NEW q \in Pages \ missed'
      PROVE  Follows(written', Lost', shown'[q], wire'[q] \o Leaving' \o channel')
  BY <1>1, <1>2, <1>3, PagesOf
<1> QED BY <1>1, <1>5, <1>6, PagesOf, QueuesNext

\* All other steps leave what is ahead of a page alone.
LEMMA OtherQueues ==
  ASSUME IInv,
         \/ Receive \/ PublishUnheard \/ Wait \/ Cancel \/ SubscriptionDown \/ Resubscribe
         \/ \E p \in Pages : Connect(p) \/ GiveUp(p)
         \/ UNCHANGED vars
  PROVE  Queues'
<1>1. UNCHANGED <<written, dropped, gone, channel, update, bus, shown, wire, missed>>
  BY DEF Receive, PublishUnheard, Wait, Cancel, SubscriptionDown, Resubscribe, Connect, GiveUp,
         vars, handlerVars, loopVars, busVars, pageVars, history
<1>2. Lost' = Lost /\ Leaving' = Leaving
  BY <1>1 DEF Lost, Leaving
<1> QED BY <1>1, <1>2, PagesOf, QueuesNext

-----------------------------------------------------------------------------
(* Types, and the order in which handlers write.                             *)

\* The numbers of the messages so far are finitely many.
LEMMA RunningFinite ==
  ASSUME NEW n \in Nat, NEW R, R \subseteq 1 .. n
  PROVE  IsFiniteSet(R)
<1>1. IsFiniteSet(1 .. n)
  BY FS_Interval
<1> QED BY <1>1, FS_Subset

\* The types after a message was heard or missed.
LEMMA PublishTyped ==
  ASSUME Typed, Receive \/ PublishUnheard
  PROVE  Typed'
<1>1. /\ published \in Nat /\ published < MaxUpdates /\ published' = published + 1
      /\ UNCHANGED <<channel, loop, update, cancelled, bus, subscribed, link, wire, shown,
                     missed, written, dropped, gone>>
      /\ MaxUpdates \in Nat /\ Handlers \in Nat /\ MaxFaults \in Nat
  BY GatewayAssumption
     DEF Typed, Receive, PublishUnheard, loopVars, busVars, pageVars, history
<1>2. /\ published' \in 0 .. MaxUpdates /\ 1 .. published \subseteq 1 .. published'
      /\ published' \in 1 .. published'
  BY <1>1
<1>3. written' \in Seq(1 .. published')
  BY <1>1, <1>2, SeqMonotonic DEF Typed
<1>4. running' \subseteq 1 .. published' /\ Cardinality(running') <= Handlers
  <2>1. IsFiniteSet(running) /\ Cardinality(running) \in Nat
    BY <1>1, RunningFinite, FS_CardinalityType DEF Typed
  <2>2. CASE PublishUnheard
    BY <1>2, <2>2 DEF PublishUnheard, Typed
  <2>3. CASE Receive
    <3>1. /\ running' = running \cup {published'} /\ Cardinality(running) < Handlers
      BY <2>3 DEF Receive
    <3>2. published' \notin running
      BY <1>1 DEF Typed
    <3>3. Cardinality(running') = Cardinality(running) + 1
      BY <2>1, <3>1, <3>2, FS_AddElement
    <3>4. Cardinality(running') <= Handlers
      BY <1>1, <2>1, <3>1, <3>3
    <3> QED BY <1>2, <3>1, <3>4 DEF Typed
  <2> QED BY <2>2, <2>3
<1>5. faults' \in 0 .. MaxFaults
  BY <1>1 DEF Typed, Receive, PublishUnheard
<1>6. Lost' = Lost
  BY <1>1 DEF Lost
<1> QED BY <1>1, <1>2, <1>3, <1>4, <1>5, <1>6 DEF Typed

\* The tail of a sequence has none but its elements.
LEMMA TailWithin ==
  ASSUME NEW S, NEW q \in Seq(S), q # <<>>
  PROVE  ToSet(Tail(q)) \subseteq ToSet(q) /\ Head(q) \in ToSet(q)
<1>1. /\ Tail(q) \in Seq(S) /\ Head(q) = q[1]
      /\ Len(Tail(q)) = Len(q) - 1 /\ Len(q) \in Nat \ {0}
      /\ \A i \in 1 .. Len(Tail(q)) : Tail(q)[i] = q[i + 1]
  BY HeadTailProperties
<1>2. /\ ToSet(q) = {q[i] : i \in 1 .. Len(q)}
      /\ ToSet(Tail(q)) = {Tail(q)[i] : i \in 1 .. Len(Tail(q))}
  BY <1>1, ToSetIs
<1>3. \A i \in 1 .. Len(Tail(q)) : i + 1 \in 1 .. Len(q)
  BY <1>1
<1>4. 1 \in 1 .. Len(q)
  BY <1>1
<1> QED BY <1>1, <1>2, <1>3, <1>4

\* The types after a handler ran.
LEMMA HandleTyped ==
  ASSUME Typed, NEW k \in running, Handle(k)
  PROVE  Typed'
<1>1. /\ UNCHANGED <<published, loop, update, cancelled, bus, subscribed, link, wire, shown,
                     missed, faults, gone>>
      /\ running' = running \ {k} /\ published \in Nat /\ k \in 1 .. published
      /\ Handlers \in Nat /\ ChannelCap \in Nat \ {0} /\ k \in Updates
  BY GatewayAssumption DEF Typed, Handle, loopVars, busVars, pageVars, Updates
<1>2. running' \subseteq 1 .. published' /\ Cardinality(running') <= Handlers
  <2>1. IsFiniteSet(running) /\ Cardinality(running) \in Nat
    BY <1>1, RunningFinite, FS_CardinalityType DEF Typed
  <2>2. Cardinality(running') = Cardinality(running) - 1
    BY <1>1, <2>1, FS_RemoveElement
  <2> QED BY <1>1, <2>1, <2>2 DEF Typed
<1>3. CASE k \in Malformed
  <2>1. UNCHANGED <<channel, dropped, written>>
    BY <1>3 DEF Handle
  <2> QED BY <1>1, <1>2, <2>1 DEF Typed, Lost
<1>4. CASE k \notin Malformed
  <2>1. /\ written' = Append(written, k) /\ Put(k)
    BY <1>4 DEF Handle
  <2>2. /\ ToSet(written') = ToSet(written) \cup {k} /\ written' \in Seq(1 .. published)
    <3> DEFINE S == 1 .. published
    <3>1. written \in Seq(S) /\ k \in S
      BY <1>1 DEF Typed
    <3> HIDE DEF S
    <3>2. /\ ToSet(Append(written, k)) = ToSet(written) \cup {k}
          /\ Append(written, k) \in Seq(S)
      BY <3>1, ToSetAppend
    <3> QED BY <2>1, <3>2 DEF S
  <2>3. /\ channel \in Seq(Updates) /\ ToSet(channel) \subseteq ToSet(written)
        /\ Len(channel) <= ChannelCap /\ Len(channel) \in Nat
    BY DEF Typed
  <2>4. /\ channel' \in Seq(Updates) /\ Len(channel') <= ChannelCap
        /\ ToSet(channel') \subseteq ToSet(written') /\ dropped' \subseteq ToSet(written')
    <3>1. CASE Len(channel) < ChannelCap
      <4>1. channel' = Append(channel, k) /\ dropped' = dropped
        BY <2>1, <3>1 DEF Put
      <4>2. /\ channel' \in Seq(Updates) /\ Len(channel') = Len(channel) + 1
            /\ ToSet(channel') = ToSet(channel) \cup {k}
        BY <1>1, <2>3, <4>1, ToSetAppend
      <4>3. Len(channel') <= ChannelCap
        BY <1>1, <2>3, <3>1, <4>2
      <4> QED BY <2>2, <2>3, <4>1, <4>2, <4>3 DEF Typed, Lost
    <3>2. CASE ~(Len(channel) < ChannelCap)
      <4>1. /\ channel' = Append(Tail(channel), k)
            /\ dropped' = dropped \cup {Head(channel)}
        BY <2>1, <3>2 DEF Put
      <4>2. channel # <<>>
        BY <1>1, <3>2
      <4>3. /\ Tail(channel) \in Seq(Updates) /\ Len(Tail(channel)) = Len(channel) - 1
            /\ ToSet(Tail(channel)) \subseteq ToSet(channel)
            /\ Head(channel) \in ToSet(channel)
        BY <2>3, <4>2, HeadFirst, TailWithin
      <4>4. /\ channel' \in Seq(Updates) /\ Len(channel') = Len(Tail(channel)) + 1
            /\ ToSet(channel') = ToSet(Tail(channel)) \cup {k}
        <5> DEFINE t == Tail(channel)
        <5>1. t \in Seq(Updates) /\ channel' = Append(t, k)
          BY <4>1, <4>3
        <5> HIDE DEF t
        <5>2. /\ channel' \in Seq(Updates) /\ Len(channel') = Len(t) + 1
              /\ ToSet(channel') = ToSet(t) \cup {k}
          BY <1>1, <5>1, ToSetAppend
        <5> QED BY <5>2 DEF t
      <4>5. Len(channel') <= ChannelCap
        BY <1>1, <2>3, <4>3, <4>4
      <4> QED BY <2>2, <2>3, <4>1, <4>3, <4>4, <4>5 DEF Typed, Lost
    <3> QED BY <3>1, <3>2
  <2> QED BY <1>1, <1>2, <2>2, <2>4 DEF Typed, Lost
<1> QED BY <1>3, <1>4

\* The types after a step of the loop, a page or a fault.
LEMMA OtherTyped ==
  ASSUME Typed,
         \/ Wait \/ Read \/ Send \/ SendFails \/ Cancel
         \/ Deliver \/ SubscriptionDown \/ Stray \/ Resubscribe
         \/ \E p \in Pages : Connect(p) \/ Show(p) \/ CutOff(p) \/ GiveUp(p)
         \/ UNCHANGED vars
  PROVE  Typed'
<1> USE DEF handlerVars, loopVars, busVars, pageVars, history
<1>1. /\ None \notin Updates /\ ToSet(written) \subseteq Updates
      /\ channel \in Seq(Updates) /\ \A p \in Pages : wire[p] \in Seq(Updates)
      /\ wire \in [Pages -> Seq(Updates)] /\ MaxFaults \in Nat /\ faults \in 0 .. MaxFaults
  BY Pieces, GatewayAssumption DEF Typed
<1>2. CASE Wait
  BY <1>2 DEF Wait, Typed, Lost
<1>3. CASE Read
  <2>1. CASE channel = <<>>
    BY <1>3, <2>1 DEF Read, Typed, Lost
  <2>2. CASE channel # <<>>
    <3>1. /\ Tail(channel) \in Seq(Updates) /\ Len(Tail(channel)) = Len(channel) - 1
          /\ ToSet(Tail(channel)) \subseteq ToSet(channel)
          /\ Head(channel) \in ToSet(channel)
      BY <1>1, <2>2, HeadFirst, TailWithin
    <3>2. Len(channel') <= ChannelCap
      <4>1. Len(channel) <= ChannelCap /\ Len(channel) \in Nat /\ channel' = Tail(channel)
        BY <1>1, <1>3, <2>2 DEF Typed, Read
      <4>2. ChannelCap \in Nat
        BY GatewayAssumption
      <4> QED BY <3>1, <4>1, <4>2
    <3> QED BY <1>3, <2>2, <3>1, <3>2 DEF Read, Typed, Lost
  <2> QED BY <2>1, <2>2
<1>4. CASE Send \/ SendFails
  <2>1. update \in Updates /\ update \in ToSet(written)
    BY <1>1, <1>4 DEF Send, SendFails, Typed
  <2>2. faults' \in 0 .. MaxFaults
    BY <1>1, <1>4 DEF Send, SendFails
  <2>3. /\ bus' \in Seq(Updates) /\ ToSet(bus') \subseteq ToSet(written)
        /\ gone' \subseteq ToSet(written)
    <3>1. CASE Publish /\ subscribed
      <4>1. bus' = Append(bus, update) /\ gone' = gone
        BY <3>1 DEF Publish
      <4>2. bus \in Seq(Updates) /\ ToSet(bus) \subseteq ToSet(written)
        BY DEF Typed
      <4>3. ToSet(bus') = ToSet(bus) \cup {update} /\ bus' \in Seq(Updates)
        BY <2>1, <4>1, <4>2, ToSetAppend
      <4> QED BY <2>1, <4>1, <4>2, <4>3 DEF Typed, Lost
    <3>2. CASE Unsent
      BY <2>1, <3>2 DEF Unsent, Typed, Lost
    <3> QED BY <1>4, <3>1, <3>2 DEF Send, SendFails, Publish, Unsent
  <2> QED BY <1>4, <2>2, <2>3 DEF Send, SendFails, Typed, Lost
<1>5. CASE Deliver
  <2>1. /\ bus # <<>> /\ bus \in Seq(Updates) /\ ToSet(bus) \subseteq ToSet(written)
        /\ bus' = Tail(bus)
    BY <1>5 DEF Deliver, Typed
  <2>2. /\ Head(bus) \in Updates /\ Tail(bus) \in Seq(Updates)
        /\ ToSet(Tail(bus)) \subseteq ToSet(bus)
    BY <2>1, HeadFirst, TailWithin
  <2>3. wire' \in [Pages -> Seq(Updates)]
    <3>1. \A p \in Pages : Append(wire[p], Head(bus)) \in Seq(Updates)
      BY <1>1, <2>2, AppendProperties
    <3>2. wire' = [p \in Pages |-> IF p \in Live THEN Append(wire[p], Head(bus)) ELSE wire[p]]
      BY <1>5 DEF Deliver
    <3> QED BY <1>1, <3>1, <3>2
  <2> QED BY <1>5, <2>1, <2>2, <2>3 DEF Deliver, Typed, Lost
<1>11. CASE Stray
  <2>1. /\ bus # <<>> /\ bus \in Seq(Updates) /\ ToSet(bus) \subseteq ToSet(written)
        /\ bus' = Front(bus) /\ gone' = gone \cup {Last(bus)}
    BY <1>11 DEF Stray, Typed
  <2>2. /\ Front(bus) \in Seq(Updates) /\ ToSet(Front(bus)) \subseteq ToSet(bus)
        /\ Last(bus) \in ToSet(bus)
    BY <2>1, LastLast
  <2> QED BY <1>11, <2>1, <2>2 DEF Stray, Typed, Lost
<1>12. CASE SubscriptionDown \/ Resubscribe
  <2>1. faults' \in 0 .. MaxFaults
    BY <1>1, <1>12 DEF SubscriptionDown, Resubscribe
  <2> QED BY <1>12, <2>1 DEF SubscriptionDown, Resubscribe, Typed, Lost
<1>6. CASE Cancel
  <2>1. faults' \in 0 .. MaxFaults
    BY <1>1, <1>6 DEF Cancel
  <2> QED BY <1>6, <2>1 DEF Cancel, Typed, Lost
<1>7. ASSUME NEW p \in Pages, Connect(p) \/ GiveUp(p)
      PROVE  Typed'
  BY <1>7 DEF Connect, GiveUp, Typed, Lost
<1>8. ASSUME NEW p \in Pages, Show(p)
      PROVE  Typed'
  <2>1. Head(wire[p]) \in Updates /\ Tail(wire[p]) \in Seq(Updates)
    BY <1>1, <1>8, HeadFirst DEF Show
  <2> QED BY <1>1, <1>8, <2>1 DEF Show, Typed, Lost
<1>9. ASSUME NEW p \in Pages, CutOff(p)
      PROVE  Typed'
  <2>1. faults' \in 0 .. MaxFaults
    BY <1>1, <1>9 DEF CutOff
  <2>2. <<>> \in Seq(Updates)
    OBVIOUS
  <2> QED BY <1>1, <1>9, <2>1, <2>2 DEF CutOff, Typed, Lost
<1>10. CASE UNCHANGED vars
  BY <1>10 DEF vars, Typed, Lost
<1> QED BY <1>2, <1>3, <1>4, <1>5, <1>6, <1>7, <1>8, <1>9, <1>10, <1>11, <1>12

\* A message is newer than all before it and its handler starts beside those that
\* run; a handler that writes ran together with every newer one that has written.
LEMMA HandlingStep ==
  ASSUME Typed, Handling, [Next]_vars
  PROVE  Handling'
<1>0. /\ written \in Seq(Updates) /\ published \in Nat
      /\ running \subseteq 1 .. published /\ ToSet(written) \subseteq 1 .. published
      /\ running \subseteq Updates
  <2>1. /\ written \in Seq(Updates) /\ written \in Seq(1 .. published)
        /\ published \in Nat /\ running \subseteq 1 .. published
        /\ 1 .. published \subseteq Updates
    BY Pieces, GatewayAssumption DEF Typed, Updates
  <2>2. ToSet(written) \subseteq 1 .. published
    BY <2>1, ToSetIs
  <2> QED BY <2>1, <2>2
<1>1. CASE Receive
  <2>1. /\ published' = published + 1 /\ running' = running \cup {published'}
        /\ overlapped' = overlapped \cup {{published', k} : k \in running}
        /\ written' = written
    BY <1>1 DEF Receive, history
  <2>2. published' \notin ToSet(written) /\ \A v \in ToSet(written) : ~(published' < v)
    BY <1>0, <2>1
  <2>3. \A j, k \in running' : j # k => {j, k} \in overlapped'
    BY <2>1 DEF Handling
  <2>4. \A k \in running', v \in ToSet(written) : k < v => {k, v} \in overlapped'
    BY <2>1, <2>2 DEF Handling
  <2>5. \A v, x \in ToSet(written) : Before(written, x, v) /\ v < x => {x, v} \in overlapped'
    BY <2>1 DEF Handling
  <2>6. running' \cap ToSet(written) = {}
    BY <2>1, <2>2 DEF Handling
  <2> QED BY <2>1, <2>3, <2>4, <2>5, <2>6 DEF Handling
<1>2. ASSUME NEW k \in running, Handle(k)
      PROVE  Handling'
  <2>1. running' = running \ {k} /\ overlapped' = overlapped
    BY <1>2 DEF Handle
  <2>2. CASE written' = written
    BY <2>1, <2>2 DEF Handling
  <2>3. CASE written' = Append(written, k)
    <3>1. /\ k \in Updates /\ k \notin ToSet(written) /\ IsInjective(written)
      BY <1>0 DEF Handling
    <3>2. ToSet(written') = ToSet(written) \cup {k}
      BY <1>0, <2>3, <3>1, ToSetAppend
    <3>3. /\ IsInjective(written')
          /\ \A x, y : Before(written', x, y) <=>
                         Before(written, x, y) \/ (x \in ToSet(written) /\ y = k)
      BY <1>0, <2>3, <3>1, BeforeAppend
    <3>4. \A x, y : Before(written, x, y) => x \in ToSet(written) /\ y \in ToSet(written)
      BY <1>0, <3>1, BeforeOrders
    <3>5. ASSUME NEW j \in running', NEW v \in ToSet(written'), j < v
          PROVE  {j, v} \in overlapped'
      BY <2>1, <3>2, <3>5 DEF Handling
    <3>6. ASSUME NEW v \in ToSet(written'), NEW x \in ToSet(written'),
                 Before(written', x, v), v < x
          PROVE  {x, v} \in overlapped'
      <4>1. CASE Before(written, x, v)
        BY <2>1, <3>4, <3>6, <4>1 DEF Handling
      <4>2. CASE x \in ToSet(written) /\ v = k
        <5>1. {k, x} \in overlapped /\ {k, x} = {x, k}
          BY <3>6, <4>2 DEF Handling
        <5> QED BY <2>1, <4>2, <5>1
      <4> QED BY <3>3, <3>6, <4>1, <4>2
    <3>7. running' \cap ToSet(written') = {}
      BY <2>1, <3>2 DEF Handling
    <3>8. \A i, j \in running' : i # j => {i, j} \in overlapped'
      BY <2>1 DEF Handling
    <3> QED BY <3>3, <3>5, <3>6, <3>7, <3>8 DEF Handling
  <2> QED BY <1>2, <2>2, <2>3 DEF Handle
<1>3. CASE UNCHANGED <<running, overlapped, written>>
  BY <1>3 DEF Handling
<1>4. ASSUME ~Receive, ~\E k \in running : Handle(k)
      PROVE  UNCHANGED <<running, overlapped, written>>
  BY <1>4 DEF Next, vars, Handled, PublishUnheard, Wait, Read, Send, SendFails, Cancel,
              Deliver, SubscriptionDown, Stray, Resubscribe, Connect, Show, CutOff, GiveUp, handlerVars, history
<1> QED BY <1>1, <1>2, <1>3, <1>4

-----------------------------------------------------------------------------
(* The theorems.                                                             *)

\* Every step keeps the invariant.
LEMMA NextInvariant ==
  ASSUME IInv, [Next]_vars
  PROVE  IInv'
<1>1. Typed'
  <2>1. Typed
    BY DEF IInv
  <2>2. CASE Receive \/ PublishUnheard
    BY <2>1, <2>2, PublishTyped
  <2>3. CASE Handled
    BY <2>1, <2>3, HandleTyped DEF Handled
  <2>4. CASE \/ Wait \/ Read \/ Send \/ SendFails \/ Cancel
             \/ Deliver \/ SubscriptionDown \/ Stray \/ Resubscribe
             \/ \E p \in Pages : Connect(p) \/ Show(p) \/ CutOff(p) \/ GiveUp(p)
             \/ UNCHANGED vars
    BY <2>1, <2>4, OtherTyped
  <2> QED BY <2>2, <2>3, <2>4 DEF Next
<1>2. Handling'
  BY HandlingStep DEF IInv
<1>3. Queues'
  <2>1. CASE Handled
    BY <2>1, HandleQueues DEF Handled
  <2>2. CASE Read
    BY <2>2, ReadQueues
  <2>3. CASE Send \/ SendFails
    BY <2>3, SendQueues
  <2>4. CASE Deliver
    BY <2>4, DeliverQueues
  <2>8. CASE Stray
    BY <2>8, StrayQueues
  <2>5. ASSUME NEW p \in Pages, Show(p)
        PROVE  Queues'
    BY <2>5, ShowQueues
  <2>6. ASSUME NEW p \in Pages, CutOff(p)
        PROVE  Queues'
    BY <2>6, CutOffQueues
  <2>7. CASE \/ Receive \/ PublishUnheard \/ Wait \/ Cancel
             \/ SubscriptionDown \/ Resubscribe
             \/ \E p \in Pages : Connect(p) \/ GiveUp(p)
             \/ UNCHANGED vars
    BY <2>7, OtherQueues
  <2> QED BY <2>1, <2>2, <2>3, <2>4, <2>5, <2>6, <2>7, <2>8 DEF Next
<1> QED BY <1>1, <1>2, <1>3 DEF IInv, Queues

\* It holds before the first message.
LEMMA InitInvariant == Init => IInv
<1> SUFFICES ASSUME Init PROVE IInv
  OBVIOUS
<1>1. /\ ToSet(<<>>) = {} /\ \A S : <<>> \in Seq(S) /\ Len(<<>>) = 0
      /\ DOMAIN <<>> = {} /\ <<>> \o <<>> = <<>>
  BY DEF ToSet
<1>2. Cardinality({}) = 0
  BY FS_EmptySet
<1>3. /\ MaxUpdates \in Nat /\ MaxFaults \in Nat /\ Handlers \in Nat /\ ChannelCap \in Nat
  BY GatewayAssumption
<1>4. Lost = {}
  BY DEF Init, Lost
<1>5. Typed
  <2>1. /\ published \in 0 .. MaxUpdates /\ faults \in 0 .. MaxFaults
        /\ Cardinality(running) <= Handlers /\ running \subseteq 1 .. published
    BY <1>2, <1>3 DEF Init
  <2>2. /\ written \in Seq(1 .. published) /\ channel \in Seq(Updates)
        /\ Len(channel) <= ChannelCap /\ ToSet(channel) \subseteq ToSet(written)
        /\ wire \in [Pages -> Seq(Updates)]
        /\ bus \in Seq(Updates) /\ ToSet(bus) \subseteq ToSet(written)
    BY <1>1, <1>3 DEF Init
  <2>3. /\ link \in [Pages -> {"connecting", "live", "reconnecting", "closed"}]
        /\ shown \in [Pages -> Updates \cup {None}]
        /\ loop = "wait" /\ update = None /\ missed \subseteq Pages /\ cancelled \in BOOLEAN
        /\ subscribed \in BOOLEAN
    BY DEF Init
  <2> QED BY <1>4, <2>1, <2>2, <2>3 DEF Typed
<1>6. Handling
  BY <1>1 DEF Init, Handling, IsInjective
<1>7. \A p \in Pages : Ahead(p) = <<>> /\ shown[p] = None
  BY <1>1 DEF Init, Ahead, Leaving
<1>8. AllQueued
  BY <1>1, <1>7 DEF Init, AllQueued, Queued
<1>9. PageFollows
  BY <1>1, <1>4, <1>7 DEF Init, PageFollows, Follows, IsInjective
<1> QED BY <1>5, <1>6, <1>8, <1>9 DEF IInv

\* The invariant holds in every state.
LEMMA Invariant == Spec => []IInv
<1>1. IInv /\ [Next]_vars => IInv'
  BY NextInvariant
<1> QED BY <1>1, InitInvariant, PTL DEF Spec

\* Every variable keeps its type; the channel never exceeds its capacity and no more
\* handlers run than may.
THEOREM TypeCorrect == Spec => []TypeOK
<1>1. IInv => TypeOK
  <2> SUFFICES ASSUME IInv PROVE TypeOK
    OBVIOUS
  <2>1. Typed /\ ToSet(written) \subseteq Updates
    BY Pieces DEF IInv
  <2>2. update \in Updates \cup {None}
    BY <2>1 DEF Typed
  <2> QED BY <2>1, <2>2 DEF Typed, TypeOK, Lost
<1> QED BY <1>1, Invariant, PTL

\* A page that has been connected all the time follows the channel: it shows an update
\* that is not lost, and what is on its way to it is exactly what was written since and
\* is not lost, in that order.
THEOREM PageAlwaysFollows == Spec => []PageFollows
<1>1. IInv => PageFollows
  BY DEF IInv
<1> QED BY <1>1, Invariant, PTL

\* A page goes back to an older update only when the handlers of the two ran together.
THEOREM PagesAlwaysForward == Spec => PagesMoveForward
<1>1. ASSUME IInv, [Next]_vars
      PROVE  [\A p \in Pages :
                shown'[p] < shown[p] => {shown'[p], shown[p]} \in overlapped]_vars
  <2>1. ASSUME Next, NEW p \in Pages, shown'[p] < shown[p]
        PROVE  {shown'[p], shown[p]} \in overlapped
    <3>1. shown[p] \in Updates \cup {None} /\ shown \in [Pages -> Updates \cup {None}]
      BY <1>1 DEF IInv, Typed
    <3>2. shown'[p] # shown[p]
      BY <2>1, <3>1 DEF Updates, None
    <3>3. Show(p)
      <4>1. ASSUME NEW q \in Pages, Show(q)
            PROVE  q = p
        BY <3>1, <3>2, <4>1 DEF Show
      <4>2. ASSUME ~\E q \in Pages : Show(q)
            PROVE  shown' = shown
        BY <2>1, <4>2 DEF Next, Handled, Receive, PublishUnheard, Handle, Wait, Read, Send,
                          SendFails, Cancel, Deliver, SubscriptionDown, Stray, Resubscribe, Connect, CutOff, GiveUp, pageVars
      <4> QED BY <3>2, <4>1, <4>2
    <3>4. /\ shown'[p] \in ToSet(written)
          /\ shown[p] = None \/ Before(written, shown[p], shown'[p])
      BY <1>1, <3>3, ShowQueues
    <3>5. ToSet(written) \subseteq Updates /\ written \in Seq(Updates) /\ IsInjective(written)
      BY <1>1, Pieces DEF IInv, Handling
    <3>6. shown[p] # None
      BY <2>1, <3>4, <3>5 DEF Updates, None
    <3>7. shown[p] \in ToSet(written)
      BY <3>4, <3>5, <3>6, BeforeOrders
    <3>8. {shown[p], shown'[p]} \in overlapped
      BY <1>1, <2>1, <3>4, <3>6, <3>7 DEF IInv, Handling
    <3>9. {shown[p], shown'[p]} = {shown'[p], shown[p]}
      OBVIOUS
    <3> QED BY <3>8, <3>9
  <2> QED BY <1>1, <2>1
<1> QED BY <1>1, Invariant, PTL DEF Spec, PagesMoveForward

=============================================================================
