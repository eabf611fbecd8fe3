------------------------ MODULE MatchingServiceProofs ------------------------
(***************************************************************************)
(* Theorems about MatchingService for channels, queues, streams and topics *)
(* of every length, every set of orders and every limit: the order of both *)
(* sources on the way to the engine, the limits at every trade, and the    *)
(* trades topic against the book.                                          *)
(***************************************************************************)
EXTENDS MatchingService, RiskCheckerProofs, FiniteSetTheorems, SequenceTheorems,
        NaturalsInduction, WellFoundedInduction, TLAPS

-----------------------------------------------------------------------------
(* The invariant.                                                            *)

\* An order on its way: a source and a place in it.
Entry == [from : {"topic", "stream"}, at : Nat]

\* A trade as the book makes it.
TradeRecord == [life : Nat, maker : Nat, taker : Nat, price : Int, qty : Int]

\* The orders the channel has taken so far, and the last place of the topic whose
\* order has got that far.
Entered == taken \o queue
HasHand == reader \in {"offer", "write", "wait"}
Behind  == IF HasHand THEN position - 1 ELSE position

\* The types of the sources and of the channel.
SourcesTyped ==
  /\ topic \in Seq(Orders) /\ streamed \in Seq(Orders)
  /\ committed \in 0 .. position /\ position \in 0 .. Len(topic)
  /\ reader \in {"poll", "offer", "write", "wait", "ended"}
  /\ HasHand => position > 0
  /\ dropped \subseteq 1 .. Len(streamed) /\ answered \in BOOLEAN
  /\ queue \in Seq(Entry) /\ taken \in Seq(Entry) /\ Len(queue) <= QueueCap

\* Every order on its way is one of its source.
Known(e) == e.at \in 1 .. (IF e.from = "topic" THEN position ELSE Len(streamed))
AllKnown == \A e \in ToSet(queue) \cup ToSet(taken) : Known(e)

\* What has entered the channel is in the order of the topic and complete up to the
\* order in the consumer's hand; and in the order of the stream but for what was
\* dropped.
TopicEntered ==
  reader # "ended" =>
    /\ GoUp(Entered, "topic")
    /\ \E first \in 1 .. Behind + 1 : Places(Entered, "topic") = first .. Behind

SourcesInv == SourcesTyped /\ AllKnown /\ TopicEntered /\ StreamOrdersInOrder

\* An order that rests, at a level of the band.
RestingOrder == [id : Nat, side : {"buy", "sell"}, price : Long, qty : Nat \ {0}]
AtLevels(S)  == \A r \in S : Book!LevelPrice(r.price) \in Band

\* The types of the matching loop and its book.
BookTyped ==
  /\ resting \subseteq RestingOrder /\ AtLevels(resting)
  /\ taker \in [id : Nat, side : {"buy", "sell"}, price : Long,
                original : Long, qty : Int]
  /\ engine \in {"wait", "drain", "match", "publish", "faulted", "ended"}
  /\ busy = (engine \in {"match", "publish"})
  /\ engine = "publish" => taker.qty > 0 /\ Book!Crossing # {}

\* No two orders of the book have an identifier in common.
BookIds ==
  /\ \A m, o \in resting : m.id = o.id => m = o
  /\ \A m \in resting : m.id <= taker.id /\ (busy => m.id # taker.id)

\* A quantity the checks admit, at a price; and that all of S are admitted.
Admitted(p, q) == q <= MaxOrderQuantity /\ (p \in Band => p * q <= MaxNotionalValue)
AllAdmitted(S) == \A r \in S : Admitted(r.price, r.qty)

\* Every order of S that is not of this side is at a level on the far side of p.
Beyond(S, side, p) ==
  \A m \in S : m.side # side =>
    IF side = "buy" THEN p <= Book!LevelPrice(m.price) ELSE Book!LevelPrice(m.price) <= p

\* What rests is admitted; so is what is left of the order in hand.  If it is priced in
\* the band, its makers' levels are all between the market price of its check and its
\* own price.
BookWithin ==
  /\ AllAdmitted(resting)
  /\ busy => /\ Book!LevelPrice(taker.price) \in Band
             /\ Admitted(taker.price, taker.qty)
             /\ taker.price \in Band => /\ market \in Band
                                       /\ Abs(taker.price - market) <= MaxPriceDeviation
                                       /\ Beyond(resting, taker.side, market)

\* No trade is made twice: an order trades with another once.
TradesMade ==
  /\ made \in Seq(TradeRecord) /\ count.starts \in Nat
  /\ \A t \in ToSet(made) : t.life = count.starts /\ t.taker <= taker.id
  /\ \A t \in ToSet(made), m \in resting :
       busy /\ taker.qty > 0 /\ t.taker = taker.id => t.maker # m.id
  /\ \A i, j \in 1 .. Len(made) : made[i] = made[j] => i = j

BookInv == BookTyped /\ BookIds /\ BookWithin /\ TradesMade

\* The types of the producer and the host.
HostTyped ==
  /\ outbox \in Seq(TradeRecord) /\ Len(outbox) <= OutboxCap /\ tape \in Seq(TradeRecord)
  /\ stopping \in {"none", "reader", "both"} /\ up \in BOOLEAN
  /\ count \in [faults : Nat, starts : Nat, expired : Nat, resent : Nat]

\* Whose trades are where; a process that is down has none.
Lives ==
  /\ \A t \in ToSet(outbox) : t.life = count.starts
  /\ \A t \in ToSet(tape) : t.life <= count.starts
  /\ ~up => made = <<>> /\ outbox = <<>>

TapeInv == HostTyped /\ Lives /\ TapeFollowsBook

IInv == SourcesInv /\ BookInv /\ TapeInv

-----------------------------------------------------------------------------
(* Sequences as sets.                                                        *)

\* The elements of a sequence.
LEMMA ToSetIs ==
  ASSUME NEW S, NEW q \in Seq(S)
  PROVE  /\ DOMAIN q = 1 .. Len(q) /\ Len(q) \in Nat
         /\ ToSet(q) = {q[i] : i \in 1 .. Len(q)} /\ ToSet(q) \subseteq S
         /\ q \in Seq(ToSet(q))
BY DEF ToSet

\* Appending adds an element.
LEMMA ToSetAppend ==
  ASSUME NEW S, NEW q \in Seq(S), NEW k \in S
  PROVE  /\ ToSet(Append(q, k)) = ToSet(q) \cup {k}
         /\ Append(q, k) \in Seq(S) /\ Len(Append(q, k)) = Len(q) + 1
         /\ \A i \in 1 .. Len(q) : Append(q, k)[i] = q[i]
         /\ Append(q, k)[Len(q) + 1] = k
<1>1. /\ Append(q, k) \in Seq(S) /\ Len(Append(q, k)) = Len(q) + 1
      /\ \A i \in 1 .. Len(q) : Append(q, k)[i] = q[i]
      /\ Append(q, k)[Len(q) + 1] = k
  OBVIOUS
<1>2. ToSet(Append(q, k)) = {Append(q, k)[i] : i \in 1 .. Len(q) + 1}
  BY <1>1, ToSetIs
<1>3. ToSet(q) = {q[i] : i \in 1 .. Len(q)} /\ Len(q) \in Nat
  BY ToSetIs
<1>4. 1 .. Len(q) + 1 = (1 .. Len(q)) \cup {Len(q) + 1}
  BY <1>3
<1> QED BY <1>1, <1>2, <1>3, <1>4

\* Joining two sequences joins their elements.
LEMMA ToSetConcat ==
  ASSUME NEW S, NEW a \in Seq(S), NEW b \in Seq(S)
  PROVE  /\ ToSet(a \o b) = ToSet(a) \cup ToSet(b)
         /\ a \o b \in Seq(S) /\ Len(a \o b) = Len(a) + Len(b)
         /\ \A i \in 1 .. Len(a) : (a \o b)[i] = a[i]
         /\ \A i \in 1 .. Len(b) : (a \o b)[Len(a) + i] = b[i]
<1>1. /\ a \o b \in Seq(S) /\ Len(a \o b) = Len(a) + Len(b)
      /\ \A i \in 1 .. Len(a) + Len(b) :
           (a \o b)[i] = IF i <= Len(a) THEN a[i] ELSE b[i - Len(a)]
      /\ Len(a) \in Nat /\ Len(b) \in Nat
  BY ConcatProperties, LenProperties
<1>2. /\ \A i \in 1 .. Len(a) : (a \o b)[i] = a[i]
      /\ \A i \in 1 .. Len(b) : (a \o b)[Len(a) + i] = b[i]
  <2>1. ASSUME NEW i \in 1 .. Len(a) PROVE (a \o b)[i] = a[i]
    <3>1. i \in 1 .. Len(a) + Len(b) /\ i <= Len(a)
      BY <1>1
    <3> QED BY <3>1, <1>1
  <2>2. ASSUME NEW i \in 1 .. Len(b) PROVE (a \o b)[Len(a) + i] = b[i]
    <3>1. /\ Len(a) + i \in 1 .. Len(a) + Len(b) /\ ~(Len(a) + i <= Len(a))
          /\ Len(a) + i - Len(a) = i
      BY <1>1
    <3> QED BY <3>1, <1>1
  <2> QED BY <2>1, <2>2
<1>3. ToSet(a \o b) = {(a \o b)[i] : i \in 1 .. Len(a) + Len(b)}
  BY <1>1, ToSetIs
<1>4. \A i \in 1 .. Len(a) + Len(b) :
        i \in 1 .. Len(a) \/ \E j \in 1 .. Len(b) : i = Len(a) + j
  <2> TAKE i \in 1 .. Len(a) + Len(b)
  <2>1. CASE i <= Len(a)
    BY <1>1, <2>1
  <2>2. CASE ~(i <= Len(a))
    <3>1. i - Len(a) \in 1 .. Len(b) /\ i = Len(a) + (i - Len(a))
      BY <1>1, <2>2
    <3> QED BY <3>1
  <2> QED BY <2>1, <2>2
<1>5. /\ \A i \in 1 .. Len(a) : i \in 1 .. Len(a) + Len(b)
      /\ \A i \in 1 .. Len(b) : Len(a) + i \in 1 .. Len(a) + Len(b)
  BY <1>1
<1>6. /\ ToSet(a) = {a[i] : i \in 1 .. Len(a)} /\ ToSet(b) = {b[i] : i \in 1 .. Len(b)}
  BY ToSetIs
<1>7. ToSet(a \o b) \subseteq ToSet(a) \cup ToSet(b)
  <2> SUFFICES ASSUME NEW i \in 1 .. Len(a) + Len(b)
               PROVE  (a \o b)[i] \in ToSet(a) \cup ToSet(b)
    BY <1>3
  <2> QED BY <1>2, <1>4, <1>6
<1>8. ToSet(a) \subseteq ToSet(a \o b)
  BY <1>2, <1>3, <1>5, <1>6
<1>9. ToSet(b) \subseteq ToSet(a \o b)
  <2> SUFFICES ASSUME NEW i \in 1 .. Len(b) PROVE b[i] \in ToSet(a \o b)
    BY <1>6
  <2> QED BY <1>2, <1>3, <1>5
<1> QED BY <1>1, <1>2, <1>7, <1>8, <1>9

\* An element put at the end of the second part is at the end of the whole.
LEMMA ConcatAppend ==
  ASSUME NEW S, NEW a \in Seq(S), NEW b \in Seq(S), NEW e \in S
  PROVE  a \o Append(b, e) = Append(a \o b, e)
<1>1. <<e>> \in Seq(S)
  OBVIOUS
<1>2. Append(b, e) = b \o <<e>> /\ a \o b \in Seq(S)
  BY AppendIsConcat, ConcatProperties
<1>3. Append(a \o b, e) = (a \o b) \o <<e>>
  BY <1>2, AppendIsConcat
<1>4. a \o (b \o <<e>>) = (a \o b) \o <<e>>
  BY <1>1, ConcatAssociative
<1> QED BY <1>2, <1>3, <1>4, Zenon

\* The head of the second part can go to the first.
LEMMA ConcatMove ==
  ASSUME NEW S, NEW a \in Seq(S), NEW b \in Seq(S), b # <<>>
  PROVE  Append(a, Head(b)) \o Tail(b) = a \o b
<1> DEFINE h == Head(b)
           t == Tail(b)
<1>1. h \in S /\ t \in Seq(S)
  BY HeadTailProperties
<1>5. b = <<h>> \o t
  <2> DEFINE n == Len(b)
  <2>1. n \in Nat \ {0} /\ h = b[1]
    BY EmptySeq
  <2>2. 1 \in 1 .. n /\ n \in 1 .. n /\ 1 + 1 = 2
    BY <2>1
  <2>3. t = SubSeq(b, 2, n)
    BY TailIsSubSeq
  <2>4. b = SubSeq(b, 1, n)
    BY SubSeqFull
  <2> HIDE DEF n, h, t
  <2>5. SubSeq(b, 1, n) = <<b[1]>> \o SubSeq(b, 1 + 1, n)
    BY <2>2, SubSeqRecursiveFirst DEF n
  <2> QED BY <2>1, <2>2, <2>3, <2>4, <2>5, Zenon
<1> HIDE DEF h, t
<1>2. <<h>> \in Seq(S) BY <1>1
<1>3. Append(a, h) = a \o <<h>> BY <1>1, AppendIsConcat
<1>4. (a \o <<h>>) \o t = a \o (<<h>> \o t) BY <1>1, <1>2, ConcatAssociative
<1>6. Append(a, h) \o t = a \o b BY <1>3, <1>4, <1>5, Zenon
<1> QED BY <1>6 DEF h, t

\* The sequence t is s without the element at k.
Without(s, t, k) ==
  /\ k \in 1 .. Len(s) /\ Len(t) = Len(s) - 1
  /\ \A i \in 1 .. Len(t) : t[i] = IF i < k THEN s[i] ELSE s[i + 1]

\* Taking the head off the second part takes one element out of the whole.
LEMMA ConcatTail ==
  ASSUME NEW S, NEW a \in Seq(S), NEW b \in Seq(S), b # <<>>
  PROVE  Without(a \o b, a \o Tail(b), Len(a) + 1)
<1> DEFINE t == Tail(b)
<1>1. t \in Seq(S) /\ Len(b) = Len(t) + 1 /\ \A i \in 1 .. Len(t) : t[i] = b[i + 1]
  BY HeadTailProperties, LenProperties
<1> HIDE DEF t
<1> DEFINE s == a \o b
           u == a \o t
<1>2. /\ s \in Seq(S) /\ Len(s) = Len(a) + Len(b)
      /\ \A i \in 1 .. Len(a) : s[i] = a[i]
      /\ \A i \in 1 .. Len(b) : s[Len(a) + i] = b[i]
  BY ToSetConcat
<1>3. /\ u \in Seq(S) /\ Len(u) = Len(a) + Len(t)
      /\ \A i \in 1 .. Len(a) : u[i] = a[i]
      /\ \A i \in 1 .. Len(t) : u[Len(a) + i] = t[i]
  BY <1>1, ToSetConcat
<1>4. Len(a) \in Nat /\ Len(t) \in Nat BY <1>1, LenProperties
<1> HIDE DEF s, u
<1>5. ASSUME NEW i \in 1 .. Len(u)
      PROVE  u[i] = IF i < Len(a) + 1 THEN s[i] ELSE s[i + 1]
  <2>1. CASE i <= Len(a)
    BY <2>1, <1>2, <1>3, <1>4
  <2>2. CASE ~(i <= Len(a))
    <3> DEFINE j == i - Len(a)
    <3>1. j \in 1 .. Len(t) /\ j + 1 \in 1 .. Len(b) /\ i = Len(a) + j
          /\ i + 1 = Len(a) + (j + 1) /\ ~(i < Len(a) + 1)
      BY <2>2, <1>1, <1>3, <1>4
    <3>2. u[Len(a) + j] = t[j] /\ t[j] = b[j + 1] /\ s[Len(a) + (j + 1)] = b[j + 1]
      BY <3>1, <1>1, <1>2, <1>3
    <3> HIDE DEF j
    <3> QED BY <3>1, <3>2
  <2> QED BY <2>1, <2>2
<1>6. Len(a) + 1 \in 1 .. Len(s) /\ Len(u) = Len(s) - 1
  BY <1>1, <1>2, <1>3, <1>4
<1>7. Without(s, u, Len(a) + 1)
  BY <1>5, <1>6 DEF Without
<1> QED BY <1>7 DEF s, u, t

-----------------------------------------------------------------------------
(* The order of the sources.                                                 *)

USE DEF kafkaVars, streamVars, engineVars, bookVars, hostVars

\* What enters behind all others keeps the order.
LEMMA EnterLast ==
  ASSUME NEW s \in Seq(Entry), NEW e \in Entry, NEW source, GoUp(s, source),
         e.from = source => \A n \in Places(s, source) : n < e.at
  PROVE  /\ GoUp(Append(s, e), source)
         /\ Places(Append(s, e), source) =
              Places(s, source) \cup (IF e.from = source THEN {e.at} ELSE {})
<1> DEFINE t == Append(s, e)
           n == Len(s)
<1>1. /\ t \in Seq(Entry) /\ Len(t) = n + 1 /\ ToSet(t) = ToSet(s) \cup {e}
      /\ \A i \in 1 .. n : t[i] = s[i]
      /\ t[n + 1] = e
  BY ToSetAppend
<1>2. DOMAIN s = 1 .. n /\ n \in Nat /\ ToSet(s) = {s[i] : i \in 1 .. n}
  BY ToSetIs
<1>3. DOMAIN t = 1 .. n + 1
  BY <1>1, LenProperties
<1> HIDE DEF t, n
<1>4. \A i \in 1 .. n : s[i].from = source => s[i].at \in Places(s, source)
  BY <1>2 DEF Places
<1>5. GoUp(t, source)
  <2> SUFFICES ASSUME NEW i \in 1 .. n + 1, NEW j \in 1 .. n + 1, i < j,
                      t[i].from = source, t[j].from = source
               PROVE  t[i].at < t[j].at
    BY <1>3 DEF GoUp
  <2>1. i \in 1 .. n /\ (j \in 1 .. n \/ j = n + 1)
    BY <1>2
  <2>2. CASE j \in 1 .. n
    BY <1>1, <1>2, <2>1, <2>2 DEF GoUp
  <2>3. CASE j = n + 1
    BY <1>1, <1>4, <2>1, <2>3
  <2> QED BY <2>1, <2>2, <2>3
<1>6. Places(t, source) = Places(s, source) \cup (IF e.from = source THEN {e.at} ELSE {})
  BY <1>1 DEF Places
<1> QED BY <1>5, <1>6 DEF t

\* The channel's orders, as one sequence.
LEMMA EnteredIs ==
  ASSUME SourcesTyped, AllKnown
  PROVE  /\ Entered \in Seq(Entry) /\ ToSet(Entered) = ToSet(taken) \cup ToSet(queue)
         /\ \A n \in Places(Entered, "stream") : n \in 1 .. Len(streamed)
         /\ \A n \in Places(Entered, "topic") : n \in 1 .. position
<1>1. taken \in Seq(Entry) /\ queue \in Seq(Entry)
  BY DEF SourcesTyped
<1>2. Entered \in Seq(Entry) /\ ToSet(Entered) = ToSet(taken) \cup ToSet(queue)
  BY <1>1, ToSetConcat DEF Entered
<1> QED BY <1>2 DEF AllKnown, Known, Places

\* The order in the consumer's hand enters the channel.
LEMMA HandEnters ==
  ASSUME SourcesInv, HasHand, Entered' = Append(Entered, InHand),
         reader' = "poll", UNCHANGED <<position, streamed, dropped>>
  PROVE  TopicEntered' /\ StreamOrdersInOrder'
<1>1. Entered \in Seq(Entry) /\ position \in Nat \ {0} /\ reader # "ended" /\ Behind = position - 1
  BY EnteredIs DEF SourcesInv, SourcesTyped, HasHand, Behind
<1>2. InHand \in Entry /\ InHand.from = "topic" /\ InHand.at = position
  BY <1>1 DEF InHand, Entry
<1>3. PICK first \in 1 .. position :
        GoUp(Entered, "topic") /\ Places(Entered, "topic") = first .. position - 1
  BY <1>1 DEF SourcesInv, TopicEntered
<1>4. /\ GoUp(Entered', "topic")
      /\ Places(Entered', "topic") = (first .. position - 1) \cup {position}
  <2>1. \A n \in Places(Entered, "topic") : n < position
    BY <1>1, <1>3
  <2> DEFINE s == Entered
             h == InHand
  <2>2. s \in Seq(Entry) /\ h \in Entry /\ GoUp(s, "topic") /\ h.from = "topic" /\ h.at = position
        /\ \A n \in Places(s, "topic") : n < h.at
    BY <1>1, <1>2, <1>3, <2>1
  <2>3. Places(s, "topic") = first .. position - 1 /\ Entered' = Append(s, h)
    BY <1>3
  <2> HIDE DEF s, h
  <2>4. /\ GoUp(Append(s, h), "topic")
        /\ Places(Append(s, h), "topic") = Places(s, "topic") \cup {h.at}
    BY <2>2, EnterLast
  <2> QED BY <2>2, <2>3, <2>4, Zenon
<1>5. (first .. position - 1) \cup {position} = first .. position
  BY <1>1
<1>6. Behind' = position /\ first \in 1 .. position + 1
  BY <1>1 DEF Behind, HasHand
<1>7. TopicEntered'
  BY <1>4, <1>5, <1>6 DEF TopicEntered
<1>8. /\ GoUp(Entered', "stream") /\ Places(Entered', "stream") = Places(Entered, "stream")
  <2> DEFINE s == Entered
             h == InHand
  <2>1. s \in Seq(Entry) /\ h \in Entry /\ GoUp(s, "stream") /\ h.from # "stream"
    BY <1>1, <1>2 DEF SourcesInv, StreamOrdersInOrder, Entered
  <2>2. Entered' = Append(s, h)
    OBVIOUS
  <2> HIDE DEF s, h
  <2>3. /\ GoUp(Append(s, h), "stream")
        /\ Places(Append(s, h), "stream") = Places(s, "stream") \cup {}
    BY <2>1, EnterLast
  <2> QED BY <2>2, <2>3 DEF s
<1>9. StreamOrdersInOrder'
  BY <1>8 DEF SourcesInv, StreamOrdersInOrder, Entered
<1> QED BY <1>7, <1>9

\* A step at which nothing enters.
LEMMA NothingEnters ==
  ASSUME SourcesInv, Entered' = Entered, UNCHANGED <<streamed, dropped>>,
         reader' = "ended" \/ (reader # "ended" /\ Behind' = Behind)
  PROVE  TopicEntered' /\ StreamOrdersInOrder'
<1>1. TopicEntered'
  BY DEF SourcesInv, TopicEntered
<1>2. StreamOrdersInOrder'
  BY DEF SourcesInv, StreamOrdersInOrder, Entered
<1> QED BY <1>1, <1>2

\* The channel takes an order behind the others.
LEMMA QueueAppend ==
  ASSUME SourcesTyped, NEW e \in Entry
  PROVE  /\ Append(queue, e) \in Seq(Entry) /\ Len(Append(queue, e)) = Len(queue) + 1
         /\ ToSet(Append(queue, e)) = ToSet(queue) \cup {e}
         /\ taken \o Append(queue, e) = Append(Entered, e)
<1>1. queue \in Seq(Entry) /\ taken \in Seq(Entry)
  BY DEF SourcesTyped
<1> QED BY <1>1, ToSetAppend, ConcatAppend DEF Entered

\* EnqueueOrder and EnqueueOrderAsync, with room or without.
LEMMA PutKeeps ==
  ASSUME SourcesInv, NEW next \in {"write", "wait"}, reader \in {"offer", "write"}, TryPut(next),
         UNCHANGED <<topic, committed, position, streamVars, taken>>
  PROVE  SourcesInv'
<1>0. SourcesTyped /\ AllKnown /\ HasHand /\ position \in Nat \ {0} /\ position <= Len(topic)
  BY DEF SourcesInv, SourcesTyped, HasHand
<1>1. CASE Room /\ queue' = Append(queue, InHand) /\ reader' = "poll"
  <2>1. InHand \in Entry /\ InHand.from = "topic" /\ InHand.at = position
    BY <1>0 DEF InHand, Entry
  <2>2. /\ queue' \in Seq(Entry) /\ Len(queue') = Len(queue) + 1
        /\ ToSet(queue') = ToSet(queue) \cup {InHand}
        /\ taken \o queue' = Append(Entered, InHand)
    BY <1>0, <1>1, <2>1, QueueAppend
  <2>3. Len(queue') <= QueueCap
    BY <1>0, <1>1, <2>2, ServiceAssumption, LenProperties DEF SourcesTyped, Room
  <2>4. SourcesTyped'
    BY <1>0, <1>1, <2>2, <2>3 DEF SourcesTyped, HasHand
  <2>5. AllKnown'
    BY <1>0, <2>1, <2>2 DEF AllKnown, Known
  <2>6. Entered' = Append(Entered, InHand)
    BY <2>2 DEF Entered
  <2>7. TopicEntered' /\ StreamOrdersInOrder'
    BY <1>0, <1>1, <2>6, HandEnters
  <2> QED BY <2>4, <2>5, <2>7 DEF SourcesInv
<1>2. CASE ~Room /\ queue' = queue /\ reader' = next
  <2>1. SourcesTyped'
    BY <1>0, <1>2 DEF SourcesTyped, HasHand
  <2>2. AllKnown'
    BY <1>0, <1>2 DEF AllKnown, Known
  <2>3. Entered' = Entered /\ Behind' = Behind /\ reader # "ended"
    BY <1>2 DEF Entered, Behind, HasHand
  <2>4. TopicEntered' /\ StreamOrdersInOrder'
    BY <2>3, NothingEnters
  <2> QED BY <2>1, <2>2, <2>4 DEF SourcesInv
<1> QED BY <1>1, <1>2 DEF TryPut

\* The consumer and the market maker, while nothing enters the channel.
LEMMA TopicKeeps ==
  ASSUME SourcesInv, Submit \/ AutoCommit \/ Fetch \/ ReaderEnds \/ StreamEnds
  PROVE  SourcesInv'
<1>0. SourcesTyped /\ AllKnown /\ position \in Nat /\ committed \in Nat /\ Len(topic) \in Nat
  BY LenProperties DEF SourcesInv, SourcesTyped
<1>1. SourcesTyped'
  <2>1. CASE Submit
    <3>1. PICK o \in Orders : topic' = Append(topic, o)
      BY <2>1 DEF Submit
    <3>2. topic' \in Seq(Orders) /\ Len(topic') = Len(topic) + 1
      BY <1>0, <3>1, ToSetAppend DEF SourcesTyped
    <3>3. position \in 0 .. Len(topic')
      BY <1>0, <3>2 DEF SourcesTyped
    <3> QED BY <1>0, <2>1, <3>2, <3>3 DEF SourcesTyped, HasHand, Submit
  <2>2. CASE AutoCommit
    BY <1>0, <2>2 DEF SourcesTyped, HasHand, AutoCommit
  <2>3. CASE Fetch
    <3>1. position' \in 0 .. Len(topic) /\ committed \in 0 .. position' /\ position' > 0
      BY <1>0, <2>3 DEF SourcesTyped, Fetch
    <3> QED BY <1>0, <2>3, <3>1 DEF SourcesTyped, Fetch
  <2>4. CASE ReaderEnds
    BY <1>0, <2>4 DEF SourcesTyped, HasHand, ReaderEnds
  <2>5. CASE StreamEnds
    BY <1>0, <2>5 DEF SourcesTyped, HasHand, StreamEnds
  <2> QED BY <2>1, <2>2, <2>3, <2>4, <2>5
<1>2. UNCHANGED <<queue, taken, streamed, dropped>>
  BY DEF Submit, AutoCommit, Fetch, ReaderEnds, StreamEnds
<1>3. position' = position \/ position' = position + 1
  BY DEF Submit, AutoCommit, Fetch, ReaderEnds, StreamEnds
<1>4. AllKnown'
  <2>1. \A n \in 1 .. position : n \in 1 .. position'
    BY <1>0, <1>3
  <2> QED BY <1>0, <1>2, <2>1 DEF AllKnown, Known
<1>5. reader' = "ended" \/ (reader # "ended" /\ Behind' = Behind)
  <2>1. CASE Fetch
    <3>1. (position + 1) - 1 = position
      BY <1>0
    <3> QED BY <2>1, <3>1 DEF Fetch, Behind, HasHand
  <2>2. CASE ~Fetch
    BY <2>2 DEF Submit, AutoCommit, ReaderEnds, StreamEnds, Behind, HasHand
  <2> QED BY <2>1, <2>2
<1>6. TopicEntered' /\ StreamOrdersInOrder'
  BY <1>2, <1>5, NothingEnters DEF Entered
<1> QED BY <1>1, <1>4, <1>6 DEF SourcesInv

\* StreamOrders, with room or without.
LEMMA StreamKeeps ==
  ASSUME SourcesInv, StreamOrder
  PROVE  SourcesInv'
<1> DEFINE n == Len(streamed)
           e == [from |-> "stream", at |-> n + 1]
<1>0. SourcesTyped /\ AllKnown /\ n \in Nat /\ Len(queue) \in Nat
  BY LenProperties DEF SourcesInv, SourcesTyped
<1>1. /\ streamed' \in Seq(Orders) /\ Len(streamed') = n + 1
  <2>1. PICK o \in Orders : streamed' = Append(streamed, o)
    BY DEF StreamOrder
  <2> QED BY <1>0, <2>1, ToSetAppend DEF SourcesTyped
<1>2. UNCHANGED <<topic, committed, position, reader, answered, taken>>
  BY DEF StreamOrder
<1>3. /\ e \in Entry /\ e.from = "stream" /\ e.at = n + 1
  BY <1>0 DEF Entry
<1>4. \/ Room /\ queue' = Append(queue, e) /\ dropped' = dropped
      \/ dropped' = dropped \cup {n + 1} /\ queue' = queue
  BY <1>1 DEF StreamOrder
<1> HIDE DEF n, e
<1>5. ASSUME NEW k \in 1 .. n PROVE k \in 1 .. n + 1 /\ k # n + 1
  BY <1>0, <1>5
<1>6. n + 1 \in 1 .. n + 1
  BY <1>0
<1>7. dropped \subseteq 1 .. n /\ dropped' \subseteq 1 .. n + 1
  BY <1>0, <1>4, <1>5, <1>6 DEF SourcesTyped, n
<1>8. CASE Room /\ queue' = Append(queue, e) /\ dropped' = dropped
  <2>1. /\ queue' \in Seq(Entry) /\ Len(queue') = Len(queue) + 1
        /\ ToSet(queue') = ToSet(queue) \cup {e}
        /\ taken \o queue' = Append(Entered, e)
    BY <1>0, <1>3, <1>8, QueueAppend
  <2>2. Len(queue') <= QueueCap
    BY <1>0, <1>8, <2>1, ServiceAssumption DEF SourcesTyped, Room
  <2>3. SourcesTyped'
    BY <1>0, <1>1, <1>2, <1>7, <2>1, <2>2 DEF SourcesTyped, HasHand
  <2>4. AllKnown'
    <3>1. \A x \in ToSet(queue) \cup ToSet(taken) :
            x.at \in 1 .. (IF x.from = "topic" THEN position ELSE n + 1)
      BY <1>0, <1>5 DEF AllKnown, Known, n
    <3>2. e.at \in 1 .. (IF e.from = "topic" THEN position ELSE n + 1)
      BY <1>3, <1>6
    <3> QED BY <1>1, <1>2, <2>1, <3>1, <3>2 DEF AllKnown, Known
  <2>5. Entered' = Append(Entered, e)
    BY <1>2, <2>1 DEF Entered
  <2>6. Entered \in Seq(Entry) /\ \A k \in Places(Entered, "stream") : k \in 1 .. n
    BY <1>0, EnteredIs DEF n
  <2>7. \A k \in Places(Entered, "stream") : k < n + 1
    BY <1>0, <2>6
  <2>8. /\ GoUp(Entered', "stream")
        /\ Places(Entered', "stream") = Places(Entered, "stream") \cup {n + 1}
    <3>1. GoUp(Entered, "stream")
      BY DEF SourcesInv, StreamOrdersInOrder, Entered
    <3> DEFINE s == Entered
    <3>2. s \in Seq(Entry) /\ GoUp(s, "stream") /\ \A k \in Places(s, "stream") : k < e.at
      BY <1>3, <2>6, <2>7, <3>1
    <3> HIDE DEF s
    <3>3. /\ GoUp(Append(s, e), "stream")
          /\ Places(Append(s, e), "stream") = Places(s, "stream") \cup {e.at}
      BY <1>3, <3>2, EnterLast
    <3> QED BY <1>3, <2>5, <3>3, Zenon DEF s
  <2>9. Places(Entered', "stream") = (1 .. n + 1) \ dropped
    <3>1. Places(Entered, "stream") = (1 .. n) \ dropped
      BY DEF SourcesInv, StreamOrdersInOrder, Entered, n
    <3>2. (1 .. n + 1) = (1 .. n) \cup {n + 1}
      BY <1>0
    <3>3. n + 1 \notin dropped
      BY <1>5, <1>7
    <3> QED BY <2>8, <3>1, <3>2, <3>3
  <2>10. StreamOrdersInOrder'
    BY <1>1, <1>8, <2>8, <2>9 DEF StreamOrdersInOrder, Entered
  <2>11. reader # "ended" => /\ GoUp(Entered', "topic")
                             /\ Places(Entered', "topic") = Places(Entered, "topic")
    <3> SUFFICES ASSUME reader # "ended"
                 PROVE  /\ GoUp(Entered', "topic")
                        /\ Places(Entered', "topic") = Places(Entered, "topic")
      OBVIOUS
    <3> DEFINE s == Entered
    <3>1. s \in Seq(Entry) /\ GoUp(s, "topic") /\ e.from # "topic"
      BY <1>3, <2>6 DEF SourcesInv, TopicEntered
    <3> HIDE DEF s
    <3>2. /\ GoUp(Append(s, e), "topic")
          /\ Places(Append(s, e), "topic") = Places(s, "topic") \cup {}
      BY <1>3, <3>1, EnterLast
    <3> QED BY <2>5, <3>2 DEF s
  <2>12. TopicEntered'
    BY <1>2, <2>11 DEF SourcesInv, TopicEntered, Behind, HasHand
  <2> QED BY <2>3, <2>4, <2>10, <2>12 DEF SourcesInv
<1>9. CASE dropped' = dropped \cup {n + 1} /\ queue' = queue
  <2>1. SourcesTyped'
    BY <1>0, <1>1, <1>2, <1>7, <1>9 DEF SourcesTyped, HasHand
  <2>2. AllKnown'
    BY <1>0, <1>1, <1>2, <1>5, <1>9 DEF AllKnown, Known, n
  <2>3. Entered' = Entered
    BY <1>2, <1>9 DEF Entered
  <2>4. StreamOrdersInOrder'
    <3>1. Places(Entered, "stream") = (1 .. n) \ dropped /\ GoUp(Entered, "stream")
      BY DEF SourcesInv, StreamOrdersInOrder, Entered, n
    <3>2. (1 .. n + 1) = (1 .. n) \cup {n + 1} /\ n + 1 \notin 1 .. n
      BY <1>0
    <3>3. (1 .. n) \ dropped = (1 .. n + 1) \ dropped'
      BY <1>9, <3>2
    <3> QED BY <1>1, <2>3, <3>1, <3>3 DEF StreamOrdersInOrder, Entered
  <2>5. TopicEntered'
    BY <1>2, <2>3 DEF SourcesInv, TopicEntered, Behind, HasHand
  <2> QED BY <2>1, <2>2, <2>4, <2>5 DEF SourcesInv
<1> QED BY <1>4, <1>8, <1>9

\* TryRead: the head of the channel is taken, and a waiting writer's order put in.
LEMMA DequeueKeeps ==
  ASSUME SourcesInv, Dequeue,
         UNCHANGED <<topic, committed, position, streamVars>>
  PROVE  SourcesInv'
<1> DEFINE h == Head(queue)
           t == Tail(queue)
<1>0. SourcesTyped /\ AllKnown /\ queue \in Seq(Entry) /\ taken \in Seq(Entry)
      /\ position \in Nat /\ queue # <<>>
  BY DEF SourcesInv, SourcesTyped, Dequeue
<1>1. /\ h \in Entry /\ t \in Seq(Entry) /\ Len(t) = Len(queue) - 1
      /\ Len(queue) \in Nat /\ \A i \in 1 .. Len(t) : t[i] = queue[i + 1]
  BY <1>0, HeadTailProperties, LenProperties
<1>2. h \in ToSet(queue) /\ ToSet(t) \subseteq ToSet(queue)
  <2>1. h = queue[1] /\ Len(queue) > 0
    BY <1>0, EmptySeq
  <2>2. ToSet(queue) = {queue[i] : i \in 1 .. Len(queue)} /\ ToSet(t) = {t[i] : i \in 1 .. Len(t)}
    BY <1>0, <1>1, ToSetIs
  <2> HIDE DEF h, t
  <2>3. \A i \in 1 .. Len(t) : i + 1 \in 1 .. Len(queue)
    BY <1>1
  <2>4. ToSet(t) \subseteq ToSet(queue)
    BY <1>1, <2>2, <2>3
  <2>5. h \in ToSet(queue)
    BY <1>1, <2>1, <2>2
  <2> QED BY <2>4, <2>5
<1>3. taken' = Append(taken, h)
  BY DEF Dequeue
<1>4. taken' \in Seq(Entry) /\ ToSet(taken') = ToSet(taken) \cup {h}
  <2> HIDE DEF h
  <2> QED BY <1>0, <1>1, <1>3, ToSetAppend
<1>5. taken' \o t = Entered
  BY <1>0, <1>3, ConcatMove DEF Entered
<1>6. CASE reader = "wait"
  <2>1. queue' = t \o <<InHand>> /\ reader' = "poll"
    BY <1>6 DEF Dequeue
  <2> HIDE DEF h, t
  <2>2. InHand \in Entry /\ InHand.from = "topic" /\ InHand.at = position /\ position > 0
    BY <1>0, <1>6 DEF InHand, Entry, SourcesTyped, HasHand
  <2>3. queue' = Append(t, InHand)
    BY <1>1, <2>1, <2>2, AppendIsConcat
  <2>4. /\ queue' \in Seq(Entry) /\ Len(queue') = Len(t) + 1
        /\ ToSet(queue') = ToSet(t) \cup {InHand}
    BY <1>1, <2>2, <2>3, ToSetAppend
  <2>5. Len(queue') <= QueueCap
    BY <1>0, <1>1, <2>4, ServiceAssumption DEF SourcesTyped
  <2>6. SourcesTyped'
    BY <1>0, <1>4, <2>1, <2>4, <2>5 DEF SourcesTyped, HasHand
  <2>7. AllKnown'
    <3>1. \A x \in ToSet(queue) \cup ToSet(taken) : Known(x)
      BY <1>0 DEF AllKnown
    <3>2. Known(InHand)
      BY <1>0, <2>2 DEF Known
    <3>3. ToSet(queue') \cup ToSet(taken') \subseteq ToSet(queue) \cup ToSet(taken) \cup {InHand}
      BY <1>2, <1>4, <2>4
    <3>4. \A x \in ToSet(queue') \cup ToSet(taken') : Known(x)
      BY <3>1, <3>2, <3>3
    <3> QED BY <3>4 DEF AllKnown, Known
  <2>8. Entered' = Append(Entered, InHand)
    <3>1. taken' \o Append(t, InHand) = Append(taken' \o t, InHand)
      BY <1>1, <1>4, <2>2, ConcatAppend
    <3> QED BY <1>5, <2>3, <3>1, Zenon DEF Entered
  <2>9. HasHand
    BY <1>6 DEF HasHand
  <2>10. TopicEntered' /\ StreamOrdersInOrder'
    BY <2>1, <2>8, <2>9, HandEnters
  <2> QED BY <2>6, <2>7, <2>10 DEF SourcesInv
<1>7. CASE reader # "wait"
  <2>1. queue' = t \o <<>> /\ reader' = reader
    BY <1>7 DEF Dequeue
  <2> HIDE DEF h, t
  <2>2. queue' = t
    BY <1>1, <2>1, ConcatEmptySeq
  <2>3. Len(queue') <= QueueCap
    BY <1>0, <1>1, <2>2, ServiceAssumption DEF SourcesTyped
  <2>4. SourcesTyped'
    BY <1>0, <1>1, <1>4, <2>1, <2>2, <2>3 DEF SourcesTyped, HasHand
  <2>5. AllKnown'
    BY <1>0, <1>2, <1>4, <2>2 DEF AllKnown, Known
  <2>6. Entered' = Entered /\ Behind' = Behind
    BY <1>5, <2>1, <2>2 DEF Entered, Behind, HasHand
  <2>7. TopicEntered' /\ StreamOrdersInOrder'
    BY <2>1, <2>6, NothingEnters
  <2> QED BY <2>4, <2>5, <2>7 DEF SourcesInv
<1> QED BY <1>6, <1>7

\* Nothing is on its way: at the start, and when the process is gone.
LEMMA EmptySources ==
  ASSUME queue' = <<>>, taken' = <<>>, streamed' = <<>>, dropped' = {}, answered' = FALSE,
         reader' = "poll", position' = committed', committed' \in 0 .. Len(topic'),
         topic' \in Seq(Orders)
  PROVE  SourcesInv'
<1>1. /\ <<>> \in Seq(Entry) /\ <<>> \in Seq(Orders) /\ Len(<<>>) = 0 /\ ToSet(<<>>) = {}
  BY EmptySeq DEF ToSet
<1>2. committed' \in Nat /\ committed' <= Len(topic') /\ Len(topic') \in Nat
  BY LenProperties
<1>3. SourcesTyped'
  <2>1. Len(queue') <= QueueCap /\ committed' \in 0 .. position' /\ position' \in 0 .. Len(topic')
    BY <1>1, <1>2, ServiceAssumption
  <2>2. dropped' \subseteq 1 .. Len(streamed') /\ answered' \in BOOLEAN
    BY <1>1
  <2> QED BY <1>1, <2>1, <2>2 DEF SourcesTyped, HasHand
<1>4. AllKnown'
  BY <1>1 DEF AllKnown
<1>5. Entered' = <<>>
  BY <1>1, ConcatEmptySeq DEF Entered
<1>6. GoUp(<<>>, "topic") /\ GoUp(<<>>, "stream")
      /\ Places(<<>>, "topic") = {} /\ Places(<<>>, "stream") = {}
  BY <1>1 DEF GoUp, Places
<1>7. TopicEntered'
  <2>1. \A c \in Nat : \E first \in 1 .. c + 1 : {} = first .. c
    <3> TAKE c \in Nat
    <3>1. c + 1 \in 1 .. c + 1 /\ {} = c + 1 .. c
      OBVIOUS
    <3> QED BY <3>1
  <2>2. Behind' = committed'
    BY DEF Behind, HasHand
  <2>3. \E first \in 1 .. Behind' + 1 : Places(Entered', "topic") = first .. Behind'
    <3>1. \E first \in 1 .. committed' + 1 : {} = first .. committed'
      BY <1>2, <2>1
    <3>2. Places(Entered', "topic") = {}
      BY <1>5, <1>6
    <3> QED BY <2>2, <3>1, <3>2
  <2> QED BY <1>5, <1>6, <2>3 DEF TopicEntered
<1>8. StreamOrdersInOrder'
  <2>1. (1 .. Len(streamed')) \ dropped' = {}
    BY <1>1
  <2> QED BY <1>5, <1>6, <2>1 DEF StreamOrdersInOrder, Entered
<1> QED BY <1>3, <1>4, <1>7, <1>8 DEF SourcesInv

\* A step of another part.
LEMMA SourcesStay ==
  ASSUME SourcesInv, UNCHANGED <<kafkaVars, streamVars, queue, taken>>
  PROVE  SourcesInv'
<1>1. SourcesTyped'
  BY DEF SourcesInv, SourcesTyped, HasHand
<1>2. AllKnown'
  BY DEF SourcesInv, AllKnown, Known
<1>3. TopicEntered'
  BY DEF SourcesInv, TopicEntered, Entered, Behind, HasHand
<1>4. StreamOrdersInOrder'
  BY DEF SourcesInv, StreamOrdersInOrder
<1> QED BY <1>1, <1>2, <1>3, <1>4 DEF SourcesInv

\* Every step keeps the order of the sources.
LEMMA SourcesKeep ==
  ASSUME SourcesInv, [Next]_vars
  PROVE  SourcesInv'
<1>1. CASE Submit \/ AutoCommit \/ Fetch \/ ReaderEnds \/ StreamEnds
  BY <1>1, TopicKeeps
<1>2. CASE Offer
  BY <1>2, PutKeeps DEF Offer
<1>3. CASE Write
  BY <1>3, PutKeeps DEF Write
<1>4. CASE StreamOrder
  BY <1>4, StreamKeeps
<1>5. CASE Take
  BY <1>5, DequeueKeeps DEF Take
<1>6. CASE Exit \/ Crash
  <2>1. Gone
    BY <1>6 DEF Exit, Crash
  <2>2. committed \in 0 .. Len(topic) /\ topic \in Seq(Orders)
    <3>1. Len(topic) \in Nat /\ topic \in Seq(Orders)
      BY LenProperties DEF SourcesInv, SourcesTyped
    <3> QED BY <3>1 DEF SourcesInv, SourcesTyped
  <2> QED BY <2>1, <2>2, EmptySources DEF Gone
<1>7. CASE \/ WakeUp \/ EngineEnds \/ Drained \/ OrderDone \/ CallBack \/ Publish \/ PublishFails
           \/ Deliver \/ Expire \/ SendAgain \/ CancelReader \/ CancelEngine \/ Start
  BY <1>7, SourcesStay DEF WakeUp, EngineEnds, Drained, OrderDone, CallBack, Publish, PublishFails,
     Deliver, Expire, SendAgain, CancelReader, CancelEngine, Start
<1>8. CASE UNCHANGED vars
  BY <1>8, SourcesStay DEF vars
<1> QED BY <1>1, <1>2, <1>3, <1>4, <1>5, <1>6, <1>7, <1>8 DEF Next, ReaderStep, EngineStep

-----------------------------------------------------------------------------
(* The best prices and the first maker.                                      *)

\* A set of naturals that is not empty has a least element.
LEMMA LeastExists ==
  ASSUME NEW S \in SUBSET Nat, S # {}
  PROVE  \E x \in S : \A y \in S : x <= y
<1> DEFINE R == OpToRel(<, Nat)
<1>1. \E x \in S : \A y \in S : ~(<<y, x>> \in R)
  BY NatLessThanWellFounded, WFMin
<1>2. \A x, y \in Nat : y < x => <<y, x>> \in R
  BY DEF OpToRel
<1> HIDE DEF R
<1>3. PICK x \in S : \A y \in S : ~(<<y, x>> \in R)
  BY <1>1
<1>4. \A y \in S : ~(y < x)
  BY <1>2, <1>3
<1>5. \A y \in S : x <= y
  <2> TAKE y \in S
  <2> x \in Nat /\ y \in Nat
    OBVIOUS
  <2> QED BY <1>4
<1> QED BY <1>5

\* A set of naturals below a bound that is not empty has a greatest element.
LEMMA GreatestExists ==
  ASSUME NEW N \in Nat, NEW S \in SUBSET (0 .. N), S # {}
  PROVE  \E x \in S : \A y \in S : x >= y
<1> DEFINE T == {N - x : x \in S}
<1>0. \A x \in S : x \in 0 .. N /\ N - x \in Nat
  OBVIOUS
<1>1. T \subseteq Nat /\ T # {}
  BY <1>0
<1>2. PICK t \in T : \A u \in T : t <= u
  BY <1>1, LeastExists
<1>3. PICK x \in S : t = N - x
  BY <1>2
<1>4. \A y \in S : x >= y
  <2> TAKE y \in S
  <2>1. t <= N - y
    BY <1>2
  <2>2. x \in 0 .. N /\ y \in 0 .. N
    BY <1>0
  <2> HIDE DEF T
  <2> QED BY <1>3, <2>1, <2>2
<1> QED BY <1>4

\* Levels are not below the band, and an order priced in the band has its own.
LEMMA LevelIs ==
  ASSUME NEW p \in Int
  PROVE  /\ Book!LevelPrice(p) \in Nat /\ MinPrice <= Book!LevelPrice(p)
         /\ p \in Band => Book!LevelPrice(p) = p
<1> DEFINE d == p - MinPrice
<1>0. IndexModulus \in Nat \ {0} /\ MinPrice \in Nat /\ MaxPrice \in Nat /\ d \in Int
      /\ MaxPrice - MinPrice < IndexModulus
  BY OrdersAssumption
<1>1. Book!LevelPrice(p) = MinPrice + (d % IndexModulus)
  BY DEF Book!LevelPrice
<1>2. p \in Band => d \in Nat /\ d < IndexModulus /\ MinPrice + d = p
  BY <1>0 DEF Band
<1> HIDE DEF d
<1>3. d % IndexModulus \in Nat
  BY <1>0, SMTT(30)
<1>4. ASSUME d \in Nat, d < IndexModulus PROVE d % IndexModulus = d
  <2>1. d \div IndexModulus = 0
    BY <1>0, <1>4, SMTT(30)
  <2> QED BY <1>0, <1>4, <2>1, SMTT(30)
<1> DEFINE e == d % IndexModulus
<1>5. e \in Nat /\ Book!LevelPrice(p) = MinPrice + e /\ (p \in Band => e = d)
  BY <1>1, <1>2, <1>3, <1>4
<1> HIDE DEF e
<1> QED BY <1>0, <1>2, <1>5

\* The market price of a side, where it has orders.
LEMMA BestPrices ==
  ASSUME BookTyped
  PROVE  /\ \A m \in resting : m.side = "buy" =>
              BestBid \in Band /\ Book!LevelPrice(m.price) <= BestBid /\ BestBid # -1
         /\ \A m \in resting : m.side = "sell" =>
              BestAsk \in Band /\ BestAsk <= Book!LevelPrice(m.price) /\ BestAsk # -1
         /\ (\A m \in resting : m.side # "buy") => BestBid = -1
         /\ (\A m \in resting : m.side # "sell") => BestAsk = -1
<1> DEFINE bids == LevelsOf("buy")
           asks == LevelsOf("sell")
<1>0. /\ MinPrice \in Nat /\ MaxPrice \in Nat /\ Band \subseteq Nat
      /\ bids \subseteq Band /\ asks \subseteq Band
  BY OrdersAssumption DEF BookTyped, AtLevels, Band, LevelsOf
<1>1. /\ BestBid = IF bids = {} THEN -1 ELSE CHOOSE p \in bids : \A b \in bids : b <= p
      /\ BestAsk = IF asks = {} THEN -1 ELSE CHOOSE p \in asks : \A a \in asks : p <= a
  BY Zenon DEF BestBid, BestAsk
<1>2. /\ \A m \in resting : m.side = "buy" => Book!LevelPrice(m.price) \in bids
      /\ \A m \in resting : m.side = "sell" => Book!LevelPrice(m.price) \in asks
      /\ (\A m \in resting : m.side # "buy") => bids = {}
      /\ (\A m \in resting : m.side # "sell") => asks = {}
  BY DEF LevelsOf
<1> HIDE DEF bids, asks
<1>3. bids # {} => BestBid \in bids /\ \A b \in bids : b <= BestBid
  <2> SUFFICES ASSUME bids # {} PROVE BestBid \in bids /\ \A b \in bids : b <= BestBid
    OBVIOUS
  <2>1. bids \in SUBSET (0 .. MaxPrice)
    BY <1>0 DEF Band
  <2>2. \E p \in bids : \A b \in bids : p >= b
    BY <1>0, <2>1, GreatestExists
  <2>3. \E p \in bids : \A b \in bids : b <= p
    BY <1>0, <2>1, <2>2
  <2> QED BY <1>1, <2>3, Zenon
<1>4. asks # {} => BestAsk \in asks /\ \A a \in asks : BestAsk <= a
  <2> SUFFICES ASSUME asks # {} PROVE BestAsk \in asks /\ \A a \in asks : BestAsk <= a
    OBVIOUS
  <2>1. \E p \in asks : \A a \in asks : p <= a
    BY <1>0, LeastExists
  <2> QED BY <1>1, <2>1, Zenon
<1>5. \A n \in Band : n # -1
  BY <1>0
<1> QED BY <1>0, <1>1, <1>2, <1>3, <1>4, <1>5

\* The market price of an order of the band is in the band, and on the near side of
\* every order it could trade with.
LEMMA MarketPriceIs ==
  ASSUME BookTyped, NEW o \in Orders, o.price \in Band
  PROVE  MarketPrice(o) \in Band /\ Beyond(resting, o.side, MarketPrice(o))
<1>0. o.side \in {"buy", "sell"} /\ \A m \in resting : m.side \in {"buy", "sell"}
  BY OrdersAssumption DEF BookTyped, RestingOrder
<1>1. CASE o.side = "buy"
  <2>1. MarketPrice(o) = IF BestAsk = -1 THEN o.price ELSE BestAsk
    BY <1>1 DEF MarketPrice
  <2>2. CASE \E m \in resting : m.side = "sell"
    BY <1>0, <1>1, <2>1, <2>2, BestPrices DEF Beyond
  <2>3. CASE ~ \E m \in resting : m.side = "sell"
    BY <1>0, <1>1, <2>1, <2>3, BestPrices DEF Beyond
  <2> QED BY <2>2, <2>3
<1>2. CASE o.side = "sell"
  <2>1. MarketPrice(o) = IF BestBid = -1 THEN o.price ELSE BestBid
    BY <1>2 DEF MarketPrice
  <2>2. CASE \E m \in resting : m.side = "buy"
    BY <1>0, <1>2, <2>1, <2>2, BestPrices DEF Beyond
  <2>3. CASE ~ \E m \in resting : m.side = "buy"
    BY <1>0, <1>2, <2>1, <2>3, BestPrices DEF Beyond
  <2> QED BY <2>2, <2>3
<1> QED BY <1>0, <1>1, <1>2

\* If the order in hand can trade, one of the book's orders goes before all others
\* it could trade with.
LEMMA MakerIs ==
  ASSUME BookTyped, BookIds, Book!Crossing # {}
  PROVE  /\ Book!Maker \in Book!Crossing /\ Book!Maker \in resting
         /\ Book!Maker.side # taker.side
<1> DEFINE C == Book!Crossing
           L(m) == Book!LevelPrice(m.price)
           Priority(m) == \A o \in C \ {m} : Book!GoesBefore(m, o)
<1>0. /\ C \subseteq resting /\ \A m \in C : m.side # taker.side
      /\ \A m \in C : m.side \in {"buy", "sell"} /\ L(m) \in 0 .. MaxPrice /\ m.id \in Nat
      /\ taker.side \in {"buy", "sell"} /\ MaxPrice \in Nat
      /\ \A m, o \in C : m.id = o.id => m = o
  BY OrdersAssumption DEF BookTyped, AtLevels, RestingOrder, BookIds, Book!Crossing, Band
<1>c. C # {}
  OBVIOUS
<1>g. \A m, o \in C : Book!GoesBefore(m, o)
                         <=> \/ IF m.side = "sell" THEN L(m) < L(o) ELSE L(m) > L(o)
                             \/ L(m) = L(o) /\ m.id < o.id
  BY DEF Book!GoesBefore
<1> HIDE DEF C, L
<1>1. \E p \in 0 .. MaxPrice : /\ \E m \in C : L(m) = p
                               /\ \A o \in C : L(o) = p
                                    \/ IF taker.side = "buy" THEN p < L(o) ELSE p > L(o)
  <2> DEFINE P == {L(m) : m \in C}
  <2>1. P # {} /\ P \in SUBSET (0 .. MaxPrice) /\ P \in SUBSET Nat
    BY <1>0, <1>c
  <2>2. \A o \in C : L(o) \in P
    OBVIOUS
  <2>p. \A p \in P : p \in 0 .. MaxPrice /\ \E m \in C : L(m) = p
    BY <1>0
  <2> HIDE DEF P
  <2>3. CASE taker.side = "buy"
    <3>1. PICK p \in P : \A q \in P : p <= q
      BY <2>1, LeastExists
    <3>2. \A o \in C : L(o) = p \/ p < L(o)
      BY <1>0, <2>2, <2>p, <3>1
    <3> QED BY <2>3, <2>p, <3>2
  <2>4. CASE taker.side # "buy"
    <3>1. PICK p \in P : \A q \in P : p >= q
      BY <1>0, <2>1, GreatestExists
    <3>2. \A o \in C : L(o) = p \/ p > L(o)
      BY <1>0, <2>2, <2>p, <3>1
    <3> QED BY <2>4, <2>p, <3>2
  <2> QED BY <2>3, <2>4
<1>2. PICK p \in 0 .. MaxPrice :
        /\ \E m \in C : L(m) = p
        /\ \A o \in C : L(o) = p
             \/ IF taker.side = "buy" THEN p < L(o) ELSE p > L(o)
  BY <1>1
<1>3. PICK m \in C : L(m) = p /\ \A o \in C : L(o) = p => m.id <= o.id
  <2> DEFINE I == {o.id : o \in {x \in C : L(x) = p}}
  <2>1. I # {} /\ I \in SUBSET Nat
    BY <1>0, <1>2
  <2>2. PICK n \in I : \A k \in I : n <= k
    BY <2>1, LeastExists
  <2> QED BY <2>2
<1>4. Priority(m)
  <2> SUFFICES ASSUME NEW o \in C, o # m PROVE Book!GoesBefore(m, o)
    OBVIOUS
  <2>1. CASE L(o) = p
    <3>1. m.id <= o.id /\ m.id # o.id /\ m.id \in Nat /\ o.id \in Nat
      BY <1>0, <1>3, <2>1
    <3> QED BY <1>g, <1>3, <2>1, <3>1
  <2>2. CASE L(o) # p
    <3>1. IF taker.side = "buy" THEN p < L(o) ELSE p > L(o)
      BY <1>2, <2>2
    <3>2. m.side = "sell" <=> taker.side = "buy"
      BY <1>0
    <3> QED BY <1>g, <1>3, <3>1, <3>2
  <2> QED BY <2>1, <2>2
<1>5. Book!Maker = CHOOSE x \in C : Priority(x)
  BY Zenon DEF Book!Maker, C
<1> HIDE DEF Priority
<1>6. Book!Maker \in C
  BY <1>4, <1>5, Zenon
<1> QED BY <1>0, <1>6 DEF C

-----------------------------------------------------------------------------
(* The matching loop and its book.                                           *)

\* A smaller quantity has no greater notional value.
LEMMA SmallerNotional ==
  ASSUME NEW p \in Nat, NEW P \in Nat, NEW a \in Nat, NEW b \in Nat, p <= P, a <= b
  PROVE  p * a <= P * b
<1>1. p * a <= P * a
  OBVIOUS
<1>2. P * a <= P * b
  OBVIOUS
<1>3. p * a \in Nat /\ P * a \in Nat /\ P * b \in Nat
  OBVIOUS
<1> QED BY <1>1, <1>2, <1>3

\* What is left of an admitted order is admitted.
LEMMA AdmittedLess ==
  ASSUME NEW p, NEW a \in Nat, NEW b \in Nat, a <= b, Admitted(p, b)
  PROVE  Admitted(p, a)
<1>1. a <= MaxOrderQuantity
  BY RiskAssumption DEF Admitted
<1>2. ASSUME p \in Band PROVE p * a <= MaxNotionalValue
  <2>1. p \in Nat /\ p * b <= MaxNotionalValue
    BY <1>2, OrdersAssumption DEF Admitted, Band
  <2>2. p * a <= p * b
    BY <2>1, SmallerNotional
  <2>3. p * a \in Nat /\ p * b \in Nat
    BY <2>1
  <2> QED BY <2>1, <2>2, <2>3, RiskAssumption
<1> QED BY <1>1, <1>2 DEF Admitted

\* What a trade takes from the maker and from the taker.
LEMMA FillIs ==
  ASSUME BookTyped, BookIds, taker.qty > 0, Book!Crossing # {}
  PROVE  /\ Book!Maker \in resting /\ Book!Maker.side # taker.side
         /\ Book!Maker.id \in Nat /\ Book!LevelPrice(Book!Maker.price) \in Band
         /\ Book!Maker.qty \in Nat \ {0}
         /\ IF taker.side = "buy" THEN Book!LevelPrice(Book!Maker.price) <= taker.price
                                  ELSE taker.price <= Book!LevelPrice(Book!Maker.price)
         /\ Book!Fill \in Nat \ {0}
         /\ Book!Fill <= Book!Maker.qty /\ Book!Fill <= taker.qty
         /\ Book!Fill = Book!Maker.qty \/ Book!Fill = taker.qty
<1>1. Book!Maker \in Book!Crossing /\ Book!Maker \in resting /\ Book!Maker.side # taker.side
  BY MakerIs
<1>2. /\ Book!Maker.id \in Nat /\ Book!LevelPrice(Book!Maker.price) \in Band
      /\ Book!Maker.qty \in Nat \ {0} /\ taker.qty \in Int /\ taker.price \in Int
  BY <1>1, RiskAssumption DEF BookTyped, AtLevels, RestingOrder, Long
<1>3. IF taker.side = "buy" THEN Book!LevelPrice(Book!Maker.price) <= taker.price
                            ELSE taker.price <= Book!LevelPrice(Book!Maker.price)
  <2>1. \A m \in Book!Crossing : IF taker.side = "buy"
                                THEN Book!LevelPrice(m.price) <= taker.price
                                ELSE Book!LevelPrice(m.price) >= taker.price
    BY DEF Book!Crossing
  <2>2. Book!LevelPrice(Book!Maker.price) \in Int
    BY <1>2, OrdersAssumption DEF Band
  <2> QED BY <1>1, <1>2, <2>1, <2>2
<1>4. Book!Fill = IF taker.qty <= Book!Maker.qty THEN taker.qty ELSE Book!Maker.qty
  BY DEF Book!Fill
<1> QED BY <1>1, <1>2, <1>3, <1>4

\* The order at the head of the channel is one of the orders.
LEMMA HeadIsOrder ==
  ASSUME SourcesInv, queue # <<>>
  PROVE  /\ Body(Head(queue)) \in Orders
         /\ Body(Head(queue)).side \in {"buy", "sell"}
         /\ Body(Head(queue)).price \in Long /\ Body(Head(queue)).qty \in Long
<1> DEFINE h == Head(queue)
<1>1. queue \in Seq(Entry)
  BY DEF SourcesInv, SourcesTyped
<1>2. h = queue[1] /\ 1 \in 1 .. Len(queue)
  BY <1>1, EmptySeq
<1>3. h \in ToSet(queue)
  BY <1>1, <1>2, ToSetIs
<1>4. Known(h)
  BY <1>3 DEF SourcesInv, AllKnown
<1>5. topic \in Seq(Orders) /\ streamed \in Seq(Orders) /\ position \in 0 .. Len(topic)
      /\ Len(topic) \in Nat
  BY LenProperties DEF SourcesInv, SourcesTyped
<1> HIDE DEF h
<1>6. Body(h) \in Orders
  <2>1. CASE h.from = "topic"
    <3>1. h.at \in 1 .. Len(topic)
      BY <1>4, <1>5, <2>1 DEF Known
    <3> QED BY <1>5, <2>1, <3>1, ElementOfSeq DEF Body
  <2>2. CASE h.from # "topic"
    <3>1. h.at \in 1 .. Len(streamed)
      BY <1>4, <2>2 DEF Known
    <3> QED BY <1>5, <2>2, <3>1, ElementOfSeq DEF Body
  <2> QED BY <2>1, <2>2
<1> QED BY <1>6, OrdersAssumption DEF h

\* Whether the book is busy, from where the loop is.
LEMMA BusyIs ==
  ASSUME BookTyped
  PROVE  busy \in BOOLEAN /\ (busy <=> engine \in {"match", "publish"})
<1> DEFINE P == engine \in {"match", "publish"}
<1>1. busy = P
  BY DEF BookTyped
<1>2. P \in BOOLEAN
  OBVIOUS
<1> HIDE DEF P
<1>3. busy \in BOOLEAN /\ (busy <=> P)
  BY <1>1, <1>2, Zenon
<1> QED BY <1>3 DEF P

\* The book's types, of a loop that is not in the callback.
LEMMA BookTypedIs ==
  ASSUME resting' \subseteq RestingOrder, AtLevels(resting'),
         taker' \in [id : Nat, side : {"buy", "sell"}, price : Long, original : Long,
                     qty : Int],
         \/ busy' = TRUE /\ engine' = "match"
         \/ busy' = FALSE /\ engine' \in {"wait", "drain", "faulted", "ended"}
  PROVE  BookTyped'
<1>1. /\ engine' \in {"wait", "drain", "match", "publish", "faulted", "ended"}
      /\ engine' # "publish"
  OBVIOUS
<1>2. busy' = (engine' \in {"match", "publish"})
  <2>1. CASE busy' = TRUE /\ engine' = "match"
    BY <2>1, Zenon
  <2>2. CASE busy' = FALSE /\ engine' \in {"wait", "drain", "faulted", "ended"}
    <3>1. ~(engine' \in {"match", "publish"})
      BY <2>2
    <3> DEFINE P == engine' \in {"match", "publish"}
    <3>2. P \in BOOLEAN /\ ~P
      BY <3>1
    <3> HIDE DEF P
    <3>3. P = FALSE
      BY <3>2, Zenon
    <3>4. busy' = P
      BY <2>2, <3>3, Zenon
    <3> QED BY <3>4 DEF P
  <2> QED BY <2>1, <2>2
<1>3. AtLevels(resting)'
  BY DEF AtLevels
<1> QED BY <1>1, <1>2, <1>3, Zenon DEF BookTyped, RestingOrder

\* A step that leaves the book and its trades alone.
LEMMA BookStays ==
  ASSUME BookInv, UNCHANGED <<bookVars, market, made>>,
         count'.starts = count.starts \/ (made = <<>> /\ count'.starts \in Nat),
         engine' \in {"wait", "drain", "match", "publish", "faulted", "ended"},
         busy = (engine' \in {"match", "publish"}),
         engine' = "publish" => taker.qty > 0 /\ Book!Crossing # {}
  PROVE  BookInv'
<1>1. BookTyped'
  BY DEF BookInv, BookTyped, AtLevels, Book!Crossing
<1>2. BookIds'
  BY DEF BookInv, BookIds
<1>3. BookWithin'
  BY DEF BookInv, BookWithin, AllAdmitted, Beyond
<1>4. TradesMade'
  <2>1. made = <<>> => ToSet(made) = {}
    BY DEF ToSet
  <2> QED BY <2>1 DEF BookInv, TradesMade
<1> QED BY <1>1, <1>2, <1>3, <1>4 DEF BookInv

\* An order is checked and accepted, or not.
LEMMA BookTakes ==
  ASSUME SourcesInv, BookInv, Take
  PROVE  BookInv'
<1> DEFINE o == Body(Head(queue))
           verdict == ValidateOrder(o.price, o.qty, MarketPrice(o))
<1>1. /\ o \in Orders /\ o.side \in {"buy", "sell"} /\ o.price \in Long /\ o.qty \in Long
  BY HeadIsOrder DEF Take, Dequeue
<1>2. engine = "drain" /\ ~busy /\ made' = made /\ count' = count /\ busy \in BOOLEAN
  <2>1. engine = "drain" /\ made' = made /\ count' = count
    BY DEF Take
  <2>2. busy \in BOOLEAN /\ ~busy
    BY <2>1, BusyIs DEF BookInv
  <2> QED BY <2>1, <2>2
<1>3. \/ /\ verdict = "Passed"
         /\ market' = MarketPrice(o)
         /\ Book!Accept(o.side, o.price, o.qty)
         /\ engine' = IF busy' THEN "match" ELSE "drain"
      \/ /\ engine' \in {"drain", "faulted"}
         /\ UNCHANGED <<market, bookVars>>
  BY <1>2 DEF Take
<1>4. ASSUME /\ verdict = "Passed"
             /\ market' = MarketPrice(o)
             /\ Book!Accept(o.side, o.price, o.qty)
             /\ engine' = IF busy' THEN "match" ELSE "drain"
      PROVE  BookInv'
  <2> HIDE DEF o
  <2>1. /\ taker' = [id |-> taker.id + 1, side |-> o.side, price |-> o.price,
                     original |-> o.qty, qty |-> o.qty]
        /\ busy' = (Book!LevelPrice(o.price) <= MaxPrice) /\ resting' = resting
    BY <1>4 DEF Book!Accept
  <2>2. taker.id \in Nat /\ o.qty \in Int
    BY <1>1, RiskAssumption DEF BookInv, BookTyped, Long
  <2>3. BookTyped'
    <3>1. taker' \in [id : Nat, side : {"buy", "sell"}, price : Long, original : Long,
                      qty : Int]
      BY <1>1, <2>1, <2>2
    <3>2. busy' \in BOOLEAN /\ engine' = IF busy' THEN "match" ELSE "drain"
      <4>1. (Book!LevelPrice(o.price) <= MaxPrice) \in BOOLEAN
        OBVIOUS
      <4>2. busy' \in BOOLEAN
        BY <2>1, <4>1, Zenon
      <4> QED BY <1>4, <4>2
    <3>3. \/ busy' = TRUE /\ engine' = "match"
          \/ busy' = FALSE /\ engine' = "drain"
      BY <3>2
    <3>4. resting' \subseteq RestingOrder /\ AtLevels(resting')
      BY <2>1 DEF BookInv, BookTyped
    <3> QED BY <3>1, <3>3, <3>4, BookTypedIs
  <2>4. BookIds'
    <3>1. \A m \in resting : m.id \in Nat /\ m.id <= taker.id
      BY DEF BookInv, BookTyped, RestingOrder, BookIds
    <3>2. \A m \in resting : m.id <= taker.id + 1 /\ m.id # taker.id + 1
      BY <2>2, <3>1
    <3> QED BY <2>1, <3>2 DEF BookInv, BookIds
  <2>5. BookWithin'
    <3>1. AllAdmitted(resting)'
      BY <2>1 DEF BookInv, BookWithin, AllAdmitted
    <3>2. taker'.price = o.price /\ taker'.qty = o.qty /\ taker'.side = o.side
      BY <2>1
    <3>3. o.qty <= MaxOrderQuantity
      BY <1>1, <1>4, PassedQuantity
    <3>4. busy' => Book!LevelPrice(o.price) \in Band
      <4>1. /\ Book!LevelPrice(o.price) \in Nat /\ MinPrice <= Book!LevelPrice(o.price)
        BY <1>1, LevelIs, RiskAssumption DEF Long
      <4>2. busy' => Book!LevelPrice(o.price) <= MaxPrice
        BY <2>1
      <4> QED BY <4>1, <4>2, OrdersAssumption DEF Band
    <3>5. ASSUME o.price \in Band
          PROVE  /\ MarketPrice(o) \in Band /\ Beyond(resting, o.side, MarketPrice(o))
                 /\ Abs(o.price - MarketPrice(o)) <= MaxPriceDeviation
                 /\ o.price * o.qty <= MaxNotionalValue
      <4>1. MarketPrice(o) \in Band /\ Beyond(resting, o.side, MarketPrice(o))
        BY <1>1, <3>5, MarketPriceIs DEF BookInv
      <4>2. WithinLimits(o.price, o.qty, MarketPrice(o))
        <5>1. /\ MaxPrice \in Nat /\ MaxPrice < Half /\ MaxPrice * MaxOrderQuantity < Half
              /\ o.price \in 0 .. MaxPrice /\ MarketPrice(o) \in 0 .. MaxPrice
          BY <3>5, <4>1, OrdersAssumption DEF Band
        <5> QED BY <1>1, <1>4, <5>1, PassedIsWithin
      <4> QED BY <4>1, <4>2 DEF WithinLimits
    <3>6. taker'.price \in Band => /\ market' \in Band
                                  /\ Abs(taker'.price - market') <= MaxPriceDeviation
                                  /\ Beyond(resting', taker'.side, market')
      BY <1>4, <2>1, <3>2, <3>5
    <3>7. busy' => Book!LevelPrice(taker'.price) \in Band /\ Admitted(taker'.price, taker'.qty)
      BY <3>2, <3>3, <3>4, <3>5 DEF Admitted
    <3>8. Beyond(resting', taker'.side, market') => Beyond(resting, taker.side, market)'
      BY DEF Beyond
    <3>9. Admitted(taker'.price, taker'.qty) => Admitted(taker.price, taker.qty)'
      BY DEF Admitted
    <3> QED BY <3>1, <3>6, <3>7, <3>8, <3>9 DEF BookWithin
  <2>6. TradesMade'
    <3>0. ToSet(made) \subseteq TradeRecord
      BY ToSetIs DEF BookInv, TradesMade
    <3>1. \A t \in ToSet(made) : t.taker \in Nat /\ t.taker <= taker.id
      BY <3>0 DEF BookInv, TradesMade, TradeRecord
    <3>2. taker'.id = taker.id + 1 /\ \A t \in ToSet(made) : t.taker <= taker.id + 1 /\ t.taker # taker.id + 1
      BY <2>1, <2>2, <3>1
    <3> QED BY <1>2, <3>2 DEF BookInv, TradesMade
  <2> QED BY <2>3, <2>4, <2>5, <2>6 DEF BookInv
<1>5. ASSUME engine' \in {"drain", "faulted"}, UNCHANGED <<market, bookVars>>
      PROVE  BookInv'
  BY <1>2, <1>5, BookStays
<1> QED BY <1>3, <1>4, <1>5

\* A trade: the quantities go down and its maker may go.
LEMMA BookTrades ==
  ASSUME BookInv, Publish
  PROVE  BookInv' /\ made' = Append(made, Trade) /\ Trade \in TradeRecord
<1> DEFINE m == Book!Maker
           f == Book!Fill
           l == Book!LevelPrice(m.price)
           r == [m EXCEPT !.qty = @ - f]
<1>1. taker.qty > 0 /\ Book!Crossing # {} /\ busy /\ count' = count /\ market' = market
      /\ engine' = "match" /\ busy' = busy /\ made' = Append(made, Trade)
  BY DEF Publish, Book!Match
<1>2. /\ taker' = [taker EXCEPT !.qty = @ - f]
      /\ resting' = (resting \ {m}) \cup (IF f = m.qty THEN {} ELSE {r})
  BY DEF Publish, Book!Match
<1>3. /\ m \in resting /\ m.side # taker.side /\ m.id \in Nat
      /\ Book!LevelPrice(m.price) \in Band
      /\ m.qty \in Nat \ {0} /\ f \in Nat \ {0} /\ f <= m.qty /\ f <= taker.qty
      /\ f = m.qty \/ f = taker.qty
      /\ m \in RestingOrder
  BY <1>1, FillIs DEF BookInv, BookTyped
<1>4. /\ taker \in [id : Nat, side : {"buy", "sell"}, price : Long, original : Long,
                    qty : Int]
      /\ Band \subseteq Nat
  BY OrdersAssumption DEF BookInv, BookTyped, Band
<1>5. /\ Trade = [life |-> count.starts, maker |-> m.id, taker |-> taker.id,
                  price |-> l, qty |-> f]
      /\ Trade \in TradeRecord
  <2>1. Trade = [life |-> count.starts, maker |-> m.id, taker |-> taker.id,
                 price |-> l, qty |-> f]
    BY DEF Trade
  <2> HIDE DEF m, f
  <2>2. /\ count.starts \in Nat /\ m.id \in Nat /\ taker.id \in Nat
        /\ l \in Int /\ f \in Int
    <3>1. l \in Int /\ f \in Int
      <4>1. l \in Band /\ Band \subseteq Int
        BY <1>3, OrdersAssumption DEF Band
      <4>2. f \in Int
        BY <1>3
      <4>3. l \in Int
        BY <4>1, Zenon
      <4> QED BY <4>2, <4>3, Zenon
    <3> QED BY <1>3, <1>4, <3>1 DEF BookInv, TradesMade
  <2> QED BY <2>1, <2>2 DEF TradeRecord
<1> HIDE DEF m, f
<1>6. /\ taker'.id = taker.id /\ taker'.side = taker.side /\ taker'.price = taker.price
      /\ taker'.qty = taker.qty - f /\ taker'.qty \in Nat
      /\ taker' \in [id : Nat, side : {"buy", "sell"}, price : Long, original : Long,
                     qty : Int]
  BY <1>2, <1>3, <1>4
<1>7. ASSUME f # m.qty
      PROVE  /\ r \in RestingOrder
             /\ r.id = m.id /\ r.side = m.side /\ r.price = m.price /\ r.qty <= m.qty
  BY <1>3, <1>7 DEF RestingOrder
<1> HIDE DEF r
<1>8. \A x \in resting' : \/ x \in resting /\ x # m
                          \/ f # m.qty /\ x = r
  BY <1>2
<1>9. BookTyped'
  <2>2. busy' = TRUE
    BY <1>1, BusyIs DEF BookInv
  <2>1. resting' \subseteq RestingOrder /\ AtLevels(resting')
    BY <1>3, <1>7, <1>8 DEF BookInv, BookTyped, AtLevels
  <2> QED BY <1>1, <1>6, <2>1, <2>2, BookTypedIs
<1>10. BookIds'
  <2>1. \A x \in resting' : \E y \in resting : x.id = y.id /\ (y # m => x = y) /\ (y = m => x = r)
    BY <1>3, <1>7, <1>8
  <2>2. \A x \in resting' : x.id <= taker.id /\ x.id # taker.id
    BY <1>1, <2>1 DEF BookInv, BookIds
  <2>3. ASSUME NEW x \in resting', NEW z \in resting', x.id = z.id PROVE x = z
    <3>1. PICK y \in resting : x.id = y.id /\ (y # m => x = y) /\ (y = m => x = r)
      BY <2>1
    <3>2. PICK v \in resting : z.id = v.id /\ (v # m => z = v) /\ (v = m => z = r)
      BY <2>1
    <3>3. y = v
      BY <2>3, <3>1, <3>2 DEF BookInv, BookIds
    <3> QED BY <3>1, <3>2, <3>3
  <2> QED BY <1>6, <2>2, <2>3 DEF BookIds
<1>11. BookWithin'
  <2>0. /\ AllAdmitted(resting)
        /\ Book!LevelPrice(taker.price) \in Band /\ Admitted(taker.price, taker.qty)
        /\ taker.price \in Band => /\ market \in Band
                                  /\ Abs(taker.price - market) <= MaxPriceDeviation
                                  /\ Beyond(resting, taker.side, market)
    BY <1>1 DEF BookInv, BookWithin
  <2>1. ASSUME f # m.qty PROVE Admitted(r.price, r.qty)
    <3>1. r.qty \in Nat /\ m.qty \in Nat /\ r.qty <= m.qty /\ r.price = m.price
      BY <1>3, <1>7, <2>1 DEF RestingOrder
    <3>2. Admitted(m.price, m.qty)
      BY <1>3, <2>0 DEF AllAdmitted
    <3> QED BY <3>1, <3>2, AdmittedLess
  <2>2. AllAdmitted(resting')
    BY <1>8, <2>0, <2>1 DEF AllAdmitted
  <2>3. Admitted(taker'.price, taker'.qty)
    <3>1. taker.qty \in Nat /\ taker'.qty \in Nat /\ taker'.qty <= taker.qty
      <4>1. taker.qty \in Int
        BY <1>4
      <4> QED BY <1>3, <1>6, <4>1
    <3> QED BY <1>6, <2>0, <3>1, AdmittedLess
  <2>4. ASSUME taker.price \in Band PROVE Beyond(resting', taker'.side, market')
    <3>1. \A x \in resting' : \E y \in resting : x.side = y.side /\ x.price = y.price
      BY <1>3, <1>7, <1>8
    <3> QED BY <1>1, <1>6, <2>0, <2>4, <3>1 DEF Beyond
  <2>5. /\ AllAdmitted(resting') => AllAdmitted(resting)'
        /\ Admitted(taker'.price, taker'.qty) => Admitted(taker.price, taker.qty)'
        /\ Beyond(resting', taker'.side, market') => Beyond(resting, taker.side, market)'
    BY DEF AllAdmitted, Admitted, Beyond
  <2> QED BY <1>1, <1>6, <2>0, <2>2, <2>3, <2>4, <2>5 DEF BookWithin
<1>12. TradesMade'
  <2>0. /\ made \in Seq(TradeRecord) /\ count.starts \in Nat
        /\ \A t \in ToSet(made) : t.life = count.starts /\ t.taker <= taker.id
        /\ \A t \in ToSet(made), x \in resting : t.taker = taker.id => t.maker # x.id
        /\ \A i, j \in 1 .. Len(made) : made[i] = made[j] => i = j
    BY <1>1 DEF BookInv, TradesMade
  <2>1. /\ made' \in Seq(TradeRecord) /\ ToSet(made') = ToSet(made) \cup {Trade}
        /\ Len(made') = Len(made) + 1 /\ Len(made) \in Nat
        /\ \A i \in 1 .. Len(made) : made'[i] = made[i]
        /\ made'[Len(made) + 1] = Trade
    BY <1>1, <1>5, <2>0, ToSetAppend, LenProperties
  <2>2. Trade.life = count.starts /\ Trade.taker = taker.id /\ Trade.maker = m.id
    BY <1>5
  <2>3. \A t \in ToSet(made') : t.life = count.starts /\ t.taker <= taker.id
    BY <1>4, <2>0, <2>1, <2>2
  <2>4. ASSUME NEW t \in ToSet(made'), NEW x \in resting', taker'.qty > 0, t.taker = taker.id
        PROVE  t.maker # x.id
    <3>1. f = m.qty
      BY <1>3, <1>4, <1>6, <2>4
    <3>2. x \in resting /\ x # m
      BY <1>8, <3>1
    <3>3. x.id # m.id
      BY <1>3, <3>2 DEF BookInv, BookIds
    <3> QED BY <2>0, <2>1, <2>2, <2>4, <3>2, <3>3
  <2>5. Trade \notin ToSet(made)
    BY <1>3, <2>0, <2>2
  <2>6. ASSUME NEW i \in 1 .. Len(made'), NEW j \in 1 .. Len(made'), made'[i] = made'[j]
        PROVE  i = j
    <3>1. \A k \in 1 .. Len(made) : made[k] \in ToSet(made)
      BY <2>0, ToSetIs
    <3>2. (i \in 1 .. Len(made) \/ i = Len(made) + 1) /\ (j \in 1 .. Len(made) \/ j = Len(made) + 1)
      BY <2>1
    <3> QED BY <2>0, <2>1, <2>5, <2>6, <3>1, <3>2
  <2> QED BY <1>1, <1>6, <2>0, <2>1, <2>3, <2>4, <2>6 DEF TradesMade
<1> QED BY <1>1, <1>5, <1>9, <1>10, <1>11, <1>12 DEF BookInv

\* The book is done with the order: it may rest.
LEMMA BookIsDone ==
  ASSUME BookInv, OrderDone
  PROVE  BookInv'
<1>0. busy /\ busy' = FALSE /\ engine' = "drain" /\ UNCHANGED <<taker, market, made, count>>
  BY DEF OrderDone, Book!Rest, Book!Refuse, Book!Complete
<1>1. CASE resting' = resting
  <2>1. BookTyped'
    <3>1. /\ resting' \subseteq RestingOrder /\ AtLevels(resting')
          /\ taker' \in [id : Nat, side : {"buy", "sell"}, price : Long, original : Long,
                          qty : Int]
      BY <1>0, <1>1 DEF BookInv, BookTyped
    <3> QED BY <1>0, <3>1, BookTypedIs
  <2>2. BookIds'
    BY <1>0, <1>1 DEF BookInv, BookIds
  <2>3. BookWithin'
    BY <1>0, <1>1 DEF BookInv, BookWithin, AllAdmitted
  <2>4. TradesMade'
    BY <1>0, <1>1 DEF BookInv, TradesMade
  <2> QED BY <2>1, <2>2, <2>3, <2>4 DEF BookInv
<1>2. CASE Book!Rest
  <2> DEFINE r == [id |-> taker.id, side |-> taker.side, price |-> taker.price,
                   qty |-> taker.qty]
  <2>1. resting' = resting \cup {r} /\ taker.qty > 0 /\ busy' = FALSE
    BY <1>2 DEF Book!Rest
  <2>2. /\ r \in RestingOrder /\ r.price = taker.price /\ r.qty = taker.qty
    BY <2>1 DEF BookInv, BookTyped, RestingOrder
  <2>3. BookTyped'
    <3>1. /\ resting' \subseteq RestingOrder /\ AtLevels(resting')
          /\ taker' \in [id : Nat, side : {"buy", "sell"}, price : Long, original : Long,
                          qty : Int]
      BY <1>0, <2>1, <2>2 DEF BookInv, BookTyped, BookWithin, AtLevels
    <3> QED BY <1>0, <3>1, BookTypedIs
  <2>4. BookIds'
    <3>1. r.id = taker.id /\ taker.id \in Nat
      BY DEF BookInv, BookTyped
    <3>2. taker.id <= taker.id
      BY <3>1
    <3> HIDE DEF r
    <3> QED BY <1>0, <2>1, <3>1, <3>2 DEF BookInv, BookIds
  <2>5. BookWithin'
    <3>1. AllAdmitted(resting')
      BY <1>0, <2>1, <2>2 DEF BookInv, BookWithin, AllAdmitted
    <3>2. AllAdmitted(resting') => AllAdmitted(resting)'
      BY DEF AllAdmitted
    <3> QED BY <2>1, <3>1, <3>2 DEF BookWithin
  <2>6. TradesMade'
    BY <1>0, <2>1 DEF BookInv, TradesMade
  <2> QED BY <2>3, <2>4, <2>5, <2>6 DEF BookInv
<1> QED BY <1>1, <1>2 DEF OrderDone, Book!Rest, Book!Refuse, Book!Complete

\* The trade is not handed over: the order is dropped with what it has.
LEMMA BookAborts ==
  ASSUME BookInv, PublishFails
  PROVE  BookInv'
<1>0. /\ busy /\ busy' = FALSE /\ engine' = "faulted" /\ UNCHANGED <<taker, resting, market, made>>
      /\ count' = [count EXCEPT !.faults = @ + 1]
  BY DEF PublishFails, Book!Abort
<1>1. BookTyped'
  <2>1. /\ resting' \subseteq RestingOrder /\ AtLevels(resting')
        /\ taker' \in [id : Nat, side : {"buy", "sell"}, price : Long, original : Long,
                        qty : Int]
    BY <1>0 DEF BookInv, BookTyped
  <2> QED BY <1>0, <2>1, BookTypedIs
<1>2. BookIds'
  BY <1>0 DEF BookInv, BookIds
<1>3. BookWithin'
  BY <1>0 DEF BookInv, BookWithin, AllAdmitted
<1>4. TradesMade'
  <2>1. count'.starts = count.starts
    BY <1>0
  <2> QED BY <1>0, <2>1 DEF BookInv, TradesMade
<1> QED BY <1>1, <1>2, <1>3, <1>4 DEF BookInv

\* An empty book: at the start, and when the process is gone.
LEMMA EmptyBook ==
  ASSUME resting' = {}, busy' = FALSE, engine' = "wait", made' = <<>>, count'.starts \in Nat,
         taker' = [id |-> 0, side |-> "sell", price |-> 0, original |-> 0, qty |-> 0]
  PROVE  BookInv'
<1>1. BookTyped'
  <2>1. 0 \in Long /\ 0 \in Nat /\ 0 \in Int
    BY RiskAssumption DEF Long
  <2>2. resting' \subseteq RestingOrder /\ AtLevels(resting')
    BY DEF AtLevels
  <2> QED BY <2>1, <2>2, BookTypedIs
<1>2. BookIds' /\ BookWithin'
  BY DEF BookIds, BookWithin, AllAdmitted
<1>3. TradesMade'
  <2>1. ToSet(<<>>) = {} /\ <<>> \in Seq(TradeRecord) /\ Len(<<>>) = 0
    BY DEF ToSet
  <2>2. 1 .. Len(made') = {}
    BY <2>1
  <2> QED BY <2>1, <2>2 DEF TradesMade
<1> QED BY <1>1, <1>2, <1>3 DEF BookInv

\* The steps of the producer's own thread count faults, not starts.
LEMMA StartsStay ==
  ASSUME HostTyped, Expire \/ SendAgain
  PROVE  count'.starts = count.starts
<1>1. count \in [faults : Nat, starts : Nat, expired : Nat, resent : Nat]
  BY DEF HostTyped
<1> QED BY <1>1 DEF Expire, SendAgain

\* Every step keeps the book.
LEMMA BookKeeps ==
  ASSUME IInv, [Next]_vars
  PROVE  BookInv'
<1>0. SourcesInv /\ BookInv /\ HostTyped /\ Lives
  BY DEF IInv, TapeInv
<1>1. CASE Take
  BY <1>0, <1>1, BookTakes
<1>2. CASE Publish
  BY <1>0, <1>2, BookTrades
<1>3. CASE OrderDone
  BY <1>0, <1>3, BookIsDone
<1>4. CASE PublishFails
  BY <1>0, <1>4, BookAborts
<1>5. CASE Exit \/ Crash
  <2>1. Gone /\ count' = count
    BY <1>5 DEF Exit, Crash
  <2>2. count'.starts \in Nat
    BY <1>0, <2>1 DEF HostTyped
  <2> QED BY <2>1, <2>2, EmptyBook DEF Gone
<1>6. CASE Start
  <2>1. made = <<>> /\ UNCHANGED <<bookVars, engine, market, made>>
        /\ count' = [count EXCEPT !.starts = @ + 1, !.expired = 0, !.resent = 0]
    BY <1>0, <1>6 DEF Start, Lives
  <2>2. count'.starts \in Nat
    BY <1>0, <2>1 DEF HostTyped
  <2> QED BY <1>0, <2>1, <2>2, BookStays DEF BookInv, BookTyped
<1>7. CASE Expire \/ SendAgain
  <2>1. UNCHANGED <<bookVars, engine, market, made>>
    BY <1>7 DEF Expire, SendAgain
  <2>2. count'.starts = count.starts
    BY <1>0, <1>7, StartsStay
  <2> QED BY <1>0, <2>1, <2>2, BookStays DEF BookInv, BookTyped
<1>8. CASE WakeUp \/ EngineEnds \/ Drained \/ CallBack
  <2>1. UNCHANGED <<bookVars, market, made, count>>
    BY <1>8 DEF WakeUp, EngineEnds, Drained, CallBack
  <2>2. /\ engine' \in {"wait", "drain", "match", "publish", "faulted", "ended"}
        /\ busy = (engine' \in {"match", "publish"})
        /\ engine' = "publish" => taker.qty > 0 /\ Book!Crossing # {}
    BY <1>0, <1>8 DEF BookInv, BookTyped, WakeUp, EngineEnds, Drained, CallBack
  <2> QED BY <1>0, <2>1, <2>2, BookStays
<1>9. CASE \/ Submit \/ AutoCommit \/ Fetch \/ Offer \/ Write \/ ReaderEnds \/ StreamOrder
           \/ StreamEnds \/ Deliver \/ CancelReader \/ CancelEngine \/ UNCHANGED vars
  <2>1. UNCHANGED <<bookVars, engine, market, made, count>>
    BY <1>9 DEF Submit, AutoCommit, Fetch, Offer, Write, ReaderEnds, StreamOrder, StreamEnds,
       Deliver, CancelReader, CancelEngine, vars
  <2> QED BY <1>0, <2>1, BookStays DEF BookInv, BookTyped
<1> QED BY <1>1, <1>2, <1>3, <1>4, <1>5, <1>6, <1>7, <1>8, <1>9 DEF Next, ReaderStep, EngineStep

-----------------------------------------------------------------------------
(* Steps back.                                                               *)

\* MadeBefore and StepsBack, for the trades M of the process l.
Before(M, x, y) == \E i, j \in DOMAIN M : i < j /\ M[i] = x /\ M[j] = y
Steps(s, l, M) ==
  {i \in 2 .. Len(s) : s[i].life = l /\ s[i - 1].life = l /\ ~Before(M, s[i - 1], s[i])}

\* The trades of s that the process l made.
OwnOf(s, l) == {t \in ToSet(s) : t.life = l}

\* What TapeFollowsBook says of a process that runs.
Follows(s, M, c, cancelled) ==
  /\ OwnOf(s, c.starts) \subseteq ToSet(M)
  /\ Cardinality(Steps(s, c.starts, M)) <= c.resent
  /\ ~cancelled => Cardinality(ToSet(M) \ OwnOf(s, c.starts)) <= c.expired

\* It says so before a step and after it.
LEMMA FollowsIs ==
  /\ TapeFollowsBook <=> (up => Follows(tape \o outbox, made, count, EngineCancelled))
  /\ TapeFollowsBook' <=>
       (up' => Follows(tape' \o outbox', made', count', EngineCancelled'))
BY Zenon DEF TapeFollowsBook, Follows, StepsBack, MadeBefore, Steps, Before, OwnOf

\* Steps back can be counted.
LEMMA StepsCount ==
  ASSUME NEW s \in Seq(TradeRecord), NEW l, NEW M
  PROVE  IsFiniteSet(Steps(s, l, M)) /\ Cardinality(Steps(s, l, M)) \in Nat
<1>1. Len(s) \in Nat /\ Steps(s, l, M) \in SUBSET (2 .. Len(s))
  BY LenProperties DEF Steps
<1>2. IsFiniteSet(2 .. Len(s))
  BY <1>1, FS_Interval
<1> QED BY <1>1, <1>2, FS_Subset, FS_CardinalityType

\* Fewer places, no greater count.
LEMMA StepsFewer ==
  ASSUME NEW s \in Seq(TradeRecord), NEW l, NEW M, NEW B, B \subseteq Steps(s, l, M)
  PROVE  Cardinality(B) <= Cardinality(Steps(s, l, M)) /\ Cardinality(B) \in Nat
<1>1. IsFiniteSet(Steps(s, l, M)) /\ B \in SUBSET Steps(s, l, M)
  BY StepsCount
<1> QED BY <1>1, FS_Subset, FS_CardinalityType

\* A trade put at the end makes at most one more.
LEMMA StepsAppend ==
  ASSUME NEW s \in Seq(TradeRecord), NEW e \in TradeRecord, NEW l, NEW M
  PROVE  Cardinality(Steps(Append(s, e), l, M)) <= Cardinality(Steps(s, l, M)) + 1
<1> DEFINE t == Append(s, e)
           n == Len(s)
           A == Steps(s, l, M)
           B == Steps(t, l, M)
<1>1. /\ t \in Seq(TradeRecord) /\ Len(t) = n + 1 /\ n \in Nat
      /\ \A i \in 1 .. n : t[i] = s[i]
  BY ToSetAppend, LenProperties
<1> HIDE DEF t
<1>2. B \subseteq A \cup {n + 1}
  <2> SUFFICES ASSUME NEW i \in B, i # n + 1 PROVE i \in A
    OBVIOUS
  <2>1. i \in 2 .. n + 1 /\ t[i].life = l /\ t[i - 1].life = l /\ ~Before(M, t[i - 1], t[i])
    BY <1>1 DEF Steps
  <2>2. i \in 2 .. n /\ i \in 1 .. n /\ i - 1 \in 1 .. n
    BY <1>1, <2>1
  <2>3. t[i] = s[i] /\ t[i - 1] = s[i - 1]
    BY <1>1, <2>2
  <2> QED BY <2>1, <2>2, <2>3, Zenon DEF Steps
<1>3. IsFiniteSet(A) /\ Cardinality(A) \in Nat /\ B \in SUBSET (A \cup {n + 1})
  BY <1>2, StepsCount
<1> HIDE DEF A, B, n
<1>4. /\ IsFiniteSet(A \cup {n + 1})
      /\ Cardinality(A \cup {n + 1}) = IF n + 1 \in A THEN Cardinality(A)
                                                      ELSE Cardinality(A) + 1
  BY <1>3, FS_AddElement
<1>5. IsFiniteSet(B) /\ Cardinality(B) <= Cardinality(A \cup {n + 1})
  BY <1>3, <1>4, FS_Subset
<1>6. Cardinality(B) \in Nat
  BY <1>5, FS_CardinalityType
<1>7. Cardinality(B) <= Cardinality(A) + 1
  BY <1>3, <1>4, <1>5, <1>6
<1> QED BY <1>7 DEF A, B, t

\* The order in which trades are made is transitive, since none is made twice.
LEMMA BeforeTransitive ==
  ASSUME NEW M \in Seq(TradeRecord), \A i, j \in 1 .. Len(M) : M[i] = M[j] => i = j,
         NEW x, NEW y, NEW z, Before(M, x, y), Before(M, y, z)
  PROVE  Before(M, x, z)
<1>0. DOMAIN M = 1 .. Len(M) /\ Len(M) \in Nat
  BY LenProperties
<1>1. PICK i \in 1 .. Len(M), j \in 1 .. Len(M) : i < j /\ M[i] = x /\ M[j] = y
  BY <1>0 DEF Before
<1>2. PICK k \in 1 .. Len(M), m \in 1 .. Len(M) : k < m /\ M[k] = y /\ M[m] = z
  BY <1>0 DEF Before
<1>3. j = k
  BY <1>1, <1>2
<1>4. i < m
  BY <1>0, <1>1, <1>2, <1>3
<1> QED BY <1>0, <1>1, <1>2, <1>4 DEF Before

\* Taking a trade of the process out makes none more.
LEMMA StepsWithout ==
  ASSUME NEW s \in Seq(TradeRecord), NEW t \in Seq(TradeRecord), NEW k, NEW l,
         NEW M \in Seq(TradeRecord), \A i, j \in 1 .. Len(M) : M[i] = M[j] => i = j,
         Without(s, t, k), s[k].life = l
  PROVE  Cardinality(Steps(t, l, M)) <= Cardinality(Steps(s, l, M))
<1> DEFINE A == Steps(s, l, M)
           B == Steps(t, l, M)
           n == Len(t)
           F == [i \in B |-> IF i < k THEN i
                             ELSE IF i = k /\ k \in A THEN k ELSE i + 1]
<1>1. /\ n \in Nat /\ Len(s) = n + 1 /\ k \in 1 .. n + 1
      /\ \A i \in 1 .. n : t[i] = IF i < k THEN s[i] ELSE s[i + 1]
  BY LenProperties DEF Without
<1>2. \A i \in 2 .. n + 1 :
        s[i].life = l /\ s[i - 1].life = l /\ ~Before(M, s[i - 1], s[i]) => i \in A
  BY <1>1, Zenon DEF Steps
<1>3. /\ B \subseteq 2 .. n
      /\ \A i \in B : t[i].life = l /\ t[i - 1].life = l /\ ~Before(M, t[i - 1], t[i])
  BY Zenon DEF Steps
<1>n. Len(s) = n + 1 /\ n \in Nat
  BY <1>1
<1> HIDE DEF A, B, n
<1>5. ASSUME NEW i \in B PROVE F[i] \in A
  <2>1. /\ i \in 2 .. n /\ i - 1 \in 1 .. n /\ i \in 1 .. n /\ i + 1 \in 2 .. n + 1
        /\ i \in 2 .. n + 1 /\ (i + 1) - 1 = i
    BY <1>1, <1>3
  <2>2. t[i].life = l /\ t[i - 1].life = l /\ ~Before(M, t[i - 1], t[i])
    BY <1>3
  <2>3. CASE i < k
    <3>1. t[i] = s[i] /\ t[i - 1] = s[i - 1]
      BY <1>1, <2>1, <2>3
    <3>2. i \in A
      BY <1>2, <2>1, <2>2, <3>1
    <3> QED BY <2>3, <3>2
  <2>4. CASE i = k
    <3>1. t[i] = s[i + 1] /\ t[i - 1] = s[i - 1]
      BY <1>1, <2>1, <2>4
    <3>2. /\ s[i].life = l /\ s[i + 1].life = l /\ s[i - 1].life = l
          /\ ~Before(M, s[i - 1], s[i + 1])
      BY <2>2, <2>4, <3>1
    <3>4. ~Before(M, s[i - 1], s[i]) \/ ~Before(M, s[i], s[i + 1])
      BY <3>2, BeforeTransitive
    <3>5. i \in A \/ i + 1 \in A
      BY <1>2, <2>1, <3>2, <3>4
    <3> QED BY <2>4, <3>5, <2>1
  <2>5. CASE i > k
    <3>1. t[i] = s[i + 1] /\ t[i - 1] = s[i]
      BY <1>1, <2>1, <2>5
    <3>2. i + 1 \in A
      BY <1>2, <2>1, <2>2, <3>1
    <3> QED BY <2>5, <3>2, <1>1, <2>1
  <2> QED BY <2>3, <2>4, <2>5, <1>1, <2>1
<1>6. ASSUME NEW i \in B, NEW j \in B, F[i] = F[j] PROVE i = j
  <2>1. i \in Int /\ j \in Int /\ k \in Int
    BY <1>1, <1>3
  <2> QED BY <2>1, <1>6
<1>7. F \in Injection(B, A)
  <2>0. F = [i \in B |-> F[i]]
    OBVIOUS
  <2> HIDE DEF F
  <2>1. F \in [B -> A]
    BY <1>5, <2>0
  <2> QED BY <2>1, <1>6 DEF Injection, IsInjective
<1>8. IsFiniteSet(A)
  BY StepsCount DEF A
<1>9. Cardinality(B) <= Cardinality(A)
  BY <1>7, <1>8, FS_Injection
<1> QED BY <1>9 DEF A, B

\* A trade made after all others leaves no more steps back, whether it is put at the
\* end or not published.
LEMMA StepsMade ==
  ASSUME NEW s \in Seq(TradeRecord), NEW e \in TradeRecord, NEW l,
         NEW M \in Seq(TradeRecord), OwnOf(s, l) \subseteq ToSet(M)
  PROVE  /\ Steps(s, l, Append(M, e)) \subseteq Steps(s, l, M)
         /\ Steps(Append(s, e), l, Append(M, e)) \subseteq Steps(s, l, M)
<1> DEFINE t == Append(s, e)
           N == Append(M, e)
           n == Len(s)
           m == Len(M)
<1>1. /\ t \in Seq(TradeRecord) /\ Len(t) = n + 1 /\ n \in Nat
      /\ \A i \in 1 .. n : t[i] = s[i]
      /\ t[n + 1] = e
  BY ToSetAppend, LenProperties
<1>2. /\ DOMAIN N = 1 .. m + 1 /\ DOMAIN M = 1 .. m /\ m \in Nat
      /\ \A i \in 1 .. m : N[i] = M[i]
      /\ N[m + 1] = e
  <2>1. N \in Seq(TradeRecord) /\ Len(N) = m + 1
    BY ToSetAppend
  <2> QED BY <2>1, ToSetAppend, LenProperties
<1> HIDE DEF t, N, m
<1>3. ASSUME NEW x, NEW y, Before(M, x, y) PROVE Before(N, x, y)
  <2>1. PICK i \in 1 .. m, j \in 1 .. m : i < j /\ M[i] = x /\ M[j] = y
    BY <1>2, <1>3 DEF Before
  <2>2. i \in 1 .. m + 1 /\ j \in 1 .. m + 1 /\ N[i] = x /\ N[j] = y
    BY <1>2, <2>1
  <2> QED BY <1>2, <2>1, <2>2 DEF Before
<1>4. ASSUME NEW x \in ToSet(M) PROVE Before(N, x, e)
  <2>1. PICK i \in 1 .. m : M[i] = x
    BY ToSetIs DEF m
  <2>2. i \in 1 .. m + 1 /\ m + 1 \in 1 .. m + 1 /\ i < m + 1 /\ N[i] = x
    BY <1>2, <2>1
  <2> QED BY <1>2, <2>2 DEF Before
<1>5. ASSUME NEW i \in Steps(s, l, N) PROVE i \in Steps(s, l, M)
  <2>1. i \in 2 .. n /\ s[i].life = l /\ s[i - 1].life = l /\ ~Before(N, s[i - 1], s[i])
    BY <1>5, Zenon DEF Steps
  <2> QED BY <1>3, <2>1, Zenon DEF Steps
<1>6. ASSUME NEW i \in Steps(t, l, N) PROVE i \in Steps(s, l, M)
  <2>1. i \in 2 .. n + 1 /\ t[i].life = l /\ t[i - 1].life = l /\ ~Before(N, t[i - 1], t[i])
    BY <1>1, <1>6, Zenon DEF Steps
  <2>2. i - 1 \in 1 .. n /\ t[i - 1] = s[i - 1] /\ (i \in 2 .. n \/ i = n + 1)
    BY <1>1, <2>1
  <2>3. i # n + 1
    <3> SUFFICES ASSUME i = n + 1 PROVE FALSE
      OBVIOUS
    <3>1. s[i - 1] \in ToSet(s)
      BY <2>2, ToSetIs
    <3>2. s[i - 1] \in ToSet(M)
      BY <2>1, <2>2, <3>1 DEF OwnOf
    <3> QED BY <1>1, <1>4, <2>1, <2>2, <3>2
  <2>4. i \in 2 .. n /\ t[i] = s[i]
    BY <1>1, <2>2, <2>3
  <2> QED BY <1>3, <2>1, <2>2, <2>4, Zenon DEF Steps
<1> QED BY <1>5, <1>6 DEF t, N

-----------------------------------------------------------------------------
(* The trades topic and the producer's queue.                                *)

\* Both together, as one sequence.
LEMMA SentIs ==
  ASSUME HostTyped, Lives
  PROVE  /\ tape \o outbox \in Seq(TradeRecord)
         /\ ToSet(tape \o outbox) = ToSet(tape) \cup ToSet(outbox)
         /\ ToSet(outbox) \subseteq OwnOf(tape \o outbox, count.starts)
<1>1. tape \in Seq(TradeRecord) /\ outbox \in Seq(TradeRecord)
  BY DEF HostTyped
<1>2. /\ tape \o outbox \in Seq(TradeRecord)
      /\ ToSet(tape \o outbox) = ToSet(tape) \cup ToSet(outbox)
  BY <1>1, ToSetConcat
<1> QED BY <1>2 DEF Lives, OwnOf

\* The oldest trade of the producer's queue, and the others.
LEMMA HeadOfOutbox ==
  ASSUME HostTyped, Lives, outbox # <<>>
  PROVE  /\ Head(outbox) \in TradeRecord /\ Tail(outbox) \in Seq(TradeRecord)
         /\ Len(Tail(outbox)) = Len(outbox) - 1 /\ Len(outbox) \in Nat
         /\ ToSet(outbox) = ToSet(Tail(outbox)) \cup {Head(outbox)}
         /\ Head(outbox).life = count.starts
<1> DEFINE h == Head(outbox)
           t == Tail(outbox)
<1>0. outbox \in Seq(TradeRecord)
  BY DEF HostTyped
<1>1. /\ h \in TradeRecord /\ t \in Seq(TradeRecord)
      /\ Len(t) = Len(outbox) - 1 /\ Len(outbox) \in Nat
      /\ h = outbox[1] /\ Len(outbox) > 0
      /\ \A i \in 1 .. Len(t) : t[i] = outbox[i + 1]
  BY <1>0, HeadTailProperties, LenProperties, EmptySeq
<1>2. /\ ToSet(outbox) = {outbox[i] : i \in 1 .. Len(outbox)}
      /\ ToSet(t) = {t[i] : i \in 1 .. Len(t)}
  BY <1>0, <1>1, ToSetIs
<1> HIDE DEF h, t
<1>3. /\ \A i \in 1 .. Len(t) : i + 1 \in 1 .. Len(outbox)
      /\ \A i \in 1 .. Len(outbox) : i = 1 \/ (i - 1 \in 1 .. Len(t) /\ (i - 1) + 1 = i)
      /\ 1 \in 1 .. Len(outbox)
  BY <1>1
<1>4. ToSet(t) \subseteq ToSet(outbox) /\ h \in ToSet(outbox)
  BY <1>1, <1>2, <1>3
<1>5. ASSUME NEW i \in 1 .. Len(outbox) PROVE outbox[i] \in ToSet(t) \cup {h}
  <2>1. CASE i = 1
    BY <2>1, <1>1
  <2>2. CASE i # 1
    <3>1. i - 1 \in 1 .. Len(t) /\ (i - 1) + 1 = i
      BY <1>3, <2>2
    <3>2. t[i - 1] = outbox[(i - 1) + 1]
      BY <1>1, <3>1
    <3>3. t[i - 1] = outbox[i]
      BY <3>1, <3>2
    <3> QED BY <1>2, <3>1, <3>3
  <2> QED BY <2>1, <2>2
<1>6. ToSet(outbox) \subseteq ToSet(t) \cup {h}
  BY <1>2, <1>5
<1>7. h.life = count.starts
  BY <1>4 DEF Lives
<1> QED BY <1>1, <1>4, <1>6, <1>7 DEF h, t

\* The elements of a sequence are finitely many.
LEMMA ToSetFinite ==
  ASSUME NEW S, NEW q \in Seq(S)
  PROVE  IsFiniteSet(ToSet(q))
<1>1. /\ Len(q) \in Nat /\ ToSet(q) = {q[i] : i \in 1 .. Len(q)}
      /\ q \in [1 .. Len(q) -> S]
  BY ToSetIs, LenProperties
<1>2. IsFiniteSet(1 .. Len(q))
  BY <1>1, FS_Interval
<1> DEFINE D == 1 .. Len(q)
           T == ToSet(q)
<1>3. q \in [D -> T] /\ \A x \in T : \E i \in D : q[i] = x
  BY <1>1
<1> HIDE DEF D, T
<1>4. q \in Surjection(D, T)
  BY <1>3 DEF Surjection
<1>5. IsFiniteSet(T)
  BY <1>2, <1>4, FS_Surjection DEF D
<1> QED BY <1>5 DEF T

\* The producer delivers its oldest trade.
LEMMA DeliverKeeps ==
  ASSUME IInv, Deliver
  PROVE  TapeInv'
<1> DEFINE h == Head(outbox)
           t == Tail(outbox)
<1>0. HostTyped /\ Lives /\ TapeFollowsBook /\ outbox \in Seq(TradeRecord)
      /\ tape \in Seq(TradeRecord) /\ Len(outbox) <= OutboxCap
  BY DEF IInv, TapeInv, HostTyped
<1>1. /\ outbox # <<>> /\ up /\ tape' = Append(tape, h) /\ outbox' = t
      /\ UNCHANGED <<stopping, up, count, made>>
  BY DEF Deliver
<1>2. /\ h \in TradeRecord /\ t \in Seq(TradeRecord) /\ Len(t) = Len(outbox) - 1
      /\ Len(outbox) \in Nat /\ ToSet(outbox) = ToSet(t) \cup {h} /\ h.life = count.starts
  BY <1>0, <1>1, HeadOfOutbox
<1>3. tape' \o outbox' = tape \o outbox
  BY <1>0, <1>1, ConcatMove
<1> HIDE DEF h, t
<1>4. tape' \in Seq(TradeRecord) /\ ToSet(tape') = ToSet(tape) \cup {h}
  BY <1>0, <1>1, <1>2, ToSetAppend
<1>5. HostTyped'
  <2>1. Len(outbox') <= OutboxCap
    BY <1>0, <1>1, <1>2, ServiceAssumption
  <2> QED BY <1>0, <1>1, <1>2, <1>4, <2>1 DEF HostTyped
<1>6. Lives'
  <2>1. count.starts \in Nat
    BY <1>0 DEF HostTyped
  <2> QED BY <1>0, <1>1, <1>2, <1>4, <2>1 DEF Lives
<1>7. TapeFollowsBook'
  <2>1. EngineCancelled' = EngineCancelled
    BY <1>1 DEF EngineCancelled
  <2>2. Follows(tape \o outbox, made, count, EngineCancelled)
    BY <1>0, <1>1, FollowsIs
  <2>3. Follows(tape' \o outbox', made', count', EngineCancelled')
    BY <1>1, <1>3, <2>1, <2>2, Zenon
  <2> QED BY <2>3, FollowsIs
<1> QED BY <1>5, <1>6, <1>7 DEF TapeInv

\* What taking the oldest trade out of the producer's queue does to the sequence.
LEMMA HeadTakenOut ==
  ASSUME IInv, outbox # <<>>, up
  PROVE  /\ tape \o Tail(outbox) \in Seq(TradeRecord)
         /\ ToSet(tape \o Tail(outbox)) = ToSet(tape) \cup ToSet(Tail(outbox))
         /\ Cardinality(Steps(tape \o Tail(outbox), count.starts, made)) <= count.resent
         /\ Cardinality(Steps(tape \o Tail(outbox), count.starts, made)) \in Nat
<1> DEFINE h == Head(outbox)
           t == Tail(outbox)
           s == tape \o outbox
           u == tape \o t
           k == Len(tape) + 1
<1>0. HostTyped /\ Lives /\ TapeFollowsBook /\ outbox \in Seq(TradeRecord)
      /\ tape \in Seq(TradeRecord) /\ count.resent \in Nat
  BY DEF IInv, TapeInv, HostTyped
<1>1. /\ h \in TradeRecord /\ t \in Seq(TradeRecord) /\ h.life = count.starts
      /\ h = outbox[1] /\ 1 \in 1 .. Len(outbox)
  BY <1>0, HeadOfOutbox, EmptySeq
<1>2. Without(s, u, k)
  BY <1>0, ConcatTail
<1>3. s \in Seq(TradeRecord) /\ s[k] = h
  BY <1>0, <1>1, ToSetConcat
<1> HIDE DEF h, t
<1>4. u \in Seq(TradeRecord) /\ ToSet(u) = ToSet(tape) \cup ToSet(t)
  BY <1>0, <1>1, ToSetConcat
<1>5. made \in Seq(TradeRecord) /\ \A i, j \in 1 .. Len(made) : made[i] = made[j] => i = j
  BY DEF IInv, BookInv, TradesMade
<1>6. Follows(s, made, count, EngineCancelled)
  BY <1>0, FollowsIs
<1> HIDE DEF s, u, k
<1>7. Cardinality(Steps(u, count.starts, made)) <= Cardinality(Steps(s, count.starts, made))
  BY <1>1, <1>2, <1>3, <1>4, <1>5, StepsWithout
<1>8. /\ Cardinality(Steps(u, count.starts, made)) \in Nat
      /\ Cardinality(Steps(s, count.starts, made)) \in Nat
  BY <1>3, <1>4, StepsCount
<1>9. Cardinality(Steps(u, count.starts, made)) <= count.resent
  BY <1>0, <1>6, <1>7, <1>8 DEF Follows
<1> QED BY <1>4, <1>8, <1>9 DEF u, t

\* The producer gives its oldest trade up.
LEMMA ExpireKeeps ==
  ASSUME IInv, Expire
  PROVE  TapeInv'
<1> DEFINE h == Head(outbox)
           t == Tail(outbox)
<1>0. HostTyped /\ Lives /\ TapeFollowsBook /\ outbox \in Seq(TradeRecord)
      /\ tape \in Seq(TradeRecord) /\ Len(outbox) <= OutboxCap
      /\ count \in [faults : Nat, starts : Nat, expired : Nat, resent : Nat]
  BY DEF IInv, TapeInv, HostTyped
<1>1. /\ outbox # <<>> /\ up /\ outbox' = t /\ UNCHANGED <<tape, stopping, up, made>>
      /\ count' = [count EXCEPT !.faults = @ + 1, !.expired = @ + 1]
  BY DEF Expire
<1>c. count' = [faults |-> count.faults + 1, starts |-> count.starts,
                expired |-> count.expired + 1, resent |-> count.resent]
  BY <1>0, <1>1
<1>2. /\ h \in TradeRecord /\ t \in Seq(TradeRecord) /\ Len(t) = Len(outbox) - 1
      /\ Len(outbox) \in Nat /\ ToSet(outbox) = ToSet(t) \cup {h} /\ h.life = count.starts
  BY <1>0, <1>1, HeadOfOutbox
<1> HIDE DEF h
<1>3. /\ count'.starts = count.starts /\ count'.resent = count.resent
      /\ count'.expired = count.expired + 1
      /\ count' \in [faults : Nat, starts : Nat, expired : Nat, resent : Nat]
  BY <1>0, <1>c
<1>4. HostTyped'
  <2>1. Len(outbox') <= OutboxCap
    BY <1>0, <1>1, <1>2, ServiceAssumption
  <2> QED BY <1>0, <1>1, <1>2, <1>3, <2>1 DEF HostTyped
<1>5. Lives'
  BY <1>0, <1>1, <1>2, <1>3 DEF Lives
<1>6. TapeFollowsBook'
  <2> DEFINE s == tape \o outbox
             u == tape \o t
             A == ToSet(made) \ OwnOf(s, count.starts)
             B == ToSet(made) \ OwnOf(u, count.starts)
  <2>1. /\ ToSet(u) = ToSet(tape) \cup ToSet(t)
        /\ Cardinality(Steps(u, count.starts, made)) <= count.resent
    BY <1>1, HeadTakenOut
  <2>2. ToSet(s) = ToSet(tape) \cup ToSet(outbox)
    BY <1>0, SentIs
  <2>3. Follows(s, made, count, EngineCancelled)
    BY <1>0, <1>1, FollowsIs
  <2>4. EngineCancelled' = EngineCancelled
    BY <1>1 DEF EngineCancelled
  <2> HIDE DEF s, u
  <2>5. OwnOf(u, count.starts) \subseteq ToSet(made)
    BY <1>2, <2>1, <2>2, <2>3 DEF Follows, OwnOf
  <2>6. B \subseteq A \cup {h}
    BY <1>2, <2>1, <2>2 DEF OwnOf
  <2>7. ASSUME ~EngineCancelled PROVE Cardinality(B) <= count.expired + 1
    <3>1. Cardinality(A) <= count.expired /\ count.expired \in Nat
      BY <1>0, <2>3, <2>7 DEF Follows
    <3>2. IsFiniteSet(A)
      <4>1. made \in Seq(TradeRecord)
        BY DEF IInv, BookInv, TradesMade
      <4>2. IsFiniteSet(ToSet(made))
        BY <4>1, ToSetFinite
      <4> QED BY <4>2, FS_Subset
    <3> HIDE DEF A, B
    <3>3. /\ IsFiniteSet(A \cup {h}) /\ Cardinality(A) \in Nat
          /\ Cardinality(A \cup {h}) = IF h \in A THEN Cardinality(A) ELSE Cardinality(A) + 1
      BY <3>2, FS_AddElement, FS_CardinalityType
    <3>4. IsFiniteSet(B) /\ Cardinality(B) <= Cardinality(A \cup {h})
      BY <2>6, <3>3, FS_Subset
    <3>5. Cardinality(B) \in Nat
      BY <3>4, FS_CardinalityType
    <3> QED BY <3>1, <3>3, <3>4, <3>5
  <2>8. Follows(u, made, count', EngineCancelled)
    BY <1>3, <2>1, <2>5, <2>7 DEF Follows
  <2>9. Follows(tape' \o outbox', made', count', EngineCancelled')
    BY <1>1, <2>4, <2>8, Zenon DEF u
  <2> QED BY <2>9, FollowsIs
<1> QED BY <1>4, <1>5, <1>6 DEF TapeInv

\* The producer sends its oldest trade again, behind the others.
LEMMA SendAgainKeeps ==
  ASSUME IInv, SendAgain
  PROVE  TapeInv'
<1> DEFINE h == Head(outbox)
           t == Tail(outbox)
<1>0. HostTyped /\ Lives /\ TapeFollowsBook /\ outbox \in Seq(TradeRecord)
      /\ tape \in Seq(TradeRecord) /\ Len(outbox) <= OutboxCap
      /\ count \in [faults : Nat, starts : Nat, expired : Nat, resent : Nat]
  BY DEF IInv, TapeInv, HostTyped
<1>1. /\ outbox # <<>> /\ up /\ outbox' = Append(t, h) /\ UNCHANGED <<stopping, up, made>>
      /\ tape' = tape \/ tape' = Append(tape, h)
      /\ count' = [count EXCEPT !.faults = @ + 1, !.resent = @ + 1]
  BY DEF SendAgain
<1>c. count' = [faults |-> count.faults + 1, starts |-> count.starts,
                expired |-> count.expired, resent |-> count.resent + 1]
  BY <1>0, <1>1
<1>2. /\ h \in TradeRecord /\ t \in Seq(TradeRecord) /\ Len(t) = Len(outbox) - 1
      /\ Len(outbox) \in Nat /\ ToSet(outbox) = ToSet(t) \cup {h} /\ h.life = count.starts
  BY <1>0, <1>1, HeadOfOutbox
<1>m. Append(tape, h) \o t = tape \o outbox
  BY <1>0, <1>1, ConcatMove
<1>o. /\ tape \o t \in Seq(TradeRecord)
      /\ ToSet(tape \o t) = ToSet(tape) \cup ToSet(t)
      /\ Cardinality(Steps(tape \o t, count.starts, made)) <= count.resent
  BY <1>1, HeadTakenOut
<1> HIDE DEF h, t
<1>3. /\ count'.starts = count.starts /\ count'.resent = count.resent + 1
      /\ count'.expired = count.expired
      /\ count' \in [faults : Nat, starts : Nat, expired : Nat, resent : Nat]
  BY <1>0, <1>c
<1>4. /\ outbox' \in Seq(TradeRecord) /\ Len(outbox') = Len(t) + 1
      /\ ToSet(outbox') = ToSet(t) \cup {h}
  BY <1>1, <1>2, ToSetAppend
<1>5. /\ tape' \in Seq(TradeRecord)
      /\ ToSet(tape') = ToSet(tape) \/ ToSet(tape') = ToSet(tape) \cup {h}
  <2>1. CASE tape' = tape
    BY <1>0, <2>1
  <2>2. CASE tape' = Append(tape, h)
    BY <1>0, <1>2, <2>2, ToSetAppend
  <2> QED BY <1>1, <2>1, <2>2
<1>6. HostTyped'
  <2>1. Len(outbox') <= OutboxCap
    BY <1>0, <1>2, <1>4, ServiceAssumption
  <2> QED BY <1>0, <1>1, <1>3, <1>4, <1>5, <2>1 DEF HostTyped
<1>7. Lives'
  <2>1. count.starts \in Nat /\ h.life <= count.starts
    BY <1>0, <1>2
  <2> QED BY <1>0, <1>1, <1>2, <1>3, <1>4, <1>5, <2>1 DEF Lives
<1>8. TapeFollowsBook'
  <2>1. PICK s \in Seq(TradeRecord) :
           /\ tape' \o outbox' = Append(s, h)
           /\ ToSet(s) \cup {h} = ToSet(tape) \cup ToSet(outbox)
           /\ Cardinality(Steps(s, count.starts, made)) <= count.resent
    <3>1. CASE tape' = tape
      <4>1. tape' \o outbox' = Append(tape \o t, h)
        BY <1>0, <1>1, <1>2, <3>1, ConcatAppend
      <4>2. ToSet(tape \o t) \cup {h} = ToSet(tape) \cup ToSet(outbox)
        BY <1>2, <1>o
      <4> QED BY <1>o, <4>1, <4>2, Zenon
    <3>2. CASE tape' = Append(tape, h)
      <4>1. tape' \o outbox' = Append(tape' \o t, h)
        BY <1>1, <1>2, <1>5, ConcatAppend
      <4>2. tape' \o t = tape \o outbox
        BY <1>m, <3>2, Zenon
      <4>3. /\ tape \o outbox \in Seq(TradeRecord)
            /\ ToSet(tape \o outbox) = ToSet(tape) \cup ToSet(outbox)
        BY <1>0, SentIs
      <4>4. ToSet(tape \o outbox) \cup {h} = ToSet(tape) \cup ToSet(outbox)
        BY <1>2, <4>3
      <4>5. Cardinality(Steps(tape \o outbox, count.starts, made)) <= count.resent
        BY <1>0, <1>1, FollowsIs DEF Follows
      <4> QED BY <4>1, <4>2, <4>3, <4>4, <4>5, Zenon
    <3> QED BY <1>1, <3>1, <3>2
  <2> DEFINE u == Append(s, h)
  <2>2. /\ u \in Seq(TradeRecord) /\ ToSet(u) = ToSet(s) \cup {h}
        /\ Cardinality(Steps(u, count.starts, made)) <= Cardinality(Steps(s, count.starts, made)) + 1
    BY <1>2, ToSetAppend, StepsAppend
  <2> HIDE DEF u
  <2>3. /\ Cardinality(Steps(s, count.starts, made)) \in Nat
        /\ Cardinality(Steps(u, count.starts, made)) \in Nat
    BY <2>2, StepsCount
  <2>4. Cardinality(Steps(u, count.starts, made)) <= count.resent + 1
    BY <1>0, <2>1, <2>2, <2>3
  <2>5. OwnOf(u, count.starts) = OwnOf(tape \o outbox, count.starts)
    <3>1. ToSet(u) = ToSet(tape \o outbox)
      BY <1>0, <2>1, <2>2, SentIs
    <3> QED BY <3>1, Zenon DEF OwnOf
  <2>6. Follows(tape \o outbox, made, count, EngineCancelled)
    BY <1>0, <1>1, FollowsIs
  <2>7. Follows(u, made, count', EngineCancelled)
    BY <1>3, <2>4, <2>5, <2>6 DEF Follows
  <2>8. EngineCancelled' = EngineCancelled
    BY <1>1 DEF EngineCancelled
  <2>9. Follows(tape' \o outbox', made', count', EngineCancelled')
    BY <1>1, <2>1, <2>7, <2>8, Zenon DEF u
  <2> QED BY <2>9, FollowsIs
<1> QED BY <1>6, <1>7, <1>8 DEF TapeInv

\* A trade is made and handed over, or is not published any more.
LEMMA PublishKeeps ==
  ASSUME IInv, Publish
  PROVE  TapeInv'
<1> DEFINE e == Trade
           l == count.starts
           s == tape \o outbox
<1>0. HostTyped /\ Lives /\ TapeFollowsBook /\ outbox \in Seq(TradeRecord)
      /\ tape \in Seq(TradeRecord) /\ Len(outbox) <= OutboxCap
      /\ made \in Seq(TradeRecord) /\ BookInv /\ count.resent \in Nat
      /\ count.expired \in Nat
  BY DEF IInv, TapeInv, HostTyped, BookInv, TradesMade
<1>1. /\ made' = Append(made, e) /\ e \in TradeRecord /\ e.life = l
  <2>1. made' = Append(made, Trade) /\ Trade \in TradeRecord
    BY <1>0, BookTrades
  <2>2. Trade.life = count.starts
    BY DEF Trade
  <2> QED BY <2>1, <2>2
<1>2. /\ up /\ UNCHANGED <<tape, stopping, up, count>>
      /\ \/ ~EngineCancelled /\ Len(outbox) < OutboxCap /\ outbox' = Append(outbox, e)
         \/ EngineCancelled /\ outbox' = outbox
  BY DEF Publish, HandOver
<1>3. /\ s \in Seq(TradeRecord) /\ Follows(s, made, count, EngineCancelled)
  BY <1>0, <1>2, SentIs, FollowsIs
<1>4. EngineCancelled' = EngineCancelled
  BY <1>2 DEF EngineCancelled
<1> HIDE DEF e
<1>5. CASE ~EngineCancelled /\ Len(outbox) < OutboxCap /\ outbox' = Append(outbox, e)
  <2>1. /\ outbox' \in Seq(TradeRecord) /\ Len(outbox') = Len(outbox) + 1
        /\ ToSet(outbox') = ToSet(outbox) \cup {e} /\ Len(outbox) \in Nat
    BY <1>0, <1>1, <1>5, ToSetAppend, LenProperties
  <2>2. HostTyped'
    <3>1. Len(outbox') <= OutboxCap
      BY <1>5, <2>1, ServiceAssumption
    <3> QED BY <1>0, <1>2, <2>1, <3>1 DEF HostTyped
  <2>3. Lives'
    BY <1>0, <1>1, <1>2, <2>1 DEF Lives
  <2>4. tape' \o outbox' = Append(s, e)
    <3>1. tape \o Append(outbox, e) = Append(tape \o outbox, e)
      BY <1>0, <1>1, ConcatAppend
    <3> QED BY <1>2, <1>5, <3>1
  <2> HIDE DEF s
  <2>5. /\ ToSet(Append(s, e)) = ToSet(s) \cup {e}
        /\ ToSet(Append(made, e)) = ToSet(made) \cup {e}
    BY <1>0, <1>1, <1>3, ToSetAppend
  <2>6. Cardinality(Steps(Append(s, e), l, Append(made, e))) <= count.resent
    <3>1. Steps(Append(s, e), l, Append(made, e)) \subseteq Steps(s, l, made)
      BY <1>0, <1>1, <1>3, StepsMade DEF Follows
    <3> DEFINE B == Steps(Append(s, e), l, Append(made, e))
               A == Steps(s, l, made)
    <3>2. Cardinality(B) <= Cardinality(A) /\ Cardinality(B) \in Nat /\ Cardinality(A) \in Nat
      BY <1>3, <3>1, StepsFewer, StepsCount
    <3>3. Cardinality(A) <= count.resent
      BY <1>3 DEF Follows
    <3> HIDE DEF A, B
    <3>4. Cardinality(B) <= count.resent
      BY <1>0, <3>2, <3>3
    <3> QED BY <3>4 DEF B
  <2>7. OwnOf(Append(s, e), l) = OwnOf(s, l) \cup {e}
    BY <1>1, <2>5 DEF OwnOf
  <2>8. Cardinality(ToSet(Append(made, e)) \ OwnOf(Append(s, e), l)) <= count.expired
    <3> DEFINE A == ToSet(made) \ OwnOf(s, l)
               B == ToSet(Append(made, e)) \ OwnOf(Append(s, e), l)
    <3>1. B \in SUBSET A
      BY <2>5, <2>7
    <3>2. IsFiniteSet(A)
      <4>1. IsFiniteSet(ToSet(made))
        BY <1>0, ToSetFinite
      <4> QED BY <4>1, FS_Subset
    <3>3. Cardinality(A) <= count.expired
      BY <1>3, <1>5 DEF Follows
    <3> HIDE DEF A, B
    <3>4. IsFiniteSet(B) /\ Cardinality(B) <= Cardinality(A)
      BY <3>1, <3>2, FS_Subset
    <3>5. Cardinality(B) \in Nat /\ Cardinality(A) \in Nat
      BY <3>2, <3>4, FS_CardinalityType
    <3>6. Cardinality(B) <= count.expired
      BY <1>0, <3>3, <3>4, <3>5
    <3> QED BY <3>6 DEF B
  <2>9. OwnOf(Append(s, e), l) \subseteq ToSet(Append(made, e))
    BY <1>3, <2>5, <2>7 DEF Follows
  <2>10. Follows(Append(s, e), Append(made, e), count, EngineCancelled)
    BY <2>6, <2>8, <2>9 DEF Follows
  <2>11. Follows(tape' \o outbox', made', count', EngineCancelled')
    BY <1>1, <1>2, <1>4, <2>4, <2>10, Zenon
  <2>12. TapeFollowsBook'
    BY <2>11, FollowsIs
  <2> QED BY <2>2, <2>3, <2>12 DEF TapeInv
<1>6. CASE EngineCancelled /\ outbox' = outbox
  <2>1. HostTyped'
    BY <1>0, <1>2, <1>6 DEF HostTyped
  <2>2. Lives'
    BY <1>0, <1>2, <1>6 DEF Lives
  <2>3. tape' \o outbox' = s
    BY <1>2, <1>6
  <2> HIDE DEF s
  <2>4. ToSet(Append(made, e)) = ToSet(made) \cup {e}
    BY <1>0, <1>1, ToSetAppend
  <2>5. Cardinality(Steps(s, l, Append(made, e))) <= count.resent
    <3>1. Steps(s, l, Append(made, e)) \subseteq Steps(s, l, made)
      BY <1>0, <1>1, <1>3, StepsMade DEF Follows
    <3> DEFINE B == Steps(s, l, Append(made, e))
               A == Steps(s, l, made)
    <3>2. Cardinality(B) <= Cardinality(A) /\ Cardinality(B) \in Nat /\ Cardinality(A) \in Nat
      BY <1>3, <3>1, StepsFewer, StepsCount
    <3>3. Cardinality(A) <= count.resent
      BY <1>3 DEF Follows
    <3> HIDE DEF A, B
    <3>4. Cardinality(B) <= count.resent
      BY <1>0, <3>2, <3>3
    <3> QED BY <3>4 DEF B
  <2>6. OwnOf(s, l) \subseteq ToSet(Append(made, e))
    BY <1>3, <2>4 DEF Follows
  <2>7. Follows(s, Append(made, e), count, EngineCancelled)
    BY <1>6, <2>5, <2>6 DEF Follows
  <2>8. Follows(tape' \o outbox', made', count', EngineCancelled')
    BY <1>1, <1>2, <1>4, <2>3, <2>7, Zenon
  <2>9. TapeFollowsBook'
    BY <2>8, FollowsIs
  <2> QED BY <2>1, <2>2, <2>9 DEF TapeInv
<1> QED BY <1>2, <1>5, <1>6

\* A step of another part; the engine may be cancelled, and a fault counted.
LEMMA TapeStays ==
  ASSUME TapeInv, UNCHANGED <<outbox, tape, up, made>>,
         stopping' \in {"none", "reader", "both"}, EngineCancelled => EngineCancelled',
         count' \in [faults : Nat, starts : Nat, expired : Nat, resent : Nat],
         count'.starts = count.starts, count'.expired = count.expired,
         count'.resent = count.resent
  PROVE  TapeInv'
<1>1. HostTyped'
  BY DEF TapeInv, HostTyped
<1>2. Lives'
  BY DEF TapeInv, Lives
<1>3. TapeFollowsBook'
  <2>1. up => Follows(tape \o outbox, made, count, EngineCancelled)
    BY FollowsIs DEF TapeInv
  <2> DEFINE s == tape \o outbox
  <2>2. tape' \o outbox' = s
    OBVIOUS
  <2> HIDE DEF s
  <2>3. up => Follows(s, made, count', EngineCancelled')
    BY <2>1 DEF Follows, s
  <2>4. up' => Follows(tape' \o outbox', made', count', EngineCancelled')
    BY <2>2, <2>3, Zenon
  <2> QED BY <2>4, FollowsIs
<1> QED BY <1>1, <1>2, <1>3 DEF TapeInv

\* The process is gone, and its producer's queue with it.
LEMMA TapeGone ==
  ASSUME TapeInv, Gone, stopping' = "none", UNCHANGED count
  PROVE  TapeInv'
<1>1. outbox' = <<>> /\ made' = <<>> /\ tape' = tape /\ up' = FALSE
  BY DEF Gone
<1>2. <<>> \in Seq(TradeRecord) /\ Len(<<>>) = 0 /\ ToSet(<<>>) = {}
  BY EmptySeq DEF ToSet
<1>3. HostTyped'
  <2>1. Len(outbox') <= OutboxCap
    BY <1>1, <1>2, ServiceAssumption
  <2> QED BY <1>1, <1>2, <2>1 DEF TapeInv, HostTyped
<1>4. Lives'
  BY <1>1, <1>2 DEF TapeInv, Lives
<1>5. TapeFollowsBook'
  BY <1>1, FollowsIs
<1> QED BY <1>3, <1>4, <1>5 DEF TapeInv

\* Of what the trades topic holds, a new process has made nothing.
LEMMA NothingMade ==
  ASSUME NEW c \in [faults : Nat, starts : Nat, expired : Nat, resent : Nat],
         NEW s \in Seq(TradeRecord), \A t \in ToSet(s) : t.life # c.starts, NEW cancelled
  PROVE  Follows(s, <<>>, c, cancelled)
<1>1. ToSet(<<>>) = {}
  BY EmptySeq DEF ToSet
<1>2. OwnOf(s, c.starts) = {}
  BY DEF OwnOf
<1>3. Steps(s, c.starts, <<>>) = {}
  <2> SUFFICES ASSUME NEW i \in 2 .. Len(s), s[i].life = c.starts PROVE FALSE
    BY DEF Steps
  <2>1. Len(s) \in Nat /\ ToSet(s) = {s[j] : j \in 1 .. Len(s)}
    BY ToSetIs
  <2>2. i \in 1 .. Len(s)
    BY <2>1
  <2> QED BY <2>1, <2>2
<1>4. Cardinality({}) = 0
  BY FS_EmptySet
<1>5. {} \ {} = {} /\ {} \subseteq {}
  OBVIOUS
<1>6. 0 <= c.resent /\ 0 <= c.expired
  OBVIOUS
<1>7. /\ Cardinality(Steps(s, c.starts, <<>>)) <= c.resent
      /\ Cardinality(ToSet(<<>>) \ OwnOf(s, c.starts)) <= c.expired
  BY <1>1, <1>2, <1>3, <1>4, <1>5, <1>6
<1> QED BY <1>1, <1>2, <1>7 DEF Follows

\* A new process.
LEMMA StartKeeps ==
  ASSUME IInv, Start
  PROVE  TapeInv'
<1>0. /\ HostTyped /\ Lives /\ tape \in Seq(TradeRecord)
      /\ count \in [faults : Nat, starts : Nat, expired : Nat, resent : Nat]
  BY DEF IInv, TapeInv, HostTyped
<1>1. /\ ~up /\ up' = TRUE /\ UNCHANGED <<tape, outbox, made, stopping>>
      /\ count' = [count EXCEPT !.starts = @ + 1, !.expired = 0, !.resent = 0]
  BY DEF Start
<1>2. count' = [faults |-> count.faults, starts |-> count.starts + 1, expired |-> 0,
                resent |-> 0]
  BY <1>0, <1>1
<1>3. /\ count' \in [faults : Nat, starts : Nat, expired : Nat, resent : Nat]
      /\ count'.starts = count.starts + 1 /\ count.starts \in Nat
  BY <1>0, <1>2
<1>4. outbox = <<>> /\ made = <<>> /\ ToSet(<<>>) = {}
  BY <1>0, <1>1, EmptySeq DEF Lives, ToSet
<1>5. HostTyped'
  BY <1>0, <1>1, <1>3 DEF HostTyped
<1>6. ToSet(tape) \subseteq TradeRecord
  BY <1>0, ToSetIs
<1>7. \A t \in ToSet(tape) : t.life <= count'.starts /\ t.life # count'.starts
  <2> TAKE t \in ToSet(tape)
  <2>1. t.life \in Nat /\ t.life <= count.starts
    BY <1>0, <1>6 DEF Lives, TradeRecord
  <2> QED BY <1>3, <2>1
<1>8. Lives'
  BY <1>1, <1>4, <1>7 DEF Lives
<1>9. tape' \o outbox' = tape
  BY <1>0, <1>1, <1>4, ConcatEmptySeq
<1>10. TapeFollowsBook'
  <2>1. Follows(tape, <<>>, count', EngineCancelled')
    BY <1>0, <1>3, <1>7, NothingMade
  <2>2. Follows(tape' \o outbox', made', count', EngineCancelled')
    BY <1>1, <1>4, <1>9, <2>1, Zenon
  <2> QED BY <2>2, FollowsIs
<1> QED BY <1>5, <1>8, <1>10 DEF TapeInv

\* Every step keeps the topic of trades.
LEMMA TapeKeeps ==
  ASSUME IInv, [Next]_vars
  PROVE  TapeInv'
<1>0. /\ TapeInv
      /\ count \in [faults : Nat, starts : Nat, expired : Nat, resent : Nat]
      /\ stopping \in {"none", "reader", "both"}
  BY DEF IInv, TapeInv, HostTyped
<1>1. CASE Deliver
  BY <1>1, DeliverKeeps
<1>2. CASE Expire
  BY <1>2, ExpireKeeps
<1>3. CASE SendAgain
  BY <1>3, SendAgainKeeps
<1>4. CASE Publish
  BY <1>4, PublishKeeps
<1>5. CASE Exit \/ Crash
  BY <1>0, <1>5, TapeGone DEF Exit, Crash
<1>6. CASE Start
  BY <1>6, StartKeeps
<1>7. CASE PublishFails
  <2>1. /\ UNCHANGED <<outbox, tape, up, made, stopping>>
        /\ count' = [count EXCEPT !.faults = @ + 1]
    BY <1>7 DEF PublishFails
  <2>2. /\ count' \in [faults : Nat, starts : Nat, expired : Nat, resent : Nat]
        /\ count'.starts = count.starts /\ count'.expired = count.expired
        /\ count'.resent = count.resent
    BY <1>0, <2>1
  <2>3. EngineCancelled => EngineCancelled'
    BY <2>1 DEF EngineCancelled
  <2> QED BY <1>0, <2>1, <2>2, <2>3, TapeStays
<1>8. CASE CancelReader \/ CancelEngine
  <2>1. /\ UNCHANGED <<outbox, tape, up, made, count>> /\ stopping' \in {"reader", "both"}
        /\ stopping # "both"
    BY <1>8 DEF CancelReader, CancelEngine
  <2>2. EngineCancelled => EngineCancelled'
    BY <2>1 DEF EngineCancelled
  <2> QED BY <1>0, <2>1, <2>2, TapeStays
<1>9. CASE \/ Submit \/ AutoCommit \/ Fetch \/ Offer \/ Write \/ ReaderEnds \/ StreamOrder
           \/ StreamEnds \/ WakeUp \/ EngineEnds \/ Drained \/ Take \/ OrderDone \/ CallBack
           \/ UNCHANGED vars
  <2>1. UNCHANGED <<outbox, tape, up, made, stopping, count>>
    BY <1>9 DEF Submit, AutoCommit, Fetch, Offer, Write, ReaderEnds, StreamOrder, StreamEnds,
       WakeUp, EngineEnds, Drained, Take, OrderDone, CallBack, vars
  <2>2. EngineCancelled => EngineCancelled'
    BY <2>1 DEF EngineCancelled
  <2> QED BY <1>0, <2>1, <2>2, TapeStays
<1> QED BY <1>1, <1>2, <1>3, <1>4, <1>5, <1>6, <1>7, <1>8, <1>9 DEF Next, ReaderStep, EngineStep

-----------------------------------------------------------------------------
(* The invariant holds.                                                      *)

\* It holds at the start ...
LEMMA Starts == Init => IInv
<1> SUFFICES ASSUME Init PROVE IInv
  OBVIOUS
<1>0. /\ <<>> \in Seq(Entry) /\ <<>> \in Seq(Orders) /\ <<>> \in Seq(TradeRecord)
      /\ Len(<<>>) = 0 /\ ToSet(<<>>) = {}
  BY EmptySeq DEF ToSet
<1>1. /\ topic = <<>> /\ committed = 0 /\ position = 0 /\ reader = "poll"
      /\ streamed = <<>> /\ dropped = {} /\ answered = FALSE
      /\ queue = <<>> /\ taken = <<>> /\ made = <<>> /\ engine = "wait"
      /\ resting = {} /\ busy = FALSE
      /\ taker = [id |-> 0, side |-> "sell", price |-> 0, original |-> 0, qty |-> 0]
      /\ outbox = <<>> /\ tape = <<>> /\ stopping = "none" /\ up = TRUE
      /\ count = [faults |-> 0, starts |-> 0, expired |-> 0, resent |-> 0]
  BY DEF Init, Book!Init
<1>2. SourcesTyped
  <2>1. 0 \in 0 .. 0 /\ Len(queue) <= QueueCap /\ {} \subseteq 1 .. Len(streamed)
    BY <1>0, <1>1, ServiceAssumption
  <2> QED BY <1>0, <1>1, <2>1 DEF SourcesTyped, HasHand
<1>3. AllKnown
  BY <1>0, <1>1 DEF AllKnown
<1>4. /\ Entered = <<>> /\ Behind = 0
      /\ GoUp(<<>>, "topic") /\ GoUp(<<>>, "stream")
      /\ Places(<<>>, "topic") = {} /\ Places(<<>>, "stream") = {}
  <2>1. Entered = <<>> /\ Behind = 0
    BY <1>0, <1>1, ConcatEmptySeq DEF Entered, Behind, HasHand
  <2> QED BY <1>0, <2>1 DEF GoUp, Places
<1>5. TopicEntered
  <2>1. 1 \in 1 .. 0 + 1 /\ {} = 1 .. 0
    OBVIOUS
  <2>2. \E first \in 1 .. Behind + 1 : Places(Entered, "topic") = first .. Behind
    BY <1>4, <2>1, Zenon
  <2> QED BY <1>4, <2>2 DEF TopicEntered
<1>6. StreamOrdersInOrder
  <2>1. (1 .. Len(streamed)) \ dropped = {}
    BY <1>0, <1>1
  <2> QED BY <1>1, <1>4, <2>1 DEF StreamOrdersInOrder, Entered
<1>7. BookTyped
  <2>1. 0 \in Long /\ 0 \in Nat /\ 0 \in Int
    BY RiskAssumption DEF Long
  <2>2. taker \in [id : Nat, side : {"buy", "sell"}, price : Long, original : Long, qty : Int]
    BY <1>1, <2>1
  <2>3. busy = (engine \in {"match", "publish"})
    <3> DEFINE P == engine \in {"match", "publish"}
    <3>1. P \in BOOLEAN /\ ~P
      BY <1>1
    <3> HIDE DEF P
    <3>2. P = FALSE
      BY <3>1, Zenon
    <3>3. busy = P
      BY <1>1, <3>2, Zenon
    <3> QED BY <3>3 DEF P
  <2>4. /\ engine \in {"wait", "drain", "match", "publish", "faulted", "ended"}
        /\ engine # "publish"
        /\ resting \subseteq RestingOrder /\ AtLevels(resting)
    BY <1>1 DEF AtLevels
  <2> QED BY <2>2, <2>3, <2>4, Zenon DEF BookTyped
<1>8. BookIds /\ BookWithin
  BY <1>1 DEF BookIds, BookWithin, AllAdmitted
<1>9. TradesMade
  <2>1. 1 .. Len(made) = {} /\ count.starts = 0
    BY <1>0, <1>1
  <2> QED BY <1>0, <1>1, <2>1 DEF TradesMade
<1>10. HostTyped
  <2>1. Len(outbox) <= OutboxCap
    BY <1>0, <1>1, ServiceAssumption
  <2>2. count \in [faults : Nat, starts : Nat, expired : Nat, resent : Nat]
    BY <1>1
  <2> QED BY <1>0, <1>1, <2>1, <2>2 DEF HostTyped
<1>11. Lives
  BY <1>0, <1>1 DEF Lives
<1>12. TapeFollowsBook
  <2>1. count \in [faults : Nat, starts : Nat, expired : Nat, resent : Nat]
    BY <1>10 DEF HostTyped
  <2>2. Follows(<<>>, <<>>, count, EngineCancelled)
    BY <1>0, <2>1, NothingMade
  <2>3. tape \o outbox = <<>>
    BY <1>0, <1>1, ConcatEmptySeq
  <2>4. Follows(tape \o outbox, made, count, EngineCancelled)
    BY <1>1, <2>2, <2>3, Zenon
  <2> QED BY <2>4, FollowsIs
<1> QED BY <1>2, <1>3, <1>5, <1>6, <1>7, <1>8, <1>9, <1>10, <1>11, <1>12
        DEF IInv, SourcesInv, BookInv, TapeInv

\* ... and every step keeps it.
LEMMA StepKeeps == IInv /\ [Next]_vars => IInv'
<1> SUFFICES ASSUME IInv, [Next]_vars PROVE IInv'
  OBVIOUS
<1>1. SourcesInv'
  BY SourcesKeep DEF IInv
<1> QED BY <1>1, BookKeeps, TapeKeeps DEF IInv

\* So it always holds.
LEMMA Invariant == Spec => []IInv
<1> QED BY Starts, StepKeeps, PTL DEF Spec

-----------------------------------------------------------------------------
(* The theorems.                                                             *)

\* All of the process has its type: no channel holds more than its capacity, every
\* order on its way is one of its source, and the book is busy exactly while the
\* loop is in ProcessOrder.
THEOREM TypeCorrect == Spec => []TypeOK
<1>1. IInv => TypeOK
  <2> SUFFICES ASSUME IInv PROVE TypeOK
    OBVIOUS
  <2>1. SourcesTyped /\ AllKnown /\ BookTyped /\ HostTyped
    BY DEF IInv, SourcesInv, BookInv, TapeInv
  <2>2. \A e \in ToSet(queue) \cup ToSet(taken) :
          e.at \in 1 .. (IF e.from = "topic" THEN position ELSE Len(streamed))
    BY <2>1 DEF AllKnown, Known
  <2>3. /\ engine \in {"wait", "drain", "match", "publish", "faulted", "ended"}
        /\ busy = (engine \in {"match", "publish"})
    BY <2>1, Zenon DEF BookTyped
  <2>4. Len(outbox) <= OutboxCap /\ stopping \in {"none", "reader", "both"} /\ up \in BOOLEAN
    BY <2>1 DEF HostTyped
  <2> QED BY <2>1, <2>2, <2>3, <2>4, Zenon DEF TypeOK, SourcesTyped
<1> QED BY <1>1, Invariant, PTL

\* What the consumer has read of the topic reaches the engine in the topic's order and
\* complete, and the orders of a stream in the stream's order but for those that met a
\* full channel: TryWrite, WriteAsync and TryRead never pass one order by another.
THEOREM AlwaysInOrder == Spec => []OrdersInOrder
<1>1. IInv => OrdersInOrder
  <2> SUFFICES ASSUME IInv PROVE OrdersInOrder
    OBVIOUS
  <2>1. SourcesInv /\ SourcesTyped /\ AllKnown /\ StreamOrdersInOrder
    BY DEF IInv, SourcesInv
  <2> DEFINE hand == IF reader \in {"offer", "write", "wait"} THEN <<InHand>> ELSE <<>>
             seen == Entered \o hand
  <2>2. ASSUME reader # "ended"
        PROVE  /\ GoUp(seen, "topic")
               /\ \E first \in 1 .. position + 1 : Places(seen, "topic") = first .. position
    <3>1. PICK first \in 1 .. Behind + 1 :
            GoUp(Entered, "topic") /\ Places(Entered, "topic") = first .. Behind
      BY <2>1, <2>2 DEF SourcesInv, TopicEntered
    <3>2. Entered \in Seq(Entry) /\ position \in Nat
      BY <2>1, EnteredIs, LenProperties DEF SourcesTyped
    <3>3. CASE HasHand
      <4>1. InHand \in Entry /\ InHand.from = "topic" /\ InHand.at = position
        BY <3>2 DEF InHand, Entry
      <4>2. Behind = position - 1 /\ position > 0
        BY <2>1, <3>3 DEF Behind, SourcesTyped
      <4>3. seen = Append(Entered, InHand)
        <5>1. hand = <<InHand>>
          BY <3>3 DEF HasHand
        <5> QED BY <3>2, <4>1, <5>1, AppendIsConcat
      <4> DEFINE s == Entered
                 h == InHand
      <4>4. /\ s \in Seq(Entry) /\ h \in Entry /\ GoUp(s, "topic") /\ h.from = "topic"
            /\ h.at = position /\ Places(s, "topic") = first .. position - 1
        BY <3>1, <3>2, <4>1, <4>2
      <4>5. seen = Append(s, h)
        BY <4>3
      <4> HIDE DEF s, h, seen
      <4>6. \A n \in Places(s, "topic") : n < h.at
        BY <3>2, <4>4
      <4>7. /\ GoUp(Append(s, h), "topic")
            /\ Places(Append(s, h), "topic") = Places(s, "topic") \cup {h.at}
        BY <4>4, <4>6, EnterLast
      <4>8. first \in 1 .. position /\ (first .. position - 1) \cup {position} = first .. position
        BY <3>2, <4>2
      <4>9. first \in 1 .. position + 1
        BY <3>2, <4>8
      <4> QED BY <4>4, <4>5, <4>7, <4>8, <4>9, Zenon
    <3>4. CASE ~HasHand
      <4>1. seen = Entered
        <5>1. hand = <<>>
          BY <3>4 DEF HasHand
        <5> QED BY <3>2, <5>1, ConcatEmptySeq
      <4>2. Behind = position
        BY <3>4 DEF Behind
      <4> HIDE DEF seen
      <4> QED BY <3>1, <4>1, <4>2, Zenon
    <3> QED BY <3>3, <3>4
  <2>3. TopicOrdersInOrder
    BY <2>2, Zenon DEF TopicOrdersInOrder, Entered
  <2> QED BY <2>1, <2>3 DEF OrdersInOrder
<1> QED BY <1>1, Invariant, PTL

\* Between orders priced in the band every trade of an order is within the limits its
\* check was made with, however many price levels it takes and whatever else the book
\* holds, and so is all that rests, in numbers that do not wrap; and no quantity that
\* rests is over its limit, at whatever price.
THEOREM AlwaysWithinLimits == Spec => []TradesWithinLimits
<1>1. IInv => TradesWithinLimits
  <2> SUFFICES ASSUME IInv PROVE TradesWithinLimits
    OBVIOUS
  <2> DEFINE m == Book!Maker
             f == Book!Fill
  <2>1. ASSUME engine = "publish", taker.price \in Band, m.price \in Band
        PROVE  WithinLimits(Trade.price, Trade.qty, market)
    <3>1. BookTyped /\ BookIds /\ taker.qty > 0 /\ Book!Crossing # {} /\ busy
      BY <2>1, BusyIs DEF IInv, BookInv, BookTyped
    <3>0. Book!LevelPrice(m.price) = m.price
      BY <2>1, LevelIs, OrdersAssumption DEF Band
    <3>2. /\ m \in resting /\ m.side # taker.side /\ m.price \in Band /\ m.qty \in Nat \ {0}
          /\ IF taker.side = "buy" THEN m.price <= taker.price ELSE taker.price <= m.price
          /\ f \in Nat \ {0} /\ f <= m.qty /\ f <= taker.qty
      BY <3>0, <3>1, FillIs
    <3>3. /\ m.qty <= MaxOrderQuantity /\ m.price * m.qty <= MaxNotionalValue
          /\ market \in Band /\ Abs(taker.price - market) <= MaxPriceDeviation
          /\ taker.qty <= MaxOrderQuantity /\ taker.price * taker.qty <= MaxNotionalValue
          /\ IF taker.side = "buy" THEN market <= m.price ELSE m.price <= market
      <4>1. AllAdmitted(resting) /\ Admitted(taker.price, taker.qty) /\ market \in Band
            /\ Abs(taker.price - market) <= MaxPriceDeviation
            /\ Beyond(resting, taker.side, market)
        BY <2>1, <3>1 DEF IInv, BookInv, BookWithin
      <4>2. Admitted(m.price, m.qty)
        BY <3>2, <4>1 DEF AllAdmitted
      <4>3. IF taker.side = "buy" THEN market <= m.price ELSE m.price <= market
        BY <3>0, <3>2, <4>1 DEF Beyond
      <4> QED BY <2>1, <4>1, <4>2, <4>3 DEF Admitted
    <3>4. Trade.price = m.price /\ Trade.qty = f
      BY <3>0 DEF Trade
    <3> HIDE DEF m, f
    <3>5. /\ m.price \in Nat /\ market \in Nat /\ taker.price \in Nat /\ taker.qty \in Nat
          /\ m.qty \in Nat /\ f \in Nat
      <4>1. Band \subseteq Nat
        BY OrdersAssumption DEF Band
      <4>2. taker.qty \in Int
        BY <3>1 DEF BookTyped
      <4>3. m.price \in Nat /\ market \in Nat /\ taker.price \in Nat
        BY <2>1, <3>2, <3>3, <4>1
      <4>4. taker.qty \in Nat
        BY <3>1, <4>2
      <4>5. m.qty \in Nat /\ f \in Nat
        BY <3>2
      <4> QED BY <4>3, <4>4, <4>5
    <3>6. Abs(m.price - market) <= MaxPriceDeviation
      BY <3>2, <3>3, <3>5, RiskAssumption DEF Abs
    <3>7. m.price * f <= MaxNotionalValue
      <4>1. m.price * f <= m.price * m.qty
        BY <3>2, <3>5, SmallerNotional
      <4>2. m.price * f \in Nat /\ m.price * m.qty \in Nat
        BY <3>5
      <4> QED BY <3>3, <4>1, <4>2, RiskAssumption
    <3>8. f <= MaxOrderQuantity
      BY <3>2, <3>3, <3>5, RiskAssumption
    <3> QED BY <3>4, <3>6, <3>7, <3>8 DEF WithinLimits
  <2>2. \A r \in resting :
          r.qty <= MaxOrderQuantity /\ (r.price \in Band => r.price * r.qty <= MaxNotionalValue)
    BY DEF IInv, BookInv, BookWithin, AllAdmitted, Admitted
  <2> QED BY <2>1, <2>2 DEF TradesWithinLimits
<1> QED BY <1>1, Invariant, PTL

\* The trades topic and the producer's queue hold nothing of this process that its book
\* did not make, step back no more often than a trade was sent again, and lack, until
\* the engine is cancelled, no more than the producer gave up.
THEOREM TapeAlwaysFollows == Spec => []TapeFollowsBook
<1>1. IInv => TapeFollowsBook
  BY DEF IInv, TapeInv
<1> QED BY <1>1, Invariant, PTL
=============================================================================
