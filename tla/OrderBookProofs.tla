--------------------------- MODULE OrderBookProofs ---------------------------
(***************************************************************************)
(* Theorems about OrderBook for pools, price bands and orders of any size. *)
(***************************************************************************)
EXTENDS OrderBook, FiniteSetTheorems, WellFoundedInduction, TLAPS

-----------------------------------------------------------------------------
(* Conditions and strengthenings used below.                                 *)

\* No order carries a price that differs from a covered one by a multiple of
\* the index modulus: prices lie within 2^32 ticks of the band's ends.
NoAliasing ==
  \A p \in Prices : p - MinPrice \in (NumLevels - IndexModulus) .. (IndexModulus - 1)

\* A call under way has an index in range ...
InRangeWhileBusy == pc # "idle" => InRange(incoming.price)

\* ... which is the distance of its price from the lowest one ...
IndexIsPrice ==
  pc # "idle" => PriceIndex(incoming.price) = incoming.price - MinPrice

\* ... and no result yet.
NoResultWhileBusy == pc # "idle" => result = "none"

\* While the callback runs, its trade is still the one the book calls for.
CallbackReady == pc = "callback" => CanMatch /\ trade.qty = TradeQty

\* An order that has traded and wants more emptied, and so returned, a node.
RoomOnceTraded ==
  pc # "idle" /\ 0 < incoming.qty /\ incoming.qty # incoming.original => freeHead # Nil

-----------------------------------------------------------------------------
(* Facts about integers, sets of levels and price indexes.                   *)

\* A set of naturals that is not empty has a least element.
LEMMA LeastExists ==
  ASSUME NEW S \in SUBSET Nat, S # {}
  PROVE  \E x \in S : \A y \in S : x <= y
<1> DEFINE R == OpToRel(<, Nat)
<1>1. \E x \in S : \A y \in S : ~(<<y, x>> \in R)
  BY NatLessThanWellFounded, WFMin
<1>2. \A x, y \in Nat : y < x => <<y, x>> \in R
  BY DEF OpToRel
<1> HIDE DEF R
<1>3. PICK x \in S : \A y \in S : ~(<<y, x>> \in R)
  BY <1>1
<1>4. \A y \in S : ~(y < x)
  BY <1>2, <1>3
<1>5. \A y \in S : x <= y
  <2> TAKE y \in S
  <2> x \in Nat /\ y \in Nat
    OBVIOUS
  <2> QED BY <1>4
<1> QED BY <1>5

\* A set of naturals below a bound that is not empty has a greatest element.
LEMMA GreatestExists ==
  ASSUME NEW N \in Nat, NEW S \in SUBSET (0 .. N), S # {}
  PROVE  \E x \in S : \A y \in S : x >= y
<1> DEFINE T == {N - x : x \in S}
<1>0. \A x \in S : x \in 0 .. N /\ N - x \in Nat
  OBVIOUS
<1>1. T \subseteq Nat /\ T # {}
  BY <1>0
<1>2. PICK t \in T : \A u \in T : t <= u
  BY <1>1, LeastExists
<1>3. PICK x \in S : t = N - x
  BY <1>2
<1>4. \A y \in S : x >= y
  <2> TAKE y \in S
  <2>1. t <= N - y
    BY <1>2
  <2>2. x \in 0 .. N /\ y \in 0 .. N
    BY <1>0
  <2> HIDE DEF T
  <2> QED BY <1>3, <2>1, <2>2
<1> QED BY <1>4

\* Max and Min pick an element of a set of levels that bounds the others.
LEMMA ExtremeLevels ==
  ASSUME NEW S \in SUBSET Levels, S # {}
  PROVE  /\ Max(S) \in S /\ \A x \in S : x <= Max(S)
         /\ Min(S) \in S /\ \A x \in S : x >= Min(S)
<1>1. NumLevels - 1 \in Nat /\ Levels \subseteq Nat
  BY BookAssumption DEF NumLevels, Levels
<1>2. \E x \in S : \A y \in S : x >= y
  BY <1>1, GreatestExists DEF Levels
<1>3. \E x \in S : \A y \in S : x <= y
  BY <1>1, LeastExists
<1>4. Max(S) \in S /\ \A y \in S : Max(S) >= y
  BY <1>2 DEF Max
<1>5. Min(S) \in S /\ \A y \in S : Min(S) <= y
  BY <1>3 DEF Min
<1> QED BY <1>1, <1>4, <1>5

\* The scan stops at the occupied level that comes next after the best one.
LEMMA NextBestIsExtreme ==
  ASSUME NEW s \in Sides, NEW heads, best[s] \in Int
  PROVE  LET behind == {l \in Occupied(heads) : Ahead(s, best[s], l)}
         IN  IF behind = {} THEN NextBest(s, heads) = Nil
             ELSE /\ NextBest(s, heads) \in behind
                  /\ \A l \in behind : ~Ahead(s, l, NextBest(s, heads))
<1> DEFINE behind == {l \in Occupied(heads) : Ahead(s, best[s], l)}
<1>1. behind \in SUBSET Levels
  BY DEF Occupied
<1>2. CASE behind = {}
  BY <1>2 DEF NextBest, NextBehind
<1>3. CASE behind # {}
  <2>1. /\ Max(behind) \in behind /\ \A x \in behind : x <= Max(behind)
        /\ Min(behind) \in behind /\ \A x \in behind : x >= Min(behind)
    BY <1>1, <1>3, ExtremeLevels
  <2>2. behind \subseteq Int
    BY <1>1 DEF Levels
  <2> HIDE DEF behind
  <2>3. NextBest(s, heads) = IF s = "buy" THEN Max(behind) ELSE Min(behind)
    BY <1>3 DEF NextBest, NextBehind, behind
  <2>4. \A l \in behind : ~Ahead(s, l, NextBest(s, heads))
    <3> TAKE l \in behind
    <3>1. l \in Int /\ Max(behind) \in Int /\ Min(behind) \in Int
      BY <2>1, <2>2
    <3>2. l <= Max(behind) /\ l >= Min(behind)
      BY <2>1
    <3> QED BY <2>3, <3>1, <3>2 DEF Ahead
  <2> QED BY <2>1, <2>3, <2>4, <1>3 DEF behind
<1> QED BY <1>2, <1>3

\* A price index is a natural below the modulus, and one in range is a level.
LEMMA IndexRange ==
  ASSUME NEW p \in Int
  PROVE  /\ PriceIndex(p) \in 0 .. IndexModulus - 1
         /\ InRange(p) => PriceIndex(p) \in Levels
<1>1. IndexModulus \in Nat /\ IndexModulus > 0 /\ NumLevels \in Int /\ p - MinPrice \in Int
  BY BookAssumption DEF NumLevels
<1>2. PriceIndex(p) \in 0 .. IndexModulus - 1
  BY <1>1 DEF PriceIndex
<1> QED BY <1>1, <1>2 DEF InRange, Levels

\* There are finitely many levels, and counting the occupied ones detects none.
LEMMA OccupiedFinite ==
  ASSUME NEW heads
  PROVE  /\ IsFiniteSet(Occupied(heads))
         /\ Cardinality(Occupied(heads)) \in Nat
         /\ Cardinality(Occupied(heads)) = 0 <=> Occupied(heads) = {}
<1>1. IsFiniteSet(Levels)
  BY BookAssumption, FS_Interval DEF Levels, NumLevels
<1>2. IsFiniteSet(Occupied(heads))
  BY <1>1, FS_Subset DEF Occupied
<1> QED BY <1>2, FS_CardinalityType, FS_EmptySet

-----------------------------------------------------------------------------
(* The inductive invariant behind type correctness: the trackers are exact,  *)
(* so the maker of a trade is a node and every index stays in its array.     *)

Sound == TypeOK /\ TrackersExact /\ InRangeWhileBusy /\ CallbackReady

\* When a trade is due, the best opposite level is a level and has a head.
LEMMA MakerExists ==
  ASSUME TypeOK, TrackersExact, CanMatch
  PROVE  /\ Opposite(incoming.side) \in Sides
         /\ best[Opposite(incoming.side)] \in Occupied(head[Opposite(incoming.side)])
         /\ best[Opposite(incoming.side)] \in Levels
         /\ MakerNode \in Nodes
         /\ data[MakerNode] \in [id : Nat, side : Sides, price : Int, qty : Int]
         /\ TradeQty \in Int
<1> DEFINE opp == Opposite(incoming.side)
<1>1. opp \in Sides /\ incoming.qty \in Int
  BY DEF TypeOK, Opposite, Sides
<1>2. best[opp] \in Occupied(head[opp])
  BY <1>1 DEF TrackersExact, CanMatch, BestExists
<1>3. best[opp] \in Levels /\ MakerNode = head[opp][best[opp]] /\ MakerNode # Nil
  BY <1>2 DEF Occupied, MakerNode
<1>4. MakerNode \in Nodes
  BY <1>1, <1>3 DEF TypeOK
<1>5. data[MakerNode] \in [id : Nat, side : Sides, price : Int, qty : Int]
  BY <1>4 DEF TypeOK
<1>6. TradeQty \in Int
  BY <1>1, <1>5 DEF TradeQty
<1> QED BY <1>1, <1>2, <1>3, <1>4, <1>5, <1>6

\* The new book is sound.
LEMMA InitSound == Init => Sound
<1> SUFFICES ASSUME Init PROVE Sound
  OBVIOUS
<1>1. 0 \in Nodes /\ Nil \notin Nodes /\ PoolSize \in Int
  BY BookAssumption DEF Nodes, Nil
<1>2. FreshNext \in [Nodes -> Nodes \cup {Nil}]
  BY BookAssumption DEF FreshNext, Nodes, Nil
<1>3. TypeOK
  BY <1>1, <1>2, BookAssumption DEF Init, TypeOK, EmptyLevels, NoTrade, Sides
<1>4. \A s \in Sides : Occupied(head[s]) = {}
  BY DEF Init, EmptyLevels, Occupied
<1>5. TrackersExact
  BY <1>4, FS_EmptySet DEF Init, TrackersExact
<1> QED BY <1>3, <1>5 DEF Init, Sound, InRangeWhileBusy, CallbackReady

\* Steps that leave the book alone leave TrackersExact alone.
LEMMA SameTrackers ==
  ASSUME TrackersExact, UNCHANGED <<head, trackers>>
  PROVE  TrackersExact'
BY DEF TrackersExact, trackers, Occupied

\* The range check keeps it so.
LEMMA ReceiveSound == Sound /\ Receive => Sound'
<1> SUFFICES ASSUME Sound, Receive PROVE Sound'
  OBVIOUS
<1> USE DEF Sound
<1>1. PICK s \in Sides, p \in Prices, q \in Quantities :
         /\ incoming' = [id |-> incoming.id + 1, side |-> s, price |-> p,
                         original |-> q, qty |-> q]
         /\ openQty' = [openQty EXCEPT ![incoming.id + 1] = q]
         /\ \/ InRange(p) /\ pc' = "match" /\ result' = "none"
            \/ ~InRange(p) /\ pc' = "idle" /\ result' = "Rejected_PriceOutOfRange"
  BY DEF Receive
<1>2. p \in Int /\ q \in Int /\ incoming.id + 1 \in 0 .. MaxOrders
  BY BookAssumption DEF Receive, TypeOK
<1>3. TypeOK'
  BY <1>1, <1>2 DEF Receive, TypeOK, bookVars, pointers, trackers
<1>4. TrackersExact'
  BY SameTrackers DEF Receive, bookVars, pointers
<1>5. InRangeWhileBusy'
  BY <1>1 DEF InRangeWhileBusy, InRange, PriceIndex
<1>6. CallbackReady'
  BY <1>1 DEF CallbackReady
<1> QED BY <1>3, <1>4, <1>5, <1>6

\* The callback is entered with a maker the loop's condition vouches for.
LEMMA ExecuteSound == Sound /\ Execute => Sound'
<1> SUFFICES ASSUME Sound, Execute PROVE Sound'
  OBVIOUS
<1> USE DEF Sound
<1>1. /\ MakerNode \in Nodes /\ TradeQty \in Int
      /\ data[MakerNode].id \in Nat
      /\ best[Opposite(incoming.side)] + MinPrice \in Int
      /\ incoming.id \in Nat
  <2>1. /\ MakerNode \in Nodes /\ TradeQty \in Int
        /\ data[MakerNode] \in [id : Nat, side : Sides, price : Int, qty : Int]
        /\ best[Opposite(incoming.side)] \in Levels
    BY MakerExists DEF Execute
  <2>2. best[Opposite(incoming.side)] + MinPrice \in Int
    BY <2>1, BookAssumption DEF Levels
  <2> QED BY <2>1, <2>2 DEF TypeOK
<1>2. TypeOK'
  BY <1>1 DEF Execute, TypeOK, bookVars, pointers, trackers
<1>3. TrackersExact'
  BY SameTrackers DEF Execute, bookVars, pointers
<1>4. InRangeWhileBusy'
  BY DEF Execute, InRangeWhileBusy, InRange, PriceIndex
<1>5. CallbackReady'
  <2>1. CanMatch'
    BY DEF Execute, CanMatch, BestExists, BestCrosses, bookVars, trackers, Opposite
  <2>2. TradeQty' = TradeQty
    BY DEF Execute, TradeQty, MakerNode, bookVars, pointers, trackers, Opposite
  <2> QED BY <2>1, <2>2 DEF Execute, CallbackReady
<1> QED BY <1>2, <1>3, <1>4, <1>5

\* Steps that end the call and leave the book alone.
LEMMA EndCallSound ==
  ASSUME Sound, UNCHANGED <<bookVars, incoming, trade, openQty>>, pc' = "idle",
         result' \in {"Success", "threw", "Rejected_PoolExhausted"}
  PROVE  Sound'
<1>1. TypeOK'
  BY DEF Sound, TypeOK, bookVars, pointers, trackers
<1>2. TrackersExact'
  BY SameTrackers DEF Sound, bookVars, pointers
<1> QED BY <1>1, <1>2 DEF Sound, InRangeWhileBusy, CallbackReady

\* RemoveNode takes the head of the best level s out: the level keeps its place
\* among the occupied ones, or leaves them and the next one becomes the best.
LEMMA LeaveTrackers ==
  ASSUME TypeOK, TrackersExact, NEW s \in Sides, NEW h \in Nodes,
         best[s] \in Occupied(head[s]), h = head[s][best[s]],
         MakerLeaves(s, best[s], h)
  PROVE  /\ next' \in [Nodes -> Nodes \cup {Nil}]
         /\ prev' \in [Nodes -> Nodes \cup {Nil}]
         /\ head' \in [Sides -> [Levels -> Nodes \cup {Nil}]]
         /\ tail' \in [Sides -> [Levels -> Nodes \cup {Nil}]]
         /\ freeHead' \in Nodes
         /\ levelCount' \in [Sides -> Int]
         /\ best' \in [Sides -> Levels \cup {Nil}]
         /\ TrackersExact'
<1> DEFINE l == best[s]
<1>1. l \in Levels /\ next[h] \in Nodes \cup {Nil} /\ prev[h] \in Nodes \cup {Nil}
      /\ freeHead \in Nodes \cup {Nil}
  BY DEF Occupied, TypeOK
<1>2. /\ next' \in [Nodes -> Nodes \cup {Nil}]
      /\ prev' \in [Nodes -> Nodes \cup {Nil}]
      /\ head' \in [Sides -> [Levels -> Nodes \cup {Nil}]]
      /\ tail' \in [Sides -> [Levels -> Nodes \cup {Nil}]]
      /\ freeHead' \in Nodes
  BY <1>1 DEF MakerLeaves, Return, TypeOK
<1>3. /\ \A t \in Sides : t # s => head'[t] = head[t]
      /\ \A k \in Levels : k # l => head'[s][k] = head[s][k]
  BY <1>1 DEF MakerLeaves, TypeOK
<1>4. CASE head'[s][l] # Nil
  <2>1. UNCHANGED trackers
    BY <1>4 DEF MakerLeaves
  <2>2. \A t \in Sides : Occupied(head'[t]) = Occupied(head[t])
    BY <1>3, <1>4 DEF Occupied
  <2>3. TrackersExact'
    BY <2>1, <2>2 DEF TrackersExact, trackers
  <2> QED BY <1>2, <2>1, <2>3 DEF TypeOK, trackers
<1>5. CASE head'[s][l] = Nil
  <2> DEFINE behind == {k \in Occupied(head'[s]) : Ahead(s, l, k)}
  <2>1. /\ levelCount' = [levelCount EXCEPT ![s] = @ - 1]
        /\ best' = [best EXCEPT ![s] = NextBest(s, head'[s])]
    BY <1>5 DEF MakerLeaves
  <2>2. \A t \in Sides : t # s => Occupied(head'[t]) = Occupied(head[t])
    BY <1>3 DEF Occupied
  <2>3. Occupied(head'[s]) = Occupied(head[s]) \ {l}
    BY <1>3, <1>5 DEF Occupied
  <2>4. Cardinality(Occupied(head'[s])) = Cardinality(Occupied(head[s])) - 1
    <3>1. IsFiniteSet(Occupied(head[s])) /\ l \in Occupied(head[s])
      BY OccupiedFinite
    <3>2. Cardinality(Occupied(head[s]) \ {l}) = Cardinality(Occupied(head[s])) - 1
      BY <3>1, FS_RemoveElement
    <3> QED BY <2>3, <3>2
  <2>5. behind = Occupied(head'[s])
    <3>1. \A k \in Occupied(head[s]) : ~Ahead(s, k, l)
      BY DEF TrackersExact
    <3>2. l \in Int /\ \A k \in Occupied(head[s]) : k \in Int
      BY DEF Occupied, Levels
    <3> QED BY <2>3, <3>1, <3>2 DEF Ahead
  <2>6. /\ behind = {} => NextBest(s, head'[s]) = Nil
        /\ behind # {} => /\ NextBest(s, head'[s]) \in behind
                          /\ \A k \in behind : ~Ahead(s, k, NextBest(s, head'[s]))
    BY <1>1, NextBestIsExtreme DEF Levels
  <2>7. NextBest(s, head'[s]) \in Levels \cup {Nil}
    BY <2>6 DEF Occupied
  <2>8. levelCount' \in [Sides -> Int] /\ best' \in [Sides -> Levels \cup {Nil}]
    BY <2>1, <2>7 DEF TypeOK
  <2>9. TrackersExact'
    <3> SUFFICES ASSUME NEW t \in Sides
                 PROVE  /\ levelCount'[t] = Cardinality(Occupied(head'[t]))
                        /\ IF Occupied(head'[t]) = {} THEN best'[t] = Nil
                           ELSE /\ best'[t] \in Occupied(head'[t])
                                /\ \A k \in Occupied(head'[t]) : ~Ahead(t, k, best'[t])
      BY DEF TrackersExact
    <3>1. CASE t = s
      <4>1. levelCount'[s] = Cardinality(Occupied(head'[s]))
        BY <2>1, <2>4 DEF TrackersExact, TypeOK
      <4>2. best'[s] = NextBest(s, head'[s])
        BY <2>1 DEF TypeOK
      <4> QED BY <3>1, <4>1, <4>2, <2>5, <2>6
    <3>2. CASE t # s
      <4>1. levelCount'[t] = levelCount[t] /\ best'[t] = best[t]
        BY <2>1, <3>2 DEF TypeOK
      <4> QED BY <2>2, <3>2, <4>1 DEF TrackersExact
    <3> QED BY <3>1, <3>2
  <2> QED BY <1>2, <2>8, <2>9
<1> QED BY <1>4, <1>5

\* A maker shrinks, or leaves its level and perhaps empties it.
LEMMA FillSound == Sound /\ Fill => Sound'
<1> SUFFICES ASSUME Sound, Fill PROVE Sound'
  OBVIOUS
<1> USE DEF Sound
<1> DEFINE s == Opposite(incoming.side)
           h == MakerNode
<1>1. /\ s \in Sides /\ h \in Nodes /\ best[s] \in Occupied(head[s])
      /\ h = head[s][best[s]]
  BY MakerExists DEF Fill, CallbackReady, MakerNode
<1>2. /\ pc' = "match" /\ UNCHANGED <<trade, result>>
      /\ incoming' = [incoming EXCEPT !.qty = @ - trade.qty]
      /\ data' = [data EXCEPT ![h].qty = @ - trade.qty]
      /\ openQty' = [i \in OrderIds |-> IF i \in {trade.maker, trade.taker}
                                         THEN openQty[i] - trade.qty ELSE openQty[i]]
      /\ MakerStays(h) \/ MakerLeaves(s, best[s], h)
  BY DEF Fill, Debit
<1>3. trade.qty \in Int /\ data[h].qty - trade.qty \in Int /\ incoming.qty - trade.qty \in Int
  BY <1>1 DEF TypeOK
<1>4. /\ data' \in [Nodes -> [id : Nat, side : Sides, price : Int, qty : Int]]
      /\ incoming' \in [id : 0 .. MaxOrders, side : Sides, price : Int,
                        original : Int, qty : Int]
      /\ openQty' \in [OrderIds -> Int]
  <2>1. data' \in [Nodes -> [id : Nat, side : Sides, price : Int, qty : Int]]
    <3>1. [data[h] EXCEPT !.qty = @ - trade.qty] \in
            [id : Nat, side : Sides, price : Int, qty : Int]
      <4> data[h] \in [id : Nat, side : Sides, price : Int, qty : Int]
        BY <1>1 DEF TypeOK
      <4> HIDE DEF h
      <4> QED BY <1>3
    <3>2. data' = [data EXCEPT ![h] = [data[h] EXCEPT !.qty = @ - trade.qty]]
      BY <1>2
    <3> QED BY <1>1, <3>1, <3>2 DEF TypeOK
  <2>2. incoming' \in [id : 0 .. MaxOrders, side : Sides, price : Int,
                       original : Int, qty : Int]
    BY <1>2, <1>3 DEF TypeOK
  <2>3. openQty' \in [OrderIds -> Int]
    BY <1>2, <1>3 DEF TypeOK
  <2> QED BY <2>1, <2>2, <2>3
<1>5. TypeOK' /\ TrackersExact'
  <2>0. pc' = "match" /\ trade' = trade /\ result' = result
    BY <1>2
  <2>1. CASE MakerStays(h)
    <3>1. TrackersExact'
      BY <2>1, SameTrackers DEF MakerStays, pointers
    <3> QED BY <1>4, <2>0, <2>1, <3>1 DEF MakerStays, TypeOK, pointers, trackers
  <2>2. CASE MakerLeaves(s, best[s], h)
    <3>1. /\ next' \in [Nodes -> Nodes \cup {Nil}]
          /\ prev' \in [Nodes -> Nodes \cup {Nil}]
          /\ head' \in [Sides -> [Levels -> Nodes \cup {Nil}]]
          /\ tail' \in [Sides -> [Levels -> Nodes \cup {Nil}]]
          /\ freeHead' \in Nodes
          /\ levelCount' \in [Sides -> Int]
          /\ best' \in [Sides -> Levels \cup {Nil}]
          /\ TrackersExact'
      BY <1>1, <2>2, LeaveTrackers
    <3> QED BY <1>4, <2>0, <3>1 DEF TypeOK
  <2> QED BY <1>2, <2>1, <2>2
<1>6. InRangeWhileBusy'
  <2>1. incoming'.price = incoming.price
    BY <1>2 DEF TypeOK
  <2> QED BY <2>1 DEF Fill, InRangeWhileBusy, InRange, PriceIndex
<1>7. CallbackReady'
  BY <1>2 DEF CallbackReady
<1> QED BY <1>5, <1>6, <1>7

\* AddToBook: a level that was empty joins the occupied ones, and is the best if
\* it is ahead of the one that was.
LEMMA OpenLevelTrackers ==
  ASSUME TypeOK, TrackersExact, NEW s \in Sides, NEW l \in Levels, NEW n \in Nodes,
         OpenLevel(s, l, n)
  PROVE  /\ levelCount' \in [Sides -> Int]
         /\ best' \in [Sides -> Levels \cup {Nil}]
         /\ TrackersExact'
<1>1. /\ head[s][l] = Nil
      /\ head' = [head EXCEPT ![s][l] = n]
      /\ levelCount' = [levelCount EXCEPT ![s] = @ + 1]
      /\ best' = IF best[s] = Nil \/ Ahead(s, l, best[s])
                   THEN [best EXCEPT ![s] = l] ELSE best
  BY DEF OpenLevel
<1>2. /\ levelCount' \in [Sides -> Int]
      /\ best' \in [Sides -> Levels \cup {Nil}]
  BY <1>1 DEF TypeOK
<1>3. n # Nil
  BY BookAssumption DEF Nodes, Nil
<1>4. /\ Occupied(head'[s]) = Occupied(head[s]) \cup {l}
      /\ l \notin Occupied(head[s])
      /\ \A t \in Sides : t # s => Occupied(head'[t]) = Occupied(head[t])
  BY <1>1, <1>3 DEF Occupied, TypeOK
<1>5. Cardinality(Occupied(head'[s])) = Cardinality(Occupied(head[s])) + 1
  BY <1>4, OccupiedFinite, FS_AddElement
<1>6. \A k \in Occupied(head'[s]) : k \in Int
  BY DEF Occupied, Levels
<1>7. SUFFICES ASSUME NEW t \in Sides
               PROVE  /\ levelCount'[t] = Cardinality(Occupied(head'[t]))
                      /\ IF Occupied(head'[t]) = {} THEN best'[t] = Nil
                         ELSE /\ best'[t] \in Occupied(head'[t])
                              /\ \A k \in Occupied(head'[t]) : ~Ahead(t, k, best'[t])
  BY <1>2 DEF TrackersExact
<1>8. CASE t # s
  <2>1. levelCount'[t] = levelCount[t] /\ best'[t] = best[t]
    BY <1>1, <1>8 DEF TypeOK
  <2> QED BY <1>4, <1>8, <2>1 DEF TrackersExact
<1>9. CASE t = s
  <2>1. levelCount'[s] = Cardinality(Occupied(head'[s]))
    BY <1>1, <1>5 DEF TrackersExact, TypeOK
  <2>2. l \in Int /\ ~Ahead(s, l, l)
    BY DEF Levels, Ahead
  <2>3. CASE Occupied(head[s]) = {}
    <3>1. best'[s] = l /\ Occupied(head'[s]) = {l}
      BY <1>1, <1>4, <2>3 DEF TrackersExact, TypeOK
    <3> QED BY <1>9, <2>1, <2>2, <3>1
  <2>4. CASE Occupied(head[s]) # {}
    <3>1. /\ best[s] \in Occupied(head[s])
          /\ \A k \in Occupied(head[s]) : ~Ahead(s, k, best[s])
      BY <2>4 DEF TrackersExact
    <3>2. best[s] \in Int /\ best[s] # Nil
      BY <3>1, BookAssumption DEF Occupied, Levels, Nil
    <3>3. best'[s] = IF Ahead(s, l, best[s]) THEN l ELSE best[s]
      BY <1>1, <3>2 DEF TypeOK
    <3>4. \A k \in Occupied(head'[s]) : ~Ahead(s, k, best'[s])
      <4> TAKE k \in Occupied(head'[s])
      <4>1. k \in Int /\ (k = l \/ ~Ahead(s, k, best[s]))
        BY <1>4, <1>6, <3>1
      <4> QED BY <2>2, <3>2, <3>3, <4>1 DEF Ahead
    <3>5. best'[s] \in Occupied(head'[s])
      BY <1>4, <3>1, <3>3
    <3> QED BY <1>9, <2>1, <3>4, <3>5
  <2> QED BY <2>3, <2>4
<1> QED BY <1>8, <1>9

\* An order joins a level or opens one.
LEMMA RestSound == Sound /\ Rest => Sound'
<1> SUFFICES ASSUME Sound, Rest PROVE Sound'
  OBVIOUS
<1> USE DEF Sound
<1> DEFINE n == freeHead
           s == incoming.side
           l == PriceIndex(incoming.price)
<1>1. n \in Nodes /\ s \in Sides /\ l \in Levels
  BY IndexRange DEF Rest, PoolEmpty, TypeOK, InRangeWhileBusy
<1>2. /\ freeHead' = next[n]
      /\ data' = [data EXCEPT ![n] = [id |-> incoming.id, side |-> s,
                                      price |-> incoming.price, qty |-> incoming.qty]]
      /\ tail' = [tail EXCEPT ![s][l] = n]
      /\ OpenLevel(s, l, n) \/ JoinLevel(s, l, n)
      /\ result' = "Success" /\ pc' = "idle"
      /\ UNCHANGED <<incoming, trade, openQty>>
  BY DEF Rest
<1>3. /\ freeHead' \in Nodes \cup {Nil}
      /\ data' \in [Nodes -> [id : Nat, side : Sides, price : Int, qty : Int]]
      /\ tail' \in [Sides -> [Levels -> Nodes \cup {Nil}]]
  <2> [id |-> incoming.id, side |-> s, price |-> incoming.price, qty |-> incoming.qty]
        \in [id : Nat, side : Sides, price : Int, qty : Int]
    BY DEF TypeOK
  <2> HIDE DEF n, s, l
  <2> QED BY <1>1, <1>2 DEF TypeOK
<1>4. /\ next' \in [Nodes -> Nodes \cup {Nil}]
      /\ prev' \in [Nodes -> Nodes \cup {Nil}]
      /\ head' \in [Sides -> [Levels -> Nodes \cup {Nil}]]
  <2>1. tail[s][l] \in Nodes \cup {Nil}
    BY <1>1 DEF TypeOK
  <2> HIDE DEF n, s, l
  <2>2. CASE OpenLevel(s, l, n)
    BY <1>1, <2>2 DEF TypeOK, OpenLevel
  <2>3. CASE JoinLevel(s, l, n)
    BY <1>1, <2>1, <2>3 DEF TypeOK, JoinLevel
  <2> QED BY <1>2, <2>2, <2>3
<1>5. /\ levelCount' \in [Sides -> Int]
      /\ best' \in [Sides -> Levels \cup {Nil}]
      /\ TrackersExact'
  <2>1. CASE OpenLevel(s, l, n)
    BY <1>1, <2>1, OpenLevelTrackers
  <2>2. CASE JoinLevel(s, l, n)
    <3>1. UNCHANGED <<head, trackers>>
      BY <2>2 DEF JoinLevel
    <3> QED BY <3>1, SameTrackers DEF TypeOK, trackers
  <2> QED BY <1>2, <2>1, <2>2
<1>6. TypeOK'
  <2>1. /\ pc' \in {"idle", "match", "callback"}
        /\ result' \in {"none", "Success", "threw", "Rejected_PriceOutOfRange",
                        "Rejected_PoolExhausted"}
        /\ UNCHANGED <<incoming, trade, openQty>>
    BY <1>2
  <2> HIDE DEF n, s, l
  <2> QED BY <1>3, <1>4, <1>5, <2>1 DEF TypeOK
<1> QED BY <1>2, <1>5, <1>6 DEF InRangeWhileBusy, CallbackReady

\* Clear is a new book.
LEMMA ClearSound == Sound /\ Clear => Sound'
<1> SUFFICES ASSUME Sound, Clear PROVE Sound'
  OBVIOUS
<1> USE DEF Sound
<1>1. 0 \in Nodes /\ FreshNext \in [Nodes -> Nodes \cup {Nil}]
  BY BookAssumption DEF FreshNext, Nodes, Nil
<1>2. TypeOK'
  BY <1>1 DEF Clear, TypeOK, EmptyLevels, callVars
<1>3. \A s \in Sides : Occupied(head'[s]) = {}
  BY DEF Clear, EmptyLevels, Occupied
<1>4. TrackersExact'
  BY <1>3, FS_EmptySet DEF Clear, TrackersExact
<1> QED BY <1>2, <1>4 DEF Clear, callVars, InRangeWhileBusy, CallbackReady

\* Sound is inductive.
LEMMA NextSound == Sound /\ [Next]_vars => Sound'
<1> SUFFICES ASSUME Sound, [Next]_vars PROVE Sound'
  OBVIOUS
<1>1. CASE Receive
  BY <1>1, ReceiveSound
<1>2. CASE Execute
  BY <1>2, ExecuteSound
<1>3. CASE Fill
  BY <1>3, FillSound
<1>4. CASE CallbackThrows \/ RejectExhausted \/ FullyFilled
  BY <1>4, EndCallSound DEF CallbackThrows, RejectExhausted, FullyFilled
<1>5. CASE Rest
  BY <1>5, RestSound
<1>6. CASE Clear
  BY <1>6, ClearSound
<1>7. CASE UNCHANGED vars
  <2>1. TypeOK'
    BY <1>7 DEF Sound, TypeOK, vars, bookVars, pointers, trackers, callVars
  <2>2. TrackersExact'
    BY <1>7, SameTrackers DEF Sound, vars, bookVars, pointers
  <2>3. InRangeWhileBusy'
    BY <1>7 DEF Sound, vars, callVars, InRangeWhileBusy, InRange, PriceIndex
  <2>4. CallbackReady'
    BY <1>7 DEF Sound, vars, bookVars, pointers, trackers, callVars, CallbackReady,
                CanMatch, BestExists, BestCrosses, TradeQty, MakerNode,
                Opposite
  <2> QED BY <2>1, <2>2, <2>3, <2>4 DEF Sound
<1> QED BY <1>1, <1>2, <1>3, <1>4, <1>5, <1>6, <1>7 DEF Next, Step

\* The strengthened invariant holds in every state of every execution.
THEOREM AlwaysSound == Spec => []Sound
<1>1. Init => Sound
  BY InitSound
<1>2. Sound /\ [Next]_vars => Sound'
  BY NextSound
<1> QED BY <1>1, <1>2, PTL DEF Spec

\* Node and level indexes never leave their arrays (OrderPool.Get and the level
\* accesses of OrderBook.cs skip the bounds checks).
THEOREM TypeCorrect == Spec => []TypeOK
<1>1. Sound => TypeOK
  BY DEF Sound
<1> QED BY <1>1, AlwaysSound, PTL

\* The cached level counts and best indexes are exact in every state.
THEOREM TrackersAlwaysExact == Spec => []TrackersExact
<1>1. Sound => TrackersExact
  BY DEF Sound
<1> QED BY <1>1, AlwaysSound, PTL

-----------------------------------------------------------------------------
(* A refused order is untouched.                                             *)

Wholeness == NoResultWhileBusy /\ RoomOnceTraded /\ RefusedWhole

\* Wholeness is inductive, given Sound.
LEMMA RefusedWholeStep ==
  Sound /\ Wholeness /\ [Next]_vars => Wholeness'
<1> SUFFICES ASSUME Sound, Wholeness, [Next]_vars PROVE Wholeness'
  OBVIOUS
<1> USE DEF Wholeness, NoResultWhileBusy, RoomOnceTraded, RefusedWhole
<1>1. CASE Receive
  BY <1>1 DEF Receive
<1>2. CASE Execute
  BY <1>2 DEF Execute, bookVars, pointers
<1>3. CASE Fill
  <2> DEFINE s == Opposite(incoming.side)
             h == MakerNode
  <2>1. /\ h \in Nodes /\ data[h].qty \in Int /\ incoming.qty \in Int
        /\ trade.qty = TradeQty
    BY <1>3, MakerExists DEF Fill, Sound, CallbackReady, TypeOK
  <2>2. CASE MakerStays(h)
    <3>1. trade.qty = incoming.qty
      BY <2>1, <2>2 DEF MakerStays, TradeQty
    <3>2. incoming'.qty = 0
      BY <1>3, <2>1, <3>1 DEF Fill, Debit, Sound, TypeOK
    <3>3. pc' # "idle" /\ pc # "idle" /\ result' = result
      BY <1>3 DEF Fill
    <3> QED BY <3>2, <3>3
  <2>3. CASE MakerLeaves(s, best[s], h)
    <3>1. freeHead' # Nil
      BY <2>1, <2>3, BookAssumption DEF MakerLeaves, Return, Nodes, Nil
    <3>2. pc' # "idle" /\ pc # "idle" /\ result' = result
      BY <1>3 DEF Fill
    <3> QED BY <3>1, <3>2
  <2> QED BY <1>3, <2>2, <2>3 DEF Fill
<1>4. CASE RejectExhausted
  BY <1>4 DEF RejectExhausted, PoolEmpty
<1>5. CASE CallbackThrows \/ FullyFilled \/ Rest
  BY <1>5 DEF CallbackThrows, FullyFilled, Rest
<1>6. CASE Clear
  BY <1>6 DEF Clear, callVars
<1>7. CASE UNCHANGED vars
  BY <1>7 DEF vars, callVars, bookVars, pointers
<1> QED BY <1>1, <1>2, <1>3, <1>4, <1>5, <1>6, <1>7 DEF Next, Step

\* An order that ProcessOrder refuses for want of a node has traded nothing.
THEOREM RefusedAlwaysWhole == Spec => []RefusedWhole
<1>1. Init => Wholeness
  BY DEF Init, Wholeness, NoResultWhileBusy, RoomOnceTraded, RefusedWhole
<1>2. Sound /\ Wholeness /\ [Next]_vars => Wholeness'
  BY RefusedWholeStep
<1>3. Wholeness => RefusedWhole
  BY DEF Wholeness
<1> QED BY <1>1, <1>2, <1>3, AlwaysSound, PTL DEF Spec

-----------------------------------------------------------------------------
(* The sides never cross, provided no price the book is given differs from a *)
(* covered one by a multiple of 2^32.                                        *)

\* Without aliasing, only covered prices pass the range check, each to its level.
LEMMA NoAliasingIndex ==
  ASSUME NoAliasing, NEW p \in Prices, InRange(p)
  PROVE  PriceIndex(p) = p - MinPrice /\ p \in MinPrice .. MaxPrice
<1> DEFINE x == p - MinPrice
<1>1. /\ IndexModulus \in Nat /\ IndexModulus > 0 /\ p \in Int /\ x \in Int
      /\ NumLevels = MaxPrice - MinPrice + 1 /\ MinPrice \in Int /\ MaxPrice \in Int
  BY BookAssumption DEF NumLevels
<1>2. x \in (NumLevels - IndexModulus) .. (IndexModulus - 1)
  BY DEF NoAliasing
<1>3. x % IndexModulus < NumLevels
  BY DEF InRange, PriceIndex
<1>4. x >= 0
  <2> SUFFICES ASSUME x < 0 PROVE FALSE
    BY <1>1
  <2> DEFINE q == x \div IndexModulus
             r == x % IndexModulus
  <2>1. q \in Int /\ r \in 0 .. IndexModulus - 1 /\ x = IndexModulus * q + r
    BY <1>1
  <2>2. r < NumLevels /\ NumLevels - IndexModulus <= x
    BY <1>1, <1>2, <1>3
  <2> HIDE DEF q, r, x
  <2>3. CASE q >= 0
    <3>1. IndexModulus * q >= 0
      BY <1>1, <2>1, <2>3
    <3> QED BY <1>1, <2>1, <3>1
  <2>4. CASE q <= -1
    <3>1. IndexModulus * q <= -IndexModulus
      BY <1>1, <2>1, <2>4
    <3> QED BY <1>1, <2>1, <2>2, <3>1
  <2> QED BY <2>1, <2>3, <2>4
<1>5. x % IndexModulus = x
  BY <1>1, <1>2, <1>4
<1> QED BY <1>1, <1>3, <1>4, <1>5 DEF PriceIndex

\* Without aliasing an index remains the price less the lowest.
LEMMA IndexIsPriceStep ==
  ASSUME NoAliasing, Sound, IndexIsPrice, [Next]_vars
  PROVE  IndexIsPrice'
<1>1. CASE Receive
  <2>1. PICK p \in Prices :
          incoming'.price = p /\ (InRange(p) \/ pc' = "idle")
    BY <1>1 DEF Receive
  <2> QED BY <2>1, NoAliasingIndex DEF IndexIsPrice, PriceIndex
<1>2. CASE Fill
  <2>1. incoming'.price = incoming.price
    BY <1>2 DEF Fill, Debit, Sound, TypeOK
  <2> QED BY <1>2, <2>1 DEF Fill, IndexIsPrice, PriceIndex
<1>3. CASE Execute \/ CallbackThrows \/ Rest \/ RejectExhausted \/ FullyFilled
           \/ Clear \/ UNCHANGED vars
  BY <1>3 DEF Execute, CallbackThrows, Rest, RejectExhausted, FullyFilled, Clear,
              vars, callVars, IndexIsPrice, PriceIndex
<1> QED BY <1>1, <1>2, <1>3 DEF Next, Step

\* An order that rests does so beyond the best level of the other side.
LEMMA RestsBehind ==
  ASSUME Sound, IndexIsPrice, Rest, incoming.side \in Sides,
         NEW k \in Occupied(head[Opposite(incoming.side)])
  PROVE  IF incoming.side = "buy" THEN PriceIndex(incoming.price) < k
                                  ELSE k < PriceIndex(incoming.price)
<1> DEFINE s == incoming.side
           opp == Opposite(s)
           l == PriceIndex(incoming.price)
<1>1. /\ opp \in Sides /\ opp = IF s = "buy" THEN "sell" ELSE "buy"
      /\ l = incoming.price - MinPrice /\ incoming.price \in Int /\ MinPrice \in Int
  BY BookAssumption DEF Opposite, Sides, Rest, IndexIsPrice, Sound, TypeOK
<1>2. Occupied(head[opp]) # {} /\ k \in Int
  BY DEF Occupied, Levels
<1>3. /\ best[opp] \in Occupied(head[opp]) /\ best[opp] \in Levels
      /\ ~Ahead(opp, k, best[opp])
      /\ levelCount[opp] = Cardinality(Occupied(head[opp]))
  BY <1>1, <1>2 DEF Sound, TrackersExact, Occupied
<1>4. best[opp] \in Int /\ best[opp] # Nil /\ levelCount[opp] > 0
  BY <1>2, <1>3, BookAssumption, OccupiedFinite DEF Levels, Nil
<1>5. ~(IF s = "buy" THEN best[opp] + MinPrice <= incoming.price
                     ELSE best[opp] + MinPrice >= incoming.price)
  BY <1>4 DEF Rest, CanMatch, BestExists, BestCrosses
<1>6. CASE s = "buy"
  <2>1. best[opp] <= k
    BY <1>1, <1>2, <1>3, <1>4, <1>6 DEF Ahead
  <2> QED BY <1>1, <1>2, <1>4, <1>5, <1>6, <2>1
<1>7. CASE s # "buy"
  <2>1. k <= best[opp]
    BY <1>1, <1>2, <1>3, <1>4, <1>7 DEF Ahead
  <2> QED BY <1>1, <1>2, <1>4, <1>5, <1>7, <2>1
<1> QED BY <1>6, <1>7

\* Steps other than Rest occupy no new level.
LEMMA UncrossedIfFewer ==
  ASSUME Uncrossed, \A t \in Sides : Occupied(head'[t]) \subseteq Occupied(head[t])
  PROVE  Uncrossed'
BY DEF Uncrossed, Sides

\* An order is put in the book only when no level crosses it.
LEMMA UncrossedStep ==
  ASSUME Sound, IndexIsPrice, Uncrossed, [Next]_vars
  PROVE  Uncrossed'
<1>1. CASE Fill
  <2> DEFINE s == Opposite(incoming.side)
  <2>1. /\ s \in Sides /\ best[s] \in Occupied(head[s])
    BY <1>1, MakerExists DEF Fill, Sound, CallbackReady
  <2>2. CASE MakerStays(MakerNode)
    BY <2>2, UncrossedIfFewer DEF MakerStays, pointers
  <2>3. CASE MakerLeaves(s, best[s], MakerNode)
    <3>1. \A t \in Sides, k \in Levels :
             head'[t][k] = head[t][k] \/ (t = s /\ k = best[s])
      BY <2>1, <2>3 DEF MakerLeaves, Sound, TypeOK
    <3>2. \A t \in Sides : Occupied(head'[t]) \subseteq Occupied(head[t])
      BY <2>1, <3>1 DEF Occupied
    <3> QED BY <3>2, UncrossedIfFewer
  <2> QED BY <1>1, <2>2, <2>3 DEF Fill
<1>2. CASE Rest
  <2> DEFINE s == incoming.side
             l == PriceIndex(incoming.price)
  <2>1. s \in Sides /\ l \in Levels /\ l \in Int
    BY <1>2, IndexRange DEF Rest, Sound, TypeOK, InRangeWhileBusy, Levels
  <2>2. CASE OpenLevel(s, l, freeHead)
    <3>1. /\ \A t \in Sides : t # s => Occupied(head'[t]) = Occupied(head[t])
          /\ Occupied(head'[s]) \subseteq Occupied(head[s]) \cup {l}
      BY <2>1, <2>2 DEF OpenLevel, Occupied, Sound, TypeOK
    <3>2. CASE s = "buy"
      <4>1. \A k \in Occupied(head["sell"]) : l < k
        BY <1>2, <2>1, <3>2, RestsBehind DEF Opposite
      <4> QED BY <3>1, <3>2, <4>1 DEF Uncrossed, Sides
    <3>3. CASE s = "sell"
      <4>1. \A k \in Occupied(head["buy"]) : k < l
        BY <1>2, <2>1, <3>3, RestsBehind DEF Opposite
      <4> QED BY <3>1, <3>3, <4>1 DEF Uncrossed, Sides
    <3> QED BY <2>1, <3>2, <3>3 DEF Sides
  <2>3. CASE JoinLevel(s, l, freeHead)
    BY <2>3, UncrossedIfFewer DEF JoinLevel
  <2> QED BY <1>2, <2>2, <2>3 DEF Rest
<1>3. CASE Clear
  <2> \A t \in Sides : Occupied(head'[t]) = {}
    BY <1>3 DEF Clear, EmptyLevels, Occupied
  <2> QED BY UncrossedIfFewer
<1>4. CASE UNCHANGED head
  BY <1>4, UncrossedIfFewer
<1> QED BY <1>1, <1>2, <1>3, <1>4 DEF Next, Step, Receive, Execute, CallbackThrows,
        RejectExhausted, FullyFilled, vars, bookVars, pointers

\* No bid meets an ask in any state, half way through a call included.
THEOREM NeverCrossed == NoAliasing /\ Spec => []Uncrossed
<1> SUFFICES ASSUME NoAliasing PROVE Spec => []Uncrossed
  OBVIOUS
<1>1. Init => IndexIsPrice /\ Uncrossed
  <2> SUFFICES ASSUME Init PROVE IndexIsPrice /\ Uncrossed
    OBVIOUS
  <2>1. \A t \in Sides : Occupied(head[t]) = {}
    BY DEF Init, EmptyLevels, Occupied
  <2> QED BY <2>1 DEF Init, IndexIsPrice, Uncrossed, Sides
<1>2. Sound /\ IndexIsPrice /\ Uncrossed /\ [Next]_vars => (IndexIsPrice /\ Uncrossed)'
  BY IndexIsPriceStep, UncrossedStep
<1> QED BY <1>1, <1>2, AlwaysSound, PTL DEF Spec
==============================================================================
