------------------------------ MODULE OrderBook ------------------------------
(***************************************************************************)
(* The matching core: OrderBook.cs and the OrderPool.cs it allocates from. *)
(*                                                                         *)
(* Price levels are doubly linked lists threaded through a pre-allocated   *)
(* array of nodes; unused nodes form a singly linked free list through the *)
(* same `next' field.  The book also caches, per side, the number of non   *)
(* empty levels and the index of the best one.  One call of ProcessOrder   *)
(* is a sequence of steps here, one per turn of its loop and one more for  *)
(* the trade callback that runs in the middle of a turn.                   *)
(***************************************************************************)
EXTENDS Integers, Sequences, FiniteSetsExt

CONSTANTS
  PoolSize,      \* nodes in the pool
  MinPrice,      \* price of level 0
  MaxPrice,      \* price of the last level
  IndexModulus,  \* 2^32 in the code: a level index is a price cut to an int
  Prices,        \* prices the incoming orders may carry
  Quantities,    \* quantities the incoming orders may carry
  MaxOrders      \* bound of the model: orders handed to ProcessOrder

NumLevels == MaxPrice - MinPrice + 1
Nil       == -1
Nodes     == 0 .. PoolSize - 1
Levels    == 0 .. NumLevels - 1
OrderIds  == 1 .. MaxOrders
Sides     == {"buy", "sell"}

ASSUME BookAssumption ==
  /\ PoolSize \in Nat \ {0}
  /\ MinPrice \in Int /\ MaxPrice \in Int /\ MinPrice < MaxPrice
  /\ IndexModulus \in Nat /\ NumLevels <= IndexModulus
  /\ Prices \subseteq Int
  /\ Quantities \subseteq Int
  /\ MaxOrders \in Nat

Order == [id : Nat, side : Sides, price : Int, original : Int, qty : Int]

VARIABLES
  next, prev,   \* OrderNode.Next, OrderNode.Prev of every node
  data,         \* OrderNode.Id, Side, Price, Quantity of every node
  freeHead,     \* OrderPool._freeHead
  head, tail,   \* the (Head, Tail) pairs of _bids ("buy") and _asks ("sell")
  levelCount,   \* _bidLevelCount, _askLevelCount
  best,         \* _bestBidIndex, _bestAskIndex
  incoming,     \* ProcessOrder's parameter: qty is RemainingQuantity, and
                \* id its place in the order of arrival (the book reads no id)
  trade,        \* the trade last handed to the callback
  result,       \* how the last ProcessOrder ended
  pc,           \* where ProcessOrder is: "idle", "match" or "callback"
  openQty       \* history: what the trade tape leaves open of every order

pointers == <<next, prev, freeHead, head, tail>>
trackers == <<levelCount, best>>
bookVars == <<pointers, data, trackers>>
callVars == <<incoming, trade, result, pc>>
vars     == <<bookVars, callVars, openQty>>

Opposite(s) == IF s = "buy" THEN "sell" ELSE "buy"

\* (int)(price - _minPrice), read as the unsigned number the range check sees.
PriceIndex(price) == (price - MinPrice) % IndexModulus
InRange(price)    == PriceIndex(price) < NumLevels

\* Index i is ahead of index j on side s: higher bids, lower asks.
Ahead(s, i, j) == IF s = "buy" THEN i > j ELSE i < j

Occupied(heads) == {l \in Levels : heads[l] # Nil}

\* The first occupied level behind the best one of side s, or `none'.
NextBehind(s, heads, none) ==
  LET behind == {l \in Occupied(heads) : Ahead(s, best[s], l)}
  IN  IF behind = {} THEN none
      ELSE IF s = "buy" THEN Max(behind) ELSE Min(behind)

\* Mutants: the scan leaves its counter behind; the tracker is not reset.
NextBestOverruns(s, heads) == NextBehind(s, heads, NumLevels)
NextBestNotReset(s, heads) == NextBehind(s, heads, best[s])

\* UpdateBestBidIndex and UpdateBestAskIndex: scan away from the level that
\* was emptied to the first occupied one.
NextBest(s, heads) == NextBehind(s, heads, Nil)

-----------------------------------------------------------------------------
\* Mutant: the loop stops one node early.
FreshNextShort ==
  [n \in Nodes |-> IF n = PoolSize - 1 THEN Nil
                   ELSE IF n = PoolSize - 2 THEN 0 ELSE n + 1]

\* OrderPool.Reset: node i points to node i+1, the last one to nothing.
FreshNext == [n \in Nodes |-> IF n = PoolSize - 1 THEN Nil ELSE n + 1]

EmptyLevels == [s \in Sides |-> [l \in Levels |-> Nil]]

NoTrade == [price |-> 0, qty |-> 0, maker |-> 0, taker |-> 0]

Init ==
  /\ next = FreshNext
  /\ prev = [n \in Nodes |-> Nil]
  /\ data = [n \in Nodes |-> [id |-> 0, side |-> "sell", price |-> 0, qty |-> 0]]
  /\ freeHead = 0
  /\ head = EmptyLevels /\ tail = EmptyLevels
  /\ levelCount = [s \in Sides |-> 0]
  /\ best = [s \in Sides |-> Nil]
  /\ incoming = [id |-> 0, side |-> "sell", price |-> 0, original |-> 0, qty |-> 0]
  /\ trade = NoTrade
  /\ result = "none"
  /\ pc = "idle"
  /\ openQty = [i \in OrderIds |-> 0]

\* ProcessOrder is called; an index outside the levels is rejected at once.
Receive ==
  /\ pc = "idle"
  /\ incoming.id < MaxOrders
  /\ \E s \in Sides, p \in Prices, q \in Quantities :
       /\ incoming' = [id |-> incoming.id + 1, side |-> s, price |-> p,
                       original |-> q, qty |-> q]
       /\ openQty' = [openQty EXCEPT ![incoming.id + 1] = q]
       /\ \/ /\ InRange(p)
             /\ pc' = "match"
             /\ result' = "none"
          \/ /\ ~InRange(p)
             /\ pc' = "idle"
             /\ result' = "Rejected_PriceOutOfRange"
  /\ UNCHANGED <<bookVars, trade>>

\* Mutant: equal prices do not match.
BestCrossesStrictly ==
  LET bestPrice == best[Opposite(incoming.side)] + MinPrice
  IN  IF incoming.side = "buy" THEN bestPrice < incoming.price
                               ELSE bestPrice > incoming.price

BestCrosses ==
  LET bestPrice == best[Opposite(incoming.side)] + MinPrice
  IN  IF incoming.side = "buy" THEN bestPrice <= incoming.price
                               ELSE bestPrice >= incoming.price

BestExists ==
  LET opp == Opposite(incoming.side) IN levelCount[opp] > 0 /\ best[opp] # Nil

\* Mutant: a filled order stays in the loop.
CanMatchWhenFilled == BestExists /\ BestCrosses

\* The condition of the loop together with its two breaks.
CanMatch == incoming.qty > 0 /\ BestExists /\ BestCrosses

\* Mutant: the newest order of the level is taken.
MakerNodeNewest ==
  LET opp == Opposite(incoming.side) IN tail[opp][best[opp]]

\* The head of the best opposite level, and what is traded with it.
MakerNode ==
  LET opp == Opposite(incoming.side) IN head[opp][best[opp]]

TradeQty ==
  LET maker == data[MakerNode]
  IN  IF incoming.qty <= maker.qty THEN incoming.qty ELSE maker.qty

\* First half of a turn: the trade is worked out and handed to onTrade.
Execute ==
  /\ pc = "match"
  /\ CanMatch
  /\ trade' = [price |-> best[Opposite(incoming.side)] + MinPrice,
               qty   |-> TradeQty,
               maker |-> data[MakerNode].id,
               taker |-> incoming.id]
  /\ pc' = "callback"
  /\ UNCHANGED <<bookVars, incoming, result, openQty>>

\* The maker keeps some quantity and stays where it is.
MakerStays(h) ==
  /\ data[h].qty # trade.qty
  /\ UNCHANGED <<pointers, trackers>>

\* Mutant: the node is linked to the free list but not made its head.
ReturnLost(n, links) ==
  next' = [links EXCEPT ![n] = freeHead] /\ freeHead' = freeHead

\* OrderPool.Return, given the links as they are by then.
Return(n, links) ==
  next' = [links EXCEPT ![n] = freeHead] /\ freeHead' = n

\* RemoveNode followed by OrderPool.Return.
MakerLeaves(s, l, h) ==
  LET nx == next[h]
      pv == prev[h]
  IN  /\ data[h].qty = trade.qty
      /\ Return(h, IF pv # Nil THEN [next EXCEPT ![pv] = nx] ELSE next)
      /\ prev' = IF nx # Nil THEN [prev EXCEPT ![nx] = pv] ELSE prev
      /\ head' = IF pv # Nil THEN head ELSE [head EXCEPT ![s][l] = nx]
      /\ tail' = IF nx # Nil THEN tail ELSE [tail EXCEPT ![s][l] = pv]
      /\ \/ /\ head'[s][l] # Nil
            /\ UNCHANGED trackers
         \/ /\ head'[s][l] = Nil
            /\ levelCount' = [levelCount EXCEPT ![s] = @ - 1]
            /\ best' = IF l = best[s]
                         THEN [best EXCEPT ![s] = NextBest(s, head'[s])]
                         ELSE best

\* Mutant: the maker is not debited.
DebitTaker(h) ==
  /\ incoming' = [incoming EXCEPT !.qty = @ - trade.qty]
  /\ UNCHANGED data

Debit(h) ==
  /\ incoming' = [incoming EXCEPT !.qty = @ - trade.qty]
  /\ data' = [data EXCEPT ![h].qty = @ - trade.qty]

\* Second half of a turn: the callback returned, both quantities go down.
Fill ==
  /\ pc = "callback"
  /\ pc' = "match"
  /\ LET s == Opposite(incoming.side)
         h == MakerNode
     IN  /\ Debit(h)
         /\ MakerStays(h) \/ MakerLeaves(s, best[s], h)
  /\ openQty' = [i \in OrderIds |-> IF i \in {trade.maker, trade.taker}
                                     THEN openQty[i] - trade.qty ELSE openQty[i]]
  /\ UNCHANGED <<trade, result>>

\* The callback throws: the exception leaves ProcessOrder before any update.
CallbackThrows ==
  /\ pc = "callback"
  /\ pc' = "idle"
  /\ result' = "threw"
  /\ UNCHANGED <<bookVars, incoming, trade, openQty>>

\* The first order of a level becomes its head and may become the best.
OpenLevel(s, l, n) ==
  /\ head[s][l] = Nil
  /\ next' = [next EXCEPT ![n] = Nil]
  /\ prev' = [prev EXCEPT ![n] = Nil]
  /\ head' = [head EXCEPT ![s][l] = n]
  /\ levelCount' = [levelCount EXCEPT ![s] = @ + 1]
  /\ best' = IF best[s] = Nil \/ Ahead(s, l, best[s])
               THEN [best EXCEPT ![s] = l] ELSE best

\* Mutant: the new tail has no way back.
JoinLevelOneWay(s, l, n) ==
  /\ head[s][l] # Nil
  /\ next' = [next EXCEPT ![n] = Nil, ![tail[s][l]] = n]
  /\ prev' = [prev EXCEPT ![n] = Nil]
  /\ UNCHANGED <<head, trackers>>

\* A later order queues behind the level's tail.
JoinLevel(s, l, n) ==
  /\ head[s][l] # Nil
  /\ next' = [next EXCEPT ![n] = Nil, ![tail[s][l]] = n]
  /\ prev' = [prev EXCEPT ![n] = tail[s][l]]
  /\ UNCHANGED <<head, trackers>>

\* OrderPool.Rent has nothing to give.
PoolEmpty == freeHead = Nil

\* AddToBook with a node rented from the pool.
Rest ==
  /\ pc = "match" /\ ~CanMatch /\ incoming.qty > 0
  /\ ~PoolEmpty
  /\ LET n == freeHead
         s == incoming.side
         l == PriceIndex(incoming.price)
     IN  /\ freeHead' = next[n]
         /\ data' = [data EXCEPT ![n] = [id |-> incoming.id, side |-> s,
                                         price |-> incoming.price,
                                         qty |-> incoming.qty]]
         /\ tail' = [tail EXCEPT ![s][l] = n]
         /\ OpenLevel(s, l, n) \/ JoinLevel(s, l, n)
  /\ result' = "Success"
  /\ pc' = "idle"
  /\ UNCHANGED <<incoming, trade, openQty>>

\* AddToBook finds the pool empty.
RejectExhausted ==
  /\ pc = "match" /\ ~CanMatch /\ incoming.qty > 0
  /\ PoolEmpty
  /\ result' = "Rejected_PoolExhausted"
  /\ pc' = "idle"
  /\ UNCHANGED <<bookVars, incoming, trade, openQty>>

\* Nothing is left of the order (or it never asked for anything).
FullyFilled ==
  /\ pc = "match" /\ incoming.qty <= 0
  /\ result' = "Success"
  /\ pc' = "idle"
  /\ UNCHANGED <<bookVars, incoming, trade, openQty>>

\* Clear: the free list and the levels start afresh, node data stays behind.
Clear ==
  /\ pc = "idle"
  /\ next' = FreshNext
  /\ prev' = [n \in Nodes |-> Nil]
  /\ freeHead' = 0
  /\ head' = EmptyLevels /\ tail' = EmptyLevels
  /\ levelCount' = [s \in Sides |-> 0]
  /\ best' = [s \in Sides |-> Nil]
  /\ UNCHANGED <<data, callVars, openQty>>

Step == Execute \/ Fill \/ CallbackThrows \/ Rest \/ RejectExhausted \/ FullyFilled

Next == Receive \/ Step \/ Clear

\* A call that has begun keeps running: it is ordinary sequential code.
Spec == Init /\ [][Next]_vars
FairSpec == Spec /\ WF_vars(Step)

-----------------------------------------------------------------------------
\* Every node index, level index and head, tail or tracker stays in its array.
TypeOK ==
  /\ next \in [Nodes -> Nodes \cup {Nil}]
  /\ prev \in [Nodes -> Nodes \cup {Nil}]
  /\ data \in [Nodes -> [id : Nat, side : Sides, price : Int, qty : Int]]
  /\ freeHead \in Nodes \cup {Nil}
  /\ head \in [Sides -> [Levels -> Nodes \cup {Nil}]]
  /\ tail \in [Sides -> [Levels -> Nodes \cup {Nil}]]
  /\ levelCount \in [Sides -> Int]
  /\ best \in [Sides -> Levels \cup {Nil}]
  /\ incoming \in [id : 0 .. MaxOrders, side : Sides, price : Int,
                   original : Int, qty : Int]
  /\ trade \in [price : Int, qty : Int, maker : Nat, taker : Nat]
  /\ result \in {"none", "Success", "threw", "Rejected_PriceOutOfRange",
                 "Rejected_PoolExhausted"}
  /\ pc \in {"idle", "match", "callback"}
  /\ openQty \in [OrderIds -> Int]

\* The first k nodes met from a node along `next', for every k and node.
Walk[k \in 0 .. PoolSize + 1] ==
  [n \in Nodes \cup {Nil} |->
     IF k = 0 \/ n = Nil THEN <<>> ELSE <<n>> \o Walk[k - 1][next[n]]]

\* The nodes met from h, cut off after PoolSize + 1 of them.
Chain(h) == Walk[PoolSize + 1][h]

NodesOf(h) == {Chain(h)[i] : i \in 1 .. Len(Chain(h))}

AllLevels == Sides \X Levels
HeadOf(key) == head[key[1]][key[2]]
ListHeads == {freeHead} \cup {HeadOf(key) : key \in AllLevels}

\* A node in a level list: some node or some level points to it.
InBook(n) == prev[n] # Nil \/ \E key \in AllLevels : HeadOf(key) = n

\* No node is lost, shared or in two places: the free list and the level lists
\* meet every node of the pool, none of them meets a node twice, and no two meet
\* (RemoveNode, OrderPool.Return and Rent hand a node from one to the other).
EveryNodeInOneList ==
  /\ UNION {NodesOf(h) : h \in ListHeads} = Nodes
  /\ \A h \in ListHeads : Cardinality(NodesOf(h)) = Len(Chain(h))
  /\ \A g, h \in ListHeads : g # h => NodesOf(g) \cap NodesOf(h) = {}
  /\ \A n \in NodesOf(freeHead) : ~InBook(n)

\* A level's list is what its price and side say: only live orders of that side
\* and price, in order of arrival, linked both ways and ended by `tail'.
LevelsAreQueues ==
  \A s \in Sides, l \in Levels :
    LET c == Chain(head[s][l])
    IN  /\ \A i \in 1 .. Len(c) :
             /\ data[c[i]].side = s /\ PriceIndex(data[c[i]].price) = l
             /\ data[c[i]].qty > 0
             /\ prev[c[i]] = IF i = 1 THEN Nil ELSE c[i - 1]
             /\ i > 1 => data[c[i - 1]].id < data[c[i]].id
        /\ tail[s][l] = IF c = <<>> THEN Nil ELSE c[Len(c)]

\* The pool and the levels together.
ListsAreSound == EveryNodeInOneList /\ LevelsAreQueues

\* The cached level count and best index of either side always agree with the
\* levels, so the loop that trusts them misses no level and reads no empty one.
TrackersExact ==
  \A s \in Sides :
    /\ levelCount[s] = Cardinality(Occupied(head[s]))
    /\ IF Occupied(head[s]) = {} THEN best[s] = Nil
       ELSE /\ best[s] \in Occupied(head[s])
            /\ \A l \in Occupied(head[s]) : ~Ahead(s, l, best[s])

\* A bid never meets or passes an ask, in no state of a call: whatever crosses is
\* traded before the rest of an order is put in the book, even when the trade
\* callback throws half way.
Uncrossed ==
  \A b \in Occupied(head["buy"]), a \in Occupied(head["sell"]) : b < a

\* An order refused for want of a node has traded nothing: the caller may send it
\* again as it was (ProcessOrder returns the status and no remaining quantity).
RefusedWhole ==
  result = "Rejected_PoolExhausted" => incoming.qty = incoming.original

\* The book and the trades it reported agree: what an order has open in the book
\* is what its original quantity less its trades leaves.
BookAgreesWithTape ==
  /\ \A n \in Nodes : InBook(n) => data[n].qty = openQty[data[n].id]
  /\ pc # "idle" => incoming.qty = openQty[incoming.id]

\* An order whose price the levels do not cover is never matched or put in the
\* book (the range check of ProcessOrder and the test of it).
OutOfRangeRejected == pc # "idle" => incoming.price \in MinPrice .. MaxPrice

\* ProcessOrder returns: the loop always takes quantity from one side or stops.
EveryCallReturns == (pc # "idle") ~> (pc = "idle")

\* The detailed book implements the abstract one: a turn of the loop takes the
\* crossing order with the best price and, among those, the earliest.
Abstract == INSTANCE PriceTimePriority WITH
  Capacity <- PoolSize,
  resting  <- {data[n] : n \in {m \in Nodes : InBook(m)}},
  taker    <- incoming,
  busy     <- pc # "idle",
  outcome  <- result

ImplementsPriority == Abstract!Spec
=============================================================================
