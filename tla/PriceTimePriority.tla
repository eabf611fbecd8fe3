-------------------------- MODULE PriceTimePriority --------------------------
(***************************************************************************)
(* What an order book promises, with no list, pool, level or tracker in    *)
(* sight: a set of resting orders.  An incoming order trades with the best *)
(* priced opposite order it crosses, the earliest of them first, and rests *)
(* with what is left of it if there is room.  OrderBook implements this.   *)
(*                                                                         *)
(* An order stands at the level its price is cut to: the book tells prices *)
(* apart by their distance from MinPrice, and that only up to a modulus.   *)
(***************************************************************************)
EXTENDS Integers, FiniteSets

CONSTANTS
  Capacity,            \* orders that may rest at one time
  MinPrice, MaxPrice,  \* the price band
  IndexModulus,        \* prices that differ by it have the same level
  Prices, Quantities,  \* what incoming orders may carry
  MaxOrders            \* bound of the model: orders submitted

VARIABLES
  resting,  \* the orders in the book, with their open quantities
  taker,    \* the order being processed, or the last one
  busy,     \* TRUE while an order is being processed
  outcome   \* how the last order ended

vars == <<resting, taker, busy, outcome>>

Sides == {"buy", "sell"}

Init ==
  /\ resting = {}
  /\ taker = [id |-> 0, side |-> "sell", price |-> 0, original |-> 0, qty |-> 0]
  /\ busy = FALSE
  /\ outcome = "none"

\* The price of the level of an order, as if levels went on beyond the band.
LevelPrice(p) == MinPrice + ((p - MinPrice) % IndexModulus)

\* One order at a time; a price with no level in the band is refused outright.
Accept(s, p, q) ==
  /\ ~busy
  /\ taker.id < MaxOrders
  /\ taker' = [id |-> taker.id + 1, side |-> s, price |-> p, original |-> q, qty |-> q]
  /\ busy' = (LevelPrice(p) <= MaxPrice)
  /\ outcome' = IF busy' THEN "none" ELSE "Rejected_PriceOutOfRange"
  /\ UNCHANGED resting

Submit == \E s \in Sides, p \in Prices, q \in Quantities : Accept(s, p, q)

\* The resting orders the taker is ready to trade with.
Crossing ==
  {m \in resting : /\ m.side # taker.side
                   /\ IF taker.side = "buy" THEN LevelPrice(m.price) <= taker.price
                                            ELSE LevelPrice(m.price) >= taker.price}

\* Maker m goes before maker o: a better level, or the same level and earlier.
GoesBefore(m, o) ==
  LET pm == LevelPrice(m.price)
      po == LevelPrice(o.price)
  IN  \/ IF m.side = "sell" THEN pm < po ELSE pm > po
      \/ pm = po /\ m.id < o.id

Maker == CHOOSE m \in Crossing : \A o \in Crossing \ {m} : GoesBefore(m, o)
Fill  == IF taker.qty <= Maker.qty THEN taker.qty ELSE Maker.qty

Match ==
  /\ busy /\ taker.qty > 0 /\ Crossing # {}
  /\ taker' = [taker EXCEPT !.qty = @ - Fill]
  /\ resting' = (resting \ {Maker}) \cup
                (IF Fill = Maker.qty THEN {} ELSE {[Maker EXCEPT !.qty = @ - Fill]})
  /\ UNCHANGED <<busy, outcome>>

\* The caller's trade handler fails: the order is dropped with what it has.
Abort ==
  /\ busy /\ taker.qty > 0 /\ Crossing # {}
  /\ busy' = FALSE
  /\ outcome' = "threw"
  /\ UNCHANGED <<resting, taker>>

Rest ==
  /\ busy /\ taker.qty > 0 /\ Crossing = {}
  /\ Cardinality(resting) < Capacity
  /\ resting' = resting \cup {[id |-> taker.id, side |-> taker.side,
                               price |-> taker.price, qty |-> taker.qty]}
  /\ busy' = FALSE
  /\ outcome' = "Success"
  /\ UNCHANGED taker

\* No room: allowed only for an order that has not traded at all.
Refuse ==
  /\ busy /\ taker.qty > 0 /\ Crossing = {}
  /\ Cardinality(resting) = Capacity
  /\ taker.qty = taker.original
  /\ busy' = FALSE
  /\ outcome' = "Rejected_PoolExhausted"
  /\ UNCHANGED <<resting, taker>>

Complete ==
  /\ busy /\ taker.qty <= 0
  /\ busy' = FALSE
  /\ outcome' = "Success"
  /\ UNCHANGED <<resting, taker>>

Clear ==
  /\ ~busy
  /\ resting' = {}
  /\ UNCHANGED <<taker, busy, outcome>>

Next == Submit \/ Match \/ Abort \/ Rest \/ Refuse \/ Complete \/ Clear

Spec == Init /\ [][Next]_vars
=============================================================================
