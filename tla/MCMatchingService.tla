------------------------- MODULE MCMatchingService -------------------------
(* A few orders for TLC: three price levels 1 .. 3, a long of -32 .. 31 and
   an index cut to 0 .. 15, so that 18 and -30 have the level of 2.           *)
EXTENDS MatchingService

B(p, q) == [side |-> "buy", price |-> p, qty |-> q]
S(p, q) == [side |-> "sell", price |-> p, qty |-> q]

MCOrders  == {B(18, 2), B(3, 1), S(1, 1), S(-30, 1)}
MCFew     == {B(2, 2), S(1, 1)}
LastOne   == {MaxTopic}
NoPoison  == {}

\* The checker against exact numbers, for every price and market price of the band and
\* every quantity: TLC evaluates it before a run.
ASSUME CheckerIsExact ==
  \A p, m \in Band, q \in Long :
    /\ ValidateOrder(p, q, m) = "Passed" => WithinLimits(p, q, m)
    /\ q >= 0 /\ WithinLimits(p, q, m) => ValidateOrder(p, q, m) = "Passed"
=============================================================================
