------------------------------ MODULE RiskChecker ------------------------------
(***************************************************************************)
(* The pre-trade checks of Services/PreTradeRiskChecker.cs.  They compute  *)
(* with C# longs: products and differences wrap around silently, and       *)
(* Math.Abs throws on the one value whose absolute value is not a long.    *)
(***************************************************************************)
EXTENDS Integers

CONSTANTS
  MaxOrderQuantity, MaxNotionalValue, MaxPriceDeviation,  \* the limits
  Half   \* a long is a number in -Half .. Half - 1 (2^63 in the code)

ASSUME RiskAssumption ==
  /\ {MaxOrderQuantity, MaxNotionalValue, MaxPriceDeviation} \subseteq Nat
  /\ Half \in Nat \ {0}

Long    == -Half .. Half - 1
Wrap(n) == ((n + Half) % (2 * Half)) - Half
Abs(n)  == IF n < 0 THEN -n ELSE n

PriceDiff(p, m) == Abs(Wrap(p - m))

\* ValidateOrder(order, currentMarketPrice): the first check that fails.
ValidateOrder(p, q, m) ==
  IF q > MaxOrderQuantity THEN "Rejected_MaxOrderQuantityExceeded"
  ELSE IF Wrap(p * q) > MaxNotionalValue THEN "Rejected_MaxNotionalValueExceeded"
  ELSE IF Wrap(p - m) = -Half THEN "OverflowException"
  ELSE IF PriceDiff(p, m) > MaxPriceDeviation THEN "Rejected_FatFingerPriceDeviation"
  ELSE "Passed"

\* What the three limits mean, in numbers that do not wrap.
WithinLimits(p, q, m) ==
  /\ q <= MaxOrderQuantity
  /\ p * q <= MaxNotionalValue
  /\ Abs(p - m) <= MaxPriceDeviation
=============================================================================
