-------------------------- MODULE RiskCheckerProofs --------------------------
(***************************************************************************)
(* For every limit and every width of the numbers: between prices that are *)
(* small enough, the checks that compute with longs decide as exact        *)
(* numbers do.  `top' is the highest such price.                           *)
(***************************************************************************)
EXTENDS RiskChecker, TLAPS

\* A number that is a long is not changed by the wrap-around.
LEMMA WrapExact == ASSUME NEW n \in Long PROVE Wrap(n) = n
<1> DEFINE m == 2 * Half
           k == n + Half
<1>1. m \in Nat \ {0} /\ k \in Nat /\ k < m
  BY RiskAssumption DEF Long
<1>2. k \div m = 0
  BY <1>1, SMTT(30)
<1>3. k % m = k
  BY <1>1, <1>2, SMTT(30)
<1> QED
  BY <1>1, <1>3, RiskAssumption DEF Wrap, Long

\* The notional value of such a price and an admitted quantity is a long.
LEMMA NotionalFits ==
  ASSUME NEW top \in Nat, top * MaxOrderQuantity < Half,
         NEW p \in 0 .. top, NEW q \in 0 .. MaxOrderQuantity
  PROVE  p * q \in Long
<1>1. p \in Nat /\ p <= top /\ q \in Nat /\ q <= MaxOrderQuantity /\ MaxOrderQuantity \in Nat
  BY RiskAssumption
<1>2. p * q \in Nat
  BY <1>1
<1>3. p * q <= top * q
  BY <1>1
<1>4. top * q <= top * MaxOrderQuantity
  BY <1>1
<1>5. top * MaxOrderQuantity \in Nat /\ top * q \in Nat
  BY <1>1
<1>6. p * q < Half
  BY <1>2, <1>3, <1>4, <1>5, RiskAssumption
<1> QED
  BY <1>2, <1>6, RiskAssumption DEF Long

\* So is the difference of two such prices, and it is not the smallest.
LEMMA DifferenceFits ==
  ASSUME NEW top \in Nat, top < Half, NEW p \in 0 .. top, NEW m \in 0 .. top
  PROVE  p - m \in Long /\ p - m # -Half
  BY RiskAssumption DEF Long

\* Whatever its price, an order that is passed has an admitted quantity.
LEMMA PassedQuantity ==
  ASSUME NEW p, NEW q \in Long, NEW m, ValidateOrder(p, q, m) = "Passed"
  PROVE  q <= MaxOrderQuantity
<1>1. q \in Int /\ MaxOrderQuantity \in Int
  BY RiskAssumption DEF Long
<1>2. ~(q > MaxOrderQuantity)
  BY DEF ValidateOrder
<1> QED
  BY <1>1, <1>2

\* What is passed is within the limits.  A negative quantity makes a negative
\* notional value, however its product wraps.
LEMMA PassedIsWithin ==
  ASSUME NEW top \in Nat, top < Half, top * MaxOrderQuantity < Half,
         NEW p \in 0 .. top, NEW q \in Long, NEW m \in 0 .. top,
         ValidateOrder(p, q, m) = "Passed"
  PROVE  WithinLimits(p, q, m)
<1>1. q <= MaxOrderQuantity /\ Wrap(p * q) <= MaxNotionalValue
  <2>1. q <= MaxOrderQuantity
    BY PassedQuantity
  <2>2. Wrap(p * q) \in Int
    <3>1. p * q \in Int
      BY DEF Long
    <3> QED
      BY <3>1, RiskAssumption DEF Wrap
  <2>3. ~(Wrap(p * q) > MaxNotionalValue)
    BY DEF ValidateOrder
  <2> QED
    BY <2>1, <2>2, <2>3, RiskAssumption
<1>2. Wrap(p - m) = p - m
  BY WrapExact, DifferenceFits
<1>3. p \in Nat /\ m \in Nat /\ q \in Int
  BY DEF Long
<1>4. Abs(p - m) <= MaxPriceDeviation
  <2>1. ~(PriceDiff(p, m) > MaxPriceDeviation)
    BY DEF ValidateOrder
  <2> QED
    BY <2>1, <1>2, <1>3, RiskAssumption DEF PriceDiff, Abs
<1>5. p * q <= MaxNotionalValue
  <2>1. CASE q >= 0
    <3>1. q \in 0 .. MaxOrderQuantity
      BY <2>1, <1>1, <1>3, RiskAssumption
    <3>2. Wrap(p * q) = p * q
      BY <3>1, NotionalFits, WrapExact
    <3> QED
      BY <3>2, <1>1
  <2>2. CASE q < 0
    <3>1. p * q <= 0
      BY <2>2, <1>3
    <3>2. p * q \in Int
      BY <1>3
    <3> QED
      BY <3>1, <3>2, RiskAssumption
  <2> QED
    BY <2>1, <2>2, <1>3
<1> QED
  BY <1>1, <1>4, <1>5 DEF WithinLimits

\* What is within the limits is passed.
LEMMA WithinIsPassed ==
  ASSUME NEW top \in Nat, top < Half, top * MaxOrderQuantity < Half,
         NEW p \in 0 .. top, NEW q \in Long, NEW m \in 0 .. top,
         q >= 0, WithinLimits(p, q, m)
  PROVE  ValidateOrder(p, q, m) = "Passed"
<1>1. p \in Nat /\ m \in Nat /\ q \in Int
  BY DEF Long
<1>2. q \in 0 .. MaxOrderQuantity
  BY <1>1, RiskAssumption DEF WithinLimits
<1>3. Wrap(p * q) = p * q
  BY <1>2, NotionalFits, WrapExact
<1>4. Wrap(p - m) = p - m /\ Wrap(p - m) # -Half
  BY WrapExact, DifferenceFits
<1>5. ~(q > MaxOrderQuantity)
  BY <1>2, RiskAssumption
<1>6. ~(Wrap(p * q) > MaxNotionalValue)
  <2>1. p * q \in Int
    BY <1>1
  <2>2. p * q <= MaxNotionalValue
    BY DEF WithinLimits
  <2> QED
    BY <2>1, <2>2, <1>3, RiskAssumption
<1>7. ~(PriceDiff(p, m) > MaxPriceDeviation)
  BY <1>1, <1>4, RiskAssumption DEF PriceDiff, Abs, WithinLimits
<1> QED
  BY <1>4, <1>5, <1>6, <1>7 DEF ValidateOrder

\* ValidateOrder, of a price and a market price that are not negative and whose
\* notional values with every admitted quantity fit a long: what it passes is within
\* the three limits by exact numbers, and what is within them, with a quantity that is
\* not negative, it passes.
THEOREM VerdictExact ==
  ASSUME NEW top \in Nat, top < Half, top * MaxOrderQuantity < Half,
         NEW price \in 0 .. top, NEW market \in 0 .. top, NEW quantity \in Long
  PROVE  LET verdict == ValidateOrder(price, quantity, market)
         IN  /\ verdict = "Passed" => WithinLimits(price, quantity, market)
             /\ quantity >= 0 /\ WithinLimits(price, quantity, market) => verdict = "Passed"
<1>1. ValidateOrder(price, quantity, market) = "Passed" => WithinLimits(price, quantity, market)
  BY PassedIsWithin
<1>2. quantity >= 0 /\ WithinLimits(price, quantity, market)
        => ValidateOrder(price, quantity, market) = "Passed"
  BY WithinIsPassed
<1> QED
  BY <1>1, <1>2
=============================================================================
