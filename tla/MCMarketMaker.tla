---------------------------- MODULE MCMarketMaker ----------------------------
(* The generator at its full width, from two values of the clock.            *)
EXTENDS MarketMaker

\* The word of a sequence of hexadecimal digits, the highest first.
Hex(digits) ==
  [i \in Bits |->
     LET d == digits[Len(digits) - i \div 4]
     IN  (d \div (2 ^ (i % 4))) % 2 = 1]

MCDefaultSeed == Hex(<<8, 5, 3, 12, 4, 9, 14, 6, 7, 4, 8, 15, 14, 10, 9, 11>>)
MCSeeds == {Zero, Hex(<<0, 8, 13, 14, 2, 5, 15, 7, 12, 3, 1, 0, 4, 11, 0, 0>>)}
=============================================================================
