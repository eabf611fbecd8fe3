----------------------------- MODULE MCOrderBook -----------------------------
(* Small books for TLC: three price levels and a pool that can run out.      *)
EXTENDS OrderBook

MCPrices        == 0 .. 3         \* 0 is below the lowest level, 3 the highest
MCWidePrices    == {1, 2, 3, 18}  \* 18 = 2 + 16: past the band by one modulus
MCQuantities    == 1 .. 2
MCAnyQuantities == 0 .. 2
=============================================================================
