--------------------------- MODULE MCTradeProcessor ---------------------------
(* A topic of a few trades for TLC.                                          *)
EXTENDS TradeProcessor

NoPoison   == {}
LastPoison == {MaxTrades - 1}
=============================================================================
