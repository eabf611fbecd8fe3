---------------------------- MODULE MCMarketPage ----------------------------
(* A server with all transports, with none, and one with events only, for TLC.    *)
EXTENDS MarketPage

AllOffers  == {<<"WebSockets", "ServerSentEvents", "LongPolling">>, <<>>}
EventsOnly == {<<"ServerSentEvents">>}
AllItems   == Invocations \cup {"handshake", "ping", "close"}
=============================================================================
