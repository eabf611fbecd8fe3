------------------------------ MODULE MCGateway ------------------------------
(* A few messages for TLC, one of them malformed.                            *)
EXTENDS Gateway

SecondOne == {2}
=============================================================================
