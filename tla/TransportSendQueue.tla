------------------------- MODULE TransportSendQueue -------------------------
(***************************************************************************)
(* TransportSendQueue of signalr.js: what is sent while a transport is     *)
(* busy waits in a buffer and goes out as one batch; the senders of a      *)
(* batch share one promise.  A queue that is stopped while its batch is    *)
(* being posted goes on until the post has returned, beside the queue of   *)
(* the next connection.                                                    *)
(***************************************************************************)
EXTENDS Integers, FiniteSets

CONSTANT Items  \* what may be sent

VARIABLES
  buffer,   \* _buffer: the items that wait for the loop
  posting,  \* the batch the loop waits for
  orphans,  \* stopped queues whose loop still waits: [posting, buffer]
  sent      \* the promise send() returned for an item

queueVars == <<buffer, posting, orphans, sent>>

QueueInit ==
  /\ buffer = {} /\ posting = {} /\ orphans = {}
  /\ sent = [x \in Items |-> "idle"]

Settle(X, result) == [x \in Items |-> IF x \in X THEN result ELSE sent[x]]

\* send(): buffered, and the loop is told.
Enqueue(x) ==
  /\ buffer' = buffer \cup {x}
  /\ sent' = Settle({x}, "pending")
  /\ UNCHANGED <<posting, orphans>>

\* A turn of _sendLoop takes the whole buffer.  A WebSocket takes it or refuses it
\* at once; the other transports post it, and the loop waits.
SendBatch(result) ==
  /\ buffer # {} /\ posting = {}
  /\ buffer' = {}
  /\ IF result = "pending"
     THEN posting' = buffer /\ sent' = sent
     ELSE posting' = {} /\ sent' = Settle(buffer, result)
  /\ UNCHANGED orphans

\* The post returns, or fails: the senders of the batch are told.
PostReturns(result) ==
  /\ posting # {}
  /\ posting' = {}
  /\ sent' = Settle(posting, result)
  /\ UNCHANGED <<buffer, orphans>>

\* stop(): a loop that waits for work rejects what is buffered and ends; one that
\* waits for a post does so when it returns.
StopQueue ==
  /\ IF posting = {}
     THEN orphans' = orphans /\ sent' = Settle(buffer, "failed")
     ELSE orphans' = orphans \cup {[posting |-> posting, buffer |-> buffer]} /\ sent' = sent
  /\ buffer' = {} /\ posting' = {}

OrphanReturns(o, result) ==
  /\ o \in orphans
  /\ orphans' = orphans \ {o}
  /\ sent' = [x \in Items |-> IF x \in o.posting THEN result
                              ELSE IF x \in o.buffer THEN "failed" ELSE sent[x]]
  /\ UNCHANGED <<buffer, posting>>
=============================================================================
