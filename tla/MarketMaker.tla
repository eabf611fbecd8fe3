------------------------------ MODULE MarketMaker ------------------------------
(***************************************************************************)
(* The service that makes the orders: FalconFX.MarketMaker/Worker.cs, with *)
(* the start-up it shares with the other services (KafkaUtils.cs).  One    *)
(* loop draws orders and gives them to the Kafka producer, whose own       *)
(* thread sends them.  The `orders' topic is the only thing that survives  *)
(* the process.                                                            *)
(***************************************************************************)
EXTENDS XorShift, RiskChecker, FiniteSets, Sequences, SequencesExt

CONSTANTS
  Seeds,      \* what the clock may give the generator
  MinPrice, MaxPrice,  \* the band of the engine's book
  BatchCount, \* orders of a batch (100 in the code)
  OutboxCap,  \* queue.buffering.max.messages (1 000 000 in the code)
  MaxOrders,  \* bound of the model: no batch is begun after so many orders
  MaxFaults,  \* bound of the model: the broker comes or goes, an order is resent
  MaxStarts   \* bound of the model: crashes and shutdowns

ASSUME MakerAssumption ==
  /\ {BatchCount, OutboxCap} \subseteq Nat \ {0}
  /\ {MaxOrders, MaxFaults, MaxStarts} \subseteq Nat
  /\ Seeds \subseteq Words

\* The engine's limits and band, far wider in the code, leave room for what is drawn.
ASSUME LimitsAssumption ==
  /\ {MinPrice, MaxPrice} \subseteq Int /\ 99 .. 101 \subseteq MinPrice .. MaxPrice
  /\ MaxOrderQuantity >= 10 /\ MaxNotionalValue >= 1010 /\ MaxPriceDeviation >= 2
  /\ Half > 1010

VARIABLES
  phase,      \* where ExecuteAsync is
  orderId,    \* the last identifier used
  inBatch,    \* orders made of this batch
  rng,        \* the generator's word
  request,    \* the one SubmitOrderRequest that is used for all orders
  outbox,     \* the producer's local queue
  topic,      \* the `orders' topic
  brokerUp,   \* the broker answers
  cancelled,  \* stoppingToken
  count,      \* bounds: faults and starts so far; orders this process sent again
  made        \* history: the orders of this process

loopVars == <<orderId, inBatch, rng, request, made>>
vars == <<phase, loopVars, outbox, topic, brokerUp, cancelled, count>>

NoOrder == [life |-> 0, id |-> 0, side |-> 0, price |-> 0, qty |-> 0]

Init ==
  /\ phase = "probe"
  /\ orderId = 0 /\ inBatch = 0 /\ rng = DefaultSeed /\ request = NoOrder /\ made = <<>>
  /\ outbox = <<>> /\ topic = <<>>
  /\ brokerUp \in BOOLEAN /\ cancelled = FALSE
  /\ count = [faults |-> 0, starts |-> 0, resent |-> 0]

Goto(p) ==
  /\ phase' = p
  /\ UNCHANGED <<loopVars, outbox, topic, brokerUp, cancelled, count>>

-----------------------------------------------------------------------------
(* Start-up.                                                                 *)

\* WaitForBrokerReady asks until a broker answers.  Cancelled at the head of its
\* loop it returns all the same, cancelled in its delay it throws.
Probe ==
  /\ phase = "probe"
  /\ \/ (brokerUp \/ cancelled) /\ Goto("create")
     \/ cancelled /\ Goto("ended")

\* EnsureTopicExistsAsync logs what goes wrong and returns.
CreateTopic == phase = "create" /\ Goto("elect")

\* After the delay the producer is built and the generator seeded.
BeginLoop ==
  /\ phase = "elect" /\ ~cancelled
  /\ phase' = "loop"
  /\ \E s \in Seeds : rng' = Seed(s)
  /\ UNCHANGED <<orderId, inBatch, request, made, outbox, topic, brokerUp, cancelled,
                 count>>

CancelledBefore == phase = "elect" /\ cancelled /\ Goto("ended")

-----------------------------------------------------------------------------
(* The loop.                                                                 *)

\* The next batch, or the end; the token is looked at here and in the delays.
BeginBatch ==
  /\ phase = "loop"
  /\ ~cancelled /\ orderId < MaxOrders
  /\ inBatch' = 0 /\ phase' = "batch"
  /\ UNCHANGED <<orderId, rng, request, made, outbox, topic, brokerUp, cancelled, count>>

\* Fill in the request, a side (1 buys, 2 sells) and a price drawn one after the
\* other.
Draw ==
  LET first  == NextUint64(rng)
      second == NextUint64(first)
  IN  /\ rng' = second
      /\ request' = [life |-> count.starts, id |-> orderId + 1,
                     side |-> InRange(first, 1, 3), price |-> InRange(second, 99, 102),
                     qty |-> 10]

\* Mutant: the batch is one order too long.
OneTooMany == phase = "batch" /\ inBatch <= BatchCount

InBatch == phase = "batch" /\ inBatch < BatchCount

\* Produce serialises the request into the queue; if that is full it throws, the
\* order is gone and the loop waits a little.
MakeOrder ==
  /\ InBatch
  /\ Draw
  /\ orderId' = orderId + 1
  /\ inBatch' = inBatch + 1
  /\ made' = Append(made, request')
  /\ \/ /\ Len(outbox) < OutboxCap
        /\ outbox' = Append(outbox, request')
        /\ phase' = "batch"
     \/ /\ Len(outbox) = OutboxCap
        /\ phase' = "backoff"
        /\ UNCHANGED outbox
  /\ UNCHANGED <<topic, brokerUp, cancelled, count>>

BackoffOver == phase = "backoff" /\ ~cancelled /\ Goto("batch")

BatchDone == phase = "batch" /\ ~InBatch /\ Goto("pause")

PauseOver == phase = "pause" /\ ~cancelled /\ Goto("loop")

\* Mutant: cancellation is not seen in the delay after a failed Produce.
StopLate == cancelled /\ phase = "loop"

Stop == cancelled /\ phase \in {"loop", "backoff", "pause"}

LeaveLoop == Stop /\ Goto("flush")

\* Flush until the queue is empty or five seconds are over; the rest is lost.
Flush ==
  /\ phase = "flush"
  /\ phase' = "ended" /\ outbox' = <<>>
  /\ UNCHANGED <<loopVars, topic, brokerUp, cancelled, count>>

-----------------------------------------------------------------------------
(* The producer's thread, the broker and the host.                           *)

\* Mutant: the request is serialised when it is sent.
DeliverRequest ==
  /\ brokerUp /\ outbox # <<>>
  /\ topic' = Append(topic, request)
  /\ outbox' = Tail(outbox)
  /\ UNCHANGED <<phase, loopVars, brokerUp, cancelled, count>>

Deliver ==
  /\ brokerUp /\ outbox # <<>>
  /\ topic' = Append(topic, Head(outbox))
  /\ outbox' = Tail(outbox)
  /\ UNCHANGED <<phase, loopVars, brokerUp, cancelled, count>>

\* No broker for message.timeout.ms: the order is gone and nobody is told.
Expire ==
  /\ ~brokerUp /\ outbox # <<>>
  /\ outbox' = Tail(outbox)
  /\ UNCHANGED <<phase, loopVars, topic, brokerUp, cancelled, count>>

\* A send fails, or only its answer is lost: the order is sent again, after what
\* else is on the way (the producer is neither idempotent nor kept to one request).
SendAgain ==
  /\ brokerUp /\ outbox # <<>> /\ count.faults < MaxFaults
  /\ \/ Len(outbox) > 1 /\ UNCHANGED topic
     \/ topic' = Append(topic, Head(outbox))
  /\ outbox' = Append(Tail(outbox), Head(outbox))
  /\ count' = [count EXCEPT !.faults = @ + 1, !.resent = @ + 1]
  /\ UNCHANGED <<phase, loopVars, brokerUp, cancelled>>

BrokerChanges ==
  /\ count.faults < MaxFaults
  /\ count' = [count EXCEPT !.faults = @ + 1]
  /\ brokerUp' = ~brokerUp
  /\ UNCHANGED <<phase, loopVars, outbox, topic, cancelled>>

Cancel ==
  /\ ~cancelled /\ phase # "ended" /\ count.starts < MaxStarts
  /\ cancelled' = TRUE
  /\ UNCHANGED <<phase, loopVars, outbox, topic, brokerUp, count>>

\* The process ends or crashes, and a new one starts.
Restart ==
  /\ count.starts < MaxStarts
  /\ count' = [count EXCEPT !.starts = @ + 1, !.resent = 0]
  /\ phase' = "probe" /\ cancelled' = FALSE /\ outbox' = <<>>
  /\ orderId' = 0 /\ inBatch' = 0 /\ rng' = DefaultSeed /\ request' = NoOrder
  /\ made' = <<>>
  /\ UNCHANGED <<topic, brokerUp>>

Worker == Probe \/ CreateTopic \/ BeginLoop \/ CancelledBefore \/ BeginBatch \/ MakeOrder
            \/ BackoffOver \/ BatchDone \/ PauseOver \/ LeaveLoop \/ Flush

Next == Worker \/ Deliver \/ Expire \/ SendAgain \/ BrokerChanges \/ Cancel \/ Restart

Spec == Init /\ [][Next]_vars

\* The worker's thread runs.
FairSpec == Spec /\ WF_vars(Worker)

-----------------------------------------------------------------------------
TypeOK ==
  /\ phase \in {"probe", "create", "elect", "loop", "batch", "backoff", "pause", "flush",
                "ended"}
  /\ orderId \in Nat /\ orderId = Len(made)
  /\ inBatch \in 0 .. BatchCount
  /\ rng \in Words
  /\ Len(outbox) <= OutboxCap
  /\ {brokerUp, cancelled} \subseteq BOOLEAN

\* The generator never reaches the word it could not leave: from it on all orders
\* would be the same (every step is a shift and an xor of a word that is not zero).
GeneratorNeverStuck == rng # Zero

\* Where an order of the process number l goes behind one it should go before.
StepsBack(s, l) ==
  {i \in 2 .. Len(s) : s[i].life = l /\ s[i - 1].life = l /\ s[i].id <= s[i - 1].id}

\* What is sent is what was drawn, although one request object is used for all
\* orders while others of them wait to be sent; the identifiers go up, but for one
\* step back for each order the producer sent again, however many it gave up or
\* had no room for.
SentAsDrawn ==
  LET sent == topic \o outbox
  IN  /\ \A i \in DOMAIN sent : sent[i].life = count.starts => sent[i] \in ToSet(made)
      /\ Cardinality(StepsBack(sent, count.starts)) <= count.resent

\* The limits and the band of the engine admit every order of the topic, at every
\* market price that orders of the topic can make.
OrdersAdmitted ==
  \A o, m \in ToSet(topic) :
    /\ o.side \in {1, 2} /\ o.price \in MinPrice .. MaxPrice
    /\ ValidateOrder(o.price, o.qty, m.price) = "Passed"

\* The service ends when it is told to, in every phase, with or without a broker.
EndsWhenTold == cancelled ~> phase = "ended" \/ ~cancelled
=============================================================================
