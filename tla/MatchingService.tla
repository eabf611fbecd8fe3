---------------------------- MODULE MatchingService ----------------------------
(***************************************************************************)
(* The matching engine's process: KafkaWorker.cs reads the `orders' topic, *)
(* Services/GrpcOrderService.cs takes streamed orders, both put them in    *)
(* the bounded channel of EngineWorker.cs, whose one loop checks each      *)
(* order, gives it to the book and hands the trades to the Kafka producer. *)
(* The book is the abstract one: OrderBook implements PriceTimePriority.   *)
(*                                                                         *)
(* An order is known by where it came from and its place there.            *)
(***************************************************************************)
EXTENDS RiskChecker, Sequences, FiniteSets, SequencesExt

CONSTANTS
  Orders,      \* what an order may carry: records of side, price and qty
  Unreadable,  \* places in the topic whose payload does not parse
  Capacity, MinPrice, MaxPrice, IndexModulus,  \* the book
  QueueCap,    \* capacity of _orderChannel (1 000 000 in the code)
  OutboxCap,   \* queue.buffering.max.messages (1 000 000 in the code)
  MaxTopic,    \* bound of the model: orders put in the topic
  MaxStream,   \* bound of the model: orders streamed to one process
  MaxFaults,   \* bound of the model: Produce throws, a trade expires or is resent
  MaxStarts    \* bound of the model: crashes and shutdowns

ASSUME ServiceAssumption ==
  /\ {QueueCap, OutboxCap} \subseteq Nat \ {0}
  /\ {MaxTopic, MaxStream, MaxFaults, MaxStarts} \subseteq Nat

\* An order carries longs; the band is of positive prices with a level each, and what
\* the limits admit there fits a long.
ASSUME OrdersAssumption ==
  /\ Orders \subseteq [side : {"buy", "sell"}, price : Long, qty : Long]
  /\ {MinPrice, MaxPrice} \subseteq Nat /\ MaxPrice < Half
  /\ IndexModulus \in Nat \ {0} /\ MaxPrice - MinPrice < IndexModulus
  /\ MaxPrice * MaxOrderQuantity < Half

VARIABLES
  topic,      \* the `orders' topic
  committed,  \* the group's committed position in it
  position,   \* orders of the topic the consumer has read
  reader,     \* where the consumer loop is
  streamed,   \* the orders of the gRPC stream so far
  dropped,    \* the places of those EnqueueOrder refused
  answered,   \* the stream's response is sent
  queue,      \* _orderChannel
  engine,     \* where the matching loop is
  market,     \* currentMarketPrice of the order in hand
  resting, taker, busy, outcome,  \* the book
  outbox,     \* trades in the producer's local queue
  tape,       \* the `trades' topic
  stopping,   \* whose stoppingToken is cancelled: "none", "reader", "both"
  up,         \* the process runs
  count,      \* bounds: faults and starts so far; trades expired and sent again
              \* in this life
  taken,      \* history: orders this process took off the channel
  made        \* history: trades this process's book made

kafkaVars  == <<topic, committed, position, reader>>
streamVars == <<streamed, dropped, answered>>
bookVars   == <<resting, taker, busy, outcome>>
engineVars == <<engine, market, taken, made>>
hostVars   == <<stopping, up>>
vars == <<kafkaVars, streamVars, queue, engineVars, bookVars, outbox, tape, hostVars,
          count>>

Book == INSTANCE PriceTimePriority WITH
          Prices <- {o.price : o \in Orders}, Quantities <- {o.qty : o \in Orders},
          MaxOrders <- MaxTopic + MaxStream

-----------------------------------------------------------------------------
\* The host cancels its services one after the other, KafkaWorker's token first.
ReaderCancelled == stopping # "none"
EngineCancelled == stopping = "both"

Init ==
  /\ topic = <<>> /\ committed = 0 /\ position = 0 /\ reader = "poll"
  /\ streamed = <<>> /\ dropped = {} /\ answered = FALSE
  /\ queue = <<>>
  /\ engine = "wait" /\ market = 0 /\ taken = <<>> /\ made = <<>>
  /\ Book!Init
  /\ outbox = <<>> /\ tape = <<>>
  /\ stopping = "none" /\ up = TRUE
  /\ count = [faults |-> 0, starts |-> 0, expired |-> 0, resent |-> 0]

\* The market maker puts an order in the topic.
Submit ==
  /\ Len(topic) < MaxTopic
  /\ \E o \in Orders : topic' = Append(topic, o)
  /\ UNCHANGED <<committed, position, reader, streamVars, queue, engineVars, bookVars,
                 outbox, tape, hostVars, count>>

\* librdkafka commits, once a second, what Consume has returned.
AutoCommit ==
  /\ up /\ reader # "ended" /\ committed < position
  /\ committed' = position
  /\ UNCHANGED <<topic, position, reader, streamVars, queue, engineVars, bookVars,
                 outbox, tape, hostVars, count>>

-----------------------------------------------------------------------------
(* Orders in: the consumer loop and the gRPC handler.                        *)

InHand    == [from |-> "topic", at |-> position]
Room      == Len(queue) < QueueCap
Body(e)   == IF e.from = "topic" THEN topic[e.at] ELSE streamed[e.at]

\* Consume returns an order.  (Nothing in time and a ConsumeException change
\* nothing: the loop goes round.)
Fetch ==
  /\ up /\ reader = "poll" /\ position < Len(topic)
  /\ position' = position + 1
  /\ reader' = "offer"
  /\ UNCHANGED <<topic, committed, streamVars, queue, engineVars, bookVars, outbox,
                 tape, hostVars, count>>

\* Mutants: a full channel loses the order, as in the gRPC handler; it drops its
\* oldest order; it has no capacity.
TryOrDrop(next) ==
  /\ queue' = IF Room THEN Append(queue, InHand) ELSE queue
  /\ reader' = "poll"
TryEvicting(next) ==
  /\ queue' = Append(IF Room THEN queue ELSE Tail(queue), InHand)
  /\ reader' = "poll"
TryUnbounded(next) == queue' = Append(queue, InHand) /\ reader' = "poll"

\* Put the order in the channel, or go on to `next' if there is no room.
TryPut(next) ==
  \/ Room /\ queue' = Append(queue, InHand) /\ reader' = "poll"
  \/ ~Room /\ queue' = queue /\ reader' = next

\* EnqueueOrder: TryWrite ...
Offer ==
  /\ up /\ reader = "offer" /\ ~ReaderCancelled /\ position \notin Unreadable
  /\ TryPut("write")
  /\ UNCHANGED <<topic, committed, position, streamVars, engineVars, bookVars, outbox,
                 tape, hostVars, count>>

\* ... and if it failed EnqueueOrderAsync: WriteAsync, which looks again and waits.
Write ==
  /\ up /\ reader = "write" /\ ~ReaderCancelled
  /\ TryPut("wait")
  /\ UNCHANGED <<topic, committed, position, streamVars, engineVars, bookVars, outbox,
                 tape, hostVars, count>>

\* Mutant: a blocked write is not cancelled.
ReaderDoneUnlessBlocked ==
  \/ ReaderCancelled /\ reader \in {"poll", "offer", "write"}
  \/ reader = "offer" /\ position \in Unreadable

\* Cancelled between two orders, with one in hand or in WriteAsync; or a payload
\* that does not parse, whose exception nobody sees.
ReaderDone ==
  \/ ReaderCancelled /\ reader \in {"poll", "offer", "write", "wait"}
  \/ reader = "offer" /\ position \in Unreadable

\* The finally block: Close commits once more.
ReaderEnds ==
  /\ up /\ ReaderDone
  /\ reader' = "ended"
  /\ committed' = position
  /\ UNCHANGED <<topic, position, streamVars, queue, engineVars, bookVars, outbox, tape,
                 hostVars, count>>

\* StreamOrders: one TryWrite, whose result nobody looks at.
StreamOrder ==
  /\ up /\ stopping = "none" /\ ~answered /\ Len(streamed) < MaxStream
  /\ \E o \in Orders : streamed' = Append(streamed, o)
  /\ \/ /\ Room
        /\ queue' = Append(queue, [from |-> "stream", at |-> Len(streamed')])
        /\ UNCHANGED dropped
     \/ ~Room /\ dropped' = dropped \cup {Len(streamed')} /\ UNCHANGED queue
  /\ UNCHANGED <<kafkaVars, answered, engineVars, bookVars, outbox, tape, hostVars,
                 count>>

\* The client ended the stream, lost it or the server stops: Success = true.
StreamEnds ==
  /\ up /\ ~answered /\ streamed # <<>>
  /\ answered' = TRUE
  /\ UNCHANGED <<kafkaVars, streamed, dropped, queue, engineVars, bookVars, outbox,
                 tape, hostVars, count>>

-----------------------------------------------------------------------------
(* The matching loop.                                                        *)

\* WaitToReadAsync finds an order ...
WakeUp ==
  /\ up /\ engine = "wait" /\ ~EngineCancelled /\ queue # <<>>
  /\ engine' = "drain"
  /\ UNCHANGED <<kafkaVars, streamVars, queue, market, taken, made, bookVars, outbox,
                 tape, hostVars, count>>

\* ... or is cancelled, the one place where the loop looks.
EngineEnds ==
  /\ up /\ engine = "wait" /\ EngineCancelled
  /\ engine' = "ended"
  /\ UNCHANGED <<kafkaVars, streamVars, queue, market, taken, made, bookVars, outbox,
                 tape, hostVars, count>>

\* TryRead finds nothing.
Drained ==
  /\ up /\ engine = "drain" /\ queue = <<>>
  /\ engine' = "wait"
  /\ UNCHANGED <<kafkaVars, streamVars, queue, market, taken, made, bookVars, outbox,
                 tape, hostVars, count>>

\* Mutant: the waiting writer is not woken.
DequeueSilently ==
  /\ queue # <<>>
  /\ taken' = Append(taken, Head(queue))
  /\ queue' = Tail(queue)
  /\ reader' = reader

\* TryRead takes the oldest order off; the channel puts a waiting writer's in.
Dequeue ==
  /\ queue # <<>>
  /\ taken' = Append(taken, Head(queue))
  /\ queue' = Tail(queue) \o (IF reader = "wait" THEN <<InHand>> ELSE <<>>)
  /\ reader' = IF reader = "wait" THEN "poll" ELSE reader

\* GetBestBidPrice and GetBestAskPrice, -1 of an empty side.
LevelsOf(side) == {Book!LevelPrice(m.price) : m \in {r \in resting : r.side = side}}
BestBid ==
  LET bids == LevelsOf("buy")
  IN  IF bids = {} THEN -1 ELSE CHOOSE p \in bids : \A b \in bids : b <= p
BestAsk ==
  LET asks == LevelsOf("sell")
  IN  IF asks = {} THEN -1 ELSE CHOOSE p \in asks : \A a \in asks : p <= a

\* Mutant: the order's own side of the book.
MarketPriceOwnSide(o) ==
  LET best == IF o.side = "buy" THEN BestBid ELSE BestAsk
  IN  IF best = -1 THEN o.price ELSE best

MarketPrice(o) ==
  LET best == IF o.side = "buy" THEN BestAsk ELSE BestBid
  IN  IF best = -1 THEN o.price ELSE best

\* Take an order and check it: refused, passed on to the book (which may refuse
\* its price), or the end of the loop if the check throws.
Take ==
  /\ up /\ engine = "drain"
  /\ Dequeue
  /\ LET o == Body(Head(queue))
         verdict == ValidateOrder(o.price, o.qty, MarketPrice(o))
     IN  \/ /\ verdict = "Passed"
            /\ market' = MarketPrice(o)
            /\ Book!Accept(o.side, o.price, o.qty)
            /\ engine' = IF busy' THEN "match" ELSE "drain"
         \/ /\ verdict = "OverflowException"
            /\ engine' = "faulted"
            /\ UNCHANGED <<market, bookVars>>
         \/ /\ verdict \notin {"Passed", "OverflowException"}
            /\ UNCHANGED <<engine, market, bookVars>>
  /\ UNCHANGED <<topic, committed, position, streamVars, made, outbox, tape, hostVars,
                 count>>

\* The book is done with the order: it rests, is refused or is filled.
OrderDone ==
  /\ up /\ engine = "match"
  /\ Book!Rest \/ Book!Refuse \/ Book!Complete
  /\ engine' = "drain"
  /\ UNCHANGED <<kafkaVars, streamVars, queue, market, taken, made, outbox, tape,
                 hostVars, count>>

\* The book calls the callback with a trade, before it books the quantities.
CallBack ==
  /\ up /\ engine = "match" /\ taker.qty > 0 /\ Book!Crossing # {}
  /\ engine' = "publish"
  /\ UNCHANGED <<kafkaVars, streamVars, queue, market, taken, made, bookVars, outbox,
                 tape, hostVars, count>>

Trade == [life |-> count.starts, maker |-> Book!Maker.id, taker |-> taker.id,
          price |-> Book!LevelPrice(Book!Maker.price), qty |-> Book!Fill]

\* Mutants: a full producer loses the trade; the retry ignores cancellation.
HandOverOnce ==
  IF ~EngineCancelled /\ Len(outbox) < OutboxCap THEN outbox' = Append(outbox, Trade)
                                           ELSE outbox' = outbox
HandOverForever == Len(outbox) < OutboxCap /\ outbox' = Append(outbox, Trade)

\* Produce, again and again (Local_QueueFull, Poll) until the producer has room or
\* the service is stopped: then the trade is not published.
HandOver ==
  \/ ~EngineCancelled /\ Len(outbox) < OutboxCap /\ outbox' = Append(outbox, Trade)
  \/ EngineCancelled /\ outbox' = outbox

\* The callback returns and the book goes on.
Publish ==
  /\ up /\ engine = "publish"
  /\ HandOver
  /\ Book!Match
  /\ made' = Append(made, Trade)
  /\ engine' = "match"
  /\ UNCHANGED <<kafkaVars, streamVars, queue, market, taken, tape, hostVars, count>>

\* Any other ProduceException ends the loop in the middle of the order.
PublishFails ==
  /\ up /\ engine = "publish" /\ ~EngineCancelled /\ count.faults < MaxFaults
  /\ count' = [count EXCEPT !.faults = @ + 1]
  /\ Book!Abort
  /\ engine' = "faulted"
  /\ UNCHANGED <<kafkaVars, streamVars, queue, market, taken, made, outbox, tape,
                 hostVars>>

\* The producer's own thread delivers, or gives a trade up and tells nobody:
\* delivery reports are off.
Deliver ==
  /\ up /\ outbox # <<>>
  /\ tape' = Append(tape, Head(outbox))
  /\ outbox' = Tail(outbox)
  /\ UNCHANGED <<kafkaVars, streamVars, queue, engineVars, bookVars, hostVars, count>>

Expire ==
  /\ up /\ outbox # <<>> /\ count.faults < MaxFaults
  /\ outbox' = Tail(outbox)
  /\ count' = [count EXCEPT !.faults = @ + 1, !.expired = @ + 1]
  /\ UNCHANGED <<kafkaVars, streamVars, queue, engineVars, bookVars, tape, hostVars>>

\* A send fails, or only its answer is lost: the trade is sent again, after what
\* else is on the way (the producer is neither idempotent nor kept to one request).
SendAgain ==
  /\ up /\ outbox # <<>> /\ count.faults < MaxFaults
  /\ \/ Len(outbox) > 1 /\ UNCHANGED tape
     \/ tape' = Append(tape, Head(outbox))
  /\ outbox' = Append(Tail(outbox), Head(outbox))
  /\ count' = [count EXCEPT !.faults = @ + 1, !.resent = @ + 1]
  /\ UNCHANGED <<kafkaVars, streamVars, queue, engineVars, bookVars, hostVars>>

-----------------------------------------------------------------------------
(* The process.                                                              *)

\* The host is asked to stop: no more gRPC, then KafkaWorker, then EngineWorker.
CancelReader ==
  /\ up /\ stopping = "none" /\ count.starts < MaxStarts
  /\ stopping' = "reader"
  /\ UNCHANGED <<kafkaVars, streamVars, queue, engineVars, bookVars, outbox, tape, up,
                 count>>

CancelEngine ==
  /\ up /\ stopping = "reader"
  /\ stopping' = "both"
  /\ UNCHANGED <<kafkaVars, streamVars, queue, engineVars, bookVars, outbox, tape, up,
                 count>>

\* All that is lost with a process: channel, book, stream, producer's queue.
Gone ==
  /\ up' = FALSE
  /\ position' = committed /\ reader' = "poll"
  /\ streamed' = <<>> /\ dropped' = {} /\ answered' = FALSE
  /\ queue' = <<>> /\ outbox' = <<>>
  /\ engine' = "wait" /\ market' = 0 /\ taken' = <<>> /\ made' = <<>>
  /\ resting' = {} /\ busy' = FALSE /\ outcome' = "none"
  /\ taker' = [id |-> 0, side |-> "sell", price |-> 0, original |-> 0, qty |-> 0]
  /\ UNCHANGED <<topic, committed, tape>>

\* The host does not wait for the consumer loop or the producer's queue, and for
\* the matching loop no longer than its shutdown timeout.
Exit ==
  /\ up /\ stopping = "both"
  /\ Gone
  /\ stopping' = "none"
  /\ UNCHANGED count

Crash ==
  /\ up /\ count.starts < MaxStarts
  /\ Gone
  /\ stopping' = "none"
  /\ UNCHANGED count

\* A new process has an empty book and reads from the committed position.
Start ==
  /\ ~up /\ count.starts < MaxStarts
  /\ up' = TRUE
  /\ count' = [count EXCEPT !.starts = @ + 1, !.expired = 0, !.resent = 0]
  /\ UNCHANGED <<kafkaVars, streamVars, queue, engineVars, bookVars, outbox, tape,
                 stopping>>

ReaderStep == Fetch \/ Offer \/ Write \/ ReaderEnds
EngineStep == WakeUp \/ EngineEnds \/ Drained \/ Take \/ OrderDone \/ CallBack
                \/ Publish \/ PublishFails

Next == Submit \/ AutoCommit \/ ReaderStep \/ StreamOrder \/ StreamEnds \/ EngineStep
          \/ Deliver \/ Expire \/ SendAgain \/ CancelReader \/ CancelEngine \/ Exit \/ Crash \/ Start

Spec == Init /\ [][Next]_vars

\* The two loops have threads of their own.
FairSpec == Spec /\ WF_vars(ReaderStep) /\ WF_vars(EngineStep)

-----------------------------------------------------------------------------
TypeOK ==
  /\ topic \in Seq(Orders) /\ streamed \in Seq(Orders)
  /\ committed \in 0 .. position /\ position \in 0 .. Len(topic)
  /\ reader \in {"poll", "offer", "write", "wait", "ended"}
  /\ dropped \subseteq 1 .. Len(streamed) /\ answered \in BOOLEAN
  /\ Len(queue) <= QueueCap /\ Len(outbox) <= OutboxCap
  /\ \A e \in ToSet(queue) \cup ToSet(taken) :
       e.at \in 1 .. (IF e.from = "topic" THEN position ELSE Len(streamed))
  /\ engine \in {"wait", "drain", "match", "publish", "faulted", "ended"}
  /\ busy = (engine \in {"match", "publish"})
  /\ stopping \in {"none", "reader", "both"} /\ up \in BOOLEAN

\* The places where the orders of s were in one source, and that they go up.
Places(s, source) == {e.at : e \in {x \in ToSet(s) : x.from = source}}
GoUp(s, source) ==
  \A i, j \in DOMAIN s :
    i < j /\ s[i].from = source /\ s[j].from = source => s[i].at < s[j].at

\* Every order of the topic that the consumer has read is with the engine, in the
\* channel or in the consumer's hand, once and in the topic's order, whatever the
\* stream puts in between: the full channel makes the consumer wait.
TopicOrdersInOrder ==
  LET seen == taken \o queue
                \o (IF reader \in {"offer", "write", "wait"} THEN <<InHand>> ELSE <<>>)
  IN  reader # "ended" =>
        /\ GoUp(seen, "topic")
        /\ \E first \in 1 .. position + 1 : Places(seen, "topic") = first .. position

\* The orders of a stream keep their order, and the engine gets all of them but
\* those that met a full channel.
StreamOrdersInOrder ==
  /\ GoUp(taken \o queue, "stream")
  /\ Places(taken \o queue, "stream") = (1 .. Len(streamed)) \ dropped

\* Both sources keep their order on the way to the engine.
OrdersInOrder == TopicOrdersInOrder /\ StreamOrdersInOrder

\* The book made the trade x before the trade y.
MadeBefore(x, y) == \E i, j \in DOMAIN made : i < j /\ made[i] = x /\ made[j] = y

\* Where a trade of this process follows one it should not follow.
StepsBack(s) ==
  {i \in 2 .. Len(s) : /\ s[i].life = count.starts /\ s[i - 1].life = count.starts
                       /\ ~MadeBefore(s[i - 1], s[i])}

\* The trades topic and the producer's queue hold trades this process's book made
\* and no others, in the order it made them but for one step back for each that
\* was sent again, and all of them while the service is not stopped, but for those
\* the producer gave up.
TapeFollowsBook ==
  LET sent == tape \o outbox
      own  == {t \in ToSet(sent) : t.life = count.starts}
  IN  up => /\ own \subseteq ToSet(made)
            /\ Cardinality(StepsBack(sent)) <= count.resent
            /\ ~EngineCancelled => Cardinality(ToSet(made) \ own) <= count.expired

Band == MinPrice .. MaxPrice

\* Between orders whose prices are of the band, a check passed on the market price of
\* one moment holds for all the trades of the order, levels away, and what rests of it
\* is within the limits by exact numbers; whatever else is in the book.  (Of an order
\* priced whole moduli away the product the check makes may have wrapped.  Only its
\* quantity is limited.)
TradesWithinLimits ==
  /\ engine = "publish" /\ {taker.price, Book!Maker.price} \subseteq Band =>
       WithinLimits(Trade.price, Trade.qty, market)
  /\ \A r \in resting :
       r.qty <= MaxOrderQuantity /\ (r.price \in Band => r.price * r.qty <= MaxNotionalValue)

\* The test StreamOrders_ShouldEnqueueAllIncomingOrders: the response says
\* Success, so every order of the stream was enqueued.
StreamedAreEnqueued == answered => dropped = {}

\* While nothing is stopped or broken, and the broker takes trades, every order of
\* the topic gets to the engine and every trade to its topic: neither a full
\* channel nor a full producer stops the pipeline for good.
Healthy == up /\ stopping = "none" /\ engine # "faulted" /\ reader # "ended"

EveryOrderTaken ==
  WF_vars(Deliver) /\ []Healthy => \A k \in 1 .. MaxTopic :
    Len(topic) >= k ~> [from |-> "topic", at |-> k] \in ToSet(taken)

EveryTradePublished ==
  WF_vars(Deliver) /\ []Healthy => \A n \in 1 .. MaxTopic :
    Len(made) >= n ~> Cardinality(ToSet(tape)) + count.expired >= n

\* Neither end of the pipeline is left waiting.
PipelineMoves == EveryOrderTaken /\ EveryTradePublished

\* Both loops end when they are told to, even with a full channel, a full
\* producer and no broker.
LoopsStop ==
  /\ stopping = "both" ~> engine \in {"ended", "faulted"} \/ ~up
  /\ ReaderCancelled ~> reader = "ended" \/ ~up
=============================================================================
