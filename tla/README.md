# FalconFX in TLA+

FalconFX is a simulated foreign-exchange venue: a market maker writes orders to
Kafka, a matching engine trades them against each other, a trade processor
saves the trades in Postgres and publishes prices through Redis, and a gateway
shows the prices in browsers. This directory holds TLA+ modules that follow the
C# code, the script of the web page and the SignalR client it runs on, TLC
configurations that check them on small instances, and TLAPS proofs, for every value
of the constants, of the safety properties those runs check and of the book's refinement.
`PROJECT.json` lists the runs, maps every definition to the lines it models and
lists the hazards the properties were written for.

```
market maker --orders--> KafkaWorker --\                                  /--> Postgres
 (MarketMaker)                          channel -> engine -> book --trades--> trade processor
 gRPC client  --stream--> GrpcOrderService /  (MatchingService, OrderBook)    (TradeProcessor)
                                                                          \--> Redis --> gateway --> pages
                                                                              (Gateway)   |
                                                     a page: hub connection over HTTP connection
                                              (MarketPage, HubConnection, HttpConnection, TransportSendQueue)
```

## 1. Inventory

For each component: its state, its operations, what is hard about it, and what
makes it correct. Names without a path are under `src/src`.

**Order book and pool** (`FalconFX.MatchingEngine/OrderBook.cs`, `OrderPool.cs`,
`OrderNode.cs`). State: a fixed array of nodes that are either on a free list or
on one of the doubly linked lists, one per side and price level; per side the
number of non-empty levels and the index of the best one. Operations:
`ProcessOrder` (match, then rest or refuse), `Clear`, read-only queries. Called by
one thread, with a callback in the middle of its loop. Hard: links and
trackers are changed in several places, array bounds are not checked, the callback may throw after the trade was reported and before the quantities
are changed. Correct if: every node is in exactly one list, levels are queues,
trackers are exact, the sides never cross, an order refused has not traded, the
book agrees with the trades reported, and trading is by price, then time.

**Pre-trade risk checker** (`Services/PreTradeRiskChecker.cs`). Pure: three limits on
64-bit numbers that wrap, and `Math.Abs`, which throws on one of them. Correct if
the verdict is that of exact arithmetic wherever the book trades.

**Matching engine pipeline** (`EngineWorker.cs`, its `Program.cs`): a bounded channel
of orders, one loop that takes them, checks, matches and publishes each trade in
the book's callback, with a retry when the producer's local queue is full.
**Kafka order ingestion** (`KafkaWorker.cs`): polls the topic, parses, `TryWrite`
and, if the channel is full, `WriteAsync`. **gRPC order service**
(`Services/GrpcOrderService.cs`): the same channel by `TryWrite` alone.
Interact by the channel and by the host, which cancels the two services one after
the other. Hard: two writers and one reader, two tokens, an unhandled exception
that ends one loop while the process stays up, offsets committed before orders
are matched. Correct if topic orders are neither skipped, repeated nor reordered
within a process, the published trades follow the book, limits checked before
the first trade hold for the later ones, and both loops end when told.

**Trade processor** (`FalconFX.TradeProcessor/Worker.cs`, `Program.cs`): three loops —
consume, write to Postgres, publish to Redis — joined by a waiting channel, a
dropping one and one that carries saved offsets back. Hard: a commit may only
follow a save that another thread did; a COPY may succeed without its answer;
each loop may end alone; stop or crash anywhere. Correct if no committed trade is
missing from the table, the table has no gap, nothing read is dropped by a healthy
process, duplicates have a cause, and the ticker does not go back.

**Gateway subscriber** (`FalconFX.Gateway/Workers/RedisSubscriber.cs`) and **browser
page** (`wwwroot/index.html`): handlers that may overlap, a dropping channel, one
broadcast loop, pages that connect, reconnect and give up. Between the loop and the pages
lies the Redis backplane of SignalR (`Program.cs:18`), also with a single gateway: a
send is a publish, and the gateway sends to its pages what its own subscription receives.
Correct if a connected page follows the channel but for what is dropped on the way, goes back
only where handlers overlapped, and ends at the last update.

**SignalR client** (`FalconFX.Gateway/wwwroot/lib/microsoft-signalr/signalr.js`). The
library is a copy in the repository, and the page loads its minified twin. It is modelled
because the page has no logic of its own for what can happen to its connection:
that a start is refused or never answered, that the stream falls silent, is lost and comes
back, is all decided here, by promises, timers and flags of three objects that
call each other.
- *Hub connection* (`HubConnection`, line 1195). State: `_connectionState`, the promises
  of the start, the stop and the handshake, `_stopDuringStartError`, the reconnect
  loop, the server timeout, the invocations. Operations: `start`, `stop`, `invoke`,
  what arrives, what closes, two timers.
- *HTTP connection and transports* (`HttpConnection`, `WebSocketTransport`,
  `ServerSentEventsTransport`, `LongPollingTransport`). State: `_connectionState` again, of
  its own, the transport, the promise of the stop. Operations: negotiation with redirects,
  one transport after the other, `send`, `stop` in any phase.
- *Send queue* (`TransportSendQueue`): a buffer, a loop, a promise shared by all senders of a
  batch.

Hard: two state machines that must agree, each with promises resolved by the other; a
`stop` or a loss in any await of a start; a close callback that runs inside a call;
a queue that goes on after its connection. Correct if both layers agree whenever no
code is left to run, no invocation waits for an answer that cannot come, a stop is final,
every promise settles, a silent server is noticed, and the page's label tells the truth;
section 4 lists where the code falls short of that.

**Market maker** (`FalconFX.MarketMaker/Worker.cs`, `XorShift64.cs`): waits for the
broker, then draws orders in batches and produces them without waiting for
delivery. Hard: one request object used for all orders, a full local queue, a
stop in any wait. Correct if what is sent is what was drawn, the engine's limits
admit it, the generator cannot get stuck, and the service ends when told.

**Start-up** (`FalconFX.ServiceDefaults/KafkaUtils.cs`, `FalconFX.AppHost/Program.cs`),
**telemetry and service defaults**, **messages** (`.proto`), **tests and
benchmarks**: little or no state; see section 8.

## 2. Modules

| module | what it is | composed of |
|---|---|---|
| `OrderBook` | the book and its pool, node by node | `PriceTimePriority` (refined) |
| `PriceTimePriority` | what the book promises: a set of orders | |
| `OrderBookProofs` | proofs: indexes, trackers, what is refused and what crosses | `OrderBook` |
| `OrderBookListProofs` | proofs: the lists, the tape and the refinement | `OrderBookProofs` |
| `RiskChecker`, `RiskCheckerProofs` | `ValidateOrder` and its arithmetic; proofs | |
| `MatchingService`, `MatchingServiceProofs` | the engine's process; proofs | `RiskChecker`, `PriceTimePriority` |
| `TradeProcessor`, `TradeProcessorProofs` | the trade processor's process; proofs | |
| `Gateway`, `GatewayProofs` | gateway and pages; proofs | |
| `XorShift` | the generator, bit by bit | |
| `MarketMaker`, `MarketMakerProofs` | the market maker's process; proofs | `XorShift`, `RiskChecker` |
| `TransportSendQueue` | the queue in front of a transport | |
| `HttpConnection` | connection and transports: the pieces of their methods between awaits | `TransportSendQueue` |
| `HubConnection` | the hub over it; tasks and continuations | `HttpConnection` |
| `MarketPage`, `MarketPageProofs` | the page's script over it, the specification that is checked; proofs | `HubConnection` |
| `MC*` | values of the constants for TLC | the module of that name |

`MatchingService` uses the book by its abstraction: `OrderBook` is shown to
implement `PriceTimePriority`, so the service is checked with the set of orders
instead of the linked lists, and every step of a call can interleave with the
service's other threads. The abstract book keeps one thing of the arrays, because it shows
from outside: an order stands at the level its price is cut to (`LevelPrice`), which for
a price a modulus away is not the level of its price.

### OrderBook

One call of `ProcessOrder` is a run of steps, because the callback can observe and
interrupt it. `pc` is `idle` between calls, `match` at the loop's head and
`callback` while the callback runs.

| action | code |
|---|---|
| `Receive` | the range check and the copy of the parameter |
| `Execute` | the loop's head and the trade it reports |
| `Fill` | after the callback: the maker shrinks or is removed and returned |
| `CallbackThrows` | the callback's exception leaves `ProcessOrder` |
| `Rest`, `RejectExhausted`, `FullyFilled` | after the loop: `AddToBook`, no node, nothing left |
| `Clear` | `Clear` and `OrderPool.Reset` |

`next`, `prev`, `data`, `freeHead` are the pool's arrays; `head`, `tail`,
`levelCount`, `best` the book's fields. A level index is `(price - MinPrice) %
IndexModulus` because the code casts the difference to an `int` and compares
unsigned; the modulus is a constant (2^32 in the code). Scans for the next best
level are written as "the first occupied level behind". An order's `id` is its
place in the order of arrival: the book copies identifiers and never reads one.

### MatchingService

`reader` is where `KafkaWorker`'s loop is (`poll`, `offer` an order by `TryWrite`,
about to `write`, `wait` in `WriteAsync`, `ended`); `engine` where the matching loop
is (`wait`, `drain`, `match`, `publish` inside the callback, `faulted`, `ended`).
`Take` takes an order, reads the market price and runs the check; the book's own
steps come next, `CallBack` enters the callback and `Publish`/`PublishFails` are
the outcomes of `Produce`. The producer's
own thread is external: `Deliver`, `Expire`, and `SendAgain`, which repeats a message
and may put it behind later ones, since neither producer of the system asks for
idempotence. `CancelReader` and `CancelEngine` are the host's stop,
one service after the other; `Exit`, `Crash` and `Start` end and begin the process:
the topics and the committed position survive, nothing else does.

### TradeProcessor

`consumer`, `writer` and `publisher` are the places of the three loops; `tradeQ`,
`redisQ`, `offsetQ` the channels; `position`, `stored`, `committed` the three offsets
Kafka keeps for a consumer. A trade is its offset. The COPY has three outcomes,
told apart by the moment: it commits and answers (`CopyCommits`, then `Saved`), it
fails and leaves nothing (`CopyFails` from `copy`), or it commits and the answer is
lost (`CopyFails` from `copied`). The batch is gathered one trade at a time (`Gather`) until
it is full or the channel is found empty (`Gathered`), and the consume loop may put in
more meanwhile. `AutoCommit` is the client's background commit.

### Gateway

`Receive` starts a handler, `Handle` is `ProcessMessage` up to its write to the
channel (`Put`, which drops the oldest), `Wait`/`Read`/`Send`/`SendFails` the
broadcast loop, `Connect`, `Show`, `CutOff`, `GiveUp` the page. A send publishes on the
backplane: `bus` is what Redis accepted and the gateway has not received, `Deliver`
sends it to the pages connected then, and `wire` is what was sent to a page and has not
arrived. A failed send may have been published all the same. While the gateway's
subscription is down (`SubscriptionDown` until `Resubscribe`) what is published is
lost, although the send succeeds, and so is what was still on the broken connection
(`Stray`).

### TransportSendQueue, HttpConnection, HubConnection, MarketPage

JavaScript runs one task at a time, and after it whatever its promises made
ready. `Ready` says that a continuation is due; a task (an answer from the network, a
timer, a message, a call by the page) begins only when none is (`Task`). Continuations
run in any order, which is more than the engine's queue allows. A piece of a method from one
await to the next is one operator; where one object calls another inside it, so does the
operator: `ConnectionDown` is `_stopConnection`, the `onclose` it raises, and
the hub's `_connectionClosed` in one step.

| variables | code |
|---|---|
| `httpState`, `httpStarted`, `hubState`, `hubStarted` | `_connectionState`, `_connectionStarted` of the two classes |
| `starting`, `attempt`, `loop`, `stopping`, `stopCall` | where `start`, the hub's `_startInternal`, `_reconnect` and the two `stop` are: at which await |
| `stopPromise`, `startPromise`, `shake`, `sent`, `calls` | promises: of a stop, of a start, of the handshake, of the queue, of invocations |
| `stopErr`, `shaken`, `timeout`, `inherentKeepAlive` | flags of the same names, more or less |
| `transport`, `link` | the transport and what is under it: none, open, or silent without knowing it |
| `buffer`, `posting`, `orphans` | the queue; a batch on its way; queues stopped while theirs was |
| `label` | what the page shows |

| actions | code |
|---|---|
| `Start`, `Stop`, `Call` | `start()` of the page, which tries again when it is refused; `stop()` and `invoke()`, which the client offers and index.html does not use |
| `Negotiation`, `Connecting` | the loops of `HttpConnection._startInternal` and `_createTransport` |
| `Greet`, `AwaitHandshake`, `Ping`, `Pinged`, `Aborted` | the awaits of `HubConnection._startInternal` and its catch |
| `StartReturns`, `AttemptReturns`, `DelayElapses` | `_startWithStateTransitions`, a turn of `_reconnect` |
| `StopTransport`, `DeleteReturns`, `StopReturns` | `_stopInternal` and the transports' `stop` |
| `ProcessIncomingData`, `ReceiveGarbage`, `LinkCloses`, `LinkDies`, `ServerTimeout` | what the server, the network and the clock do |
| `TakeBatch`, `Posting` | turns of `_sendLoop` |

`MarketPage` hangs the page's callbacks on the hub's steps (`Shows`) and keeps three
histories that only properties read: `lostInPing` and `stoppedInPing` (the connection was
lost, or the hub stopped, while the last ping of the current start was being posted) and
`closing` (the hub was stopped, by the script or the server).

### MarketMaker

`phase` is where `ExecuteAsync` is: `probe`, `create`, `elect` (the start-up's three
awaits), `loop`, `batch`, `backoff`, `pause`, `flush`, `ended`. `Produce` serialises the
request at once, so `outbox` holds values while `request` is filled again. The
generator works on functions from bit numbers to Booleans, 64 of them in the run,
and the price is really drawn from those bits.

## 3. Runs

All constants ending in `Max...`, except limits of the code, bound the model and
not the code. State counts are those of one run and only give an idea.

| run | states | bounds | what it shows |
|---|---|---|---|
| `order_book` | 390 000 | 4 orders, 3 levels, 3 nodes, prices 0..3 (one out of range), quantities 0..2 | all invariants of the book, that every call returns, and the refinement of `PriceTimePriority` |
| `order_book_wide_price` | – | 2 orders, a price of one modulus past the band | violation: finding 1 |
| `matching_service` | 3 500 000 | 3 topic orders, 1 streamed, two of the four priced a modulus away from their level, channel and outbox of 1, a fault, a stop or crash | order, the tape and the limits in the engine's process |
| `matching_service_live` | 32 000 | 3 topic orders, a fault, a stop | orders taken and trades published in the end, and both loops stop when told, a failed one included |
| `matching_service_stream` | – | 2 streamed orders, channel of 1 | violation: finding 3 |
| `trade_processor` | 930 000 | 3 trades, channels of 1, batch of 2, 2 attempts, 2 database faults, 1 Redis fault, a stop or crash, a last payload that does not parse | nothing committed is missing, no gaps, duplicates have a cause; once it is left in peace everything is committed |
| `trade_processor_redis` | 1 900 000 | 4 trades, a Redis channel of 2, no database fault, 1 Redis fault, a stop or crash | the ticker does not go back, and ends at the last trade |
| `trade_processor_once` | – | no restart | violation: finding 4 |
| `gateway` | 1 400 000 | 5 messages, one malformed, 2 handlers, channel of 2, 2 faults of any kind, one page | what a page shows |
| `market_maker` | 25 000 | 64-bit words, 2 seeds (one zero), 2 batches of 2, outbox of 2, one change of the broker or one resend, one restart | what is sent, and that the service ends |
| `market_page` | 130 000 | a server that offers all three transports or none, 2 redirects, first poll 200 or another 2xx, 1 invocation, 2 retries | the two layers agree, stops are final, promises settle, silence is noticed, the label is true, each but for the exceptions of section 4 |
| `market_page_up` | – | a server with events only, no invocation | violation: finding 2 |

Why the bounds are enough for the case at hand:

- *Book.* Four orders and three nodes make a level of two orders, a head that is
  partly filled, a taker that empties a level in the middle of the band and goes
  to the next, an empty pool before and after trades, and a node used again. The
  trackers' scan meets an empty level between two occupied ones in three levels.
  A quantity of zero is included because nothing in the code refuses it.
- *Channels.* Capacity 1 makes "full" and "empty" neighbours, so each put meets a
  full channel; two items in flight are one in the channel and one in hand. Where the
  question is what a dropping channel drops its capacity is 2, to tell "oldest" from
  "newest": in `trade_processor_redis` four trades overflow it, before the Redis loop takes
  any, or while it is setting or publishing the first.
- *Trade processor.* A batch of 2 with 2 trades that parse is full when the consume loop
  puts in the second before the channel is found empty, and partial otherwise; 2
  database faults with 2 attempts reach the permanent failure, and one failure
  that succeeded unseen; one restart is enough to replay from the committed
  position, and the second process can itself stop without a third.
- *Matching service.* The numbers are longs of -32..31 and level indexes of 0..15, so that
  the prices 18 and -30 have the level of 2. The orders of the run are these and two of the
  band: one match has two trades, the check refuses some by the price, a product wraps past
  the notional limit, and a difference of prices makes `Math.Abs` throw.
- *Gateway.* Two overlapping handlers and a channel of two make reordering and
  dropping meet; pages do not influence each other, so one is enough.
- *Page.* One invocation and the three messages of the client itself (handshake, ping,
  close) fill a batch with more than one sender, leave one behind in an orphaned queue, and
  meet every close. Starts, losses and stops are not bounded: the page starts again whenever
  it was refused, and the graph of states is finite without a bound. Two retries tell a
  reconnect that fails from one that gives up; all three transports in one offer try
  each as the first, the next and the last.
- *Market maker.* An outbox of 2 and 4 orders fills it inside and between batches, and
  two orders on the way are enough for a resent one to come behind a later one
  (`matching_service`, with an outbox of 1, has only the repetition).

`CHECK_DEADLOCK FALSE` is set where the process may end, or the bounded topic run
dry, and for `market_page`, where a page that was stopped, has its calls settled and does not start
again has nothing to do; `order_book` keeps the deadlock check, since `Clear` is always possible between
calls and a call inside its loop must never be stuck.

Every property of a passing run has a mutant in `PROJECT.json`: an operator next to
the definition it would replace, marked "Mutant", that makes a plausible mistake and
that TLC catches with that property.

## 4. Properties

- `OrderBook`: `ListsAreSound` (free list and levels partition the pool; each level is a queue
  of one side and price in order of arrival, with both links and tail), `TrackersExact`,
  `Uncrossed` (inside a call too), `RefusedWhole` (refused means untraded),
  `BookAgreesWithTape` (open quantities follow from the reported trades),
  `EveryCallReturns`, `ImplementsPriority`.
- `MatchingService`: `OrdersInOrder` (of the topic, and of the stream: neither skipped,
  repeated nor reordered), `TapeFollowsBook`, `TradesWithinLimits`, `PipelineMoves` (every
  order is taken, every trade published), `LoopsStop`.
- `RiskChecker` has no run of its own: `MCMatchingService` compares it with exact numbers
  on every value of its small long (`CheckerIsExact`, an assumption TLC evaluates), and
  `VerdictExact` says it for all.
- `TradeProcessor`: `CommittedIsSaved`, `NoGapInTable`, `DuplicatesExplained`,
  `TickerMovesForward`, `AllCommitted`, `LastTradeShown`.
- `Gateway`: `PageFollows`, `PagesMoveForward`, `LastUpdateShown`.
- `MarketMaker`: `GeneratorNeverStuck`, `SentAsDrawn`, `OrdersAdmitted`, `EndsWhenTold`.
- `MarketPage`: `LayersAgree`, `CallsSettle`, `StopIsFinal`, `LiveIsConnected`,
  `NeverBackFromStop`, `PromisesSettle`, `ReconnectSettles`, `SilenceNoticed`.

Two of these need care in reading. `BookAgreesWithTape` holds although a callback
that throws leaves the trade unapplied, because a trade whose callback threw is
not part of the tape: the history records a trade when its callback returns.
`TradesWithinLimits` speaks of orders priced in the band. Of one that is priced whole
moduli away, gets a level all the same and has wrapped its way past the notional check, only the
quantity is limited: it rests, and trades, above the notional limit (finding 1).
`TickerMovesForward` is about the life of one process; after a restart replayed
trades are published again and the price may go back for a moment.

The properties of `MarketPage` name the states in which the code does not keep them, so
that everything else is checked. Each is an observation about the code:
- `lostInPing`, `stoppedInPing` (`Raced`): a close of the event source, or a `stop()`,
  that comes after the start's last look at `_stopDuringStartError`, while the last ping is
  being posted. If the ping is accepted the hub is set Connected (signalr.js:1281, or 1890 in
  a reconnect), over no connection and after `stop()` has returned (finding 2). So
  `StopIsFinal` and `NeverBackFromStop` do not say that a stop is final in whatever phase it
  was called: they say that this is the only phase in which it is not. `StopIsFinal` still
  has the connection down in that case.
- `PollLost`: a first poll answered with a 2xx other than 200 ends the poll loop at
  once; `onclose` forgets the transport, and the start goes on without one
  (signalr.js:2277, 2869). The handshake is never sent, and `start()` does not settle.
- `Unwatched`: `features.inherentKeepAlive` is set by long polling and never reset, so over
  long polling, and over another transport later on, the client has no server timeout. A poll
  that times out is sent again (signalr.js:2328): a server that falls silent is not noticed.
- `closing`: the page registers no `onclose`, so the label says LIVE STREAM after a server
  has closed for good, and Reconnecting... after the reconnect has given up.

## 5. Fairness

| specification | assumed | why |
|---|---|---|
| `OrderBook!FairSpec` | WF of a call's steps | sequential code that waits for nothing |
| `MatchingService!FairSpec` | WF of the reader's and the engine's steps | each loop has a thread of its own |
| … inside `PipelineMoves` | WF of `Deliver`, as a premise | the broker is not the code's: only this property needs it to take trades, `LoopsStop` does not |
| `TradeProcessor!FairSpec` | WF of each loop and of the background commit; SF of `Fetch` | the loops have tasks of their own; the consumer polls again and again with a timeout, so a poll may come back empty between two that do not |
| … inside `AllCommitted`, `LastTradeShown` | `Healthy` from some time on, as a premise | that whoever runs the service starts it again after it stopped is not the code's |
| `Gateway!FairSpec` | WF of handlers, of the broadcast loop, of `Deliver` and of each page's `Show` | thread pool, a task, the Redis client's reader, the browser's event loop; nothing is assumed of the subscription coming back |
| `MarketMaker!FairSpec` | WF of the worker's steps | a task of its own; nothing is assumed of the broker |
| `MarketPage!FairSpec` | WF of continuations; of answers to requests (they come or fail); of the DELETE, the reconnect delay, the page's next start; of the server timeout where an answer is awaited or the link is silent; of a live server that ends a connection whose handshake is never finished | the browser runs what is due and its requests time out; SignalR servers have a handshake timeout, which the client relies on where its own is off |

No fairness is assumed of faults, of the broker coming back, of Redis or of
connections; a link that fell silent stays so unless the client does something.

## 6. Proofs

Every safety property a passing run checks is also a theorem, for every value of the
constants that satisfies the named assumptions. Left to TLC alone are the properties that
say something happens (`EveryCallReturns`, `PipelineMoves`, `LoopsStop`, `AllCommitted`,
`LastTradeShown`, `LastUpdateShown`, `EndsWhenTold`, `PromisesSettle`, `ReconnectSettles`,
`SilenceNoticed`): they rest on fairness and `ENABLED`, which the prover does not handle. A
theorem has the shape `Spec => []Property`; the invariant behind it (`IInv`, or a name given
below) was checked by TLC before it was proved.

| theorem | property | for every |
|---|---|---|
| `OrderBookProofs!TypeCorrect` | `TypeOK` | pool, band, modulus, prices and quantities |
| `OrderBookProofs!TrackersAlwaysExact` | `TrackersExact` | the same |
| `OrderBookProofs!RefusedAlwaysWhole` | `RefusedWhole` | the same |
| `OrderBookProofs!NeverCrossed` | `Uncrossed` | the same, without price aliasing |
| `OrderBookListProofs!ListsAlwaysSound` | `ListsAreSound` | pool, band, modulus, prices and quantities |
| `OrderBookListProofs!AlwaysAgreesWithTape` | `BookAgreesWithTape` | the same |
| `OrderBookListProofs!BookImplementsPriority` | `ImplementsPriority` | the same |
| `MatchingServiceProofs!TypeCorrect` | `TypeOK` | topic, stream, channel, producer's queue, limits, faults and restarts |
| `MatchingServiceProofs!AlwaysInOrder` | `OrdersInOrder` | the same |
| `MatchingServiceProofs!AlwaysWithinLimits` | `TradesWithinLimits` | the same |
| `MatchingServiceProofs!TapeAlwaysFollows` | `TapeFollowsBook` | the same |
| `RiskCheckerProofs!VerdictExact` | a fact about `ValidateOrder`, no property of a run | limits, width, and prices small enough |
| `TradeProcessorProofs!TypeCorrect` | `TypeOK` | topic, capacities, batch size, attempts, faults and restarts |
| `TradeProcessorProofs!CommittedAlwaysSaved` | `CommittedIsSaved` | the same |
| `TradeProcessorProofs!TableNeverHasGap` | `NoGapInTable` | the same |
| `TradeProcessorProofs!DuplicatesAlwaysExplained` | `DuplicatesExplained` | the same |
| `TradeProcessorProofs!TickerAlwaysForward` | `TickerMovesForward` | the same |
| `GatewayProofs!TypeCorrect` | `TypeOK` | handlers, channel, pages, updates and faults |
| `GatewayProofs!PageAlwaysFollows` | `PageFollows` | the same |
| `GatewayProofs!PagesAlwaysForward` | `PagesMoveForward` | the same |
| `MarketMakerProofs!NeverStuck` | `GeneratorNeverStuck` | width, shifts, seeds, batches and faults |
| `MarketMakerProofs!TypeCorrect` | `TypeOK` | the same |
| `MarketMakerProofs!AlwaysSentAsDrawn` | `SentAsDrawn` | the same |
| `MarketMakerProofs!AlwaysAdmitted` | `OrdersAdmitted` | the same, and limits and bands that contain what is drawn |
| `MarketPageProofs!TypeCorrect` | `TypeOK` | offers, redirects, first polls, retries and invocations |
| `MarketPageProofs!LayersAlwaysAgree` | `LayersAgree` | the same |
| `MarketPageProofs!CallsAlwaysSettle` | `CallsSettle` | the same |
| `MarketPageProofs!StopAlwaysFinal` | `StopIsFinal`, with its exception of a stop or loss in the last ping | the same |
| `MarketPageProofs!LiveAlwaysConnected` | `LiveIsConnected` | the same |
| `MarketPageProofs!NeverBack` | `NeverBackFromStop`, with its exception of a stop in the last ping | the same |

**Order book.** Assumed is `BookAssumption`: a pool of at least one node, at least two
levels, no more levels than the modulus. `TypeOK` is not inductive: that `best` is a level
after a level was emptied depends on the trackers, and the trackers' exactness depends on
indexes being in range. The inductive invariant is

    Sound == TypeOK /\ TrackersExact /\ InRangeWhileBusy /\ CallbackReady

where `InRangeWhileBusy` says that the order of a running call passed the range check, and
`CallbackReady` that while the callback runs the loop's condition still holds and the trade
is the one of the best maker. `MakerExists` derives from it that the loop reads a head only
where there is one. The two hard cases are the maker that empties its level
(`LeaveTrackers`: cardinality of a set less an element, and the next best as an extreme of
what is left, whose existence comes from well-founded induction on naturals) and the order
that opens a level (`OpenLevelTrackers`). `RefusedAlwaysWhole` adds `Wholeness`: once the
order has traded and has something left, its last maker was used up and its node returned,
so the free list is not empty. `NeverCrossed` needs `NoAliasing`: every price given to the
book lies less than a modulus away from the band (finding 1 shows why). From it the index of
a resting price is the price less the lowest (`IndexIsPrice`), and an order is put in the
book only when the loop has ended for want of a crossing order, which `TrackersExact` makes
true of all levels and not just of the best one. No other theorem about the book needs it.

**The lists.** `ListsAreSound` speaks of walks, which no step preserves by itself. What
steps preserve is local (`AlwaysThreaded`):

    Threads == Ends /\ Links /\ FreeList      Orders

Heads have no predecessor and tails no successor (`Ends`); links agree both ways, stay in
their level and lead from older orders to newer (`Links`). The free list has one link per
node, so it is told by sets: a set of free nodes without `freeHead` is pointed at from
outside, and no set of them runs in a circle (`FreeList`). `Orders` ties the nodes to the
tape: distinct identifiers, and in each node the quantity the tape leaves open, which is
`BookAgreesWithTape`. Taking the maker out (`LeaveThreads`) and putting an order in
(`RestThreads`) are the two steps that relink. `ThreadsMakeSoundLists` leads from the
threads to the walks: a walk that never ends or meets a node twice would have a least place
where it does, and `WalkUnfolds` and `WalkOneMore` take a step there. That needs the least
element of a set of naturals, not induction over data.

The refinement maps the nodes of the book to a set of records. `BestIsFirst` and
`MakerIsFirst` say that the head of the best level is the order `PriceTimePriority` chooses:
by `TrackersExact` no level is better, by `Links` nobody in its level is older. Each action
then is an abstract step or a stutter (`ReceiveImplements`, `FillImplements`,
`RestImplements`). Both sides cut a price to the same level (`LevelPriceIs`), so the
refinement holds with price aliasing, too.

**Matching service.** `OrdersAssumption` says what the order message says, longs, and that
the band is of non-negative prices and what the limits admit there fits a long. The
invariant has a part for each of the three properties:
- `SourcesInv`: what has entered the channel, taken or still in it (`Entered`), is in the
  order of both sources and complete up to `Behind`, the last place before the order in the
  consumer's hand. `TryWrite`, `WriteAsync` and the hand-over to a waiting writer put one
  order behind all others (`EnterLast`); `TryRead` moves the border between taken and
  waiting (`ConcatMove`).
- `BookInv`: every order in the book has a level of the band (`AtLevels`) and a quantity,
  and if its price is of the band a notional value, that the limits admit (`AllAdmitted`,
  from the lemmas about the checker). While an order priced in the band is matched, every
  level it could trade at lies on the far side of the market price of its check (`Beyond`,
  in `BookWithin`). So the price of a trade lies between
  the market price and the order's own, and its value below that of the taker for a buy, of
  the maker for a sell. No trade is made twice (`TradesMade`): of the maker and the taker,
  one is used up.
- `TapeInv`: `TapeFollowsBook` with the process each trade belongs to (`Lives`). A trade put
  at the end of the producer's queue was made last (`StepsMade`). One taken out leaves no
  more steps back, by an injection that uses that "made before" is transitive, since no
  trade is made twice (`StepsWithout`); one put behind the others adds at most one
  (`StepsAppend`).

**Risk checker.** The prices are not negative and the largest of them times the quantity
limit fits a long, as it does in the code's defaults. Then products and differences
that matter do not wrap (`NotionalFits`, `DifferenceFits`, `WrapExact`), and the two
directions follow (`PassedIsWithin`, `WithinIsPassed`).

**Trade processor.** `ProcessorAssumption`: capacities, batch size and attempts are
positive. None of the properties is inductive, because an offset is committed long after its
row was saved, by another loop. While the process is up there is a number s, the border of
what is saved, with (`Pipeline`):
- behind it, without a gap, come the batch, the channel, the result in hand and the
  consumer's position (`Contiguous`);
- everything before s is in the table, and everything before the end of the batch once the
  COPY has committed (`SavedTo`);
- offsets stored, and those on their way back to the consumer, lie before s;
- a trade from s on that may still be saved has at most a row for each failure and restart
  so far (`Fresh`).

The number moves only in `Saved`, to the end of the batch, and is the committed position in
a new process. `IInv` adds types that depend on the place of a loop (`Typed`: a batch that
is tried is not empty) and the three properties, which is what a process inherits from the
one before. There is one lemma for each step that moves the pipeline (`FlowDrain`,
`FlowFetch`, `FlowEnqueue`, `FlowGather`, `FlowCopyCommits`, `FlowSaved`, `FlowStart`) and
one for all others (`FlowOthers`). `IInv` was checked by TLC on a small instance before it
was proved. The action property `TickerMovesForward` has an invariant of its own, `Ahead`:
what waits for the Redis loop lies between the trade it took last and the result in hand, so
whichever it takes next is a later one.

**Gateway.** `PageFollows` is about the sequence a page has before it: what is on the wire,
what the backplane and the broadcast loop hold and what waits in the channel. `IInv` adds the handlers
(`Handling`: a handler writes its update once, and an update overtakes an older one only
when their handlers ran together) and that the sequence is in the order in which handlers
wrote (`Queued`). A few lemmas are about any such sequence: one more at the end, one less
somewhere (`InLineLoses`: dropped by the channel, not sent, lost on the backplane), one that
arrives (`QueuedArrives`), a cut when the page is lost (`QueuedCut`). The steps instantiate
them, and most only regroup the sequence (`Regroup`).

**Market page.** `HubAssumption` keeps invocations apart from the client's own three
messages. `LayersAgree` holds only when no continuation is due, so the invariant says for
each await what both layers look like there: of the start (`StartAgrees`), the link and its
transport (`LinkAgrees`), the reconnect loop (`AttemptAgrees`), the hub (`HubAgrees`), the
close or stop that is not noticed (`RaceAgrees`, finding 2), the two stops (`StopAgrees`),
invocations (`CallsAgree`) and the label (`LabelAgrees`). There is a lemma for every task
and every continuation, and `DownKeeps` for `ConnectionDown`, which most failures end in.

**Market maker.** `NeverStuck` is below. For `SentAsDrawn` the invariant is that an order's
identifier is its place among those its process drew (`Numbered`), that what waits is of
this process and what was sent of no later one (`Current`), and that the topic followed by
the local queue steps back at most once for each order sent again (`FewBack`), by the same
two lemmas as for the trades. `AlwaysAdmitted` needs that the remainder of a word of any
width stays in range: it is computed from the highest bit down, and every partial remainder
is bounded (`ResidueBound`, by descent on the bit's number). `LimitsAssumption`: the
engine's band and limits contain what is drawn, as the code's do by far.

**Generator.** A word that is not zero has a lowest bit that is set; xor-ing the word with
itself shifted up does not touch it. Shifting down, the highest one. So each of the three
steps keeps a word live (`LeftKeepsLowest`, `RightKeepsHighest`), and so does the whole draw
(`NextStaysLive`). The invariant is that `rng` is a live word; a zero clock is replaced when
the generator is made.

## 7. Findings

1. **A far-away price is taken for one of the band** (`order_book_wide_price`,
   `OrderBook.cs:73`): the difference is cut to 32 bits before the range check, so a
   price 2^32 away gets a level that is not its own, trades there and rests there. One far
   enough away has a notional value that wraps past the pre-trade check, and rests over
   that limit.
2. **A page may be live without a connection** (`market_page_up`, `signalr.js:1340`): an
   event source that closes while the start's last ping is being posted is not noticed if the
   ping is accepted. `start()` resolves, the hub is Connected over a connection that is
   Disconnected, no reconnect follows, and the page shows LIVE STREAM. The comment
   at line 1262 says the promise resolves when the connection is established. A `stop()` in the
   same wait returns, and then the ping's answer sets the hub Connected again; line 1355
   says its promise resolves when the connection has been terminated.
3. **A stream is answered with Success although an order was dropped**
   (`matching_service_stream`, `GrpcOrderService.cs:31`).
4. **A trade may be saved twice** (`trade_processor_once`, `TradeProcessor/Worker.cs:266`)
   when Postgres commits a COPY whose answer is lost; the chaos test expects
   exactly once.

Smaller observations, without a run:

- the notional check wraps (`PreTradeRiskChecker.cs:39`): a product of 2^63 or more is
  negative and passes; `VerdictExact` shows that this needs a price outside the band, and
  finding 1 lets one in;
- a stop between gathering a batch and its first attempt makes the database loop fail with
  "after max retries" (`TradeProcessor/Worker.cs:281`), and after the database loop has
  failed the trade processor stays up without saving;
- `TradeExecuted.id` is never set by the engine, though the message's comment calls it a
  unique identifier; the market maker's identifiers start again with every process;
- those of section 4 about the page, and a `stop()` called inside an `onreconnecting`
  callback, which leaves the hub Disconnecting for ever (signalr.js:1398).

## 8. What is not modelled

- *Matching engine.* The stats loop and its counters (logging). Delivery reports
  are off, so a trade the leader loses is only the external `Expire`. Sides other than Buy, which the code
  treats as sells: the model's sell stands for them. `Clear` is not called by the
  service, only by tests and benchmarks: it is in `OrderBook` and not in
  `PriceTimePriority`'s use by `MatchingService`.
- *Kafka.* One partition, one consumer of a group: no rebalances. Messages without a
  value, which both consumers skip, are left out. `StoreOffset` does not fail.
- *Trade processor.* The contents of a row; creating the table.
- *Gateway.* A second gateway behind the SignalR backplane, which would
  subscribe to the same updates (the backplane of the one gateway is modelled); the symbol pool, which never changes what is sent;
  colours, formatting, latency.
- *SignalR client.* `send()`, streams and results of client methods, which take the same way as an
  invocation or do not touch the connection; keep-alive pings after the start (the page's
  server is not the one that times out); access tokens and `skipNegotiation`, which index.html
  does not use; `MessageBuffer` and stateful reconnect, off by default; the text and JSON
  of messages; `start` and `stop` called from the hub's own callbacks; HTTP clients and the
  builder, which keep no state of the connection.
- *Market maker.* `BENCHMARK_MODE`, where it idles; an exception other than a full
  queue.
- *Service defaults and telemetry, messages, tests and benchmarks*: no state of
  the system's own, or generated.

## 9. Plan

Done, in this order: `OrderBook` with `PriceTimePriority` and its first proofs,
`TradeProcessor`, `RiskChecker` with proofs, `MatchingService`,
`Gateway`, `MarketMaker`, the SignalR client with `MarketPage`, `TradeProcessorProofs`, and then
the proofs about the book's lists and its refinement, the gateway, the page, the market maker and the matching
service. Left:

1. *Composition*: the topic `trades` between `MatchingService` and `TradeProcessor`,
   with a crash of either: which trades of the book reach the table; and the start
   order of the services.
2. *Gateway*: two gateways behind the backplane.
3. *Under the liveness properties*: the invariants that say who waits for whom (a writer waits only
   for a full channel, a full channel has a reader), which are safety properties and can be proved.
