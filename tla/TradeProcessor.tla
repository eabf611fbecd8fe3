---------------------------- MODULE TradeProcessor ----------------------------
(***************************************************************************)
(* The service that turns the `trades' topic into rows and tickers:        *)
(* FalconFX.TradeProcessor/Worker.cs with the consumer settings of its     *)
(* Program.cs.                                                             *)
(*                                                                         *)
(* Three loops run at once.  The consume loop reads Kafka and feeds a      *)
(* bounded channel, which waits when it is full, and a second one, which   *)
(* drops its oldest item.  The database loop copies batches into Postgres  *)
(* and hands the offset of each saved batch back through a third channel.  *)
(* The Redis loop publishes the newest price it finds.  A trade is known   *)
(* by its offset in the topic's one partition.                             *)
(***************************************************************************)
EXTENDS Integers, Sequences, SequencesExt

CONSTANTS
  MaxTrades,    \* bound of the model: trades put in the topic
  Poison,       \* offsets whose payload does not parse
  TradeCap,     \* capacity of _tradeChannel (500 000 in the code)
  RedisCap,     \* capacity of _redisChannel (10 000 in the code)
  BatchSize,    \* the most items of a batch
  MaxRetries,   \* attempts at one batch (5 in the code)
  MaxDbFaults,  \* bound of the model: failures of Postgres
  MaxRedisFaults,  \* bound of the model: failures of Redis
  MaxStarts     \* bound of the model: crashes and shutdowns, each followed
                \* by a restart

ASSUME ProcessorAssumption ==
  /\ {MaxTrades, TradeCap, RedisCap, BatchSize, MaxRetries} \subseteq Nat \ {0}
  /\ {MaxDbFaults, MaxRedisFaults, MaxStarts} \subseteq Nat
  /\ Poison \subseteq Nat

Offsets == 0 .. MaxTrades - 1
None    == -1

VARIABLES
  produced,    \* trades in the topic: offsets 0 .. produced - 1
  committed,   \* the group's committed position at the broker
  position,    \* the consumer's next offset
  stored,      \* the position handed to StoreOffset, committed in background
  tradeQ, redisQ, offsetQ,  \* the three channels
  closed,      \* the writers of the channels are completed
  consumer,    \* where the consume loop is
  held,        \* the result it is working on
  batch,       \* the database loop's batch
  attempt,     \* failed attempts at that batch
  writer,      \* where the database loop is
  publisher,   \* where the Redis loop is
  latest,      \* the trade it is about to publish
  cancelled,   \* stoppingToken
  up,          \* the process runs
  rows,        \* the Trades table: how many rows each trade has
  ticker,      \* the Redis key: the trade whose price it holds
  published,   \* the trade published last
  faults       \* failures and restarts so far

kafka    == <<produced, committed, position, stored>>
channels == <<tradeQ, redisQ, offsetQ, closed>>
consVars == <<consumer, held>>
dbVars   == <<batch, attempt, writer>>
redisVars == <<publisher, latest>>
vars == <<kafka, channels, consVars, dbVars, redisVars, cancelled, up, rows,
          ticker, published, faults>>

-----------------------------------------------------------------------------
Init ==
  /\ produced = 0 /\ committed = 0 /\ position = 0 /\ stored = 0
  /\ tradeQ = <<>> /\ redisQ = <<>> /\ offsetQ = <<>> /\ closed = FALSE
  /\ consumer = "drain" /\ held = None
  /\ batch = <<>> /\ attempt = 0 /\ writer = "gather"
  /\ publisher = "wait" /\ latest = None
  /\ cancelled = FALSE /\ up = TRUE
  /\ rows = [k \in Offsets |-> 0]
  /\ ticker = None /\ published = None
  /\ faults = [db |-> 0, redis |-> 0, starts |-> 0]

\* The engine produces a trade.
Produce ==
  /\ produced < MaxTrades
  /\ produced' = produced + 1
  /\ UNCHANGED <<committed, position, stored, channels, consVars, dbVars, redisVars,
                 cancelled, up, rows, ticker, published, faults>>

\* librdkafka commits what is stored, once a second.
AutoCommit ==
  /\ up /\ consumer # "ended"
  /\ committed < stored
  /\ committed' = stored
  /\ UNCHANGED <<produced, position, stored, channels, consVars, dbVars, redisVars,
                 cancelled, up, rows, ticker, published, faults>>

-----------------------------------------------------------------------------
(* The consume loop.                                                         *)

\* The finally block: complete the channels, close the consumer, which commits.
EndConsumer ==
  /\ consumer' = "ended"
  /\ held' = None
  /\ closed' = TRUE
  /\ committed' = stored
  /\ UNCHANGED <<produced, position, stored, tradeQ, redisQ, offsetQ>>

\* Mutants: the position of the consumer is stored; the saved trade itself is.
DrainPositionRead ==
  /\ offsetQ' = <<>>
  /\ stored' = IF offsetQ = <<>> THEN stored ELSE position
DrainPositionShort ==
  /\ offsetQ' = <<>>
  /\ stored' = IF offsetQ = <<>> THEN stored ELSE Last(offsetQ)

\* The outer loop's head: store the offsets of saved batches, all there are.
DrainPosition ==
  /\ offsetQ' = <<>>
  /\ stored' = IF offsetQ = <<>> THEN stored ELSE Last(offsetQ) + 1

Drain ==
  /\ up /\ consumer = "drain"
  /\ IF cancelled THEN EndConsumer
     ELSE /\ DrainPosition
          /\ consumer' = "poll"
          /\ UNCHANGED <<produced, committed, position, tradeQ, redisQ, closed, held>>
  /\ UNCHANGED <<dbVars, redisVars, cancelled, up, rows, ticker, published, faults>>

\* Consume returns a result to work on ...
Fetch ==
  /\ up /\ consumer = "poll" /\ position < produced
  /\ held' = position
  /\ position' = position + 1
  /\ consumer' = "enqueue"
  /\ UNCHANGED <<produced, committed, stored, channels, dbVars, redisVars, cancelled,
                 up, rows, ticker, published, faults>>

\* ... or nothing in time, or it throws a ConsumeException.
FetchNothing ==
  /\ up /\ consumer = "poll"
  /\ consumer' = "drain"
  /\ UNCHANGED <<kafka, channels, held, dbVars, redisVars, cancelled, up, rows,
                 ticker, published, faults>>

\* Mutant: the full channel drops what is written.
PutDroppingNewest(q, k) == IF Len(q) < RedisCap THEN Append(q, k) ELSE q

\* _redisChannel drops its oldest item when it is full.
PutDroppingOldest(q, k) == Append(IF Len(q) < RedisCap THEN q ELSE Tail(q), k)

\* Mutants: the full channel drops what is written; it has no capacity.
PutTradeUnbounded(k) == tradeQ' = Append(tradeQ, k)
PutTradeOrDrop(k) == tradeQ' = IF Len(tradeQ) < TradeCap THEN Append(tradeQ, k) ELSE tradeQ

\* _tradeChannel makes its writer wait while it is full.
PutTrade(k) == Len(tradeQ) < TradeCap /\ tradeQ' = Append(tradeQ, k)

\* Parse the result and put it in both channels, waiting for room in the first.
\* A payload that does not parse ends the loop, and so does cancellation; the
\* result in hand is dropped then.
Enqueue ==
  /\ up /\ consumer = "enqueue"
  /\ \/ /\ cancelled \/ held \in Poison
        /\ EndConsumer
     \/ /\ held \notin Poison
        /\ PutTrade(held)
        /\ redisQ' = PutDroppingOldest(redisQ, held)
        /\ held' = None
        /\ consumer' = "poll"
        /\ UNCHANGED <<kafka, offsetQ, closed>>
  /\ UNCHANGED <<dbVars, redisVars, cancelled, up, rows, ticker, published, faults>>

-----------------------------------------------------------------------------
(* The database loop.                                                        *)

\* Mutant: what is read stays in the channel.
QueueKept == tradeQ

QueueAfter == Tail(tradeQ)

\* Wait for an item, then take one after the other, while the consume loop may put in
\* more, until the batch is full ...
Gather ==
  /\ up /\ tradeQ # <<>>
  /\ \/ writer = "gather" /\ ~cancelled
     \/ writer = "fill" /\ Len(batch) < BatchSize
  /\ batch' = Append(batch, Head(tradeQ))
  /\ tradeQ' = QueueAfter
  /\ writer' = "fill"
  /\ UNCHANGED <<kafka, redisQ, offsetQ, closed, consVars, attempt, redisVars,
                 cancelled, up, rows, ticker, published, faults>>

\* ... or the channel is found empty.
Gathered ==
  /\ up /\ writer = "fill" /\ (tradeQ = <<>> \/ Len(batch) = BatchSize)
  /\ writer' = "try"
  /\ UNCHANGED <<kafka, channels, consVars, batch, attempt, redisVars, cancelled, up,
                 rows, ticker, published, faults>>

\* The loop ends: it is cancelled while it waits (for items, Postgres or a retry),
\* or there will be no more items.
WriterStops ==
  /\ up
  /\ \/ cancelled /\ writer \in {"gather", "copy", "copied", "backoff"}
     \/ writer = "gather" /\ closed /\ tradeQ = <<>>
  /\ writer' = "ended"
  /\ UNCHANGED <<kafka, channels, consVars, batch, attempt, redisVars, cancelled, up,
                 rows, ticker, published, faults>>

\* The head of the retry loop, and what follows it when the batch is not saved.
GoesOn == attempt < MaxRetries /\ ~cancelled

StartCopy ==
  /\ up /\ writer = "try" /\ GoesOn
  /\ writer' = "copy"
  /\ UNCHANGED <<kafka, channels, consVars, batch, attempt, redisVars, cancelled, up,
                 rows, ticker, published, faults>>

\* Mutant: the batch is skipped.
GiveUpAndSkip ==
  /\ up /\ writer = "try" /\ ~GoesOn
  /\ writer' = "gather" /\ batch' = <<>> /\ attempt' = 0
  /\ UNCHANGED <<kafka, channels, consVars, redisVars, cancelled, up, rows, ticker,
                 published, faults>>

GiveUp ==
  /\ up /\ writer = "try" /\ ~GoesOn
  /\ writer' = "failed"
  /\ UNCHANGED <<kafka, channels, consVars, batch, attempt, redisVars, cancelled, up,
                 rows, ticker, published, faults>>

\* Postgres commits the COPY: all rows of the batch or none.
CopyCommits ==
  /\ up /\ writer = "copy"
  /\ rows' = [k \in Offsets |-> IF k \in ToSet(batch) THEN rows[k] + 1 ELSE rows[k]]
  /\ writer' = "copied"
  /\ UNCHANGED <<kafka, channels, consVars, batch, attempt, redisVars, cancelled, up,
                 ticker, published, faults>>

\* A Socket- or NpgsqlException: before the commit, or instead of its answer.
CopyFails ==
  /\ up /\ writer \in {"copy", "copied"}
  /\ faults.db < MaxDbFaults
  /\ faults' = [faults EXCEPT !.db = @ + 1]
  /\ attempt' = attempt + 1
  /\ writer' = "backoff"
  /\ UNCHANGED <<kafka, channels, consVars, batch, redisVars, cancelled, up, rows,
                 ticker, published>>

Retry ==
  /\ up /\ writer = "backoff"
  /\ writer' = "try"
  /\ UNCHANGED <<kafka, channels, consVars, batch, attempt, redisVars, cancelled, up,
                 rows, ticker, published, faults>>

\* The answer is here: hand back the last offset, if the channel still takes it.
Saved ==
  /\ up /\ writer = "copied"
  /\ offsetQ' = IF closed THEN offsetQ ELSE Append(offsetQ, Last(batch))
  /\ batch' = <<>>
  /\ attempt' = 0
  /\ writer' = IF cancelled THEN "ended" ELSE "gather"
  /\ UNCHANGED <<kafka, tradeQ, redisQ, closed, consVars, redisVars, cancelled, up,
                 rows, ticker, published, faults>>

-----------------------------------------------------------------------------
(* The Redis loop.                                                           *)

\* The TryRead loop ends with the last of the waiting trades.
NewestWaiting == Last(redisQ)

\* Mutant: the older ones stay in the channel.
TakeNewestOff ==
  /\ up /\ publisher = "wait" /\ ~cancelled /\ redisQ # <<>>
  /\ latest' = Last(redisQ)
  /\ redisQ' = Front(redisQ)
  /\ publisher' = "set"
  /\ UNCHANGED <<kafka, tradeQ, offsetQ, closed, consVars, dbVars, cancelled, up, rows,
                 ticker, published, faults>>

\* Only the newest of the waiting trades is kept.
TakeLatest ==
  /\ up /\ publisher = "wait" /\ ~cancelled /\ redisQ # <<>>
  /\ latest' = NewestWaiting
  /\ redisQ' = <<>>
  /\ publisher' = "set"
  /\ UNCHANGED <<kafka, tradeQ, offsetQ, closed, consVars, dbVars, cancelled, up, rows,
                 ticker, published, faults>>

SetTicker ==
  /\ up /\ publisher = "set"
  /\ ticker' = latest
  /\ publisher' = "publish"
  /\ UNCHANGED <<kafka, channels, consVars, dbVars, latest, cancelled, up, rows,
                 published, faults>>

Publish ==
  /\ up /\ publisher = "publish"
  /\ published' = latest
  /\ publisher' = "pause"
  /\ UNCHANGED <<kafka, channels, consVars, dbVars, latest, cancelled, up, rows, ticker,
                 faults>>

\* Redis is away: the exception is swallowed and the trade forgotten.
RedisFails ==
  /\ up /\ publisher \in {"set", "publish"}
  /\ faults.redis < MaxRedisFaults
  /\ faults' = [faults EXCEPT !.redis = @ + 1]
  /\ publisher' = "pause"
  /\ UNCHANGED <<kafka, channels, consVars, dbVars, latest, cancelled, up, rows, ticker,
                 published>>

PauseOver ==
  /\ up /\ publisher = "pause"
  /\ publisher' = "wait"
  /\ UNCHANGED <<kafka, channels, consVars, dbVars, latest, cancelled, up, rows, ticker,
                 published, faults>>

PublisherStops ==
  /\ up
  /\ \/ cancelled /\ publisher \in {"wait", "pause"}
     \/ publisher = "wait" /\ closed /\ redisQ = <<>>
  /\ publisher' = "ended"
  /\ UNCHANGED <<kafka, channels, consVars, dbVars, latest, cancelled, up, rows, ticker,
                 published, faults>>

-----------------------------------------------------------------------------
(* The process.                                                              *)

\* The host is asked to stop.
Cancel ==
  /\ up /\ ~cancelled /\ faults.starts < MaxStarts
  /\ cancelled' = TRUE
  /\ UNCHANGED <<kafka, channels, consVars, dbVars, redisVars, up, rows, ticker,
                 published, faults>>

\* ExecuteAsync returns or fails when its three tasks have, and the host stops.
AllTasksEnded ==
  consumer = "ended" /\ writer \in {"ended", "failed"} /\ publisher = "ended"

Exit ==
  /\ up /\ AllTasksEnded
  /\ up' = FALSE
  /\ UNCHANGED <<kafka, channels, consVars, dbVars, redisVars, cancelled, rows, ticker,
                 published, faults>>

Crash ==
  /\ up /\ ~AllTasksEnded /\ faults.starts < MaxStarts
  /\ up' = FALSE
  /\ UNCHANGED <<kafka, channels, consVars, dbVars, redisVars, cancelled, rows, ticker,
                 published, faults>>

\* A new process: nothing in memory, the consumer at the committed position.
Start ==
  /\ ~up /\ faults.starts < MaxStarts
  /\ faults' = [faults EXCEPT !.starts = @ + 1]
  /\ up' = TRUE /\ cancelled' = FALSE
  /\ position' = committed /\ stored' = committed
  /\ tradeQ' = <<>> /\ redisQ' = <<>> /\ offsetQ' = <<>> /\ closed' = FALSE
  /\ consumer' = "drain" /\ held' = None
  /\ batch' = <<>> /\ attempt' = 0 /\ writer' = "gather"
  /\ publisher' = "wait" /\ latest' = None
  /\ UNCHANGED <<produced, committed, rows, ticker, published>>

ConsumerStep  == Drain \/ Fetch \/ FetchNothing \/ Enqueue
WriterStep    == Gather \/ Gathered \/ WriterStops \/ StartCopy \/ GiveUp \/ CopyCommits
                   \/ CopyFails \/ Retry \/ Saved
PublisherStep == TakeLatest \/ SetTicker \/ Publish \/ RedisFails \/ PauseOver
                   \/ PublisherStops

Next == Produce \/ AutoCommit \/ ConsumerStep \/ WriterStep \/ PublisherStep
          \/ Cancel \/ Exit \/ Crash \/ Start

Spec == Init /\ [][Next]_vars

\* Each loop keeps running, Kafka delivers a waiting message some time, and the
\* background commit comes round.
Fairness ==
  /\ WF_vars(ConsumerStep) /\ SF_vars(Fetch)
  /\ WF_vars(WriterStep) /\ WF_vars(PublisherStep)
  /\ WF_vars(AutoCommit)

FairSpec == Spec /\ Fairness

-----------------------------------------------------------------------------
TypeOK ==
  /\ {produced, committed, position, stored} \subseteq 0 .. MaxTrades
  /\ {held, latest, ticker, published} \subseteq Offsets \cup {None}
  /\ {tradeQ, redisQ, offsetQ, batch} \subseteq Seq(Offsets)
  /\ Len(tradeQ) <= TradeCap /\ Len(redisQ) <= RedisCap /\ Len(batch) <= BatchSize
  /\ closed \in BOOLEAN /\ cancelled \in BOOLEAN /\ up \in BOOLEAN
  /\ consumer \in {"drain", "poll", "enqueue", "ended"}
  /\ writer \in {"gather", "fill", "try", "copy", "copied", "backoff", "ended", "failed"}
  /\ publisher \in {"wait", "set", "publish", "pause", "ended"}
  /\ attempt \in 0 .. MaxRetries
  /\ rows \in [Offsets -> Nat]
  /\ faults \in [db : Nat, redis : Nat, starts : Nat]

\* A trade whose offset is committed is in the table: no crash, shutdown, retry or
\* permanent failure of Postgres makes the service skip one (offsets travel back
\* through _offsetStoreChannel only after the COPY).
CommittedIsSaved == \A k \in Offsets : k < committed => rows[k] > 0

\* The table never has a gap: a trade is saved only after all earlier ones, over
\* retries, restarts and replays too.
NoGapInTable == \A j, k \in Offsets : j < k /\ rows[k] > 0 => rows[j] > 0

\* Within the life of a process the published price only moves forward in the
\* topic, though the channel drops, the loop skips and Redis fails.
TickerMovesForward ==
  [][up /\ up' => latest' >= latest]_vars

\* Every row too many comes from a failed attempt whose COPY went through, or from
\* a restart that reads again what was saved and not committed.
DuplicatesExplained == \A k \in Offsets : rows[k] <= 1 + faults.db + faults.starts

\* The chaos test: after a connection failure every trade is saved exactly once.
SavedOnce == \A k \in Offsets : rows[k] <= 1

\* Once no fault, shutdown or crash ends one of its loops any more, the service
\* commits everything there is: with CommittedIsSaved, every trade gets into the
\* table, and those it had to read again too.
Healthy == up /\ ~cancelled /\ consumer # "ended" /\ writer # "failed"

AllCommitted == <>[]Healthy => <>[](committed = produced)

\* A service that runs through and meets no fault of Redis ends up showing the last
\* trade's price, though the channel drops and the loop skips.  (A restarted one may
\* not: the Redis loop keeps no position.)
LastTradeShown == [](Healthy /\ faults.redis = 0) => <>[](ticker = produced - 1)
=============================================================================
