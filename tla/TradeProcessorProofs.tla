------------------------ MODULE TradeProcessorProofs ------------------------
(***************************************************************************)
(* Theorems about TradeProcessor for topics, channels, batches, numbers of *)
(* attempts and faults of any size: what is committed is saved, the table  *)
(* has no gap, a row too many has a cause, and the price published by a    *)
(* running process moves forward.                                          *)
(***************************************************************************)
EXTENDS TradeProcessor, SequenceTheorems, TLAPS

-----------------------------------------------------------------------------
(* The inductive invariant.                                                  *)

\* The types, with what a place in a loop says about the variables it uses.
KafkaTypes ==
  /\ produced \in 0 .. MaxTrades /\ committed \in 0 .. MaxTrades
  /\ position \in 0 .. MaxTrades /\ stored \in 0 .. MaxTrades

QueueTypes ==
  /\ tradeQ \in Seq(Offsets) /\ Len(tradeQ) <= TradeCap
  /\ redisQ \in Seq(Offsets) /\ Len(redisQ) <= RedisCap
  /\ offsetQ \in Seq(Offsets) /\ closed \in BOOLEAN

ConsumerTypes ==
  /\ consumer \in {"drain", "poll", "enqueue", "ended"}
  /\ held \in Offsets \cup {None}
  /\ consumer = "enqueue" => held \in Offsets

WriterTypes ==
  /\ writer \in {"gather", "fill", "try", "copy", "copied", "backoff", "ended", "failed"}
  /\ batch \in Seq(Offsets) /\ Len(batch) <= BatchSize
  /\ attempt \in 0 .. MaxRetries
  /\ writer = "gather" => batch = <<>>
  /\ writer \in {"fill", "try", "copy", "copied", "backoff"} => batch # <<>>
  /\ writer \in {"copy", "copied"} => attempt < MaxRetries

PublisherTypes ==
  /\ publisher \in {"wait", "set", "publish", "pause", "ended"}
  /\ latest \in Offsets \cup {None} /\ ticker \in Offsets \cup {None}
  /\ published \in Offsets \cup {None}

OtherTypes ==
  /\ cancelled \in BOOLEAN /\ up \in BOOLEAN
  /\ rows \in [Offsets -> Nat]
  /\ faults \in [db : Nat, redis : Nat, starts : Nat]

Typed ==
  KafkaTypes /\ QueueTypes /\ ConsumerTypes /\ WriterTypes /\ PublisherTypes /\ OtherTypes

\* All trades before n are in the table.
SavedTo(n) == \A k \in Offsets : k < n => rows[k] > 0

\* q holds trades without a gap, the first of which is s.
RunFrom(q, s) == \A i \in 1 .. Len(q) : q[i] = s + i - 1

\* The failures that may have made the service save a trade once more.
Tally == faults.db + faults.starts

\* A trade from s on that is still to be saved has a row for each of them at most.
Fresh(s) ==
  \A k \in Offsets :
    k >= s /\ writer # "ended" /\ ~(writer = "copied" /\ k < s + Len(batch))
      => rows[k] <= Tally

\* Behind the trades before s, which are saved, come without a gap the batch, the
\* channel, the result in hand and the consumer's position ...
Contiguous(s) ==
  /\ RunFrom(batch, s) /\ RunFrom(tradeQ, s + Len(batch))
  /\ consumer \in {"drain", "poll"} => position = s + Len(batch) + Len(tradeQ)
  /\ consumer = "enqueue" =>
       held = s + Len(batch) + Len(tradeQ) /\ position = held + 1

\* ... and offsets on their way back to the consumer, or stored, are of saved trades.
Pipeline(s) ==
  /\ Contiguous(s)
  /\ SavedTo(s) /\ (writer = "copied" => SavedTo(s + Len(batch)))
  /\ stored <= s /\ \A i \in 1 .. Len(offsetQ) : offsetQ[i] < s
  /\ Fresh(s)

Flow == up => \E s \in Nat : Pipeline(s)

IInv == Typed /\ Flow /\ CommittedIsSaved /\ NoGapInTable /\ DuplicatesExplained

-----------------------------------------------------------------------------
(* Facts about sequences.                                                    *)

\* What is taken from a sequence that is not empty.
LEMMA Ends ==
  ASSUME NEW q \in Seq(Offsets), q # <<>>
  PROVE  /\ Len(q) \in Nat \ {0} /\ Last(q) \in Offsets /\ Last(q) = q[Len(q)]
         /\ Tail(q) \in Seq(Offsets) /\ Len(Tail(q)) = Len(q) - 1
         /\ \A i \in 1 .. Len(q) - 1 : Tail(q)[i] = q[i + 1]
         /\ Head(q) = q[1] /\ Head(q) \in Offsets
<1>1. Len(q) \in Nat \ {0}
  BY EmptySeq
<1>2. q[Len(q)] \in Offsets /\ q[1] \in Offsets
  BY <1>1, ElementOfSeq
<1> QED BY <1>1, <1>2, HeadTailProperties DEF Last

-----------------------------------------------------------------------------
(* Types.                                                                    *)

\* Typed is TypeOK variable by variable, and more.
LEMMA TypedIsTypeOK == Typed => TypeOK
BY DEF Typed, KafkaTypes, QueueTypes, ConsumerTypes, WriterTypes, PublisherTypes,
       OtherTypes, TypeOK

\* The bounds are positive numbers.
LEMMA Constants ==
  /\ MaxTrades \in Nat \ {0} /\ TradeCap \in Nat \ {0} /\ RedisCap \in Nat \ {0}
  /\ BatchSize \in Nat \ {0} /\ MaxRetries \in Nat \ {0}
BY ProcessorAssumption

\* A new process.
LEMMA InitTyped == Init => Typed
<1> SUFFICES ASSUME Init PROVE Typed
  OBVIOUS
<1>1. KafkaTypes /\ ConsumerTypes /\ PublisherTypes
  BY Constants DEF Init, KafkaTypes, ConsumerTypes, PublisherTypes
<1>2. <<>> \in Seq(Offsets) /\ Len(<<>>) = 0
  BY EmptySeq
<1>3. QueueTypes
  <2>1. tradeQ = <<>> /\ redisQ = <<>> /\ offsetQ = <<>>
    BY DEF Init
  <2>2. Len(tradeQ) <= TradeCap /\ Len(redisQ) <= RedisCap
    BY <1>2, <2>1, Constants
  <2>3. closed \in BOOLEAN
    BY DEF Init
  <2> QED BY <1>2, <2>1, <2>2, <2>3 DEF QueueTypes
<1>6. WriterTypes
  <2>1. batch \in Seq(Offsets) /\ Len(batch) <= BatchSize
    BY <1>2, Constants DEF Init
  <2>2. attempt \in 0 .. MaxRetries /\ writer = "gather" /\ batch = <<>>
    BY Constants DEF Init
  <2> QED BY <2>1, <2>2 DEF WriterTypes
<1>4. rows \in [Offsets -> Nat] /\ faults \in [db : Nat, redis : Nat, starts : Nat]
  BY DEF Init
<1>5. OtherTypes
  BY <1>4 DEF Init, OtherTypes
<1> QED BY <1>1, <1>3, <1>5, <1>6 DEF Typed

\* The next trade of the topic has an offset.
LEMMA Room ==
  ASSUME NEW p \in 0 .. MaxTrades, NEW q \in 0 .. MaxTrades, p < q
  PROVE  p + 1 \in 0 .. MaxTrades /\ p \in Offsets
BY Constants DEF Offsets

\* The size of a batch.
LEMMA Smaller ==
  ASSUME NEW a \in Nat \ {0}, NEW b \in Nat \ {0}
  PROVE  (IF a < b THEN a ELSE b) \in 1 .. a /\ (IF a < b THEN a ELSE b) <= b
OBVIOUS

\* Counts of rows stay numbers.
LEMMA OneMoreRow ==
  ASSUME NEW f \in [Offsets -> Nat]
  PROVE  \A k \in Offsets : f[k] \in Nat /\ f[k] + 1 \in Nat
OBVIOUS

\* The record of faults keeps its type.
LEMMA OneMoreFault ==
  ASSUME NEW f \in [db : Nat, redis : Nat, starts : Nat]
  PROVE  /\ [f EXCEPT !.db = @ + 1] \in [db : Nat, redis : Nat, starts : Nat]
         /\ [f EXCEPT !.redis = @ + 1] \in [db : Nat, redis : Nat, starts : Nat]
         /\ [f EXCEPT !.starts = @ + 1] \in [db : Nat, redis : Nat, starts : Nat]
OBVIOUS

\* Every step keeps the types.
LEMMA TypedStep == Typed /\ [Next]_vars => Typed'
<1> SUFFICES ASSUME Typed, [Next]_vars PROVE Typed'
  OBVIOUS
<1> USE DEF kafka, channels, consVars, dbVars, redisVars
<1> USE DEF Typed, KafkaTypes, QueueTypes, ConsumerTypes, WriterTypes, PublisherTypes, OtherTypes
<1>1. CASE Produce
  BY <1>1, Constants DEF Produce
<1>2. CASE AutoCommit
  BY <1>2 DEF AutoCommit
<1>3. CASE Drain
  <2>1. offsetQ # <<>> => Last(offsetQ) \in Offsets
    BY Ends
  <2>2. ASSUME NEW k \in Offsets PROVE k + 1 \in 0 .. MaxTrades
    BY Constants DEF Offsets
  <2>3. <<>> \in Seq(Offsets)
    BY EmptySeq
  <2>4. CASE cancelled
    BY <1>3, <2>4 DEF Drain, EndConsumer
  <2>5. CASE ~cancelled
    <3>1. stored' \in 0 .. MaxTrades
      BY <1>3, <2>1, <2>2, <2>5 DEF Drain, DrainPosition
    <3> QED BY <1>3, <2>3, <2>5, <3>1 DEF Drain, DrainPosition
  <2> QED BY <2>4, <2>5
<1>4. CASE Fetch
  <2>1. /\ produced \in 0 .. MaxTrades /\ position \in 0 .. MaxTrades /\ position < produced
        /\ held' = position /\ position' = position + 1 /\ consumer' = "enqueue"
    BY <1>4 DEF Fetch
  <2>2. position' \in 0 .. MaxTrades /\ held' \in Offsets
    BY <2>1, Room
  <2>3. KafkaTypes' /\ ConsumerTypes'
    BY <1>4, <2>1, <2>2 DEF Fetch
  <2>4. QueueTypes' /\ WriterTypes'
    BY <1>4 DEF Fetch
  <2>5. PublisherTypes' /\ OtherTypes'
    BY <1>4 DEF Fetch
  <2> QED BY <2>3, <2>4, <2>5
<1>5. CASE FetchNothing
  BY <1>5 DEF FetchNothing
<1>6. CASE Enqueue
  <2>1. CASE EndConsumer /\ UNCHANGED <<dbVars, redisVars, cancelled, up, rows, ticker,
                                        published, faults>>
    BY <2>1 DEF EndConsumer
  <2>2. CASE /\ PutTrade(held) /\ redisQ' = PutDroppingOldest(redisQ, held)
             /\ held' = None /\ consumer' = "poll" /\ UNCHANGED <<kafka, offsetQ, closed>>
             /\ UNCHANGED <<dbVars, redisVars, cancelled, up, rows, ticker, published,
                           faults>>
    <3>1. held \in Offsets
      BY <1>6 DEF Enqueue
    <3>2. tradeQ' \in Seq(Offsets) /\ Len(tradeQ') <= TradeCap
      <4>1. tradeQ' = Append(tradeQ, held) /\ Len(tradeQ) < TradeCap
        BY <2>2 DEF PutTrade
      <4>2. Append(tradeQ, held) \in Seq(Offsets) /\ Len(Append(tradeQ, held)) = Len(tradeQ) + 1
        BY <3>1, AppendProperties
      <4>3. Len(tradeQ) \in Nat
        BY LenProperties
      <4> QED BY <4>1, <4>2, <4>3, Constants
    <3>3. redisQ' \in Seq(Offsets) /\ Len(redisQ') <= RedisCap
      <4>1. Len(redisQ) \in Nat /\ Len(<<>>) = 0
        BY LenProperties, EmptySeq
      <4>2. CASE Len(redisQ) < RedisCap
        <5>1. redisQ' = Append(redisQ, held)
          BY <2>2, <4>2 DEF PutDroppingOldest
        <5>2. Append(redisQ, held) \in Seq(Offsets) /\ Len(Append(redisQ, held)) = Len(redisQ) + 1
          BY <3>1, AppendProperties
        <5> QED BY <4>1, <4>2, <5>1, <5>2, Constants
      <4>3. CASE ~(Len(redisQ) < RedisCap)
        <5>1. redisQ' = Append(Tail(redisQ), held)
          BY <2>2, <4>3 DEF PutDroppingOldest
        <5>2. redisQ # <<>>
          BY <4>1, <4>3, Constants
        <5>3. Tail(redisQ) \in Seq(Offsets) /\ Len(Tail(redisQ)) = Len(redisQ) - 1
          BY <5>2, Ends
        <5>4. /\ Append(Tail(redisQ), held) \in Seq(Offsets)
              /\ Len(Append(Tail(redisQ), held)) = Len(Tail(redisQ)) + 1
          BY <3>1, <5>3, AppendProperties
        <5> QED BY <4>1, <5>1, <5>3, <5>4, Constants
      <4> QED BY <4>2, <4>3
    <3> QED BY <2>2, <3>2, <3>3
  <2> QED BY <1>6, <2>1, <2>2 DEF Enqueue
<1>7. CASE Gather
  <2>1. /\ tradeQ # <<>> /\ batch' = Append(batch, Head(tradeQ)) /\ tradeQ' = Tail(tradeQ)
        /\ writer' = "fill" /\ attempt' = attempt
    BY <1>7 DEF Gather, QueueAfter
  <2>2. /\ Head(tradeQ) \in Offsets /\ Tail(tradeQ) \in Seq(Offsets)
        /\ Len(tradeQ) \in Nat /\ Len(Tail(tradeQ)) = Len(tradeQ) - 1
    BY <2>1, Ends
  <2>3. batch' \in Seq(Offsets) /\ Len(batch') = Len(batch) + 1 /\ Len(batch) \in Nat
    BY <2>1, <2>2, AppendProperties, LenProperties
  <2>4. Len(batch) < BatchSize
    <3>1. CASE writer = "gather"
      BY <3>1, Constants, EmptySeq
    <3>2. CASE writer # "gather"
      BY <1>7, <3>2 DEF Gather
    <3> QED BY <3>1, <3>2
  <2>5. Len(batch') <= BatchSize /\ batch' # <<>>
    BY <2>3, <2>4, Constants, EmptySeq
  <2>6. Len(tradeQ') <= TradeCap
    BY <2>1, <2>2, Constants
  <2>7. WriterTypes'
    BY <2>1, <2>3, <2>5
  <2>8. QueueTypes'
    BY <1>7, <2>1, <2>2, <2>6 DEF Gather
  <2>9. KafkaTypes' /\ ConsumerTypes' /\ PublisherTypes' /\ OtherTypes'
    BY <1>7 DEF Gather
  <2> QED BY <2>7, <2>8, <2>9
<1>26. CASE Gathered
  BY <1>26 DEF Gathered
<1>8. CASE WriterStops
  BY <1>8 DEF WriterStops
<1>9. CASE StartCopy
  BY <1>9, Constants DEF StartCopy, GoesOn
<1>10. CASE GiveUp
  BY <1>10 DEF GiveUp
<1>11. CASE CopyCommits
  <2>1. rows' \in [Offsets -> Nat]
    <3>1. \A k \in Offsets : rows[k] \in Nat /\ rows[k] + 1 \in Nat
      BY OneMoreRow
    <3>2. rows' = [k \in Offsets |-> IF k \in ToSet(batch) THEN rows[k] + 1 ELSE rows[k]]
      BY <1>11 DEF CopyCommits
    <3> QED BY <3>1, <3>2
  <2> QED BY <1>11, <2>1 DEF CopyCommits
<1>12. CASE CopyFails
  <2>1. faults' \in [db : Nat, redis : Nat, starts : Nat]
    BY <1>12, OneMoreFault DEF CopyFails
  <2>2. attempt' \in 0 .. MaxRetries
    <3>1. attempt \in 0 .. MaxRetries /\ attempt < MaxRetries /\ attempt' = attempt + 1
      BY <1>12 DEF CopyFails
    <3> QED BY <3>1, Constants
  <2>3. WriterTypes'
    BY <1>12, <2>2 DEF CopyFails
  <2>4. KafkaTypes' /\ QueueTypes' /\ ConsumerTypes'
    BY <1>12 DEF CopyFails
  <2>5. PublisherTypes' /\ OtherTypes'
    BY <1>12, <2>1 DEF CopyFails
  <2> QED BY <2>3, <2>4, <2>5
<1>13. CASE Retry
  BY <1>13 DEF Retry
<1>14. CASE Saved
  <2>1. batch # <<>> /\ Last(batch) \in Offsets
    BY <1>14, Ends DEF Saved
  <2>2. offsetQ' \in Seq(Offsets)
    BY <1>14, <2>1, AppendProperties DEF Saved
  <2>3. <<>> \in Seq(Offsets) /\ Len(<<>>) = 0
    BY EmptySeq
  <2> QED BY <1>14, <2>2, <2>3, Constants DEF Saved
<1>15. CASE TakeLatest
  <2>1. Last(redisQ) \in Offsets
    BY <1>15, Ends DEF TakeLatest
  <2>2. <<>> \in Seq(Offsets) /\ Len(<<>>) = 0
    BY EmptySeq
  <2> QED BY <1>15, <2>1, <2>2, Constants DEF TakeLatest, NewestWaiting
<1>16. CASE SetTicker
  BY <1>16 DEF SetTicker
<1>17. CASE Publish
  BY <1>17 DEF Publish
<1>18. CASE RedisFails
  <2>1. faults' \in [db : Nat, redis : Nat, starts : Nat]
    BY <1>18, OneMoreFault DEF RedisFails
  <2> QED BY <1>18, <2>1 DEF RedisFails
<1>19. CASE PauseOver
  BY <1>19 DEF PauseOver
<1>20. CASE PublisherStops
  BY <1>20 DEF PublisherStops
<1>21. CASE Cancel
  BY <1>21 DEF Cancel
<1>22. CASE Exit
  BY <1>22 DEF Exit, AllTasksEnded
<1>23. CASE Crash
  <2>1. up' = FALSE /\ UNCHANGED <<kafka, channels, consVars, dbVars, redisVars, cancelled,
                                  rows, ticker, published, faults>>
    BY <1>23 DEF Crash
  <2>2. OtherTypes'
    BY <2>1
  <2>3. KafkaTypes' /\ QueueTypes' /\ ConsumerTypes' /\ WriterTypes' /\ PublisherTypes'
    BY <2>1
  <2> QED BY <2>2, <2>3
<1>24. CASE Start
  <2>1. faults' \in [db : Nat, redis : Nat, starts : Nat]
    BY <1>24, OneMoreFault DEF Start
  <2>2. <<>> \in Seq(Offsets) /\ Len(<<>>) = 0
    BY EmptySeq
  <2>3. KafkaTypes' /\ ConsumerTypes' /\ PublisherTypes' /\ OtherTypes'
    BY <1>24, <2>1 DEF Start
  <2>4. QueueTypes'
    <3>1. tradeQ' = <<>> /\ redisQ' = <<>> /\ offsetQ' = <<>> /\ closed' = FALSE
      BY <1>24 DEF Start
    <3>2. Len(tradeQ') <= TradeCap /\ Len(redisQ') <= RedisCap
      BY <2>2, <3>1, Constants
    <3> QED BY <2>2, <3>1, <3>2
  <2>5. WriterTypes'
    <3>1. batch' = <<>> /\ attempt' = 0 /\ writer' = "gather"
      BY <1>24 DEF Start
    <3> QED BY <2>2, <3>1, Constants
  <2> QED BY <2>3, <2>4, <2>5
<1>25. CASE UNCHANGED vars
  BY <1>25 DEF vars
<1> QED
  BY <1>1, <1>2, <1>3, <1>4, <1>5, <1>6, <1>7, <1>8, <1>9, <1>10, <1>11, <1>12, <1>13, <1>14,
     <1>15, <1>16, <1>17, <1>18, <1>19, <1>20, <1>21, <1>22, <1>23, <1>24, <1>25,
     <1>26
  DEF Next, ConsumerStep, WriterStep, PublisherStep

-----------------------------------------------------------------------------
(* The pipeline.                                                             *)

\* The variables Pipeline speaks of, but for the place of the database loop.
flowVars == <<batch, tradeQ, offsetQ, stored, position, rows, consumer, held>>

\* Failures are counted with numbers.
LEMMA TallyIsNat == Typed => Tally \in Nat /\ \A k \in Offsets : rows[k] \in Nat
BY DEF Typed, OtherTypes, Tally

\* Steps that leave the table and the batch alone: the writer is not told of a saved
\* batch, or it hears of a failure instead.
LEMMA FreshKept ==
  ASSUME NEW s \in Nat, Fresh(s), rows' = rows, batch' = batch, Typed, DuplicatesExplained,
         \/ Tally' = Tally /\ writer' \in {writer, "ended"}
         \/ Tally' = Tally /\ writer \notin {"copied", "ended"} /\ writer' # "copied"
         \/ Tally' = Tally + 1 /\ writer' = "backoff"
  PROVE  Fresh(s)'
<1> USE TallyIsNat
<1>1. CASE Tally' = Tally /\ writer' \in {writer, "ended"}
  BY <1>1 DEF Fresh
<1>2. CASE Tally' = Tally /\ writer \notin {"copied", "ended"} /\ writer' # "copied"
  BY <1>2 DEF Fresh
<1>3. CASE Tally' = Tally + 1 /\ writer' = "backoff"
  <2>1. \A k \in Offsets : rows[k] <= Tally + 1
    BY DEF DuplicatesExplained, Tally, Typed, OtherTypes
  <2> QED BY <1>3, <2>1 DEF Fresh
<1> QED BY <1>1, <1>2, <1>3

\* Steps of the other loops and of the database loop up to the COPY.
LEMMA PipelineKept ==
  ASSUME NEW s \in Nat, Pipeline(s), UNCHANGED flowVars, writer' = writer \/ writer' # "copied",
         Fresh(s)'
  PROVE  Pipeline(s)'
BY DEF Pipeline, Contiguous, SavedTo, RunFrom, flowVars

\* What is committed is what was stored, and the table is as it was.
LEMMA TableKept ==
  ASSUME Typed, CommittedIsSaved, NoGapInTable, rows' = rows,
         \/ committed' = committed
         \/ committed' = stored /\ \E s \in Nat : Pipeline(s)
  PROVE  CommittedIsSaved' /\ NoGapInTable'
<1>1. NoGapInTable'
  BY DEF NoGapInTable
<1>2. CASE committed' = committed
  BY <1>1, <1>2 DEF CommittedIsSaved
<1>3. CASE committed' = stored /\ \E s \in Nat : Pipeline(s)
  <2>1. PICK s \in Nat : SavedTo(s) /\ stored <= s
    BY <1>3 DEF Pipeline
  <2>2. stored \in Int /\ Offsets \subseteq Int
    BY DEF Typed, KafkaTypes, Offsets
  <2>3. ASSUME NEW k \in Offsets, k < stored PROVE rows[k] > 0
    <3>1. k < s
      BY <2>1, <2>2, <2>3
    <3> QED BY <2>1, <3>1 DEF SavedTo
  <2>4. CommittedIsSaved'
    BY <1>3, <2>3 DEF CommittedIsSaved
  <2> QED BY <1>1, <2>4
<1> QED BY <1>2, <1>3

\* Offsets that came back are stored.
LEMMA FlowDrain == IInv /\ up /\ Drain => Flow' /\ CommittedIsSaved' /\ NoGapInTable'
<1> SUFFICES ASSUME IInv, up, Drain
             PROVE  Flow' /\ CommittedIsSaved' /\ NoGapInTable'
  OBVIOUS
<1>1. PICK s \in Nat : Pipeline(s)
  BY DEF IInv, Flow
<1>2. UNCHANGED <<dbVars, redisVars, cancelled, up, rows, ticker, published, faults>>
  BY DEF Drain
<1>5. Fresh(s)'
  BY <1>1, <1>2, FreshKept DEF Pipeline, IInv, dbVars, Tally
<1>3. CASE cancelled
  <2>1. EndConsumer
    BY <1>3 DEF Drain
  <2>2. Pipeline(s)'
    BY <1>1, <1>2, <1>5, <2>1 DEF EndConsumer, Pipeline, Contiguous, SavedTo, RunFrom, dbVars
  <2>3. CommittedIsSaved' /\ NoGapInTable'
    BY <1>1, <1>2, <2>1, TableKept DEF EndConsumer, IInv
  <2> QED BY <2>2, <2>3 DEF Flow
<1>4. CASE ~cancelled
  <2>1. /\ offsetQ' = <<>>
        /\ stored' = IF offsetQ = <<>> THEN stored ELSE Last(offsetQ) + 1
        /\ UNCHANGED <<committed, position, tradeQ, held>> /\ consumer' = "poll"
    BY <1>4 DEF Drain, DrainPosition
  <2>2. stored' <= s
    <3>1. CASE offsetQ = <<>>
      BY <1>1, <2>1, <3>1 DEF Pipeline
    <3>2. CASE offsetQ # <<>>
      <4>1. Len(offsetQ) \in Nat \ {0} /\ Last(offsetQ) = offsetQ[Len(offsetQ)]
            /\ Last(offsetQ) \in Offsets
        BY <3>2, Ends DEF IInv, Typed, QueueTypes
      <4>2. offsetQ[Len(offsetQ)] < s
        BY <1>1, <4>1 DEF Pipeline
      <4>3. Last(offsetQ) \in Int
        BY <4>1 DEF Offsets
      <4> QED BY <2>1, <3>2, <4>1, <4>2, <4>3
    <3> QED BY <3>1, <3>2
  <2>3. Contiguous(s)'
    BY <1>1, <1>2, <2>1 DEF Drain, Pipeline, Contiguous, RunFrom, dbVars
  <2>4. SavedTo(s)' /\ (writer = "copied" => SavedTo(s + Len(batch)))'
    BY <1>1, <1>2 DEF Pipeline, SavedTo, dbVars
  <2>5. \A i \in 1 .. Len(offsetQ') : offsetQ'[i] < s
    BY <2>1
  <2>6. Pipeline(s)'
    BY <1>5, <2>2, <2>3, <2>4, <2>5 DEF Pipeline
  <2>7. CommittedIsSaved' /\ NoGapInTable'
    BY <1>2, <2>1, TableKept DEF IInv
  <2> QED BY <2>6, <2>7 DEF Flow
<1> QED BY <1>3, <1>4

\* The next trade of the topic is the next of the pipeline.
LEMMA FlowFetch == IInv /\ up /\ Fetch => Flow' /\ CommittedIsSaved' /\ NoGapInTable'
<1> SUFFICES ASSUME IInv, up, Fetch
             PROVE  Flow' /\ CommittedIsSaved' /\ NoGapInTable'
  OBVIOUS
<1>1. PICK s \in Nat : Pipeline(s)
  BY DEF IInv, Flow
<1>2. Contiguous(s)'
  BY <1>1 DEF Fetch, Pipeline, Contiguous, RunFrom, channels, dbVars
<1>5. Fresh(s)'
  BY <1>1, FreshKept DEF Fetch, Pipeline, IInv, dbVars, Tally
<1>3. Pipeline(s)'
  BY <1>1, <1>2, <1>5 DEF Fetch, Pipeline, SavedTo, channels, dbVars
<1>4. CommittedIsSaved' /\ NoGapInTable'
  BY TableKept DEF Fetch, IInv
<1> QED BY <1>3, <1>4 DEF Flow

\* The result in hand is put at the end of the channel, or dropped with the loop.
LEMMA FlowEnqueue == IInv /\ up /\ Enqueue => Flow' /\ CommittedIsSaved' /\ NoGapInTable'
<1> SUFFICES ASSUME IInv, up, Enqueue
             PROVE  Flow' /\ CommittedIsSaved' /\ NoGapInTable'
  OBVIOUS
<1>1. PICK s \in Nat : Pipeline(s)
  BY DEF IInv, Flow
<1>2. UNCHANGED <<dbVars, redisVars, cancelled, up, rows, ticker, published, faults>>
  BY DEF Enqueue
<1>5. Fresh(s)'
  BY <1>1, <1>2, FreshKept DEF Pipeline, IInv, dbVars, Tally
<1>3. CASE EndConsumer
  <2>1. Pipeline(s)'
    BY <1>1, <1>2, <1>3, <1>5 DEF EndConsumer, Pipeline, Contiguous, SavedTo, RunFrom, dbVars
  <2>2. CommittedIsSaved' /\ NoGapInTable'
    BY <1>1, <1>2, <1>3, TableKept DEF EndConsumer, IInv
  <2> QED BY <2>1, <2>2 DEF Flow
<1>4. CASE PutTrade(held) /\ consumer' = "poll" /\ UNCHANGED <<kafka, offsetQ, closed>>
  <2>1. tradeQ' = Append(tradeQ, held) /\ UNCHANGED <<stored, position, committed, offsetQ>>
    BY <1>4 DEF PutTrade, kafka
  <2>2. held \in Offsets /\ tradeQ \in Seq(Offsets) /\ batch \in Seq(Offsets)
    BY DEF Enqueue, IInv, Typed, ConsumerTypes, QueueTypes, WriterTypes
  <2>3. /\ Len(tradeQ') = Len(tradeQ) + 1
        /\ \A i \in 1 .. Len(tradeQ) : tradeQ'[i] = tradeQ[i]
        /\ tradeQ'[Len(tradeQ) + 1] = held
    BY <2>1, <2>2, AppendProperties
  <2>4. Len(tradeQ) \in Nat /\ Len(batch) \in Nat
    BY <2>2, LenProperties
  <2>5. held = s + Len(batch) + Len(tradeQ) /\ position = held + 1
    BY <1>1 DEF Enqueue, Pipeline, Contiguous
  <2>6. RunFrom(tradeQ, s + Len(batch))
    BY <1>1 DEF Pipeline, Contiguous
  <2>7. RunFrom(tradeQ', s + Len(batch))
    <3> SUFFICES ASSUME NEW i \in 1 .. Len(tradeQ) + 1
                 PROVE  tradeQ'[i] = s + Len(batch) + i - 1
      BY <2>3 DEF RunFrom
    <3>1. CASE i \in 1 .. Len(tradeQ)
      BY <2>3, <2>6, <3>1 DEF RunFrom
    <3>2. CASE i = Len(tradeQ) + 1
      BY <2>3, <2>4, <2>5, <3>2
    <3> QED BY <2>4, <3>1, <3>2
  <2>8. position' = s + Len(batch) + Len(tradeQ')
    BY <2>1, <2>3, <2>4, <2>5
  <2>9. Contiguous(s)'
    BY <1>1, <1>2, <1>4, <2>7, <2>8 DEF Pipeline, Contiguous, RunFrom, dbVars
  <2>10. Pipeline(s)'
    BY <1>1, <1>2, <1>5, <2>1, <2>9 DEF Pipeline, SavedTo, dbVars
  <2>11. CommittedIsSaved' /\ NoGapInTable'
    BY <1>2, <2>1, TableKept DEF IInv
  <2> QED BY <2>10, <2>11 DEF Flow
<1> QED BY <1>3, <1>4 DEF Enqueue

\* The batch grows at its end by the front of the channel.
LEMMA FlowGather == IInv /\ up /\ Gather => Flow' /\ CommittedIsSaved' /\ NoGapInTable'
<1> SUFFICES ASSUME IInv, up, Gather
             PROVE  Flow' /\ CommittedIsSaved' /\ NoGapInTable'
  OBVIOUS
<1>1. PICK s \in Nat : Pipeline(s)
  BY DEF IInv, Flow
<1>2. /\ tradeQ # <<>> /\ batch' = Append(batch, Head(tradeQ)) /\ tradeQ' = Tail(tradeQ)
  BY DEF Gather, QueueAfter
<1>3. tradeQ \in Seq(Offsets) /\ batch \in Seq(Offsets) /\ Len(batch) \in Nat
  BY LenProperties DEF IInv, Typed, QueueTypes, WriterTypes
<1>4. /\ Len(tradeQ) \in Nat \ {0} /\ Head(tradeQ) = tradeQ[1] /\ Head(tradeQ) \in Offsets
      /\ Len(tradeQ') = Len(tradeQ) - 1
      /\ \A i \in 1 .. Len(tradeQ) - 1 : tradeQ'[i] = tradeQ[i + 1]
  BY <1>2, <1>3, Ends
<1>5. /\ UNCHANGED <<position, stored, committed, offsetQ, consumer, held, rows>>
      /\ writer \in {"gather", "fill"} /\ writer' = "fill"
  BY DEF Gather, kafka, consVars
<1>6. /\ Len(batch') = Len(batch) + 1
      /\ \A i \in 1 .. Len(batch) : batch'[i] = batch[i]
      /\ batch'[Len(batch) + 1] = Head(tradeQ)
  BY <1>2, <1>3, <1>4, AppendProperties
<1>7. /\ \A i \in 1 .. Len(batch) : batch[i] = s + i - 1
      /\ \A i \in 1 .. Len(tradeQ) : tradeQ[i] = s + Len(batch) + i - 1
  BY <1>1 DEF Pipeline, Contiguous, RunFrom
<1>8. RunFrom(batch', s)
  <2> SUFFICES ASSUME NEW i \in 1 .. Len(batch) + 1 PROVE batch'[i] = s + i - 1
    BY <1>6 DEF RunFrom
  <2>1. CASE i \in 1 .. Len(batch)
    BY <1>6, <1>7, <2>1
  <2>2. CASE i = Len(batch) + 1
    <3>1. 1 \in 1 .. Len(tradeQ)
      BY <1>4
    <3>2. tradeQ[1] = s + Len(batch) + 1 - 1
      BY <1>7, <3>1
    <3> QED BY <1>3, <1>4, <1>6, <2>2, <3>2
  <2> QED BY <1>3, <2>1, <2>2
<1>9. RunFrom(tradeQ', s + Len(batch'))
  <2> SUFFICES ASSUME NEW i \in 1 .. Len(tradeQ) - 1
               PROVE  tradeQ'[i] = s + (Len(batch) + 1) + i - 1
    BY <1>4, <1>6 DEF RunFrom
  <2>1. i + 1 \in 1 .. Len(tradeQ)
    BY <1>4
  <2>2. tradeQ[i + 1] = s + Len(batch) + (i + 1) - 1
    BY <1>7, <2>1
  <2> QED BY <1>3, <1>4, <2>2
<1>11. /\ consumer' \in {"drain", "poll"} => position' = s + Len(batch') + Len(tradeQ')
       /\ consumer' = "enqueue" =>
            held' = s + Len(batch') + Len(tradeQ') /\ position' = held' + 1
  <2>1. s + Len(batch') + Len(tradeQ') = s + Len(batch) + Len(tradeQ)
    BY <1>3, <1>4, <1>6
  <2> QED BY <1>1, <1>5, <2>1 DEF Pipeline, Contiguous
<1>14. Fresh(s)'
  <2>1. Tally' = Tally
    BY DEF Gather, Tally
  <2> QED BY <1>1, <1>5, <2>1 DEF Pipeline, Fresh
<1>12. Pipeline(s)'
  BY <1>1, <1>5, <1>8, <1>9, <1>11, <1>14 DEF Pipeline, Contiguous, SavedTo, RunFrom
<1>13. CommittedIsSaved' /\ NoGapInTable'
  BY <1>5, TableKept DEF IInv
<1> QED BY <1>12, <1>13 DEF Flow

\* The COPY saves the trades that follow the saved ones.
LEMMA FlowCopyCommits ==
  IInv /\ up /\ CopyCommits => Flow' /\ CommittedIsSaved' /\ NoGapInTable'
<1> SUFFICES ASSUME IInv, up, CopyCommits
             PROVE  Flow' /\ CommittedIsSaved' /\ NoGapInTable'
  OBVIOUS
<1>1. PICK s \in Nat : Pipeline(s)
  BY DEF IInv, Flow
<1>2. /\ UNCHANGED <<position, stored, committed, tradeQ, offsetQ, consumer, held, batch>>
      /\ rows' = [k \in Offsets |-> IF k \in ToSet(batch) THEN rows[k] + 1 ELSE rows[k]]
  BY DEF CopyCommits, kafka, channels, consVars
<1>3. batch \in Seq(Offsets) /\ Len(batch) \in Nat /\ Offsets \subseteq Nat
  BY LenProperties DEF IInv, Typed, WriterTypes, Offsets
<1>4. \A k \in Offsets : rows[k] \in Nat
  BY DEF IInv, Typed, OtherTypes
<1>5. \A k \in Offsets : k \in ToSet(batch) => rows'[k] > 0
  BY <1>2, <1>4
<1>6. \A k \in Offsets : rows[k] > 0 => rows'[k] > 0
  BY <1>2, <1>4
<1>7. \A i \in 1 .. Len(batch) : batch[i] = s + i - 1 /\ batch[i] \in ToSet(batch)
  <2>1. DOMAIN batch = 1 .. Len(batch)
    BY <1>3, LenProperties
  <2> QED BY <1>1, <2>1 DEF Pipeline, Contiguous, RunFrom, ToSet
<1>8. SavedTo(s)'
  BY <1>1, <1>6 DEF Pipeline, SavedTo
<1>9. \A k \in Offsets : k < s + Len(batch) => rows'[k] > 0
  <2> SUFFICES ASSUME NEW k \in Offsets, k < s + Len(batch) PROVE rows'[k] > 0
    OBVIOUS
  <2>1. CASE k < s
    BY <1>8, <2>1 DEF SavedTo
  <2>2. CASE k >= s
    <3>1. k - s + 1 \in 1 .. Len(batch) /\ s + (k - s + 1) - 1 = k
      BY <1>3, <2>2
    <3>2. k \in ToSet(batch)
      BY <1>7, <3>1
    <3> QED BY <1>5, <3>2
  <2> QED BY <1>3, <2>1, <2>2
<1>10. Pipeline(s)'
  <2>1. Contiguous(s)'
    BY <1>1, <1>2 DEF Pipeline, Contiguous, RunFrom
  <2>2. (SavedTo(s + Len(batch)))'
    BY <1>2, <1>9 DEF SavedTo
  <2>3. stored' <= s /\ \A i \in 1 .. Len(offsetQ') : offsetQ'[i] < s
    BY <1>1, <1>2 DEF Pipeline
  <2>4. Fresh(s)'
    <3>1. writer = "copy" /\ Tally' = Tally
      BY DEF CopyCommits, Tally
    <3>2. \A k \in Offsets : k >= s => rows[k] <= Tally
      BY <1>1, <3>1 DEF Pipeline, Fresh
    <3>3. \A k \in Offsets : k >= s + Len(batch) => k >= s /\ k \notin ToSet(batch)
      <4>1. DOMAIN batch = 1 .. Len(batch)
        BY <1>3, LenProperties
      <4>2. \A k \in ToSet(batch) : \E i \in 1 .. Len(batch) : k = s + i - 1
        BY <1>7, <4>1 DEF ToSet
      <4> QED BY <1>3, <4>2
    <3> SUFFICES ASSUME NEW k \in Offsets, k >= s + Len(batch) PROVE rows'[k] <= Tally
      BY <1>2, <1>3, <3>1 DEF Fresh, CopyCommits
    <3> QED BY <1>2, <3>2, <3>3
  <2> QED BY <1>8, <2>1, <2>2, <2>3, <2>4 DEF Pipeline
<1>11. CommittedIsSaved'
  BY <1>2, <1>6 DEF IInv, CommittedIsSaved
<1>12. NoGapInTable'
  <2> SUFFICES ASSUME NEW j \in Offsets, NEW k \in Offsets, j < k, rows'[k] > 0
               PROVE  rows'[j] > 0
    BY DEF NoGapInTable
  <2>1. CASE rows[k] > 0
    BY <1>6, <2>1 DEF IInv, NoGapInTable
  <2>2. CASE k \in ToSet(batch)
    <3>1. PICK i \in 1 .. Len(batch) : k = batch[i]
      <4>1. DOMAIN batch = 1 .. Len(batch)
        BY <1>3, LenProperties
      <4> QED BY <2>2, <4>1 DEF ToSet
    <3>2. j < s + Len(batch)
      BY <1>3, <1>7, <3>1
    <3> QED BY <1>9, <3>2
  <2> QED BY <1>2, <2>1, <2>2
<1> QED BY <1>10, <1>11, <1>12 DEF Flow

\* The answer moves the border of what is saved to the end of the batch.
LEMMA FlowSaved == IInv /\ up /\ Saved => Flow' /\ CommittedIsSaved' /\ NoGapInTable'
<1> SUFFICES ASSUME IInv, up, Saved
             PROVE  Flow' /\ CommittedIsSaved' /\ NoGapInTable'
  OBVIOUS
<1>1. PICK s \in Nat : Pipeline(s)
  BY DEF IInv, Flow
<1>2. /\ UNCHANGED <<position, stored, committed, tradeQ, consumer, held, rows>>
      /\ batch' = <<>> /\ writer = "copied" /\ writer' # "copied"
      /\ offsetQ' = IF closed THEN offsetQ ELSE Append(offsetQ, Last(batch))
  BY DEF Saved, kafka, consVars
<1>3. batch \in Seq(Offsets) /\ batch # <<>> /\ offsetQ \in Seq(Offsets) /\ stored \in Int
  BY <1>2 DEF IInv, Typed, WriterTypes, QueueTypes, KafkaTypes
<1>4. Len(batch) \in Nat \ {0} /\ Last(batch) = batch[Len(batch)] /\ Last(batch) \in Offsets
  BY <1>3, Ends
<1>5. PICK t \in Nat : t = s + Len(batch)
  BY <1>4
<1>6. s < t /\ Last(batch) < t
  <2>1. batch[Len(batch)] = s + Len(batch) - 1
    BY <1>1, <1>4 DEF Pipeline, Contiguous, RunFrom
  <2> QED BY <1>4, <1>5, <2>1
<1>7. SavedTo(t)'
  BY <1>1, <1>2, <1>5 DEF Pipeline, SavedTo
<1>8. Contiguous(t)'
  <2>1. Len(batch') = 0
    BY <1>2, EmptySeq
  <2>2. RunFrom(batch', t)
    BY <2>1 DEF RunFrom
  <2>3. t + Len(batch') = s + Len(batch)
    BY <1>4, <1>5, <2>1
  <2> QED BY <1>1, <1>2, <2>2, <2>3 DEF Pipeline, Contiguous, RunFrom
<1>9. stored' <= t
  BY <1>1, <1>2, <1>3, <1>6 DEF Pipeline
<1>10. \A i \in 1 .. Len(offsetQ') : offsetQ'[i] < t
  <2>1. Len(offsetQ) \in Nat /\ \A i \in 1 .. Len(offsetQ) : offsetQ[i] \in Int
    <3>1. Len(offsetQ) \in Nat /\ \A i \in 1 .. Len(offsetQ) : offsetQ[i] \in Offsets
      BY <1>3, LenProperties, ElementOfSeq
    <3> QED BY <3>1 DEF Offsets
  <2>2. \A i \in 1 .. Len(offsetQ) : offsetQ[i] < t
    BY <1>1, <1>6, <2>1 DEF Pipeline
  <2>3. CASE closed
    BY <1>2, <2>2, <2>3
  <2>4. CASE ~closed
    <3>1. offsetQ' = Append(offsetQ, Last(batch))
      BY <1>2, <2>4
    <3>2. /\ Len(offsetQ') = Len(offsetQ) + 1
          /\ \A i \in 1 .. Len(offsetQ) : offsetQ'[i] = offsetQ[i]
          /\ offsetQ'[Len(offsetQ) + 1] = Last(batch)
      BY <1>3, <1>4, <3>1, AppendProperties
    <3> SUFFICES ASSUME NEW i \in 1 .. Len(offsetQ) + 1 PROVE offsetQ'[i] < t
      BY <3>2
    <3>3. i \in 1 .. Len(offsetQ) \/ i = Len(offsetQ) + 1
      BY <2>1
    <3> QED BY <1>6, <2>2, <3>2, <3>3
  <2> QED BY <2>3, <2>4
<1>13. Fresh(t)'
  <2>1. Tally' = Tally
    BY DEF Saved, Tally
  <2>2. \A k \in Offsets : k >= t => rows[k] <= Tally
    <3>1. \A k \in Offsets : k >= t => k >= s /\ ~(k < s + Len(batch))
      BY <1>4, <1>5, <1>6 DEF Offsets
    <3> QED BY <1>1, <1>2, <3>1 DEF Pipeline, Fresh
  <2> QED BY <1>2, <2>1, <2>2 DEF Fresh
<1>11. Pipeline(t)'
  BY <1>2, <1>7, <1>8, <1>9, <1>10, <1>13 DEF Pipeline
<1>12. CommittedIsSaved' /\ NoGapInTable'
  BY <1>2, TableKept DEF IInv
<1> QED BY <1>11, <1>12 DEF Flow

\* A new process begins behind what is committed, which is saved.
LEMMA FlowStart == IInv /\ Start => Flow' /\ CommittedIsSaved' /\ NoGapInTable'
<1> SUFFICES ASSUME IInv, Start
             PROVE  Flow' /\ CommittedIsSaved' /\ NoGapInTable'
  OBVIOUS
<1>1. PICK s \in Nat : s = committed
  BY DEF IInv, Typed, KafkaTypes
<1>2. /\ position' = s /\ stored' = s /\ committed' = committed
      /\ tradeQ' = <<>> /\ offsetQ' = <<>> /\ batch' = <<>>
      /\ consumer' = "drain" /\ writer' = "gather" /\ rows' = rows
  BY <1>1 DEF Start
<1>3. Len(tradeQ') = 0 /\ Len(offsetQ') = 0 /\ Len(batch') = 0
  BY <1>2, EmptySeq
<1>4. Contiguous(s)'
  BY <1>2, <1>3 DEF Contiguous, RunFrom
<1>5. SavedTo(s)'
  BY <1>1, <1>2 DEF IInv, CommittedIsSaved, SavedTo
<1>8. Fresh(s)'
  <2>1. faults \in [db : Nat, redis : Nat, starts : Nat]
    BY DEF IInv, Typed, OtherTypes
  <2>2. Tally' = Tally + 1
    BY <2>1 DEF Start, Tally
  <2>3. \A k \in Offsets : rows[k] <= Tally + 1
    BY <2>1, TallyIsNat DEF IInv, DuplicatesExplained, Tally
  <2> QED BY <1>2, <2>2, <2>3 DEF Fresh
<1>6. Pipeline(s)'
  BY <1>2, <1>3, <1>4, <1>5, <1>8 DEF Pipeline
<1>7. CommittedIsSaved' /\ NoGapInTable'
  BY <1>2, TableKept DEF IInv
<1> QED BY <1>6, <1>7 DEF Flow

\* The steps of the other loops, the broker and the host: the pipeline stays, or
\* ends with the process.
LEMMA FlowOthers ==
  ASSUME IInv,
         \/ Produce \/ AutoCommit \/ FetchNothing \/ Gathered \/ WriterStops \/ StartCopy \/ GiveUp
         \/ CopyFails \/ Retry \/ PublisherStep \/ Cancel \/ UNCHANGED vars
  PROVE  Flow' /\ CommittedIsSaved' /\ NoGapInTable'
<1>1. CASE FetchNothing
  <2>1. PICK s \in Nat : Pipeline(s)
    BY <1>1 DEF IInv, Flow, FetchNothing
  <2>4. Fresh(s)'
    BY <1>1, <2>1, FreshKept DEF FetchNothing, Pipeline, IInv, dbVars, Tally
  <2>2. Pipeline(s)'
    BY <1>1, <2>1, <2>4
    DEF FetchNothing, Pipeline, Contiguous, SavedTo, RunFrom, kafka, channels, dbVars
  <2>3. CommittedIsSaved' /\ NoGapInTable'
    BY <1>1, TableKept DEF IInv, FetchNothing, kafka
  <2> QED BY <2>2, <2>3 DEF Flow
<1>2. CASE AutoCommit
  <2>1. PICK s \in Nat : Pipeline(s)
    BY <1>2 DEF IInv, Flow, AutoCommit
  <2>4. Fresh(s)'
    BY <1>2, <2>1, FreshKept DEF AutoCommit, Pipeline, IInv, dbVars, Tally
  <2>2. Pipeline(s)'
    BY <1>2, <2>1, <2>4, PipelineKept DEF AutoCommit, flowVars, channels, consVars, dbVars
  <2>3. CommittedIsSaved' /\ NoGapInTable'
    BY <1>2, <2>1, TableKept DEF IInv, AutoCommit
  <2> QED BY <2>2, <2>3 DEF Flow
<1>3. CASE PublisherStep
  <2> USE DEF kafka, channels, consVars, dbVars
  <2>1. UNCHANGED flowVars /\ writer' = writer /\ committed' = committed /\ up' = up
    BY <1>3 DEF PublisherStep, TakeLatest, SetTicker, Publish, RedisFails, PauseOver,
                PublisherStops, flowVars
  <2>4. Tally' = Tally
    BY <1>3 DEF PublisherStep, TakeLatest, SetTicker, Publish, RedisFails, PauseOver,
                PublisherStops, Tally, IInv, Typed, OtherTypes
  <2>2. ASSUME NEW s \in Nat, Pipeline(s) PROVE Pipeline(s)'
    <3>1. Fresh(s)'
      BY <2>1, <2>2, <2>4, FreshKept DEF IInv, Pipeline, flowVars
    <3> QED BY <2>1, <2>2, <3>1, PipelineKept
  <2>3. CommittedIsSaved' /\ NoGapInTable'
    BY <2>1, TableKept DEF IInv, flowVars
  <2> QED BY <2>1, <2>2, <2>3 DEF IInv, Flow
<1>4. CASE \/ Produce \/ Gathered \/ WriterStops \/ StartCopy \/ GiveUp \/ CopyFails
           \/ Retry \/ Cancel \/ UNCHANGED vars
  <2> USE DEF kafka, channels, consVars, dbVars
  <2>1. /\ UNCHANGED flowVars /\ committed' = committed /\ up' = up
        /\ writer' = writer \/ writer' # "copied"
    BY <1>4 DEF Produce, Gathered, WriterStops, StartCopy, GiveUp, CopyFails, Retry, Cancel,
                vars, flowVars
  <2>4. \/ Tally' = Tally /\ writer' \in {writer, "ended"}
        \/ Tally' = Tally /\ writer \notin {"copied", "ended"} /\ writer' # "copied"
        \/ Tally' = Tally + 1 /\ writer' = "backoff"
    <3>1. CASE CopyFails
      BY <3>1 DEF CopyFails, Tally, IInv, Typed, OtherTypes
    <3>2. CASE \/ Produce \/ Gathered \/ WriterStops \/ StartCopy \/ GiveUp \/ Retry \/ Cancel
               \/ UNCHANGED vars
      BY <3>2 DEF Produce, Gathered, WriterStops, StartCopy, GiveUp, Retry, Cancel, vars, Tally
    <3> QED BY <1>4, <3>1, <3>2
  <2>2. ASSUME NEW s \in Nat, Pipeline(s) PROVE Pipeline(s)'
    <3>1. Fresh(s)'
      BY <2>1, <2>2, <2>4, FreshKept DEF IInv, Pipeline, flowVars
    <3> QED BY <2>1, <2>2, <3>1, PipelineKept
  <2>3. CommittedIsSaved' /\ NoGapInTable'
    BY <2>1, TableKept DEF IInv, flowVars
  <2> QED BY <2>1, <2>2, <2>3 DEF IInv, Flow
<1> QED BY <1>1, <1>2, <1>3, <1>4

-----------------------------------------------------------------------------
(* The invariant is inductive.                                               *)

\* At the start nothing is saved, stored or on its way.
LEMMA InitIInv == Init => IInv
<1> SUFFICES ASSUME Init PROVE IInv
  OBVIOUS
<1>1. /\ position = 0 /\ stored = 0 /\ committed = 0 /\ consumer = "drain"
      /\ writer = "gather" /\ rows = [k \in Offsets |-> 0]
  BY DEF Init
<1>2. Len(batch) = 0 /\ Len(tradeQ) = 0 /\ Len(offsetQ) = 0
  BY EmptySeq DEF Init
<1>3. Offsets \subseteq Nat
  BY DEF Offsets
<1>7. Tally = 0
  BY DEF Init, Tally
<1>4. Pipeline(0)
  BY <1>1, <1>2, <1>3, <1>7 DEF Pipeline, Contiguous, RunFrom, SavedTo, Fresh
<1>8. DuplicatesExplained
  BY <1>1 DEF Init, DuplicatesExplained
<1>5. CommittedIsSaved
  BY <1>1, <1>3 DEF CommittedIsSaved
<1>6. NoGapInTable
  BY <1>1 DEF NoGapInTable
<1> QED BY <1>4, <1>5, <1>6, <1>8, InitTyped DEF IInv, Flow

\* Only the COPY adds rows, and no failure is forgotten.
LEMMA DuplicatesKept == IInv /\ [Next]_vars => DuplicatesExplained'
<1> SUFFICES ASSUME IInv, [Next]_vars PROVE DuplicatesExplained'
  OBVIOUS
<1>1. Tally \in Nat /\ \A k \in Offsets : rows[k] \in Nat /\ rows[k] <= 1 + Tally
  <2>1. Tally \in Nat /\ \A k \in Offsets : rows[k] \in Nat
    BY TallyIsNat DEF IInv
  <2> QED BY <2>1 DEF IInv, DuplicatesExplained, Tally, Typed, OtherTypes
<1>2. (\A k \in Offsets : rows'[k] <= 1 + Tally') => DuplicatesExplained'
  <2>1. faults'.db \in Nat /\ faults'.starts \in Nat
    BY TypedStep DEF IInv, Typed, OtherTypes
  <2> QED BY <2>1 DEF DuplicatesExplained, Tally
<1>3. CASE CopyCommits
  <2>1. PICK s \in Nat : Pipeline(s)
    BY <1>3 DEF IInv, Flow, CopyCommits
  <2>2. /\ writer = "copy" /\ Tally' = Tally
        /\ rows' = [k \in Offsets |-> IF k \in ToSet(batch) THEN rows[k] + 1 ELSE rows[k]]
    BY <1>3 DEF CopyCommits, Tally
  <2>3. \A k \in Offsets : k \in ToSet(batch) => k >= s
    <3>1. DOMAIN batch = 1 .. Len(batch)
      BY LenProperties DEF IInv, Typed, WriterTypes
    <3> QED BY <2>1, <3>1 DEF Pipeline, Contiguous, RunFrom, ToSet
  <2>4. \A k \in Offsets : k \in ToSet(batch) => rows[k] <= Tally
    BY <2>1, <2>2, <2>3 DEF Pipeline, Fresh
  <2>5. \A k \in Offsets : rows'[k] <= 1 + Tally
    BY <1>1, <2>2, <2>4
  <2> QED BY <1>2, <2>2, <2>5
<1>4. ASSUME rows' = rows, Tally' \in {Tally, Tally + 1} PROVE DuplicatesExplained'
  BY <1>1, <1>2, <1>4
<1>5. faults \in [db : Nat, redis : Nat, starts : Nat]
  BY DEF IInv, Typed, OtherTypes
<1>6. CASE CopyFails \/ RedisFails \/ Start
  <2>1. rows' = rows /\ Tally' \in {Tally, Tally + 1}
    BY <1>5, <1>6 DEF CopyFails, RedisFails, Start, Tally
  <2> QED BY <1>4, <2>1
<1>7. CASE \/ Produce \/ AutoCommit \/ ConsumerStep \/ Gather \/ Gathered \/ WriterStops
           \/ StartCopy \/ GiveUp \/ Retry \/ Saved \/ Cancel \/ Exit \/ Crash \/ UNCHANGED vars
  <2>1. rows' = rows /\ faults' = faults
    BY <1>7 DEF Produce, AutoCommit, ConsumerStep, Drain, Fetch, FetchNothing, Enqueue, Gather,
                Gathered, WriterStops, StartCopy, GiveUp, Retry, Saved, Cancel, Exit, Crash, vars
  <2> QED BY <1>4, <2>1 DEF Tally
<1>8. CASE TakeLatest \/ SetTicker \/ Publish \/ PauseOver \/ PublisherStops
  <2>1. rows' = rows /\ faults' = faults
    BY <1>8 DEF TakeLatest, SetTicker, Publish, PauseOver, PublisherStops
  <2> QED BY <1>4, <2>1 DEF Tally
<1> QED BY <1>3, <1>6, <1>7, <1>8 DEF Next, WriterStep, PublisherStep

\* Every step keeps the invariant.
LEMMA NextIInv == IInv /\ [Next]_vars => IInv'
<1> SUFFICES ASSUME IInv, [Next]_vars PROVE IInv'
  OBVIOUS
<1>1. Typed' /\ DuplicatesExplained'
  BY TypedStep, DuplicatesKept DEF IInv
<1> SUFFICES Flow' /\ CommittedIsSaved' /\ NoGapInTable'
  BY <1>1 DEF IInv
<1>2. CASE Drain \/ Fetch \/ Enqueue \/ Gather \/ CopyCommits \/ Saved
  <2>1. up
    BY <1>2 DEF Drain, Fetch, Enqueue, Gather, CopyCommits, Saved
  <2> QED BY <1>2, <2>1, FlowDrain, FlowFetch, FlowEnqueue, FlowGather, FlowCopyCommits, FlowSaved
<1>3. CASE Start
  BY <1>3, FlowStart
<1>4. CASE Exit \/ Crash
  <2>1. up' = FALSE /\ committed' = committed /\ rows' = rows
    BY <1>4 DEF Exit, Crash, kafka
  <2> QED BY <2>1, TableKept DEF Flow, IInv
<1>5. CASE \/ Produce \/ AutoCommit \/ FetchNothing \/ Gathered \/ WriterStops \/ StartCopy
           \/ GiveUp \/ CopyFails \/ Retry \/ PublisherStep \/ Cancel \/ UNCHANGED vars
  BY <1>5, FlowOthers
<1> QED BY <1>2, <1>3, <1>4, <1>5 DEF Next, ConsumerStep, WriterStep

\* The service in all its interleavings, with its faults and restarts.
LEMMA AlwaysIInv == Spec => []IInv
BY InitIInv, NextIInv, PTL DEF Spec

-----------------------------------------------------------------------------
(* The theorems.                                                             *)

\* The channels keep their bounds, the attempts at a batch their number, and every
\* variable its type (Worker.cs).
THEOREM TypeCorrect == Spec => []TypeOK
<1>1. IInv => TypeOK
  BY TypedIsTypeOK DEF IInv
<1> QED BY <1>1, AlwaysIInv, PTL

\* No commit runs ahead of the table: neither the stored offsets of the loops'
\* feedback channel, nor the background commit, nor the commit of Close, nor a
\* restart skips a trade that is not saved.
THEOREM CommittedAlwaysSaved == Spec => []CommittedIsSaved
<1>1. IInv => CommittedIsSaved
  BY DEF IInv
<1> QED BY <1>1, AlwaysIInv, PTL

\* The table is saved front to back: over every retry, failed batch and restart no
\* trade is in it before all earlier ones are.
THEOREM TableNeverHasGap == Spec => []NoGapInTable
<1>1. IInv => NoGapInTable
  BY DEF IInv
<1> QED BY <1>1, AlwaysIInv, PTL

\* The retries of an unanswered COPY and the replays after a restart explain every row
\* that a trade has too many: one for each failure of Postgres and each restart.
THEOREM DuplicatesAlwaysExplained == Spec => []DuplicatesExplained
<1>1. IInv => DuplicatesExplained
  BY DEF IInv
<1> QED BY <1>1, AlwaysIInv, PTL

-----------------------------------------------------------------------------
(* The published price.                                                      *)

\* What waits for the Redis loop lies between the trade it took last and the result
\* in hand.
Ahead ==
  /\ latest < position
  /\ \A i \in 1 .. Len(redisQ) : latest < redisQ[i] /\ redisQ[i] < position
  /\ consumer = "enqueue" =>
       /\ position = held + 1 /\ latest < held
       /\ \A i \in 1 .. Len(redisQ) : redisQ[i] < held

\* A put adds the new item and no other.
LEMMA PutElements ==
  ASSUME NEW q \in Seq(Offsets), NEW k \in Offsets,
         NEW i \in 1 .. Len(PutDroppingOldest(q, k))
  PROVE  \/ PutDroppingOldest(q, k)[i] = k
         \/ \E j \in 1 .. Len(q) : PutDroppingOldest(q, k)[i] = q[j]
<1>1. ASSUME NEW r \in Seq(Offsets), NEW j \in 1 .. Len(Append(r, k))
      PROVE  Append(r, k)[j] = k \/ (j \in 1 .. Len(r) /\ Append(r, k)[j] = r[j])
  <2>1. Len(r) \in Nat /\ Len(Append(r, k)) = Len(r) + 1
    BY <1>1, LenProperties, AppendProperties
  <2>2. j \in 1 .. Len(r) \/ j = Len(r) + 1
    BY <1>1, <2>1
  <2> QED BY <1>1, <2>2, AppendProperties
<1>2. CASE Len(q) < RedisCap
  <2>1. PutDroppingOldest(q, k) = Append(q, k)
    BY <1>2 DEF PutDroppingOldest
  <2> QED BY <1>1, <2>1
<1>3. CASE ~(Len(q) < RedisCap)
  <2>1. PutDroppingOldest(q, k) = Append(Tail(q), k)
    BY <1>3 DEF PutDroppingOldest
  <2>2. q # <<>> /\ Len(q) \in Nat
    BY <1>3, EmptySeq, LenProperties, Constants
  <2>3. /\ Tail(q) \in Seq(Offsets) /\ Len(Tail(q)) = Len(q) - 1
        /\ \A j \in 1 .. Len(Tail(q)) : Tail(q)[j] = q[j + 1]
    BY <2>2, HeadTailProperties
  <2>4. \A j \in 1 .. Len(Tail(q)) : j + 1 \in 1 .. Len(q)
    BY <2>2, <2>3
  <2>5. \/ Append(Tail(q), k)[i] = k
        \/ i \in 1 .. Len(Tail(q)) /\ Append(Tail(q), k)[i] = Tail(q)[i]
    BY <1>1, <2>1, <2>3
  <2>6. CASE i \in 1 .. Len(Tail(q)) /\ Append(Tail(q), k)[i] = Tail(q)[i]
    <3>1. Append(Tail(q), k)[i] = q[i + 1] /\ i + 1 \in 1 .. Len(q)
      BY <2>3, <2>4, <2>6
    <3> QED BY <2>1, <3>1
  <2> QED BY <2>1, <2>5, <2>6
<1> QED BY <1>2, <1>3

\* Every step keeps the order, and only a new process forgets the trade taken last.
LEMMA AheadStep ==
  Typed /\ Ahead /\ [Next]_vars => Ahead' /\ (up /\ up' => latest' >= latest)
<1> SUFFICES ASSUME Typed, Ahead, [Next]_vars
             PROVE  Ahead' /\ (up /\ up' => latest' >= latest)
  OBVIOUS
<1>1. /\ position \in Int /\ latest \in Int /\ redisQ \in Seq(Offsets) /\ Len(redisQ) \in Nat
      /\ \A i \in 1 .. Len(redisQ) : redisQ[i] \in Int
  <2>1. redisQ \in Seq(Offsets) /\ position \in 0 .. MaxTrades /\ latest \in Offsets \cup {None}
    BY DEF Typed, KafkaTypes, QueueTypes, PublisherTypes
  <2>2. Len(redisQ) \in Nat /\ \A i \in 1 .. Len(redisQ) : redisQ[i] \in Offsets
    BY <2>1, LenProperties, ElementOfSeq
  <2>3. position \in Int
    BY <2>1, Constants
  <2>4. \A k \in Offsets \cup {None} : k \in Int
    BY DEF Offsets, None
  <2>5. latest \in Int /\ \A i \in 1 .. Len(redisQ) : redisQ[i] \in Int
    BY <2>1, <2>2, <2>4
  <2> QED BY <2>1, <2>2, <2>3, <2>5
<1>2. ASSUME UNCHANGED <<latest, position, redisQ>>,
             consumer' # "enqueue" \/ UNCHANGED <<consumer, held>>
      PROVE  Ahead' /\ latest' >= latest
  BY <1>1, <1>2 DEF Ahead
<1> USE DEF kafka, channels, consVars, dbVars, redisVars
<1>3. CASE Drain \/ FetchNothing
  BY <1>2, <1>3 DEF Drain, EndConsumer, FetchNothing
<1>4. CASE Fetch
  <2>1. /\ UNCHANGED <<latest, redisQ>>
        /\ held' = position /\ position' = position + 1
    BY <1>4 DEF Fetch
  <2> QED BY <1>1, <2>1 DEF Ahead
<1>5. CASE Enqueue
  <2>1. CASE EndConsumer /\ UNCHANGED redisVars
    BY <1>2, <2>1 DEF EndConsumer
  <2>2. CASE /\ redisQ' = PutDroppingOldest(redisQ, held) /\ consumer' = "poll"
             /\ UNCHANGED <<position, latest>>
    <3>1. held \in Offsets /\ held \in Int /\ position = held + 1 /\ latest < held
      <4>1. held \in Offsets
        BY <1>5 DEF Enqueue, Typed, ConsumerTypes
      <4> QED BY <1>5, <4>1 DEF Enqueue, Ahead, Offsets
    <3>2. ASSUME NEW i \in 1 .. Len(redisQ') PROVE latest < redisQ'[i] /\ redisQ'[i] < position
      <4>1. redisQ'[i] = held \/ \E j \in 1 .. Len(redisQ) : redisQ'[i] = redisQ[j]
        BY <1>1, <2>2, <3>1, PutElements
      <4>2. held < position
        BY <3>1
      <4> QED BY <3>1, <4>1, <4>2 DEF Ahead
    <3> QED BY <1>1, <2>2, <3>2 DEF Ahead
  <2> QED BY <1>5, <2>1, <2>2 DEF Enqueue
<1>6. CASE TakeLatest
  <2>1. /\ latest' = redisQ[Len(redisQ)] /\ Len(redisQ) \in 1 .. Len(redisQ) /\ Len(redisQ') = 0
        /\ UNCHANGED <<position, consumer, held>>
    <3>1. Len(redisQ) \in Nat \ {0} /\ Last(redisQ) = redisQ[Len(redisQ)]
      BY <1>1, <1>6, Ends DEF TakeLatest
    <3> QED BY <1>6, <3>1, EmptySeq DEF TakeLatest, NewestWaiting
  <2>2. latest < latest' /\ latest' < position /\ (consumer = "enqueue" => latest' < held)
    BY <2>1 DEF Ahead
  <2>3. latest' \in Int
    BY <1>1, <2>1
  <2> QED BY <1>1, <2>1, <2>2, <2>3 DEF Ahead
<1>7. CASE Start
  <2>1. ~up /\ latest' = None /\ position' = committed /\ redisQ' = <<>> /\ consumer' = "drain"
    BY <1>7 DEF Start
  <2>2. committed \in Nat
    BY DEF Typed, KafkaTypes
  <2>3. Len(redisQ') = 0
    BY <2>1, EmptySeq
  <2> QED BY <2>1, <2>2, <2>3 DEF Ahead, None
<1>8. CASE \/ Produce \/ AutoCommit \/ WriterStep \/ Cancel \/ Exit \/ Crash \/ UNCHANGED vars
  <2>1. UNCHANGED <<latest, position, redisQ, consumer, held>>
    BY <1>8 DEF Produce, AutoCommit, WriterStep, Gather, Gathered, WriterStops, StartCopy, GiveUp,
                CopyCommits, CopyFails, Retry, Saved, Cancel, Exit, Crash, vars
  <2> QED BY <1>2, <2>1
<1>9. CASE SetTicker \/ Publish \/ RedisFails \/ PauseOver \/ PublisherStops
  BY <1>2, <1>9 DEF SetTicker, Publish, RedisFails, PauseOver, PublisherStops
<1> QED BY <1>3, <1>4, <1>5, <1>6, <1>7, <1>8, <1>9 DEF Next, ConsumerStep, PublisherStep

\* However much the channel drops and the loop skips or forgets, a running process takes
\* the trades it publishes in the order of the topic.
THEOREM TickerAlwaysForward == Spec => TickerMovesForward
<1>1. Init => Ahead
  BY EmptySeq DEF Init, Ahead, None
<1>2. Typed /\ Ahead /\ [Next]_vars => Ahead'
  BY AheadStep
<1>3. Spec => []Typed
  BY InitTyped, TypedStep, PTL DEF Spec
<1>4. Typed /\ Ahead /\ [Next]_vars => [up /\ up' => latest' >= latest]_vars
  BY AheadStep
<1> QED BY <1>1, <1>2, <1>3, <1>4, PTL DEF Spec, TickerMovesForward
=============================================================================
