-------------------------- MODULE MarketPageProofs --------------------------
(***************************************************************************)
(* That the page and the SignalR client under it stay in step, for every   *)
(* number of invocations, reconnect attempts and redirects, whatever       *)
(* transports a server offers: an invariant that says for every phase of   *)
(* the connection, the hub, the reconnect loop and the page's promises     *)
(* what the others may be in, kept by every task and every continuation.   *)
(***************************************************************************)
EXTENDS MarketPage, TLAPS

\* Where start() of the connection is, against its state.
StartAgrees ==
  /\ httpStarted => starting = None /\ httpState \in {"Connected", "Disconnecting"}
  /\ StartPending => httpState \in {"Connecting", "Disconnecting"} /\ link = None
  /\ httpState = "Connecting" => StartPending
  /\ starting = "failed" => httpState = "Disconnected"
  /\ starting = "waitStop" => httpState \in {"Disconnecting", "Disconnected"}
  /\ httpState = "Connected" => httpStarted \/ starting = "done"
  /\ httpState = "Disconnecting" => httpStarted \/ starting # None

\* What is under a connection, and who stops it.
LinkAgrees ==
  /\ transport = None => link = None
  /\ httpState = "Disconnected" => transport = None /\ buffer = {} /\ posting = {}
  /\ httpState = "Connected" => LinkUp \/ transport = None
  /\ httpStarted => LinkUp \/ transport = None \/ stopping = "deleting"
  /\ stopPromise = "pending" <=> httpState = "Disconnecting"
  /\ httpState = "Disconnecting" /\ (StartPending \/ LinkUp) => stopping = "awaitStart"
  /\ stopping = "awaitStart" => httpState \in {"Disconnecting", "Disconnected"}
  /\ stopping = "deleting" =>
       httpState = "Disconnecting" /\ transport = "LongPolling" /\ link = None /\ ~StartPending
  /\ transport = "LongPolling" => StartPending \/ inherentKeepAlive

\* Where the hub's _startInternal is, against the connection.
AttemptAgrees ==
  /\ attempt = "connect" <=> starting # None
  /\ attempt = "connect" => ~timeout /\ buffer = {} /\ posting = {}
  /\ attempt \in {"greet", "handshake", "ping", "up"} /\ ~stopErr => httpStarted
  /\ attempt \in {"greet", "handshake"} /\ shake = "pending" => httpStarted
  /\ attempt = "abort" => httpState \in {"Disconnecting", "Disconnected"}
  /\ attempt = "failed" => httpState = "Disconnected"
  /\ timeout => httpState # "Disconnected" \/ (attempt = "handshake" /\ shake # "pending")

\* The hub's state, its start and its reconnect loop.
HubAgrees ==
  /\ startPromise = "pending" <=> attempt # None /\ loop = None
  /\ startPromise = "pending" => hubState \in {"Connecting", "Disconnecting"}
  /\ startPromise = "pending" /\ ~stopErr => hubState = "Connecting"
  /\ loop # None \/ hubStarted \/ hubState \in {"Connected", "Reconnecting"} =>
       startPromise = "resolved"
  /\ hubState = "Connecting" => startPromise = "pending"
  /\ hubState = "Disconnecting" => startPromise # "rejected" /\ startPromise # None
  /\ hubState = "Connected" => attempt = None /\ loop = None
  /\ hubState = "Connected" => Raced \/ (httpStarted /\ hubStarted)
  /\ hubState = "Connected" /\ httpStarted => hubStarted
  /\ hubState = "Reconnecting" => hubStarted /\ loop # None
  /\ hubState = "Disconnected" => httpState = "Disconnected"
  /\ loop = "delay" => attempt = None /\ hubState = "Reconnecting" /\ httpState = "Disconnected"
  /\ loop = "attempt" => attempt # None
  /\ loop = "attempt" /\ (httpStarted \/ attempt = "connect") => hubStarted
  /\ loop = "attempt" /\ ~stopErr => hubState = "Reconnecting"

\* What was noticed too late.
RaceAgrees ==
  /\ attempt \in {"ping", "up"} /\ stopErr => Raced
  /\ InPing /\ hubState \in {"Disconnecting", "Disconnected"} => stoppedInPing
  /\ attempt = "up" /\ stopErr => ~httpStarted
  /\ attempt = "ping" /\ stopErr /\ httpStarted =>
       /\ sent["ping"] = "pending" /\ stopping = "awaitStart" /\ (buffer = {} \/ posting # {})
  /\ attempt = "ping" => ~inherentKeepAlive
  /\ PollLost =>
       \/ attempt = "abort"
       \/ attempt = "greet" /\ sent["handshake"] = "failed"
       \/ attempt = "greet" /\ sent["handshake"] = "pending" /\ "handshake" \in buffer /\ posting = {}

\* The stop.
StopAgrees ==
  /\ hubState = "Disconnecting" \/ stopCall # None =>
       httpState \in {"Disconnecting", "Disconnected"}
  /\ stopCall = "returned" => httpState = "Disconnected"
  /\ stopCall # None =>
       \/ hubState \in {"Disconnected", "Disconnecting"}
       \/ Raced /\ ~httpStarted /\ hubState = "Connected"
  /\ hubState = "Disconnecting" /\ startPromise = "resolved" /\ ~Raced =>
       hubStarted /\ (loop = "attempt" \/ (httpStarted /\ httpState = "Disconnecting"))
  /\ stopCall = "returned" => startPromise # "pending"
  /\ stopCall = "returned" /\ hubState = "Disconnecting" /\ ~Raced => loop = "attempt"

\* The invocations of the page, against the send queue.
CallsAgree ==
  \A c \in Invocations :
    /\ calls[c] = "idle" => c \notin buffer
    /\ calls[c] = "pending" => httpStarted \/ (sent[c] = "failed" /\ c \notin buffer)

\* What the label may say.
LabelAgrees ==
  label = "LIVE STREAM" =>
    /\ startPromise = "resolved" /\ loop = None /\ attempt = None
    /\ hubState = "Connected" \/ (hubState \in {"Disconnecting", "Disconnected"} /\ closing)

\* The inductive invariant.
IInv ==
  /\ TypeOK
  /\ StartAgrees /\ LinkAgrees /\ AttemptAgrees /\ HubAgrees
  /\ RaceAgrees /\ StopAgrees /\ CallsAgree /\ LabelAgrees

USE DEF None, startVars, stopVars, linkVars, httpVars, queueVars, closeVars, loopVars,
        shakeVars, hubVars, Raced, InPing

-----------------------------------------------------------------------------
(* The types, in groups that the steps need apart.                           *)

Flags ==
  /\ httpStarted \in BOOLEAN /\ hubStarted \in BOOLEAN /\ inherentKeepAlive \in BOOLEAN
  /\ stopErr \in BOOLEAN /\ shaken \in BOOLEAN /\ timeout \in BOOLEAN
  /\ lostInPing \in BOOLEAN /\ stoppedInPing \in BOOLEAN /\ closing \in BOOLEAN

Phases ==
  /\ httpState \in {"Disconnected", "Connecting", "Connected", "Disconnecting"}
  /\ hubState \in {"Disconnected", "Connecting", "Connected", "Disconnecting", "Reconnecting"}
  /\ starting \in {None, "negotiate", "connect", "renegotiate", "done", "failed", "waitStop"}
  /\ transport \in Kinds \cup {None} /\ link \in {None, "open", "silent"}
  /\ stopping \in {None, "awaitStart", "deleting"}
  /\ stopPromise \in {None, "pending", "resolved"}
  /\ startPromise \in {None, "pending", "resolved", "rejected"}
  /\ attempt \in {None, "connect", "greet", "handshake", "ping", "abort", "up", "failed"}
  /\ shake \in {None, "pending", "resolved", "rejected"}
  /\ loop \in {None, "delay", "attempt"}
  /\ stopCall \in {None, "waiting", "returned"}

Counters ==
  /\ endpoints \in Seq(Kinds)
  /\ redirects \in 0 .. MaxRedirects - 1 /\ retries \in 0 .. Retries

Tables ==
  /\ sent \in [Items -> {"idle", "pending", "ok", "failed"}]
  /\ calls \in [Invocations -> {"idle", "pending", "done", "failed"}]
  /\ buffer \in SUBSET Items /\ posting \in SUBSET Items
  /\ orphans \in SUBSET [posting : SUBSET Items, buffer : SUBSET Items]

Texts == label \in {"Disconnected", "LIVE STREAM", "Reconnecting..."}

\* The groups are the type invariant.
LEMMA TypesAre ==
  /\ TypeOK <=> Flags /\ Phases /\ Counters /\ Tables /\ Texts
  /\ TypeOK' <=> Flags' /\ Phases' /\ Counters' /\ Tables' /\ Texts'
BY DEF TypeOK, Flags, Phases, Counters, Tables, Texts

\* What the page writes on its label.
LEMMA Written == ASSUME Texts, Shows PROVE Texts'
BY DEF Texts, Shows

-----------------------------------------------------------------------------
(* The steps.                                                                *)

\* What every arrival does, before its message is looked at.
Arrives ==
  /\ Task /\ link = "open"
  /\ shaken \/ attempt = "handshake" \/ "handshake" \in posting
  /\ shaken' = TRUE /\ shake' = IF shaken THEN shake ELSE "resolved"
  /\ ResetTimeoutPeriod
  /\ UNCHANGED <<startPromise, attempt, retries, stopCall>>
  /\ UNCHANGED <<httpStarted, startVars, linkVars, inherentKeepAlive>>

\* What a completion with the result r does to the invocation c.
Completed(c, r) ==
  /\ calls' = IF calls[c] = "pending" THEN [calls EXCEPT ![c] = r] ELSE calls
  /\ UNCHANGED <<closeVars, loopVars, stopErr, httpState, stopVars, queueVars>>

\* The connection is up and the handshake on its way.
LEMMA GreetKeeps ==
  ASSUME IInv, Greet, PageReacts
  PROVE  IInv'
<1>a. Flags /\ Phases /\ Counters /\ Tables
  BY TypesAre DEF IInv
<1>b. Texts'
  BY Written, TypesAre DEF IInv, PageReacts
<1>1. Flags'
  BY <1>a DEF Flags, Histories, PageReacts, Greet, StartResolves
<1>2. Phases'
  BY <1>a DEF Phases, Greet, StartResolves
<1>3. Counters'
  BY <1>a DEF Counters, Greet
<1>4. Tables'
  BY <1>a, HubAssumption DEF Tables, Greet, Enqueue, Settle
<1>5. TypeOK'
  BY <1>b, <1>1, <1>2, <1>3, <1>4, TypesAre
<1>6. StartAgrees'
  BY DEF StartAgrees, StartPending, Greet, StartResolves
<1>7. LinkAgrees'
  BY DEF IInv, LinkAgrees, StartPending, LinkUp, Greet, StartResolves
<1>8. AttemptAgrees'
  BY DEF AttemptAgrees, Greet, StartResolves
<1>9. HubAgrees'
  BY DEF IInv, HubAgrees, Greet
<1>10. RaceAgrees'
  BY HubAssumption DEF IInv, RaceAgrees, AttemptAgrees, Greet, Enqueue, Settle
<1>11. StopAgrees'
  BY DEF IInv, StopAgrees, HubAgrees, PageReacts, Histories, Greet, StartResolves
<1>12. CallsAgree'
  BY HubAssumption DEF IInv, CallsAgree, Greet, StartResolves, Enqueue
<1>13. LabelAgrees'
  BY DEF IInv, LabelAgrees, PageReacts, Shows, Greet
<1> QED BY <1>5, <1>6, <1>7, <1>8, <1>9, <1>10, <1>11, <1>12, <1>13 DEF IInv

\* The connection did not come up.
LEMMA ConnectFailsKeeps ==
  ASSUME IInv, ConnectFails, PageReacts
  PROVE  IInv'
<1>a. Flags /\ Phases /\ Counters /\ Tables
  BY TypesAre DEF IInv
<1>b. Texts'
  BY Written, TypesAre DEF IInv, PageReacts
<1>1. Flags'
  BY <1>a DEF Flags, Histories, PageReacts, ConnectFails, StartRejects
<1>2. Phases'
  BY <1>a DEF Phases, ConnectFails, StartRejects
<1>3. Counters'
  BY <1>a DEF Counters, ConnectFails, StartRejects
<1>4. Tables'
  BY <1>a DEF Tables, ConnectFails, StartRejects
<1>5. TypeOK'
  BY <1>b, <1>1, <1>2, <1>3, <1>4, TypesAre
<1>6. StartAgrees'
  BY DEF IInv, StartAgrees, LinkAgrees, StartPending, ConnectFails, StartRejects
<1>7. LinkAgrees'
  BY DEF IInv, LinkAgrees, StartPending, LinkUp, ConnectFails, StartRejects
<1>8. AttemptAgrees'
  BY DEF IInv, AttemptAgrees, StartAgrees, LinkAgrees, ConnectFails, StartRejects
<1>9. HubAgrees'
  BY DEF IInv, HubAgrees, ConnectFails, StartRejects
<1>10. RaceAgrees'
  BY DEF IInv, RaceAgrees, PollLost, ConnectFails, StartRejects
<1>11. StopAgrees'
  BY DEF IInv, StopAgrees, PageReacts, Histories, ConnectFails, StartRejects
<1>12. CallsAgree'
  BY DEF IInv, CallsAgree, ConnectFails, StartRejects
<1>13. LabelAgrees'
  BY DEF IInv, LabelAgrees, PageReacts, Shows, ConnectFails
<1> QED BY <1>5, <1>6, <1>7, <1>8, <1>9, <1>10, <1>11, <1>12, <1>13 DEF IInv

\* A start that was stopped waits for the stop.
LEMMA StartWaitsKeeps ==
  ASSUME IInv, StartWaits, UNCHANGED hubVars, PageReacts
  PROVE  IInv'
<1>a. Flags /\ Phases /\ Counters /\ Tables
  BY TypesAre DEF IInv
<1>b. Texts'
  BY Written, TypesAre DEF IInv, PageReacts
<1>1. Flags'
  BY <1>a DEF Flags, Histories, PageReacts, StartWaits
<1>2. Phases'
  BY <1>a DEF Phases, StartWaits
<1>3. Counters'
  BY <1>a DEF Counters, StartWaits
<1>4. Tables'
  BY <1>a DEF Tables, StartWaits
<1>5. TypeOK'
  BY <1>b, <1>1, <1>2, <1>3, <1>4, TypesAre
<1>6. StartAgrees'
  BY DEF IInv, StartAgrees, StartPending, StartWaits
<1>7. LinkAgrees'
  BY DEF IInv, LinkAgrees, StartPending, LinkUp, StartWaits
<1>8. AttemptAgrees'
  BY DEF IInv, AttemptAgrees, StartWaits
<1>9. HubAgrees'
  BY DEF IInv, HubAgrees, PageReacts, Histories, StartWaits
<1>10. RaceAgrees'
  BY DEF IInv, RaceAgrees, PollLost, PageReacts, Histories, StartWaits
<1>11. StopAgrees'
  BY <1>a DEF IInv, Phases, StopAgrees, HubAgrees, AttemptAgrees, StartWaits
<1>12. CallsAgree'
  BY DEF IInv, CallsAgree, StartWaits
<1>13. LabelAgrees'
  BY DEF IInv, LabelAgrees, PageReacts, Histories, Shows
<1> QED BY <1>5, <1>6, <1>7, <1>8, <1>9, <1>10, <1>11, <1>12, <1>13 DEF IInv

\* An attempt that failed is taken down, from whatever phase.
LEMMA AbortKeeps ==
  ASSUME IInv, AbortAttempt, UNCHANGED queueVars, attempt \in {"greet", "handshake", "ping"},
         PageReacts
  PROVE  IInv'
<1>a. Flags /\ Phases /\ Counters /\ Tables
  BY TypesAre DEF IInv
<1>b. Texts'
  BY Written, TypesAre DEF IInv, PageReacts
<1>1. Flags'
  BY <1>a DEF Flags, Histories, PageReacts, AbortAttempt
<1>2. Phases'
  BY <1>a DEF Phases, AbortAttempt, HttpStop
<1>3. Counters'
  BY <1>a DEF Counters, AbortAttempt
<1>4. Tables'
  BY <1>a DEF Tables, AbortAttempt
<1>5. TypeOK'
  BY <1>b, <1>1, <1>2, <1>3, <1>4, TypesAre
<1>6. StartAgrees'
  BY DEF IInv, StartAgrees, StartPending, AbortAttempt, HttpStop
<1>7. LinkAgrees'
  BY DEF IInv, LinkAgrees, StartPending, LinkUp, AbortAttempt, HttpStop
<1>8. AttemptAgrees'
  BY <1>a DEF IInv, Phases, AttemptAgrees, AbortAttempt, HttpStop
<1>9. HubAgrees'
  BY DEF IInv, HubAgrees, AbortAttempt, HttpStop
<1>10. RaceAgrees'
  BY DEF RaceAgrees, AbortAttempt
<1>11. StopAgrees'
  BY DEF IInv, StopAgrees, PageReacts, Histories, AbortAttempt, HttpStop
<1>12. CallsAgree'
  BY DEF IInv, CallsAgree, AbortAttempt
<1>13. LabelAgrees'
  BY DEF IInv, LabelAgrees, PageReacts, Shows, AbortAttempt
<1> QED BY <1>5, <1>6, <1>7, <1>8, <1>9, <1>10, <1>11, <1>12, <1>13 DEF IInv

\* The handshake was sent.
LEMMA SentKeeps ==
  ASSUME IInv, AwaitHandshake, sent["handshake"] = "ok", PageReacts
  PROVE  IInv'
<1>a. Flags /\ Phases /\ Counters /\ Tables
  BY TypesAre DEF IInv
<1>b. Texts'
  BY Written, TypesAre DEF IInv, PageReacts
<1>1. Flags'
  BY <1>a DEF Flags, Histories, PageReacts, AwaitHandshake, ResetTimeoutPeriod
<1>2. Phases'
  BY <1>a DEF Phases, AwaitHandshake
<1>3. Counters'
  BY <1>a DEF Counters, AwaitHandshake
<1>4. Tables'
  BY <1>a DEF Tables, AwaitHandshake
<1>5. TypeOK'
  BY <1>b, <1>1, <1>2, <1>3, <1>4, TypesAre
<1>6. StartAgrees'
  BY DEF IInv, StartAgrees, StartPending, AwaitHandshake
<1>7. LinkAgrees'
  BY DEF IInv, LinkAgrees, StartPending, LinkUp, AwaitHandshake
<1>8. AttemptAgrees'
  BY DEF IInv, AttemptAgrees, StartAgrees, AwaitHandshake
<1>9. HubAgrees'
  BY DEF IInv, HubAgrees, AwaitHandshake
<1>10. RaceAgrees'
  BY DEF IInv, RaceAgrees, PollLost, AwaitHandshake
<1>11. StopAgrees'
  BY DEF IInv, StopAgrees, PageReacts, Histories, AwaitHandshake
<1>12. CallsAgree'
  BY DEF IInv, CallsAgree, AwaitHandshake
<1>13. LabelAgrees'
  BY DEF IInv, LabelAgrees, PageReacts, Shows, AwaitHandshake
<1> QED BY <1>5, <1>6, <1>7, <1>8, <1>9, <1>10, <1>11, <1>12, <1>13 DEF IInv

\* The handshake is over and nothing was lost meanwhile.
LEMMA ShakenKeeps ==
  ASSUME IInv, Ping, ~(shake = "rejected" \/ stopErr), PageReacts
  PROVE  IInv'
<1>a. Flags /\ Phases /\ Counters /\ Tables
  BY TypesAre DEF IInv
<1>b. Texts'
  BY Written, TypesAre DEF IInv, PageReacts
<1>1. Flags'
  BY <1>a DEF Flags, Histories, PageReacts, Ping
<1>2. Phases'
  BY <1>a DEF Phases, Ping
<1>3. Counters'
  BY <1>a DEF Counters, Ping
<1>4. Tables'
  BY <1>a, HubAssumption DEF Tables, Ping, Send, Enqueue, Settle
<1>5. TypeOK'
  BY <1>b, <1>1, <1>2, <1>3, <1>4, TypesAre
<1>6. StartAgrees'
  BY DEF IInv, StartAgrees, StartPending, Ping
<1>7. LinkAgrees'
  BY DEF IInv, LinkAgrees, StartPending, LinkUp, Ping, Send
<1>8. AttemptAgrees'
  BY DEF IInv, AttemptAgrees, StartAgrees, Ping
<1>9. HubAgrees'
  BY DEF IInv, HubAgrees, Ping
<1>10. RaceAgrees'
  BY <1>a DEF IInv, Phases, RaceAgrees, HubAgrees, PollLost, Ping
<1>11. StopAgrees'
  BY DEF IInv, StopAgrees, PageReacts, Histories, Ping
<1>12. CallsAgree'
  BY HubAssumption DEF IInv, CallsAgree, Ping, Send, Enqueue, Settle
<1>13. LabelAgrees'
  BY DEF IInv, LabelAgrees, PageReacts, Shows, Ping
<1> QED BY <1>5, <1>6, <1>7, <1>8, <1>9, <1>10, <1>11, <1>12, <1>13 DEF IInv

\* The ping got through.
LEMMA ReachedKeeps ==
  ASSUME IInv, Pinged, sent["ping"] = "ok", PageReacts
  PROVE  IInv'
<1>a. Flags /\ Phases /\ Counters /\ Tables
  BY TypesAre DEF IInv
<1>b. Texts'
  BY Written, TypesAre DEF IInv, PageReacts
<1>1. Flags'
  BY <1>a DEF Flags, Histories, PageReacts, Pinged
<1>2. Phases'
  BY <1>a DEF Phases, Pinged
<1>3. Counters'
  BY <1>a DEF Counters, Pinged
<1>4. Tables'
  BY <1>a DEF Tables, Pinged
<1>5. TypeOK'
  BY <1>b, <1>1, <1>2, <1>3, <1>4, TypesAre
<1>6. StartAgrees'
  BY DEF IInv, StartAgrees, StartPending, Pinged
<1>7. LinkAgrees'
  BY DEF IInv, LinkAgrees, StartPending, LinkUp, Pinged
<1>8. AttemptAgrees'
  BY DEF IInv, AttemptAgrees, Pinged
<1>9. HubAgrees'
  BY DEF IInv, HubAgrees, Pinged
<1>10. RaceAgrees'
  BY DEF IInv, RaceAgrees, PollLost, PageReacts, Histories, Pinged
<1>11. StopAgrees'
  BY DEF IInv, StopAgrees, PageReacts, Histories, Pinged
<1>12. CallsAgree'
  BY DEF IInv, CallsAgree, Pinged
<1>13. LabelAgrees'
  BY DEF IInv, LabelAgrees, PageReacts, Shows, Pinged
<1> QED BY <1>5, <1>6, <1>7, <1>8, <1>9, <1>10, <1>11, <1>12, <1>13 DEF IInv

\* An attempt has been taken down.
LEMMA AbortedKeeps ==
  ASSUME IInv, Aborted, PageReacts
  PROVE  IInv'
<1>a. Flags /\ Phases /\ Counters /\ Tables
  BY TypesAre DEF IInv
<1>b. Texts'
  BY Written, TypesAre DEF IInv, PageReacts
<1>1. Flags'
  BY <1>a DEF Flags, Histories, PageReacts, Aborted
<1>2. Phases'
  BY <1>a DEF Phases, Aborted
<1>3. Counters'
  BY <1>a DEF Counters, Aborted
<1>4. Tables'
  BY <1>a DEF Tables, Aborted
<1>5. TypeOK'
  BY <1>b, <1>1, <1>2, <1>3, <1>4, TypesAre
<1>6. StartAgrees'
  BY DEF IInv, StartAgrees, StartPending, Aborted
<1>7. LinkAgrees'
  BY DEF IInv, LinkAgrees, StartPending, LinkUp, Aborted
<1>8. AttemptAgrees'
  BY DEF IInv, AttemptAgrees, LinkAgrees, Aborted
<1>9. HubAgrees'
  BY DEF IInv, HubAgrees, Aborted
<1>10. RaceAgrees'
  BY DEF IInv, RaceAgrees, AttemptAgrees, StartAgrees, LinkAgrees, PollLost, Aborted
<1>11. StopAgrees'
  BY DEF IInv, StopAgrees, PageReacts, Histories, Aborted
<1>12. CallsAgree'
  BY DEF IInv, CallsAgree, Aborted
<1>13. LabelAgrees'
  BY DEF IInv, LabelAgrees, PageReacts, Shows, Aborted
<1> QED BY <1>5, <1>6, <1>7, <1>8, <1>9, <1>10, <1>11, <1>12, <1>13 DEF IInv

\* The first start is over.
LEMMA StartReturnsKeeps ==
  ASSUME IInv, StartReturns, PageReacts
  PROVE  IInv'
<1>a. Flags /\ Phases /\ Counters /\ Tables
  BY TypesAre DEF IInv
<1>b. Texts'
  BY Written, TypesAre DEF IInv, PageReacts
<1>1. Flags'
  BY <1>a DEF Flags, Histories, PageReacts, StartReturns
<1>2. Phases'
  BY <1>a DEF Phases, StartReturns
<1>3. Counters'
  BY <1>a DEF Counters, StartReturns
<1>4. Tables'
  BY <1>a DEF Tables, StartReturns
<1>5. TypeOK'
  BY <1>b, <1>1, <1>2, <1>3, <1>4, TypesAre
<1>6. StartAgrees'
  BY DEF IInv, StartAgrees, StartPending, StartReturns
<1>7. LinkAgrees'
  BY DEF IInv, LinkAgrees, StartPending, LinkUp, StartReturns
<1>8. AttemptAgrees'
  BY DEF IInv, AttemptAgrees, StartReturns
<1>9. HubAgrees'
  BY DEF IInv, HubAgrees, AttemptAgrees, RaceAgrees, PageReacts, Histories,
    StartReturns
<1>10. RaceAgrees'
  BY DEF IInv, RaceAgrees, PollLost, StartReturns
<1>11. StopAgrees'
  BY DEF IInv, StopAgrees, HubAgrees, RaceAgrees, PageReacts, Histories, StartReturns
<1>12. CallsAgree'
  BY DEF IInv, CallsAgree, StartReturns
<1>13. LabelAgrees'
  BY DEF IInv, LabelAgrees, PageReacts, Shows, StartReturns
<1> QED BY <1>5, <1>6, <1>7, <1>8, <1>9, <1>10, <1>11, <1>12, <1>13 DEF IInv

\* An attempt of the reconnect loop is over.
LEMMA AttemptReturnsKeeps ==
  ASSUME IInv, AttemptReturns, PageReacts
  PROVE  IInv'
<1>a. Flags /\ Phases /\ Counters /\ Tables
  BY TypesAre DEF IInv
<1>b. Texts'
  BY Written, TypesAre DEF IInv, PageReacts
<1>1. Flags'
  BY <1>a DEF Flags, Histories, PageReacts, AttemptReturns, CompleteClose
<1>2. Phases'
  BY <1>a DEF Phases, AttemptReturns, CompleteClose
<1>3. Counters'
  BY <1>a, HubAssumption DEF Counters, AttemptReturns
<1>4. Tables'
  BY <1>a DEF Tables, AttemptReturns
<1>5. TypeOK'
  BY <1>b, <1>1, <1>2, <1>3, <1>4, TypesAre
<1>6. StartAgrees'
  BY DEF IInv, StartAgrees, StartPending, AttemptReturns
<1>7. LinkAgrees'
  BY DEF IInv, LinkAgrees, StartPending, LinkUp, AttemptReturns
<1>8. AttemptAgrees'
  BY DEF IInv, AttemptAgrees, AttemptReturns
<1>9. HubAgrees'
  BY DEF IInv, HubAgrees, AttemptAgrees, RaceAgrees, PageReacts, Histories,
    AttemptReturns, CompleteClose
<1>10. RaceAgrees'
  BY DEF IInv, RaceAgrees, PollLost, AttemptReturns
<1>11. StopAgrees'
  BY DEF IInv, StopAgrees, HubAgrees, RaceAgrees, PageReacts, Histories,
    AttemptReturns, CompleteClose
<1>12. CallsAgree'
  BY DEF IInv, CallsAgree, AttemptReturns
<1>13. LabelAgrees'
  BY DEF IInv, LabelAgrees, HubAgrees, PageReacts, Shows, AttemptReturns
<1> QED BY <1>5, <1>6, <1>7, <1>8, <1>9, <1>10, <1>11, <1>12, <1>13 DEF IInv

\* A poll is stopped.
LEMMA StopPollingKeeps ==
  ASSUME IInv, StopPolling, UNCHANGED hubVars, PageReacts
  PROVE  IInv'
<1>a. Flags /\ Phases /\ Counters /\ Tables
  BY TypesAre DEF IInv
<1>b. Texts'
  BY Written, TypesAre DEF IInv, PageReacts
<1>1. Flags'
  BY <1>a DEF Flags, Histories, PageReacts, StopPolling
<1>2. Phases'
  BY <1>a DEF Phases, StopPolling
<1>3. Counters'
  BY <1>a DEF Counters, StopPolling
<1>4. Tables'
  BY <1>a DEF Tables, StopPolling
<1>5. TypeOK'
  BY <1>b, <1>1, <1>2, <1>3, <1>4, TypesAre
<1>6. StartAgrees'
  BY DEF IInv, StartAgrees, StartPending, StopPolling
<1>7. LinkAgrees'
  BY DEF IInv, LinkAgrees, StartPending, LinkUp, StopPolling, StopGoesOn
<1>8. AttemptAgrees'
  BY DEF IInv, AttemptAgrees, StopPolling
<1>9. HubAgrees'
  BY DEF IInv, HubAgrees, PageReacts, Histories, StopPolling
<1>10. RaceAgrees'
  BY <1>a DEF IInv, Flags, RaceAgrees, AttemptAgrees, StartAgrees, LinkAgrees, PollLost,
    PageReacts, Histories, StopPolling, StopGoesOn
<1>11. StopAgrees'
  BY <1>a DEF IInv, Phases, StopAgrees, HubAgrees, PageReacts, Histories, StopPolling
<1>12. CallsAgree'
  BY DEF IInv, CallsAgree, StopPolling
<1>13. LabelAgrees'
  BY DEF IInv, LabelAgrees, PageReacts, Histories, Shows
<1> QED BY <1>5, <1>6, <1>7, <1>8, <1>9, <1>10, <1>11, <1>12, <1>13 DEF IInv

\* There was no transport to stop.
LEMMA StopNothingKeeps ==
  ASSUME IInv, StopNothing, UNCHANGED hubVars, PageReacts
  PROVE  IInv'
<1>a. Flags /\ Phases /\ Counters /\ Tables
  BY TypesAre DEF IInv
<1>b. Texts'
  BY Written, TypesAre DEF IInv, PageReacts
<1>1. Flags'
  BY <1>a DEF Flags, Histories, PageReacts, StopNothing
<1>2. Phases'
  BY <1>a DEF Phases, StopNothing
<1>3. Counters'
  BY <1>a DEF Counters, StopNothing
<1>4. Tables'
  BY <1>a DEF Tables, StopNothing
<1>5. TypeOK'
  BY <1>b, <1>1, <1>2, <1>3, <1>4, TypesAre
<1>6. StartAgrees'
  BY DEF IInv, StartAgrees, StartPending, StopNothing
<1>7. LinkAgrees'
  BY DEF IInv, LinkAgrees, StartPending, LinkUp, StopNothing, StopGoesOn
<1>8. AttemptAgrees'
  BY DEF IInv, AttemptAgrees, StopNothing
<1>9. HubAgrees'
  BY DEF IInv, HubAgrees, PageReacts, Histories, StopNothing
<1>10. RaceAgrees'
  BY DEF IInv, RaceAgrees, PollLost, PageReacts, Histories, StopNothing
<1>11. StopAgrees'
  BY <1>a DEF IInv, Phases, StopAgrees, HubAgrees, PageReacts, Histories, StopNothing
<1>12. CallsAgree'
  BY DEF IInv, CallsAgree, StopNothing
<1>13. LabelAgrees'
  BY DEF IInv, LabelAgrees, PageReacts, Histories, Shows
<1> QED BY <1>5, <1>6, <1>7, <1>8, <1>9, <1>10, <1>11, <1>12, <1>13 DEF IInv

\* A connection that is up, or on its way down, ends, whoever ends it.
LEMMA DownKeeps ==
  ASSUME IInv, NEW outcome \in {"resolved", "rejected"}, ConnectionDown(outcome), ~StartPending, stopping' = None \/ (stopping' = stopping /\ LinkUp),
         PageReacts
  PROVE  IInv'
<1>a. Flags /\ Phases /\ Counters /\ Tables
  BY TypesAre DEF IInv
<1>b. Texts'
  BY Written, TypesAre DEF IInv, PageReacts
<1>1. Flags'
  BY <1>a DEF Flags, Histories, PageReacts, ConnectionDown, StopConnection,
    ConnectionClosed, CompleteClose, BeginReconnect
<1>2. Phases'
  BY <1>a DEF Phases, ConnectionDown, StopConnection, ConnectionClosed, CompleteClose,
    BeginReconnect
<1>3. Counters'
  BY <1>a, HubAssumption DEF Counters, ConnectionDown, StopConnection,
    ConnectionClosed, BeginReconnect
<1>4. Tables'
  BY <1>a DEF Tables, ConnectionDown, StopConnection, ConnectionClosed, StopQueue,
    Settle
<1>5. TypeOK'
  BY <1>b, <1>1, <1>2, <1>3, <1>4, TypesAre
<1>6. StartAgrees'
  BY DEF StartAgrees, StartPending, ConnectionDown, StopConnection
<1>7. LinkAgrees'
  BY DEF IInv, LinkAgrees, ConnectionDown, StopConnection, StopQueue
<1>8. AttemptAgrees'
  BY DEF IInv, AttemptAgrees, StartAgrees, ConnectionDown, StopConnection,
    ConnectionClosed, StopQueue
<1>9. HubAgrees'
  BY DEF IInv, HubAgrees, AttemptAgrees, StartAgrees, ConnectionDown, StopConnection,
    ConnectionClosed, CompleteClose, BeginReconnect
<1>10. RaceAgrees'
  BY <1>a DEF IInv, Flags, RaceAgrees, PollLost, PageReacts, Histories, ConnectionDown,
    StopConnection, ConnectionClosed, CompleteClose, BeginReconnect
<1>11. StopAgrees'
  BY <1>a DEF IInv, Phases, StopAgrees, HubAgrees, PageReacts, Histories,
    ConnectionDown, StopConnection, ConnectionClosed, CompleteClose, BeginReconnect
<1>12. CallsAgree'
  BY HubAssumption DEF IInv, CallsAgree, ConnectionDown, StopConnection,
    ConnectionClosed, StopQueue, Settle
<1>13. LabelAgrees'
  BY DEF IInv, LabelAgrees, PageReacts, Histories, Shows, ConnectionDown,
    ConnectionClosed, CompleteClose, BeginReconnect
<1> QED BY <1>5, <1>6, <1>7, <1>8, <1>9, <1>10, <1>11, <1>12, <1>13 DEF IInv

\* An invocation that was not sent fails.
LEMMA CallFailsKeeps ==
  ASSUME IInv, NEW c \in Invocations, CallFails(c), PageReacts
  PROVE  IInv'
<1>a. Flags /\ Phases /\ Counters /\ Tables
  BY TypesAre DEF IInv
<1>b. Texts'
  BY Written, TypesAre DEF IInv, PageReacts
<1>1. Flags'
  BY <1>a DEF Flags, Histories, PageReacts, CallFails
<1>2. Phases'
  BY <1>a DEF Phases, CallFails
<1>3. Counters'
  BY <1>a DEF Counters, CallFails
<1>4. Tables'
  BY <1>a DEF Tables, CallFails
<1>5. TypeOK'
  BY <1>b, <1>1, <1>2, <1>3, <1>4, TypesAre
<1>6. StartAgrees'
  BY DEF IInv, StartAgrees, StartPending, CallFails
<1>7. LinkAgrees'
  BY DEF IInv, LinkAgrees, StartPending, LinkUp, CallFails
<1>8. AttemptAgrees'
  BY DEF IInv, AttemptAgrees, CallFails
<1>9. HubAgrees'
  BY DEF IInv, HubAgrees, PageReacts, Histories, CallFails
<1>10. RaceAgrees'
  BY DEF IInv, RaceAgrees, PollLost, PageReacts, Histories, CallFails
<1>11. StopAgrees'
  BY <1>a DEF IInv, Phases, StopAgrees, HubAgrees, PageReacts, Histories, CallFails
<1>12. CallsAgree'
  BY DEF IInv, CallsAgree, CallFails
<1>13. LabelAgrees'
  BY DEF IInv, LabelAgrees, PageReacts, Histories, Shows, CallFails
<1> QED BY <1>5, <1>6, <1>7, <1>8, <1>9, <1>10, <1>11, <1>12, <1>13 DEF IInv

\* The script's stop() is over.
LEMMA StopReturnsKeeps ==
  ASSUME IInv, StopReturns, PageReacts
  PROVE  IInv'
<1>a. Flags /\ Phases /\ Counters /\ Tables
  BY TypesAre DEF IInv
<1>b. Texts'
  BY Written, TypesAre DEF IInv, PageReacts
<1>1. Flags'
  BY <1>a DEF Flags, Histories, PageReacts, StopReturns
<1>2. Phases'
  BY <1>a DEF Phases, StopReturns
<1>3. Counters'
  BY <1>a DEF Counters, StopReturns
<1>4. Tables'
  BY <1>a DEF Tables, StopReturns
<1>5. TypeOK'
  BY <1>b, <1>1, <1>2, <1>3, <1>4, TypesAre
<1>6. StartAgrees'
  BY DEF IInv, StartAgrees, StartPending, StopReturns
<1>7. LinkAgrees'
  BY DEF IInv, LinkAgrees, StartPending, LinkUp, StopReturns
<1>8. AttemptAgrees'
  BY DEF IInv, AttemptAgrees, StopReturns
<1>9. HubAgrees'
  BY DEF IInv, HubAgrees, PageReacts, Histories, StopReturns
<1>10. RaceAgrees'
  BY DEF IInv, RaceAgrees, PollLost, PageReacts, Histories, StopReturns
<1>11. StopAgrees'
  BY <1>a DEF IInv, Phases, StopAgrees, HubAgrees, LinkAgrees, PageReacts, Histories,
    StopReturns
<1>12. CallsAgree'
  BY DEF IInv, CallsAgree, StopReturns
<1>13. LabelAgrees'
  BY DEF IInv, LabelAgrees, PageReacts, Histories, Shows, StopReturns
<1> QED BY <1>5, <1>6, <1>7, <1>8, <1>9, <1>10, <1>11, <1>12, <1>13 DEF IInv

\* The queue hands its batch to the transport.
LEMMA TakeBatchKeeps ==
  ASSUME IInv, TakeBatch, UNCHANGED hubVars, PageReacts
  PROVE  IInv'
<1>a. Flags /\ Phases /\ Counters /\ Tables
  BY TypesAre DEF IInv
<1>b. Texts'
  BY Written, TypesAre DEF IInv, PageReacts
<1>1. Flags'
  BY <1>a DEF Flags, Histories, PageReacts, TakeBatch
<1>2. Phases'
  BY <1>a DEF Phases, TakeBatch
<1>3. Counters'
  BY <1>a DEF Counters, TakeBatch
<1>4. Tables'
  BY <1>a DEF Tables, TakeBatch, SendRefused, SocketSend, EventsSend, PollSend,
    SendBatch, Settle
<1>5. TypeOK'
  BY <1>b, <1>1, <1>2, <1>3, <1>4, TypesAre
<1>6. StartAgrees'
  BY DEF IInv, StartAgrees, StartPending, TakeBatch
<1>7. LinkAgrees'
  BY DEF IInv, LinkAgrees, StartPending, LinkUp, TakeBatch, SendRefused, SocketSend,
    EventsSend, PollSend, SendBatch
<1>8. AttemptAgrees'
  BY DEF IInv, AttemptAgrees, TakeBatch, SendRefused, SocketSend, EventsSend, PollSend,
    SendBatch
<1>9. HubAgrees'
  BY DEF IInv, HubAgrees, PageReacts, Histories, TakeBatch
<1>10. RaceAgrees'
  BY HubAssumption DEF IInv, RaceAgrees, PollLost, PageReacts, Histories, TakeBatch,
    SendRefused, SocketSend, EventsSend, PollSend, SendBatch, Settle
<1>11. StopAgrees'
  BY DEF IInv, StopAgrees, AttemptAgrees, PageReacts, Histories, TakeBatch,
    SendRefused, SocketSend, EventsSend, PollSend, SendBatch
<1>12. CallsAgree'
  BY HubAssumption DEF IInv, CallsAgree, TakeBatch, SendRefused, SocketSend,
    EventsSend, PollSend, SendBatch, Settle
<1>13. LabelAgrees'
  BY DEF IInv, LabelAgrees, PageReacts, Histories, Shows
<1> QED BY <1>5, <1>6, <1>7, <1>8, <1>9, <1>10, <1>11, <1>12, <1>13 DEF IInv

\* A negotiation is answered.
LEMMA NegotiationKeeps ==
  ASSUME IInv, Negotiation, PageReacts
  PROVE  IInv'
<1>a. Flags /\ Phases /\ Counters /\ Tables
  BY TypesAre DEF IInv
<1>b. Texts'
  BY Written, TypesAre DEF IInv, PageReacts
<1>1. Flags'
  BY <1>a DEF Flags, Histories, PageReacts, Negotiation, Negotiated, Renegotiated,
    StartFails
<1>2. Phases'
  BY <1>a, HttpAssumption DEF Phases, Negotiation, Negotiated, Renegotiated, StartFails
<1>3. Counters'
  <2>1. endpoints' \in Seq(Kinds)
    <3>1. \A offer \in Offers : offer # <<>> => Tail(offer) \in Seq(Kinds)
      BY HttpAssumption
    <3>2. \/ endpoints' = endpoints
          \/ \E offer \in Offers : offer # <<>> /\ endpoints' = Tail(offer)
      BY DEF Negotiation, Negotiated, Renegotiated, StartFails
    <3> QED BY <1>a, <3>1, <3>2 DEF Counters
  <2>2. retries' = retries
    BY DEF Negotiation
  <2>3. redirects' = redirects \/ (redirects + 1 # MaxRedirects /\ redirects' = redirects + 1)
    BY DEF Negotiation, Negotiated, Renegotiated, StartFails, NoMoreRedirects
  <2>4. redirects' \in 0 .. MaxRedirects - 1
    BY <1>a, <2>3, HttpAssumption DEF Counters
  <2> QED BY <1>a, <2>1, <2>2, <2>4 DEF Counters
<1>4. Tables'
  BY <1>a DEF Tables, Negotiation, Negotiated, Renegotiated, StartFails
<1>5. TypeOK'
  BY <1>b, <1>1, <1>2, <1>3, <1>4, TypesAre
<1>6. StartAgrees'
  BY DEF IInv, StartAgrees, StartPending, Negotiation, Negotiated, Renegotiated,
    StartFails
<1>7. LinkAgrees'
  BY DEF IInv, LinkAgrees, StartAgrees, AttemptAgrees, StartPending, Negotiation,
    Negotiated, Renegotiated, StartFails
<1>8. AttemptAgrees'
  BY DEF IInv, AttemptAgrees, Negotiation, Negotiated, Renegotiated, StartFails
<1>9. HubAgrees'
  BY DEF IInv, HubAgrees, PageReacts, Histories, Negotiation, Negotiated, Renegotiated,
    StartFails
<1>10. RaceAgrees'
  BY DEF IInv, RaceAgrees, AttemptAgrees, StartAgrees, PollLost, Negotiation,
    Negotiated, Renegotiated, StartFails
<1>11. StopAgrees'
  BY <1>a DEF IInv, Phases, StopAgrees, HubAgrees, AttemptAgrees, PageReacts, Histories,
    Negotiation, Negotiated, Renegotiated, StartFails
<1>12. CallsAgree'
  BY DEF IInv, CallsAgree, Negotiation, Negotiated, Renegotiated, StartFails
<1>13. LabelAgrees'
  BY DEF IInv, LabelAgrees, PageReacts, Histories, Shows, Negotiation
<1> QED BY <1>5, <1>6, <1>7, <1>8, <1>9, <1>10, <1>11, <1>12, <1>13 DEF IInv

\* A transport connects or does not.
LEMMA ConnectingKeeps ==
  ASSUME IInv, Connecting, PageReacts
  PROVE  IInv'
<1>a. Flags /\ Phases /\ Counters /\ Tables
  BY TypesAre DEF IInv
<1>b. Texts'
  BY Written, TypesAre DEF IInv, PageReacts
<1>1. Flags'
  BY <1>a DEF Flags, Histories, PageReacts, Connecting, SocketOpens, EventsOpen,
    FirstPoll, Up, FirstPollEnds, TransportFails, StartFails
<1>2. Phases'
  <2>1. CASE UNCHANGED <<transport, hubVars>>
    BY <1>a, <2>1 DEF Phases, Kinds, Connecting, SocketOpens, EventsOpen, FirstPoll, Up,
       FirstPollEnds, TransportFails, StartFails
  <2>2. CASE transport' = None
    BY <1>a, <2>2 DEF Phases, Kinds, Connecting, SocketOpens, EventsOpen, FirstPoll, Up,
       FirstPollEnds, TransportFails, StartFails
  <2>3. CASE endpoints # <<>> /\ transport' = Head(endpoints)
    <3>1. Head(endpoints) \in Kinds
      BY <1>a, <2>3 DEF Counters
    <3>2. transport' \in Kinds \cup {None}
      BY <2>3, <3>1
    <3> QED BY <1>a, <3>2 DEF Phases, Connecting, SocketOpens, EventsOpen, FirstPoll, Up,
               FirstPollEnds, TransportFails, StartFails
  <2> QED BY <2>1, <2>2, <2>3 DEF Connecting, SocketOpens, EventsOpen, FirstPoll, Up,
             FirstPollEnds, TransportFails, StartFails
<1>3. Counters'
  BY <1>a, HttpAssumption DEF Counters, Connecting, SocketOpens, EventsOpen, FirstPoll,
    Up, FirstPollEnds, TransportFails, StartFails
<1>4. Tables'
  BY <1>a DEF Tables, Connecting, SocketOpens, EventsOpen, FirstPoll, Up,
    FirstPollEnds, TransportFails, StartFails
<1>5. TypeOK'
  BY <1>b, <1>1, <1>2, <1>3, <1>4, TypesAre
<1>6. StartAgrees'
  BY DEF IInv, StartAgrees, StartPending, Connecting, SocketOpens, EventsOpen,
    FirstPoll, Up, FirstPollEnds, TransportFails, StartFails
<1>7. LinkAgrees'
  BY DEF IInv, LinkAgrees, StartAgrees, AttemptAgrees, StartPending, LinkUp,
    Connecting, SocketOpens, EventsOpen, FirstPoll, Up, FirstPollEnds, TransportFails,
    StartFails
<1>8. AttemptAgrees'
  BY DEF IInv, AttemptAgrees, Connecting, SocketOpens, EventsOpen, FirstPoll, Up,
    FirstPollEnds, TransportFails, StartFails
<1>9. HubAgrees'
  BY DEF IInv, HubAgrees, PageReacts, Histories, Connecting, SocketOpens, EventsOpen,
    FirstPoll, Up, FirstPollEnds, TransportFails, StartFails
<1>10. RaceAgrees'
  BY DEF IInv, RaceAgrees, AttemptAgrees, StartAgrees, PollLost, Connecting,
    SocketOpens, EventsOpen, FirstPoll, Up, FirstPollEnds, TransportFails, StartFails
<1>11. StopAgrees'
  BY <1>a DEF IInv, Phases, StopAgrees, HubAgrees, AttemptAgrees, PageReacts, Histories,
    Connecting, SocketOpens, EventsOpen, FirstPoll, Up, FirstPollEnds, TransportFails,
    StartFails
<1>12. CallsAgree'
  BY DEF IInv, CallsAgree, Connecting, SocketOpens, EventsOpen, FirstPoll, Up,
    FirstPollEnds, TransportFails, StartFails
<1>13. LabelAgrees'
  BY DEF IInv, LabelAgrees, PageReacts, Histories, Shows, Connecting
<1> QED BY <1>5, <1>6, <1>7, <1>8, <1>9, <1>10, <1>11, <1>12, <1>13 DEF IInv

\* A post returns.
LEMMA PostingKeeps ==
  ASSUME IInv, Posting, PageReacts
  PROVE  IInv'
<1>a. Flags /\ Phases /\ Counters /\ Tables
  BY TypesAre DEF IInv
<1>b. Texts'
  BY Written, TypesAre DEF IInv, PageReacts
<1>1. Flags'
  BY <1>a DEF Flags, Histories, PageReacts, Posting, BatchPosted
<1>2. Phases'
  BY <1>a DEF Phases, Posting, BatchPosted
<1>3. Counters'
  BY <1>a DEF Counters, Posting, BatchPosted
<1>4. Tables'
  BY <1>a DEF Tables, Posting, BatchPosted, PostReturns, OrphanReturns, Settle
<1>5. TypeOK'
  BY <1>b, <1>1, <1>2, <1>3, <1>4, TypesAre
<1>6. StartAgrees'
  BY DEF IInv, StartAgrees, StartPending, Posting, BatchPosted
<1>7. LinkAgrees'
  BY DEF IInv, LinkAgrees, StartPending, LinkUp, Posting, BatchPosted, PostReturns,
    OrphanReturns
<1>8. AttemptAgrees'
  BY DEF IInv, AttemptAgrees, Posting, BatchPosted, PostReturns, OrphanReturns
<1>9. HubAgrees'
  BY DEF IInv, HubAgrees, PageReacts, Histories, Posting, BatchPosted
<1>10. RaceAgrees'
  BY DEF IInv, RaceAgrees, StartAgrees, PollLost, StartPending, PageReacts, Histories,
    Posting, BatchPosted, Task, Ready, StopGoesOn
<1>11. StopAgrees'
  BY <1>a DEF IInv, Phases, StopAgrees, HubAgrees, PageReacts, Histories, Posting,
    BatchPosted
<1>12. CallsAgree'
  BY DEF IInv, CallsAgree, Posting, BatchPosted, PostReturns, OrphanReturns, Task,
    Ready
<1>13. LabelAgrees'
  BY DEF IInv, LabelAgrees, PageReacts, Histories, Shows, Posting
<1> QED BY <1>5, <1>6, <1>7, <1>8, <1>9, <1>10, <1>11, <1>12, <1>13 DEF IInv

\* The server completes a call.
LEMMA CompletionKeeps ==
  ASSUME IInv, NEW c \in Invocations, NEW r \in {"done", "failed"}, Arrives, sent[c] = "ok" \/ c \in posting, Completed(c, r),
         PageReacts
  PROVE  IInv'
<1>a. Flags /\ Phases /\ Counters /\ Tables
  BY TypesAre DEF IInv
<1>b. Texts'
  BY Written, TypesAre DEF IInv, PageReacts
<1>1. Flags'
  BY <1>a DEF Flags, Histories, PageReacts, Arrives, Completed, ResetTimeoutPeriod
<1>2. Phases'
  BY <1>a DEF Phases, Arrives, Completed
<1>3. Counters'
  BY <1>a DEF Counters, Arrives
<1>4. Tables'
  BY <1>a DEF Tables, Completed
<1>5. TypeOK'
  BY <1>b, <1>1, <1>2, <1>3, <1>4, TypesAre
<1>6. StartAgrees'
  BY DEF IInv, StartAgrees, StartPending, Arrives, Completed
<1>7. LinkAgrees'
  BY DEF IInv, LinkAgrees, StartPending, LinkUp, Arrives, Completed
<1>8. AttemptAgrees'
  BY <1>a DEF IInv, Phases, AttemptAgrees, StartAgrees, LinkAgrees, LinkUp, Arrives,
    Completed, Task, Ready, StopGoesOn
<1>9. HubAgrees'
  BY DEF IInv, HubAgrees, PageReacts, Histories, Arrives, Completed
<1>10. RaceAgrees'
  BY DEF IInv, RaceAgrees, PollLost, PageReacts, Histories, Arrives, Completed
<1>11. StopAgrees'
  BY <1>a DEF IInv, Phases, StopAgrees, HubAgrees, PageReacts, Histories, Arrives,
    Completed
<1>12. CallsAgree'
  BY DEF IInv, CallsAgree, Arrives, Completed
<1>13. LabelAgrees'
  BY DEF IInv, LabelAgrees, PageReacts, Histories, Shows, Arrives, Completed
<1> QED BY <1>5, <1>6, <1>7, <1>8, <1>9, <1>10, <1>11, <1>12, <1>13 DEF IInv

\* The server closes the hub.
LEMMA ClosedForGoodKeeps ==
  ASSUME IInv, Arrives, StopInternal, UNCHANGED calls, PageReacts
  PROVE  IInv'
<1>a. Flags /\ Phases /\ Counters /\ Tables
  BY TypesAre DEF IInv
<1>b. Texts'
  BY Written, TypesAre DEF IInv, PageReacts
<1>1. Flags'
  BY <1>a DEF Flags, Histories, PageReacts, Arrives, ResetTimeoutPeriod, StopInternal,
    StopInDelay
<1>2. Phases'
  BY <1>a DEF Phases, Arrives, StopInternal, StopInDelay, HttpStop
<1>3. Counters'
  BY <1>a DEF Counters, Arrives
<1>4. Tables'
  BY <1>a, HubAssumption DEF Tables, StopInternal, StopInDelay, Send, Enqueue, Settle
<1>5. TypeOK'
  BY <1>b, <1>1, <1>2, <1>3, <1>4, TypesAre
<1>6. StartAgrees'
  BY DEF IInv, StartAgrees, StartPending, Arrives, StopInternal, StopInDelay, HttpStop
<1>7. LinkAgrees'
  BY DEF IInv, LinkAgrees, StartPending, LinkUp, Arrives, StopInternal, StopInDelay,
    HttpStop
<1>8. AttemptAgrees'
  BY <1>a DEF IInv, Phases, AttemptAgrees, StartAgrees, LinkAgrees, LinkUp, Arrives,
    StopInternal, StopInDelay, HttpStop, Task, Ready, StopGoesOn
<1>9. HubAgrees'
  BY <1>a DEF IInv, Phases, HubAgrees, Arrives, StopInternal, StopInDelay
<1>10. RaceAgrees'
  BY DEF IInv, RaceAgrees, StartAgrees, LinkAgrees, HubAgrees, PollLost, PageReacts,
    Histories, Arrives, StopInternal, HttpStop, Task, Ready
<1>11. StopAgrees'
  BY <1>a DEF IInv, Phases, StopAgrees, HubAgrees, StartAgrees, PageReacts, Histories,
    Arrives, StopInternal, StopInDelay, HttpStop
<1>12. CallsAgree'
  BY HubAssumption DEF IInv, CallsAgree, Arrives, StopInternal, StopInDelay, Send,
    Enqueue, Settle
<1>13. LabelAgrees'
  BY DEF IInv, LabelAgrees, PageReacts, Histories, Shows, Arrives, StopInternal
<1> QED BY <1>5, <1>6, <1>7, <1>8, <1>9, <1>10, <1>11, <1>12, <1>13 DEF IInv

\* The server closes the connection only.
LEMMA ClosedForNowKeeps ==
  ASSUME IInv, Arrives, HttpStop, UNCHANGED <<closeVars, loopVars, stopErr, calls, queueVars>>,
         PageReacts
  PROVE  IInv'
<1>a. Flags /\ Phases /\ Counters /\ Tables
  BY TypesAre DEF IInv
<1>b. Texts'
  BY Written, TypesAre DEF IInv, PageReacts
<1>1. Flags'
  BY <1>a DEF Flags, Histories, PageReacts, Arrives, ResetTimeoutPeriod
<1>2. Phases'
  BY <1>a DEF Phases, Arrives, HttpStop
<1>3. Counters'
  BY <1>a DEF Counters, Arrives
<1>4. Tables'
  BY <1>a DEF Tables
<1>5. TypeOK'
  BY <1>b, <1>1, <1>2, <1>3, <1>4, TypesAre
<1>6. StartAgrees'
  BY DEF IInv, StartAgrees, StartPending, Arrives, HttpStop
<1>7. LinkAgrees'
  BY DEF IInv, LinkAgrees, StartPending, LinkUp, Arrives, HttpStop
<1>8. AttemptAgrees'
  BY <1>a DEF IInv, Phases, AttemptAgrees, StartAgrees, LinkAgrees, LinkUp, Arrives,
    HttpStop, Task, Ready, StopGoesOn
<1>9. HubAgrees'
  BY DEF IInv, HubAgrees, PageReacts, Histories, Arrives, HttpStop
<1>10. RaceAgrees'
  BY DEF IInv, RaceAgrees, PollLost, PageReacts, Histories, Arrives, HttpStop
<1>11. StopAgrees'
  BY <1>a DEF IInv, Phases, StopAgrees, HubAgrees, PageReacts, Histories, Arrives,
    HttpStop
<1>12. CallsAgree'
  BY DEF IInv, CallsAgree, Arrives
<1>13. LabelAgrees'
  BY DEF IInv, LabelAgrees, PageReacts, Histories, Shows, Arrives
<1> QED BY <1>5, <1>6, <1>7, <1>8, <1>9, <1>10, <1>11, <1>12, <1>13 DEF IInv

\* Anything else arrives.
LEMMA OtherArrivesKeeps ==
  ASSUME IInv, Arrives, UNCHANGED <<closeVars, loopVars, stopErr, calls, httpState, stopVars, queueVars>>,
         PageReacts
  PROVE  IInv'
<1>a. Flags /\ Phases /\ Counters /\ Tables
  BY TypesAre DEF IInv
<1>b. Texts'
  BY Written, TypesAre DEF IInv, PageReacts
<1>1. Flags'
  BY <1>a DEF Flags, Histories, PageReacts, Arrives, ResetTimeoutPeriod
<1>2. Phases'
  BY <1>a DEF Phases, Arrives
<1>3. Counters'
  BY <1>a DEF Counters, Arrives
<1>4. Tables'
  BY <1>a DEF Tables
<1>5. TypeOK'
  BY <1>b, <1>1, <1>2, <1>3, <1>4, TypesAre
<1>6. StartAgrees'
  BY DEF IInv, StartAgrees, StartPending, Arrives
<1>7. LinkAgrees'
  BY DEF IInv, LinkAgrees, StartPending, LinkUp, Arrives
<1>8. AttemptAgrees'
  BY <1>a DEF IInv, Phases, AttemptAgrees, StartAgrees, LinkAgrees, LinkUp, Arrives,
    Task, Ready, StopGoesOn
<1>9. HubAgrees'
  BY DEF IInv, HubAgrees, PageReacts, Histories, Arrives
<1>10. RaceAgrees'
  BY DEF IInv, RaceAgrees, PollLost, PageReacts, Histories, Arrives
<1>11. StopAgrees'
  BY <1>a DEF IInv, Phases, StopAgrees, HubAgrees, PageReacts, Histories, Arrives
<1>12. CallsAgree'
  BY DEF IInv, CallsAgree, Arrives
<1>13. LabelAgrees'
  BY DEF IInv, LabelAgrees, PageReacts, Histories, Shows, Arrives
<1> QED BY <1>5, <1>6, <1>7, <1>8, <1>9, <1>10, <1>11, <1>12, <1>13 DEF IInv

\* The link falls silent.
LEMMA LinkDiesKeeps ==
  ASSUME IInv, Task, LinkDies, UNCHANGED hubVars, PageReacts
  PROVE  IInv'
<1>a. Flags /\ Phases /\ Counters /\ Tables
  BY TypesAre DEF IInv
<1>b. Texts'
  BY Written, TypesAre DEF IInv, PageReacts
<1>1. Flags'
  BY <1>a DEF Flags, Histories, PageReacts, LinkDies
<1>2. Phases'
  BY <1>a DEF Phases, LinkDies
<1>3. Counters'
  BY <1>a DEF Counters, LinkDies
<1>4. Tables'
  BY <1>a DEF Tables, LinkDies
<1>5. TypeOK'
  BY <1>b, <1>1, <1>2, <1>3, <1>4, TypesAre
<1>6. StartAgrees'
  BY DEF IInv, StartAgrees, StartPending, LinkDies
<1>7. LinkAgrees'
  BY DEF IInv, LinkAgrees, LinkUp, StartPending, LinkDies
<1>8. AttemptAgrees'
  BY DEF IInv, AttemptAgrees, LinkDies
<1>9. HubAgrees'
  BY DEF IInv, HubAgrees, PageReacts, Histories, LinkDies
<1>10. RaceAgrees'
  BY DEF IInv, RaceAgrees, PollLost, PageReacts, Histories, LinkDies
<1>11. StopAgrees'
  BY <1>a DEF IInv, Phases, StopAgrees, HubAgrees, PageReacts, Histories, LinkDies
<1>12. CallsAgree'
  BY DEF IInv, CallsAgree, LinkDies
<1>13. LabelAgrees'
  BY DEF IInv, LabelAgrees, PageReacts, Histories, Shows
<1> QED BY <1>5, <1>6, <1>7, <1>8, <1>9, <1>10, <1>11, <1>12, <1>13 DEF IInv

\* The server was silent for too long.
LEMMA ServerTimeoutKeeps ==
  ASSUME IInv, ServerTimeout, PageReacts
  PROVE  IInv'
<1>a. Flags /\ Phases /\ Counters /\ Tables
  BY TypesAre DEF IInv
<1>b. Texts'
  BY Written, TypesAre DEF IInv, PageReacts
<1>1. Flags'
  BY <1>a DEF Flags, Histories, PageReacts, ServerTimeout
<1>2. Phases'
  BY <1>a DEF Phases, ServerTimeout, HttpStop
<1>3. Counters'
  BY <1>a DEF Counters, ServerTimeout
<1>4. Tables'
  BY <1>a DEF Tables, ServerTimeout
<1>5. TypeOK'
  BY <1>b, <1>1, <1>2, <1>3, <1>4, TypesAre
<1>6. StartAgrees'
  BY DEF IInv, StartAgrees, StartPending, ServerTimeout, HttpStop
<1>7. LinkAgrees'
  BY DEF IInv, LinkAgrees, StartPending, LinkUp, ServerTimeout, HttpStop
<1>8. AttemptAgrees'
  BY DEF IInv, AttemptAgrees, ServerTimeout, HttpStop
<1>9. HubAgrees'
  BY DEF IInv, HubAgrees, PageReacts, Histories, ServerTimeout, HttpStop
<1>10. RaceAgrees'
  BY DEF IInv, RaceAgrees, PollLost, PageReacts, Histories, ServerTimeout, HttpStop
<1>11. StopAgrees'
  BY DEF IInv, StopAgrees, AttemptAgrees, PageReacts, Histories, ServerTimeout,
    HttpStop
<1>12. CallsAgree'
  BY DEF IInv, CallsAgree, ServerTimeout
<1>13. LabelAgrees'
  BY DEF IInv, LabelAgrees, PageReacts, Histories, Shows, ServerTimeout
<1> QED BY <1>5, <1>6, <1>7, <1>8, <1>9, <1>10, <1>11, <1>12, <1>13 DEF IInv

\* The reconnect loop starts an attempt.
LEMMA DelayElapsesKeeps ==
  ASSUME IInv, DelayElapses, PageReacts
  PROVE  IInv'
<1>a. Flags /\ Phases /\ Counters /\ Tables
  BY TypesAre DEF IInv
<1>b. Texts'
  BY Written, TypesAre DEF IInv, PageReacts
<1>1. Flags'
  BY <1>a DEF Flags, Histories, PageReacts, DelayElapses, BeginAttempt, HttpStart
<1>2. Phases'
  BY <1>a DEF Phases, DelayElapses, BeginAttempt, HttpStart
<1>3. Counters'
  BY <1>a, HttpAssumption DEF Counters, DelayElapses, BeginAttempt, HttpStart
<1>4. Tables'
  BY <1>a DEF Tables, DelayElapses, BeginAttempt, HttpStart
<1>5. TypeOK'
  BY <1>b, <1>1, <1>2, <1>3, <1>4, TypesAre
<1>6. StartAgrees'
  BY DEF IInv, StartAgrees, LinkAgrees, StartPending, DelayElapses, BeginAttempt,
    HttpStart
<1>7. LinkAgrees'
  BY DEF IInv, LinkAgrees, StartAgrees, DelayElapses, BeginAttempt, HttpStart, Task,
    Ready, StopGoesOn
<1>8. AttemptAgrees'
  BY DEF IInv, AttemptAgrees, LinkAgrees, DelayElapses, BeginAttempt, HttpStart, Task,
    Ready
<1>9. HubAgrees'
  BY DEF IInv, HubAgrees, DelayElapses, BeginAttempt
<1>10. RaceAgrees'
  BY DEF IInv, RaceAgrees, HubAgrees, PollLost, DelayElapses, BeginAttempt, HttpStart
<1>11. StopAgrees'
  BY DEF IInv, StopAgrees, HubAgrees, DelayElapses
<1>12. CallsAgree'
  BY DEF IInv, CallsAgree, DelayElapses, BeginAttempt, HttpStart
<1>13. LabelAgrees'
  BY DEF IInv, LabelAgrees, PageReacts, Shows, DelayElapses
<1> QED BY <1>5, <1>6, <1>7, <1>8, <1>9, <1>10, <1>11, <1>12, <1>13 DEF IInv

\* The script calls start().
LEMMA StartKeeps ==
  ASSUME IInv, Start, PageReacts
  PROVE  IInv'
<1>a. Flags /\ Phases /\ Counters /\ Tables
  BY TypesAre DEF IInv
<1>b. Texts'
  BY Written, TypesAre DEF IInv, PageReacts
<1>1. Flags'
  BY <1>a DEF Flags, Histories, PageReacts, Start, BeginAttempt, HttpStart
<1>2. Phases'
  BY <1>a DEF Phases, Start, BeginAttempt, HttpStart
<1>3. Counters'
  BY <1>a, HttpAssumption DEF Counters, Start, BeginAttempt, HttpStart
<1>4. Tables'
  BY <1>a DEF Tables, Start, BeginAttempt, HttpStart
<1>5. TypeOK'
  BY <1>b, <1>1, <1>2, <1>3, <1>4, TypesAre
<1>6. StartAgrees'
  BY DEF IInv, StartAgrees, LinkAgrees, StartPending, Start, BeginAttempt, HttpStart
<1>7. LinkAgrees'
  BY DEF IInv, LinkAgrees, StartAgrees, Start, BeginAttempt, HttpStart, Task, Ready,
    StopGoesOn
<1>8. AttemptAgrees'
  BY DEF IInv, AttemptAgrees, LinkAgrees, Start, BeginAttempt, HttpStart, Task, Ready
<1>9. HubAgrees'
  BY DEF IInv, HubAgrees, Start, BeginAttempt
<1>10. RaceAgrees'
  BY DEF IInv, RaceAgrees, HubAgrees, PollLost, Start, BeginAttempt, HttpStart
<1>11. StopAgrees'
  BY DEF StopAgrees, Start
<1>12. CallsAgree'
  BY DEF IInv, CallsAgree, Start, BeginAttempt, HttpStart
<1>13. LabelAgrees'
  BY DEF IInv, LabelAgrees, PageReacts, Shows, Start
<1> QED BY <1>5, <1>6, <1>7, <1>8, <1>9, <1>10, <1>11, <1>12, <1>13 DEF IInv

\* The script calls stop().
LEMMA StopKeeps ==
  ASSUME IInv, Stop, PageReacts
  PROVE  IInv'
<1>a. Flags /\ Phases /\ Counters /\ Tables
  BY TypesAre DEF IInv
<1>b. Texts'
  BY Written, TypesAre DEF IInv, PageReacts
<1>1. Flags'
  BY <1>a DEF Flags, Histories, PageReacts, Stop, StopInternal, StopInDelay
<1>2. Phases'
  BY <1>a DEF Phases, Stop, StopInternal, StopInDelay, HttpStop
<1>3. Counters'
  BY <1>a DEF Counters, Stop, StopInternal, StopInDelay
<1>4. Tables'
  BY <1>a, HubAssumption DEF Tables, Stop, StopInternal, StopInDelay, Send, Enqueue,
    Settle
<1>5. TypeOK'
  BY <1>b, <1>1, <1>2, <1>3, <1>4, TypesAre
<1>6. StartAgrees'
  BY DEF IInv, StartAgrees, StartPending, Stop, StopInternal, StopInDelay, HttpStop
<1>7. LinkAgrees'
  BY DEF IInv, LinkAgrees, StartPending, LinkUp, Stop, StopInternal, StopInDelay,
    HttpStop, Send
<1>8. AttemptAgrees'
  BY DEF IInv, AttemptAgrees, StartAgrees, Stop, StopInternal, StopInDelay, HttpStop,
    Send, Task, Ready
<1>9. HubAgrees'
  BY <1>a DEF IInv, Phases, HubAgrees, Stop, StopInternal, StopInDelay
<1>10. RaceAgrees'
  <2>1. attempt' = attempt /\ inherentKeepAlive' = inherentKeepAlive
    BY DEF Stop
  <2>2. /\ hubState # "Connected" => UNCHANGED queueVars
        /\ httpStarted' = httpStarted /\ transport' = transport
        /\ hubState = "Connected" => attempt = None /\ (httpStarted \/ Raced)
    BY <1>a DEF Stop, StopInternal, StopInDelay, IInv, HubAgrees
  <2>8. stopping' \in {stopping, "awaitStart"}
    BY DEF Stop, StopInternal, StopInDelay, HttpStop
  <2>9. ASSUME ~stopErr, stopErr', httpState = "Connected" PROVE stopping' = "awaitStart"
    BY <2>9, <1>a DEF Stop, StopInternal, StopInDelay, HttpStop, Flags
  <2>3. attempt \in {"ping", "up"} /\ stopErr' => Raced'
    BY <1>a, <2>1 DEF IInv, RaceAgrees, PageReacts, Histories, Flags
  <2>4. ASSUME attempt = "up", stopErr' PROVE ~httpStarted
    BY <1>a, <2>4, <2>1 DEF Stop, Task, Ready
  <2>5. ASSUME attempt = "ping", stopErr', httpStarted
        PROVE  /\ sent'["ping"] = "pending" /\ stopping' = "awaitStart"
               /\ buffer' = {} \/ posting' # {}
    <3>1. hubState # "Connected" /\ UNCHANGED queueVars
      BY <1>a, <2>2, <2>5
    <3>2. sent["ping"] = "pending" /\ (buffer = {} \/ posting # {})
      BY <2>5 DEF Stop, Task, Ready
    <3>3. httpState \in {"Connected", "Disconnecting"}
      BY <2>5 DEF IInv, StartAgrees
    <3>4. stopErr => stopping' = "awaitStart"
      BY <2>5, <2>8 DEF IInv, RaceAgrees
    <3>5. ASSUME ~stopErr PROVE stopping' = "awaitStart"
      <4>1. ~inherentKeepAlive /\ transport # None
        BY <2>5 DEF IInv, RaceAgrees, PollLost
      <4>2. httpState = "Disconnecting" => stopping = "awaitStart"
        BY <2>5, <4>1 DEF IInv, LinkAgrees
      <4> QED BY <2>5, <2>8, <2>9, <3>3, <3>5, <4>2
    <3> QED BY <3>1, <3>2, <3>4, <3>5
  <2>6. PollLost' => PollLost
    BY <2>2 DEF PollLost
  <2>7. ASSUME PollLost
        PROVE  \/ attempt' = "abort"
               \/ attempt' = "greet" /\ sent'["handshake"] = "failed"
               \/ attempt' = "greet" /\ sent'["handshake"] = "pending" /\ "handshake" \in buffer'
                  /\ posting' = {}
    <3>1. attempt = "abort" \/ (attempt = "greet" /\ UNCHANGED queueVars)
      BY <2>2, <2>7 DEF IInv, RaceAgrees
    <3> QED BY <2>1, <2>7, <3>1 DEF IInv, RaceAgrees
  <2>10. InPing' /\ hubState' \in {"Disconnecting", "Disconnected"} => stoppedInPing'
    BY <1>a, <2>1 DEF IInv, RaceAgrees, HubAgrees, PageReacts, Histories, Stop, StopInternal,
       StopInDelay
  <2> QED BY <1>a, <2>1, <2>2, <2>3, <2>4, <2>5, <2>6, <2>7, <2>10 DEF RaceAgrees, IInv
<1>11. StopAgrees'
  BY <1>a DEF IInv, Phases, StopAgrees, HubAgrees, StartAgrees, PageReacts, Histories,
    Stop, StopInternal, StopInDelay, HttpStop
<1>12. CallsAgree'
  BY HubAssumption DEF IInv, CallsAgree, Stop, StopInternal, StopInDelay, Send,
    Enqueue, Task, Ready
<1>13. LabelAgrees'
  BY DEF IInv, LabelAgrees, PageReacts, Histories, Shows, Stop, StopInternal
<1> QED BY <1>5, <1>6, <1>7, <1>8, <1>9, <1>10, <1>11, <1>12, <1>13 DEF IInv

\* The script calls invoke().
LEMMA CallKeeps ==
  ASSUME IInv, NEW c \in Invocations, Call(c), PageReacts
  PROVE  IInv'
<1>a. Flags /\ Phases /\ Counters /\ Tables
  BY TypesAre DEF IInv
<1>b. Texts'
  BY Written, TypesAre DEF IInv, PageReacts
<1>1. Flags'
  BY <1>a DEF Flags, Histories, PageReacts, Call
<1>2. Phases'
  BY <1>a DEF Phases, Call
<1>3. Counters'
  BY <1>a DEF Counters, Call
<1>4. Tables'
  BY <1>a, HubAssumption DEF Tables, Call, Send, Enqueue, Settle
<1>5. TypeOK'
  BY <1>b, <1>1, <1>2, <1>3, <1>4, TypesAre
<1>6. StartAgrees'
  BY DEF IInv, StartAgrees, StartPending, Call
<1>7. LinkAgrees'
  BY DEF IInv, LinkAgrees, StartPending, LinkUp, Call, Send
<1>8. AttemptAgrees'
  BY DEF IInv, AttemptAgrees, StartAgrees, Call, Send, Task, Ready
<1>9. HubAgrees'
  BY DEF IInv, HubAgrees, PageReacts, Histories, Call
<1>10. RaceAgrees'
  BY HubAssumption DEF IInv, RaceAgrees, LinkAgrees, PollLost, PageReacts, Histories,
    Call, Send, Settle, Task, Ready
<1>11. StopAgrees'
  BY <1>a DEF IInv, Phases, StopAgrees, HubAgrees, PageReacts, Histories, Call
<1>12. CallsAgree'
  BY <1>a, HubAssumption DEF IInv, Tables, CallsAgree, StartAgrees, Call, Send,
    Enqueue, Settle, Task, Ready
<1>13. LabelAgrees'
  BY DEF IInv, LabelAgrees, PageReacts, Histories, Shows, Call
<1> QED BY <1>5, <1>6, <1>7, <1>8, <1>9, <1>10, <1>11, <1>12, <1>13 DEF IInv

\* Nothing happens: the histories look at the next state too, but find nothing.
LEMMA StutterKeeps ==
  ASSUME IInv, UNCHANGED vars
  PROVE  IInv'
<1>1. TypeOK'
  <2>1. Flags /\ Phases /\ Counters /\ Tables /\ Texts
    BY TypesAre DEF IInv
  <2>2. Flags' /\ Texts'
    BY <2>1 DEF Flags, Texts, vars, clientVars, pageVars
  <2>3. Phases'
    BY <2>1 DEF Phases, vars, clientVars
  <2>4. Counters' /\ Tables'
    BY <2>1 DEF Counters, Tables, vars, clientVars
  <2> QED BY <2>2, <2>3, <2>4, TypesAre
<1>2. StartAgrees' /\ LinkAgrees' /\ AttemptAgrees'
  BY DEF IInv, StartAgrees, LinkAgrees, AttemptAgrees, StartPending, LinkUp, vars, clientVars
<1>3. HubAgrees'
  BY DEF IInv, HubAgrees, vars, clientVars, pageVars
<1>4. RaceAgrees'
  BY DEF IInv, RaceAgrees, PollLost, vars, clientVars, pageVars
<1>5. StopAgrees'
  BY DEF IInv, StopAgrees, vars, clientVars, pageVars
<1>6. CallsAgree'
  BY DEF IInv, CallsAgree, vars, clientVars
<1>7. LabelAgrees'
  BY DEF IInv, LabelAgrees, vars, clientVars, pageVars
<1> QED BY <1>1, <1>2, <1>3, <1>4, <1>5, <1>6, <1>7 DEF IInv

\* A continuation keeps the invariant.
LEMMA ContinueKeeps ==
  ASSUME IInv, Continue, PageReacts
  PROVE  IInv'
<1>1. CASE Greet \/ ConnectFails \/ (StartWaits /\ UNCHANGED hubVars)
  BY <1>1, GreetKeeps, ConnectFailsKeeps, StartWaitsKeeps
<1>2. CASE AwaitHandshake
  <2>1. CASE sent["handshake"] = "ok"
    BY <1>2, <2>1, SentKeeps
  <2>2. CASE sent["handshake"] # "ok"
    <3>1. attempt = "greet" /\ AbortAttempt /\ UNCHANGED queueVars
      BY <1>2, <2>2, Zenon DEF AwaitHandshake
    <3> QED BY <3>1, AbortKeeps
  <2> QED BY <2>1, <2>2
<1>3. CASE Ping
  <2>1. CASE ~(shake = "rejected" \/ stopErr)
    BY <1>3, <2>1, ShakenKeeps
  <2>2. CASE shake = "rejected" \/ stopErr
    <3>1. attempt = "handshake" /\ AbortAttempt /\ UNCHANGED queueVars
      BY <1>3, <2>2 DEF Ping
    <3> QED BY <3>1, AbortKeeps
  <2> QED BY <2>1, <2>2
<1>4. CASE Pinged
  <2>1. CASE sent["ping"] = "ok"
    BY <1>4, <2>1, ReachedKeeps
  <2>2. CASE sent["ping"] # "ok"
    <3>1. attempt = "ping" /\ AbortAttempt /\ UNCHANGED queueVars
      BY <1>4, <2>2, Zenon DEF Pinged
    <3> QED BY <3>1, AbortKeeps
  <2> QED BY <2>1, <2>2
<1>5. CASE Aborted \/ StartReturns \/ AttemptReturns
  BY <1>5, AbortedKeeps, StartReturnsKeeps, AttemptReturnsKeeps
<1>6. CASE StopTransport
  <2>1. CASE SocketStops \/ EventsStop
    <3>1. /\ ConnectionDown("resolved") /\ stopping' = None
          /\ ~StartPending
      BY <2>1 DEF SocketStops, EventsStop, StopGoesOn
    <3> QED BY <3>1, DownKeeps
  <2>2. CASE (StopPolling \/ StopNothing) /\ UNCHANGED hubVars
    BY <2>2, StopPollingKeeps, StopNothingKeeps
  <2> QED BY <1>6, <2>1, <2>2 DEF StopTransport
<1>7. CASE StopReturns \/ (TakeBatch /\ UNCHANGED hubVars)
  BY <1>7, StopReturnsKeeps, TakeBatchKeeps
<1>8. CASE \E c \in Invocations : CallFails(c)
  BY <1>8, CallFailsKeeps
<1> QED BY <1>1, <1>2, <1>3, <1>4, <1>5, <1>6, <1>7, <1>8 DEF Continue

\* What arrives keeps the invariant.
LEMMA ArrivalKeeps ==
  ASSUME IInv, ProcessIncomingData, PageReacts
  PROVE  IInv'
<1>1. Arrives
  BY DEF ProcessIncomingData, Arrives
<1>2. PICK m \in Messages : CanArrive(m) /\ Received(m)
  BY DEF ProcessIncomingData
<1>3. CASE m.type = "Completion"
  <2>1. m.call \in Invocations /\ m.result \in {"done", "failed"}
    BY <1>3 DEF Messages
  <2>2. Completed(m.call, m.result) /\ (sent[m.call] = "ok" \/ m.call \in posting)
    BY <1>2, <1>3 DEF Received, CanArrive, Completed
  <2> QED BY <1>1, <2>1, <2>2, CompletionKeeps
<1>4. CASE m.type = "CloseForGood"
  BY <1>1, <1>2, <1>4, ClosedForGoodKeeps DEF Received
<1>5. CASE m.type = "CloseAndReconnect"
  BY <1>1, <1>2, <1>5, ClosedForNowKeeps DEF Received
<1>6. CASE m.type = "Other"
  BY <1>1, <1>2, <1>6, OtherArrivesKeeps DEF Received
<1> QED BY <1>3, <1>4, <1>5, <1>6 DEF Messages

\* A task keeps the invariant.
LEMMA TaskKeeps ==
  ASSUME IInv, Network \/ Page, PageReacts
  PROVE  IInv'
<1>1. CASE Negotiation \/ Connecting \/ Posting \/ ServerTimeout \/ DelayElapses
  BY <1>1, NegotiationKeeps, ConnectingKeeps, PostingKeeps, ServerTimeoutKeeps,
     DelayElapsesKeeps
<1>2. CASE DeleteReturns
  <2>1. ConnectionDown("resolved") /\ stopping' = None /\ stopping = "deleting"
    BY <1>2 DEF DeleteReturns
  <2>2. ~StartPending
    BY <2>1 DEF IInv, LinkAgrees
  <2> QED BY <2>1, <2>2, DownKeeps
<1>3. CASE ProcessIncomingData
  BY <1>3, ArrivalKeeps
<1>4. CASE ReceiveGarbage \/ LinkCloses
  <2>1. PICK outcome \in {"resolved", "rejected"} : ConnectionDown(outcome)
    BY <1>4 DEF ReceiveGarbage, LinkCloses, SocketCloses, EventsFail, PollEnds
  <2>2. stopping' = stopping /\ LinkUp
    BY <1>4 DEF ReceiveGarbage, LinkCloses, SocketCloses, EventsFail, PollEnds, LinkUp
  <2>3. ~StartPending
    BY <2>2 DEF IInv, StartAgrees, LinkUp
  <2> QED BY <2>1, <2>2, <2>3, DownKeeps
<1>5. CASE Task /\ LinkDies /\ UNCHANGED hubVars
  BY <1>5, LinkDiesKeeps
<1>6. CASE Start \/ Stop
  BY <1>6, StartKeeps, StopKeeps
<1>7. CASE \E c \in Invocations : Call(c)
  BY <1>7, CallKeeps
<1> QED BY <1>1, <1>2, <1>3, <1>4, <1>5, <1>6, <1>7 DEF Network, Page

\* Everything is down at first.
LEMMA InitInvariant == Init => IInv
<1> SUFFICES ASSUME Init PROVE IInv
  OBVIOUS
<1>1. Flags /\ Phases /\ Texts
  BY DEF Init, HttpInit, HubInit, QueueInit, Flags, Phases, Texts, Kinds
<1>2. Counters /\ Tables
  BY HttpAssumption, HubAssumption DEF Init, HttpInit, HubInit, QueueInit, Counters, Tables
<1>3. StartAgrees /\ LinkAgrees /\ AttemptAgrees
  BY DEF Init, HttpInit, HubInit, QueueInit, StartAgrees, LinkAgrees, AttemptAgrees,
     StartPending, LinkUp
<1>4. HubAgrees /\ RaceAgrees /\ StopAgrees /\ CallsAgree /\ LabelAgrees
  BY DEF Init, HttpInit, HubInit, QueueInit, HubAgrees, RaceAgrees, StopAgrees, CallsAgree,
     LabelAgrees, PollLost
<1> QED BY <1>1, <1>2, <1>3, <1>4, TypesAre DEF IInv

\* The invariant holds in every state the page can get into.
LEMMA Invariant == Spec => []IInv
<1>1. IInv /\ [Next]_vars => IInv'
  BY StutterKeeps, ContinueKeeps, TaskKeeps DEF Next, HubNext
<1> QED BY <1>1, InitInvariant, PTL DEF Spec

-----------------------------------------------------------------------------
(* What follows from it.                                                     *)

\* Every variable of the page and of the client under it keeps its type: no more
\* redirects are followed and no more attempts made than there are.
THEOREM TypeCorrect == Spec => []TypeOK
<1>1. IInv => TypeOK
  BY DEF IInv
<1> QED BY <1>1, Invariant, PTL

\* Whenever no code is left to run, hub and connection agree: a connected hub has an
\* established connection unless its last ping outlived it, a disconnected hub
\* has none, and between two attempts nothing of one is left.
THEOREM LayersAlwaysAgree == Spec => []LayersAgree
<1>1. ASSUME IInv PROVE LayersAgree
  <2> USE <1>1 DEF IInv
  <2>0. Flags /\ Phases
    BY TypesAre
  <2>1. hubState = "Connected" /\ ~Raced =>
          hubStarted /\ httpStarted /\ httpState \in {"Connected", "Disconnecting"}
    BY <2>0 DEF HubAgrees, StartAgrees, Flags
  <2>2. hubState = "Reconnecting" => hubStarted
    BY DEF HubAgrees
  <2>3. hubState = "Disconnected" => httpState = "Disconnected"
    BY DEF HubAgrees
  <2>4. loop = "delay" => httpState = "Disconnected" /\ attempt = None
    BY DEF HubAgrees
  <2>5. ASSUME Task, httpState = "Disconnected" PROVE ~LinkUp /\ ~httpStarted /\ ~timeout
    BY <2>0, <2>5 DEF LinkAgrees, AttemptAgrees, StartAgrees, LinkUp, Task, Ready, Flags
  <2>6. ASSUME Task, httpState = "Connected" PROVE LinkUp \/ PollLost
    BY <2>0, <2>6 DEF LinkAgrees, StartAgrees, PollLost, Task, Ready, Flags
  <2> QED BY <2>1, <2>2, <2>3, <2>4, <2>5, <2>6 DEF LayersAgree
<1> QED BY <1>1, Invariant, PTL

\* No call to the server is left waiting for an answer that can no longer come.
THEOREM CallsAlwaysSettle == Spec => []CallsSettle
<1>1. ASSUME IInv PROVE CallsSettle
  <2> SUFFICES ASSUME Task, httpState = "Disconnected", NEW c \in Invocations,
                      calls[c] = "pending"
               PROVE  FALSE
    BY DEF CallsSettle
  <2>1. ~httpStarted
    BY <1>1 DEF IInv, StartAgrees
  <2>2. sent[c] = "failed"
    BY <1>1, <2>1 DEF IInv, CallsAgree
  <2> QED BY <2>2 DEF Task, Ready
<1> QED BY <1>1, Invariant, PTL

\* When the script's stop() returns the connection is down, and the hub disconnected or
\* waiting for the end of the attempt it stopped, unless the stop, or a loss before it,
\* fell in the last ping of a start.
THEOREM StopAlwaysFinal == Spec => []StopIsFinal
<1>1. IInv => StopIsFinal
  BY TypesAre DEF IInv, StopAgrees, StopIsFinal, Flags
<1> QED BY <1>1, Invariant, PTL

\* LIVE STREAM is shown only over an established connection, unless the hub was
\* stopped or the last ping of its start outlived the connection.
THEOREM LiveAlwaysConnected == Spec => []LiveIsConnected
<1>1. IInv => LiveIsConnected
  BY TypesAre DEF IInv, LabelAgrees, HubAgrees, LiveIsConnected, Flags
<1> QED BY <1>1, Invariant, PTL

\* No attempt that was under way brings a hub back that is disconnected or being
\* disconnected, unless it was stopped in its last ping.
THEOREM NeverBack == Spec => NeverBackFromStop
<1> DEFINE Stays ==
      /\ hubState \in {"Disconnecting", "Disconnected"}
      /\ hubState' \in {"Connected", "Reconnecting"}
      => stoppedInPing
<1>1. ASSUME IInv, Next PROVE Stays
  <2> SUFFICES ASSUME hubState \in {"Disconnecting", "Disconnected"}, ~stoppedInPing
               PROVE  hubState' \notin {"Connected", "Reconnecting"}
    OBVIOUS
  <2>1. Flags
    BY <1>1, TypesAre DEF IInv
  <2>2. CASE Continue
    <3>1. CASE StartReturns \/ AttemptReturns
      BY <1>1, <2>1, <3>1 DEF StartReturns, AttemptReturns, CompleteClose, IInv, HubAgrees,
         RaceAgrees, Flags
    <3>2. CASE ~(StartReturns \/ AttemptReturns)
      BY <2>2, <3>2 DEF Continue, Greet, ConnectFails, AwaitHandshake, Ping, Pinged, Aborted,
         AbortAttempt, StopTransport, SocketStops, EventsStop, ConnectionDown, ConnectionClosed,
         CompleteClose, StopReturns, CallFails
    <3> QED BY <3>1, <3>2
  <2>3. CASE Network
    <3>1. CASE ProcessIncomingData
      BY <3>1 DEF ProcessIncomingData, Received, StopInternal, Messages
    <3>2. CASE ~ProcessIncomingData
      BY <2>3, <3>2 DEF Network, Negotiation, Connecting, Posting, DeleteReturns, ReceiveGarbage,
         LinkCloses, SocketCloses, EventsFail, PollEnds, ConnectionDown, ConnectionClosed,
         CompleteClose, ServerTimeout, DelayElapses, BeginAttempt
    <3> QED BY <3>1, <3>2
  <2>4. CASE Page
    BY <2>4 DEF Page, Start, Stop, StopInternal, Call
  <2> QED BY <1>1, <2>2, <2>3, <2>4 DEF Next, HubNext
<1>2. IInv /\ [Next]_vars => [Stays]_vars
  BY <1>1
<1> QED BY <1>2, Invariant, PTL DEF Spec, NeverBackFromStop
=============================================================================

