--------------------------- MODULE HubConnection ---------------------------
(***************************************************************************)
(* HubConnection of signalr.js over HttpConnection: start and handshake,   *)
(* stop in any phase, loss and automatic reconnect, server timeout, calls  *)
(* to the server.                                                          *)
(*                                                                         *)
(* JavaScript runs one task at a time.  A task here is an answer, a timer, *)
(* something received or a call by the page; the continuations it makes    *)
(* ready (what stands behind an await that is over) run before the next    *)
(* task, in any order.                                                     *)
(***************************************************************************)
EXTENDS HttpConnection

CONSTANTS
  Invocations,    \* calls with invoke(): answered by a Completion
  Retries         \* delays of the reconnect policy (4 by default)

ASSUME HubAssumption ==
  /\ Items = Invocations \cup {"handshake", "ping", "close"}
  /\ Invocations \cap {"handshake", "ping", "close"} = {}
  /\ Retries \in Nat \ {0}

VARIABLES
  hubState,      \* _connectionState
  hubStarted,    \* _connectionStarted
  startPromise,  \* _startPromise
  attempt,       \* where _startInternal is
  stopErr,       \* whether _stopDuringStartError is set
  shake,         \* the promise of the handshake
  shaken,        \* _receivedHandshakeResponse
  loop,          \* where _reconnect is
  retries,       \* previousReconnectAttempts
  timeout,       \* whether the server timeout is running
  calls,         \* the promises of the invocations
  stopCall       \* where the page's stop() is

closeVars == <<hubState, hubStarted>>
loopVars  == <<loop, retries>>
shakeVars == <<shake, shaken>>
hubVars == <<closeVars, startPromise, attempt, stopErr, shakeVars, loopVars, timeout, calls,
             stopCall>>
clientVars == <<httpVars, hubVars>>

HubInit ==
  /\ hubState = "Disconnected" /\ hubStarted = FALSE
  /\ startPromise = None /\ attempt = None /\ stopErr = FALSE
  /\ shake = None /\ shaken = FALSE
  /\ loop = None /\ retries = 0 /\ timeout = FALSE
  /\ calls = [c \in Invocations |-> "idle"]
  /\ stopCall = None

\* A continuation is ready.
Ready ==
  \/ starting \in {"done", "failed"}
  \/ starting = "waitStop" /\ stopPromise # "pending"
  \/ StopGoesOn
  \/ buffer # {} /\ posting = {}
  \/ attempt = "greet" /\ sent["handshake"] # "pending"
  \/ attempt = "handshake" /\ shake # "pending"
  \/ attempt = "ping" /\ sent["ping"] # "pending"
  \/ attempt = "abort" /\ stopPromise # "pending"
  \/ attempt \in {"up", "failed"}
  \/ \E c \in Invocations : calls[c] = "pending" /\ sent[c] = "failed"
  \/ stopCall = "waiting" /\ "pending" \notin {stopPromise, startPromise}

Task == ~Ready

-----------------------------------------------------------------------------
(* Pieces of the handlers.                                                   *)

\* _completeClose.
CompleteClose ==
  IF hubStarted
  THEN hubState' = "Disconnected" /\ hubStarted' = FALSE
  ELSE UNCHANGED closeVars

\* _reconnect up to its first await.
BeginReconnect ==
  /\ hubState' = "Reconnecting" /\ UNCHANGED hubStarted
  /\ loop' = "delay" /\ retries' = 1

\* Mutant: the timer is not set again by what is received after the handshake.
SetTimeoutOnce == timeout' = (~inherentKeepAlive /\ ~shaken)

\* _resetTimeoutPeriod: the server has so long to send something.
ResetTimeoutPeriod == timeout' = ~inherentKeepAlive

\* Mutant: invocations are left to their fate.
ConnectionForgotten(outcome) ==
  /\ stopErr' = TRUE /\ timeout' = FALSE
  /\ shake' = IF shake = "pending" THEN outcome ELSE shake
  /\ CASE hubState = "Disconnecting" -> CompleteClose /\ UNCHANGED loopVars
       [] hubState = "Connected" -> BeginReconnect
       [] OTHER -> UNCHANGED <<closeVars, loopVars>>
  /\ UNCHANGED <<startPromise, attempt, stopCall, shaken, calls>>

\* _connectionClosed: a start or attempt under way is told, every invocation fails,
\* and the connection closes, reconnects, or leaves it to the attempt.
ConnectionClosed(outcome) ==
  /\ stopErr' = TRUE /\ timeout' = FALSE
  /\ shake' = IF shake = "pending" THEN outcome ELSE shake
  /\ calls' = [c \in Invocations |-> IF calls[c] = "pending" THEN "failed" ELSE calls[c]]
  /\ CASE hubState = "Disconnecting" -> CompleteClose /\ UNCHANGED loopVars
       [] hubState = "Connected" -> BeginReconnect
       [] OTHER -> UNCHANGED <<closeVars, loopVars>>
  /\ UNCHANGED <<startPromise, attempt, stopCall, shaken>>

\* _stopConnection with the onclose it raises.
ConnectionDown(outcome) ==
  /\ StopConnection
  /\ IF httpStarted THEN ConnectionClosed(outcome) ELSE UNCHANGED hubVars

\* _startInternal up to the start of the connection.
BeginAttempt ==
  /\ attempt' = "connect"
  /\ stopErr' = FALSE /\ shake' = "pending" /\ shaken' = FALSE
  /\ HttpStart

\* The catch of _startInternal: the timer goes, the connection is stopped.
AbortAttempt ==
  /\ attempt' = "abort" /\ timeout' = FALSE
  /\ HttpStop
  /\ UNCHANGED <<httpStarted, startVars, linkVars, inherentKeepAlive>>
  /\ UNCHANGED <<closeVars, startPromise, stopErr, shakeVars, loopVars, calls, stopCall>>

\* Mutant: a stop during the reconnect delay leaves the delay running.
StopInDelayOnly ==
  /\ hubState' = "Disconnecting" /\ UNCHANGED <<hubStarted, loopVars, stopErr>>
  /\ UNCHANGED <<httpState, stopVars, queueVars>>

\* During the delay of a reconnect there is no connection to stop.
StopInDelay ==
  /\ hubState' = "Disconnected" /\ hubStarted' = FALSE
  /\ loop' = None /\ UNCHANGED <<retries, stopErr>>
  /\ UNCHANGED <<httpState, stopVars, queueVars>>

\* _stopInternal.
StopInternal ==
  CASE hubState \in {"Disconnected", "Disconnecting"} ->
         UNCHANGED <<closeVars, loopVars, stopErr, httpState, stopVars, queueVars>>
    [] hubState \notin {"Disconnected", "Disconnecting"} /\ loop = "delay" -> StopInDelay
    [] OTHER ->
         /\ hubState' = "Disconnecting" /\ stopErr' = TRUE
         /\ IF hubState = "Connected" THEN Send("close") ELSE UNCHANGED queueVars
         /\ HttpStop
         /\ UNCHANGED <<hubStarted, loopVars>>

-----------------------------------------------------------------------------
(* Continuations.                                                            *)

\* The connection is up: the handshake request is sent.
Greet ==
  /\ attempt = "connect" /\ StartResolves
  /\ attempt' = "greet" /\ Enqueue("handshake")
  /\ UNCHANGED <<httpState, endpoints, redirects, linkVars, stopVars, inherentKeepAlive>>
  /\ UNCHANGED <<closeVars, startPromise, stopErr, shakeVars, loopVars, timeout, calls,
                 stopCall>>

ConnectFails ==
  /\ attempt = "connect" /\ StartRejects
  /\ attempt' = "failed"
  /\ UNCHANGED <<closeVars, startPromise, stopErr, shakeVars, loopVars, timeout, calls,
                 stopCall>>

\* The request is sent, and the server has until the timeout to answer.
AwaitHandshake ==
  /\ attempt = "greet" /\ sent["handshake"] # "pending"
  /\ \/ /\ sent["handshake"] = "ok"
        /\ attempt' = "handshake" /\ ResetTimeoutPeriod
        /\ UNCHANGED <<closeVars, startPromise, stopErr, shakeVars, loopVars, calls,
                       stopCall, httpVars>>
     \/ sent["handshake"] = "failed" /\ AbortAttempt /\ UNCHANGED queueVars

\* Mutant: a connection closed after the handshake is not noticed.
PingUnlessRejected ==
  /\ attempt = "handshake" /\ shake # "pending"
  /\ \/ shake = "rejected" /\ AbortAttempt /\ UNCHANGED queueVars
     \/ /\ shake = "resolved"
        /\ attempt' = "up" /\ UNCHANGED httpVars
        /\ UNCHANGED <<closeVars, startPromise, stopErr, shakeVars, loopVars, timeout, calls,
                       stopCall>>

\* The handshake is over, one way or another.
Ping ==
  /\ attempt = "handshake" /\ shake # "pending"
  /\ \/ (shake = "rejected" \/ stopErr) /\ AbortAttempt /\ UNCHANGED queueVars
     \/ /\ shake = "resolved" /\ ~stopErr
        /\ IF inherentKeepAlive THEN attempt' = "up" /\ UNCHANGED queueVars
           ELSE attempt' = "ping" /\ Send("ping")
        /\ UNCHANGED <<httpState, httpStarted, startVars, linkVars, stopVars,
                       inherentKeepAlive>>
        /\ UNCHANGED <<closeVars, startPromise, stopErr, shakeVars, loopVars, timeout, calls,
                       stopCall>>

Pinged ==
  /\ attempt = "ping" /\ sent["ping"] # "pending"
  /\ \/ /\ sent["ping"] = "ok" /\ attempt' = "up"
        /\ UNCHANGED <<closeVars, startPromise, stopErr, shakeVars, loopVars, timeout, calls,
                       stopCall, httpVars>>
     \/ sent["ping"] = "failed" /\ AbortAttempt /\ UNCHANGED queueVars

Aborted ==
  /\ attempt = "abort" /\ stopPromise # "pending"
  /\ attempt' = "failed"
  /\ UNCHANGED <<closeVars, startPromise, stopErr, shakeVars, loopVars, timeout, calls,
                 stopCall, httpVars>>

\* _startWithStateTransitions after _startInternal.
StartReturns ==
  /\ loop = None /\ attempt \in {"up", "failed"}
  /\ attempt' = None
  /\ IF attempt = "up"
     THEN /\ hubState' = "Connected" /\ hubStarted' = TRUE
          /\ startPromise' = "resolved"
     ELSE /\ hubState' = "Disconnected" /\ startPromise' = "rejected"
          /\ UNCHANGED hubStarted
  /\ UNCHANGED <<stopErr, shakeVars, loopVars, timeout, calls, stopCall, httpVars>>

\* Mutant: the loop does not look whether it was stopped meanwhile.
RetryRegardless ==
  /\ loop = "attempt" /\ attempt \in {"up", "failed"}
  /\ attempt' = None
  /\ \/ /\ attempt = "up"
        /\ hubState' = "Connected" /\ loop' = None
        /\ UNCHANGED <<hubStarted, retries>>
     \/ /\ attempt = "failed" /\ retries < Retries
        /\ loop' = "delay" /\ retries' = retries + 1
        /\ hubState' = "Reconnecting" /\ UNCHANGED hubStarted
     \/ /\ attempt = "failed" /\ retries >= Retries
        /\ CompleteClose /\ loop' = None /\ UNCHANGED retries
  /\ UNCHANGED <<startPromise, stopErr, shakeVars, timeout, calls, stopCall, httpVars>>

\* The turn of _reconnect's loop after _startInternal.
AttemptReturns ==
  /\ loop = "attempt" /\ attempt \in {"up", "failed"}
  /\ attempt' = None
  /\ \/ /\ attempt = "up"
        /\ hubState' = "Connected" /\ loop' = None
        /\ UNCHANGED <<hubStarted, retries>>
     \/ /\ attempt = "failed" /\ hubState = "Reconnecting" /\ retries < Retries
        /\ loop' = "delay" /\ retries' = retries + 1
        /\ UNCHANGED closeVars
     \/ /\ attempt = "failed" /\ hubState = "Reconnecting" /\ retries >= Retries
        /\ CompleteClose /\ loop' = None /\ UNCHANGED retries
     \/ /\ attempt = "failed" /\ hubState # "Reconnecting"
        /\ IF hubState = "Disconnecting" THEN CompleteClose ELSE UNCHANGED closeVars
        /\ loop' = None /\ UNCHANGED retries
  /\ UNCHANGED <<startPromise, stopErr, shakeVars, timeout, calls, stopCall, httpVars>>

\* The stop() of the connection goes on with its transport.  Socket and event source
\* close at once and raise onclose before stop() of the transport returns.
SocketStops ==
  /\ StopGoesOn /\ transport = "WebSockets"
  /\ ConnectionDown("resolved")
  /\ stopping' = None

EventsStop ==
  /\ StopGoesOn /\ transport = "ServerSentEvents"
  /\ ConnectionDown("resolved")
  /\ stopping' = None

StopTransport ==
  \/ SocketStops \/ EventsStop
  \/ (StopPolling \/ StopNothing) /\ UNCHANGED hubVars

\* An invocation that could not be sent.
CallFails(c) ==
  /\ calls[c] = "pending" /\ sent[c] = "failed"
  /\ calls' = [calls EXCEPT ![c] = "failed"]
  /\ UNCHANGED <<closeVars, startPromise, attempt, stopErr, shakeVars, loopVars, timeout,
                 stopCall, httpVars>>

\* The page's stop() has waited for the connection and for its start.
StopReturns ==
  /\ stopCall = "waiting" /\ "pending" \notin {stopPromise, startPromise}
  /\ stopCall' = "returned"
  /\ UNCHANGED <<closeVars, startPromise, attempt, stopErr, shakeVars, loopVars, timeout,
                 calls, httpVars>>

Continue ==
  \/ Greet \/ ConnectFails
  \/ StartWaits /\ UNCHANGED hubVars
  \/ AwaitHandshake \/ Ping \/ Pinged \/ Aborted
  \/ StartReturns \/ AttemptReturns
  \/ StopTransport \/ StopReturns
  \/ TakeBatch /\ UNCHANGED hubVars
  \/ \E c \in Invocations : CallFails(c)

-----------------------------------------------------------------------------
(* Tasks.                                                                    *)

Negotiation ==
  /\ Task
  /\ \E a \in {"ok", "redirect", "error"} : Negotiated(a) \/ Renegotiated(a)
  /\ UNCHANGED hubVars

Connecting ==
  /\ Task
  /\ SocketOpens \/ EventsOpen \/ FirstPoll \/ FirstPollEnds \/ TransportFails
  /\ UNCHANGED hubVars

Posting == Task /\ BatchPosted /\ UNCHANGED hubVars

\* The DELETE of long polling returns or fails: the transport raises onclose.
DeleteReturns ==
  /\ Task /\ stopping = "deleting"
  /\ ConnectionDown("resolved")
  /\ stopping' = None

\* Something arrives, first the answer to the handshake, alone or with a message.
Received(m) ==
  CASE m.type = "Completion" ->
         /\ calls' = IF calls[m.call] = "pending" THEN [calls EXCEPT ![m.call] = m.result]
                     ELSE calls
         /\ UNCHANGED <<closeVars, loopVars, stopErr, httpState, stopVars, queueVars>>
    [] m.type = "CloseForGood" -> StopInternal /\ UNCHANGED calls
    [] m.type = "CloseAndReconnect" ->
         HttpStop /\ UNCHANGED <<closeVars, loopVars, stopErr, calls, queueVars>>
    [] OTHER -> UNCHANGED <<closeVars, loopVars, stopErr, calls, httpState, stopVars,
                            queueVars>>

Messages ==
  [type : {"Completion"}, call : Invocations, result : {"done", "failed"}]
    \cup [type : {"Other", "CloseForGood", "CloseAndReconnect"}]

\* A server completes what it was sent.
CanArrive(m) ==
  m.type = "Completion" => sent[m.call] = "ok" \/ m.call \in posting

\* _processIncomingData.
ProcessIncomingData ==
  /\ Task /\ link = "open"
  /\ shaken \/ attempt = "handshake" \/ "handshake" \in posting
  /\ \E m \in Messages : CanArrive(m) /\ Received(m)
  /\ shaken' = TRUE /\ shake' = IF shaken THEN shake ELSE "resolved"
  /\ ResetTimeoutPeriod
  /\ UNCHANGED <<startPromise, attempt, retries, stopCall>>
  /\ UNCHANGED <<httpStarted, startVars, linkVars, inherentKeepAlive>>

\* What cannot be read, and a handshake the server refuses, make the transport close.
ReceiveGarbage ==
  /\ Task /\ link = "open"
  /\ ConnectionDown(IF shaken THEN "resolved" ELSE "rejected")
  /\ UNCHANGED stopping

\* The socket, the event source or the poll ends or fails.
SocketCloses ==
  /\ transport = "WebSockets" /\ LinkUp
  /\ ConnectionDown("resolved")
  /\ UNCHANGED stopping

EventsFail ==
  /\ transport = "ServerSentEvents" /\ LinkUp
  /\ ConnectionDown("resolved")
  /\ UNCHANGED stopping

PollEnds ==
  /\ transport = "LongPolling" /\ LinkUp
  /\ ConnectionDown("resolved")
  /\ UNCHANGED stopping

LinkCloses == Task /\ (SocketCloses \/ EventsFail \/ PollEnds)

\* serverTimeout.
ServerTimeout ==
  /\ Task /\ timeout
  /\ timeout' = FALSE /\ HttpStop
  /\ UNCHANGED <<closeVars, startPromise, attempt, stopErr, shakeVars, loopVars, calls,
                 stopCall>>
  /\ UNCHANGED <<httpStarted, startVars, linkVars, inherentKeepAlive, queueVars>>

\* The delay of a reconnect is over.
DelayElapses ==
  /\ Task /\ loop = "delay"
  /\ loop' = "attempt"
  /\ BeginAttempt
  /\ UNCHANGED <<closeVars, startPromise, retries, timeout, calls, stopCall>>

\* The page: start() at first, and again when it was rejected.
Start ==
  /\ Task /\ hubState = "Disconnected" /\ startPromise \in {None, "rejected"}
  /\ hubState' = "Connecting" /\ startPromise' = "pending"
  /\ BeginAttempt
  /\ stopCall' = None
  /\ UNCHANGED <<hubStarted, loopVars, timeout, calls>>

Stop ==
  /\ Task /\ stopCall = None
  /\ StopInternal
  /\ stopCall' = "waiting"
  /\ timeout' = (timeout /\ hubState = "Disconnecting")
  /\ UNCHANGED <<startPromise, attempt, shakeVars, calls>>
  /\ UNCHANGED <<httpStarted, startVars, linkVars, inherentKeepAlive>>

Call(c) ==
  /\ Task /\ calls[c] = "idle"
  /\ calls' = [calls EXCEPT ![c] = "pending"]
  /\ Send(c)
  /\ UNCHANGED <<closeVars, startPromise, attempt, stopErr, shakeVars, loopVars, timeout,
                 stopCall>>
  /\ UNCHANGED <<httpState, httpStarted, startVars, linkVars, stopVars, inherentKeepAlive>>

Network ==
  \/ Negotiation \/ Connecting \/ Posting \/ DeleteReturns
  \/ ProcessIncomingData \/ ReceiveGarbage \/ LinkCloses
  \/ Task /\ LinkDies /\ UNCHANGED hubVars
  \/ ServerTimeout \/ DelayElapses

Page == Start \/ Stop \/ \E c \in Invocations : Call(c)

HubNext == Continue \/ Network \/ Page
=============================================================================
