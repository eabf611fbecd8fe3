--------------------------- MODULE HttpConnection ---------------------------
(***************************************************************************)
(* HttpConnection of signalr.js and the transports under it: negotiation,  *)
(* one transport after the other, stop() in any phase.  The operators are  *)
(* the synchronous pieces of its methods, from one await to the next;      *)
(* HubConnection puts them together with what they call in the hub.        *)
(*                                                                         *)
(* Error values, tokens and URLs are left out: only whether a call         *)
(* succeeds decides what happens.                                          *)
(***************************************************************************)
EXTENDS TransportSendQueue, Sequences

CONSTANTS
  Offers,        \* the lists of transports a server may offer and the browser has
  MaxRedirects,  \* MAX_REDIRECTS (100 in the code)
  FirstPolls     \* the answers to the first poll that are not errors: 200, other 2xx

Kinds == {"WebSockets", "ServerSentEvents", "LongPolling"}
None  == "none"

ASSUME HttpAssumption ==
  /\ Offers \subseteq Seq(Kinds)
  /\ MaxRedirects \in Nat \ {0}
  /\ FirstPolls \subseteq {"200", "other2xx"}

VARIABLES
  httpState,    \* _connectionState
  httpStarted,  \* _connectionStarted
  starting,     \* where start() and _startInternal() are
  endpoints,    \* the offered transports that are still to be tried
  redirects,    \* redirects followed by this start
  transport,    \* this.transport, by its kind
  link,         \* the socket, event source or poll under it
  stopping,     \* where the stop() is that found the connection up or coming up
  stopPromise,  \* _stopPromise
  inherentKeepAlive  \* features.inherentKeepAlive

startVars == <<starting, endpoints, redirects>>
stopVars  == <<stopping, stopPromise>>
linkVars  == <<transport, link>>
httpVars  == <<httpState, httpStarted, startVars, linkVars, stopVars, inherentKeepAlive,
               queueVars>>

HttpInit ==
  /\ httpState = "Disconnected" /\ httpStarted = FALSE
  /\ starting = None /\ endpoints = <<>> /\ redirects = 0
  /\ transport = None /\ link = None
  /\ stopping = None /\ stopPromise = None
  /\ inherentKeepAlive = FALSE
  /\ QueueInit

StartPending == starting \in {"negotiate", "connect", "renegotiate"}
LinkUp       == link \in {"open", "silent"}

-----------------------------------------------------------------------------
(* start().                                                                  *)

\* start() up to the negotiation request.
HttpStart ==
  /\ httpState = "Disconnected"
  /\ httpState' = "Connecting"
  /\ starting' = "negotiate" /\ redirects' = 0 /\ endpoints' = <<>>
  /\ UNCHANGED <<httpStarted, linkVars, stopVars, inherentKeepAlive, queueVars>>

\* Mutant: whoever waits in stop() is forgotten.
StartFailsAlone ==
  /\ httpState' = "Disconnected" /\ transport' = None
  /\ starting' = "failed"
  /\ UNCHANGED <<httpStarted, endpoints, redirects, link, stopVars, inherentKeepAlive,
                 queueVars>>

\* _startInternal's catch: whoever waits in stop() is let go.
StartFails ==
  /\ httpState' = "Disconnected" /\ transport' = None
  /\ starting' = "failed"
  /\ stopPromise' = IF stopPromise = "pending" THEN "resolved" ELSE stopPromise
  /\ UNCHANGED <<httpStarted, endpoints, redirects, link, stopping, inherentKeepAlive,
                 queueVars>>

\* Mutant: one redirect too many.
OneRedirectMore == redirects = MaxRedirects

NoMoreRedirects == redirects + 1 = MaxRedirects

\* The negotiation of _startInternal: stop() is noticed here, redirects are counted,
\* and the first usable transport is tried.
Negotiated(answer) ==
  /\ starting = "negotiate"
  /\ \/ /\ \/ httpState = "Disconnecting" \/ answer = "error"
           \/ answer = "redirect" /\ NoMoreRedirects
        /\ StartFails
     \/ /\ httpState = "Connecting"
        /\ answer = "redirect" /\ ~NoMoreRedirects
        /\ redirects' = redirects + 1
        /\ UNCHANGED <<httpState, httpStarted, starting, endpoints, linkVars, stopVars,
                       inherentKeepAlive, queueVars>>
     \/ /\ httpState = "Connecting" /\ answer = "ok"
        /\ \E offer \in Offers :
             IF offer = <<>> THEN StartFails
             ELSE /\ transport' = Head(offer) /\ endpoints' = Tail(offer)
                  /\ starting' = "connect"
                  /\ UNCHANGED <<httpState, httpStarted, redirects, link, stopVars,
                                 inherentKeepAlive, queueVars>>

\* The negotiation for the next transport.  stop() is not looked for, and the
\* transports of the first answer are kept.
Renegotiated(answer) ==
  /\ starting = "renegotiate"
  /\ IF answer = "error" THEN StartFails
     ELSE /\ starting' = "connect"
          /\ UNCHANGED <<httpState, httpStarted, endpoints, redirects, linkVars, stopVars,
                         inherentKeepAlive, queueVars>>

\* The end of _startInternal when the transport has connected.  It stays in
\* Disconnecting if stop() was called meanwhile.
Up ==
  /\ starting = "connect"
  /\ starting' = "done" /\ link' = "open"
  /\ httpState' = IF httpState = "Connecting" THEN "Connected" ELSE httpState
  /\ inherentKeepAlive' = (inherentKeepAlive \/ transport = "LongPolling")
  /\ UNCHANGED <<httpStarted, endpoints, redirects, transport, stopVars, queueVars>>

\* The transports' connect().
SocketOpens == transport = "WebSockets" /\ Up
EventsOpen  == transport = "ServerSentEvents" /\ Up
FirstPoll   == transport = "LongPolling" /\ "200" \in FirstPolls /\ Up

\* A first poll answered with 2xx but not 200: connect() succeeds, and the poll loop
\* ends at once and raises onclose, where _stopConnection forgets the transport and,
\* in Connecting, throws.
FirstPollEnds ==
  /\ starting = "connect" /\ transport = "LongPolling" /\ "other2xx" \in FirstPolls
  /\ starting' = "done" /\ transport' = None
  /\ IF httpState = "Connecting"
     THEN httpState' = "Connected" /\ UNCHANGED stopPromise
     ELSE httpState' = "Disconnected" /\ stopPromise' = "resolved"
  /\ UNCHANGED <<httpStarted, endpoints, redirects, link, stopping, inherentKeepAlive,
                 queueVars>>

\* The transport does not connect: on to the next, with a new negotiation, unless
\* stop() was called or there is none left.
TransportFails ==
  /\ starting = "connect"
  /\ IF httpState # "Connecting" \/ endpoints = <<>> THEN StartFails
     ELSE /\ transport' = Head(endpoints) /\ endpoints' = Tail(endpoints)
          /\ starting' = "renegotiate"
          /\ UNCHANGED <<httpState, httpStarted, redirects, link, stopVars,
                         inherentKeepAlive, queueVars>>

\* start() after _startInternal: up ...
StartResolves ==
  /\ starting = "done" /\ httpState = "Connected"
  /\ starting' = None /\ httpStarted' = TRUE

\* ... or stopped meanwhile, and not back before the stop is through.
StartWaits ==
  /\ starting = "done" /\ httpState = "Disconnecting"
  /\ starting' = "waitStop"
  /\ UNCHANGED <<httpState, httpStarted, endpoints, redirects, linkVars, stopVars,
                 inherentKeepAlive, queueVars>>

StartRejects ==
  /\ \/ starting = "failed"
     \/ starting = "done" /\ httpState = "Disconnected"
     \/ starting = "waitStop" /\ stopPromise # "pending"
  /\ starting' = None
  /\ UNCHANGED <<httpState, httpStarted, endpoints, redirects, linkVars, stopVars,
                 inherentKeepAlive, queueVars>>

-----------------------------------------------------------------------------
(* send() and stop().                                                        *)

Send(x) ==
  IF httpState = "Connected" THEN Enqueue(x)
  ELSE sent' = Settle({x}, "failed") /\ UNCHANGED <<buffer, posting, orphans>>

\* stop() up to its first await; a stop that is under way is joined.
HttpStop ==
  IF httpState \in {"Connecting", "Connected"}
  THEN /\ httpState' = "Disconnecting"
       /\ stopPromise' = "pending" /\ stopping' = "awaitStart"
  ELSE UNCHANGED <<httpState, stopVars>>

\* _stopInternal is past the start it waited for.
StopGoesOn == stopping = "awaitStart" /\ ~StartPending

\* LongPollingTransport.stop() aborts the poll and sends DELETE before anything
\* else is told.
StopPolling ==
  /\ StopGoesOn /\ transport = "LongPolling"
  /\ stopping' = "deleting" /\ link' = None
  /\ UNCHANGED <<httpState, httpStarted, startVars, transport, stopPromise,
                 inherentKeepAlive, queueVars>>

\* No transport, because the start failed or the transport closed by itself.
StopNothing ==
  /\ StopGoesOn /\ transport = None
  /\ stopping' = None
  /\ UNCHANGED <<httpState, httpStarted, startVars, linkVars, stopPromise,
                 inherentKeepAlive, queueVars>>

\* The part of _stopConnection every close goes through; the hub is told in
\* HubConnection.
StopConnection ==
  /\ httpState \in {"Connected", "Disconnecting"}
  /\ httpState' = "Disconnected" /\ httpStarted' = FALSE
  /\ transport' = None /\ link' = None
  /\ stopPromise' = IF httpState = "Disconnecting" THEN "resolved" ELSE stopPromise
  /\ StopQueue
  /\ UNCHANGED <<startVars, inherentKeepAlive>>

-----------------------------------------------------------------------------
(* The transports' send().                                                   *)

\* A transport that is down refuses.
SendRefused == ~LinkUp /\ SendBatch("failed")

\* A socket takes a message at once, or is closing.
SocketSend == LinkUp /\ transport = "WebSockets" /\ \E r \in {"ok", "failed"} : SendBatch(r)

\* The others post it.
EventsSend == LinkUp /\ transport = "ServerSentEvents" /\ SendBatch("pending")
PollSend   == LinkUp /\ transport = "LongPolling" /\ SendBatch("pending")

TakeBatch ==
  /\ SendRefused \/ SocketSend \/ EventsSend \/ PollSend
  /\ UNCHANGED <<httpState, httpStarted, startVars, linkVars, stopVars, inherentKeepAlive>>

\* sendMessage.
BatchPosted ==
  /\ \E r \in {"ok", "failed"} :
       PostReturns(r) \/ \E o \in orphans : OrphanReturns(o, r)
  /\ UNCHANGED <<httpState, httpStarted, startVars, linkVars, stopVars, inherentKeepAlive>>

\* The peer falls silent: nothing arrives any more, and nothing says so.  (A poll that
\* times out is sent again, for as long as it takes.)
LinkDies ==
  /\ link = "open"
  /\ link' = "silent"
  /\ UNCHANGED <<httpState, httpStarted, startVars, transport, stopVars, inherentKeepAlive,
                 queueVars>>
=============================================================================
