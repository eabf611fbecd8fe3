----------------------------- MODULE MarketPage -----------------------------
(***************************************************************************)
(* The script of wwwroot/index.html on top of the SignalR client: what the *)
(* label `connectionStatus' says, and the start that is tried again.  The  *)
(* script may also call stop() and invoke(), which index.html does not.    *)
(***************************************************************************)
EXTENDS HubConnection

VARIABLES
  label,          \* connectionStatus
  lostInPing,     \* history: the connection was lost in the last ping of its start ...
  stoppedInPing,  \* ... or the hub was stopped in it
  closing         \* history: the hub was stopped, by the server or the script

pageVars == <<label, lostInPing, stoppedInPing, closing>>
vars     == <<clientVars, pageVars>>

Init ==
  /\ HttpInit /\ HubInit
  /\ label = "Disconnected"
  /\ lostInPing = FALSE /\ stoppedInPing = FALSE /\ closing = FALSE

\* Mutant: onreconnected is left out.
NoticesLossOnly ==
  label' = IF startPromise = "pending" /\ startPromise' = "resolved" THEN "LIVE STREAM"
           ELSE IF loop = None /\ loop' = "delay" THEN "Reconnecting..." ELSE label

\* onreconnecting, onreconnected and the code behind `await connection.start()' run
\* inside the client's steps.  There is no onclose callback.
Shows ==
  label' = CASE startPromise = "pending" /\ startPromise' = "resolved" -> "LIVE STREAM"
             [] loop = None /\ loop' = "delay" -> "Reconnecting..."
             [] loop = "attempt" /\ loop' = None /\ hubState' = "Connected" -> "LIVE STREAM"
             [] OTHER -> label

\* _startInternal is past its last look at _stopDuringStartError.
InPing == attempt \in {"ping", "up"}

Histories ==
  /\ lostInPing' = (/\ attempt' # "connect"
                    /\ \/ lostInPing
                       \/ InPing /\ ~stopErr /\ stopErr' /\ hubState' # "Disconnecting")
  /\ stoppedInPing' = (/\ attempt' # "connect"
                       /\ \/ stoppedInPing
                          \/ InPing /\ hubState # "Disconnecting" /\ hubState' = "Disconnecting")
  /\ closing' = (/\ hubState' \in {"Disconnecting", "Disconnected"}
                 /\ closing \/ hubState' = "Disconnecting")

PageReacts == Shows /\ Histories

Next == HubNext /\ PageReacts

Spec == Init /\ [][Next]_vars

\* The browser runs every continuation, timer and event that is due; a request is
\* answered or fails; a server whose handshake is not answered over a poll closes
\* it.  Nothing is assumed of a silent link but the client's own timer.
Fairness ==
  /\ WF_vars(Continue /\ PageReacts)
  /\ WF_vars(Negotiation /\ PageReacts) /\ WF_vars(Connecting /\ PageReacts)
  /\ WF_vars(Posting /\ PageReacts) /\ WF_vars(DeleteReturns /\ PageReacts)
  /\ WF_vars(DelayElapses /\ PageReacts) /\ WF_vars(Start /\ PageReacts)
  /\ WF_vars((attempt = "handshake" \/ link = "silent") /\ ServerTimeout /\ PageReacts)
  /\ WF_vars(attempt = "handshake" /\ link = "open" /\ LinkCloses /\ PageReacts)

FairSpec == Spec /\ Fairness

-----------------------------------------------------------------------------
\* Nothing looks whether the connection was lost, or the hub stopped, in the last ping:
\* if the ping is accepted, the hub is set Connected, over no connection.
Raced == lostInPing \/ stoppedInPing

\* The first poll ended the transport of a connection that then counts as up.
PollLost == httpStarted /\ transport = None

TypeOK ==
  /\ httpState \in {"Disconnected", "Connecting", "Connected", "Disconnecting"}
  /\ hubState \in {"Disconnected", "Connecting", "Connected", "Disconnecting", "Reconnecting"}
  /\ {httpStarted, hubStarted, inherentKeepAlive, stopErr, shaken, timeout, lostInPing,
    stoppedInPing, closing} \subseteq BOOLEAN
  /\ starting \in {None, "negotiate", "connect", "renegotiate", "done", "failed", "waitStop"}
  /\ endpoints \in Seq(Kinds) /\ redirects \in 0 .. MaxRedirects - 1
  /\ transport \in Kinds \cup {None} /\ link \in {None, "open", "silent"}
  /\ stopping \in {None, "awaitStart", "deleting"}
  /\ stopPromise \in {None, "pending", "resolved"}
  /\ buffer \cup posting \subseteq Items
  /\ orphans \subseteq [posting : SUBSET Items, buffer : SUBSET Items]
  /\ sent \in [Items -> {"idle", "pending", "ok", "failed"}]
  /\ startPromise \in {None, "pending", "resolved", "rejected"}
  /\ attempt \in {None, "connect", "greet", "handshake", "ping", "abort", "up", "failed"}
  /\ shake \in {None, "pending", "resolved", "rejected"}
  /\ loop \in {None, "delay", "attempt"} /\ retries \in 0 .. Retries
  /\ calls \in [Invocations -> {"idle", "pending", "done", "failed"}]
  /\ stopCall \in {None, "waiting", "returned"}
  /\ label \in {"Disconnected", "LIVE STREAM", "Reconnecting..."}

\* When no code is left to run, hub and connection agree: a connected hub has an
\* established connection (or one that is just being taken down), a disconnected
\* one, or one between two attempts, has left nothing of a connection behind.  Only
\* a hub whose last ping outlived its connection is Connected over none.
LayersAgree ==
  Task =>
    /\ hubState = "Connected" /\ ~Raced =>
         hubStarted /\ httpStarted /\ httpState \in {"Connected", "Disconnecting"}
    /\ hubState = "Reconnecting" => hubStarted
    /\ hubState = "Disconnected" => httpState = "Disconnected"
    /\ loop = "delay" => httpState = "Disconnected" /\ attempt = None
    /\ httpState = "Disconnected" => ~LinkUp /\ ~httpStarted /\ ~timeout
    /\ httpState = "Connected" => LinkUp \/ PollLost

\* No invocation waits for an answer once its connection is gone.
CallsSettle ==
  Task /\ httpState = "Disconnected" => \A c \in Invocations : calls[c] # "pending"

\* When stop() returns the connection is down, whatever it was called in, and the hub is
\* Disconnected, or will be when the attempt it stopped is over.  Only a stop in the
\* last ping of a start, or after a loss in it, may leave the hub Connected or in
\* Disconnecting for good.
StopIsFinal ==
  Task /\ stopCall = "returned" =>
    /\ httpState = "Disconnected"
    /\ hubState = "Disconnected" \/ (hubState = "Disconnecting" /\ loop = "attempt") \/ Raced

\* The page says LIVE STREAM only over a connection, unless the hub was stopped, or
\* the last ping of its start outlived the connection.
LiveIsConnected ==
  Task /\ label = "LIVE STREAM" /\ ~Raced =>
    closing \/ (hubState = "Connected" /\ httpStarted)

\* No attempt that was under way brings back a hub that is disconnected or being
\* disconnected, but for one that was stopped in its last ping: if the ping is
\* accepted, that hub is Connected again.
NeverBackFromStop ==
  [][/\ hubState \in {"Disconnecting", "Disconnected"}
     /\ hubState' \in {"Connected", "Reconnecting"}
     => stoppedInPing]_vars

\* The hub's start resolves when the connection has been established.
StartedMeansConnected ==
  Task /\ hubState = "Connected" => httpState # "Disconnected"

\* Long polling turns the client's timer off, for good, and sends a poll that times out
\* again: a server that falls silent then is never given up, nor is what waits for it.
Unwatched == inherentKeepAlive /\ link = "silent"

\* start() always settles, and stop() ends in a disconnected hub; but for a silent
\* server nobody watches, a first poll that ends its transport, and a stop that
\* raced the last ping of a start.
PromisesSettle ==
  /\ startPromise = "pending" ~> startPromise # "pending" \/ Unwatched \/ PollLost
  /\ stopCall = "waiting" ~> hubState = "Disconnected" \/ Raced \/ Unwatched \/ PollLost

\* A page that says Reconnecting... says something else in the end or has given up;
\* but for a silent server nobody watches and a first poll that ends its transport.
ReconnectSettles ==
  label = "Reconnecting..." ~>
    label # "Reconnecting..." \/ hubState = "Disconnected" \/ Unwatched \/ PollLost

\* A server that falls silent is given up, unless the client's timer is off: no
\* connection has gone over long polling yet.
SilenceNoticed ==
  link = "silent" /\ hubState = "Connected" ~> link # "silent" \/ Unwatched
=============================================================================
