------------------------------- MODULE Gateway -------------------------------
(***************************************************************************)
(* From Redis to the browser: Workers/RedisSubscriber.cs of the gateway    *)
(* and the page wwwroot/index.html.  Redis calls a handler for every       *)
(* message of `market_updates'; handlers may run at the same time.  A      *)
(* channel that drops its oldest item feeds the one loop that sends to all *)
(* pages.  A send is a publish on the Redis backplane of SignalR, and what *)
(* the gateway's own subscription receives there goes to the pages.  An    *)
(* update is known by its number in the channel `market_updates'; what it  *)
(* looks like on the page is left out.                                     *)
(***************************************************************************)
EXTENDS Integers, Sequences, FiniteSets, SequencesExt

CONSTANTS
  Pages,       \* browsers
  MaxUpdates,  \* bound of the model: messages published
  Malformed,   \* messages ProcessMessage ignores or fails on
  Handlers,    \* handlers that may run at a time
  ChannelCap,  \* capacity of _marketChannel (10 000 in the code)
  MaxFaults    \* bound of the model: messages lost, sends failed, connections broken

ASSUME GatewayAssumption ==
  /\ {Handlers, ChannelCap} \subseteq Nat \ {0}
  /\ {MaxUpdates, MaxFaults} \subseteq Nat

Updates == 1 .. MaxUpdates
None    == 0

VARIABLES
  published,  \* messages published so far
  running,    \* the updates whose handlers run
  channel,    \* _marketChannel
  loop,       \* where SignalRBroadcastLoopAsync is
  update,     \* the update it sends
  cancelled,  \* stoppingToken
  bus,        \* what the backplane accepted and the gateway has not received
  subscribed, \* the gateway's subscription to the backplane is up
  link,       \* a page's connection
  wire,       \* what was sent to a page and has not arrived
  shown,      \* the update a page shows
  faults,     \* faults so far
  written,    \* history: the updates in the order they entered the channel
  dropped,    \* history: the updates the channel dropped
  gone,       \* history: the updates that were taken to be sent and will reach no page
  overlapped, \* history: the pairs of updates whose handlers ran together
  missed      \* history: pages that were not connected when something was delivered

pageVars    == <<link, wire, shown, missed>>
handlerVars == <<published, running, overlapped>>
loopVars    == <<loop, update>>
busVars     == <<bus, subscribed>>
history     == <<written, dropped, gone>>
vars == <<handlerVars, channel, loopVars, cancelled, busVars, pageVars, faults, history>>

Init ==
  /\ published = 0 /\ running = {} /\ overlapped = {}
  /\ channel = <<>> /\ loop = "wait" /\ update = None /\ cancelled = FALSE
  /\ bus = <<>> /\ subscribed = TRUE
  /\ link = [p \in Pages |-> "connecting"]
  /\ wire = [p \in Pages |-> <<>>]
  /\ shown = [p \in Pages |-> None]
  /\ faults = 0 /\ missed = {}
  /\ written = <<>> /\ dropped = {} /\ gone = {}

-----------------------------------------------------------------------------
(* Redis and ProcessMessage.                                                 *)

\* A message is published and its handler starts ...
Receive ==
  /\ published < MaxUpdates /\ Cardinality(running) < Handlers
  /\ published' = published + 1
  /\ running' = running \cup {published'}
  /\ overlapped' = overlapped \cup {{published', k} : k \in running}
  /\ UNCHANGED <<channel, loopVars, cancelled, busVars, pageVars, faults, history>>

\* ... or it is published while the gateway's connection is down.
PublishUnheard ==
  /\ published < MaxUpdates /\ faults < MaxFaults
  /\ published' = published + 1
  /\ faults' = faults + 1
  /\ UNCHANGED <<running, overlapped, channel, loopVars, cancelled, busVars, pageVars,
                 history>>

\* Mutants: the newest is dropped; the channel is a stack; it has no capacity.
PutDroppingNewest(k) ==
  IF Len(channel) < ChannelCap
  THEN channel' = Append(channel, k) /\ dropped' = dropped
  ELSE channel' = channel /\ dropped' = dropped \cup {k}
PutOnTop(k) ==
  IF Len(channel) < ChannelCap
  THEN channel' = <<k>> \o channel /\ dropped' = dropped
  ELSE channel' = <<k>> \o Front(channel) /\ dropped' = dropped \cup {Last(channel)}
PutAlways(k) == channel' = Append(channel, k) /\ dropped' = dropped

\* TryWrite to a full channel drops the oldest.
Put(k) ==
  IF Len(channel) < ChannelCap
  THEN channel' = Append(channel, k) /\ dropped' = dropped
  ELSE channel' = Append(Tail(channel), k) /\ dropped' = dropped \cup {Head(channel)}

\* ProcessMessage: parse, look the symbol up, write.  Anything malformed is
\* ignored, and an exception is caught.
Handle(k) ==
  /\ k \in running
  /\ running' = running \ {k}
  /\ IF k \in Malformed
     THEN UNCHANGED <<channel, dropped, written>>
     ELSE Put(k) /\ written' = Append(written, k)
  /\ UNCHANGED <<published, overlapped, loopVars, cancelled, busVars, pageVars, faults,
                 gone>>

-----------------------------------------------------------------------------
(* SignalRBroadcastLoopAsync.                                                *)

\* WaitToReadAsync returns with an item, or is cancelled.
Wait ==
  /\ loop = "wait"
  /\ \/ cancelled /\ loop' = "ended"
     \/ ~cancelled /\ channel # <<>> /\ loop' = "drain"
  /\ UNCHANGED <<handlerVars, channel, update, cancelled, busVars, pageVars, faults,
                 history>>

\* Mutant: all but the newest are skipped, as the trade processor does.
ReadNewest ==
  /\ loop = "drain"
  /\ IF channel = <<>>
     THEN loop' = "wait" /\ UNCHANGED <<channel, update>>
     ELSE loop' = "send" /\ update' = Last(channel) /\ channel' = <<>>
  /\ UNCHANGED <<handlerVars, cancelled, busVars, pageVars, faults, history>>

\* TryRead takes the oldest, or finds nothing.
Read ==
  /\ loop = "drain"
  /\ IF channel = <<>>
     THEN loop' = "wait" /\ UNCHANGED <<channel, update>>
     ELSE loop' = "send" /\ update' = Head(channel) /\ channel' = Tail(channel)
  /\ UNCHANGED <<handlerVars, cancelled, busVars, pageVars, faults, history>>

\* Clients.All publishes to the backplane; what is published while nobody is subscribed
\* is lost, and the publisher is not told.
Publish ==
  IF subscribed
  THEN bus' = Append(bus, update) /\ gone' = gone
  ELSE bus' = bus /\ gone' = gone \cup {update}

Unsent == bus' = bus /\ gone' = gone \cup {update}

Send ==
  /\ loop = "send"
  /\ Publish
  /\ loop' = "drain" /\ update' = None
  /\ UNCHANGED <<handlerVars, channel, cancelled, subscribed, pageVars, faults, written,
                 dropped>>

\* The publish fails, or is not answered in time although Redis has it: either way the
\* exception is swallowed and the loop goes on.
SendFails ==
  /\ loop = "send" /\ faults < MaxFaults
  /\ faults' = faults + 1
  /\ Publish \/ Unsent
  /\ loop' = "drain" /\ update' = None
  /\ UNCHANGED <<handlerVars, channel, cancelled, subscribed, pageVars, written, dropped>>

Cancel ==
  /\ ~cancelled /\ faults < MaxFaults
  /\ cancelled' = TRUE
  /\ faults' = faults + 1
  /\ UNCHANGED <<handlerVars, channel, loopVars, busVars, pageVars, history>>

-----------------------------------------------------------------------------
(* The backplane, which keeps the order of what it delivers.                 *)

Live == {p \in Pages : link[p] = "live"}

\* The gateway receives an update and sends it to every page connected now.
Deliver ==
  /\ bus # <<>>
  /\ bus' = Tail(bus)
  /\ wire' = [p \in Pages |-> IF p \in Live THEN Append(wire[p], Head(bus)) ELSE wire[p]]
  /\ missed' = missed \cup (Pages \ Live)
  /\ UNCHANGED <<handlerVars, channel, loopVars, cancelled, subscribed, link, shown, faults,
                 history>>

\* The subscription's connection breaks ...
SubscriptionDown ==
  /\ subscribed /\ faults < MaxFaults
  /\ subscribed' = FALSE
  /\ faults' = faults + 1
  /\ UNCHANGED <<handlerVars, channel, loopVars, cancelled, bus, pageVars, history>>

\* ... what was on it is lost, the newest first, up to what was already received ...
Stray ==
  /\ ~subscribed /\ bus # <<>>
  /\ bus' = Front(bus)
  /\ gone' = gone \cup {Last(bus)}
  /\ UNCHANGED <<handlerVars, channel, loopVars, cancelled, subscribed, pageVars, faults,
                 written, dropped>>

\* ... and the client of Redis connects and subscribes again.
Resubscribe ==
  /\ ~subscribed
  /\ subscribed' = TRUE
  /\ UNCHANGED <<handlerVars, channel, loopVars, cancelled, bus, pageVars, faults, history>>

-----------------------------------------------------------------------------
(* The page.                                                                 *)

\* start() succeeds, or the automatic reconnect does.
Connect(p) ==
  /\ link[p] \in {"connecting", "reconnecting"}
  /\ link' = [link EXCEPT ![p] = "live"]
  /\ UNCHANGED <<handlerVars, channel, loopVars, cancelled, busVars, wire, shown, missed,
                 faults, history>>

\* ReceiveMarketUpdate.
Show(p) ==
  /\ link[p] = "live" /\ wire[p] # <<>>
  /\ shown' = [shown EXCEPT ![p] = Head(wire[p])]
  /\ wire' = [wire EXCEPT ![p] = Tail(@)]
  /\ UNCHANGED <<handlerVars, channel, loopVars, cancelled, busVars, link, missed, faults,
                 history>>

\* The connection breaks, and what is under way with it.
CutOff(p) ==
  /\ link[p] = "live" /\ faults < MaxFaults
  /\ faults' = faults + 1
  /\ link' = [link EXCEPT ![p] = "reconnecting"]
  /\ wire' = [wire EXCEPT ![p] = <<>>]
  /\ missed' = missed \cup {p}
  /\ UNCHANGED <<handlerVars, channel, loopVars, cancelled, busVars, shown, history>>

\* The fourth attempt to reconnect fails, and nobody starts again.
GiveUp(p) ==
  /\ link[p] = "reconnecting"
  /\ link' = [link EXCEPT ![p] = "closed"]
  /\ UNCHANGED <<handlerVars, channel, loopVars, cancelled, busVars, wire, shown, missed,
                 faults, history>>

Handled == \E k \in running : Handle(k)

Next ==
  \/ Receive \/ PublishUnheard \/ Handled
  \/ Wait \/ Read \/ Send \/ SendFails \/ Cancel
  \/ Deliver \/ SubscriptionDown \/ Stray \/ Resubscribe
  \/ \E p \in Pages : Connect(p) \/ Show(p) \/ CutOff(p) \/ GiveUp(p)

Spec == Init /\ [][Next]_vars

\* Handlers and the loop run, what the backplane accepted is received or lost, and a
\* connected page receives.
FairSpec ==
  /\ Spec
  /\ WF_vars(Handled) /\ WF_vars(Wait \/ Read \/ Send)
  /\ WF_vars(Deliver) /\ \A p \in Pages : WF_vars(Show(p))

-----------------------------------------------------------------------------
TypeOK ==
  /\ published \in 0 .. MaxUpdates
  /\ running \subseteq 1 .. published /\ Cardinality(running) <= Handlers
  /\ channel \in Seq(Updates) /\ Len(channel) <= ChannelCap
  /\ loop \in {"wait", "drain", "send", "ended"} /\ update \in Updates \cup {None}
  /\ link \in [Pages -> {"connecting", "live", "reconnecting", "closed"}]
  /\ wire \in [Pages -> Seq(Updates)] /\ shown \in [Pages -> Updates \cup {None}]
  /\ bus \in Seq(Updates) /\ subscribed \in BOOLEAN
  /\ dropped \cup gone \subseteq ToSet(written) /\ missed \subseteq Pages
  /\ cancelled \in BOOLEAN /\ faults \in 0 .. MaxFaults

\* What the channel dropped, a failed send did not publish or the backplane lost, no page
\* ever gets.
Lost == dropped \cup gone

\* What the backplane holds and what the loop is about to publish.
Leaving == bus \o (IF update = None THEN <<>> ELSE <<update>>)

\* What is still to reach a page.
Ahead(p) == wire[p] \o Leaving \o channel

Before(w, x, y) == \E a, b \in DOMAIN w : a < b /\ w[a] = x /\ w[b] = y

\* Given what was written, w, and what is lost, the updates q are next for a page that
\* shows x: all that were written behind x and are not lost, in the order of w.
Follows(w, lost, x, q) ==
  /\ x \in (ToSet(w) \ lost) \cup {None}
  /\ ToSet(q) = {k \in ToSet(w) \ lost : x = None \/ Before(w, x, k)}
  /\ \A i, j \in DOMAIN q : i < j => Before(w, q[i], q[j])

\* An update enters the channel once, and a page that has been connected all the time
\* gets every one once, in the order they entered, but for what the full channel dropped,
\* what a failed send did not publish and what the backplane lost while the gateway's
\* subscription was down; a send that failed and was published after all is not missing.
PageFollows ==
  /\ IsInjective(written)
  /\ \A p \in Pages \ missed : Follows(written, Lost, shown[p], Ahead(p))

\* A page never goes back to an older update, however many the channel drops, sends
\* fail and connections break, unless handlers of the two ran at the same time.
PagesMoveForward ==
  [][\A p \in Pages : shown'[p] < shown[p] => {shown'[p], shown[p]} \in overlapped]_vars

\* Once the market is quiet every connected page ends at the last update that was
\* handled, unless its send failed unpublished or the backplane lost it: the full channel
\* never drops it, and no failure before keeps it from being sent.
LastUpdateShown ==
  \A p \in Pages :
    []~cancelled /\ [](published > 0 => link[p] = "live") =>
      (published = MaxUpdates ~> [](written # <<>> /\ Last(written) \notin gone =>
                                   shown[p] = Last(written)))
=============================================================================
