------------------------------ MODULE EventHub ------------------------------
(***************************************************************************)
(* daemon/events.go: the EventHub that fans events out to the browsers'    *)
(* websocket connections, and serveEvents, the handler goroutine of each   *)
(* connection.                                                             *)
(*                                                                         *)
(* The hub is a map of buffered channels under a mutex; Subscribe, the     *)
(* unsubscribe closure and Publish each hold the mutex for their whole     *)
(* body, hence are one step.  Publish sends without blocking and drops the *)
(* event for a client whose buffer is full.  The handler takes one event   *)
(* at a time and writes it to its socket, which may take forever.          *)
(*                                                                         *)
(* Two branches of the handler's select never fire in this program and     *)
(* have no action here: the request context of a hijacked connection is    *)
(* cancelled only when the handler returns, and the channel is closed only *)
(* by the handler's own deferred unsubscribe.                              *)
(***************************************************************************)
EXTENDS Naturals, Sequences

CONSTANTS
  Conns,      \* connections to /api/events, each used once
  Capacity,   \* buffer of a client's channel (16 in the code)
  MaxEvents,  \* bound: events published in a behaviour
  Stalled     \* connections whose browser stops reading at some point

ASSUME HubAssumption ==
  /\ Capacity \in Nat \ {0}
  /\ MaxEvents \in Nat
  /\ Stalled \subseteq Conns

VARIABLES
  next,     \* number of the next event
  clients,  \* EventHub.clients: the registered channels
  chan,     \* content of every channel
  closed,   \* channels that were closed
  conn,     \* where the handler of each connection is
  frame,    \* what the handler is writing
  browser,  \* "up", or "gone" once the other end has disconnected
  seen      \* the events the browser received, a history of the wire

vars == <<next, clients, chan, closed, conn, frame, browser, seen>>

Events == 1..MaxEvents

\* Frames that carry no event of the hub: the greeting and the keep-alive.
Connected == 0
Ping      == MaxEvents + 1

TypeOK ==
  /\ next \in 1..(MaxEvents + 1)
  /\ clients \subseteq Conns
  /\ chan \in [Conns -> Seq(Events)]
  /\ closed \subseteq Conns
  /\ conn \in [Conns -> {"new", "upgraded", "waiting", "writing", "leaving", "ended"}]
  /\ frame \in [Conns -> 0..(MaxEvents + 1)]
  /\ browser \in [Conns -> {"up", "gone"}]
  /\ seen \in [Conns -> Seq(Events)]

Init ==
  /\ next = 1
  /\ clients = {}
  /\ chan = [c \in Conns |-> <<>>]
  /\ closed = {}
  /\ conn = [c \in Conns |-> "new"]
  /\ frame = [c \in Conns |-> Connected]
  /\ browser = [c \in Conns |-> "up"]
  /\ seen = [c \in Conns |-> <<>>]

-----------------------------------------------------------------------------
(* The hub *)

\* Mutants: channels that were never registered, or no longer are, are served
\* too; the send blocks.
PublishToAll ==
  /\ next <= MaxEvents
  /\ chan' = [c \in Conns |-> IF Len(chan[c]) < Capacity
                              THEN Append(chan[c], next) ELSE chan[c]]
  /\ next' = next + 1
  /\ UNCHANGED <<clients, closed, conn, frame, browser, seen>>

PublishBlocks ==
  /\ next <= MaxEvents
  /\ \A c \in clients : Len(chan[c]) < Capacity
  /\ chan' = [c \in Conns |-> IF c \in clients THEN Append(chan[c], next) ELSE chan[c]]
  /\ next' = next + 1
  /\ UNCHANGED <<clients, closed, conn, frame, browser, seen>>

\* A client with room gets the event; for the others the select falls through.
Publish ==
  /\ next <= MaxEvents
  /\ chan' = [c \in Conns |-> IF c \in clients /\ Len(chan[c]) < Capacity
                              THEN Append(chan[c], next) ELSE chan[c]]
  /\ next' = next + 1
  /\ UNCHANGED <<clients, closed, conn, frame, browser, seen>>

\* The channel is registered and the greeting is on its way.
Subscribe(c) ==
  /\ conn[c] = "upgraded"
  /\ clients' = clients \cup {c}
  /\ conn' = [conn EXCEPT ![c] = "writing"]
  /\ frame' = [frame EXCEPT ![c] = Connected]
  /\ UNCHANGED <<next, chan, closed, browser, seen>>

\* Mutant: the channel is closed and stays registered.
UnsubscribeKeeps(c) ==
  /\ conn[c] = "leaving"
  /\ closed' = closed \cup {c}
  /\ conn' = [conn EXCEPT ![c] = "ended"]
  /\ UNCHANGED <<next, clients, chan, frame, browser, seen>>

\* The deferred unsubscribe: delete and close, once; the handler returns.
Unsubscribe(c) ==
  /\ conn[c] = "leaving"
  /\ clients' = clients \ {c}
  /\ closed' = IF c \in clients THEN closed \cup {c} ELSE closed
  /\ conn' = [conn EXCEPT ![c] = "ended"]
  /\ UNCHANGED <<next, chan, frame, browser, seen>>

-----------------------------------------------------------------------------
(* The handler *)

\* Hijack and the flush of the 101 response, which may fail on a peer that has
\* gone: the handler then ends before it subscribes.
Upgrade(c) ==
  /\ conn[c] = "new"
  /\ \/ conn' = [conn EXCEPT ![c] = "upgraded"]
     \/ browser[c] = "gone" /\ conn' = [conn EXCEPT ![c] = "ended"]
  /\ UNCHANGED <<next, clients, chan, closed, frame, browser, seen>>

\* Mutant: the backlog is coalesced.
TakeLatest(c) ==
  /\ conn[c] = "waiting"
  /\ chan[c] # <<>>
  /\ frame' = [frame EXCEPT ![c] = chan[c][Len(chan[c])]]
  /\ chan' = [chan EXCEPT ![c] = <<>>]
  /\ conn' = [conn EXCEPT ![c] = "writing"]
  /\ UNCHANGED <<next, clients, closed, browser, seen>>

Take(c) ==
  /\ conn[c] = "waiting"
  /\ chan[c] # <<>>
  /\ frame' = [frame EXCEPT ![c] = Head(chan[c])]
  /\ chan' = [chan EXCEPT ![c] = Tail(@)]
  /\ conn' = [conn EXCEPT ![c] = "writing"]
  /\ UNCHANGED <<next, clients, closed, browser, seen>>

\* The ticker of 30 seconds.
SendPing(c) ==
  /\ conn[c] = "waiting"
  /\ frame' = [frame EXCEPT ![c] = Ping]
  /\ conn' = [conn EXCEPT ![c] = "writing"]
  /\ UNCHANGED <<next, clients, chan, closed, browser, seen>>

\* Mutant: keep-alives reach the page as events.
WriteArrivesRaw(c) ==
  /\ conn[c] = "writing"
  /\ browser[c] = "up"
  /\ seen' = [seen EXCEPT ![c] = Append(@, frame[c])]
  /\ conn' = [conn EXCEPT ![c] = "waiting"]
  /\ UNCHANGED <<next, clients, chan, closed, frame, browser>>

\* The frame arrives.
WriteArrives(c) ==
  /\ conn[c] = "writing"
  /\ browser[c] = "up"
  /\ seen' = IF frame[c] \in Events THEN [seen EXCEPT ![c] = Append(@, frame[c])] ELSE seen
  /\ conn' = [conn EXCEPT ![c] = "waiting"]
  /\ UNCHANGED <<next, clients, chan, closed, frame, browser>>

\* The write succeeds into the socket buffer of a peer that has gone.
WriteLost(c) ==
  /\ conn[c] = "writing"
  /\ browser[c] = "gone"
  /\ conn' = [conn EXCEPT ![c] = "waiting"]
  /\ UNCHANGED <<next, clients, chan, closed, frame, browser, seen>>

\* Mutant: the error of a ping is ignored, too.
WriteFailsLenient(c) ==
  /\ conn[c] = "writing"
  /\ browser[c] = "gone"
  /\ conn' = [conn EXCEPT ![c] = IF frame[c] \in Events THEN "leaving" ELSE "waiting"]
  /\ UNCHANGED <<next, clients, chan, closed, frame, browser, seen>>

\* The write fails.  The error of the greeting is ignored, any other ends the
\* loop.
WriteFails(c) ==
  /\ conn[c] = "writing"
  /\ browser[c] = "gone"
  /\ conn' = [conn EXCEPT ![c] = IF frame[c] = Connected THEN "waiting" ELSE "leaving"]
  /\ UNCHANGED <<next, clients, chan, closed, frame, browser, seen>>

\* The tab is closed, the laptop sleeps, the proxy times out.
Disconnect(c) ==
  /\ browser[c] = "up"
  /\ browser' = [browser EXCEPT ![c] = "gone"]
  /\ UNCHANGED <<next, clients, chan, closed, conn, frame, seen>>

Handler(c) ==
  \/ Upgrade(c) \/ Subscribe(c) \/ Take(c) \/ SendPing(c)
  \/ WriteArrives(c) \/ WriteLost(c) \/ WriteFails(c) \/ Unsubscribe(c)

Next ==
  \/ Publish
  \/ \E c \in Conns : Handler(c) \/ Disconnect(c)

Spec == Init /\ [][Next]_vars

\* Goroutines run.  A write to a browser that reads arrives; one that has gone
\* makes some write fail in the end.  Nothing is assumed of a stalled browser.
Fairness ==
  /\ WF_vars(Publish)
  /\ \A c \in Conns : /\ WF_vars(Subscribe(c)) /\ WF_vars(Take(c)) /\ WF_vars(SendPing(c))
                      /\ SF_vars(WriteFails(c) /\ frame[c] # Connected)
                      /\ WF_vars(WriteLost(c)) /\ WF_vars(Unsubscribe(c))
  /\ \A c \in Conns \ Stalled : SF_vars(Take(c)) /\ WF_vars(WriteArrives(c))

FairSpec == Spec /\ Fairness

-----------------------------------------------------------------------------
(* Properties *)

(***************************************************************************)
(* Publish never sends on a closed channel, which would panic the daemon:  *)
(* no registered channel is closed, however subscriptions, departures and  *)
(* events interleave.                                                      *)
(***************************************************************************)
NoSendOnClosed == clients \cap closed = {}

Increasing(s) == \A i, j \in DOMAIN s : i < j => s[i] < s[j]

\* The event that is being written, if it is one.
Writing(c) == IF conn[c] = "writing" /\ frame[c] \in Events THEN <<frame[c]>> ELSE <<>>

\* What the browser has received and will receive if nothing is lost.
Stream(c) == seen[c] \o Writing(c) \o chan[c]

(***************************************************************************)
(* A browser receives events in the order they were published and none of  *)
(* them twice, and the same holds of what waits for it.                    *)
(***************************************************************************)
InOrderOnce == \A c \in Conns : Increasing(Stream(c))

(***************************************************************************)
(* A browser that stops reading holds up nobody: all events are published  *)
(* in the end, and one that was accepted for a browser that reads arrives  *)
(* there, unless that browser has gone.                                    *)
(***************************************************************************)
StallHoldsUpNobody ==
  /\ <>(next = MaxEvents + 1)
  /\ \A c \in Conns \ Stalled, e \in Events :
       (\E i \in DOMAIN chan[c] : chan[c][i] = e)
         ~> ((\E i \in DOMAIN seen[c] : seen[c][i] = e) \/ browser[c] = "gone")

(***************************************************************************)
(* A connection whose browser has gone is forgotten by the hub: the pings  *)
(* find it out, even when no event is ever published again.                *)
(***************************************************************************)
GoneIsForgotten == \A c \in Conns : (browser[c] = "gone") ~> (c \notin clients)

-----------------------------------------------------------------------------
(* The refinement of EventFeed *)

Elements(s) == {s[i] : i \in DOMAIN s}

Pending(c) == Elements(Writing(c)) \cup Elements(chan[c])

Feed == INSTANCE EventFeed WITH
  open     <- clients,
  ended    <- {c \in Conns : conn[c] = "ended"},
  accepted <- [c \in Conns |-> IF conn[c] = "ended" THEN {} ELSE Pending(c)],
  last     <- [c \in Conns |-> IF seen[c] = <<>> THEN 0 ELSE seen[c][Len(seen[c])]]

(***************************************************************************)
(* The hub and its handlers implement the lossy, ordered, at-most-once     *)
(* feed.                                                                   *)
(***************************************************************************)
ImplementsFeed == Feed!Spec
=============================================================================
