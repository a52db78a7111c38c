----------------------------- MODULE EventFeed -----------------------------
(***************************************************************************)
(* What the daemon's event stream promises to one browser connection, in   *)
(* the abstract: a lossy feed.  Events are numbered in the order they are  *)
(* published.  A connection accepts any of the events published while it   *)
(* is subscribed, delivers some of what it accepted, each at most once and *)
(* in publication order, and stops for good when it ends.                  *)
(*                                                                         *)
(* EventHub, the mutex, the buffered channels and the writer loop of       *)
(* daemon/events.go, implements it.                                        *)
(***************************************************************************)
EXTENDS Naturals

CONSTANTS Conns, MaxEvents

VARIABLES
  next,      \* number of the next event
  open,      \* connections that are subscribed
  ended,     \* connections that are over
  accepted,  \* accepted and not delivered yet, per connection
  last       \* the last event delivered, per connection

feedVars == <<next, open, ended, accepted, last>>

Init ==
  /\ next = 1
  /\ open = {}
  /\ ended = {}
  /\ accepted = [c \in Conns |-> {}]
  /\ last = [c \in Conns |-> 0]

Open(c) ==
  /\ c \notin open \cup ended
  /\ open' = open \cup {c}
  /\ UNCHANGED <<next, ended, accepted, last>>

\* The event reaches any subset of the open connections.
Publish(taken) ==
  /\ next <= MaxEvents
  /\ taken \subseteq open
  /\ accepted' = [c \in Conns |-> IF c \in taken THEN accepted[c] \cup {next}
                                  ELSE accepted[c]]
  /\ next' = next + 1
  /\ UNCHANGED <<open, ended, last>>

\* Delivery is in order: what was accepted earlier is delivered or lost first.
Deliver(c, e) ==
  /\ e \in accepted[c]
  /\ e > last[c]
  /\ \A d \in accepted[c] : e <= d
  /\ accepted' = [accepted EXCEPT ![c] = @ \ {e}]
  /\ last' = [last EXCEPT ![c] = e]
  /\ UNCHANGED <<next, open, ended>>

\* The oldest accepted event is lost on the way.
Lose(c, e) ==
  /\ e \in accepted[c]
  /\ \A d \in accepted[c] : e <= d
  /\ accepted' = [accepted EXCEPT ![c] = @ \ {e}]
  /\ UNCHANGED <<next, open, ended, last>>

End(c) ==
  /\ c \notin ended
  /\ open' = open \ {c}
  /\ ended' = ended \cup {c}
  /\ accepted' = [accepted EXCEPT ![c] = {}]
  /\ UNCHANGED <<next, last>>

Next ==
  \/ \E taken \in SUBSET Conns : Publish(taken)
  \/ \E c \in Conns : Open(c) \/ End(c)
  \/ \E c \in Conns, e \in 1..MaxEvents : Deliver(c, e) \/ Lose(c, e)

Spec == Init /\ [][Next]_feedVars
=============================================================================
