------------------------- MODULE HubAndSystemProofs -------------------------
(***************************************************************************)
(* Proofs about EventHub, for any set of connections, any buffer and any   *)
(* number of events, and about SystemIntegration, for any number of sites  *)
(* and key pairs.  The two components share nothing but this file.         *)
(***************************************************************************)
EXTENDS EventHub, SystemIntegration, SequenceTheorems, TLAPS

(***************************************************************************)
(* A stream stays increasing when a larger event joins at its end, and     *)
(* when the event that is being written is lost from its middle.           *)
(***************************************************************************)
LEMMA AppendKeepsOrder ==
  ASSUME NEW s \in Seq(Nat), NEW e \in Nat,
         Increasing(s), \A i \in DOMAIN s : s[i] < e
  PROVE  /\ Append(s, e) \in Seq(Nat)
         /\ Increasing(Append(s, e))
         /\ \A i \in DOMAIN Append(s, e) : Append(s, e)[i] < e + 1
<1> DEFINE r == Append(s, e)
<1>1. /\ r \in Seq(Nat)
      /\ Len(r) = Len(s) + 1
      /\ \A i \in 1..Len(s) : r[i] = s[i]
      /\ r[Len(s) + 1] = e
  BY AppendProperties
<1>2. DOMAIN r = 1..(Len(s) + 1) /\ DOMAIN s = 1..Len(s) /\ Len(s) \in Nat
  BY <1>1, LenProperties
<1>3. \A i \in 1..Len(s) : s[i] \in Nat
  BY ElementOfSeq
<1> HIDE DEF r
<1>4. Increasing(r)
  BY <1>1, <1>2, <1>3 DEF Increasing
<1>5. \A i \in DOMAIN r : r[i] < e + 1
  BY <1>1, <1>2, <1>3
<1> QED
  BY <1>1, <1>4, <1>5 DEF r

\* ConcatAssociative for sequences of numbers, as the provers can use it.
LEMMA Associative == \A s, t, u \in Seq(Nat) : (s \o t) \o u = s \o (t \o u)
<1> TAKE s, t, u \in Seq(Nat)
<1> QED
  BY ConcatAssociative

LEMMA LossKeepsOrder ==
  ASSUME NEW s \in Seq(Nat), NEW m \in Seq(Nat), NEW t \in Seq(Nat), NEW n \in Nat,
         Increasing(s \o m \o t), \A i \in DOMAIN (s \o m \o t) : (s \o m \o t)[i] < n
  PROVE  /\ Increasing(s \o <<>> \o t)
         /\ \A i \in DOMAIN (s \o <<>> \o t) : (s \o <<>> \o t)[i] < n
<1> DEFINE full  == s \o m \o t
           short == s \o t
           \* Where an element of the short stream was in the full one.
           at(i) == IF i <= Len(s) THEN i ELSE i + Len(m)
<1>1. s \o <<>> = s
  BY ConcatEmptySeq
<1>2. /\ Len(s) \in Nat /\ Len(m) \in Nat /\ Len(t) \in Nat
      /\ s \o m \in Seq(Nat) /\ full \in Seq(Nat) /\ short \in Seq(Nat)
  BY LenProperties, ConcatProperties
<1>3. /\ Len(s \o m) = Len(s) + Len(m)
      /\ \A i \in 1..(Len(s) + Len(m)) : (s \o m)[i] = IF i <= Len(s) THEN s[i] ELSE m[i - Len(s)]
  BY ConcatProperties
<1>4. /\ Len(full) = Len(s) + Len(m) + Len(t)
      /\ \A i \in 1..(Len(s) + Len(m) + Len(t)) :
           full[i] = IF i <= Len(s) + Len(m) THEN (s \o m)[i] ELSE t[i - (Len(s) + Len(m))]
  BY <1>2, <1>3, ConcatProperties
<1>5. /\ Len(short) = Len(s) + Len(t)
      /\ \A i \in 1..(Len(s) + Len(t)) : short[i] = IF i <= Len(s) THEN s[i] ELSE t[i - Len(s)]
  BY ConcatProperties
<1>6. DOMAIN full = 1..Len(full) /\ DOMAIN short = 1..Len(short)
  BY <1>2, LenProperties
<1>7. ASSUME NEW i \in DOMAIN short
      PROVE  at(i) \in DOMAIN full /\ short[i] = full[at(i)]
  <2>1. i \in 1..(Len(s) + Len(t)) /\ at(i) \in 1..(Len(s) + Len(m) + Len(t))
    BY <1>2, <1>5, <1>6
  <2>2. CASE i <= Len(s)
    <3>1. at(i) = i /\ i \in 1..(Len(s) + Len(m)) /\ i <= Len(s) + Len(m)
      BY <2>1, <2>2, <1>2
    <3>2. full[i] = s[i] /\ short[i] = s[i]
      BY <3>1, <2>1, <2>2, <1>3, <1>4, <1>5
    <3> QED BY <3>1, <3>2, <2>1, <1>4, <1>6
  <2>3. CASE ~(i <= Len(s))
    <3>1. at(i) = i + Len(m) /\ ~(i + Len(m) <= Len(s) + Len(m))
          /\ (i + Len(m)) - (Len(s) + Len(m)) = i - Len(s)
      BY <2>1, <2>3, <1>2
    <3>2. full[at(i)] = t[i - Len(s)] /\ short[i] = t[i - Len(s)]
      BY <3>1, <2>1, <2>3, <1>4, <1>5
    <3> QED BY <3>2, <2>1, <1>4, <1>6
  <2> QED BY <2>2, <2>3
<1>8. ASSUME NEW i \in DOMAIN short, NEW j \in DOMAIN short, i < j
      PROVE  at(i) < at(j)
  BY <1>8, <1>2, <1>5, <1>6
<1> HIDE DEF full, short, at
<1>9. Increasing(short)
  <2> SUFFICES ASSUME NEW i \in DOMAIN short, NEW j \in DOMAIN short, i < j
               PROVE  short[i] < short[j]
    BY DEF Increasing
  <2>1. at(i) \in DOMAIN full /\ at(j) \in DOMAIN full /\ at(i) < at(j)
    BY <1>7, <1>8
  <2>2. full[at(i)] < full[at(j)]
    BY <2>1 DEF Increasing, full
  <2> QED BY <2>2, <1>7
<1>10. \A i \in DOMAIN short : short[i] < n
  BY <1>7 DEF full
<1> QED
  BY <1>1, <1>9, <1>10 DEF short

-----------------------------------------------------------------------------

(***************************************************************************)
(* The strengthening.  The hub knows exactly the connections whose handler *)
(* is between its subscription and its return, and a channel is closed     *)
(* only when its handler has returned.  Every event of a stream is below   *)
(* the next number.                                                        *)
(***************************************************************************)
Registered ==
  \A c \in Conns : /\ c \in clients <=> conn[c] \in {"waiting", "writing", "leaving"}
                   /\ c \in closed => conn[c] = "ended"

OrderedStream(c) ==
  /\ Increasing(Stream(c))
  /\ \A i \in DOMAIN Stream(c) : Stream(c)[i] < next

HubInv ==
  /\ TypeOK
  /\ Registered
  /\ \A c \in Conns : OrderedStream(c)

LEMMA StreamTyped ==
  ASSUME TypeOK, NEW c \in Conns
  PROVE  /\ seen[c] \in Seq(Nat) /\ Writing(c) \in Seq(Nat) /\ chan[c] \in Seq(Nat)
         /\ Stream(c) \in Seq(Nat)
<1>1. Events \subseteq Nat
  BY HubAssumption DEF Events
<1>2. seen[c] \in Seq(Nat) /\ chan[c] \in Seq(Nat)
  BY <1>1, SeqMonotonic DEF TypeOK
<1>3. Writing(c) \in Seq(Nat)
  <2>1. CASE conn[c] = "writing" /\ frame[c] \in Events
    <3>1. frame[c] \in Nat /\ Writing(c) = <<frame[c]>>
      BY <1>1, <2>1 DEF Writing
    <3> QED BY <3>1
  <2>2. CASE ~(conn[c] = "writing" /\ frame[c] \in Events)
    <3>1. Writing(c) = <<>>
      BY <2>2 DEF Writing
    <3> QED BY <3>1, EmptySeq
  <2> QED BY <2>1, <2>2
<1> QED
  BY <1>2, <1>3, ConcatProperties DEF Stream

LEMMA InitHubInv == Init => HubInv
<1> SUFFICES ASSUME Init PROVE HubInv
  OBVIOUS
<1>1. TypeOK
  BY HubAssumption DEF Init, TypeOK, Connected
<1>2. Registered
  BY DEF Init, Registered
<1>3. ASSUME NEW c \in Conns PROVE OrderedStream(c)
  <2>1. Stream(c) = <<>>
    BY ConcatEmptySeq, EmptySeq DEF Init, Stream, Writing
  <2> QED BY <2>1 DEF OrderedStream, Increasing
<1> QED
  BY <1>1, <1>2, <1>3 DEF HubInv

(***************************************************************************)
(* Typing and registration, action by action.                              *)
(***************************************************************************)
LEMMA TypeStep == HubInv /\ [Next]_vars => TypeOK'
<1> SUFFICES ASSUME HubInv, [Next]_vars PROVE TypeOK'
  OBVIOUS
<1> USE HubAssumption DEF HubInv, TypeOK, Events, Connected, Ping
<1>1. CASE Publish
  <2>1. next \in Events /\ next' \in 1..(MaxEvents + 1)
    BY <1>1 DEF Publish
  <2>2. chan' \in [Conns -> Seq(Events)]
    BY <1>1, <2>1, AppendProperties DEF Publish
  <2> QED BY <1>1, <2>1, <2>2 DEF Publish
<1>2. ASSUME NEW c \in Conns, Handler(c) \/ Disconnect(c) PROVE TypeOK'
  <2>1. CASE Upgrade(c)       BY <2>1 DEF Upgrade
  <2>2. CASE Subscribe(c)     BY <2>2 DEF Subscribe
  <2>3. CASE Take(c)
    <3>1. Head(chan[c]) \in Events /\ Tail(chan[c]) \in Seq(Events)
      BY <2>3, HeadTailProperties DEF Take
    <3> QED BY <2>3, <3>1 DEF Take
  <2>4. CASE SendPing(c)      BY <2>4 DEF SendPing
  <2>5. CASE WriteArrives(c)
    <3>1. frame[c] \in Events => Append(seen[c], frame[c]) \in Seq(Events)
      BY AppendProperties
    <3>2. seen' \in [Conns -> Seq(Events)]
      BY <2>5, <3>1 DEF WriteArrives
    <3> QED BY <2>5, <3>2 DEF WriteArrives
  <2>6. CASE WriteLost(c)     BY <2>6 DEF WriteLost
  <2>7. CASE WriteFails(c)    BY <2>7 DEF WriteFails
  <2>8. CASE Unsubscribe(c)   BY <2>8 DEF Unsubscribe
  <2>9. CASE Disconnect(c)    BY <2>9 DEF Disconnect
  <2> QED
    BY <1>2, <2>1, <2>2, <2>3, <2>4, <2>5, <2>6, <2>7, <2>8, <2>9 DEF Handler
<1>3. CASE UNCHANGED vars
  BY <1>3 DEF vars
<1> QED
  BY <1>1, <1>2, <1>3 DEF Next

LEMMA RegisteredStep == HubInv /\ [Next]_vars => Registered'
<1> SUFFICES ASSUME HubInv, [Next]_vars PROVE Registered'
  OBVIOUS
<1> USE DEF HubInv, TypeOK, Registered
<1>1. CASE Publish
  BY <1>1 DEF Publish
<1>2. ASSUME NEW c \in Conns, Handler(c) \/ Disconnect(c) PROVE Registered'
  <2>1. CASE Upgrade(c)       BY <2>1 DEF Upgrade
  <2>2. CASE Subscribe(c)     BY <2>2 DEF Subscribe
  <2>3. CASE Take(c)          BY <2>3 DEF Take
  <2>4. CASE SendPing(c)      BY <2>4 DEF SendPing
  <2>5. CASE WriteArrives(c)  BY <2>5 DEF WriteArrives
  <2>6. CASE WriteLost(c)     BY <2>6 DEF WriteLost
  <2>7. CASE WriteFails(c)    BY <2>7 DEF WriteFails
  <2>8. CASE Unsubscribe(c)   BY <2>8 DEF Unsubscribe
  <2>9. CASE Disconnect(c)    BY <2>9 DEF Disconnect
  <2> QED
    BY <1>2, <2>1, <2>2, <2>3, <2>4, <2>5, <2>6, <2>7, <2>8, <2>9 DEF Handler
<1>3. CASE UNCHANGED vars
  BY <1>3 DEF vars
<1> QED
  BY <1>1, <1>2, <1>3 DEF Next

(***************************************************************************)
(* The order of the streams.  A step of one handler leaves the stream as   *)
(* it is, or loses the event that was being written.                       *)
(***************************************************************************)
LEMMA OrderStep == HubInv /\ [Next]_vars => \A c \in Conns : OrderedStream(c)'
<1> SUFFICES ASSUME HubInv, [Next]_vars, NEW c \in Conns
             PROVE  OrderedStream(c)'
  OBVIOUS
<1>0. /\ TypeOK /\ OrderedStream(c) /\ next \in Nat
      /\ seen[c] \in Seq(Nat) /\ Writing(c) \in Seq(Nat) /\ chan[c] \in Seq(Nat)
      /\ Stream(c) \in Seq(Nat) /\ seen[c] \o Writing(c) \in Seq(Nat)
  BY HubAssumption, StreamTyped, ConcatProperties DEF HubInv, TypeOK
<1>1. ASSUME Stream(c)' = Stream(c), next' = next PROVE OrderedStream(c)'
  BY <1>0, <1>1 DEF OrderedStream, Increasing
<1>2. ASSUME UNCHANGED <<seen, chan, frame, conn, next>> PROVE OrderedStream(c)'
  BY <1>1, <1>2 DEF Stream, Writing
<1>3. CASE Publish
  <2>1. next' = next + 1 /\ seen[c]' = seen[c] /\ Writing(c)' = Writing(c)
    BY <1>3 DEF Publish, Writing
  <2>2. CASE chan[c]' = Append(chan[c], next)
    <3> DEFINE past == seen[c] \o Writing(c)
    <3>a. Append(chan[c], next) = chan[c] \o <<next>>
      BY <1>0, AppendIsConcat
    <3>b. Append(Stream(c), next) = Stream(c) \o <<next>>
      BY <1>0, AppendIsConcat
    <3>c. <<next>> \in Seq(Nat)
      BY <1>0
    <3>d. (past \o chan[c]) \o <<next>> = past \o (chan[c] \o <<next>>)
      BY <1>0, <3>c, Associative
    <3>e. Stream(c)' = past \o chan[c]'
      BY <2>1 DEF Stream
    <3>f. Stream(c) = past \o chan[c]
      BY DEF Stream
    <3>2. Stream(c)' = Append(Stream(c), next)
      BY <2>2, <3>a, <3>b, <3>d, <3>e, <3>f
    <3> QED BY <1>0, <2>1, <3>2, AppendKeepsOrder DEF OrderedStream, Increasing
  <2>3. CASE chan[c]' = chan[c]
    <3>1. Stream(c)' = Stream(c)
      BY <2>1, <2>3 DEF Stream
    <3>2. \A i \in DOMAIN Stream(c) : Stream(c)[i] \in Nat
      BY <1>0, LenProperties, ElementOfSeq
    <3> QED BY <1>0, <2>1, <3>1, <3>2 DEF OrderedStream, Increasing
  <2> QED
    BY <1>3, <2>2, <2>3, <1>0 DEF Publish, TypeOK
<1>4. ASSUME NEW d \in Conns, Handler(d) \/ Disconnect(d) PROVE OrderedStream(c)'
  <2>0. next' = next /\ (c # d => Stream(c)' = Stream(c))
    BY <1>0, <1>4 DEF Handler, Upgrade, Subscribe, Take, SendPing, WriteArrives, WriteLost,
                      WriteFails, Unsubscribe, Disconnect, Stream, Writing, TypeOK
  <2> SUFFICES ASSUME c = d PROVE OrderedStream(c)'
    BY <1>1, <2>0
  <2>1. ASSUME UNCHANGED <<seen, chan>>, Writing(c)' = Writing(c) PROVE OrderedStream(c)'
    BY <2>0, <2>1, <1>1 DEF Stream
  <2>2. ASSUME UNCHANGED <<seen, chan>>, Writing(c)' = <<>> PROVE OrderedStream(c)'
    <3>1. Stream(c)' = seen[c] \o <<>> \o chan[c]
      BY <2>2 DEF Stream
    <3>2. Stream(c) = seen[c] \o Writing(c) \o chan[c]
      BY DEF Stream
    <3>3. /\ Increasing(seen[c] \o <<>> \o chan[c])
          /\ \A i \in DOMAIN (seen[c] \o <<>> \o chan[c]) : (seen[c] \o <<>> \o chan[c])[i] < next
      <4>1. /\ Increasing(seen[c] \o Writing(c) \o chan[c])
            /\ \A i \in DOMAIN (seen[c] \o Writing(c) \o chan[c]) :
                 (seen[c] \o Writing(c) \o chan[c])[i] < next
        BY <1>0, <3>2 DEF OrderedStream
      <4> HIDE DEF Increasing
      <4> QED BY <4>1, <1>0, LossKeepsOrder
    <3> QED BY <2>0, <3>1, <3>3 DEF OrderedStream, Increasing
  <2>3. CASE Upgrade(d)
    BY <2>1, <2>3, <1>0 DEF Upgrade, Writing, TypeOK
  <2>4. CASE Subscribe(d)
    <3>1. Writing(c)' = <<>>
      BY <2>4, <1>0 DEF Subscribe, Writing, TypeOK, Connected, Events
    <3> QED BY <3>1, <2>2, <2>4 DEF Subscribe
  <2>5. CASE Take(d)
    <3> DEFINE head == <<Head(chan[c])>>
               tail == Tail(chan[c])
    <3>1. chan[c] \in Seq(Events) /\ chan[c] # <<>> /\ Head(chan[c]) \in Events
      BY <2>5, <1>0, HeadTailProperties DEF Take, TypeOK
    <3>2. seen[c]' = seen[c] /\ Writing(c) = <<>> /\ Writing(c)' = head /\ chan[c]' = tail
      BY <2>5, <3>1, <1>0 DEF Take, Writing, TypeOK
    <3>3. chan[c] = head \o tail /\ head \in Seq(Nat) /\ tail \in Seq(Nat)
      BY <1>0, <3>1, HeadTailProperties
    <3>4. Stream(c)' = (seen[c] \o head) \o tail
      BY <3>2 DEF Stream
    <3>5. Stream(c) = seen[c] \o chan[c]
      BY <3>2, <1>0, ConcatEmptySeq DEF Stream
    <3> HIDE DEF head, tail
    <3>6. (seen[c] \o head) \o tail = seen[c] \o (head \o tail)
      <4>1. seen[c] \in Seq(Nat) /\ head \in Seq(Nat) /\ tail \in Seq(Nat)
        BY <3>3, <1>0
      <4> QED BY <4>1, Associative, Zenon
    <3> QED BY <3>3, <3>4, <3>5, <3>6, <2>0, <1>1
  <2>6. CASE SendPing(d)
    <3>1. Writing(c)' = <<>>
      BY <2>6, <1>0, HubAssumption DEF SendPing, Writing, TypeOK, Ping, Events
    <3> QED BY <3>1, <2>2, <2>6 DEF SendPing
  <2>7. CASE WriteArrives(d)
    <3>1. chan[c]' = chan[c] /\ Writing(c)' = <<>>
      BY <2>7, <1>0 DEF WriteArrives, Writing, TypeOK
    <3>2. seen[c]' = seen[c] \o Writing(c)
      <4>1. CASE frame[c] \in Events
        <5>1. seen[c]' = Append(seen[c], frame[c]) /\ Writing(c) = <<frame[c]>>
          BY <2>7, <4>1, <1>0 DEF WriteArrives, Writing, TypeOK
        <5> QED BY <5>1, <4>1, <1>0, AppendIsConcat DEF TypeOK
      <4>2. CASE frame[c] \notin Events
        <5>1. seen[c]' = seen[c] /\ Writing(c) = <<>>
          BY <2>7, <4>2, <1>0 DEF WriteArrives, Writing, TypeOK
        <5> QED BY <5>1, <1>0, ConcatEmptySeq
      <4> QED BY <4>1, <4>2
    <3>3. Stream(c)' = Stream(c)
      BY <3>1, <3>2, <1>0, ConcatEmptySeq DEF Stream
    <3> QED BY <3>3, <2>0, <1>1
  <2>8. CASE WriteLost(d)
    <3>1. Writing(c)' = <<>>
      BY <2>8, <1>0 DEF WriteLost, Writing, TypeOK
    <3> QED BY <3>1, <2>2, <2>8 DEF WriteLost
  <2>9. CASE WriteFails(d)
    <3>1. Writing(c)' = <<>>
      BY <2>9, <1>0 DEF WriteFails, Writing, TypeOK
    <3> QED BY <3>1, <2>2, <2>9 DEF WriteFails
  <2>10. CASE Unsubscribe(d)
    <3>1. Writing(c)' = <<>>
      BY <2>10, <1>0 DEF Unsubscribe, Writing, TypeOK
    <3> QED BY <3>1, <2>2, <2>10 DEF Unsubscribe
  <2>11. CASE Disconnect(d)
    BY <2>11, <1>2 DEF Disconnect
  <2> QED
    BY <1>4, <2>3, <2>4, <2>5, <2>6, <2>7, <2>8, <2>9, <2>10, <2>11 DEF Handler
<1>5. CASE UNCHANGED vars
  BY <1>5, <1>2 DEF vars
<1> QED
  BY <1>3, <1>4, <1>5 DEF Next

(***************************************************************************)
(* The invariant, and what it implies.                                     *)
(***************************************************************************)
THEOREM HubInvHolds == Spec => []HubInv
<1>1. HubInv /\ [Next]_vars => HubInv'
  BY TypeStep, RegisteredStep, OrderStep DEF HubInv
<1> QED
  BY InitHubInv, <1>1, PTL DEF Spec

\* Every reachable state is well typed.
THEOREM HubTypeCorrect == Spec => []TypeOK
<1>1. HubInv => TypeOK
  BY DEF HubInv
<1> QED
  BY HubInvHolds, <1>1, PTL

\* Publish never meets a closed channel.
THEOREM NeverSendsOnClosed == Spec => []NoSendOnClosed
<1>1. HubInv => NoSendOnClosed
  BY DEF HubInv, TypeOK, Registered, NoSendOnClosed
<1> QED
  BY HubInvHolds, <1>1, PTL

\* Streams are in publication order, without repetition.
THEOREM StreamsInOrder == Spec => []InOrderOnce
<1>1. HubInv => InOrderOnce
  BY DEF HubInv, OrderedStream, InOrderOnce
<1> QED
  BY HubInvHolds, <1>1, PTL

-----------------------------------------------------------------------------
(* The refinement *)

(***************************************************************************)
(* What a stream is made of: past, present and future events are apart.    *)
(***************************************************************************)
LEMMA StreamParts ==
  ASSUME TypeOK, NEW c \in Conns, OrderedStream(c)
  PROVE  /\ \A i \in DOMAIN seen[c], e \in Elements(Writing(c)) : seen[c][i] < e
         /\ \A e \in Elements(Writing(c)), d \in Elements(chan[c]) : e < d
         /\ \A e \in Pending(c) : e < next
<1> DEFINE s == seen[c]
           w == Writing(c)
           t == chan[c]
<1>1. s \in Seq(Nat) /\ w \in Seq(Nat) /\ t \in Seq(Nat)
  BY StreamTyped
<1>2. Stream(c) = (s \o w) \o t
  BY DEF Stream
<1> HIDE DEF s, w, t
<1>3. /\ Len(s) \in Nat /\ Len(w) \in Nat /\ Len(t) \in Nat /\ s \o w \in Seq(Nat)
      /\ DOMAIN s = 1..Len(s) /\ DOMAIN w = 1..Len(w) /\ DOMAIN t = 1..Len(t)
  BY <1>1, LenProperties, ConcatProperties
<1>4. /\ Len(s \o w) = Len(s) + Len(w)
      /\ \A i \in 1..(Len(s) + Len(w)) : (s \o w)[i] = IF i <= Len(s) THEN s[i] ELSE w[i - Len(s)]
  BY <1>1, ConcatProperties
<1>5. /\ Stream(c) \in Seq(Nat)
      /\ Len(Stream(c)) = Len(s) + Len(w) + Len(t)
      /\ \A i \in 1..(Len(s) + Len(w) + Len(t)) :
           Stream(c)[i] = IF i <= Len(s) + Len(w) THEN (s \o w)[i] ELSE t[i - (Len(s) + Len(w))]
  BY <1>1, <1>2, <1>3, <1>4, ConcatProperties
<1>6. DOMAIN Stream(c) = 1..(Len(s) + Len(w) + Len(t))
  BY <1>5, LenProperties
<1>7. \A i \in DOMAIN s : i \in DOMAIN Stream(c) /\ Stream(c)[i] = s[i]
  <2> TAKE i \in DOMAIN s
  <2>1. /\ i \in 1..(Len(s) + Len(w)) /\ i \in 1..(Len(s) + Len(w) + Len(t))
        /\ i <= Len(s) /\ i <= Len(s) + Len(w)
    BY <1>3
  <2> QED BY <2>1, <1>4, <1>5, <1>6
<1>8. \A i \in DOMAIN w : Len(s) + i \in DOMAIN Stream(c) /\ Stream(c)[Len(s) + i] = w[i]
  <2> TAKE i \in DOMAIN w
  <2>1. /\ Len(s) + i \in 1..(Len(s) + Len(w)) /\ Len(s) + i \in 1..(Len(s) + Len(w) + Len(t))
        /\ ~(Len(s) + i <= Len(s)) /\ (Len(s) + i) - Len(s) = i
    BY <1>3
  <2> QED BY <2>1, <1>4, <1>5, <1>6
<1>9. \A i \in DOMAIN t : /\ Len(s) + Len(w) + i \in DOMAIN Stream(c)
                          /\ Stream(c)[Len(s) + Len(w) + i] = t[i]
  <2> TAKE i \in DOMAIN t
  <2>1. /\ Len(s) + Len(w) + i \in 1..(Len(s) + Len(w) + Len(t))
        /\ ~(Len(s) + Len(w) + i <= Len(s) + Len(w))
        /\ (Len(s) + Len(w) + i) - (Len(s) + Len(w)) = i
    BY <1>3
  <2> QED BY <2>1, <1>5, <1>6
<1>10. \A i, j \in DOMAIN Stream(c) : i < j => Stream(c)[i] < Stream(c)[j]
  BY DEF OrderedStream, Increasing
<1>11. \A i \in DOMAIN s, j \in DOMAIN w : s[i] < w[j]
  <2> TAKE i \in DOMAIN s, j \in DOMAIN w
  <2>1. i < Len(s) + j
    BY <1>3
  <2> QED BY <2>1, <1>7, <1>8, <1>10
<1>12. \A i \in DOMAIN w, j \in DOMAIN t : w[i] < t[j]
  <2> TAKE i \in DOMAIN w, j \in DOMAIN t
  <2>1. Len(s) + i < Len(s) + Len(w) + j
    BY <1>3
  <2> QED BY <2>1, <1>8, <1>9, <1>10
<1>13. \A e \in Pending(c) : e < next
  <2>1. (\A i \in DOMAIN w : w[i] < next) /\ (\A i \in DOMAIN t : t[i] < next)
    BY <1>8, <1>9 DEF OrderedStream
  <2> QED BY <2>1 DEF Pending, Elements, w, t
<1> QED
  BY <1>11, <1>12, <1>13 DEF Elements, s, w, t

\* The elements of the sequences that the actions build.
LEMMA ElementsOf ==
  /\ Elements(<<>>) = {}
  /\ \A e \in Nat : Elements(<<e>>) = {e}
  /\ \A s \in Seq(Nat), e \in Nat : Elements(Append(s, e)) = Elements(s) \cup {e}
  /\ \A s \in Seq(Nat) : s # <<>> => {Head(s)} \cup Elements(Tail(s)) = Elements(s)
<1>1. Elements(<<>>) = {} /\ \A e \in Nat : Elements(<<e>>) = {e}
  BY DEF Elements
<1>2. ASSUME NEW s \in Seq(Nat), NEW e \in Nat
      PROVE  Elements(Append(s, e)) = Elements(s) \cup {e}
  <2> DEFINE r == Append(s, e)
  <2>1. /\ r \in Seq(Nat) /\ Len(r) = Len(s) + 1 /\ \A i \in 1..Len(s) : r[i] = s[i]
        /\ r[Len(s) + 1] = e
    BY AppendProperties
  <2>2. Len(s) \in Nat /\ DOMAIN s = 1..Len(s) /\ DOMAIN r = 1..(Len(s) + 1)
    BY <2>1, LenProperties
  <2> HIDE DEF r
  <2>3. Elements(r) = Elements(s) \cup {e}
    BY <2>1, <2>2 DEF Elements
  <2> QED BY <2>3 DEF r
<1>3. ASSUME NEW s \in Seq(Nat), s # <<>>
      PROVE  {Head(s)} \cup Elements(Tail(s)) = Elements(s)
  <2> DEFINE r == Tail(s)
  <2>1. /\ r \in Seq(Nat) /\ Len(r) = Len(s) - 1 /\ \A i \in 1..Len(r) : r[i] = s[i + 1]
        /\ Head(s) = s[1]
    BY <1>3, HeadTailProperties
  <2>2. Len(s) \in Nat \ {0} /\ DOMAIN s = 1..Len(s) /\ DOMAIN r = 1..Len(r)
    BY <1>3, <2>1, LenProperties, EmptySeq
  <2> HIDE DEF r
  <2>3. \A i \in 1..Len(s) : i = 1 \/ (i - 1 \in 1..Len(r) /\ r[i - 1] = s[i])
    BY <2>1, <2>2
  <2>a. ASSUME NEW i \in 1..Len(s) PROVE s[i] \in {Head(s)} \cup {r[j] : j \in 1..Len(r)}
    BY <2>1, <2>3
  <2>b. ASSUME NEW j \in 1..Len(r) PROVE j + 1 \in 1..Len(s) /\ r[j] = s[j + 1]
    BY <2>1, <2>2
  <2>c. 1 \in 1..Len(s)
    BY <2>2
  <2>4. {Head(s)} \cup Elements(r) = Elements(s)
    BY <2>1, <2>2, <2>a, <2>b, <2>c DEF Elements
  <2> QED BY <2>4 DEF r
<1> QED
  BY <1>1, <1>2, <1>3

(***************************************************************************)
(* The step simulation.  The conjunct on next' is what Publish needs; all  *)
(* other steps of the hub concern one connection d.                        *)
(***************************************************************************)
accepted == [c \in Conns |-> IF conn[c] = "ended" THEN {} ELSE Pending(c)]

latest == [c \in Conns |-> IF seen[c] = <<>> THEN 0 ELSE seen[c][Len(seen[c])]]

ended == {c \in Conns : conn[c] = "ended"}

LEMMA InitRefines == Init => Feed!Init
<1> SUFFICES ASSUME Init PROVE Feed!Init
  OBVIOUS
<1>1. \A c \in Conns : Pending(c) = {}
  BY ElementsOf DEF Init, Pending, Writing
<1> QED
  BY <1>1 DEF Init, Feed!Init

\* A step of the handler of d changes the feed for d only.
LEMMA OneMoves ==
  ASSUME HubInv, NEW d \in Conns, Handler(d) \/ Disconnect(d)
  PROVE  /\ accepted' = [accepted EXCEPT ![d] = IF conn[d]' = "ended" THEN {} ELSE Pending(d)']
         /\ latest' = [latest EXCEPT ![d] = IF seen[d]' = <<>> THEN 0 ELSE seen[d]'[Len(seen[d]')]]
         /\ ended' = IF conn[d]' = "ended" THEN ended \cup {d} ELSE ended \ {d}
         /\ next' = next
<1>1. /\ next' = next
      /\ \A c \in Conns \ {d} : /\ conn[c]' = conn[c] /\ seen[c]' = seen[c]
                                /\ Pending(c)' = Pending(c)
  BY DEF Handler, Upgrade, Subscribe, Take, SendPing, WriteArrives, WriteLost, WriteFails,
         Unsubscribe, Disconnect, Pending, Writing, HubInv, TypeOK
<1> QED
  BY <1>1 DEF accepted, latest, ended

(***************************************************************************)
(* Every step of the hub is a step of the feed, or changes nothing of it.  *)
(***************************************************************************)
LEMMA StepRefines == HubInv /\ [Next]_vars => [Feed!Next]_(Feed!feedVars)
<1> SUFFICES ASSUME HubInv, [Next]_vars
             PROVE  Feed!Next \/ UNCHANGED <<next, clients, ended, accepted, latest>>
  BY DEF Feed!feedVars, accepted, latest, ended
<1>0. /\ TypeOK /\ Registered /\ next \in Nat
      /\ \A c \in Conns : seen[c] \in Seq(Nat) /\ chan[c] \in Seq(Nat) /\ frame[c] \in Nat
  BY HubAssumption, StreamTyped DEF HubInv, TypeOK
<1>1. CASE Publish
  <2> DEFINE taken == {c \in clients : Len(chan[c]) < Capacity}
  <2>1. taken \in SUBSET Conns /\ taken \subseteq clients /\ next <= MaxEvents /\ next' = next + 1
    BY <1>0, <1>1 DEF Publish, TypeOK
  <2>2. ASSUME NEW c \in Conns
        PROVE  Pending(c)' = IF c \in taken THEN Pending(c) \cup {next} ELSE Pending(c)
    <3>1. Writing(c)' = Writing(c)
      BY <1>1 DEF Publish, Writing
    <3>2. chan[c]' = IF c \in taken THEN Append(chan[c], next) ELSE chan[c]
      BY <1>0, <1>1 DEF Publish, TypeOK
    <3>a. Elements(Append(chan[c], next)) = Elements(chan[c]) \cup {next}
      BY <1>0, ElementsOf
    <3>3. Elements(chan[c])' = IF c \in taken THEN Elements(chan[c]) \cup {next}
                                             ELSE Elements(chan[c])
      BY <3>2, <3>a DEF Elements
    <3> QED BY <3>1, <3>3 DEF Pending, Elements
  <2>3. \A c \in taken : conn[c] # "ended"
    BY <1>0 DEF Registered, TypeOK
  <2>4. accepted' = [c \in Conns |-> IF c \in taken THEN accepted[c] \cup {next} ELSE accepted[c]]
    BY <1>1, <2>2, <2>3 DEF accepted, Publish
  <2>5. clients' = clients /\ ended' = ended /\ latest' = latest
    BY <1>1 DEF Publish, ended, latest
  <2> HIDE DEF taken
  <2>6. Feed!Publish(taken)
    BY <2>1, <2>4, <2>5 DEF Feed!Publish, accepted, ended, latest
  <2>7. \A t \in SUBSET Conns : Feed!Publish(t) => Feed!Next
    BY DEF Feed!Next, Feed!Publish
  <2> QED BY <2>1, <2>6, <2>7 DEF Feed!Publish
<1>2. ASSUME NEW d \in Conns, Handler(d) \/ Disconnect(d)
      PROVE  Feed!Next \/ UNCHANGED <<next, clients, ended, accepted, latest>>
  <2> DEFINE f == frame[d]
  <2>0. /\ accepted' = [accepted EXCEPT ![d] = IF conn[d]' = "ended" THEN {} ELSE Pending(d)']
        /\ latest' = [latest EXCEPT ![d] = IF seen[d]' = <<>> THEN 0 ELSE seen[d]'[Len(seen[d]')]]
        /\ ended' = IF conn[d]' = "ended" THEN ended \cup {d} ELSE ended \ {d}
        /\ next' = next
    BY <1>2, OneMoves
  \* A stutter of the feed.
  <2>1. ASSUME clients' = clients, conn[d] # "ended", conn[d]' # "ended", seen[d]' = seen[d],
               Pending(d)' = Pending(d)
        PROVE  UNCHANGED <<next, clients, ended, accepted, latest>>
    BY <2>0, <2>1 DEF accepted, latest, ended
  \* The event being written is lost.
  <2>2. ASSUME conn[d] = "writing", conn[d]' \in {"waiting", "leaving"},
               UNCHANGED <<clients, chan, seen>>, f \in Events
        PROVE  Feed!Lose(d, f)
    <3>1. /\ Writing(d) = <<f>> /\ Writing(d)' = <<>>
          /\ Elements(Writing(d)) = {f} /\ Elements(Writing(d)') = {}
      BY <2>2, <1>0, ElementsOf DEF Writing
    <3>2. Pending(d) = {f} \cup Elements(chan[d]) /\ Pending(d)' = Elements(chan[d])
      BY <2>2, <3>1 DEF Pending, Elements
    <3>3. \A e \in Elements(chan[d]) : f < e
      BY <3>1, StreamParts DEF HubInv
    <3>4. Elements(chan[d]) \subseteq Nat
      BY <1>0, ElementOfSeq, LenProperties DEF Elements
    <3>a. accepted[d] = Pending(d)
      BY <2>2 DEF accepted
    <3>b. f \notin Elements(chan[d])
      BY <3>3, <3>4, <1>0
    <3>c. Pending(d)' = accepted[d] \ {f}
      BY <3>a, <3>b, <3>2
    <3>5. accepted[d] = Pending(d) /\ accepted' = [accepted EXCEPT ![d] = @ \ {f}]
      BY <2>0, <2>2, <3>a, <3>c
    <3>6. f \in accepted[d] /\ \A e \in accepted[d] : f <= e
      BY <3>2, <3>3, <3>4, <3>5, <1>0
    <3>7. next' = next /\ clients' = clients /\ ended' = ended /\ latest' = latest
      BY <2>0, <2>2 DEF latest, ended
    <3> QED BY <3>5, <3>6, <3>7 DEF Feed!Lose, accepted, latest, ended
  \* The handler ends.
  <2>3. ASSUME conn[d] # "ended", conn[d]' = "ended", clients' = clients \ {d}, seen[d]' = seen[d]
        PROVE  Feed!End(d)
    BY <2>0, <2>3 DEF Feed!End, accepted, latest, ended
  <2>4. /\ \A e \in Events : Feed!Lose(d, e) \/ Feed!Deliver(d, e) => Feed!Next
        /\ Feed!End(d) \/ Feed!Open(d) => Feed!Next
    BY DEF Feed!Next, Feed!Lose, Feed!Deliver, Feed!End, Feed!Open, Events
  <2>5. CASE Upgrade(d)
    <3>1. d \notin clients /\ (Pending(d)' = Pending(d) \/ conn[d]' = "ended")
      BY <2>5, <1>0 DEF Upgrade, Registered, Pending, Writing, TypeOK
    <3>2. d \notin clients
      BY <2>5, <1>0 DEF Upgrade, Registered
    <3>3. CASE conn[d]' = "ended"
      BY <3>2, <3>3, <2>3, <2>4, <2>5, <1>0 DEF Upgrade, TypeOK
    <3>4. CASE conn[d]' # "ended"
      BY <3>1, <3>4, <2>1, <2>5 DEF Upgrade
    <3> QED BY <3>3, <3>4
  <2>6. CASE Subscribe(d)
    <3>1. /\ conn[d] = "upgraded" /\ conn[d]' = "writing" /\ clients' = clients \cup {d}
          /\ UNCHANGED <<chan, seen>> /\ frame[d]' = Connected /\ d \notin clients
      BY <2>6, <1>0 DEF Subscribe, TypeOK, Registered
    <3>2. Pending(d)' = Pending(d)
      BY <3>1 DEF Pending, Writing, Connected, Events
    <3>3. UNCHANGED <<next, ended, accepted, latest>>
      BY <2>0, <3>1, <3>2 DEF accepted, latest, ended
    <3>4. Feed!Open(d)
      BY <3>1, <3>3 DEF Feed!Open, accepted, latest, ended
    <3> QED BY <3>4, <2>4
  <2>7. CASE Take(d)
    <3>1. /\ chan[d] # <<>> /\ chan[d] \in Seq(Nat) /\ Head(chan[d]) \in Events /\ Head(chan[d]) \in Nat
      BY <2>7, <1>0, HeadTailProperties DEF Take, TypeOK
    <3>2. /\ Writing(d) = <<>> /\ Writing(d)' = <<Head(chan[d])>> /\ chan[d]' = Tail(chan[d])
          /\ conn[d] = "waiting" /\ conn[d]' = "writing" /\ UNCHANGED <<seen, clients>>
      BY <2>7, <3>1, <1>0 DEF Take, Writing, TypeOK
    <3>3. Pending(d) = Elements(chan[d])
      BY <3>2, ElementsOf DEF Pending
    <3>4. Pending(d)' = {Head(chan[d])} \cup Elements(Tail(chan[d]))
      BY <3>1, <3>2, ElementsOf DEF Pending, Elements
    <3> QED BY <3>1, <3>2, <3>3, <3>4, <2>1, ElementsOf
  <2>8. CASE SendPing(d)
    <3>1. Writing(d) = <<>> /\ Writing(d)' = <<>>
      BY <2>8, <1>0, HubAssumption DEF SendPing, Writing, TypeOK, Ping, Events
    <3> QED BY <3>1, <2>1, <2>8, <1>0 DEF SendPing, Pending, TypeOK
  <2>9. CASE WriteArrives(d)
    <3>1. /\ conn[d] = "writing" /\ conn[d]' = "waiting" /\ UNCHANGED <<clients, chan>>
          /\ Writing(d)' = <<>>
      BY <2>9, <1>0 DEF WriteArrives, TypeOK, Writing
    <3>2. CASE f \in Events
      <4>1. /\ Writing(d) = <<f>> /\ Elements(Writing(d)) = {f} /\ Elements(Writing(d)') = {}
            /\ seen[d]' = Append(seen[d], f)
        BY <2>9, <3>1, <3>2, <1>0, ElementsOf DEF WriteArrives, Writing, TypeOK
      <4>2. Pending(d) = {f} \cup Elements(chan[d]) /\ Pending(d)' = Elements(chan[d])
        BY <3>1, <4>1 DEF Pending, Elements
      <4>3. /\ \A e \in Elements(chan[d]) : f < e
            /\ \A i \in DOMAIN seen[d] : seen[d][i] < f
        BY <4>1, StreamParts DEF HubInv
      <4>4. Elements(chan[d]) \subseteq Nat
        BY <1>0, ElementOfSeq, LenProperties DEF Elements
      <4>a. accepted[d] = Pending(d)
        BY <3>1 DEF accepted
      <4>b. f \notin Elements(chan[d])
        BY <4>3, <4>4, <1>0
      <4>c. Pending(d)' = accepted[d] \ {f}
        BY <4>a, <4>b, <4>2
      <4>5. accepted[d] = Pending(d) /\ accepted' = [accepted EXCEPT ![d] = @ \ {f}]
        BY <2>0, <3>1, <4>a, <4>c
      <4>6. f \in accepted[d] /\ \A e \in accepted[d] : f <= e
        BY <4>2, <4>3, <4>4, <4>5, <1>0
      <4>7. /\ Len(seen[d]) \in Nat /\ DOMAIN seen[d] = 1..Len(seen[d])
            /\ seen[d] # <<>> => Len(seen[d]) \in DOMAIN seen[d]
        BY <1>0, LenProperties, EmptySeq
      <4>8. f > latest[d]
        <5>1. CASE seen[d] = <<>>
          BY <5>1, <3>2, HubAssumption DEF latest, Events
        <5>2. CASE seen[d] # <<>>
          <6>1. latest[d] = seen[d][Len(seen[d])] /\ latest[d] < f
            BY <5>2, <4>3, <4>7 DEF latest
          <6>2. latest[d] \in Nat
            BY <6>1, <5>2, <4>7, <1>0, ElementOfSeq
          <6> QED BY <6>1, <6>2, <1>0
        <5> QED BY <5>1, <5>2
      <4>9. /\ Append(seen[d], f) # <<>> /\ Len(Append(seen[d], f)) = Len(seen[d]) + 1
            /\ Append(seen[d], f)[Len(seen[d]) + 1] = f
        BY <1>0, AppendProperties
      <4>10. latest' = [latest EXCEPT ![d] = f]
        BY <2>0, <4>1, <4>9
      <4>11. next' = next /\ clients' = clients /\ ended' = ended
        BY <2>0, <3>1 DEF ended
      <4>12. Feed!Deliver(d, f)
        BY <4>5, <4>6, <4>8, <4>10, <4>11 DEF Feed!Deliver, accepted, latest, ended
      <4> QED BY <4>12, <3>2, <2>4 DEF Feed!Deliver
    <3>3. CASE f \notin Events
      <4>1. seen' = seen /\ Writing(d) = <<>>
        BY <2>9, <3>3 DEF WriteArrives, Writing
      <4> QED BY <4>1, <3>1, <2>1 DEF Pending
    <3> QED BY <3>2, <3>3
  <2>10. CASE WriteLost(d) \/ WriteFails(d)
    <3>1. /\ conn[d] = "writing" /\ conn[d]' \in {"waiting", "leaving"}
          /\ UNCHANGED <<clients, chan, seen>>
      BY <2>10, <1>0 DEF WriteLost, WriteFails, TypeOK
    <3>2. CASE f \in Events
      BY <3>1, <3>2, <2>2, <2>4 DEF Feed!Lose
    <3>3. CASE f \notin Events
      <4>1. Writing(d) = <<>> /\ Writing(d)' = <<>>
        BY <3>1, <3>3 DEF Writing
      <4> QED BY <4>1, <3>1, <2>1 DEF Pending
    <3> QED BY <3>2, <3>3
  <2>11. CASE Unsubscribe(d)
    <3>1. /\ conn[d] = "leaving" /\ conn[d]' = "ended" /\ clients' = clients \ {d}
          /\ seen[d]' = seen[d]
      BY <2>11, <1>0 DEF Unsubscribe, TypeOK
    <3> QED BY <3>1, <2>3, <2>4
  <2>12. CASE Disconnect(d)
    <3>1. UNCHANGED <<next, clients, conn, chan, frame, seen>>
      BY <2>12 DEF Disconnect
    <3>2. UNCHANGED <<next, clients, ended, accepted, latest>>
      BY <3>1 DEF accepted, latest, ended, Pending, Writing
    <3> QED BY <3>2
  <2> QED
    BY <1>2, <2>5, <2>6, <2>7, <2>8, <2>9, <2>10, <2>11, <2>12 DEF Handler
<1>3. CASE UNCHANGED vars
  BY <1>3 DEF vars, accepted, latest, ended, Pending, Writing
<1> QED
  BY <1>1, <1>2, <1>3 DEF Next

\* The hub and its handlers implement the lossy, ordered, at-most-once feed.
THEOREM HubImplementsFeed == Spec => ImplementsFeed
  BY HubInvHolds, InitRefines, StepRefines, PTL DEF Spec, ImplementsFeed, Feed!Spec

-----------------------------------------------------------------------------
(* SystemIntegration: the programs of the commands *)

Steps ==
  {"checkCA", "writeCert", "writeKey", "loadCA", "siteCert", "siteKey", "existingCA",
   "anchor", "nssDelete", "nssAdd", "checkCap", "setcap", "record", "dnsMain", "dnsTest",
   "zshFile", "hook",
   "runtimes", "untrust", "nssRemove", "readRecord", "dropCap", "forget", "dnsTestOff",
   "dnsMainOff", "zshOff", "hookOff", "purgeConfig", "purgeData"}

RemoveSteps ==
  {"untrust", "nssRemove", "readRecord", "dropCap", "forget", "dnsTestOff", "dnsMainOff",
   "zshOff", "hookOff", "purgeConfig", "purgeData"}

\* What a command does only right after which step.
Chain == {<<"checkCA", "writeCert">>, <<"writeCert", "writeKey">>, <<"loadCA", "siteCert">>,
          <<"siteCert", "siteKey">>, <<"checkCap", "setcap">>, <<"setcap", "record">>,
          <<"zshFile", "hook">>, <<"dropCap", "forget">>}

Chained ==
  {"writeCert", "writeKey", "siteCert", "siteKey", "setcap", "record", "hook", "forget"}

Later(x, s, i) == \E j \in 1..Len(s) : j > i /\ s[j] = x

Whole(s) == s \in Seq(Steps) /\ Len(s) \in Nat /\ Len(s) >= 3 /\ s[1] \notin Chained

Chains(s) == \A i \in 2..Len(s) : s[i] \in Chained => <<s[i - 1], s[i]>> \in Chain

\* What always follows a step.
Groups(s) ==
  \A i \in 1..Len(s) :
    /\ s[i] = "checkCA" => i + 2 <= Len(s) /\ s[i + 1] = "writeCert" /\ s[i + 2] = "writeKey"
    /\ s[i] = "loadCA" => i + 2 <= Len(s) /\ s[i + 1] = "siteCert" /\ s[i + 2] = "siteKey"
    /\ s[i] = "readRecord" => i + 2 <= Len(s) /\ s[i + 1] = "dropCap" /\ s[i + 2] = "forget"
    /\ s[i] = "zshOff" => i + 1 <= Len(s) /\ s[i + 1] = "hookOff"
    /\ s[i] = "setcap" => i + 1 <= Len(s) /\ s[i + 1] = "record"

Kinds(op, s) ==
  \A i \in 1..Len(s) :
    /\ op \in Removing <=> s[i] \in RemoveSteps
    /\ s[i] \in {"loadCA", "siteCert", "siteKey"} => op = "site"
    /\ s[i] \in {"anchor", "nssDelete", "nssAdd"} => op \in Trusting

\* A CA that is made is trusted later on.
Trusts(s) ==
  /\ Later("anchor", s, 0) /\ Later("nssAdd", s, 0)
  /\ \A i \in 1..Len(s) :
       /\ s[i] \in {"checkCA", "writeCert", "writeKey"} => Later("anchor", s, i)
       /\ s[i] \in {"checkCA", "writeCert", "writeKey", "nssDelete"} => Later("nssAdd", s, i)

\* What an uninstall takes back.
TakenBack ==
  {"untrust", "nssRemove", "dropCap", "dnsMainOff", "dnsTestOff", "zshOff", "hookOff"}

Removes(s) == \A x \in TakenBack : Later(x, s, 0)

\* What does not come any more.
Over(s) ==
  \A i, j \in 1..Len(s) :
    j > i => /\ s[i] \in {"purgeConfig", "purgeData"} => s[j] = "purgeData"
             /\ s[i] = "forget" => s[j] # "dropCap"

Shape(op, s) ==
  /\ Whole(s) /\ Chains(s) /\ Groups(s) /\ Kinds(op, s) /\ Over(s)
  /\ op \in Trusting => Trusts(s)
  /\ op \in Removing => Removes(s)

LEMMA BlocksAreSteps ==
  /\ EnsureCA \in Seq(Steps) /\ Trust \in Seq(Steps) /\ Setup \in Seq(Steps)
     /\ Uninstall \in Seq(Steps)
  /\ <<"runtimes">> \in Seq(Steps) /\ <<"existingCA">> \in Seq(Steps)
  /\ <<"loadCA", "siteCert", "siteKey">> \in Seq(Steps)
  /\ <<"purgeConfig", "purgeData">> \in Seq(Steps)
  BY DEF Steps, EnsureCA, Trust, Setup, Uninstall

LEMMA InstallShape == Shape("install", Program["install"])
<1> DEFINE s == Program["install"]
<1>1. s \in Seq(Steps)
  BY BlocksAreSteps DEF Program
<1>2. Len(s) = 14
  BY DEF Program, EnsureCA, Trust, Setup, Uninstall
<1>3. /\ s[1] = "checkCA" /\ s[2] = "writeCert" /\ s[3] = "writeKey" /\ s[4] = "anchor"
      /\ s[5] = "nssDelete" /\ s[6] = "nssAdd" /\ s[7] = "checkCap" /\ s[8] = "setcap"
      /\ s[9] = "record" /\ s[10] = "dnsMain" /\ s[11] = "dnsTest" /\ s[12] = "zshFile"
      /\ s[13] = "hook" /\ s[14] = "runtimes"
  BY DEF Program, EnsureCA, Trust, Setup, Uninstall
<1> HIDE DEF s
<1>4. \A i \in 1..14 : i \in {1, 2, 3, 4, 5, 6, 7, 8, 9, 10, 11, 12, 13, 14}
  OBVIOUS
<1>5. Whole(s)
  BY <1>1, <1>2, <1>3 DEF Whole, Chained
<1>6. Chains(s)
  BY <1>2, <1>3, <1>4 DEF Chains, Chained, Chain
<1>7. Groups(s)
  BY <1>2, <1>3, <1>4 DEF Groups
<1>8. Kinds("install", s)
  BY <1>2, <1>3, <1>4 DEF Kinds, Removing, RemoveSteps, Trusting
<1>9. Trusts(s)
  <2>1. 4 \in 1..Len(s) /\ 6 \in 1..Len(s)
    BY <1>2
  <2>2. (\A i \in 0..3 : Later("anchor", s, i)) /\ (\A i \in 0..5 : Later("nssAdd", s, i))
    BY <1>3, <2>1 DEF Later
  <2> QED
    BY <1>2, <1>3, <1>4, <2>2 DEF Trusts
<1>10. Over(s)
  BY <1>2, <1>3, <1>4 DEF Over
<1> QED
  BY <1>5, <1>6, <1>7, <1>8, <1>9, <1>10 DEF Shape, s, Trusting, Removing

LEMMA RepairShape == Shape("repair", Program["repair"])
<1> DEFINE s == Program["repair"]
<1>1. s \in Seq(Steps)
  BY BlocksAreSteps DEF Program
<1>2. Len(s) = 10
  BY DEF Program, EnsureCA, Trust, Setup, Uninstall
<1>3. /\ s[1] = "anchor" /\ s[2] = "nssDelete" /\ s[3] = "nssAdd" /\ s[4] = "checkCap"
      /\ s[5] = "setcap" /\ s[6] = "record" /\ s[7] = "dnsMain" /\ s[8] = "dnsTest"
      /\ s[9] = "zshFile" /\ s[10] = "hook"
  BY DEF Program, EnsureCA, Trust, Setup, Uninstall
<1> HIDE DEF s
<1>4. \A i \in 1..10 : i \in {1, 2, 3, 4, 5, 6, 7, 8, 9, 10}
  OBVIOUS
<1>5. Whole(s)
  BY <1>1, <1>2, <1>3 DEF Whole, Chained
<1>6. Chains(s)
  BY <1>2, <1>3, <1>4 DEF Chains, Chained, Chain
<1>7. Groups(s)
  BY <1>2, <1>3, <1>4 DEF Groups
<1>8. Kinds("repair", s)
  BY <1>2, <1>3, <1>4 DEF Kinds, Removing, RemoveSteps, Trusting
<1>9. Trusts(s)
  <2>1. 1 \in 1..Len(s) /\ 3 \in 1..Len(s)
    BY <1>2
  <2>2. (\A i \in 0..0 : Later("anchor", s, i)) /\ (\A i \in 0..2 : Later("nssAdd", s, i))
    BY <1>3, <2>1 DEF Later
  <2> QED
    BY <1>2, <1>3, <1>4, <2>2 DEF Trusts
<1>10. Over(s)
  BY <1>2, <1>3, <1>4 DEF Over
<1> QED
  BY <1>5, <1>6, <1>7, <1>8, <1>9, <1>10 DEF Shape, s, Trusting, Removing

LEMMA CertInitShape == Shape("certInit", Program["certInit"])
<1> DEFINE s == Program["certInit"]
<1>1. s \in Seq(Steps)
  BY BlocksAreSteps DEF Program
<1>2. Len(s) = 3
  BY DEF Program, EnsureCA, Trust, Setup, Uninstall
<1>3. /\ s[1] = "checkCA" /\ s[2] = "writeCert" /\ s[3] = "writeKey"
  BY DEF Program, EnsureCA, Trust, Setup, Uninstall
<1> HIDE DEF s
<1>4. \A i \in 1..3 : i \in {1, 2, 3}
  OBVIOUS
<1>5. Whole(s)
  BY <1>1, <1>2, <1>3 DEF Whole, Chained
<1>6. Chains(s)
  BY <1>2, <1>3, <1>4 DEF Chains, Chained, Chain
<1>7. Groups(s)
  BY <1>2, <1>3, <1>4 DEF Groups
<1>8. Kinds("certInit", s)
  BY <1>2, <1>3, <1>4 DEF Kinds, Removing, RemoveSteps, Trusting
<1>10. Over(s)
  BY <1>2, <1>3, <1>4 DEF Over
<1> QED
  BY <1>5, <1>6, <1>7, <1>8, <1>10 DEF Shape, s, Trusting, Removing

LEMMA CertTrustShape == Shape("certTrust", Program["certTrust"])
<1> DEFINE s == Program["certTrust"]
<1>1. s \in Seq(Steps)
  BY BlocksAreSteps DEF Program
<1>2. Len(s) = 4
  BY DEF Program, EnsureCA, Trust, Setup, Uninstall
<1>3. /\ s[1] = "existingCA" /\ s[2] = "anchor" /\ s[3] = "nssDelete" /\ s[4] = "nssAdd"
  BY DEF Program, EnsureCA, Trust, Setup, Uninstall
<1> HIDE DEF s
<1>4. \A i \in 1..4 : i \in {1, 2, 3, 4}
  OBVIOUS
<1>5. Whole(s)
  BY <1>1, <1>2, <1>3 DEF Whole, Chained
<1>6. Chains(s)
  BY <1>2, <1>3, <1>4 DEF Chains, Chained, Chain
<1>7. Groups(s)
  BY <1>2, <1>3, <1>4 DEF Groups
<1>8. Kinds("certTrust", s)
  BY <1>2, <1>3, <1>4 DEF Kinds, Removing, RemoveSteps, Trusting
<1>9. Trusts(s)
  <2>1. 2 \in 1..Len(s) /\ 4 \in 1..Len(s)
    BY <1>2
  <2>2. (\A i \in 0..1 : Later("anchor", s, i)) /\ (\A i \in 0..3 : Later("nssAdd", s, i))
    BY <1>3, <2>1 DEF Later
  <2> QED
    BY <1>2, <1>3, <1>4, <2>2 DEF Trusts
<1>10. Over(s)
  BY <1>2, <1>3, <1>4 DEF Over
<1> QED
  BY <1>5, <1>6, <1>7, <1>8, <1>9, <1>10 DEF Shape, s, Trusting, Removing

LEMMA SiteShape == Shape("site", Program["site"])
<1> DEFINE s == Program["site"]
<1>1. s \in Seq(Steps)
  BY BlocksAreSteps DEF Program
<1>2. Len(s) = 6
  BY DEF Program, EnsureCA, Trust, Setup, Uninstall
<1>3. /\ s[1] = "checkCA" /\ s[2] = "writeCert" /\ s[3] = "writeKey" /\ s[4] = "loadCA"
      /\ s[5] = "siteCert" /\ s[6] = "siteKey"
  BY DEF Program, EnsureCA, Trust, Setup, Uninstall
<1> HIDE DEF s
<1>4. \A i \in 1..6 : i \in {1, 2, 3, 4, 5, 6}
  OBVIOUS
<1>5. Whole(s)
  BY <1>1, <1>2, <1>3 DEF Whole, Chained
<1>6. Chains(s)
  BY <1>2, <1>3, <1>4 DEF Chains, Chained, Chain
<1>7. Groups(s)
  BY <1>2, <1>3, <1>4 DEF Groups
<1>8. Kinds("site", s)
  BY <1>2, <1>3, <1>4 DEF Kinds, Removing, RemoveSteps, Trusting
<1>10. Over(s)
  BY <1>2, <1>3, <1>4 DEF Over
<1> QED
  BY <1>5, <1>6, <1>7, <1>8, <1>10 DEF Shape, s, Trusting, Removing

LEMMA UninstallShape == Shape("uninstall", Program["uninstall"])
<1> DEFINE s == Program["uninstall"]
<1>1. s \in Seq(Steps)
  BY BlocksAreSteps DEF Program
<1>2. Len(s) = 9
  BY DEF Program, EnsureCA, Trust, Setup, Uninstall
<1>3. /\ s[1] = "untrust" /\ s[2] = "nssRemove" /\ s[3] = "readRecord"
      /\ s[4] = "dropCap" /\ s[5] = "forget" /\ s[6] = "dnsTestOff"
      /\ s[7] = "dnsMainOff" /\ s[8] = "zshOff" /\ s[9] = "hookOff"
  BY DEF Program, EnsureCA, Trust, Setup, Uninstall
<1> HIDE DEF s
<1>4. \A i \in 1..9 : i \in {1, 2, 3, 4, 5, 6, 7, 8, 9}
  OBVIOUS
<1>5. Whole(s)
  BY <1>1, <1>2, <1>3 DEF Whole, Chained
<1>6. Chains(s)
  BY <1>2, <1>3, <1>4 DEF Chains, Chained, Chain
<1>7. Groups(s)
  BY <1>2, <1>3, <1>4 DEF Groups
<1>8. Kinds("uninstall", s)
  BY <1>2, <1>3, <1>4 DEF Kinds, Removing, RemoveSteps, Trusting
<1>9. Removes(s)
  <2>1. \A i \in 1..9 : Later(s[i], s, 0)
    BY <1>2 DEF Later
  <2> QED
    BY <1>3, <2>1 DEF Removes, TakenBack
<1>10. Over(s)
  BY <1>2, <1>3, <1>4 DEF Over
<1> QED
  BY <1>5, <1>6, <1>7, <1>8, <1>9, <1>10 DEF Shape, s, Trusting, Removing

LEMMA PurgeShape == Shape("purge", Program["purge"])
<1> DEFINE s == Program["purge"]
<1>1. s \in Seq(Steps)
  BY BlocksAreSteps DEF Program
<1>2. Len(s) = 11
  BY DEF Program, EnsureCA, Trust, Setup, Uninstall
<1>3. /\ s[1] = "untrust" /\ s[2] = "nssRemove" /\ s[3] = "readRecord"
      /\ s[4] = "dropCap" /\ s[5] = "forget" /\ s[6] = "dnsTestOff"
      /\ s[7] = "dnsMainOff" /\ s[8] = "zshOff" /\ s[9] = "hookOff"
      /\ s[10] = "purgeConfig" /\ s[11] = "purgeData"
  BY DEF Program, EnsureCA, Trust, Setup, Uninstall
<1> HIDE DEF s
<1>4. \A i \in 1..11 : i \in {1, 2, 3, 4, 5, 6, 7, 8, 9, 10, 11}
  OBVIOUS
<1>5. Whole(s)
  BY <1>1, <1>2, <1>3 DEF Whole, Chained
<1>6. Chains(s)
  BY <1>2, <1>3, <1>4 DEF Chains, Chained, Chain
<1>7. Groups(s)
  BY <1>2, <1>3, <1>4 DEF Groups
<1>8. Kinds("purge", s)
  BY <1>2, <1>3, <1>4 DEF Kinds, Removing, RemoveSteps, Trusting
<1>9. Removes(s)
  <2>1. \A i \in 1..9 : Later(s[i], s, 0)
    BY <1>2 DEF Later
  <2> QED
    BY <1>3, <2>1 DEF Removes, TakenBack
<1>10. Over(s)
  BY <1>2, <1>3, <1>4 DEF Over
<1> QED
  BY <1>5, <1>6, <1>7, <1>8, <1>9, <1>10 DEF Shape, s, Trusting, Removing

LEMMA Shapes == \A op \in Ops : Shape(op, Program[op])
<1>1. Ops = {"install", "repair", "certInit", "certTrust", "site", "uninstall", "purge"}
  BY DEF Ops, Program
<1> QED
  BY <1>1, InstallShape, RepairShape, CertInitShape, CertTrustShape, SiteShape,
     UninstallShape, PurgeShape
-----------------------------------------------------------------------------
(* SystemIntegration: what is left of a program *)

\* A todo is the end of its program.
LEMMA TodoIsSuffix ==
  ASSUME NEW op \in Ops, NEW t \in Todos(op)
  PROVE  \E k \in Nat :
           /\ t = SubSeq(Program[op], k + 1, Len(Program[op]))
           /\ t \in Seq(Steps) /\ Len(t) = Len(Program[op]) - k /\ Len(t) \in Nat
           /\ \A i \in 1..Len(t) : t[i] = Program[op][i + k]
<1> DEFINE P == Program[op]
<1>1. P \in Seq(Steps) /\ Len(P) \in Nat
  BY Shapes DEF Shape, Whole
<1>2. PICK j \in 1..Len(P) + 1 : t = SubSeq(P, j, Len(P))
  BY DEF Todos
<1> HIDE DEF P
<1>3. /\ t \in Seq(Steps) /\ Len(t) = Len(P) - (j - 1) /\ Len(t) \in Nat
      /\ \A i \in 1..Len(t) : t[i] = P[i + (j - 1)]
  BY <1>1, <1>2, SubSeqProperties
<1>4. j - 1 \in Nat /\ (j - 1) + 1 = j
  BY <1>1, <1>2
<1> QED
  BY <1>2, <1>3, <1>4 DEF P

\* So is what is left of a todo.
LEMMA RestOfTodo ==
  ASSUME NEW op \in Ops, NEW t \in Todos(op), NEW n \in Nat, n < Len(t)
  PROVE  LET r == SubSeq(t, n + 2, Len(t))
         IN  /\ r \in Todos(op) /\ r \in Seq(Steps)
             /\ Len(r) = Len(t) - (n + 1) /\ Len(r) \in Nat
             /\ \A i \in 1..Len(r) : r[i] = t[i + n + 1]
<1> DEFINE r == SubSeq(t, n + 2, Len(t))
<1> DEFINE P == Program[op]
<1>1. P \in Seq(Steps) /\ Len(P) \in Nat
  BY Shapes DEF Shape, Whole
<1>2. PICK k \in Nat :
        /\ t = SubSeq(P, k + 1, Len(P))
        /\ t \in Seq(Steps) /\ Len(t) = Len(P) - k /\ Len(t) \in Nat
        /\ \A i \in 1..Len(t) : t[i] = P[i + k]
  BY TodoIsSuffix
<1> HIDE DEF P
<1>3. /\ r \in Seq(Steps) /\ Len(r) = Len(t) - (n + 1) /\ Len(r) \in Nat
      /\ \A i \in 1..Len(r) : r[i] = t[i + n + 1]
  BY <1>2, SubSeqProperties
<1> HIDE DEF r
<1> DEFINE u == SubSeq(P, k + n + 2, Len(P))
<1>4. /\ u \in Seq(Steps) /\ Len(u) = Len(P) - (k + n + 1)
      /\ \A i \in 1..Len(u) : u[i] = P[i + k + n + 1]
  <2> DEFINE m == k + n + 2
  <2>1. m \in Int /\ m >= 1 /\ Len(P) \in Int /\ m <= Len(P) + 1
    BY <1>1, <1>2
  <2>2. \A i \in m..Len(P) : P[i] \in Steps
    BY <1>1, <2>1, ElementOfSeq
  <2>3. /\ u \in Seq(Steps)
        /\ Len(u) = IF m <= Len(P) THEN Len(P) - m + 1 ELSE 0
        /\ \A i \in 1..(Len(P) - m + 1) : u[i] = P[m + i - 1]
    <3> HIDE DEF m
    <3>1. u = SubSeq(P, m, Len(P))
      BY DEF m
    <3> QED
      BY <2>1, <2>2, <3>1, SubSeqProperties
  <2>4. Len(u) = Len(P) - (k + n + 1) /\ Len(P) - m + 1 = Len(u)
    BY <2>1, <2>3
  <2>5. \A i \in 1..Len(u) : m + i - 1 = i + k + n + 1
    BY <2>1, <2>4
  <2> HIDE DEF m
  <2> QED
    BY <2>3, <2>4, <2>5
<1> HIDE DEF u
<1>5. ASSUME NEW i \in 1..Len(r)
      PROVE  r[i] = u[i]
  <2>1. i + n + 1 \in 1..Len(t) /\ (i + n + 1) + k = i + k + n + 1 /\ i \in 1..Len(u)
    BY <1>2, <1>3, <1>4
  <2> QED
    BY <1>2, <1>3, <1>4, <2>1
<1>6. r = u
  <2>1. Len(r) = Len(u)
    BY <1>2, <1>3, <1>4
  <2> QED
    BY <1>3, <1>4, <1>5, <2>1, SeqEqual
<1>7. u \in Todos(op)
  <2>1. k + n + 2 \in 1..Len(P) + 1
    BY <1>1, <1>2
  <2> QED
    BY <2>1 DEF Todos, P, u
<1> QED
  BY <1>3, <1>6, <1>7 DEF r

\* What a command is about to do.
In(x, t) == \E i \in 1..Len(t) : t[i] = x

\* What the next step tells of the command and of the steps after it.
LEMMA HeadOfTodo ==
  ASSUME NEW op \in Ops, NEW t \in Todos(op), NEW h, t # <<>>, h = Head(t)
  PROVE  /\ Len(t) \in Nat \ {0} /\ t[1] = h /\ t \in Seq(Steps) /\ h \in Steps /\ In(h, t)
         /\ op \in Removing <=> h \in RemoveSteps
         /\ h \in {"loadCA", "siteCert", "siteKey"} => op = "site"
         /\ h \in {"anchor", "nssDelete", "nssAdd"} => op \in Trusting
         /\ op \in Trusting /\ h \in {"checkCA", "writeCert", "writeKey"} => In("anchor", t)
         /\ op \in Trusting /\ h \in {"checkCA", "writeCert", "writeKey", "nssDelete"} =>
              In("nssAdd", t)
         /\ h \in {"purgeConfig", "purgeData"} =>
              \A x : In(x, t) => x \in {"purgeConfig", "purgeData"}
         /\ h = "forget" => ~In("dropCap", t)
         /\ h = "setcap" => Len(t) >= 2 /\ t[2] = "record"
<1> DEFINE P == Program[op]
<1>1. P \in Seq(Steps) /\ Kinds(op, P) /\ Over(P) /\ Groups(P)
      /\ (op \in Trusting => Trusts(P))
  BY Shapes DEF Shape, Whole
<1>2. PICK k \in Nat :
        /\ t = SubSeq(P, k + 1, Len(P))
        /\ t \in Seq(Steps) /\ Len(t) = Len(P) - k /\ Len(t) \in Nat
        /\ \A i \in 1..Len(t) : t[i] = P[i + k]
  BY TodoIsSuffix
<1> HIDE DEF P
<1>3. Len(t) \in Nat \ {0} /\ t[1] = h /\ h \in Steps /\ In(h, t)
  <2>1. Len(t) # 0
    BY <1>2, EmptySeq
  <2>2. t[1] = h
    BY <1>2 
  <2> QED
    BY <1>2, <2>1, <2>2, ElementOfSeq DEF In
<1>4. P[k + 1] = h /\ k + 1 \in 1..Len(P)
  BY <1>1, <1>2, <1>3
<1>5. ASSUME NEW x, Later(x, P, k + 1)
      PROVE  In(x, t)
  <2>1. PICK j \in 1..Len(P) : j > k + 1 /\ P[j] = x
    BY <1>5 DEF Later
  <2>2. j - k \in 1..Len(t) /\ t[j - k] = P[(j - k) + k] /\ (j - k) + k = j
    BY <1>1, <1>2, <2>1
  <2> QED
    BY <2>1, <2>2 DEF In
<1>6. /\ op \in Removing <=> h \in RemoveSteps
      /\ h \in {"loadCA", "siteCert", "siteKey"} => op = "site"
      /\ h \in {"anchor", "nssDelete", "nssAdd"} => op \in Trusting
  BY <1>1, <1>4 DEF Kinds
<1>7. op \in Trusting /\ h \in {"checkCA", "writeCert", "writeKey"} => In("anchor", t)
  BY <1>1, <1>4, <1>5 DEF Trusts
<1>8. op \in Trusting /\ h \in {"checkCA", "writeCert", "writeKey", "nssDelete"} =>
        In("nssAdd", t)
  BY <1>1, <1>4, <1>5 DEF Trusts
<1>9. ASSUME h \in {"purgeConfig", "purgeData"}, NEW x, In(x, t)
      PROVE  x \in {"purgeConfig", "purgeData"}
  <2>1. PICK i \in 1..Len(t) : t[i] = x
    BY <1>9 DEF In
  <2>2. i = 1 \/ (i + k \in 1..Len(P) /\ i + k > k + 1 /\ P[i + k] = x)
    BY <1>1, <1>2, <2>1
  <2> QED
    BY <1>1, <1>3, <1>4, <1>9, <2>1, <2>2 DEF Over
<1>10. h = "forget" => ~In("dropCap", t)
  <2> SUFFICES ASSUME h = "forget", NEW i \in 1..Len(t) PROVE t[i] # "dropCap"
    BY DEF In
  <2>1. i = 1 \/ (i + k \in 1..Len(P) /\ i + k > k + 1 /\ P[i + k] = t[i])
    BY <1>1, <1>2
  <2> QED
    BY <1>1, <1>3, <1>4, <2>1 DEF Over
<1>11. h = "setcap" => Len(t) >= 2 /\ t[2] = "record"
  <2> SUFFICES ASSUME h = "setcap" PROVE Len(t) >= 2 /\ t[2] = "record"
    OBVIOUS
  <2>1. (k + 1) + 1 <= Len(P) /\ P[(k + 1) + 1] = "record"
    BY <1>1, <1>4 DEF Groups
  <2>2. 2 \in 1..Len(t) /\ 2 + k = (k + 1) + 1
    BY <1>1, <1>2, <2>1
  <2> QED
    BY <1>2, <2>1, <2>2
<1> QED
  BY <1>2, <1>3, <1>6, <1>7, <1>8, <1>9, <1>10, <1>11

\* What a program has before it when it begins.
LEMMA ProgramBegins ==
  ASSUME NEW op \in Ops
  PROVE  LET t == Program[op] IN
         /\ t \in Todos(op) /\ t # <<>> /\ Head(t) \notin Chained
         /\ op \in Trusting => In("anchor", t) /\ In("nssAdd", t)
         /\ op \in Removing => \A x \in TakenBack : In(x, t)
<1> DEFINE t == Program[op]
<1>1. /\ t \in Seq(Steps) /\ Len(t) \in Nat /\ Len(t) >= 3 /\ t[1] \notin Chained
      /\ op \in Trusting => Trusts(t)
      /\ op \in Removing => Removes(t)
  BY Shapes DEF Shape, Whole
<1>2. t \in Todos(op)
  <2>1. t = SubSeq(t, 1, Len(t)) /\ 1 \in 1..Len(t) + 1
    BY <1>1, SubSeqFull
  <2> QED
    BY <2>1 DEF Todos
<1> HIDE DEF t
<1>3. t # <<>> /\ Head(t) = t[1]
  BY <1>1
<1>4. \A x : Later(x, t, 0) => In(x, t)
  BY DEF Later, In
<1>5. op \in Trusting => In("anchor", t) /\ In("nssAdd", t)
  BY <1>1, <1>4 DEF Trusts
<1>6. op \in Removing => \A x \in TakenBack : In(x, t)
  BY <1>1, <1>4 DEF Removes
<1> QED
  BY <1>1, <1>2, <1>3, <1>5, <1>6 DEF t

\* What is left when a command is past its next n + 1 steps.
LEMMA Onward ==
  ASSUME NEW op \in Ops, NEW t \in Todos(op), NEW n \in Nat, n < Len(t)
  PROVE  LET r == SubSeq(t, n + 2, Len(t))
         IN  /\ r \in Todos(op)
             /\ \A x \in Chained : r # <<>> /\ Head(r) = x => <<t[n + 1], x>> \in Chain
             /\ \A x : In(x, r) => In(x, t)
             /\ \A x : In(x, t) => In(x, r) \/ \E i \in 1..n + 1 : t[i] = x
<1> DEFINE r == SubSeq(t, n + 2, Len(t))
<1> DEFINE P == Program[op]
<1>1. PICK k \in Nat :
        /\ t = SubSeq(P, k + 1, Len(P))
        /\ t \in Seq(Steps) /\ Len(t) = Len(P) - k /\ Len(t) \in Nat
        /\ \A i \in 1..Len(t) : t[i] = P[i + k]
  BY TodoIsSuffix
<1> HIDE DEF P
<1>2. /\ r \in Todos(op) /\ r \in Seq(Steps)
      /\ Len(r) = Len(t) - (n + 1) /\ Len(r) \in Nat
      /\ \A i \in 1..Len(r) : r[i] = t[i + n + 1]
  BY RestOfTodo
<1> HIDE DEF r
<1>3. ASSUME NEW x \in Chained, r # <<>>, Head(r) = x
      PROVE  <<t[n + 1], x>> \in Chain
  <2>1. Len(r) >= 1 /\ r[1] = x
    BY <1>2, <1>3, EmptySeq
  <2>2. t[n + 2] = x /\ Len(t) >= n + 2
    <3>1. 1 \in 1..Len(r) /\ 1 + n + 1 = n + 2
      BY <1>2, <2>1
    <3>2. r[1] = t[1 + n + 1]
      BY <1>2, <3>1
    <3> QED
      BY <1>1, <1>2, <2>1, <3>1, <3>2
  <2>3. P \in Seq(Steps) /\ Len(P) \in Nat /\ Chains(P)
    BY Shapes DEF Shape, Whole, P
  <2>4. P[n + 1 + k] = t[n + 1] /\ P[n + 2 + k] = x
    <3>1. n + 1 \in 1..Len(t) /\ n + 2 \in 1..Len(t)
      BY <1>1, <2>2
    <3>2. t[n + 1] = P[n + 1 + k] /\ t[n + 2] = P[n + 2 + k]
      BY <1>1, <3>1
    <3> QED
      BY <2>2, <3>2
  <2>5. n + 2 + k \in 2..Len(P) /\ (n + 2 + k) - 1 = n + 1 + k
    BY <1>1, <2>2, <2>3
  <2> QED
    BY <1>3, <2>3, <2>4, <2>5 DEF Chains
<1>4. \A x : In(x, r) => In(x, t)
  <2> SUFFICES ASSUME NEW i \in 1..Len(r) PROVE In(r[i], t)
    BY DEF In
  <2>1. i + n + 1 \in 1..Len(t)
    BY <1>1, <1>2
  <2>2. t[i + n + 1] = r[i]
    BY <1>2
  <2> QED
    BY <2>1, <2>2 DEF In
<1>5. \A x : In(x, t) => In(x, r) \/ \E i \in 1..n + 1 : t[i] = x
  <2> SUFFICES ASSUME NEW i \in 1..Len(t) PROVE In(t[i], r) \/ i \in 1..n + 1
    BY DEF In
  <2>1. i \in 1..n + 1 \/ (i - (n + 1) \in 1..Len(r) /\ r[i - (n + 1)] = t[i])
    BY <1>1, <1>2
  <2> QED
    BY <2>1 DEF In
<1> QED
  BY <1>2, <1>3, <1>4, <1>5 DEF r

LEMMA GoOn ==
  ASSUME NEW op \in Ops, NEW t \in Todos(op), t # <<>>
  PROVE  /\ Tail(t) \in Todos(op)
         /\ \A x \in Chained : Tail(t) # <<>> /\ Head(Tail(t)) = x => <<Head(t), x>> \in Chain
         /\ \A x : In(x, Tail(t)) => In(x, t)
         /\ \A x : In(x, t) => In(x, Tail(t)) \/ x = Head(t)
<1> DEFINE h == Head(t)
           r == Tail(t)
<1>1. Len(t) \in Nat \ {0} /\ t[1] = h /\ t \in Seq(Steps)
  BY HeadOfTodo
<1>2. r = SubSeq(t, 0 + 2, Len(t)) /\ 0 < Len(t)
  BY <1>1, TailIsSubSeq
<1> HIDE DEF r
<1>3. /\ r \in Todos(op)
      /\ \A x \in Chained : r # <<>> /\ Head(r) = x => <<t[0 + 1], x>> \in Chain
      /\ \A x : In(x, r) => In(x, t)
      /\ \A x : In(x, t) => In(x, r) \/ \E i \in 1..0 + 1 : t[i] = x
  BY <1>2, Onward
<1> QED
  BY <1>1, <1>3 DEF r

\* What a step leaves out together with itself when there is nothing to do.
Skipped ==
  {<<"checkCA", "checkCA">>, <<"checkCA", "writeCert">>, <<"checkCA", "writeKey">>,
   <<"loadCA", "loadCA">>, <<"loadCA", "siteCert">>, <<"loadCA", "siteKey">>,
   <<"readRecord", "readRecord">>, <<"readRecord", "dropCap">>, <<"readRecord", "forget">>,
   <<"zshOff", "zshOff">>, <<"zshOff", "hookOff">>}

LEMMA SkipOn ==
  ASSUME NEW op \in Ops, NEW t \in Todos(op), NEW h, t # <<>>, h = Head(t), NEW n,
         (n = 2 /\ h \in {"checkCA", "loadCA", "readRecord"}) \/ (n = 1 /\ h = "zshOff")
  PROVE  LET r == SubSeq(t, n + 2, Len(t))
         IN  /\ r \in Todos(op)
             /\ r # <<>> => Head(r) \notin Chained
             /\ \A x : In(x, r) => In(x, t)
             /\ \A x : In(x, t) => In(x, r) \/ <<h, x>> \in Skipped
<1> DEFINE r == SubSeq(t, n + 2, Len(t))
<1> DEFINE P == Program[op]
<1>1. PICK k \in Nat :
        /\ t = SubSeq(P, k + 1, Len(P))
        /\ t \in Seq(Steps) /\ Len(t) = Len(P) - k /\ Len(t) \in Nat
        /\ \A i \in 1..Len(t) : t[i] = P[i + k]
  BY TodoIsSuffix
<1>2. P \in Seq(Steps) /\ Len(P) \in Nat /\ Groups(P)
  BY Shapes DEF Shape, Whole
<1> HIDE DEF P
<1>3. Len(t) \in Nat \ {0} /\ t[1] = h
  BY HeadOfTodo
<1>4. k + 1 \in 1..Len(P) /\ P[k + 1] = h
  BY <1>1, <1>2, <1>3
<1>5. /\ h = "checkCA" => k + 3 <= Len(P) /\ P[k + 2] = "writeCert" /\ P[k + 3] = "writeKey"
      /\ h = "loadCA" => k + 3 <= Len(P) /\ P[k + 2] = "siteCert" /\ P[k + 3] = "siteKey"
      /\ h = "readRecord" => k + 3 <= Len(P) /\ P[k + 2] = "dropCap" /\ P[k + 3] = "forget"
      /\ h = "zshOff" => k + 2 <= Len(P) /\ P[k + 2] = "hookOff"
  <2>1. (k + 1) + 1 = k + 2 /\ (k + 1) + 2 = k + 3
    OBVIOUS
  <2> QED
    BY <1>4, <1>2, <2>1 DEF Groups
<1>6. /\ h = "checkCA" => 3 <= Len(t) /\ t[2] = "writeCert" /\ t[3] = "writeKey"
      /\ h = "loadCA" => 3 <= Len(t) /\ t[2] = "siteCert" /\ t[3] = "siteKey"
      /\ h = "readRecord" => 3 <= Len(t) /\ t[2] = "dropCap" /\ t[3] = "forget"
      /\ h = "zshOff" => 2 <= Len(t) /\ t[2] = "hookOff"
  BY <1>1, <1>2, <1>5
<1>7. n \in Nat /\ n < Len(t)
  BY <1>3, <1>6
<1>8. /\ r \in Todos(op)
      /\ \A x \in Chained : r # <<>> /\ Head(r) = x => <<t[n + 1], x>> \in Chain
      /\ \A x : In(x, r) => In(x, t)
      /\ \A x : In(x, t) => In(x, r) \/ \E i \in 1..n + 1 : t[i] = x
  BY <1>7, Onward
<1> HIDE DEF r
<1>9. t[n + 1] \in {"writeKey", "siteKey", "forget", "hookOff"}
  BY <1>6
<1>10. r # <<>> => Head(r) \notin Chained
  BY <1>8, <1>9 DEF Chain
<1>11. \A i \in 1..n + 1 : <<h, t[i]>> \in Skipped
  <2>1. n = 2 => \A i \in 1..n + 1 : i = 1 \/ i = 2 \/ i = 3
    OBVIOUS
  <2>2. n = 1 => \A i \in 1..n + 1 : i = 1 \/ i = 2
    OBVIOUS
  <2> QED
    BY <1>3, <1>6, <2>1, <2>2 DEF Skipped
<1> QED
  BY <1>8, <1>10, <1>11 DEF r

-----------------------------------------------------------------------------
(* SystemIntegration: the course of a command *)

Left(c, x) == In(x, cmd[c].todo)

CmdTyped(me, m) ==
  me = Idle \/ (Running(me) /\ me.by <= m /\ (me.op = "site" => me.site \in Domains))

SysTyped == SystemTypeOK /\ \A c \in Commands : CmdTyped(cmd[c], made)

OthersStay(c) == DOMAIN cmd' = Commands /\ \A d \in Commands \ {c} : cmd'[d] = cmd[d]

Goes(c) ==
  /\ OthersStay(c)
  /\ CmdTyped(cmd'[c], made') /\ cmd'[c].op = cmd[c].op /\ cmd'[c].site = cmd[c].site
  /\ \A x : Left(c, x)' => Left(c, x)

\* Step h is done and nothing else.
Moves(c, h) ==
  /\ Goes(c)
  /\ \A x \in Chained : At(c, x)' => <<h, x>> \in Chain
  /\ \A x : Left(c, x) => Left(c, x)' \/ x = h

\* Step h finds nothing to do.
Skips(c, h) ==
  /\ Goes(c)
  /\ \A x \in Chained : ~At(c, x)'
  /\ \A x : Left(c, x) => Left(c, x)' \/ <<h, x>> \in Skipped

Stops(c) == OthersStay(c) /\ cmd'[c] = Idle

\* An idle command is at no step and has none left.
LEMMA IdleIsNothing ==
  ASSUME NEW c \in Commands, cmd[c] = Idle
  PROVE  /\ \A x : ~At(c, x) /\ ~Left(c, x)
         /\ cmd[c].op = "none" /\ cmd[c].todo = <<>>
         /\ cmd[c].op \notin Ops /\ cmd[c].op \notin Trusting /\ cmd[c].op \notin Removing
<1>1. "none" \notin Ops
  BY DEF Ops, Program
<1> QED
  BY <1>1 DEF Idle, At, Left, In, Trusting, Removing

LEMMA RunningIsTyped ==
  ASSUME SysTyped, NEW c \in Commands, cmd[c] # Idle
  PROVE  /\ cmd[c].op \in Ops /\ cmd[c].todo \in Todos(cmd[c].op)
         /\ cmd[c].had \in BOOLEAN /\ cmd[c].site \in Domains \cup {"none"}
            /\ cmd[c].by \in 0..MaxPairs
         /\ cmd[c] \in Locals(cmd[c].op)
         /\ cmd[c].by <= made /\ (cmd[c].op = "site" => cmd[c].site \in Domains)
         /\ DOMAIN cmd = Commands
  BY DEF SysTyped, SystemTypeOK, CmdTyped, Running, Locals

LEMMA NextStep ==
  ASSUME SysTyped, NEW c \in Commands, NEW h, At(c, h)
  PROVE  /\ cmd[c] # Idle /\ cmd[c].op \in Ops /\ h \in Steps /\ Left(c, h)
         /\ cmd[c].op \in Removing <=> h \in RemoveSteps
         /\ h \in {"loadCA", "siteCert", "siteKey"} => cmd[c].op = "site"
         /\ h \in {"anchor", "nssDelete", "nssAdd"} => cmd[c].op \in Trusting
         /\ cmd[c].op \in Trusting /\ h \in {"checkCA", "writeCert", "writeKey"} =>
              Left(c, "anchor")
         /\ cmd[c].op \in Trusting
            /\ h \in {"checkCA", "writeCert", "writeKey", "nssDelete"} => Left(c, "nssAdd")
         /\ h \in {"purgeConfig", "purgeData"} =>
              \A x : Left(c, x) => x \in {"purgeConfig", "purgeData"}
         /\ h = "forget" => ~Left(c, "dropCap")
         /\ \A x : At(c, x) => x = h
<1>1. cmd[c] # Idle
  BY IdleIsNothing
<1>2. cmd[c].op \in Ops /\ cmd[c].todo \in Todos(cmd[c].op)
  BY <1>1, RunningIsTyped
<1>3. cmd[c].todo # <<>> /\ Head(cmd[c].todo) = h
  BY DEF At
<1> QED
  BY <1>1, <1>2, <1>3, HeadOfTodo DEF Left, At

\* A command that takes its next step alone moves by it, whatever it notes down.
LEMMA Advance ==
  ASSUME SysTyped, NEW c \in Commands, NEW h, At(c, h), OthersStay(c),
         CmdTyped(cmd'[c], made'), cmd'[c].op = cmd[c].op, cmd'[c].site = cmd[c].site,
         cmd'[c].todo = Tail(cmd[c].todo)
  PROVE  Moves(c, h)
<1> DEFINE t == cmd[c].todo
           r == cmd'[c].todo
<1>1. cmd[c].op \in Ops /\ t \in Todos(cmd[c].op) /\ t # <<>> /\ h = Head(t)
  BY NextStep, RunningIsTyped DEF At
<1>2. /\ \A x \in Chained : r # <<>> /\ Head(r) = x => <<h, x>> \in Chain
      /\ \A x : In(x, r) => In(x, t)
      /\ \A x : In(x, t) => In(x, r) \/ x = h
  BY <1>1, GoOn
<1> QED
  BY <1>2 DEF Moves, Goes, At, Left

LEMMA GoMoves ==
  ASSUME SysTyped, NEW c \in Commands, NEW h, At(c, h), Go(c), made' = made
  PROVE  Moves(c, h)
<1>1. /\ cmd[c] # Idle /\ cmd[c].op \in Ops /\ cmd[c].todo \in Todos(cmd[c].op)
      /\ cmd[c] \in Locals(cmd[c].op)
      /\ cmd[c].by <= made /\ (cmd[c].op = "site" => cmd[c].site \in Domains)
      /\ DOMAIN cmd = Commands
  BY NextStep, RunningIsTyped
<1>2. Tail(cmd[c].todo) \in Todos(cmd[c].op)
  BY <1>1, GoOn DEF At
<1>3. /\ OthersStay(c)
      /\ cmd'[c] = [cmd[c] EXCEPT !.todo = Tail(cmd[c].todo)]
  BY <1>1 DEF Go, OthersStay
<1>4. /\ cmd'[c].todo = Tail(cmd[c].todo) /\ cmd'[c].op = cmd[c].op
         /\ cmd'[c].site = cmd[c].site
      /\ cmd'[c].by = cmd[c].by
      /\ cmd'[c] \in Locals(cmd[c].op)
  BY <1>1, <1>2, <1>3 DEF Locals
<1>5. CmdTyped(cmd'[c], made')
  BY <1>1, <1>4 DEF CmdTyped, Running
<1> QED
  BY <1>3, <1>4, <1>5, Advance

LEMMA GoByMoves ==
  ASSUME SysTyped, NEW c \in Commands, NEW h, At(c, h), NEW by \in 0..MaxPairs,
         by <= made', made <= made',
         cmd' = [cmd EXCEPT ![c].by = by, ![c].todo = Tail(@)]
  PROVE  Moves(c, h) /\ cmd'[c].by = by
<1>1. /\ cmd[c] # Idle /\ cmd[c].op \in Ops /\ cmd[c].todo \in Todos(cmd[c].op)
      /\ cmd[c] \in Locals(cmd[c].op)
      /\ cmd[c].by <= made /\ (cmd[c].op = "site" => cmd[c].site \in Domains)
      /\ DOMAIN cmd = Commands
  BY NextStep, RunningIsTyped
<1>2. Tail(cmd[c].todo) \in Todos(cmd[c].op)
  BY <1>1, GoOn DEF At
<1>3. /\ OthersStay(c)
      /\ cmd'[c] = [cmd[c] EXCEPT !.by = by, !.todo = Tail(cmd[c].todo)]
  BY <1>1 DEF OthersStay
<1>4. /\ cmd'[c].todo = Tail(cmd[c].todo) /\ cmd'[c].op = cmd[c].op
         /\ cmd'[c].site = cmd[c].site
      /\ cmd'[c].by = by
      /\ cmd'[c] \in Locals(cmd[c].op)
  BY <1>1, <1>2, <1>3 DEF Locals
<1>5. CmdTyped(cmd'[c], made')
  BY <1>1, <1>4 DEF CmdTyped, Running
<1> QED
  BY <1>3, <1>4, <1>5, Advance

LEMMA GoHadMoves ==
  ASSUME SysTyped, NEW c \in Commands, NEW h, At(c, h), NEW had \in BOOLEAN, made' = made,
         cmd' = [cmd EXCEPT ![c].had = had, ![c].todo = Tail(@)]
  PROVE  Moves(c, h) /\ cmd'[c].had = had
<1>1. /\ cmd[c] # Idle /\ cmd[c].op \in Ops /\ cmd[c].todo \in Todos(cmd[c].op)
      /\ cmd[c] \in Locals(cmd[c].op)
      /\ cmd[c].by <= made /\ (cmd[c].op = "site" => cmd[c].site \in Domains)
      /\ DOMAIN cmd = Commands
  BY NextStep, RunningIsTyped
<1>2. Tail(cmd[c].todo) \in Todos(cmd[c].op)
  BY <1>1, GoOn DEF At
<1>3. /\ OthersStay(c)
      /\ cmd'[c] = [cmd[c] EXCEPT !.had = had, !.todo = Tail(cmd[c].todo)]
  BY <1>1 DEF OthersStay
<1>4. /\ cmd'[c].todo = Tail(cmd[c].todo) /\ cmd'[c].op = cmd[c].op
         /\ cmd'[c].site = cmd[c].site
      /\ cmd'[c].by = cmd[c].by /\ cmd'[c].had = had
      /\ cmd'[c] \in Locals(cmd[c].op)
  BY <1>1, <1>2, <1>3 DEF Locals
<1>5. CmdTyped(cmd'[c], made')
  BY <1>1, <1>4 DEF CmdTyped, Running
<1> QED
  BY <1>3, <1>4, <1>5, Advance

LEMMA SkipSkips ==
  ASSUME SysTyped, NEW c \in Commands, NEW h, At(c, h), made' = made, NEW n, Skip(c, n),
         (n = 2 /\ h \in {"checkCA", "loadCA", "readRecord"}) \/ (n = 1 /\ h = "zshOff")
  PROVE  Skips(c, h)
<1> DEFINE t == cmd[c].todo
           r == SubSeq(t, n + 2, Len(t))
<1>1. /\ cmd[c] # Idle /\ cmd[c].op \in Ops /\ t \in Todos(cmd[c].op)
      /\ cmd[c] \in Locals(cmd[c].op)
      /\ cmd[c].by <= made /\ (cmd[c].op = "site" => cmd[c].site \in Domains)
      /\ DOMAIN cmd = Commands
  BY NextStep, RunningIsTyped
<1>2. /\ r \in Todos(cmd[c].op)
      /\ r # <<>> => Head(r) \notin Chained
      /\ \A x : In(x, r) => In(x, t)
      /\ \A x : In(x, t) => In(x, r) \/ <<h, x>> \in Skipped
  BY <1>1, SkipOn DEF At
<1>3. /\ OthersStay(c)
      /\ cmd'[c] = [cmd[c] EXCEPT !.todo = r]
  BY <1>1 DEF Skip, OthersStay
<1> HIDE DEF r
<1>4. /\ cmd'[c].todo = r /\ cmd'[c].op = cmd[c].op /\ cmd'[c].site = cmd[c].site
      /\ cmd'[c].by = cmd[c].by
      /\ cmd'[c] \in Locals(cmd[c].op)
  BY <1>1, <1>2, <1>3 DEF Locals
<1>5. CmdTyped(cmd'[c], made')
  BY <1>1, <1>4 DEF CmdTyped, Running
<1> QED
  BY <1>2, <1>3, <1>4, <1>5 DEF Skips, Goes, At, Left

\* A command that is aborted stops.
LEMMA AbortStops ==
  ASSUME SysTyped, NEW c \in Commands, cmd' = [cmd EXCEPT ![c] = Idle]
  PROVE  Stops(c)
  BY DEF SysTyped, SystemTypeOK, Stops, OthersStay

\* A command that starts has everything before it.
Starts(c) ==
  /\ OthersStay(c)
  /\ CmdTyped(cmd'[c], made') /\ cmd'[c].op \in Ops
  /\ \A x \in Chained : ~At(c, x)'
  /\ cmd'[c].op \in Trusting => Left(c, "anchor")' /\ Left(c, "nssAdd")'
  /\ cmd'[c].op \in Removing => \A x \in TakenBack : Left(c, x)'

LEMMA BeginStarts ==
  ASSUME SystemAssumption, SysTyped, NEW c \in Commands, Begin(c)
  PROVE  Starts(c)
<1>1. PICK op \in Ops : \E d \in IF op = "site" THEN Domains ELSE {"none"} :
        cmd' = [cmd EXCEPT ![c] = [Idle EXCEPT !.op = op, !.todo = Program[op], !.site = d]]
  BY DEF Begin
<1>2. PICK d \in IF op = "site" THEN Domains ELSE {"none"} :
        cmd' = [cmd EXCEPT ![c] = [Idle EXCEPT !.op = op, !.todo = Program[op], !.site = d]]
  BY <1>1
<1>3. /\ Program[op] \in Todos(op) /\ Program[op] # <<>> /\ Head(Program[op]) \notin Chained
      /\ op \in Trusting => In("anchor", Program[op]) /\ In("nssAdd", Program[op])
      /\ op \in Removing => \A x \in TakenBack : In(x, Program[op])
  BY ProgramBegins
<1>4. OthersStay(c) /\ cmd'[c] = [Idle EXCEPT !.op = op, !.todo = Program[op], !.site = d]
  BY <1>2 DEF OthersStay, SysTyped, SystemTypeOK
<1> DEFINE P == Program[op]
<1> HIDE DEF P
<1>5. cmd'[c] = [op |-> op, todo |-> P, had |-> FALSE, site |-> d, by |-> 0]
  BY <1>4 DEF Idle, P
<1>6. made' = made /\ made \in 0..MaxPairs /\ MaxPairs \in Nat
  BY DEF Begin, files, SysTyped, SystemTypeOK, SystemAssumption
<1>7. d \in Domains \cup {"none"} /\ (op = "site" => d \in Domains)
  OBVIOUS
<1>8. cmd'[c] \in Locals(op)
  BY <1>3, <1>5, <1>6, <1>7 DEF P, Locals
<1>9. CmdTyped(cmd'[c], made')
  BY <1>5, <1>6, <1>7, <1>8 DEF CmdTyped, Running
<1> QED
  BY <1>3, <1>4, <1>5, <1>9 DEF Starts, At, Left, P

\* How every action changes the local state of its command.
LEMMA Courses ==
  ASSUME SystemAssumption, SysTyped, NEW c \in Commands
  PROVE  /\ NssAdd(c) => Moves(c, "nssAdd") /\ made' = made
         /\ UntrustCA(c) => Moves(c, "untrust") /\ made' = made
         /\ EnableLowPortBinding(c) => Moves(c, "setcap") /\ made' = made
         /\ Record(c) => Moves(c, "record") /\ made' = made
         /\ DisableLowPortBinding(c) => Moves(c, "dropCap") /\ made' = made
         /\ Forget(c) => Moves(c, "forget") /\ made' = made
         /\ DnsMain(c) => Moves(c, "dnsMain") /\ made' = made
         /\ DnsTest(c) => Moves(c, "dnsTest") /\ made' = made
         /\ DnsTestOff(c) => Moves(c, "dnsTestOff") /\ made' = made
         /\ DnsMainOff(c) => Moves(c, "dnsMainOff") /\ made' = made
         /\ WriteZshIntegration(c) => Moves(c, "zshFile") /\ made' = made
         /\ EnsureZshrcHook(c) => Moves(c, "hook") /\ made' = made
         /\ CommentZshrcHook(c) => Moves(c, "hookOff") /\ made' = made
         /\ Runtimes(c) => Moves(c, "runtimes") /\ made' = made
         /\ PurgeConfig(c) => Moves(c, "purgeConfig") /\ made' = made
         /\ PurgeData(c) => Moves(c, "purgeData") /\ made' = made
         /\ WriteKey(c) => Moves(c, "writeKey") /\ made' = made
         /\ SiteCert(c) => Moves(c, "siteCert") /\ made' = made
         /\ SiteKey(c) => Moves(c, "siteKey") /\ made' = made
         /\ NssDelete(c) =>
              (Moves(c, "nssDelete") \/ (Moves(c, "nssRemove") /\ nss' = 0)) /\ made' = made
         /\ ExistingCA(c) => (Moves(c, "existingCA") \/ Stops(c)) /\ made' = made
         /\ TrustCA(c) => (IF ca.cert = 0 THEN Stops(c) ELSE Moves(c, "anchor"))
            /\ made' = made
         /\ CheckCA(c) =>
              (IF ca.cert # 0 /\ ca.key # 0 THEN Skips(c, "checkCA")
                                         ELSE Moves(c, "checkCA")) /\ made' = made
         /\ ReadRecord(c) =>
              /\ \/ owned /\ Moves(c, "readRecord") /\ blind' = blind
                 \/ ~owned /\ Skips(c, "readRecord") /\ blind' = blind
                 \/ owned /\ Skips(c, "readRecord") /\ blind'
              /\ made' = made
         /\ DisableZsh(c) =>
              (IF zsh.file = "absent" THEN Skips(c, "zshOff") ELSE Moves(c, "zshOff"))
              /\ made' = made
         /\ CheckCap(c) =>
              Moves(c, "checkCap") /\ cmd'[c].had = (cap # "none") /\ made' = made
         /\ WriteCert(c) =>
              Moves(c, "writeCert") /\ cmd'[c].by = made' /\ made' = made + 1
              /\ made' \in 0..MaxPairs
         /\ LoadCA(c) =>
              /\ \/ Skips(c, "loadCA") /\ site[cmd[c].site].key
                 \/ Stops(c)
                 \/ Moves(c, "loadCA") /\ cmd'[c].by = ca.cert /\ ca.cert # 0
                    /\ ca.cert = ca.key
              /\ made' = made
         /\ End(c) => Stops(c) /\ made' = made
         /\ Fail(c) => Stops(c) /\ made' = made
         /\ Begin(c) => Starts(c) /\ made' = made
<1>1. NssAdd(c) => Moves(c, "nssAdd") /\ made' = made
  BY GoMoves DEF NssAdd, files
<1>2. UntrustCA(c) => Moves(c, "untrust") /\ made' = made
  BY GoMoves DEF UntrustCA, files
<1>3. EnableLowPortBinding(c) => Moves(c, "setcap") /\ made' = made
  BY GoMoves DEF EnableLowPortBinding, files
<1>4. Record(c) => Moves(c, "record") /\ made' = made
  BY GoMoves DEF Record, files
<1>5. DisableLowPortBinding(c) => Moves(c, "dropCap") /\ made' = made
  BY GoMoves DEF DisableLowPortBinding, files
<1>6. Forget(c) => Moves(c, "forget") /\ made' = made
  BY GoMoves DEF Forget, files
<1>7. DnsMain(c) => Moves(c, "dnsMain") /\ made' = made
  BY GoMoves DEF DnsMain, files
<1>8. DnsTest(c) => Moves(c, "dnsTest") /\ made' = made
  BY GoMoves DEF DnsTest, files
<1>9. DnsTestOff(c) => Moves(c, "dnsTestOff") /\ made' = made
  BY GoMoves DEF DnsTestOff, files
<1>10. DnsMainOff(c) => Moves(c, "dnsMainOff") /\ made' = made
  BY GoMoves DEF DnsMainOff, files
<1>11. WriteZshIntegration(c) => Moves(c, "zshFile") /\ made' = made
  BY GoMoves DEF WriteZshIntegration, files
<1>12. EnsureZshrcHook(c) => Moves(c, "hook") /\ made' = made
  BY GoMoves DEF EnsureZshrcHook, files
<1>13. CommentZshrcHook(c) => Moves(c, "hookOff") /\ made' = made
  BY GoMoves DEF CommentZshrcHook, files
<1>14. Runtimes(c) => Moves(c, "runtimes") /\ made' = made
  BY GoMoves DEF Runtimes, files
<1>15. PurgeConfig(c) => Moves(c, "purgeConfig") /\ made' = made
  BY GoMoves DEF PurgeConfig, files
<1>16. PurgeData(c) => Moves(c, "purgeData") /\ made' = made
  BY GoMoves DEF PurgeData, files
<1>17. WriteKey(c) => Moves(c, "writeKey") /\ made' = made
  BY GoMoves DEF WriteKey, files
<1>18. SiteCert(c) => Moves(c, "siteCert") /\ made' = made
  BY GoMoves DEF SiteCert, files
<1>19. SiteKey(c) => Moves(c, "siteKey") /\ made' = made
  BY GoMoves DEF SiteKey, files
<1>20. NssDelete(c) =>
         (Moves(c, "nssDelete") \/ (Moves(c, "nssRemove") /\ nss' = 0)) /\ made' = made
  <2> SUFFICES ASSUME NssDelete(c)
               PROVE  (Moves(c, "nssDelete") \/ (Moves(c, "nssRemove") /\ nss' = 0)) /\ made' = made
    OBVIOUS
  <2>1. Go(c) /\ made' = made /\ (At(c, "nssDelete") \/ (At(c, "nssRemove") /\ nss' = 0))
    BY DEF NssDelete, files
  <2> QED
    BY <2>1, GoMoves
<1>21. ExistingCA(c) => (Moves(c, "existingCA") \/ Stops(c)) /\ made' = made
  BY GoMoves, AbortStops DEF ExistingCA, Abort, files
<1>22. TrustCA(c) => (IF ca.cert = 0 THEN Stops(c) ELSE Moves(c, "anchor")) /\ made' = made
  BY GoMoves, AbortStops DEF TrustCA, Abort, files
<1>23. CheckCA(c) =>
        (IF ca.cert # 0 /\ ca.key # 0 THEN Skips(c, "checkCA")
                                         ELSE Moves(c, "checkCA")) /\ made' = made
  BY GoMoves, SkipSkips DEF CheckCA, files
<1>24. ReadRecord(c) =>
         /\ \/ owned /\ Moves(c, "readRecord") /\ blind' = blind
            \/ ~owned /\ Skips(c, "readRecord") /\ blind' = blind
            \/ owned /\ Skips(c, "readRecord") /\ blind'
         /\ made' = made
  BY GoMoves, SkipSkips DEF ReadRecord, files
<1>25. DisableZsh(c) =>
        (IF zsh.file = "absent" THEN Skips(c, "zshOff") ELSE Moves(c, "zshOff"))
        /\ made' = made
  BY GoMoves, SkipSkips DEF DisableZsh, files
<1>26. CheckCap(c) => Moves(c, "checkCap") /\ cmd'[c].had = (cap # "none") /\ made' = made
  BY GoHadMoves DEF CheckCap, files
<1>27. WriteCert(c) =>
         Moves(c, "writeCert") /\ cmd'[c].by = made' /\ made' = made + 1
         /\ made' \in 0..MaxPairs
  <2> SUFFICES ASSUME WriteCert(c)
               PROVE  Moves(c, "writeCert") /\ cmd'[c].by = made' /\ made' = made + 1
                      /\ made' \in 0..MaxPairs
    OBVIOUS
  <2>1. made' = made + 1 /\ made' \in 0..MaxPairs /\ made \in 0..MaxPairs /\ made <= made'
        /\ made' <= made'
    BY DEF WriteCert, SysTyped, SystemTypeOK, SystemAssumption
  <2>2. At(c, "writeCert") /\ cmd' = [cmd EXCEPT ![c].by = made', ![c].todo = Tail(@)]
    BY DEF WriteCert
  <2> QED
    BY <2>1, <2>2, GoByMoves
<1>28. LoadCA(c) =>
        /\ \/ Skips(c, "loadCA") /\ site[cmd[c].site].key
           \/ Stops(c)
           \/ Moves(c, "loadCA") /\ cmd'[c].by = ca.cert /\ ca.cert # 0 /\ ca.cert = ca.key
        /\ made' = made
  <2> SUFFICES ASSUME LoadCA(c)
               PROVE  /\ \/ Skips(c, "loadCA") /\ site[cmd[c].site].key
                         \/ Stops(c)
                         \/ Moves(c, "loadCA") /\ cmd'[c].by = ca.cert /\ ca.cert # 0
                            /\ ca.cert = ca.key
                      /\ made' = made
    OBVIOUS
  <2>1. At(c, "loadCA") /\ made' = made
    BY DEF LoadCA, files
  <2>2. CASE site[cmd[c].site].by # 0 /\ site[cmd[c].site].key
    BY <2>1, <2>2, SkipSkips DEF LoadCA
  <2>3. CASE ~(site[cmd[c].site].by # 0 /\ site[cmd[c].site].key)
             /\ (ca.cert = 0 \/ ca.cert # ca.key)
    BY <2>1, <2>3, AbortStops DEF LoadCA, Abort
  <2>4. CASE ~(site[cmd[c].site].by # 0 /\ site[cmd[c].site].key)
             /\ ~(ca.cert = 0 \/ ca.cert # ca.key)
    <3>1. cmd' = [cmd EXCEPT ![c].by = ca.cert, ![c].todo = Tail(@)]
      BY <2>4 DEF LoadCA
    <3>2. ca.cert \in 0..MaxPairs /\ ca.cert <= made' /\ made <= made'
      BY <2>1 DEF SysTyped, SystemTypeOK, SystemAssumption
    <3> QED
      BY <2>1, <2>4, <3>1, <3>2, GoByMoves
  <2> QED
    BY <2>2, <2>3, <2>4
<1>29. End(c) => Stops(c) /\ made' = made
  BY AbortStops DEF End, files
<1>30. Fail(c) => Stops(c) /\ made' = made
  BY AbortStops DEF Fail, Abort
<1>31. Begin(c) => Starts(c) /\ made' = made
  BY BeginStarts DEF Begin, files
<1> QED
    BY <1>1, <1>2, <1>3, <1>4, <1>5, <1>6, <1>7, <1>8, <1>9, <1>10, <1>11, <1>12, <1>13,
     <1>14, <1>15, <1>16, <1>17, <1>18, <1>19, <1>20, <1>21, <1>22, <1>23, <1>24, <1>25,
     <1>26, <1>27, <1>28, <1>29, <1>30, <1>31

-----------------------------------------------------------------------------
(* SystemIntegration: its types *)

HostTyped ==
  /\ made \in 0..MaxPairs
  /\ ca \in [cert : 0..made, key : 0..made]
  /\ site \in [Domains -> [by : 0..made, key : BOOLEAN]]
  /\ anchor \in 0..made /\ nss \in 0..made
  /\ cap \in {"none", "ours", "user", "shared"}
  /\ owned \in BOOLEAN /\ stray \in BOOLEAN /\ blind \in BOOLEAN /\ trusted \in BOOLEAN
  /\ dns \in [main : {"absent", "on", "off"}, test : {"absent", "on", "off"}]
  /\ zsh \in [file : {"absent", "on", "off"}, hook : {"absent", "on", "off"}]
  /\ last \in Ops \cup {"none"}

\* The types of the host and of the commands apart.
LEMMA TypesInParts ==
  SysTyped <=> /\ HostTyped
               /\ DOMAIN cmd = Commands
               /\ \A c \in Commands : CmdTyped(cmd[c], made)
  BY DEF SysTyped, SystemTypeOK, HostTyped, CmdTyped, FileKind

\* A command that goes on, starts or stops stays a command.
LEMMA CommandsStayTyped ==
  ASSUME SystemAssumption, SysTyped, NEW c \in Commands, made' \in 0..MaxPairs, made <= made',
         Goes(c) \/ Starts(c) \/ Stops(c)
  PROVE  /\ DOMAIN cmd' = Commands
         /\ \A d \in Commands : cmd'[d] = Idle \/ Running(cmd'[d])
         /\ \A d \in Commands : CmdTyped(cmd'[d], made')
<1>1. OthersStay(c) /\ CmdTyped(cmd'[c], made')
  BY DEF Goes, Starts, Stops, CmdTyped
<1>2. ASSUME NEW d \in Commands
      PROVE  CmdTyped(cmd'[d], made')
  <2>1. CASE d = c
    BY <1>1, <2>1
  <2>2. CASE d # c
    <3>1. cmd'[d] = cmd[d] /\ CmdTyped(cmd[d], made)
      BY <1>1, <2>2 DEF OthersStay, SysTyped
    <3>2. CmdTyped(cmd[d], made')
      <4>1. made \in Int /\ made' \in Int
        BY DEF SysTyped, SystemTypeOK, SystemAssumption
      <4>2. Running(cmd[d]) => cmd[d].by \in Int
        BY DEF Running, Locals, SystemAssumption
      <4> QED
        BY <3>1, <4>1, <4>2 DEF CmdTyped
    <3> QED
      BY <3>1, <3>2
  <2> QED
    BY <2>1, <2>2
<1> QED
  BY <1>1, <1>2 DEF OthersStay, CmdTyped


LEMMA EveryStepCourses ==
  ASSUME SystemAssumption, SysTyped, NEW c \in Commands, Step(c)
  PROVE  (Goes(c) \/ Starts(c) \/ Stops(c)) /\ made <= made'
<1>1. made \in Int
  BY DEF SysTyped, SystemTypeOK, SystemAssumption
<1>2. Goes(c) \/ Starts(c) \/ Stops(c)
  BY Courses DEF Step, Moves, Skips
<1>3. made' = made \/ made' = made + 1
  BY Courses DEF Step
<1> QED
  BY <1>1, <1>2, <1>3

LEMMA SystemTypeStep ==
  ASSUME SystemAssumption, SysTyped, [SystemNext]_systemVars
  PROVE  SysTyped'
<1>1. HostTyped /\ MaxPairs \in Nat
  BY TypesInParts DEF SystemAssumption
<1>2. ASSUME NEW c \in Commands, Step(c)
      PROVE  HostTyped'
  <2>0. made \in 0..MaxPairs /\ MaxPairs \in Nat
    BY <1>1 DEF HostTyped
  <2>1. Begin(c) => HostTyped'
    BY <1>1 DEF HostTyped, Begin, files, trust, nginx, shell
  <2>2. End(c) => HostTyped'
    <3> SUFFICES ASSUME End(c) PROVE HostTyped'
      OBVIOUS
    <3>1. cmd[c].op \in Ops
      BY RunningIsTyped DEF End
    <3>2. trusted' \in BOOLEAN /\ last' \in Ops \cup {"none"}
      BY <3>1 DEF End
    <3> QED
      BY <1>1, <3>2 DEF HostTyped, End, files, trust, nginx, shell
  <2>3. Fail(c) => HostTyped'
    <3> SUFFICES ASSUME Fail(c) PROVE HostTyped'
      OBVIOUS
    <3>1. stray' \in BOOLEAN
      BY DEF Fail
    <3>2. made' = made /\ UNCHANGED <<trust, cap, owned, blind, shell, last, trusted>>
      BY DEF Fail, Abort
    <3>3. ca' \in [cert : 0..made, key : 0..made]
          /\ site' \in [Domains -> [by : 0..made, key : BOOLEAN]]
      <4>1. CASE UNCHANGED <<ca, site>>
        BY <1>1, <4>1 DEF HostTyped
      <4>2. ASSUME NEW gone,
                   ca' = [f \in {"cert", "key"} |-> IF f \in gone THEN 0 ELSE ca[f]],
                   site' = [d \in Domains |-> IF d \in gone THEN NoSite ELSE site[d]]
            PROVE  ca' \in [cert : 0..made, key : 0..made]
                   /\ site' \in [Domains -> [by : 0..made, key : BOOLEAN]]
        <5>1. ca'["cert"] \in 0..made /\ ca'["key"] \in 0..made
          BY <1>1, <2>0, <4>2 DEF HostTyped
        <5>2. ca' = [cert |-> ca'["cert"], key |-> ca'["key"]]
          BY <4>2
        <5>3. NoSite \in [by : 0..made, key : BOOLEAN]
          BY <2>0 DEF NoSite
        <5>4. site' \in [Domains -> [by : 0..made, key : BOOLEAN]]
          BY <1>1, <4>2, <5>3 DEF HostTyped
        <5> QED
          BY <5>1, <5>2, <5>4
      <4> QED
        BY <4>1, <4>2 DEF Fail
    <3> QED
      BY <1>1, <3>1, <3>2, <3>3 DEF HostTyped, trust, shell
  <2>4. CheckCA(c) => HostTyped'
    BY <1>1 DEF HostTyped, CheckCA, Skip, Go, files, trust, nginx, shell
  <2>5. WriteCert(c) => HostTyped'
    BY <1>1 DEF HostTyped, WriteCert, trust, nginx, shell
  <2>6. WriteKey(c) => HostTyped'
    <3>1. WriteKey(c) => cmd[c].by \in 0..made
      BY <2>0, NextStep, RunningIsTyped DEF WriteKey
    <3> QED
      BY <1>1, <3>1 DEF HostTyped, WriteKey, Go, trust, nginx, shell
  <2>7. LoadCA(c) => HostTyped'
    BY <1>1 DEF HostTyped, LoadCA, Skip, Abort, files, trust, nginx, shell
  <2>8. SiteCert(c) => HostTyped'
    <3>1. SiteCert(c) => cmd[c].by \in 0..made /\ cmd[c].site \in Domains
      BY <2>0, NextStep, RunningIsTyped DEF SiteCert
    <3> QED
      BY <1>1, <3>1 DEF HostTyped, SiteCert, Go, trust, nginx, shell
  <2>9. SiteKey(c) => HostTyped'
    <3>1. SiteKey(c) => cmd[c].site \in Domains
      BY NextStep, RunningIsTyped DEF SiteKey
    <3> SUFFICES ASSUME SiteKey(c) PROVE HostTyped'
      OBVIOUS
    <3>2. site' = [site EXCEPT ![cmd[c].site].key = TRUE] /\ made' = made
      BY DEF SiteKey
    <3>3. site' \in [Domains -> [by : 0..made, key : BOOLEAN]]
      <4>1. [site[cmd[c].site] EXCEPT !.key = TRUE] \in [by : 0..made, key : BOOLEAN]
        BY <1>1, <3>1 DEF HostTyped
      <4> QED
        BY <1>1, <3>1, <3>2, <4>1 DEF HostTyped
    <3> QED
      BY <1>1, <3>2, <3>3 DEF HostTyped, SiteKey, Go, trust, nginx, shell
  <2>10. ExistingCA(c) => HostTyped'
    BY <1>1 DEF HostTyped, ExistingCA, Go, Abort, files, trust, nginx, shell
  <2>11. TrustCA(c) => HostTyped'
    BY <1>1 DEF HostTyped, TrustCA, Go, Abort, files, nginx, shell
  <2>12. NssDelete(c) => HostTyped'
    BY <1>1 DEF HostTyped, NssDelete, Go, files, nginx, shell
  <2>13. NssAdd(c) => HostTyped'
    BY <1>1 DEF HostTyped, NssAdd, Go, files, nginx, shell
  <2>14. UntrustCA(c) => HostTyped'
    BY <1>1 DEF HostTyped, UntrustCA, Go, files, nginx, shell
  <2>15. CheckCap(c) => HostTyped'
    BY <1>1 DEF HostTyped, CheckCap, files, trust, nginx, shell
  <2>16. EnableLowPortBinding(c) => HostTyped'
    BY <1>1 DEF HostTyped, EnableLowPortBinding, Go, files, trust, shell
  <2>17. Record(c) => HostTyped'
    BY <1>1 DEF HostTyped, Record, Go, files, trust, shell
  <2>18. ReadRecord(c) => HostTyped'
    BY <1>1 DEF HostTyped, ReadRecord, Skip, Go, files, trust, nginx, shell
  <2>19. DisableLowPortBinding(c) => HostTyped'
    BY <1>1 DEF HostTyped, DisableLowPortBinding, Go, files, trust, shell
  <2>20. Forget(c) => HostTyped'
    BY <1>1 DEF HostTyped, Forget, Go, files, trust, shell
  <2>21. DnsMain(c) => HostTyped'
    BY <1>1 DEF HostTyped, DnsMain, Go, files, trust, nginx
  <2>22. DnsTest(c) => HostTyped'
    BY <1>1 DEF HostTyped, DnsTest, Go, files, trust, nginx
  <2>23. DnsTestOff(c) => HostTyped'
    BY <1>1 DEF HostTyped, DnsTestOff, Go, files, trust, nginx, Off
  <2>24. DnsMainOff(c) => HostTyped'
    BY <1>1 DEF HostTyped, DnsMainOff, Go, files, trust, nginx, Off
  <2>25. WriteZshIntegration(c) => HostTyped'
    BY <1>1 DEF HostTyped, WriteZshIntegration, Go, files, trust, nginx
  <2>26. EnsureZshrcHook(c) => HostTyped'
    BY <1>1 DEF HostTyped, EnsureZshrcHook, Go, files, trust, nginx
  <2>27. DisableZsh(c) => HostTyped'
    BY <1>1 DEF HostTyped, DisableZsh, Skip, Go, files, trust, nginx
  <2>28. CommentZshrcHook(c) => HostTyped'
    BY <1>1 DEF HostTyped, CommentZshrcHook, Go, files, trust, nginx, Off
  <2>29. Runtimes(c) => HostTyped'
    BY <1>1 DEF HostTyped, Runtimes, Go, files, trust, nginx, shell
  <2>30. PurgeConfig(c) => HostTyped'
    BY <1>1 DEF HostTyped, PurgeConfig, Go, files, trust
  <2>31. PurgeData(c) => HostTyped'
    BY <1>1 DEF HostTyped, PurgeData, Go, trust, nginx, shell, NoCA, NoSite
  <2> QED
    BY <1>2, <2>1, <2>2, <2>3, <2>4, <2>5, <2>6, <2>7, <2>8, <2>9, <2>10, <2>11, <2>12,
       <2>13, <2>14, <2>15, <2>16, <2>17, <2>18, <2>19, <2>20, <2>21, <2>22, <2>23,
       <2>24, <2>25, <2>26, <2>27, <2>28, <2>29, <2>30, <2>31 DEF Step
<1>3. ASSUME NEW c \in Commands, Step(c)
      PROVE  SysTyped'
  <2>1. (Goes(c) \/ Starts(c) \/ Stops(c)) /\ made <= made' /\ HostTyped'
    BY <1>2, <1>3, EveryStepCourses
  <2>2. made' \in 0..MaxPairs
    BY <2>1 DEF HostTyped
  <2>3. DOMAIN cmd' = Commands /\ \A d \in Commands : CmdTyped(cmd'[d], made')
    BY <2>1, <2>2, CommandsStayTyped
  <2> QED
    BY <2>1, <2>3 DEF SysTyped, SystemTypeOK, HostTyped, CmdTyped, FileKind
<1>4. CASE UserSetcap
  BY <1>1, <1>4, TypesInParts DEF UserSetcap, HostTyped, files, trust, shell, SysTyped,
     SystemTypeOK, CmdTyped, FileKind
<1>5. CASE UpgradeNginx
  BY <1>1, <1>5, TypesInParts DEF UpgradeNginx, HostTyped, files, trust, shell, SysTyped,
     SystemTypeOK, CmdTyped, FileKind
<1>6. CASE UNCHANGED systemVars
  BY <1>6 DEF systemVars, files, trust, nginx, shell, SysTyped, SystemTypeOK, CmdTyped
<1> QED
  BY <1>3, <1>4, <1>5, <1>6 DEF SystemNext

LEMMA SystemTypeInit ==
  ASSUME SystemAssumption, SystemInit
  PROVE  SysTyped
<1>1. HostTyped
  <2>1. NoSite \in [by : 0..0, key : BOOLEAN]
    BY DEF NoSite
  <2> QED
    <3>1. made = 0 /\ 0 \in 0..MaxPairs /\ 0 \in 0..0
      BY DEF SystemInit, SystemAssumption
    <3>2. ca \in [cert : 0..made, key : 0..made] /\ anchor \in 0..made /\ nss \in 0..made
      BY <3>1 DEF SystemInit, NoCA
    <3>3. site \in [Domains -> [by : 0..made, key : BOOLEAN]]
      BY <2>1, <3>1 DEF SystemInit
    <3>4. /\ cap \in {"none", "ours", "user", "shared"}
          /\ owned \in BOOLEAN /\ stray \in BOOLEAN /\ blind \in BOOLEAN /\ trusted \in BOOLEAN
          /\ last \in Ops \cup {"none"}
      BY DEF SystemInit
    <3>5. /\ dns \in [main : {"absent", "on", "off"}, test : {"absent", "on", "off"}]
          /\ zsh \in [file : {"absent", "on", "off"}, hook : {"absent", "on", "off"}]
      BY DEF SystemInit
    <3> QED
      BY <3>1, <3>2, <3>3, <3>4, <3>5 DEF HostTyped
<1>2. DOMAIN cmd = Commands /\ \A c \in Commands : CmdTyped(cmd[c], made)
  BY DEF SystemInit, CmdTyped
<1> QED
  BY <1>1, <1>2, TypesInParts

(***************************************************************************)
(* Whatever commands run at the same time and wherever they are stopped,   *)
(* every one of them is at a step of its program, and no file holds a      *)
(* certificate of a CA that was never made.                                *)
(***************************************************************************)
THEOREM SystemTypeCorrect == SystemSpec => []SystemTypeOK
<1> USE SystemAssumption
<1>1. SystemInit => SysTyped
  BY SystemTypeInit
<1>2. SysTyped /\ [SystemNext]_systemVars => SysTyped'
  BY SystemTypeStep
<1>3. SysTyped => SystemTypeOK
  BY DEF SysTyped
<1> QED
  BY <1>1, <1>2, <1>3, PTL DEF SystemSpec

-----------------------------------------------------------------------------
(* SystemIntegration: one command after the other *)

Sole == \A c, d \in Commands : cmd[c] # Idle /\ cmd[d] # Idle => c = d

\* All other commands wait for one that runs.
LEMMA Alone ==
  ASSUME SystemAssumption, SysTyped, Sole, "overlap" \notin Faults, NEW c \in Commands,
         Step(c)
  PROVE  /\ \A d \in Commands \ {c} : cmd[d] = Idle /\ cmd'[d] = Idle
         /\ ~Begin(c) => cmd[c] # Idle
         /\ Sole'
<1>1. Begin(c) => \A d \in Commands \ {c} : cmd[d] = Idle
  BY DEF Begin, AllIdle
<1>2. ASSUME ~Begin(c)
      PROVE  cmd[c] # Idle
  <2>1. cmd[c].todo # <<>> \/ End(c)
    BY <1>2 DEF Step, Fail, At,
       CheckCA, WriteCert, WriteKey, LoadCA, SiteCert, SiteKey, ExistingCA,
          TrustCA, NssDelete, NssAdd, UntrustCA, CheckCap, EnableLowPortBinding,
          Record, ReadRecord, DisableLowPortBinding, Forget, DnsMain, DnsTest,
          DnsTestOff, DnsMainOff, WriteZshIntegration, EnsureZshrcHook, DisableZsh,
          CommentZshrcHook, Runtimes, PurgeConfig, PurgeData
  <2> QED
    BY <2>1, IdleIsNothing DEF End
<1>3. ~Begin(c) => \A d \in Commands \ {c} : cmd[d] = Idle
  BY <1>2 DEF Sole
<1>4. OthersStay(c)
  BY EveryStepCourses DEF Goes, Starts, Stops
<1>5. \A d \in Commands \ {c} : cmd[d] = Idle /\ cmd'[d] = Idle
  BY <1>1, <1>3, <1>4 DEF OthersStay
<1> QED
  BY <1>2, <1>5 DEF Sole

\* Only the begin and the end of a command are history.
LEMMA HistoryStays ==
  ASSUME NEW c \in Commands, Step(c), ~Begin(c), ~End(c)
  PROVE  trusted' = trusted /\ last' = last
  BY DEF Step, Fail, Go, Skip, Abort,
       CheckCA, WriteCert, WriteKey, LoadCA, SiteCert, SiteKey, ExistingCA,
          TrustCA, NssDelete, NssAdd, UntrustCA, CheckCap, EnableLowPortBinding,
          Record, ReadRecord, DisableLowPortBinding, Forget, DnsMain, DnsTest,
          DnsTestOff, DnsMainOff, WriteZshIntegration, EnsureZshrcHook, DisableZsh,
          CommentZshrcHook, Runtimes, PurgeConfig, PurgeData

\* What the user does to nginx between two commands.
LEMMA NobodyMoves ==
  ASSUME UserSetcap \/ UpgradeNginx \/ UNCHANGED systemVars
  PROVE  UNCHANGED <<made, ca, site, anchor, nss, owned, dns, zsh, cmd, trusted>>
  BY DEF UserSetcap, UpgradeNginx, systemVars, files, trust, nginx, shell

-----------------------------------------------------------------------------
(* SystemIntegration: the certificates *)

\* The CA is of one piece as soon as it has its key, and has signed every site
\* that has one.
CaWhole ==
  /\ ca.key # 0 => ca.cert = ca.key
  /\ \A d \in Domains : site[d].key => ca.key # 0 /\ site[d].by = ca.cert
  /\ trusted => ca.key # 0 /\ anchor = ca.cert /\ nss = ca.cert

\* What a command has seen, and what it has done.
CaCourse(c) ==
  /\ At(c, "writeCert") => ca.key = 0
  /\ At(c, "writeKey") => ca.key = 0 /\ ca.cert # 0 /\ cmd[c].by = ca.cert
  /\ At(c, "siteCert") => ca.key # 0 /\ cmd[c].by = ca.cert
  /\ At(c, "siteKey") => ca.key # 0 /\ site[cmd[c].site].by = ca.cert
  /\ cmd[c].op \in Trusting \cup Removing => ~trusted
  /\ cmd[c].op \in Trusting => /\ Left(c, "anchor") \/ anchor = ca.cert
                               /\ Left(c, "nssAdd") \/ nss = ca.cert

CaInv == SysTyped /\ Sole /\ CaWhole /\ \A c \in Commands : CaCourse(c)

\* A command that is done or aborted promises nothing.
LEMMA StoppedCaCourse ==
  \A c \in Commands : cmd'[c] = Idle => CaCourse(c)'
<1>1. "none" \notin Trusting /\ "none" \notin Removing
  BY DEF Trusting, Removing
<1> QED
  BY <1>1 DEF CaCourse, At, Left, In, Idle

\* A step that leaves the certificates and the trust stores alone, and does not
\* lead to one that writes a file of theirs.
LEMMA CaQuiet ==
  ASSUME NEW c \in Commands, CaWhole, CaCourse(c),
         UNCHANGED <<ca, site, anchor, nss, trusted>>,
         NEW h \in Steps \ {"writeCert", "siteCert", "anchor", "nssAdd"},
         (Moves(c, h) /\ h # "checkCA" /\ h # "loadCA") \/ Skips(c, h)
  PROVE  CaWhole' /\ CaCourse(c)'
<1>1. CaWhole'
  BY DEF CaWhole
<1>2. /\ ~At(c, "writeCert")' /\ ~At(c, "writeKey")' /\ ~At(c, "siteCert")'
         /\ ~At(c, "siteKey")'
  BY DEF Moves, Skips, Chained, Chain, Steps
<1>3. /\ cmd'[c].op = cmd[c].op
      /\ Left(c, "anchor") => Left(c, "anchor")'
      /\ Left(c, "nssAdd") => Left(c, "nssAdd")'
  BY DEF Moves, Skips, Goes, Skipped
<1> QED
  BY <1>1, <1>2, <1>3 DEF CaCourse

LEMMA CaStep ==
  ASSUME SystemAssumption, "overlap" \notin Faults, "torn" \notin Faults,
         SysTyped, CaWhole, NEW c \in Commands, CaCourse(c), Step(c)
  PROVE  CaWhole' /\ CaCourse(c)'
<1> USE DEF trust
<1>1. CASE Begin(c)
  <2>1. Starts(c) /\ UNCHANGED <<made, ca, site, anchor, nss>>
    BY <1>1, Courses DEF Begin, files
  <2>2. trusted' = (trusted /\ cmd'[c].op \notin Trusting \cup Removing)
    <3>1. PICK op \in Ops :
            /\ \E d \in IF op = "site" THEN Domains ELSE {"none"} :
                 cmd' = [cmd EXCEPT ![c] =
                           [Idle EXCEPT !.op = op, !.todo = Program[op], !.site = d]]
            /\ trusted' = (trusted /\ op \notin Trusting \cup Removing)
      BY <1>1 DEF Begin
    <3>2. cmd'[c].op = op
      BY <3>1 DEF SysTyped, SystemTypeOK, Idle
    <3> QED
      BY <3>1, <3>2
  <2>3. CaWhole'
    BY <2>1, <2>2 DEF CaWhole
  <2>4. ~At(c, "writeCert")' /\ ~At(c, "writeKey")' /\ ~At(c, "siteCert")'
        /\ ~At(c, "siteKey")'
    BY <2>1 DEF Starts, Chained
  <2> QED
    BY <2>1, <2>2, <2>3, <2>4 DEF CaCourse, Starts
<1>2. CASE End(c)
  <2>1. cmd'[c] = Idle /\ UNCHANGED <<made, ca, site, anchor, nss>> /\ cmd[c].todo = <<>>
    BY <1>2, Courses DEF End, files, Stops
  <2>2. trusted' = (trusted \/ (cmd[c].op \in Trusting /\ ca.key # 0))
    BY <1>2 DEF End
  <2>3. ~Left(c, "anchor") /\ ~Left(c, "nssAdd")
    BY <2>1 DEF Left, In
  <2>4. CaWhole'
    BY <2>1, <2>2, <2>3 DEF CaWhole, CaCourse
  <2> QED
    BY <2>1, <2>4, StoppedCaCourse
<1>3. CASE Fail(c)
  <2>1. cmd'[c] = Idle /\ UNCHANGED <<made, ca, site, anchor, nss>>
    BY <1>3, Courses DEF Fail, Stops
  <2>2. trusted' = trusted
    BY <1>3 DEF Fail, Abort
  <2>3. CaWhole'
    BY <2>1, <2>2 DEF CaWhole
  <2> QED
    BY <2>1, <2>3, StoppedCaCourse
<1>4. CASE CheckCA(c)
  <2>1. UNCHANGED <<ca, site, anchor, nss>> /\ trusted' = trusted /\ At(c, "checkCA")
    BY <1>4 DEF CheckCA, files, Go, Skip
  <2>2. CASE ca.cert # 0 /\ ca.key # 0
    BY <1>4, <2>1, <2>2, Courses, CaQuiet DEF Steps
  <2>3. CASE ~(ca.cert # 0 /\ ca.key # 0)
    <3>1. Moves(c, "checkCA")
      BY <1>4, <2>3, Courses
    <3>2. ca.key = 0
      BY <2>3 DEF CaWhole
    <3>3. ~At(c, "writeKey")' /\ ~At(c, "siteCert")' /\ ~At(c, "siteKey")'
      BY <3>1 DEF Moves, Chained, Chain
    <3>4. /\ cmd'[c].op = cmd[c].op
          /\ Left(c, "anchor") => Left(c, "anchor")'
          /\ Left(c, "nssAdd") => Left(c, "nssAdd")'
      BY <3>1 DEF Moves, Goes
    <3> QED
      BY <2>1, <3>2, <3>3, <3>4 DEF CaWhole, CaCourse
  <2> QED
    BY <2>2, <2>3
<1>5. CASE WriteCert(c)
  <2>1. /\ Moves(c, "writeCert") /\ cmd'[c].by = made' /\ made' # 0
        /\ At(c, "writeCert") /\ UNCHANGED <<site, anchor, nss, trusted>>
    <3>1. Moves(c, "writeCert") /\ cmd'[c].by = made' /\ made' = made + 1
      BY <1>5, Courses
    <3>2. made \in Nat
      BY DEF SysTyped, SystemTypeOK, SystemAssumption
    <3> QED
      BY <1>5, <3>1, <3>2 DEF WriteCert
  <2>2. ca'.cert = made' /\ ca'.key = ca.key
    BY <1>5 DEF WriteCert, SysTyped, SystemTypeOK
  <2>3. ca.key = 0
    BY <2>1 DEF CaCourse
  <2>4. CaWhole'
    BY <2>1, <2>2, <2>3 DEF CaWhole
  <2>5. ~At(c, "siteCert")' /\ ~At(c, "siteKey")' /\ ~At(c, "writeCert")'
    BY <2>1 DEF Moves, Chained, Chain
  <2>6. /\ cmd'[c].op = cmd[c].op
        /\ cmd[c].op \in Trusting => Left(c, "anchor")' /\ Left(c, "nssAdd")'
    BY <2>1, NextStep DEF Moves, Goes
  <2> QED
    BY <2>1, <2>2, <2>3, <2>4, <2>5, <2>6 DEF CaCourse
<1>6. CASE WriteKey(c)
  <2>1. /\ Moves(c, "writeKey") /\ At(c, "writeKey")
        /\ UNCHANGED <<made, site, anchor, nss>> /\ trusted' = trusted
    BY <1>6, Courses DEF WriteKey, Go
  <2>2. ca'.cert = ca.cert /\ ca'.key = cmd[c].by
    BY <1>6 DEF WriteKey, SysTyped, SystemTypeOK
  <2>3. ca.key = 0 /\ ca.cert # 0 /\ cmd[c].by = ca.cert
    BY <2>1 DEF CaCourse
  <2>4. CaWhole'
    BY <2>1, <2>2, <2>3 DEF CaWhole
  <2>5. ~At(c, "writeCert")' /\ ~At(c, "writeKey")' /\ ~At(c, "siteCert")'
        /\ ~At(c, "siteKey")'
    BY <2>1 DEF Moves, Chained, Chain
  <2>6. /\ cmd'[c].op = cmd[c].op
        /\ Left(c, "anchor") => Left(c, "anchor")'
        /\ Left(c, "nssAdd") => Left(c, "nssAdd")'
    BY <2>1 DEF Moves, Goes
  <2> QED
    BY <2>1, <2>2, <2>4, <2>5, <2>6 DEF CaCourse
<1>7. CASE LoadCA(c)
  <2>1. UNCHANGED <<ca, site, anchor, nss>> /\ trusted' = trusted /\ At(c, "loadCA")
    BY <1>7 DEF LoadCA, files, Skip, Abort
  <2>2. CASE Skips(c, "loadCA")
    BY <2>1, <2>2, CaQuiet DEF Steps
  <2>3. CASE Stops(c)
    <3>1. CaWhole'
      BY <2>1 DEF CaWhole
    <3> QED
      BY <2>3, <3>1, StoppedCaCourse DEF Stops
  <2>4. CASE Moves(c, "loadCA") /\ cmd'[c].by = ca.cert /\ ca.cert # 0 /\ ca.cert = ca.key
    <3>1. ~At(c, "writeCert")' /\ ~At(c, "writeKey")' /\ ~At(c, "siteKey")'
      BY <2>4 DEF Moves, Chained, Chain
    <3>2. /\ cmd'[c].op = cmd[c].op
          /\ Left(c, "anchor") => Left(c, "anchor")'
          /\ Left(c, "nssAdd") => Left(c, "nssAdd")'
      BY <2>4 DEF Moves, Goes
    <3> QED
      BY <2>1, <2>4, <3>1, <3>2 DEF CaWhole, CaCourse
  <2> QED
    BY <1>7, <2>2, <2>3, <2>4, Courses
<1>8. CASE SiteCert(c)
  <2>1. /\ Moves(c, "siteCert") /\ At(c, "siteCert")
        /\ UNCHANGED <<made, ca, anchor, nss>> /\ trusted' = trusted
        /\ site' = [site EXCEPT ![cmd[c].site].by = cmd[c].by]
    BY <1>8, Courses DEF SiteCert, Go
  <2>2. ca.key # 0 /\ cmd[c].by = ca.cert
    BY <2>1 DEF CaCourse
  <2>3. cmd[c].site \in Domains /\ site \in [Domains -> [by : 0..made, key : BOOLEAN]]
    BY <2>1, NextStep, RunningIsTyped DEF SysTyped, SystemTypeOK
  <2>4. /\ \A d \in Domains : site'[d].key = site[d].key
        /\ \A d \in Domains : site'[d].by = site[d].by \/ site'[d].by = ca.cert
        /\ site'[cmd[c].site].by = ca.cert
    BY <2>1, <2>2, <2>3
  <2>5. CaWhole'
    BY <2>1, <2>4 DEF CaWhole
  <2>6. ~At(c, "writeCert")' /\ ~At(c, "writeKey")' /\ ~At(c, "siteCert")'
    BY <2>1 DEF Moves, Chained, Chain
  <2>7. /\ cmd'[c].op = cmd[c].op /\ cmd'[c].site = cmd[c].site
        /\ Left(c, "anchor") => Left(c, "anchor")'
        /\ Left(c, "nssAdd") => Left(c, "nssAdd")'
    BY <2>1 DEF Moves, Goes
  <2> QED
    BY <2>1, <2>2, <2>4, <2>5, <2>6, <2>7 DEF CaCourse
<1>9. CASE SiteKey(c)
  <2>1. /\ Moves(c, "siteKey") /\ At(c, "siteKey")
        /\ UNCHANGED <<made, ca, anchor, nss>> /\ trusted' = trusted
        /\ site' = [site EXCEPT ![cmd[c].site].key = TRUE]
    BY <1>9, Courses DEF SiteKey, Go
  <2>2. ca.key # 0 /\ site[cmd[c].site].by = ca.cert
    BY <2>1 DEF CaCourse
  <2>3. cmd[c].site \in Domains /\ site \in [Domains -> [by : 0..made, key : BOOLEAN]]
    BY <2>1, NextStep, RunningIsTyped DEF SysTyped, SystemTypeOK
  <2>4. /\ \A d \in Domains : site'[d].by = site[d].by
        /\ \A d \in Domains : d # cmd[c].site => site'[d].key = site[d].key
    BY <2>1, <2>3
  <2>5. CaWhole'
    BY <2>1, <2>2, <2>3, <2>4 DEF CaWhole
  <2>6. ~At(c, "writeCert")' /\ ~At(c, "writeKey")' /\ ~At(c, "siteCert")'
        /\ ~At(c, "siteKey")'
    BY <2>1 DEF Moves, Chained, Chain
  <2>7. /\ cmd'[c].op = cmd[c].op
        /\ Left(c, "anchor") => Left(c, "anchor")'
        /\ Left(c, "nssAdd") => Left(c, "nssAdd")'
    BY <2>1 DEF Moves, Goes
  <2> QED
    BY <2>1, <2>5, <2>6, <2>7 DEF CaCourse
<1>10. CASE ExistingCA(c)
  <2>1. UNCHANGED <<ca, site, anchor, nss>> /\ trusted' = trusted
    BY <1>10 DEF ExistingCA, files, Go, Abort
  <2>2. CASE Moves(c, "existingCA")
    BY <2>1, <2>2, CaQuiet DEF Steps
  <2>3. CASE Stops(c)
    BY <2>1, <2>3, StoppedCaCourse DEF CaWhole, Stops
  <2> QED
    BY <1>10, <2>2, <2>3, Courses
<1>11. CASE TrustCA(c)
  <2>1. UNCHANGED <<ca, site, nss>> /\ trusted' = trusted /\ At(c, "anchor")
    BY <1>11 DEF TrustCA, files, Go, Abort
  <2>2. cmd[c].op \in Trusting /\ ~trusted
    BY <2>1, NextStep DEF CaCourse
  <2>3. CaWhole'
    BY <2>1, <2>2 DEF CaWhole
  <2>4. CASE ca.cert = 0
    BY <1>11, <2>3, <2>4, Courses, StoppedCaCourse DEF Stops
  <2>5. CASE ca.cert # 0
    <3>1. Moves(c, "anchor") /\ anchor' = ca.cert
      BY <1>11, <2>5, Courses DEF TrustCA
    <3>2. ~At(c, "writeCert")' /\ ~At(c, "writeKey")' /\ ~At(c, "siteCert")'
          /\ ~At(c, "siteKey")'
      BY <3>1 DEF Moves, Chained, Chain
    <3>3. cmd'[c].op = cmd[c].op /\ (Left(c, "nssAdd") => Left(c, "nssAdd")')
      BY <3>1 DEF Moves, Goes
    <3> QED
      BY <2>1, <2>2, <2>3, <3>1, <3>2, <3>3 DEF CaCourse
  <2> QED
    BY <2>4, <2>5
<1>12. CASE NssDelete(c)
  <2>1. UNCHANGED <<ca, site, anchor>> /\ trusted' = trusted
    BY <1>12 DEF NssDelete, files, Go
  <2>2. ASSUME NEW h \in {"nssDelete", "nssRemove"}, At(c, h), Moves(c, h)
        PROVE  CaWhole' /\ CaCourse(c)'
    <3>1. cmd[c].op \in Trusting \cup Removing /\ ~trusted
      BY <2>2, NextStep DEF CaCourse, RemoveSteps
    <3>2. cmd[c].op \in Trusting => Left(c, "nssAdd")
      BY <2>2, NextStep DEF RemoveSteps, Trusting, Removing
    <3>3. ~At(c, "writeCert")' /\ ~At(c, "writeKey")' /\ ~At(c, "siteCert")'
          /\ ~At(c, "siteKey")'
      BY <2>2 DEF Moves, Chained, Chain
    <3>4. /\ cmd'[c].op = cmd[c].op
          /\ Left(c, "anchor") => Left(c, "anchor")'
          /\ Left(c, "nssAdd") => Left(c, "nssAdd")'
      BY <2>2 DEF Moves, Goes
    <3>5. CaWhole'
      BY <2>1, <3>1 DEF CaWhole
    <3> QED
      BY <2>1, <3>1, <3>2, <3>3, <3>4, <3>5 DEF CaCourse
  <2> QED
    BY <1>12, <2>2, GoMoves DEF NssDelete, files
<1>13. CASE NssAdd(c)
  <2>1. UNCHANGED <<ca, site, anchor>> /\ trusted' = trusted /\ At(c, "nssAdd")
        /\ nss' = ca.cert
    BY <1>13 DEF NssAdd, files, Go
  <2>2. cmd[c].op \in Trusting /\ ~trusted /\ Moves(c, "nssAdd")
    BY <1>13, <2>1, NextStep, Courses DEF CaCourse
  <2>3. CaWhole'
    BY <2>1, <2>2 DEF CaWhole
  <2>4. ~At(c, "writeCert")' /\ ~At(c, "writeKey")' /\ ~At(c, "siteCert")'
        /\ ~At(c, "siteKey")'
    BY <2>2 DEF Moves, Chained, Chain
  <2>5. cmd'[c].op = cmd[c].op /\ (Left(c, "anchor") => Left(c, "anchor")')
    BY <2>2 DEF Moves, Goes
  <2> QED
    BY <2>1, <2>2, <2>3, <2>4, <2>5 DEF CaCourse
<1>14. CASE UntrustCA(c)
  <2>1. UNCHANGED <<ca, site, nss>> /\ trusted' = trusted /\ At(c, "untrust")
    BY <1>14 DEF UntrustCA, files, Go
  <2>2. cmd[c].op \in Removing /\ cmd[c].op \notin Trusting /\ ~trusted /\ Moves(c, "untrust")
    BY <1>14, <2>1, NextStep, Courses DEF CaCourse, RemoveSteps, Trusting, Removing
  <2>3. CaWhole'
    BY <2>1, <2>2 DEF CaWhole
  <2>4. ~At(c, "writeCert")' /\ ~At(c, "writeKey")' /\ ~At(c, "siteCert")'
        /\ ~At(c, "siteKey")'
    BY <2>2 DEF Moves, Chained, Chain
  <2>5. cmd'[c].op = cmd[c].op
    BY <2>2 DEF Moves, Goes
  <2> QED
    BY <2>1, <2>2, <2>3, <2>4, <2>5 DEF CaCourse
<1>15. CASE PurgeData(c)
  <2>1. /\ ca' = NoCA /\ site' = [d \in Domains |-> NoSite] /\ UNCHANGED <<anchor, nss>>
           /\ trusted' = trusted
        /\ At(c, "purgeData")
    BY <1>15 DEF PurgeData, Go
  <2>2. cmd[c].op \in Removing /\ cmd[c].op \notin Trusting /\ ~trusted
        /\ Moves(c, "purgeData")
    BY <1>15, <2>1, NextStep, Courses DEF CaCourse, RemoveSteps, Trusting, Removing
  <2>3. CaWhole'
    BY <2>1, <2>2 DEF CaWhole, NoCA, NoSite
  <2>4. ~At(c, "writeCert")' /\ ~At(c, "writeKey")' /\ ~At(c, "siteCert")'
        /\ ~At(c, "siteKey")'
    BY <2>2 DEF Moves, Chained, Chain
  <2>5. cmd'[c].op = cmd[c].op
    BY <2>2 DEF Moves, Goes
  <2> QED
    BY <2>1, <2>2, <2>3, <2>4, <2>5 DEF CaCourse
<1>16. CASE ReadRecord(c)
  <2>1. UNCHANGED <<ca, site, anchor, nss>> /\ trusted' = trusted
    BY <1>16 DEF ReadRecord, files, Go, Skip
  <2> QED
    BY <1>16, <2>1, Courses, CaQuiet DEF Steps
<1>17. CASE DisableZsh(c)
  <2>1. UNCHANGED <<ca, site, anchor, nss>> /\ trusted' = trusted
    BY <1>17 DEF DisableZsh, files, Go, Skip
  <2> QED
    BY <1>17, <2>1, Courses, CaQuiet DEF Steps
<1>18. CASE CheckCap(c)
  <2>1. UNCHANGED <<ca, site, anchor, nss>> /\ trusted' = trusted
    BY <1>18 DEF CheckCap, files
  <2> QED
    BY <1>18, <2>1, Courses, CaQuiet DEF Steps
<1>19. CASE EnableLowPortBinding(c)
  <2>1. UNCHANGED <<ca, site, anchor, nss>> /\ trusted' = trusted
    BY <1>19 DEF EnableLowPortBinding, files, Go
  <2> QED
    BY <1>19, <2>1, Courses, CaQuiet DEF Steps
<1>20. CASE Record(c)
  <2>1. UNCHANGED <<ca, site, anchor, nss>> /\ trusted' = trusted
    BY <1>20 DEF Record, files, Go
  <2> QED
    BY <1>20, <2>1, Courses, CaQuiet DEF Steps
<1>21. CASE DisableLowPortBinding(c)
  <2>1. UNCHANGED <<ca, site, anchor, nss>> /\ trusted' = trusted
    BY <1>21 DEF DisableLowPortBinding, files, Go
  <2> QED
    BY <1>21, <2>1, Courses, CaQuiet DEF Steps
<1>22. CASE Forget(c)
  <2>1. UNCHANGED <<ca, site, anchor, nss>> /\ trusted' = trusted
    BY <1>22 DEF Forget, files, Go
  <2> QED
    BY <1>22, <2>1, Courses, CaQuiet DEF Steps
<1>23. CASE DnsMain(c)
  <2>1. UNCHANGED <<ca, site, anchor, nss>> /\ trusted' = trusted
    BY <1>23 DEF DnsMain, files, Go
  <2> QED
    BY <1>23, <2>1, Courses, CaQuiet DEF Steps
<1>24. CASE DnsTest(c)
  <2>1. UNCHANGED <<ca, site, anchor, nss>> /\ trusted' = trusted
    BY <1>24 DEF DnsTest, files, Go
  <2> QED
    BY <1>24, <2>1, Courses, CaQuiet DEF Steps
<1>25. CASE DnsTestOff(c)
  <2>1. UNCHANGED <<ca, site, anchor, nss>> /\ trusted' = trusted
    BY <1>25 DEF DnsTestOff, files, Go
  <2> QED
    BY <1>25, <2>1, Courses, CaQuiet DEF Steps
<1>26. CASE DnsMainOff(c)
  <2>1. UNCHANGED <<ca, site, anchor, nss>> /\ trusted' = trusted
    BY <1>26 DEF DnsMainOff, files, Go
  <2> QED
    BY <1>26, <2>1, Courses, CaQuiet DEF Steps
<1>27. CASE WriteZshIntegration(c)
  <2>1. UNCHANGED <<ca, site, anchor, nss>> /\ trusted' = trusted
    BY <1>27 DEF WriteZshIntegration, files, Go
  <2> QED
    BY <1>27, <2>1, Courses, CaQuiet DEF Steps
<1>28. CASE EnsureZshrcHook(c)
  <2>1. UNCHANGED <<ca, site, anchor, nss>> /\ trusted' = trusted
    BY <1>28 DEF EnsureZshrcHook, files, Go
  <2> QED
    BY <1>28, <2>1, Courses, CaQuiet DEF Steps
<1>29. CASE CommentZshrcHook(c)
  <2>1. UNCHANGED <<ca, site, anchor, nss>> /\ trusted' = trusted
    BY <1>29 DEF CommentZshrcHook, files, Go
  <2> QED
    BY <1>29, <2>1, Courses, CaQuiet DEF Steps
<1>30. CASE Runtimes(c)
  <2>1. UNCHANGED <<ca, site, anchor, nss>> /\ trusted' = trusted
    BY <1>30 DEF Runtimes, files, Go
  <2> QED
    BY <1>30, <2>1, Courses, CaQuiet DEF Steps
<1>31. CASE PurgeConfig(c)
  <2>1. UNCHANGED <<ca, site, anchor, nss>> /\ trusted' = trusted
    BY <1>31 DEF PurgeConfig, files, Go
  <2> QED
    BY <1>31, <2>1, Courses, CaQuiet DEF Steps
<1> QED
  BY <1>1, <1>2, <1>3, <1>4, <1>5, <1>6, <1>7, <1>8, <1>9, <1>10, <1>11, <1>12, <1>13,
     <1>14, <1>15, <1>16, <1>17, <1>18, <1>19, <1>20, <1>21, <1>22, <1>23, <1>24, <1>25,
     <1>26, <1>27, <1>28, <1>29, <1>30, <1>31 DEF Step

(***************************************************************************)
(* Wherever the creation of the CA or of a certificate was cut short, the  *)
(* CA is of one piece, every site's certificate is the CA's, and what a    *)
(* command has set up is trusted: with one command at a time, and unless a *)
(* purge is interrupted.                                                   *)
(***************************************************************************)
THEOREM SitesStayTrusted ==
  ASSUME "overlap" \notin Faults, "torn" \notin Faults
  PROVE  SystemSpec => []SitesAreTrusted
<1> USE SystemAssumption
<1>1. SystemInit => CaInv
  <2> SUFFICES ASSUME SystemInit PROVE CaInv
    OBVIOUS
  <2>1. SysTyped
    BY SystemTypeInit
  <2>2. Sole
    BY DEF SystemInit, Sole
  <2>3. CaWhole
    BY DEF SystemInit, CaWhole, NoCA, NoSite
  <2>4. \A c \in Commands : CaCourse(c)
    <3>1. \A c \in Commands : cmd[c] = Idle
      BY DEF SystemInit
    <3> QED
      BY <3>1, IdleIsNothing DEF CaCourse
  <2> QED
    BY <2>1, <2>2, <2>3, <2>4 DEF CaInv
<1>2. CaInv /\ [SystemNext]_systemVars => CaInv'
  <2> SUFFICES ASSUME CaInv, [SystemNext]_systemVars PROVE CaInv'
    OBVIOUS
  <2>1. SysTyped /\ Sole /\ CaWhole /\ \A c \in Commands : CaCourse(c)
    BY DEF CaInv
  <2>2. SysTyped'
    BY <2>1, SystemTypeStep
  <2>3. ASSUME NEW c \in Commands, Step(c)
        PROVE  CaInv'
    <3>1. (\A d \in Commands \ {c} : cmd'[d] = Idle) /\ Sole'
      BY <2>1, <2>3, Alone
    <3>2. CaWhole' /\ CaCourse(c)'
      BY <2>1, <2>3, CaStep
    <3>3. \A d \in Commands : CaCourse(d)'
      BY <3>1, <3>2, StoppedCaCourse
    <3> QED
      BY <2>2, <3>1, <3>2, <3>3 DEF CaInv
  <2>4. CASE UserSetcap \/ UpgradeNginx \/ UNCHANGED systemVars
    <3>1. UNCHANGED <<ca, site, anchor, nss, cmd, trusted>>
      BY <2>4, NobodyMoves
    <3> QED
      BY <2>1, <2>2, <3>1 DEF CaInv, Sole, CaWhole, CaCourse, At, Left
  <2> QED
    BY <2>3, <2>4 DEF SystemNext
<1>3. CaInv => SitesAreTrusted
  <2> SUFFICES ASSUME CaInv PROVE SitesAreTrusted
    OBVIOUS
  <2> QED
    BY DEF CaInv, CaWhole, SitesAreTrusted
<1> QED
  BY <1>1, <1>2, <1>3, PTL DEF SystemSpec

-----------------------------------------------------------------------------
(* SystemIntegration: the capability of nginx and its record *)

\* The capability that Herdlite set is on record, or the command that set it is
\* about to put it there.
RecWhole ==
  /\ owned => cap # "user"
  /\ cap = "ours" /\ ~stray => owned \/ \E c \in Commands : At(c, "record") /\ ~cmd[c].had

RecordCourse(c) ==
  /\ At(c, "setcap") => (cmd[c].had <=> cap # "none")
  /\ At(c, "record") => cmd[c].had \/ cap = "ours"
  /\ At(c, "forget") => cap # "ours"
  /\ cmd[c].op \in Removing =>
       Left(c, "dropCap") \/ (cap = "ours" => stray \/ (blind /\ owned))

RecInv == SysTyped /\ Sole /\ RecWhole /\ \A c \in Commands : RecordCourse(c)

LEMMA StoppedRecordCourse ==
  \A c \in Commands : cmd'[c] = Idle => RecordCourse(c)' /\ ~At(c, "record")'
<1>1. "none" \notin Removing
  BY DEF Removing
<1> QED
  BY <1>1 DEF RecordCourse, At, Left, In, Idle

\* A step that leaves the capability and its record alone.
LEMMA RecQuiet ==
  ASSUME NEW c \in Commands, RecordCourse(c), UNCHANGED <<cap, owned, stray, blind>>,
         owned => cap # "user", cap = "ours" /\ ~stray => owned,
         NEW h \in Steps \ {"checkCap", "setcap", "dropCap"},
         (Moves(c, h) /\ h # "readRecord") \/ Skips(c, h),
         h = "readRecord" => ~owned
  PROVE  RecWhole' /\ RecordCourse(c)'
<1>1. ~At(c, "setcap")' /\ ~At(c, "record")' /\ ~At(c, "forget")'
  BY DEF Moves, Skips, Chained, Chain, Steps
<1>2. /\ cmd'[c].op = cmd[c].op
      /\ h # "readRecord" => (Left(c, "dropCap") => Left(c, "dropCap")')
  BY DEF Moves, Skips, Goes, Skipped
<1>3. RecWhole'
  BY DEF RecWhole
<1> QED
  BY <1>1, <1>2, <1>3 DEF RecordCourse

\* The record comes right after setcap.
LEMMA SetcapThenRecord ==
  ASSUME SysTyped, NEW c \in Commands, At(c, "setcap"), Go(c)
  PROVE  At(c, "record")' /\ cmd'[c].had = cmd[c].had
<1> DEFINE s == cmd[c].todo
<1>1. s # <<>> /\ Head(s) = "setcap" /\ cmd[c] # Idle
  BY IdleIsNothing DEF At
<1>2. cmd[c].op \in Ops /\ s \in Todos(cmd[c].op)
  BY <1>1, RunningIsTyped
<1>3. s \in Seq(Steps) /\ Len(s) >= 2 /\ s[2] = "record" /\ Len(s) \in Nat
  BY <1>1, <1>2, HeadOfTodo
<1>4. Tail(s) # <<>> /\ Head(Tail(s)) = "record"
  BY <1>3
<1>5. /\ cmd[c] \in Locals(cmd[c].op)
      /\ DOMAIN cmd = Commands
  BY <1>1, RunningIsTyped
<1>6. cmd'[c] = [cmd[c] EXCEPT !.todo = Tail(s)]
  BY <1>5 DEF Go
<1> HIDE DEF s
<1>7. cmd'[c].todo = Tail(s) /\ cmd'[c].had = cmd[c].had
  BY <1>5, <1>6 DEF Locals
<1> QED
  BY <1>4, <1>7 DEF At

LEMMA RecordStep ==
  ASSUME SystemAssumption, SysTyped, Sole, RecWhole, NEW c \in Commands, RecordCourse(c),
         Step(c),
         "overlap" \notin Faults
  PROVE  RecWhole' /\ RecordCourse(c)'
<1>0. \A d \in Commands \ {c} : ~At(d, "record")
  BY Alone, IdleIsNothing
<1>a. ASSUME NEW h, At(c, h), h # "record"
      PROVE  /\ owned => cap # "user"
             /\ cap = "ours" /\ ~stray => owned
  BY <1>0, <1>a DEF RecWhole, At
<1>1. CASE Begin(c)
  <2>1. Starts(c) /\ UNCHANGED <<cap, owned, stray>> /\ cmd[c] = Idle
    BY <1>1, Courses DEF Begin
  <2>2. ~At(c, "setcap")' /\ ~At(c, "record")' /\ ~At(c, "forget")'
    BY <2>1 DEF Starts, Chained
  <2>3. RecWhole'
    BY <1>0, <2>1, IdleIsNothing DEF RecWhole
  <2> QED
    BY <2>1, <2>2, <2>3 DEF RecordCourse, Starts, TakenBack
<1>2. CASE End(c)
  <2>1. cmd'[c] = Idle /\ UNCHANGED <<cap, owned, stray, blind>> /\ ~At(c, "record")
    BY <1>2, Courses DEF End, nginx, Stops, At
  <2>2. RecWhole'
    BY <1>0, <2>1 DEF RecWhole
  <2> QED
    BY <2>1, <2>2, StoppedRecordCourse
<1>3. CASE Fail(c)
  <2>1. /\ cmd'[c] = Idle /\ UNCHANGED <<cap, owned>>
        /\ stray' = (stray \/ (At(c, "record") /\ ~cmd[c].had))
    BY <1>3, Courses DEF Fail, Stops
  <2>2. RecWhole'
    BY <1>0, <2>1 DEF RecWhole
  <2> QED
    BY <2>1, <2>2, StoppedRecordCourse
<1>4. CASE CheckCap(c)
  <2>1. At(c, "checkCap") /\ UNCHANGED <<cap, owned, stray, blind>>
    BY <1>4 DEF CheckCap, nginx
  <2>2. Moves(c, "checkCap") /\ cmd'[c].had = (cap # "none")
    BY <1>4, Courses
  <2>3. ~At(c, "record")' /\ ~At(c, "forget")' /\ cmd'[c].op = cmd[c].op
        /\ (Left(c, "dropCap") => Left(c, "dropCap")')
    BY <2>2 DEF Moves, Goes, Chained, Chain
  <2>4. RecWhole'
    BY <1>a, <2>1 DEF RecWhole
  <2> QED
    BY <2>1, <2>2, <2>3, <2>4 DEF RecordCourse
<1>5. CASE EnableLowPortBinding(c)
  <2>1. At(c, "setcap") /\ Go(c) /\ UNCHANGED <<owned, stray, blind>>
        /\ cap' = IF cap = "none" THEN "ours" ELSE cap
    BY <1>5 DEF EnableLowPortBinding
  <2>2. Moves(c, "setcap") /\ At(c, "record")' /\ cmd'[c].had = cmd[c].had
    BY <1>5, <2>1, Courses, SetcapThenRecord
  <2>3. cmd[c].had <=> cap # "none"
    BY <2>1 DEF RecordCourse
  <2>4. RecWhole'
    BY <1>a, <2>1, <2>2, <2>3 DEF RecWhole
  <2>5. ~At(c, "setcap")' /\ ~At(c, "forget")' /\ cmd'[c].op = cmd[c].op
    BY <2>2 DEF Moves, Goes, Chained, Chain
  <2>6. cmd[c].op \notin Removing
    BY <2>1, NextStep DEF RemoveSteps
  <2>7. cmd'[c].had \/ cap' = "ours"
    BY <2>1, <2>2, <2>3
  <2> QED
    BY <2>4, <2>5, <2>6, <2>7 DEF RecordCourse
<1>6. CASE Record(c)
  <2>1. At(c, "record") /\ UNCHANGED <<cap, stray>> /\ owned' = (owned \/ ~cmd[c].had)
        /\ Moves(c, "record")
    BY <1>6, Courses DEF Record
  <2>2. RecWhole'
    BY <1>0, <2>1 DEF RecWhole, RecordCourse
  <2>3. ~At(c, "setcap")' /\ ~At(c, "record")' /\ ~At(c, "forget")' /\ cmd'[c].op = cmd[c].op
    BY <2>1 DEF Moves, Goes, Chained, Chain
  <2>4. cmd[c].op \notin Removing
    BY <2>1, NextStep DEF RemoveSteps
  <2> QED
    BY <2>2, <2>3, <2>4 DEF RecordCourse
<1>7. CASE ReadRecord(c)
  <2>1. At(c, "readRecord") /\ UNCHANGED <<cap, owned, stray>>
    BY <1>7 DEF ReadRecord
  <2>2. CASE owned /\ Moves(c, "readRecord") /\ blind' = blind
    <3>1. ~At(c, "setcap")' /\ ~At(c, "record")' /\ ~At(c, "forget")' /\ cmd'[c].op = cmd[c].op
          /\ (Left(c, "dropCap") => Left(c, "dropCap")')
      BY <2>2 DEF Moves, Goes, Chained, Chain
    <3> QED
      BY <1>a, <2>1, <2>2, <3>1 DEF RecWhole, RecordCourse
  <2>3. CASE ~owned /\ Skips(c, "readRecord") /\ blind' = blind
    BY <1>a, <2>1, <2>3, RecQuiet DEF Steps
  <2>4. CASE owned /\ Skips(c, "readRecord") /\ blind'
    <3>1. ~At(c, "setcap")' /\ ~At(c, "record")' /\ ~At(c, "forget")'
      BY <2>4 DEF Skips, Chained
    <3> QED
      BY <1>a, <2>1, <2>4, <3>1 DEF RecWhole, RecordCourse
  <2> QED
    BY <1>7, <2>2, <2>3, <2>4, Courses
<1>8. CASE DisableLowPortBinding(c)
  <2>1. cap' = "none" /\ Moves(c, "dropCap")
    BY <1>8, Courses DEF DisableLowPortBinding
  <2>2. ~At(c, "setcap")' /\ ~At(c, "record")'
    BY <2>1 DEF Moves, Chained, Chain
  <2> QED
    BY <2>1, <2>2 DEF RecWhole, RecordCourse
<1>9. CASE Forget(c)
  <2>1. At(c, "forget") /\ UNCHANGED <<cap, stray>> /\ (owned' = FALSE \/ owned' = owned)
        /\ Moves(c, "forget")
    BY <1>9, Courses DEF Forget
  <2>2. cap # "ours"
    BY <2>1 DEF RecordCourse
  <2>3. ~At(c, "setcap")' /\ ~At(c, "record")' /\ ~At(c, "forget")'
    BY <2>1 DEF Moves, Chained, Chain
  <2> QED
    BY <1>a, <2>1, <2>2, <2>3 DEF RecWhole, RecordCourse
<1>10. CASE PurgeConfig(c)
  <2>1. At(c, "purgeConfig") /\ cap' = cap /\ owned' = FALSE /\ Moves(c, "purgeConfig")
        /\ stray' = (stray \/ (cap = "ours" /\ blind))
    BY <1>10, Courses DEF PurgeConfig
  <2>2. cap = "ours" => stray'
    <3>1. cmd[c].op \in Removing /\ ~Left(c, "dropCap")
      BY <2>1, NextStep DEF RemoveSteps
    <3> QED
      BY <2>1, <3>1 DEF RecordCourse
  <2>3. ~At(c, "setcap")' /\ ~At(c, "record")' /\ ~At(c, "forget")'
    BY <2>1 DEF Moves, Chained, Chain
  <2> QED
    BY <2>1, <2>2, <2>3 DEF RecWhole, RecordCourse
<1>11. CASE CheckCA(c)
  <2>1. At(c, "checkCA") /\ UNCHANGED <<cap, owned, stray, blind>>
    BY <1>11 DEF CheckCA, nginx
  <2> QED
    BY <1>a, <1>11, <2>1, Courses, RecQuiet DEF Steps
<1>12. CASE WriteCert(c)
  <2>1. At(c, "writeCert") /\ UNCHANGED <<cap, owned, stray, blind>>
    BY <1>12 DEF WriteCert, nginx
  <2> QED
    BY <1>a, <1>12, <2>1, Courses, RecQuiet DEF Steps
<1>13. CASE WriteKey(c)
  <2>1. At(c, "writeKey") /\ UNCHANGED <<cap, owned, stray, blind>>
    BY <1>13 DEF WriteKey, nginx
  <2> QED
    BY <1>a, <1>13, <2>1, Courses, RecQuiet DEF Steps
<1>14. CASE LoadCA(c)
  <2>1. At(c, "loadCA") /\ UNCHANGED <<cap, owned, stray, blind>>
    BY <1>14 DEF LoadCA, nginx
  <2>2. CASE Stops(c)
    <3>1. RecWhole'
      BY <1>a, <2>1 DEF RecWhole
    <3> QED
      BY <2>2, <3>1, StoppedRecordCourse DEF Stops
  <2>3. CASE Moves(c, "loadCA") \/ Skips(c, "loadCA")
    BY <1>a, <2>1, <2>3, RecQuiet DEF Steps
  <2> QED
    BY <1>14, <2>2, <2>3, Courses
<1>15. CASE SiteCert(c)
  <2>1. At(c, "siteCert") /\ UNCHANGED <<cap, owned, stray, blind>>
    BY <1>15 DEF SiteCert, nginx
  <2> QED
    BY <1>a, <1>15, <2>1, Courses, RecQuiet DEF Steps
<1>16. CASE SiteKey(c)
  <2>1. At(c, "siteKey") /\ UNCHANGED <<cap, owned, stray, blind>>
    BY <1>16 DEF SiteKey, nginx
  <2> QED
    BY <1>a, <1>16, <2>1, Courses, RecQuiet DEF Steps
<1>17. CASE ExistingCA(c)
  <2>1. At(c, "existingCA") /\ UNCHANGED <<cap, owned, stray, blind>>
    BY <1>17 DEF ExistingCA, nginx
  <2>2. CASE Stops(c)
    <3>1. RecWhole'
      BY <1>a, <2>1 DEF RecWhole
    <3> QED
      BY <2>2, <3>1, StoppedRecordCourse DEF Stops
  <2>3. CASE Moves(c, "existingCA") \/ Skips(c, "existingCA")
    BY <1>a, <2>1, <2>3, RecQuiet DEF Steps
  <2> QED
    BY <1>17, <2>2, <2>3, Courses
<1>18. CASE TrustCA(c)
  <2>1. At(c, "anchor") /\ UNCHANGED <<cap, owned, stray, blind>>
    BY <1>18 DEF TrustCA, nginx
  <2>2. CASE Stops(c)
    <3>1. RecWhole'
      BY <1>a, <2>1 DEF RecWhole
    <3> QED
      BY <2>2, <3>1, StoppedRecordCourse DEF Stops
  <2>3. CASE Moves(c, "anchor") \/ Skips(c, "anchor")
    BY <1>a, <2>1, <2>3, RecQuiet DEF Steps
  <2> QED
    BY <1>18, <2>2, <2>3, Courses
<1>19. CASE NssDelete(c)
  <2>1. (At(c, "nssDelete") \/ At(c, "nssRemove")) /\ UNCHANGED <<cap, owned, stray, blind>>
    BY <1>19 DEF NssDelete, nginx
  <2> QED
    BY <1>a, <1>19, <2>1, Courses, RecQuiet DEF Steps
<1>20. CASE NssAdd(c)
  <2>1. At(c, "nssAdd") /\ UNCHANGED <<cap, owned, stray, blind>>
    BY <1>20 DEF NssAdd, nginx
  <2> QED
    BY <1>a, <1>20, <2>1, Courses, RecQuiet DEF Steps
<1>21. CASE UntrustCA(c)
  <2>1. At(c, "untrust") /\ UNCHANGED <<cap, owned, stray, blind>>
    BY <1>21 DEF UntrustCA, nginx
  <2> QED
    BY <1>a, <1>21, <2>1, Courses, RecQuiet DEF Steps
<1>22. CASE DnsMain(c)
  <2>1. At(c, "dnsMain") /\ UNCHANGED <<cap, owned, stray, blind>>
    BY <1>22 DEF DnsMain, nginx
  <2> QED
    BY <1>a, <1>22, <2>1, Courses, RecQuiet DEF Steps
<1>23. CASE DnsTest(c)
  <2>1. At(c, "dnsTest") /\ UNCHANGED <<cap, owned, stray, blind>>
    BY <1>23 DEF DnsTest, nginx
  <2> QED
    BY <1>a, <1>23, <2>1, Courses, RecQuiet DEF Steps
<1>24. CASE DnsTestOff(c)
  <2>1. At(c, "dnsTestOff") /\ UNCHANGED <<cap, owned, stray, blind>>
    BY <1>24 DEF DnsTestOff, nginx
  <2> QED
    BY <1>a, <1>24, <2>1, Courses, RecQuiet DEF Steps
<1>25. CASE DnsMainOff(c)
  <2>1. At(c, "dnsMainOff") /\ UNCHANGED <<cap, owned, stray, blind>>
    BY <1>25 DEF DnsMainOff, nginx
  <2> QED
    BY <1>a, <1>25, <2>1, Courses, RecQuiet DEF Steps
<1>26. CASE WriteZshIntegration(c)
  <2>1. At(c, "zshFile") /\ UNCHANGED <<cap, owned, stray, blind>>
    BY <1>26 DEF WriteZshIntegration, nginx
  <2> QED
    BY <1>a, <1>26, <2>1, Courses, RecQuiet DEF Steps
<1>27. CASE EnsureZshrcHook(c)
  <2>1. At(c, "hook") /\ UNCHANGED <<cap, owned, stray, blind>>
    BY <1>27 DEF EnsureZshrcHook, nginx
  <2> QED
    BY <1>a, <1>27, <2>1, Courses, RecQuiet DEF Steps
<1>28. CASE DisableZsh(c)
  <2>1. At(c, "zshOff") /\ UNCHANGED <<cap, owned, stray, blind>>
    BY <1>28 DEF DisableZsh, nginx
  <2> QED
    BY <1>a, <1>28, <2>1, Courses, RecQuiet DEF Steps
<1>29. CASE CommentZshrcHook(c)
  <2>1. At(c, "hookOff") /\ UNCHANGED <<cap, owned, stray, blind>>
    BY <1>29 DEF CommentZshrcHook, nginx
  <2> QED
    BY <1>a, <1>29, <2>1, Courses, RecQuiet DEF Steps
<1>30. CASE Runtimes(c)
  <2>1. At(c, "runtimes") /\ UNCHANGED <<cap, owned, stray, blind>>
    BY <1>30 DEF Runtimes, nginx
  <2> QED
    BY <1>a, <1>30, <2>1, Courses, RecQuiet DEF Steps
<1>31. CASE PurgeData(c)
  <2>1. At(c, "purgeData") /\ UNCHANGED <<cap, owned, stray, blind>>
    BY <1>31 DEF PurgeData, nginx
  <2> QED
    BY <1>a, <1>31, <2>1, Courses, RecQuiet DEF Steps
<1> QED
  BY <1>1, <1>2, <1>3, <1>4, <1>5, <1>6, <1>7, <1>8, <1>9, <1>10, <1>11, <1>12, <1>13,
     <1>14, <1>15, <1>16, <1>17, <1>18, <1>19, <1>20, <1>21, <1>22, <1>23, <1>24, <1>25,
     <1>26, <1>27, <1>28, <1>29, <1>30, <1>31 DEF Step

LEMMA RecInit ==
  ASSUME SystemAssumption, SystemInit
  PROVE  RecInv
<1>1. SysTyped
  BY SystemTypeInit
<1>2. Sole /\ RecWhole
  BY DEF SystemInit, Sole, RecWhole
<1>3. \A c \in Commands : cmd[c] = Idle
  BY DEF SystemInit
<1>4. \A c \in Commands : RecordCourse(c)
  BY <1>3, IdleIsNothing DEF RecordCourse
<1> QED
  BY <1>1, <1>2, <1>4 DEF RecInv

LEMMA RecNext ==
  ASSUME SystemAssumption, "overlap" \notin Faults, RecInv, [SystemNext]_systemVars
  PROVE  RecInv'
<1>1. SysTyped /\ Sole /\ RecWhole /\ \A c \in Commands : RecordCourse(c)
  BY DEF RecInv
<1>2. SysTyped'
  BY <1>1, SystemTypeStep
<1>3. ASSUME NEW c \in Commands, Step(c)
      PROVE  RecInv'
  <2>1. (\A d \in Commands \ {c} : cmd'[d] = Idle) /\ Sole'
    BY <1>1, <1>3, Alone
  <2>2. RecWhole' /\ RecordCourse(c)'
    BY <1>1, <1>3, RecordStep
  <2>3. \A d \in Commands : RecordCourse(d)'
    BY <2>1, <2>2, StoppedRecordCourse
  <2> QED
    BY <1>2, <2>1, <2>2, <2>3 DEF RecInv
<1>4. CASE UserSetcap \/ UpgradeNginx
  <2>1. AllIdle /\ owned' = owned /\ cmd' = cmd
    BY <1>4, NobodyMoves DEF UserSetcap, UpgradeNginx
  <2>2. \A c \in Commands : cmd'[c] = Idle
    BY <2>1 DEF AllIdle
  <2>3. RecWhole'
    BY <1>1, <1>4 DEF RecWhole, UserSetcap, UpgradeNginx
  <2>4. Sole'
    BY <2>2 DEF Sole
  <2> QED
    BY <1>2, <2>2, <2>3, <2>4, StoppedRecordCourse DEF RecInv
<1>5. CASE UNCHANGED systemVars
  <2>1. UNCHANGED <<cap, owned, stray, blind, cmd>>
    BY <1>5 DEF systemVars, nginx
  <2> QED
    BY <1>1, <1>2, <2>1 DEF RecInv, Sole, RecWhole, RecordCourse, At, Left
<1> QED
  BY <1>3, <1>4, <1>5 DEF SystemNext

(***************************************************************************)
(* Herdlite never records the user's own capability of nginx as its own,   *)
(* and forgets none it has set, wherever its commands were stopped but     *)
(* between setcap and the record, and unless a purge could not read the    *)
(* record that it removed.                                                 *)
(***************************************************************************)
THEOREM RecordStaysRight ==
  ASSUME "overlap" \notin Faults
  PROVE  SystemSpec => []RecordIsRight
<1> USE SystemAssumption
<1>1. SystemInit => RecInv
  BY RecInit
<1>2. RecInv /\ [SystemNext]_systemVars => RecInv'
  BY RecNext
<1>3. RecInv => RecordIsRight
  <2> SUFFICES ASSUME RecInv PROVE RecordIsRight
    OBVIOUS
  <2>1. AllIdle => \A c \in Commands : ~At(c, "record")
    BY IdleIsNothing DEF AllIdle
  <2> QED
    BY <2>1 DEF RecInv, RecWhole, RecordIsRight
<1> QED
  BY <1>1, <1>2, <1>3, PTL DEF SystemSpec

-----------------------------------------------------------------------------
(* SystemIntegration: what an uninstall leaves *)

\* What an uninstall that is running has not taken back yet it still will.
GoneCourse(c) ==
  /\ At(c, "hook") => zsh.file # "absent"
  /\ cmd[c].op \in Removing =>
       /\ Left(c, "untrust") \/ anchor = 0
       /\ Left(c, "nssRemove") \/ nss = 0
       /\ Left(c, "dnsMainOff") \/ dns.main # "on"
       /\ Left(c, "dnsTestOff") \/ dns.test # "on"
       /\ Left(c, "zshOff") \/ zsh.file # "on"
       /\ Left(c, "hookOff") \/ zsh.hook # "on"

NoOrphan == zsh.file = "absent" => zsh.hook # "on"

GoneInv ==
  /\ RecInv
  /\ last # "none" => AllIdle
  /\ NoOrphan
  /\ \A c \in Commands : GoneCourse(c)
  /\ UninstalledLeavesNothing

LEMMA StoppedGoneCourse ==
  \A c \in Commands : cmd'[c] = Idle => GoneCourse(c)'
<1>1. "none" \notin Removing
  BY DEF Removing
<1> QED
  BY <1>1 DEF GoneCourse, At, Left, In, Idle

\* A step that touches nothing an uninstall takes back.
LEMMA GoneQuiet ==
  ASSUME NEW c \in Commands, GoneCourse(c), NoOrphan, UNCHANGED <<anchor, nss, dns, zsh>>,
         NEW h \in Steps \ {"zshFile", "untrust", "nssRemove", "dnsMainOff", "dnsTestOff",
                             "zshOff", "hookOff"},
         Moves(c, h) \/ Skips(c, h)
  PROVE  NoOrphan' /\ GoneCourse(c)'
<1>1. ~At(c, "hook")'
  BY DEF Moves, Skips, Chained, Chain, Steps
<1>2. /\ cmd'[c].op = cmd[c].op
      /\ \A x \in {"untrust", "nssRemove", "dnsMainOff", "dnsTestOff", "zshOff", "hookOff"} :
           Left(c, x) => Left(c, x)'
  BY DEF Moves, Skips, Goes, Skipped
<1> QED
  BY <1>1, <1>2 DEF GoneCourse, NoOrphan

\* A step of another command than an uninstall.
LEMMA GoneElsewhere ==
  ASSUME NEW c \in Commands, NEW h \in Steps \ {"zshFile"}, Moves(c, h),
         cmd[c].op \notin Removing
  PROVE  GoneCourse(c)'
<1>1. ~At(c, "hook")'
  BY DEF Moves, Chained, Chain, Steps
<1>2. cmd'[c].op \notin Removing
  BY DEF Moves, Goes
<1> QED
  BY <1>1, <1>2 DEF GoneCourse

LEMMA GoneStep ==
  ASSUME SystemAssumption, SysTyped, NoOrphan, NEW c \in Commands, GoneCourse(c), Step(c)
  PROVE  NoOrphan' /\ GoneCourse(c)'
<1> USE DEF trust
<1>1. CASE Begin(c)
  <2>1. Starts(c) /\ UNCHANGED <<anchor, nss, dns, zsh>>
    BY <1>1, Courses DEF Begin, shell
  <2>2. ~At(c, "hook")'
    BY <2>1 DEF Starts, Chained
  <2>3. NoOrphan'
    BY <2>1 DEF NoOrphan
  <2> QED
    BY <2>1, <2>2, <2>3 DEF GoneCourse, Starts, TakenBack
<1>2. CASE End(c)
  <2>1. cmd'[c] = Idle /\ UNCHANGED <<zsh>>
    BY <1>2, Courses DEF End, shell, Stops
  <2> QED
    BY <2>1, StoppedGoneCourse DEF NoOrphan
<1>3. CASE Fail(c)
  <2>1. cmd'[c] = Idle /\ UNCHANGED <<zsh>>
    BY <1>3, Courses DEF Fail, shell, Stops
  <2> QED
    BY <2>1, StoppedGoneCourse DEF NoOrphan
<1>4. CASE TrustCA(c)
  <2>1. At(c, "anchor") /\ UNCHANGED <<dns, zsh>>
    BY <1>4 DEF TrustCA, shell
  <2>2. cmd[c].op \notin Removing
    BY <2>1, NextStep DEF RemoveSteps
  <2>3. Moves(c, "anchor") => GoneCourse(c)'
    BY <2>2, GoneElsewhere DEF Steps
  <2> QED
    BY <1>4, <2>1, <2>3, Courses, StoppedGoneCourse DEF NoOrphan, Stops
<1>5. CASE NssAdd(c)
  <2>1. At(c, "nssAdd") /\ UNCHANGED <<dns, zsh>> /\ Moves(c, "nssAdd")
    BY <1>5, Courses DEF NssAdd, shell
  <2>2. cmd[c].op \notin Removing
    BY <2>1, NextStep DEF RemoveSteps
  <2> QED
    BY <2>1, <2>2, GoneElsewhere DEF Steps, NoOrphan
<1>6. CASE NssDelete(c)
  <2>1. UNCHANGED <<anchor, dns, zsh>>
    BY <1>6 DEF NssDelete, shell
  <2>2. ASSUME NEW h \in {"nssDelete", "nssRemove"}, Moves(c, h), nss' = 0
        PROVE  NoOrphan' /\ GoneCourse(c)'
    <3>1. ~At(c, "hook")'
      BY <2>2 DEF Moves, Chained, Chain
    <3>2. /\ cmd'[c].op = cmd[c].op
          /\ \A x \in {"untrust", "dnsMainOff", "dnsTestOff", "zshOff", "hookOff"} :
               Left(c, x) => Left(c, x)'
      BY <2>2 DEF Moves, Goes
    <3> QED
      BY <2>1, <2>2, <3>1, <3>2 DEF GoneCourse, NoOrphan
  <2>3. CASE nss' = nss /\ Moves(c, "nssDelete")
    BY <2>1, <2>3, GoneQuiet DEF Steps
  <2>4. nss' = 0 \/ nss' = nss
    BY <1>6 DEF NssDelete
  <2> QED
    BY <1>6, <2>2, <2>3, <2>4, Courses
<1>7. CASE UntrustCA(c)
  <2>1. UNCHANGED <<nss, dns, zsh>> /\ anchor' = 0 /\ Moves(c, "untrust")
    BY <1>7, Courses DEF UntrustCA, shell
  <2>2. ~At(c, "hook")'
    BY <2>1 DEF Moves, Chained, Chain
  <2>3. /\ cmd'[c].op = cmd[c].op
        /\ \A x \in {"nssRemove", "dnsMainOff", "dnsTestOff", "zshOff", "hookOff"} :
             Left(c, x) => Left(c, x)'
    BY <2>1 DEF Moves, Goes
  <2> QED
    BY <2>1, <2>2, <2>3 DEF GoneCourse, NoOrphan
<1>8. CASE DnsMain(c)
  <2>1. At(c, "dnsMain") /\ zsh' = zsh /\ Moves(c, "dnsMain")
    BY <1>8, Courses DEF DnsMain
  <2>2. cmd[c].op \notin Removing
    BY <2>1, NextStep DEF RemoveSteps
  <2> QED
    BY <2>1, <2>2, GoneElsewhere DEF Steps, NoOrphan
<1>9. CASE DnsTest(c)
  <2>1. At(c, "dnsTest") /\ zsh' = zsh /\ Moves(c, "dnsTest")
    BY <1>9, Courses DEF DnsTest
  <2>2. cmd[c].op \notin Removing
    BY <2>1, NextStep DEF RemoveSteps
  <2> QED
    BY <2>1, <2>2, GoneElsewhere DEF Steps, NoOrphan
<1>10. CASE DnsTestOff(c)
  <2>1. UNCHANGED <<anchor, nss, zsh>> /\ Moves(c, "dnsTestOff")
    BY <1>10, Courses DEF DnsTestOff
  <2>2. dns'.test # "on" /\ dns'.main = dns.main
    BY <1>10 DEF DnsTestOff, Off, SysTyped, SystemTypeOK
  <2>3. ~At(c, "hook")'
    BY <2>1 DEF Moves, Chained, Chain
  <2>4. /\ cmd'[c].op = cmd[c].op
        /\ \A x \in {"untrust", "nssRemove", "dnsMainOff", "zshOff", "hookOff"} :
             Left(c, x) => Left(c, x)'
    BY <2>1 DEF Moves, Goes
  <2> QED
    BY <2>1, <2>2, <2>3, <2>4 DEF GoneCourse, NoOrphan
<1>11. CASE DnsMainOff(c)
  <2>1. UNCHANGED <<anchor, nss, zsh>> /\ Moves(c, "dnsMainOff")
    BY <1>11, Courses DEF DnsMainOff
  <2>2. dns'.main # "on" /\ dns'.test = dns.test
    BY <1>11 DEF DnsMainOff, Off, SysTyped, SystemTypeOK
  <2>3. ~At(c, "hook")'
    BY <2>1 DEF Moves, Chained, Chain
  <2>4. /\ cmd'[c].op = cmd[c].op
        /\ \A x \in {"untrust", "nssRemove", "dnsTestOff", "zshOff", "hookOff"} :
             Left(c, x) => Left(c, x)'
    BY <2>1 DEF Moves, Goes
  <2> QED
    BY <2>1, <2>2, <2>3, <2>4 DEF GoneCourse, NoOrphan
<1>12. CASE WriteZshIntegration(c)
  <2>1. At(c, "zshFile") /\ Moves(c, "zshFile")
    BY <1>12, Courses DEF WriteZshIntegration
  <2>2. zsh'.file = "on"
    BY <1>12 DEF WriteZshIntegration, SysTyped, SystemTypeOK
  <2>3. cmd'[c].op \notin Removing
    BY <2>1, NextStep DEF Moves, Goes, RemoveSteps
  <2> QED
    BY <2>2, <2>3 DEF GoneCourse, NoOrphan
<1>13. CASE EnsureZshrcHook(c)
  <2>1. At(c, "hook") /\ Moves(c, "hook")
    BY <1>13, Courses DEF EnsureZshrcHook
  <2>2. zsh'.file = zsh.file
    BY <1>13 DEF EnsureZshrcHook, SysTyped, SystemTypeOK
  <2>3. zsh.file # "absent"
    BY <2>1 DEF GoneCourse
  <2>4. cmd[c].op \notin Removing
    BY <2>1, NextStep DEF RemoveSteps
  <2> QED
    BY <2>1, <2>2, <2>3, <2>4, GoneElsewhere DEF Steps, NoOrphan
<1>14. CASE DisableZsh(c)
  <2>1. UNCHANGED <<anchor, nss, dns>>
    BY <1>14 DEF DisableZsh
  <2>2. CASE zsh.file = "absent"
    <3>1. Skips(c, "zshOff") /\ zsh' = zsh /\ zsh.hook # "on"
      BY <1>14, <2>2, Courses DEF DisableZsh, NoOrphan
    <3>2. /\ ~At(c, "hook")' /\ cmd'[c].op = cmd[c].op
          /\ \A x \in {"untrust", "nssRemove", "dnsMainOff", "dnsTestOff"} : Left(c, x) =>
               Left(c, x)'
      BY <3>1 DEF Skips, Goes, Chained, Skipped
    <3> QED
      BY <2>1, <2>2, <3>1, <3>2 DEF GoneCourse, NoOrphan
  <2>3. CASE zsh.file # "absent"
    <3>1. Moves(c, "zshOff")
      BY <1>14, <2>3, Courses
    <3>2. zsh'.file = "off" /\ zsh'.hook = zsh.hook
      BY <1>14, <2>3 DEF DisableZsh, SysTyped, SystemTypeOK
    <3>3. ~At(c, "hook")'
      BY <3>1 DEF Moves, Chained, Chain
    <3>4. /\ cmd'[c].op = cmd[c].op
          /\ \A x \in {"untrust", "nssRemove", "dnsMainOff", "dnsTestOff", "hookOff"} :
               Left(c, x) => Left(c, x)'
      BY <3>1 DEF Moves, Goes
    <3> QED
      BY <2>1, <3>2, <3>3, <3>4 DEF GoneCourse, NoOrphan
  <2> QED
    BY <2>2, <2>3
<1>15. CASE CommentZshrcHook(c)
  <2>1. UNCHANGED <<anchor, nss, dns>> /\ Moves(c, "hookOff")
    BY <1>15, Courses DEF CommentZshrcHook
  <2>2. zsh'.hook # "on" /\ zsh'.file = zsh.file
    BY <1>15 DEF CommentZshrcHook, Off, SysTyped, SystemTypeOK
  <2>3. ~At(c, "hook")'
    BY <2>1 DEF Moves, Chained, Chain
  <2>4. /\ cmd'[c].op = cmd[c].op
        /\ \A x \in {"untrust", "nssRemove", "dnsMainOff", "dnsTestOff", "zshOff"} :
             Left(c, x) => Left(c, x)'
    BY <2>1 DEF Moves, Goes
  <2> QED
    BY <2>1, <2>2, <2>3, <2>4 DEF GoneCourse, NoOrphan
<1>16. CASE PurgeConfig(c)
  <2>1. At(c, "purgeConfig") /\ UNCHANGED <<anchor, nss, dns>> /\ Moves(c, "purgeConfig")
    BY <1>16, Courses DEF PurgeConfig
  <2>2. zsh'.file = "absent" /\ zsh'.hook = zsh.hook
    BY <1>16 DEF PurgeConfig, SysTyped, SystemTypeOK
  <2>3. /\ cmd[c].op \in Removing
        /\ \A x \in {"untrust", "nssRemove", "dnsMainOff", "dnsTestOff", "zshOff", "hookOff"} :
             ~Left(c, x)
    BY <2>1, NextStep DEF RemoveSteps
  <2>4. ~At(c, "hook")'
    BY <2>1 DEF Moves, Chained, Chain
  <2> QED
    BY <2>1, <2>2, <2>3, <2>4 DEF GoneCourse, NoOrphan
<1>17. CASE CheckCA(c)
  <2>1. UNCHANGED <<anchor, nss, dns, zsh>>
    BY <1>17 DEF CheckCA, shell
  <2> QED
    BY <1>17, <2>1, Courses, GoneQuiet DEF Steps
<1>18. CASE WriteCert(c)
  <2>1. UNCHANGED <<anchor, nss, dns, zsh>>
    BY <1>18 DEF WriteCert, shell
  <2> QED
    BY <1>18, <2>1, Courses, GoneQuiet DEF Steps
<1>19. CASE WriteKey(c)
  <2>1. UNCHANGED <<anchor, nss, dns, zsh>>
    BY <1>19 DEF WriteKey, shell
  <2> QED
    BY <1>19, <2>1, Courses, GoneQuiet DEF Steps
<1>20. CASE LoadCA(c)
  <2>1. UNCHANGED <<anchor, nss, dns, zsh>>
    BY <1>20 DEF LoadCA, shell
  <2>2. CASE Stops(c)
    BY <2>1, <2>2, StoppedGoneCourse DEF NoOrphan, Stops
  <2>3. CASE Moves(c, "loadCA") \/ Skips(c, "loadCA")
    BY <2>1, <2>3, GoneQuiet DEF Steps
  <2> QED
    BY <1>20, <2>2, <2>3, Courses
<1>21. CASE SiteCert(c)
  <2>1. UNCHANGED <<anchor, nss, dns, zsh>>
    BY <1>21 DEF SiteCert, shell
  <2> QED
    BY <1>21, <2>1, Courses, GoneQuiet DEF Steps
<1>22. CASE SiteKey(c)
  <2>1. UNCHANGED <<anchor, nss, dns, zsh>>
    BY <1>22 DEF SiteKey, shell
  <2> QED
    BY <1>22, <2>1, Courses, GoneQuiet DEF Steps
<1>23. CASE ExistingCA(c)
  <2>1. UNCHANGED <<anchor, nss, dns, zsh>>
    BY <1>23 DEF ExistingCA, shell
  <2>2. CASE Stops(c)
    BY <2>1, <2>2, StoppedGoneCourse DEF NoOrphan, Stops
  <2>3. CASE Moves(c, "existingCA") \/ Skips(c, "existingCA")
    BY <2>1, <2>3, GoneQuiet DEF Steps
  <2> QED
    BY <1>23, <2>2, <2>3, Courses
<1>24. CASE CheckCap(c)
  <2>1. UNCHANGED <<anchor, nss, dns, zsh>>
    BY <1>24 DEF CheckCap, shell
  <2> QED
    BY <1>24, <2>1, Courses, GoneQuiet DEF Steps
<1>25. CASE EnableLowPortBinding(c)
  <2>1. UNCHANGED <<anchor, nss, dns, zsh>>
    BY <1>25 DEF EnableLowPortBinding, shell
  <2> QED
    BY <1>25, <2>1, Courses, GoneQuiet DEF Steps
<1>26. CASE Record(c)
  <2>1. UNCHANGED <<anchor, nss, dns, zsh>>
    BY <1>26 DEF Record, shell
  <2> QED
    BY <1>26, <2>1, Courses, GoneQuiet DEF Steps
<1>27. CASE ReadRecord(c)
  <2>1. UNCHANGED <<anchor, nss, dns, zsh>>
    BY <1>27 DEF ReadRecord, shell
  <2> QED
    BY <1>27, <2>1, Courses, GoneQuiet DEF Steps
<1>28. CASE DisableLowPortBinding(c)
  <2>1. UNCHANGED <<anchor, nss, dns, zsh>>
    BY <1>28 DEF DisableLowPortBinding, shell
  <2> QED
    BY <1>28, <2>1, Courses, GoneQuiet DEF Steps
<1>29. CASE Forget(c)
  <2>1. UNCHANGED <<anchor, nss, dns, zsh>>
    BY <1>29 DEF Forget, shell
  <2> QED
    BY <1>29, <2>1, Courses, GoneQuiet DEF Steps
<1>30. CASE Runtimes(c)
  <2>1. UNCHANGED <<anchor, nss, dns, zsh>>
    BY <1>30 DEF Runtimes, shell
  <2> QED
    BY <1>30, <2>1, Courses, GoneQuiet DEF Steps
<1>31. CASE PurgeData(c)
  <2>1. UNCHANGED <<anchor, nss, dns, zsh>>
    BY <1>31 DEF PurgeData, shell
  <2> QED
    BY <1>31, <2>1, Courses, GoneQuiet DEF Steps
<1> QED
  BY <1>1, <1>2, <1>3, <1>4, <1>5, <1>6, <1>7, <1>8, <1>9, <1>10, <1>11, <1>12, <1>13,
     <1>14, <1>15, <1>16, <1>17, <1>18, <1>19, <1>20, <1>21, <1>22, <1>23, <1>24, <1>25,
     <1>26, <1>27, <1>28, <1>29, <1>30, <1>31 DEF Step

(***************************************************************************)
(* An uninstall that has gone through takes back everything, whatever      *)
(* commands came before and wherever they stopped: with one command at a   *)
(* time.  A capability of Herdlite's own that it leaves has no record, or  *)
(* keeps its record, which this uninstall could not read.                  *)
(***************************************************************************)
THEOREM UninstallTakesAll ==
  ASSUME "overlap" \notin Faults
  PROVE  SystemSpec => []UninstalledLeavesNothing
<1> USE SystemAssumption
<1>1. SystemInit => GoneInv
  <2> SUFFICES ASSUME SystemInit PROVE GoneInv
    OBVIOUS
  <2>1. RecInv
    BY RecInit
  <2>2. \A c \in Commands : cmd[c] = Idle
    BY DEF SystemInit
  <2>3. \A c \in Commands : GoneCourse(c)
    BY <2>2, IdleIsNothing DEF GoneCourse
  <2>4. last = "none" /\ NoOrphan /\ "none" \notin Removing
    BY DEF SystemInit, NoOrphan, Removing
  <2> QED
    BY <2>1, <2>2, <2>3, <2>4 DEF GoneInv, UninstalledLeavesNothing
<1>2. GoneInv /\ [SystemNext]_systemVars => GoneInv'
  <2> SUFFICES ASSUME GoneInv, [SystemNext]_systemVars PROVE GoneInv'
    OBVIOUS
  <2>1. /\ RecInv /\ RecInv' /\ SysTyped /\ Sole /\ NoOrphan
        /\ last # "none" => AllIdle
        /\ \A c \in Commands : GoneCourse(c) /\ RecordCourse(c)
        /\ UninstalledLeavesNothing
    BY RecNext DEF GoneInv, RecInv
  <2>2. "none" \notin Removing
    BY DEF Removing
  <2>3. ASSUME NEW c \in Commands, Step(c)
        PROVE  GoneInv'
    <3>1. /\ \A d \in Commands \ {c} : cmd[d] = Idle /\ cmd'[d] = Idle
          /\ ~Begin(c) => cmd[c] # Idle
      BY <2>1, <2>3, Alone
    <3>2. NoOrphan' /\ GoneCourse(c)'
      BY <2>1, <2>3, GoneStep
    <3>3. \A d \in Commands : GoneCourse(d)'
      BY <3>1, <3>2, StoppedGoneCourse
    <3>4. CASE End(c)
      <4>1. cmd'[c] = Idle /\ last' = cmd[c].op /\ cmd[c].todo = <<>>
        BY <2>1, <3>4, Courses DEF End, Stops
      <4>2. AllIdle'
        BY <3>1, <4>1 DEF AllIdle
      <4>3. \A x : ~Left(c, x)
        BY <4>1 DEF Left, In
      <4>4. UNCHANGED <<anchor, nss, dns, zsh, cap, owned, stray, blind>>
        BY <3>4 DEF End, trust, nginx, shell
      <4>5. UninstalledLeavesNothing'
        BY <2>1, <4>1, <4>3, <4>4 DEF UninstalledLeavesNothing, GoneCourse, RecordCourse
      <4> QED
        BY <2>1, <3>2, <3>3, <4>2, <4>5 DEF GoneInv
    <3>5. CASE ~End(c)
      <4>1. last' = "none"
        BY <2>1, <2>3, <3>1, <3>5, HistoryStays DEF AllIdle, Begin
      <4> QED
        BY <2>1, <2>2, <3>2, <3>3, <4>1 DEF GoneInv, UninstalledLeavesNothing
    <3> QED
      BY <3>4, <3>5
  <2>4. CASE UserSetcap \/ UpgradeNginx
    <3>1. UNCHANGED <<anchor, nss, dns, zsh, cmd>>
      BY <2>4, NobodyMoves
    <3>2. last' = "none"
      BY <2>4 DEF UserSetcap, UpgradeNginx
    <3>3. NoOrphan' /\ \A c \in Commands : GoneCourse(c)'
      BY <2>1, <3>1 DEF NoOrphan, GoneCourse, At, Left
    <3> QED
      BY <2>1, <2>2, <3>2, <3>3 DEF GoneInv, UninstalledLeavesNothing
  <2>5. CASE UNCHANGED systemVars
    <3>1. UNCHANGED <<anchor, nss, dns, zsh, cmd, cap, owned, stray, blind, last>>
      BY <2>5 DEF systemVars, trust, nginx, shell
    <3>2. NoOrphan' /\ \A c \in Commands : GoneCourse(c)'
      BY <2>1, <3>1 DEF NoOrphan, GoneCourse, At, Left
    <3> QED
      BY <2>1, <3>1, <3>2 DEF GoneInv, UninstalledLeavesNothing, AllIdle
  <2> QED
    BY <2>3, <2>4, <2>5 DEF SystemNext
<1>3. GoneInv => UninstalledLeavesNothing
  BY DEF GoneInv
<1> QED
  BY <1>1, <1>2, <1>3, PTL DEF SystemSpec
=============================================================================
