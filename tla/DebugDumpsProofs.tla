-------------------------- MODULE DebugDumpsProofs --------------------------
(***************************************************************************)
(* Proofs about DebugDumps, for any number of scripts and tabs, any cap,   *)
(* any bounds and any subset of the faults.                                *)
(***************************************************************************)
EXTENDS DebugDumps, FiniteSetTheorems, SequenceTheorems, TLAPS

\* The types, apart: what the server keeps, and what the tabs keep.
ServerTypeOK ==
  /\ table \in SUBSET Dumps
  /\ lastId \in Nat
  /\ token \in Nat
  /\ post \in [Posts -> [pc : {"new", "stored", "done"}, id : Nat]]

TabsTypeOK ==
  /\ tab \in [Tabs -> TabState]
  /\ calls \in [Tabs -> [Slots -> CallState]]
  /\ chan \in [Tabs -> Seq(Events)]
  /\ asked \in [Tabs -> Nat]
  /\ answers \in [Tabs -> Seq(SUBSET Dumps)]
  /\ missed \in [Tabs -> BOOLEAN]

LEMMA TypeParts == TypeOK <=> ServerTypeOK /\ TabsTypeOK
BY DEF TypeOK, ServerTypeOK, TabsTypeOK

LEMMA InitTypeOK == Init => TypeOK
<1> SUFFICES ASSUME Init PROVE TypeOK
  OBVIOUS
<1>1. ServerTypeOK
  BY DEF Init, ServerTypeOK, None, Dumps
<1>2. PICK on \in [Tabs -> BOOLEAN] :
        tab = [t \in Tabs |-> [booted |-> FALSE, token |-> 0, live |-> FALSE,
                               auto |-> on[t], pending |-> None, burst |-> {},
                               timer |-> FALSE, list |-> {}]]
  BY DEF Init
<1>3. TabsTypeOK
  BY <1>2 DEF Init, TabsTypeOK, TabState, CallState, FreeCall, None
<1> QED
  BY <1>1, <1>3, TypeParts

\* Announcements keep the types of the channels.
LEMMA AnnounceTyped ==
  ASSUME TypeOK, NEW event \in Events, Announce(event)
  PROVE  chan' \in [Tabs -> Seq(Events)] /\ missed' \in [Tabs -> BOOLEAN]
<1>1. \A t \in Tabs : Append(chan[t], event) \in Seq(Events)
  BY AppendProperties DEF TypeOK
<1>2. chan' \in [Tabs -> Seq(Events)]
  BY <1>1 DEF Announce, TypeOK
<1>3. missed' \in [Tabs -> BOOLEAN]
  BY DEF Announce, Reached, TypeOK, TabState
<1> QED
  BY <1>2, <1>3

LEMMA ServerTypeStep == TypeOK /\ [Next]_vars => ServerTypeOK'
<1> SUFFICES ASSUME TypeOK, [Next]_vars PROVE ServerTypeOK'
  OBVIOUS
<1> USE TypeParts DEF ServerTypeOK
<1>1. ASSUME NEW p \in Posts, AddDump(p) PROVE ServerTypeOK'
  <2>1. NextId \in Nat \ {0}
    BY DEF NextId
  <2> QED BY <1>1, <2>1 DEF AddDump, Dumps
<1>2. ASSUME NEW p \in Posts, PublishCreated(p) PROVE ServerTypeOK'
  BY <1>2 DEF PublishCreated
<1>3. ASSUME NEW t \in Tabs, NEW k \in Slots, HandleDelete(t, k) PROVE ServerTypeOK'
  BY <1>3 DEF HandleDelete
<1>4. CASE Restart
  BY <1>4 DEF Restart
<1>5. CASE UNCHANGED <<table, lastId, token, post>>
  BY <1>5
<1>6. ASSUME NEW t \in Tabs, TabStep(t) \/ UserStep(t) \/ Disconnect(t) \/ ReadList(t)
                             \/ ListFails(t) \/ \E k \in Slots : PublishCleared(t, k) \/ DeleteFails(t, k)
      PROVE  UNCHANGED <<table, lastId, token, post>>
  BY <1>6 DEF TabStep, UserStep, Disconnect, ReadList, ListFails, DeleteFails, PublishCleared, Connect, Boot,
              HandleEvent, TimerFires, ApplyList, Reload, UserDelete, SetAutoClear
<1>7. CASE UNCHANGED vars
  BY <1>7, <1>5 DEF vars
<1> QED
  BY <1>1, <1>2, <1>3, <1>4, <1>5, <1>6, <1>7 DEF Next, ServerStep

LEMMA TabsTypeStep == TypeOK /\ [Next]_vars => TabsTypeOK'
<1> SUFFICES ASSUME TypeOK, [Next]_vars PROVE TabsTypeOK'
  OBVIOUS
<1> USE TypeParts
<1>a. ASSUME UNCHANGED <<tab, calls, chan, asked, answers, missed>> PROVE TabsTypeOK'
  BY <1>a DEF TabsTypeOK
<1>1. ASSUME NEW p \in Posts, AddDump(p) PROVE TabsTypeOK'
  BY <1>1, <1>a DEF AddDump, tabVars
<1>2. ASSUME NEW p \in Posts, PublishCreated(p) PROVE TabsTypeOK'
  <2>1. [type |-> "dump.created", id |-> post[p].id] \in Events
    BY DEF ServerTypeOK, Events
  <2>2. chan' \in [Tabs -> Seq(Events)] /\ missed' \in [Tabs -> BOOLEAN]
    BY <1>2, <2>1, AnnounceTyped DEF PublishCreated
  <2> QED BY <1>2, <2>2 DEF PublishCreated, TabsTypeOK, tabVars
<1>b. ASSUME NEW t \in Tabs, NEW k \in Slots, NEW new \in CallState,
             calls' = [calls EXCEPT ![t][k] = new]
      PROVE  calls' \in [Tabs -> [Slots -> CallState]]
  BY <1>b DEF TabsTypeOK
<1>e. ASSUME NEW t \in Tabs, NEW new \in TabState, tab' = [tab EXCEPT ![t] = new]
      PROVE  tab' \in [Tabs -> TabState]
  BY <1>e DEF TabsTypeOK
<1>f. \A t \in Tabs : tab[t] \in TabState
  BY DEF TabsTypeOK
<1>c. \A t \in Tabs, k \in Slots : calls[t][k] \in CallState
  BY DEF TabsTypeOK
<1>d. FreeCall \in CallState
  BY DEF FreeCall, CallState, None
<1>3. ASSUME NEW t \in Tabs, NEW k \in Slots, HandleDelete(t, k) PROVE TabsTypeOK'
  <2> DEFINE on(pc) == [calls[t][k] EXCEPT !.pc = pc]
  <2>1. on("mutated") \in CallState /\ on("answered") \in CallState
    BY <1>c DEF CallState
  <2>2. \/ calls' = [calls EXCEPT ![t][k] = FreeCall]
        \/ calls' = [calls EXCEPT ![t][k] = on("mutated")]
        \/ calls' = [calls EXCEPT ![t][k] = on("answered")]
    BY <1>3 DEF HandleDelete, TabsTypeOK
  <2> HIDE DEF on
  <2>3. calls' \in [Tabs -> [Slots -> CallState]]
    BY <2>1, <2>2, <1>b, <1>d
  <2> QED BY <1>3, <2>3 DEF HandleDelete, TabsTypeOK
<1>4. ASSUME NEW t \in Tabs, NEW k \in Slots, PublishCleared(t, k) PROVE TabsTypeOK'
  <2>1. [type |-> "debug.cleared", id |-> None] \in Events
    BY DEF Events, None
  <2>2. chan' \in [Tabs -> Seq(Events)] /\ missed' \in [Tabs -> BOOLEAN]
    BY <1>4, <2>1, AnnounceTyped DEF PublishCleared
  <2>3. [calls[t][k] EXCEPT !.pc = "answered"] \in CallState
    BY <1>c DEF CallState
  <2>4. calls' = [calls EXCEPT ![t][k] = [calls[t][k] EXCEPT !.pc = "answered"]]
    BY <1>4 DEF PublishCleared, TabsTypeOK
  <2>5. calls' \in [Tabs -> [Slots -> CallState]]
    BY <2>3, <2>4, <1>b
  <2> QED BY <1>4, <2>2, <2>5 DEF PublishCleared, TabsTypeOK
<1>5. ASSUME NEW t \in Tabs, ReadList(t) PROVE TabsTypeOK'
  <2>1. Append(answers[t], table) \in Seq(SUBSET Dumps)
    BY AppendProperties DEF TabsTypeOK, ServerTypeOK
  <2> QED BY <1>5, <2>1 DEF ReadList, TabsTypeOK
<1>9. ASSUME NEW t \in Tabs, NEW k \in Slots, DeleteFails(t, k) PROVE TabsTypeOK'
  BY <1>9, <1>b, <1>d DEF DeleteFails, TabsTypeOK
<1>10. ASSUME NEW t \in Tabs, ListFails(t) PROVE TabsTypeOK'
  BY <1>10 DEF ListFails, TabsTypeOK
<1>6. CASE Restart
  <2>1. \A t \in Tabs : [tab[t] EXCEPT !.live = FALSE] \in TabState
    BY <1>f DEF TabState
  <2>2. tab' \in [Tabs -> TabState] /\ calls' \in [Tabs -> [Slots -> CallState]]
    BY <1>6, <2>1, <1>d DEF Restart
  <2> QED BY <1>6, <2>2 DEF Restart, TabsTypeOK
<1>7. ASSUME NEW t \in Tabs, TabStep(t) \/ UserStep(t) \/ Disconnect(t) PROVE TabsTypeOK'
  <2>1. CASE Connect(t)
    BY <2>1 DEF Connect, TabsTypeOK, TabState
  <2>2. CASE Boot(t)
    <3>1. [tab[t] EXCEPT !.booted = TRUE, !.token = token] \in TabState
      BY <1>f DEF TabState, ServerTypeOK
    <3>2. tab' = [tab EXCEPT ![t] = [tab[t] EXCEPT !.booted = TRUE, !.token = token]]
      BY <2>2 DEF Boot, TabsTypeOK
    <3>3. tab' \in [Tabs -> TabState]
      BY <3>1, <3>2, <1>e
    <3> QED BY <2>2, <3>3 DEF Boot, TabsTypeOK
  <2>3. CASE HandleEvent(t)
    <3>1. Head(chan[t]) \in Events /\ Tail(chan[t]) \in Seq(Events)
      BY <2>3, HeadTailProperties DEF HandleEvent, TabsTypeOK
    <3>2. chan' \in [Tabs -> Seq(Events)]
      BY <2>3, <3>1 DEF HandleEvent, TabsTypeOK
    <3> DEFINE e == Head(chan[t])
               new == [tab[t] EXCEPT !.pending = Earliest(@, e.id), !.burst = @ \cup {e.id},
                                     !.timer = TRUE]
    <3>3. e.id \in Nat
      BY <3>1 DEF Events
    <3>4. Earliest(tab[t].pending, e.id) \in Nat
      BY <3>3, <1>f DEF Earliest, TabState
    <3>5. new \in TabState
      BY <3>3, <3>4, <1>f DEF TabState
    <3>a. \/ tab' = [tab EXCEPT ![t].pending = Earliest(@, e.id), ![t].burst = @ \cup {e.id},
                                 ![t].timer = TRUE]
          \/ tab' = tab
      BY <2>3 DEF HandleEvent
    <3> HIDE DEF e
    <3>6. tab' = [tab EXCEPT ![t] = new] \/ tab' = tab
      BY <3>a DEF TabsTypeOK
    <3> USE DEF e
    <3>7. tab' \in [Tabs -> TabState]
      <4> HIDE DEF new
      <4> QED BY <3>5, <3>6, <1>e DEF TabsTypeOK
    <3> HIDE DEF e, new
    <3>8. asked' \in [Tabs -> Nat]
      <4>1. asked' = [asked EXCEPT ![t] = asked[t] + 1] \/ asked' = asked
        BY <2>3 DEF HandleEvent
      <4>2. asked \in [Tabs -> Nat] /\ asked[t] + 1 \in Nat
        BY DEF TabsTypeOK
      <4> QED BY <4>1, <4>2
    <3> QED BY <2>3, <3>2, <3>7, <3>8 DEF HandleEvent, TabsTypeOK
  <2>4. CASE TimerFires(t)
    <3> DEFINE call == [pc |-> "sent", kind |-> "before", id |-> tab[t].pending,
                        burst |-> tab[t].burst]
               new == [tab[t] EXCEPT !.timer = FALSE, !.pending = None, !.burst = {}]
    <3>1. call \in CallState /\ new \in TabState /\ "auto" \in Slots
      BY <1>f DEF TabState, CallState, None, Slots
    <3>2. calls' = [calls EXCEPT ![t]["auto"] = call] /\ tab' = [tab EXCEPT ![t] = new]
      BY <2>4 DEF TimerFires, TabsTypeOK
    <3> HIDE DEF call, new
    <3>3. calls' \in [Tabs -> [Slots -> CallState]] /\ tab' \in [Tabs -> TabState]
      BY <3>1, <3>2, <1>b, <1>e
    <3> QED BY <2>4, <3>3 DEF TimerFires, TabsTypeOK
  <2>5. CASE ApplyList(t)
    <3>1. PICK i \in 1..Len(answers[t]) :
            /\ tab' = [tab EXCEPT ![t].list = answers[t][i]]
            /\ answers' = [answers EXCEPT ![t] = SubSeq(@, 1, i - 1) \o SubSeq(@, i + 1, Len(@))]
            /\ UNCHANGED <<calls, chan, asked, missed>>
      BY <2>5 DEF ApplyList
    <3>2. answers[t] \in Seq(SUBSET Dumps) /\ Len(answers[t]) \in Nat
      BY LenProperties DEF TabsTypeOK
    <3>3. answers[t][i] \in SUBSET Dumps
      BY <3>2, ElementOfSeq
    <3>4. /\ SubSeq(answers[t], 1, i - 1) \in Seq(SUBSET Dumps)
          /\ SubSeq(answers[t], i + 1, Len(answers[t])) \in Seq(SUBSET Dumps)
      BY <3>2, ElementOfSeq, SubSeqProperties
    <3>5. SubSeq(answers[t], 1, i - 1) \o SubSeq(answers[t], i + 1, Len(answers[t]))
            \in Seq(SUBSET Dumps)
      BY <3>4, ConcatProperties
    <3>6. answers' \in [Tabs -> Seq(SUBSET Dumps)]
      BY <3>1, <3>5 DEF TabsTypeOK
    <3> QED BY <3>1, <3>3, <3>6 DEF TabsTypeOK, TabState
  <2>6. ASSUME NEW k \in Slots, Reload(t, k) PROVE TabsTypeOK'
    BY <2>6 DEF Reload, TabsTypeOK, CallState, FreeCall, None
  <2>7. CASE UserDelete(t)
    <3>1. \A d \in tab[t].list : d.id \in Nat
      BY DEF TabsTypeOK, TabState, Dumps
    <3> QED BY <2>7, <3>1 DEF UserDelete, TabsTypeOK, CallState, None, Slots
  <2>8. CASE SetAutoClear(t)
    BY <2>8 DEF SetAutoClear, TabsTypeOK, TabState
  <2>9. CASE Disconnect(t)
    <3>1. chan' \in [Tabs -> Seq(Events)]
      BY <2>9 DEF Disconnect, TabsTypeOK
    <3> QED BY <2>9, <3>1 DEF Disconnect, TabsTypeOK, TabState
  <2> QED
    BY <1>7, <2>1, <2>2, <2>3, <2>4, <2>5, <2>6, <2>7, <2>8, <2>9 DEF TabStep, UserStep
<1>8. CASE UNCHANGED vars
  BY <1>8, <1>a DEF vars
<1> QED
  BY <1>1, <1>2, <1>3, <1>4, <1>5, <1>6, <1>7, <1>8, <1>9, <1>10 DEF Next, ServerStep

THEOREM DumpsTypeCorrect == Spec => []TypeOK
<1>1. TypeOK /\ [Next]_vars => TypeOK'
  BY ServerTypeStep, TabsTypeStep, TypeParts DEF TypeOK, ServerTypeOK, TabsTypeOK
<1> QED
  BY InitTypeOK, <1>1, PTL DEF Spec

-----------------------------------------------------------------------------
(***************************************************************************)
(* The strengthening of CapHolds and IdsKeepTheirMeaning: over everything  *)
(* that is stored, shown or on its way to a tab, an id names one dump and  *)
(* is not above the counter.                                               *)
(***************************************************************************)
Known == table \cup UNION {Shown(t) : t \in Tabs}

StoreInv ==
  /\ TypeOK
  /\ IsFiniteSet(table) /\ Cardinality(table) <= Cap
  /\ \A d \in Known : d.id <= lastId
  /\ \A d, e \in Known : d.id = e.id => d = e

LEMMA InitStoreInv == Init => StoreInv
<1> SUFFICES ASSUME Init PROVE StoreInv
  OBVIOUS
<1>1. IsFiniteSet(table) /\ Cardinality(table) = 0
  BY FS_EmptySet DEF Init
<1>2. \A t \in Tabs : tab[t].list = {} /\ answers[t] = <<>>
  BY DEF Init
<1>3. \A t \in Tabs : Shown(t) = {}
  BY <1>2 DEF Shown
<1>4. Known = {}
  BY <1>3 DEF Known, Init
<1> QED
  BY <1>1, <1>4, InitTypeOK, DumpAssumption DEF StoreInv

(***************************************************************************)
(* Only AddDump makes a dump known; it has the next id.                    *)
(***************************************************************************)
LEMMA KnownStep ==
  ASSUME TypeOK, Next, ~\E p \in Posts : AddDump(p)
  PROVE  table' \subseteq table /\ lastId' = lastId /\ Known' \subseteq Known
<1>a. ASSUME table' \subseteq table, \A t \in Tabs : Shown(t)' \subseteq Known
      PROVE  Known' \subseteq Known
  BY <1>a DEF Known
<1>b. ASSUME table' \subseteq table, \A t \in Tabs : tab[t].list' = tab[t].list, answers' = answers
      PROVE  Known' \subseteq Known
  BY <1>b DEF Known, Shown
<1>c. \A t \in Tabs : /\ answers[t] \in Seq(SUBSET Dumps) /\ Len(answers[t]) \in Nat
                     /\ DOMAIN answers[t] = 1..Len(answers[t])
  BY LenProperties DEF TypeOK
<1>1. ASSUME NEW p \in Posts, PublishCreated(p)
      PROVE  table' \subseteq table /\ lastId' = lastId /\ Known' \subseteq Known
  BY <1>1, <1>b DEF PublishCreated, tabVars
<1>2. ASSUME NEW t \in Tabs, NEW k \in Slots, HandleDelete(t, k) \/ PublishCleared(t, k)
      PROVE  table' \subseteq table /\ lastId' = lastId /\ Known' \subseteq Known
  BY <1>2, <1>b DEF HandleDelete, PublishCleared
<1>3. ASSUME NEW t \in Tabs, ReadList(t)
      PROVE  table' \subseteq table /\ lastId' = lastId /\ Known' \subseteq Known
  <2>1. table' = table /\ lastId' = lastId /\ tab' = tab
        /\ answers' = [answers EXCEPT ![t] = Append(@, table)]
    BY <1>3 DEF ReadList
  <2>2. ASSUME NEW u \in Tabs, NEW i \in DOMAIN answers'[u]
        PROVE  answers'[u][i] \subseteq Known
    <3>1. CASE u # t
      <4>1. answers'[u] = answers[u]
        BY <2>1, <3>1, <1>c DEF TypeOK
      <4> QED BY <4>1, <2>2 DEF Known, Shown
    <3>2. CASE u = t
      <4>1. answers'[t] = Append(answers[t], table)
        BY <2>1 DEF TypeOK
      <4>2. table \in SUBSET Dumps
        BY DEF TypeOK
      <4>3. /\ Append(answers[t], table) \in Seq(SUBSET Dumps)
            /\ Len(Append(answers[t], table)) = Len(answers[t]) + 1
            /\ \A j \in 1..Len(answers[t]) : Append(answers[t], table)[j] = answers[t][j]
            /\ Append(answers[t], table)[Len(answers[t]) + 1] = table
        BY <1>c, <4>2, AppendProperties
      <4>4. i \in 1..(Len(answers[t]) + 1)
        BY <2>2, <3>2, <4>1, <4>3, LenProperties
      <4>5. CASE i \in 1..Len(answers[t])
        BY <4>1, <4>3, <4>5, <3>2, <1>c DEF Known, Shown
      <4>6. CASE i = Len(answers[t]) + 1
        BY <4>1, <4>3, <4>6, <3>2 DEF Known
      <4> QED BY <4>4, <4>5, <4>6, <1>c
    <3> QED BY <3>1, <3>2
  <2>3. ASSUME NEW u \in Tabs PROVE Shown(u)' \subseteq Known
    BY <2>1, <2>2 DEF Shown, Known
  <2> QED BY <2>1, <2>3, <1>a
<1>4. ASSUME Restart
      PROVE  table' \subseteq table /\ lastId' = lastId /\ Known' \subseteq Known
  <2>1. \A t \in Tabs : tab[t].list' = tab[t].list
    BY <1>4 DEF Restart, TypeOK, TabState
  <2> QED BY <1>4, <2>1, <1>b DEF Restart
<1>5. ASSUME NEW t \in Tabs, TabStep(t) \/ UserStep(t) \/ Disconnect(t), ~ApplyList(t)
      PROVE  table' \subseteq table /\ lastId' = lastId /\ Known' \subseteq Known
  <2>1. table' = table /\ lastId' = lastId /\ answers' = answers
    BY <1>5 DEF TabStep, UserStep, Disconnect, Connect, Boot, HandleEvent, TimerFires, Reload,
                UserDelete, SetAutoClear
  <2>2. \A u \in Tabs : tab[u].list' = tab[u].list
    <3>0. tab \in [Tabs -> TabState]
      BY DEF TypeOK
    <3>1. CASE Connect(t)
      BY <3>0, <3>1 DEF Connect, TabState
    <3>2. CASE Boot(t)
      BY <3>0, <3>2 DEF Boot, TabState
    <3>3. CASE HandleEvent(t)
      <4> DEFINE e == Head(chan[t])
      <4>1. \/ tab' = tab
            \/ tab' = [tab EXCEPT ![t].pending = Earliest(@, e.id), ![t].burst = @ \cup {e.id},
                                  ![t].timer = TRUE]
        BY <3>3 DEF HandleEvent
      <4> HIDE DEF e
      <4> QED BY <3>0, <4>1 DEF TabState
    <3>4. CASE TimerFires(t)
      BY <3>0, <3>4 DEF TimerFires, TabState
    <3>5. CASE \E k \in Slots : Reload(t, k)
      BY <3>5 DEF Reload
    <3>6. CASE UserDelete(t)
      BY <3>6 DEF UserDelete
    <3>7. CASE SetAutoClear(t)
      BY <3>0, <3>7 DEF SetAutoClear, TabState
    <3>8. CASE Disconnect(t)
      BY <3>0, <3>8 DEF Disconnect, TabState
    <3> QED BY <1>5, <3>1, <3>2, <3>3, <3>4, <3>5, <3>6, <3>7, <3>8 DEF TabStep, UserStep
  <2> QED BY <2>1, <2>2, <1>b
<1>6. ASSUME NEW t \in Tabs, ApplyList(t)
      PROVE  table' \subseteq table /\ lastId' = lastId /\ Known' \subseteq Known
  <2> DEFINE n       == Len(answers[t])
             front(i) == SubSeq(answers[t], 1, i - 1)
             back(i)  == SubSeq(answers[t], i + 1, n)
             rest(i)  == front(i) \o back(i)
  <2>1. PICK i \in 1..n :
          /\ tab' = [tab EXCEPT ![t].list = answers[t][i]]
          /\ answers' = [answers EXCEPT ![t] = rest(i)]
          /\ table' = table /\ lastId' = lastId
    BY <1>6 DEF ApplyList
  <2>2. /\ front(i) \in Seq(SUBSET Dumps)
        /\ Len(front(i)) = i - 1
        /\ \A j \in 1..(i - 1) : front(i)[j] = answers[t][j]
    BY <1>c, ElementOfSeq, SubSeqProperties
  <2>3. /\ back(i) \in Seq(SUBSET Dumps)
        /\ Len(back(i)) = n - i
        /\ \A j \in 1..(n - i) : back(i)[j] = answers[t][j + i]
    BY <1>c, ElementOfSeq, SubSeqProperties
  <2>n. n \in Nat /\ i \in Nat /\ DOMAIN answers[t] = 1..n
    BY <1>c
  <2>4. /\ DOMAIN rest(i) = 1..(n - 1)
        /\ \A j \in 1..(n - 1) :
             rest(i)[j] = IF j <= i - 1 THEN front(i)[j] ELSE back(i)[j - (i - 1)]
    <3> HIDE DEF front, back, n
    <3>1. /\ rest(i) \in Seq(SUBSET Dumps)
          /\ Len(rest(i)) = Len(front(i)) + Len(back(i))
          /\ \A j \in 1..(Len(front(i)) + Len(back(i))) :
               rest(i)[j] = IF j <= Len(front(i)) THEN front(i)[j]
                            ELSE back(i)[j - Len(front(i))]
      BY <2>2, <2>3, ConcatProperties
    <3> HIDE DEF rest
    <3>2. DOMAIN rest(i) = 1..Len(rest(i))
      BY <3>1, LenProperties
    <3>3. Len(front(i)) + Len(back(i)) = n - 1
      BY <2>2, <2>3, <2>n
    <3> QED BY <3>1, <3>2, <3>3, <2>2
  <2> HIDE DEF rest, front, back
  <2>5. ASSUME NEW j \in DOMAIN rest(i) PROVE \E k \in DOMAIN answers[t] : rest(i)[j] = answers[t][k]
    <3> HIDE DEF n
    <3>0. j \in 1..(n - 1)
      BY <2>4, <2>5
    <3>1. CASE j <= i - 1
      <4>1. j \in 1..(i - 1) /\ j \in 1..n
        BY <3>0, <3>1, <2>n
      <4>2. rest(i)[j] = answers[t][j]
        BY <4>1, <3>0, <3>1, <2>2, <2>4
      <4> QED BY <4>1, <4>2, <2>n
    <3>2. CASE ~(j <= i - 1)
      <4>1. j - (i - 1) \in 1..(n - i) /\ j + 1 \in 1..n /\ (j - (i - 1)) + i = j + 1
        BY <3>0, <3>2, <2>n
      <4>2. rest(i)[j] = back(i)[j - (i - 1)]
        BY <3>0, <3>2, <2>4
      <4>3. back(i)[j - (i - 1)] = answers[t][j + 1]
        BY <4>1, <2>3
      <4> QED BY <4>1, <4>2, <4>3, <2>n
    <3> QED BY <3>1, <3>2
  <2> HIDE DEF rest
  <2>6. /\ tab'[t].list = answers[t][i] /\ answers'[t] = rest(i)
        /\ \A u \in Tabs \ {t} : tab'[u].list = tab[u].list /\ answers'[u] = answers[u]
    BY <2>1 DEF TypeOK, TabState
  <2>7. ASSUME NEW u \in Tabs PROVE Shown(u)' \subseteq Known
    <3>1. CASE u # t
      BY <2>6, <3>1 DEF Shown, Known
    <3>2. CASE u = t
      BY <2>5, <2>6, <3>2, <1>c DEF Shown, Known
    <3> QED BY <3>1, <3>2
  <2> QED BY <2>1, <2>7, <1>a
<1>7. ASSUME NEW t \in Tabs, ListFails(t) \/ \E k \in Slots : DeleteFails(t, k)
      PROVE  table' \subseteq table /\ lastId' = lastId /\ Known' \subseteq Known
  BY <1>7, <1>b DEF ListFails, DeleteFails
<1> QED
  BY <1>1, <1>2, <1>3, <1>4, <1>5, <1>6, <1>7 DEF Next, ServerStep

LEMMA StoreInvStep == StoreInv /\ [Next]_vars => StoreInv'
<1> SUFFICES ASSUME StoreInv, [Next]_vars PROVE StoreInv'
  OBVIOUS
<1>0. TypeOK /\ TypeOK' /\ lastId \in Nat
  BY ServerTypeStep, TabsTypeStep, TypeParts DEF StoreInv, TypeOK, ServerTypeOK, TabsTypeOK
<1>1. ASSUME NEW p \in Posts, AddDump(p) PROVE StoreInv'
  <2> DEFINE new == [id |-> NextId, post |-> p]
  <2>1. UNCHANGED <<tab, answers>>
    BY <1>1 DEF AddDump, tabVars
  <2>2. \A t \in Tabs : Shown(t)' = Shown(t)
    BY <2>1 DEF Shown
  <2>3. CASE table' = table /\ lastId' = lastId
    BY <2>2, <2>3, <1>0 DEF StoreInv, Known
  <2>4. CASE HasRoom /\ table' = table \cup {new} /\ lastId' = NextId
    <3>1. Known' = Known \cup {new} /\ new.id = lastId + 1
      BY <2>2, <2>4 DEF Known, NextId
    <3>2. \A d \in Known : d.id \in Nat /\ d.id < lastId + 1
      <4>1. Known \subseteq Dumps
        BY <1>0, ElementOfSeq, LenProperties DEF Known, Shown, TypeOK, TabState
      <4> QED BY <4>1, <1>0 DEF StoreInv, Dumps
    <3>3. IsFiniteSet(table') /\ Cardinality(table') <= Cap
      <4>1. IsFiniteSet(table) /\ Cardinality(table) \in Nat /\ Cardinality(table) < Cap
        BY <2>4, FS_CardinalityType DEF StoreInv, HasRoom
      <4>2. IsFiniteSet(table') /\ Cardinality(table') \in {Cardinality(table), Cardinality(table) + 1}
        BY <2>4, <4>1, FS_AddElement
      <4> QED BY <4>1, <4>2, DumpAssumption
    <3>4. \A d \in Known' : d.id <= lastId'
      BY <3>1, <3>2, <2>4, <1>0 DEF NextId
    <3>5. \A d, e \in Known' : d.id = e.id => d = e
      BY <3>1, <3>2, <1>0 DEF StoreInv
    <3> QED BY <1>0, <3>3, <3>4, <3>5 DEF StoreInv
  <2> QED BY <1>1, <2>3, <2>4 DEF AddDump
<1>2. ASSUME table' \subseteq table, lastId' = lastId, Known' \subseteq Known PROVE StoreInv'
  <2>1. IsFiniteSet(table') /\ Cardinality(table') <= Cardinality(table)
    BY <1>2, FS_Subset DEF StoreInv
  <2>2. Cardinality(table) \in Nat /\ Cardinality(table') \in Nat
    BY <2>1, FS_CardinalityType DEF StoreInv
  <2> QED BY <1>0, <1>2, <2>1, <2>2, DumpAssumption DEF StoreInv
<1>3. CASE UNCHANGED vars
  BY <1>3, <1>2 DEF vars, Known, Shown
<1> QED
  BY <1>0, <1>1, <1>2, <1>3, KnownStep

THEOREM StoreInvHolds == Spec => []StoreInv
BY InitStoreInv, StoreInvStep, PTL DEF Spec

\* The cap holds however many scripts post at a time.
THEOREM CapIsHard == Spec => []CapHolds
<1>1. StoreInv => CapHolds
  BY DEF StoreInv, CapHolds, Known
<1> QED
  BY StoreInvHolds, <1>1, PTL

\* What a tab deletes is what it showed, or nothing.
THEOREM IdsAreStable == Spec => []IdsKeepTheirMeaning
<1>1. StoreInv => IdsKeepTheirMeaning
  BY DEF StoreInv, IdsKeepTheirMeaning, Known
<1> QED
  BY StoreInvHolds, <1>1, PTL
-----------------------------------------------------------------------------
(* What "Auto clear" spares *)

IdsIn(events) == {events[i].id : i \in {j \in DOMAIN events : events[j].type = "dump.created"}}

\* Dumps are announced in the order of their ids, up to `top`.
Ordered(events, top) ==
  \A i \in DOMAIN events : events[i].type = "dump.created" =>
    /\ events[i].id # None /\ events[i].id <= top
    /\ \A j \in DOMAIN events : i < j /\ events[j].type = "dump.created" => events[i].id <= events[j].id

\* n is not above any id in `burst`, nor any that is still to be announced to t.
Below(n, burst, t) == n <= lastId /\ \A m \in burst \cup ToBeAnnounced(t) : n <= m

\* The dump that is to be announced next is the newest one.
StoredNews == \A p \in Posts : post[p].pc = "stored" => post[p].id = lastId /\ lastId # None

\* What the timer and the request of t hold is the least of what it has heard
\* of and will hear of.
TabNews(t) ==
  /\ Ordered(chan[t], lastId)
  /\ IF tab[t].pending = None THEN tab[t].burst = {} /\ ~tab[t].timer
     ELSE Below(tab[t].pending, tab[t].burst, t)
  /\ calls[t]["auto"].pc # "free" => calls[t]["auto"].kind = "before"
  /\ calls[t]["auto"].pc = "sent" => Below(calls[t]["auto"].id, calls[t]["auto"].burst, t)

NewsInv == TypeOK /\ StoredNews /\ \A t \in Tabs : TabNews(t)

LEMMA InitNews == Init => NewsInv
<1> SUFFICES ASSUME Init
             PROVE  NewsInv
  OBVIOUS
<1>1. TypeOK /\ StoredNews
  BY InitTypeOK DEF Init, StoredNews
<1>2. ASSUME NEW t \in Tabs
      PROVE  TabNews(t)
  <2>1. /\ chan[t] = <<>> /\ tab[t].pending = None /\ tab[t].burst = {} /\ ~tab[t].timer
        /\ calls[t]["auto"].pc = "free"
    BY DEF Init, FreeCall, Slots
  <2>2. Ordered(chan[t], lastId)
    BY <2>1 DEF Ordered
  <2> QED
    BY <2>1, <2>2 DEF TabNews
<1> QED
  BY <1>1, <1>2 DEF NewsInv

LEMMA AppendNews ==
  ASSUME NEW s \in Seq(Events), NEW e \in Events, NEW top \in Nat, Ordered(s, top),
         e.type = "dump.created" => e.id = top /\ top # None
  PROVE  /\ Ordered(Append(s, e), top)
         /\ \A m \in IdsIn(Append(s, e)) : m \in IdsIn(s) \/ m = top
<1> DEFINE new == Append(s, e)
<1>1. /\ new \in Seq(Events) /\ Len(new) = Len(s) + 1 /\ Len(s) \in Nat
      /\ DOMAIN new = 1..(Len(s) + 1) /\ DOMAIN s = 1..Len(s)
      /\ new[Len(s) + 1] = e /\ \A i \in 1..Len(s) : new[i] = s[i]
  OBVIOUS
<1>2. \A i \in 1..Len(s) : s[i].type = "dump.created" => s[i].id <= top
  BY <1>1 DEF Ordered
<1> HIDE DEF new
<1>3. \A i \in DOMAIN new : i \in 1..Len(s) \/ i = Len(s) + 1
  BY <1>1
<1>4. Ordered(new, top)
  <2>1. ASSUME NEW i \in DOMAIN new, new[i].type = "dump.created"
        PROVE  new[i].id # None /\ new[i].id <= top
    BY <1>1, <1>3, <2>1 DEF Ordered
  <2>2. ASSUME NEW i \in DOMAIN new, new[i].type = "dump.created",
               NEW j \in DOMAIN new, i < j, new[j].type = "dump.created"
        PROVE  new[i].id <= new[j].id
    <3>1. i \in 1..Len(s) /\ new[i] = s[i]
      BY <1>1, <2>2
    <3>2. CASE j \in 1..Len(s)
      BY <1>1, <2>2, <3>1, <3>2 DEF Ordered
    <3>3. CASE j = Len(s) + 1
      BY <1>1, <1>2, <2>2, <3>1, <3>3
    <3> QED
      BY <1>3, <3>2, <3>3
  <2> QED
    BY <2>1, <2>2 DEF Ordered
<1>5. \A m \in IdsIn(new) : m \in IdsIn(s) \/ m = top
  BY <1>1, <1>3 DEF IdsIn
<1> QED
  BY <1>4, <1>5 DEF new

LEMMA TailNews ==
  ASSUME NEW s \in Seq(Events), NEW top \in Nat, Ordered(s, top), s # <<>>
  PROVE  /\ Ordered(Tail(s), top) /\ IdsIn(Tail(s)) \subseteq IdsIn(s)
         /\ Head(s).type = "dump.created" =>
              /\ Head(s).id # None /\ Head(s).id <= top
              /\ \A m \in IdsIn(Tail(s)) : Head(s).id <= m
<1> DEFINE new == Tail(s)
<1>1. /\ new \in Seq(Events) /\ Len(s) \in Nat /\ Len(s) >= 1 /\ Len(new) = Len(s) - 1
      /\ DOMAIN new = 1..(Len(s) - 1) /\ DOMAIN s = 1..Len(s)
      /\ Head(s) = s[1] /\ \A i \in 1..(Len(s) - 1) : new[i] = s[i + 1]
  BY EmptySeq
<1> HIDE DEF new
<1>2. \A i \in DOMAIN new : i + 1 \in DOMAIN s /\ new[i] = s[i + 1] /\ 1 < i + 1
  BY <1>1
<1>3. Ordered(new, top)
  <2>1. ASSUME NEW i \in DOMAIN new, new[i].type = "dump.created"
        PROVE  new[i].id # None /\ new[i].id <= top
    BY <1>2, <2>1 DEF Ordered
  <2>2. ASSUME NEW i \in DOMAIN new, new[i].type = "dump.created",
               NEW j \in DOMAIN new, i < j, new[j].type = "dump.created"
        PROVE  new[i].id <= new[j].id
    <3>1. i + 1 < j + 1
      BY <1>1, <2>2
    <3> QED
      BY <1>2, <2>2, <3>1 DEF Ordered
  <2> QED
    BY <2>1, <2>2 DEF Ordered
<1>4. IdsIn(new) \subseteq IdsIn(s)
  BY <1>2 DEF IdsIn
<1>5. ASSUME Head(s).type = "dump.created"
      PROVE  /\ Head(s).id # None /\ Head(s).id <= top
             /\ \A m \in IdsIn(new) : Head(s).id <= m
  BY <1>1, <1>2, <1>5 DEF Ordered, IdsIn
<1> QED
  BY <1>3, <1>4, <1>5 DEF new

\* What t holds stays as it is, and what it will hear of is not older.
LEMMA TabKeepsNews ==
  ASSUME NewsInv, NEW t \in Tabs, lastId' \in Nat, lastId <= lastId', Ordered(chan[t], lastId)',
         \A m \in ToBeAnnounced(t)' : m \in Nat /\ (m \in ToBeAnnounced(t) \/ lastId <= m),
         tab'[t].pending = tab[t].pending, tab'[t].burst = tab[t].burst, tab'[t].timer = tab[t].timer,
         calls'[t]["auto"].pc # "free" => calls'[t]["auto"].kind = "before",
         calls'[t]["auto"].pc = "sent" => calls'[t]["auto"] = calls[t]["auto"]
  PROVE  TabNews(t)'
<1>1. TabNews(t) /\ lastId \in Nat /\ tab[t].pending \in Nat /\ calls[t]["auto"].id \in Nat
  BY DEF NewsInv, TypeOK, TabState, CallState, Slots
<1>2. ASSUME NEW n \in Nat, NEW burst, Below(n, burst, t)
      PROVE  Below(n, burst, t)'
  BY <1>1, <1>2 DEF Below
<1> QED
  BY <1>1, <1>2 DEF TabNews

LEMMA TypeStep == TypeOK /\ [Next]_vars => TypeOK'
BY ServerTypeStep, TabsTypeStep, TypeParts DEF TypeOK, ServerTypeOK, TabsTypeOK

LEMMA IdsAreNumbers ==
  ASSUME NEW s \in Seq(Events)
  PROVE  /\ \A i \in DOMAIN s : s[i] \in Events /\ s[i].id \in Nat
         /\ \A m \in IdsIn(s) : m \in Nat
         /\ s # <<>> => Head(s) \in Events /\ Head(s).id \in Nat
<1>1. \A i \in DOMAIN s : s[i] \in Events
  OBVIOUS
<1>2. \A i \in DOMAIN s : s[i].id \in Nat
  BY <1>1 DEF Events
<1>3. s # <<>> => Head(s) \in Events
  BY HeadTailProperties
<1> QED
  BY <1>1, <1>2, <1>3 DEF IdsIn, Events

LEMMA HeardOf ==
  \A t \in Tabs : ToBeAnnounced(t) = {post[p].id : p \in {q \in Posts : post[q].pc = "stored"}} \cup IdsIn(chan[t])
BY DEF ToBeAnnounced, IdsIn

\* Nothing is stored, and no channel grows.
LEMMA QuietKeepsNews ==
  ASSUME NewsInv, TypeOK', lastId' = lastId, \A p \in Posts : post'[p].pc = "stored" => post'[p] = post[p],
         NEW t \in Tabs,
         Ordered(chan[t], lastId)', IdsIn(chan'[t]) \subseteq IdsIn(chan[t]),
         tab'[t].pending = tab[t].pending, tab'[t].burst = tab[t].burst, tab'[t].timer = tab[t].timer,
         calls'[t]["auto"].pc # "free" => calls'[t]["auto"].kind = "before",
         calls'[t]["auto"].pc = "sent" => calls'[t]["auto"] = calls[t]["auto"]
  PROVE  TabNews(t)'
<1>1. lastId \in Nat /\ lastId' \in Nat /\ lastId <= lastId'
  BY DEF NewsInv, TypeOK
<1>2. \A m \in ToBeAnnounced(t)' : m \in ToBeAnnounced(t)
  <2>1. ToBeAnnounced(t)' = {post'[p].id : p \in {q \in Posts : post'[q].pc = "stored"}} \cup IdsIn(chan'[t])
    BY DEF ToBeAnnounced, IdsIn
  <2> QED
    BY <2>1, HeardOf
<1>3. \A m \in ToBeAnnounced(t) : m \in Nat
  <2>1. \A p \in Posts : post[p].id \in Nat
    BY DEF NewsInv, TypeOK
  <2>2. chan[t] \in Seq(Events)
    BY DEF NewsInv, TypeOK
  <2>3. \A i \in DOMAIN chan[t] : chan[t][i].id \in Nat
    BY <2>2, IdsAreNumbers
  <2> QED
    BY <2>1, <2>3 DEF ToBeAnnounced
<1> QED
  BY <1>1, <1>2, <1>3, TabKeepsNews

LEMMA AddKeepsNews ==
  ASSUME NewsInv, TypeOK', "parallel" \notin Faults, NEW p \in Posts, AddDump(p)
  PROVE  NewsInv'
<1>1. /\ \A q \in Posts : post[q].pc # "stored"
      /\ tab' = tab /\ calls' = calls /\ chan' = chan
      /\ lastId \in Nat /\ post \in [Posts -> [pc : {"new", "stored", "done"}, id : Nat]]
  BY DEF AddDump, tabVars, NewsInv, TypeOK
<1>2. CASE /\ lastId' = NextId
           /\ post' = [post EXCEPT ![p] = [pc |-> "stored", id |-> NextId]]
  <2>1. lastId' = lastId + 1 /\ lastId' \in Nat /\ lastId' # None /\ lastId <= lastId'
    BY <1>1, <1>2 DEF NextId, None
  <2>2. /\ post'[p].pc = "stored" /\ post'[p].id = lastId'
        /\ \A q \in Posts : q # p => post'[q].pc # "stored"
    BY <1>1, <1>2
  <2>3. StoredNews'
    BY <2>1, <2>2 DEF StoredNews
  <2>4. ASSUME NEW t \in Tabs
        PROVE  TabNews(t)'
    <3>1. chan[t] \in Seq(Events) /\ Ordered(chan[t], lastId) /\ \A i \in DOMAIN chan[t] : chan[t][i].id \in Nat
      BY IdsAreNumbers DEF NewsInv, TypeOK, TabNews
    <3>2. Ordered(chan'[t], lastId')
      BY <1>1, <2>1, <3>1 DEF Ordered
    <3>3. \A m \in ToBeAnnounced(t)' : m \in Nat /\ (m \in ToBeAnnounced(t) \/ lastId <= m)
      <4>1. ToBeAnnounced(t)' = {post'[q].id : q \in {q \in Posts : post'[q].pc = "stored"}} \cup IdsIn(chan'[t])
        BY DEF ToBeAnnounced, IdsIn
      <4>2. \A m \in ToBeAnnounced(t)' : m = lastId' \/ m \in IdsIn(chan[t])
        BY <1>1, <2>2, <4>1
      <4>3. \A m \in IdsIn(chan[t]) : m \in Nat
        BY <3>1 DEF IdsIn
      <4> QED
        BY <2>1, <4>2, <4>3, HeardOf
    <3>4. /\ calls'[t]["auto"].pc # "free" => calls'[t]["auto"].kind = "before"
          /\ calls'[t]["auto"].pc = "sent" => calls'[t]["auto"] = calls[t]["auto"]
      BY <1>1 DEF NewsInv, TabNews
    <3> QED
      BY <1>1, <2>1, <3>2, <3>3, <3>4, TabKeepsNews
  <2> QED
    BY <2>3, <2>4 DEF NewsInv
<1>3. CASE post' = [post EXCEPT ![p].pc = "done"] /\ lastId' = lastId
  <2>1. \A q \in Posts : post'[q].pc # "stored"
    BY <1>1, <1>3
  <2>2. \A t \in Tabs : TabNews(t)'
    BY <1>1, <1>3, <2>1, QuietKeepsNews DEF NewsInv, TabNews
  <2> QED
    BY <2>1, <2>2 DEF NewsInv, StoredNews
<1> QED
  BY <1>2, <1>3 DEF AddDump

LEMMA PublishKeepsNews ==
  ASSUME NewsInv, TypeOK', NEW event \in Events, Announce(event), lastId' = lastId, tab' = tab,
         event.type = "dump.created" => event.id = lastId /\ lastId # None,
         \A p \in Posts : post'[p].pc = "stored" => post'[p] = post[p],
         \A t \in Tabs : calls'[t]["auto"].pc # "free" => calls'[t]["auto"].kind = "before",
         \A t \in Tabs : calls'[t]["auto"].pc = "sent" => calls'[t]["auto"] = calls[t]["auto"]
  PROVE  NewsInv'
<1>1. StoredNews'
  BY DEF NewsInv, StoredNews
<1>2. ASSUME NEW t \in Tabs
      PROVE  TabNews(t)'
  <2>1. lastId \in Nat /\ chan[t] \in Seq(Events) /\ Ordered(chan[t], lastId)
        /\ \A i \in DOMAIN chan[t] : chan[t][i].id \in Nat
    BY IdsAreNumbers DEF NewsInv, TypeOK, TabNews
  <2>2. chan'[t] = chan[t] \/ chan'[t] = Append(chan[t], event)
    BY DEF Announce
  <2>3. Ordered(chan'[t], lastId') /\ \A m \in IdsIn(chan'[t]) : m \in IdsIn(chan[t]) \/ m = lastId
    <3>1. /\ Ordered(Append(chan[t], event), lastId)
          /\ \A m \in IdsIn(Append(chan[t], event)) : m \in IdsIn(chan[t]) \/ m = lastId
      BY <2>1, AppendNews
    <3> QED
      BY <2>1, <2>2, <3>1
  <2>4. \A m \in ToBeAnnounced(t)' : m \in Nat /\ (m \in ToBeAnnounced(t) \/ lastId <= m)
    <3>1. ToBeAnnounced(t)' = {post'[q].id : q \in {q \in Posts : post'[q].pc = "stored"}} \cup IdsIn(chan'[t])
      BY DEF ToBeAnnounced, IdsIn
    <3>2. \A q \in Posts : post'[q].pc = "stored" => post'[q].id = lastId
      BY DEF NewsInv, StoredNews
    <3>3. \A m \in IdsIn(chan[t]) : m \in Nat
      BY <2>1 DEF IdsIn
    <3> QED
      BY <2>1, <2>3, <3>1, <3>2, <3>3, HeardOf
  <2> QED
    BY <2>1, <2>3, <2>4, TabKeepsNews
<1> QED
  BY <1>1, <1>2 DEF NewsInv

\* The event at hand may be of a dump.
LEMMA HandleKeepsNews ==
  ASSUME NewsInv, TypeOK', NEW t \in Tabs, HandleEvent(t)
  PROVE  NewsInv'
<1> DEFINE e == Head(chan[t])
<1>1. /\ chan[t] # <<>> /\ chan' = [chan EXCEPT ![t] = Tail(chan[t])] /\ chan \in [Tabs -> Seq(Events)]
      /\ UNCHANGED <<lastId, post, calls>> /\ chan[t] \in Seq(Events) /\ lastId \in Nat
      /\ tab \in [Tabs -> TabState] /\ TabNews(t)
  BY DEF HandleEvent, NewsInv, TypeOK
<1>2. /\ Ordered(Tail(chan[t]), lastId) /\ IdsIn(Tail(chan[t])) \subseteq IdsIn(chan[t])
      /\ e.type = "dump.created" =>
           /\ e.id # None /\ e.id <= lastId
           /\ \A m \in IdsIn(Tail(chan[t])) : e.id <= m
  BY <1>1, TailNews DEF TabNews
<1>3. e \in Events /\ e.id \in Nat
  BY <1>1, IdsAreNumbers DEF e
<1> HIDE DEF e
<1>4. chan'[t] = Tail(chan[t]) /\ \A u \in Tabs : u # t => chan'[u] = chan[u]
  BY <1>1
<1>5. StoredNews'
  BY <1>1 DEF NewsInv, StoredNews
<1>6. ASSUME NEW u \in Tabs, tab'[u] = tab[u]
      PROVE  TabNews(u)'
  <2>1. Ordered(chan'[u], lastId') /\ IdsIn(chan'[u]) \subseteq IdsIn(chan[u])
    BY <1>1, <1>2, <1>4 DEF NewsInv, TabNews
  <2> QED
    BY <1>1, <1>6, <2>1, QuietKeepsNews DEF NewsInv, TabNews
<1>7. CASE e.type = "dump.created" /\ tab[t].auto
  <2>1. /\ tab' = [tab EXCEPT ![t].pending = Earliest(@, e.id), ![t].burst = @ \cup {e.id}, ![t].timer = TRUE]
    BY <1>7 DEF HandleEvent, e
  <2>2. /\ tab'[t].pending = Earliest(tab[t].pending, e.id) /\ tab'[t].burst = tab[t].burst \cup {e.id}
        /\ tab[t].pending \in Nat
        /\ \A u \in Tabs : u # t => tab'[u] = tab[u]
    BY <1>1, <2>1 DEF TabState
  <2>3. \A m \in ToBeAnnounced(t)' : m \in Nat /\ m \in ToBeAnnounced(t) /\ e.id <= m
    <3>1. ToBeAnnounced(t)' = {post[q].id : q \in {q \in Posts : post[q].pc = "stored"}} \cup IdsIn(Tail(chan[t]))
      BY <1>1, <1>4 DEF ToBeAnnounced, IdsIn
    <3>2. \A q \in Posts : post[q].pc = "stored" => post[q].id = lastId
      BY DEF NewsInv, StoredNews
    <3>3. \A m \in IdsIn(chan[t]) : m \in Nat
      BY <1>1, IdsAreNumbers
    <3> QED
      BY <1>1, <1>2, <1>7, <3>1, <3>2, <3>3, HeardOf
  <2>4. e.id \in ToBeAnnounced(t)
    BY <1>1, <1>7, EmptySeq, LenProperties DEF e, ToBeAnnounced
  <2>5. Below(tab[t].pending, tab[t].burst, t)' /\ tab'[t].pending # None
    <3>1. CASE tab[t].pending = None
      BY <1>1, <1>2, <1>3, <1>7, <2>2, <2>3, <3>1 DEF TabNews, Below, Earliest
    <3>2. CASE tab[t].pending # None
      BY <1>1, <1>2, <1>3, <1>7, <2>2, <2>3, <2>4, <3>2 DEF TabNews, Below, Earliest
    <3> QED
      BY <3>1, <3>2
  <2>6. TabNews(t)'
    <3>1. ASSUME NEW n, NEW burst, Below(n, burst, t)
          PROVE  Below(n, burst, t)'
      BY <1>1, <2>3, <3>1 DEF Below
    <3>2. Ordered(chan'[t], lastId')
      BY <1>1, <1>2, <1>4
    <3>3. calls'[t]["auto"] = calls[t]["auto"]
      BY <1>1
    <3> QED
      BY <1>1, <2>5, <3>1, <3>2, <3>3 DEF TabNews
  <2> QED
    BY <1>5, <1>6, <2>2, <2>6 DEF NewsInv
<1>8. CASE ~(e.type = "dump.created" /\ tab[t].auto)
  <2>1. tab' = tab
    BY <1>8 DEF HandleEvent, e
  <2> QED
    BY <1>5, <1>6, <2>1 DEF NewsInv
<1> QED
  BY <1>7, <1>8

LEMMA NewsStep ==
  ASSUME NewsInv, [Next]_vars, "parallel" \notin Faults
  PROVE  NewsInv'
<1>1. TypeOK' /\ TypeOK /\ lastId \in Nat
  BY TypeStep DEF NewsInv, TypeOK
<1>2. \A t \in Tabs : TabNews(t) /\ calls[t] \in [Slots -> CallState] /\ tab[t] \in TabState
                      /\ chan[t] \in Seq(Events)
  BY <1>1 DEF NewsInv, TypeOK
<1>k. "auto" \in Slots /\ "user" \in Slots /\ calls \in [Tabs -> [Slots -> CallState]] /\ tab \in [Tabs -> TabState]
      /\ chan \in [Tabs -> Seq(Events)]
  BY <1>1 DEF Slots, TypeOK
<1>e. Ordered(<<>>, lastId) /\ IdsIn(<<>>) = {}
  BY DEF Ordered, IdsIn
\* No dump becomes stored and no event joins a channel.
<1>3. ASSUME lastId' = lastId, \A p \in Posts : post'[p].pc = "stored" => post'[p] = post[p],
             \A t \in Tabs : chan'[t] \in {chan[t], <<>>},
             \A t \in Tabs : /\ tab'[t].pending = tab[t].pending /\ tab'[t].burst = tab[t].burst
                             /\ tab'[t].timer = tab[t].timer
                             /\ calls'[t]["auto"].pc # "free" => calls'[t]["auto"].kind = "before"
                             /\ calls'[t]["auto"].pc = "sent" => calls'[t]["auto"] = calls[t]["auto"]
      PROVE  NewsInv'
  <2>1. ASSUME NEW t \in Tabs
        PROVE  TabNews(t)'
    <3>1. Ordered(chan'[t], lastId') /\ IdsIn(chan'[t]) \subseteq IdsIn(chan[t])
      BY <1>2, <1>3, <1>e DEF TabNews
    <3> QED
      BY <1>1, <1>3, <3>1, QuietKeepsNews
  <2> QED
    BY <1>1, <1>3, <2>1 DEF NewsInv, StoredNews
<1>c. ASSUME calls' = calls
      PROVE  \A t \in Tabs : /\ calls'[t]["auto"].pc # "free" => calls'[t]["auto"].kind = "before"
                             /\ calls'[t]["auto"].pc = "sent" => calls'[t]["auto"] = calls[t]["auto"]
  BY <1>2, <1>c DEF TabNews
\* A call moves on, or is over.
<1>d. ASSUME NEW t \in Tabs, NEW k \in Slots, NEW pc, pc # "sent",
             \/ calls' = calls \/ calls' = [calls EXCEPT ![t][k] = FreeCall]
             \/ calls[t][k].pc # "free" /\ calls' = [calls EXCEPT ![t][k] = [@ EXCEPT !.pc = pc]]
      PROVE  \A u \in Tabs : /\ calls'[u]["auto"].pc # "free" => calls'[u]["auto"].kind = "before"
                             /\ calls'[u]["auto"].pc = "sent" => calls'[u]["auto"] = calls[u]["auto"]
  <2> SUFFICES ASSUME NEW u \in Tabs
               PROVE  /\ calls'[u]["auto"].pc # "free" => calls'[u]["auto"].kind = "before"
                      /\ calls'[u]["auto"].pc = "sent" => calls'[u]["auto"] = calls[u]["auto"]
    OBVIOUS
  <2>1. calls[u]["auto"].pc # "free" => calls[u]["auto"].kind = "before"
    BY <1>2 DEF TabNews
  <2>2. CASE calls' = calls
    BY <2>1, <2>2
  <2>3. CASE calls' = [calls EXCEPT ![t][k] = FreeCall]
    <3>1. calls'[u]["auto"] = IF u = t /\ k = "auto" THEN FreeCall ELSE calls[u]["auto"]
      BY <1>k, <2>3
    <3> QED
      BY <2>1, <3>1 DEF FreeCall
  <2>4. CASE calls[t][k].pc # "free" /\ calls' = [calls EXCEPT ![t][k] = [@ EXCEPT !.pc = pc]]
    <3>1. CASE u = t /\ k = "auto"
      <4>1. calls'[u]["auto"] = [calls[u]["auto"] EXCEPT !.pc = pc]
        BY <1>k, <2>4, <3>1
      <4>2. calls[u]["auto"] \in CallState
        BY <1>k
      <4>3. calls'[u]["auto"].pc = pc /\ calls'[u]["auto"].kind = calls[u]["auto"].kind
        BY <4>1, <4>2 DEF CallState
      <4> QED
        BY <1>d, <2>1, <2>4, <3>1, <4>3
    <3>2. CASE ~(u = t /\ k = "auto")
      <4>1. calls'[u]["auto"] = calls[u]["auto"]
        BY <1>k, <2>4, <3>2
      <4> QED
        BY <2>1, <4>1
    <3> QED
      BY <3>1, <3>2
  <2> QED
    BY <1>d, <2>2, <2>3, <2>4
<1>4. ASSUME NEW t \in Tabs, NEW k \in Slots, HandleDelete(t, k)
      PROVE  NewsInv'
  <2> DEFINE call == calls[t][k]
             pc == IF call.kind = "all" \/ Doomed(call) # {} THEN "mutated" ELSE "answered"
  <2>1. /\ lastId' = lastId /\ post' = post /\ tab' = tab /\ chan' = chan
        /\ \/ calls' = [calls EXCEPT ![t][k] = FreeCall]
           \/ calls[t][k].pc # "free" /\ calls' = [calls EXCEPT ![t][k] = [@ EXCEPT !.pc = pc]]
    BY <1>4 DEF HandleDelete
  <2>2. pc # "sent"
    OBVIOUS
  <2> HIDE DEF pc, call
  <2> QED
    BY <1>3, <1>d, <2>1, <2>2
<1>5. ASSUME NEW t \in Tabs, NEW k \in Slots, PublishCleared(t, k)
      PROVE  NewsInv'
  <2>1. /\ lastId' = lastId /\ post' = post /\ tab' = tab /\ Announce([type |-> "debug.cleared", id |-> None])
        /\ calls[t][k].pc # "free" /\ calls' = [calls EXCEPT ![t][k] = [@ EXCEPT !.pc = "answered"]]
    BY <1>5 DEF PublishCleared
  <2>2. [type |-> "debug.cleared", id |-> None] \in Events
    BY DEF Events, None
  <2> DEFINE event == [type |-> "debug.cleared", id |-> None]
  <2>3. event.type # "dump.created" /\ event \in Events
    BY <2>2
  <2> HIDE DEF event
  <2>4. Announce(event)
    BY <2>1 DEF event
  <2> QED
    BY <1>1, <1>d, <2>1, <2>3, <2>4, PublishKeepsNews
<1>6. ASSUME NEW p \in Posts, PublishCreated(p)
      PROVE  NewsInv'
  <2> DEFINE event == [type |-> "dump.created", id |-> post[p].id]
  <2>1. /\ lastId' = lastId /\ tab' = tab /\ calls' = calls /\ Announce(event) /\ post[p].pc = "stored"
        /\ post' = [post EXCEPT ![p].pc = "done"] /\ post[p].id \in Nat
        /\ post \in [Posts -> [pc : {"new", "stored", "done"}, id : Nat]]
    BY <1>1, <1>6 DEF PublishCreated, tabVars, TypeOK
  <2>2. event \in Events /\ event.id = lastId /\ lastId # None
    BY <2>1 DEF Events, NewsInv, StoredNews
  <2> HIDE DEF event
  <2>3. \A q \in Posts : post'[q].pc = "stored" => post'[q] = post[q]
    BY <2>1
  <2> QED
    BY <1>1, <1>c, <2>1, <2>2, <2>3, PublishKeepsNews
<1>7. ASSUME NEW t \in Tabs, ReadList(t)
      PROVE  NewsInv'
  BY <1>3, <1>7, <1>c DEF ReadList
<1>17. ASSUME NEW t \in Tabs, ListFails(t)
       PROVE  NewsInv'
  BY <1>3, <1>17, <1>c DEF ListFails
<1>18. ASSUME NEW t \in Tabs, NEW k \in Slots, DeleteFails(t, k)
       PROVE  NewsInv'
  <2>1. /\ lastId' = lastId /\ post' = post /\ chan' = chan /\ tab' = tab
        /\ calls' = [calls EXCEPT ![t][k] = FreeCall]
    BY <1>18 DEF DeleteFails
  <2> QED
    BY <1>3, <1>d, <2>1
<1>8. CASE Restart
  <2>1. \A p \in Posts : post'[p].pc = "stored" => post'[p] = post[p]
    BY <1>1, <1>8 DEF Restart, TypeOK
  <2>2. \A t \in Tabs : /\ tab'[t].pending = tab[t].pending /\ tab'[t].burst = tab[t].burst
                        /\ tab'[t].timer = tab[t].timer /\ calls'[t]["auto"].pc = "free" /\ chan'[t] = <<>>
    BY <1>2, <1>8, <1>k DEF Restart, FreeCall, TabState
  <2> QED
    BY <1>3, <1>8, <2>1, <2>2 DEF Restart
<1>9. ASSUME NEW t \in Tabs, Connect(t) \/ Boot(t) \/ SetAutoClear(t)
      PROVE  NewsInv'
  <2>1. lastId' = lastId /\ post' = post /\ chan' = chan /\ calls' = calls
    BY <1>9 DEF Connect, Boot, SetAutoClear
  <2>2. \A u \in Tabs : /\ tab'[u].pending = tab[u].pending /\ tab'[u].burst = tab[u].burst
                        /\ tab'[u].timer = tab[u].timer
    <3>1. CASE Connect(t)
      BY <1>k, <3>1 DEF Connect, TabState
    <3>2. CASE Boot(t)
      BY <1>k, <3>2 DEF Boot, TabState
    <3>3. CASE SetAutoClear(t)
      BY <1>k, <3>3 DEF SetAutoClear, TabState
    <3> QED
      BY <1>9, <3>1, <3>2, <3>3
  <2> QED
    BY <1>3, <1>c, <2>1, <2>2
<1>10. ASSUME NEW t \in Tabs, Disconnect(t)
       PROVE  NewsInv'
  <2>1. lastId' = lastId /\ post' = post /\ chan' = [chan EXCEPT ![t] = <<>>] /\ calls' = calls
    BY <1>10 DEF Disconnect
  <2>2. \A u \in Tabs : /\ tab'[u].pending = tab[u].pending /\ tab'[u].burst = tab[u].burst
                        /\ tab'[u].timer = tab[u].timer
    BY <1>10, <1>k DEF Disconnect, TabState
  <2> QED
    BY <1>3, <1>c, <1>k, <2>1, <2>2
<1>11. ASSUME NEW t \in Tabs, HandleEvent(t)
       PROVE  NewsInv'
  BY <1>1, <1>11, HandleKeepsNews
<1>12. ASSUME NEW t \in Tabs, TimerFires(t)
       PROVE  NewsInv'
  <2>1. /\ UNCHANGED <<lastId, post, chan>> /\ tab[t].timer
        /\ calls' = [calls EXCEPT ![t]["auto"] =
             [pc |-> "sent", kind |-> "before", id |-> tab[t].pending, burst |-> tab[t].burst]]
        /\ tab' = [tab EXCEPT ![t].timer = FALSE, ![t].pending = None, ![t].burst = {}]
    BY <1>12 DEF TimerFires
  <2>2. \A n, burst : \A u \in Tabs : Below(n, burst, u)' <=> Below(n, burst, u)
    BY <2>1 DEF Below, ToBeAnnounced
  <2>3. /\ calls'[t]["auto"].pc = "sent" /\ calls'[t]["auto"].kind = "before"
        /\ calls'[t]["auto"].id = tab[t].pending /\ calls'[t]["auto"].burst = tab[t].burst
        /\ tab'[t].pending = None /\ tab'[t].burst = {} /\ ~tab'[t].timer
        /\ \A u \in Tabs : u # t => calls'[u] = calls[u] /\ tab'[u] = tab[u]
    BY <1>k, <2>1 DEF TabState
  <2>4. Below(tab[t].pending, tab[t].burst, t)
    BY <1>2, <2>1 DEF TabNews
  <2>5. TabNews(t)'
    BY <1>2, <2>1, <2>2, <2>3, <2>4 DEF TabNews
  <2>6. \A u \in Tabs : u # t => TabNews(u)'
    BY <1>2, <2>1, <2>2, <2>3 DEF TabNews
  <2>7. StoredNews'
    BY <2>1 DEF NewsInv, StoredNews
  <2> QED
    BY <1>1, <2>5, <2>6, <2>7 DEF NewsInv
<1>13. ASSUME NEW t \in Tabs, UserDelete(t)
       PROVE  NewsInv'
  <2>1. /\ lastId' = lastId /\ post' = post /\ chan' = chan /\ tab' = tab
        /\ \A u \in Tabs : calls'[u]["auto"] = calls[u]["auto"]
    BY <1>13, <1>k DEF UserDelete
  <2> QED
    BY <1>2, <1>3, <2>1 DEF TabNews
<1>14. ASSUME NEW t \in Tabs, NEW k \in Slots, Reload(t, k)
       PROVE  NewsInv'
  <2>1. /\ lastId' = lastId /\ post' = post /\ chan' = chan /\ tab' = tab
        /\ calls' = [calls EXCEPT ![t][k] = FreeCall]
    BY <1>14 DEF Reload
  <2> QED
    BY <1>3, <1>d, <2>1
<1>15. ASSUME NEW t \in Tabs, ApplyList(t)
       PROVE  NewsInv'
  <2>1. PICK i \in 1..Len(answers[t]) : tab' = [tab EXCEPT ![t].list = answers[t][i]]
    BY <1>15 DEF ApplyList
  <2>2. \A u \in Tabs : /\ tab'[u].pending = tab[u].pending /\ tab'[u].burst = tab[u].burst
                        /\ tab'[u].timer = tab[u].timer
    BY <1>k, <2>1 DEF TabState
  <2> QED
    BY <1>3, <1>15, <1>c, <2>2 DEF ApplyList
<1>16. CASE UNCHANGED vars
  BY <1>3, <1>16, <1>c DEF vars
<1> QED
  BY <1>1, <1>4, <1>5, <1>6, <1>7, <1>8, <1>9, <1>10, <1>11, <1>12, <1>13, <1>14, <1>15, <1>16,
     <1>17, <1>18, AddKeepsNews
     DEF Next, ServerStep, TabStep, UserStep

\* The one step in which the request of the timer deletes.
LEMMA SparesNews ==
  ASSUME NewsInv, [Next]_vars
  PROVE  \A t \in Tabs :
           calls[t]["auto"].pc = "sent" /\ calls'[t]["auto"].pc = "mutated" =>
             \A d \in table \ table' : d.id \notin calls[t]["auto"].burst \cup ToBeAnnounced(t)
<1> SUFFICES ASSUME NEW t \in Tabs, calls[t]["auto"].pc = "sent", calls'[t]["auto"].pc = "mutated",
                    NEW d \in table \ table'
             PROVE  d.id \notin calls[t]["auto"].burst \cup ToBeAnnounced(t)
  OBVIOUS
<1> DEFINE call == calls[t]["auto"]
<1>k. /\ "auto" \in Slots /\ "user" \in Slots /\ calls \in [Tabs -> [Slots -> CallState]]
      /\ lastId \in Nat /\ table \in SUBSET Dumps /\ d.id \in Nat
  BY DEF Slots, NewsInv, TypeOK, Dumps
<1>1. \E u \in Tabs, k \in Slots : HandleDelete(u, k)
  <2>1. table' # table
    OBVIOUS
  <2>2. ~\E p \in Posts : AddDump(p)
    BY DEF AddDump, tabVars
  <2> QED
    BY <2>1, <2>2 DEF Next, ServerStep, TabStep, UserStep, PublishCreated, PublishCleared, ReadList, Restart,
                      ListFails, DeleteFails, Connect, Boot, HandleEvent, TimerFires, ApplyList, Reload, UserDelete, SetAutoClear,
                      Disconnect, vars
<1>2. PICK u \in Tabs, k \in Slots : HandleDelete(u, k)
  BY <1>1
<1>3. u = t /\ k = "auto"
  <2>1. \/ calls' = [calls EXCEPT ![u][k] = FreeCall]
        \/ \E pc : calls' = [calls EXCEPT ![u][k] = [@ EXCEPT !.pc = pc]]
    BY <1>2 DEF HandleDelete
  <2> QED
    BY <1>k, <2>1
<1>4. table' = table \/ table' = table \ Doomed(call)
  BY <1>2, <1>3 DEF HandleDelete
<1>5. call.kind = "before" /\ Below(call.id, call.burst, t) /\ call.id \in Nat
  BY <1>k DEF NewsInv, TabNews, CallState
<1>6. d.id < call.id
  BY <1>4, <1>5 DEF Doomed
<1> QED
  BY <1>5, <1>6, <1>k DEF Below

(***************************************************************************)
(* For any number of tabs, any buffer and any bounds, scripts that post    *)
(* one after another, and requests that fail, reorder or lose their        *)
(* connection: "Auto clear" never removes a dump of the burst it reacts    *)
(* to, nor one that the tab has still to hear of.                          *)
(***************************************************************************)
THEOREM AutoClearSparesTheNews ==
  ASSUME "parallel" \notin Faults
  PROVE  Spec => AutoClearSparesNews
<1>1. NewsInv /\ [Next]_vars => NewsInv'
  BY NewsStep
<1>2. NewsInv /\ [Next]_vars =>
        [\A t \in Tabs :
           calls[t]["auto"].pc = "sent" /\ calls'[t]["auto"].pc = "mutated" =>
             \A d \in table \ table' : d.id \notin calls[t]["auto"].burst \cup ToBeAnnounced(t)]_vars
  BY SparesNews
<1> QED
  BY <1>1, <1>2, InitNews, PTL DEF Spec, AutoClearSparesNews

-----------------------------------------------------------------------------
(* A tab at rest shows the table *)

\* What the tab will show once all answers on their way have arrived.
Newest(t) == IF answers[t] = <<>> THEN tab[t].list ELSE answers[t][Len(answers[t])]

\* What leads to another read for t by itself: a read asked for, an event, the
\* timer, its own deletions.
OwnDue(t) ==
  \/ asked[t] > 0 \/ chan[t] # <<>> \/ tab[t].timer
  \/ calls[t]["auto"].pc # "free" \/ calls[t]["user"].pc \in {"mutated", "answered"}

\* A change of the table that is still to be announced to all.
Unannounced ==
  \/ \E p \in Posts : post[p].pc = "stored"
  \/ \E t \in Tabs, k \in Slots : calls[t][k].pc = "mutated"

\* The timer sends nothing but clear-before, which always reloads.
AutoIsBefore ==
  \A t \in Tabs : calls[t]["auto"].pc # "free" => calls[t]["auto"].kind = "before"

\* A tab whose newest read is not the table has another one coming, or missed
\* something, or is a page of an earlier run.
FreshTab(t) ==
  /\ tab[t].token <= token
  /\ tab[t].booted /\ tab[t].token = token /\ ~missed[t] =>
       Newest(t) = table \/ OwnDue(t) \/ Unannounced

FreshInv == TypeOK /\ AutoIsBefore /\ \A t \in Tabs : FreshTab(t)

LEMMA InitFresh == Init => FreshInv
<1> SUFFICES ASSUME Init PROVE FreshInv
  OBVIOUS
<1>1. AutoIsBefore
  BY DEF Init, AutoIsBefore, FreeCall, Slots
<1>2. \A t \in Tabs : missed[t] /\ tab[t].token = 0 /\ token = 1
  BY DEF Init
<1>3. \A t \in Tabs : FreshTab(t)
  BY <1>2 DEF FreshTab
<1> QED
  BY <1>1, <1>3, InitTypeOK DEF FreshInv

\* How the request of the timer moves.
LEMMA AutoStep ==
  ASSUME TypeOK, AutoIsBefore, [Next]_vars
  PROVE  AutoIsBefore'
<1>k. "auto" \in Slots /\ "user" \in Slots /\ calls \in [Tabs -> [Slots -> CallState]]
  BY DEF Slots, TypeOK
<1>1. CASE calls' = calls
  BY <1>1 DEF AutoIsBefore
<1>2. ASSUME NEW t \in Tabs, NEW k \in Slots, calls' = [calls EXCEPT ![t][k] = FreeCall]
      PROVE  AutoIsBefore'
  <2>1. \A u \in Tabs : calls'[u]["auto"] = IF u = t /\ k = "auto" THEN FreeCall ELSE calls[u]["auto"]
    BY <1>k, <1>2
  <2> QED
    BY <2>1 DEF AutoIsBefore, FreeCall
<1>3. ASSUME NEW t \in Tabs, NEW k \in Slots, NEW pc, calls[t][k].pc # "free",
             calls' = [calls EXCEPT ![t][k] = [@ EXCEPT !.pc = pc]]
      PROVE  AutoIsBefore'
  <2>1. [calls[t][k] EXCEPT !.pc = pc].kind = calls[t][k].kind
    BY <1>k DEF CallState
  <2>2. \A u \in Tabs : calls'[u]["auto"] = IF u = t /\ k = "auto" THEN [calls[t][k] EXCEPT !.pc = pc]
                                            ELSE calls[u]["auto"]
    BY <1>k, <1>3
  <2>3. \A u \in Tabs : calls'[u]["auto"].kind = calls[u]["auto"].kind
    BY <2>1, <2>2
  <2>4. \A u \in Tabs : calls[u]["auto"].pc = "free" => calls'[u]["auto"] = calls[u]["auto"]
    BY <1>3, <2>2
  <2> QED
    BY <2>3, <2>4 DEF AutoIsBefore
<1>4. ASSUME NEW t \in Tabs, NEW k \in Slots, HandleDelete(t, k)
      PROVE  AutoIsBefore'
  BY <1>2, <1>3, <1>4 DEF HandleDelete
<1>5. ASSUME NEW t \in Tabs, NEW k \in Slots, PublishCleared(t, k)
      PROVE  AutoIsBefore'
  BY <1>3, <1>5 DEF PublishCleared
<1>6. CASE Restart
  BY <1>6, <1>k DEF Restart, AutoIsBefore, FreeCall
<1>7. ASSUME NEW t \in Tabs, TimerFires(t)
      PROVE  AutoIsBefore'
  <2>1. /\ calls'[t]["auto"].kind = "before"
        /\ \A u \in Tabs : u # t => calls'[u] = calls[u]
    BY <1>7, <1>k DEF TimerFires
  <2> QED
    BY <2>1 DEF AutoIsBefore
<1>8. ASSUME NEW t \in Tabs, UserDelete(t)
      PROVE  AutoIsBefore'
  <2>1. \A u \in Tabs : calls'[u]["auto"] = calls[u]["auto"]
    BY <1>8, <1>k DEF UserDelete
  <2> QED
    BY <2>1 DEF AutoIsBefore
<1>9. ASSUME NEW t \in Tabs, NEW k \in Slots, Reload(t, k) \/ DeleteFails(t, k)
      PROVE  AutoIsBefore'
  BY <1>2, <1>9 DEF Reload, DeleteFails
<1> QED
  BY <1>1, <1>4, <1>5, <1>6, <1>7, <1>8, <1>9
     DEF Next, ServerStep, TabStep, UserStep, AddDump, PublishCreated, ReadList, ListFails, Connect, Boot, HandleEvent,
         ApplyList, SetAutoClear, Disconnect, tabVars, vars

\* What an announcement does for every tab: it is on its way, or it is lost.
LEMMA AnnounceIsDue ==
  ASSUME TypeOK, NEW event \in Events, Announce(event), token' = token, tab' = tab,
         NEW t \in Tabs, FreshTab(t)
  PROVE  FreshTab(t)'
<1>1. CASE Reached(t)
  <2>1. chan'[t] = Append(chan[t], event) /\ chan[t] \in Seq(Events)
    BY <1>1 DEF Announce, TypeOK
  <2>2. chan'[t] # <<>>
    BY <2>1, AppendProperties
  <2> QED
    BY <2>2 DEF FreshTab, OwnDue
<1>2. CASE ~Reached(t)
  <2>1. missed'[t]
    BY <1>2 DEF Announce
  <2> QED
    BY <2>1 DEF FreshTab
<1> QED
  BY <1>1, <1>2

\* Nothing that t waits for is lost.
LEMMA StaysFresh ==
  ASSUME NEW t \in Tabs, FreshTab(t), table' = table, token' = token,
         tab'[t].booted = tab[t].booted, tab'[t].token = tab[t].token,
         tab[t].timer => tab'[t].timer, missed[t] => missed'[t],
         Newest(t)' = Newest(t), asked'[t] = asked[t],
         chan[t] # <<>> => chan'[t] # <<>> \/ missed'[t],
         calls[t]["auto"].pc # "free" => calls'[t]["auto"].pc # "free",
         calls[t]["user"].pc \in {"mutated", "answered"} => calls'[t]["user"].pc \in {"mutated", "answered"},
         Unannounced => Unannounced'
  PROVE  FreshTab(t)'
BY DEF FreshTab, OwnDue

\* A list that arrives was the next one to be applied.
LEMMA ApplyKeepsNewest ==
  ASSUME TypeOK, NEW t \in Tabs, ApplyList(t), "reorder" \notin Faults
  PROVE  \A u \in Tabs : Newest(u)' = Newest(u)
<1> DEFINE lists == answers[t]
<1>1. /\ tab' = [tab EXCEPT ![t].list = lists[1]]
      /\ answers' = [answers EXCEPT ![t] = SubSeq(lists, 1, 0) \o SubSeq(lists, 2, Len(lists))]
      /\ 1 \in 1..Len(lists)
  <2>1. PICK i \in 1..Len(lists) :
          /\ i = 1
          /\ tab' = [tab EXCEPT ![t].list = lists[i]]
          /\ answers' = [answers EXCEPT ![t] = SubSeq(@, 1, i - 1) \o SubSeq(@, i + 1, Len(@))]
    BY DEF ApplyList
  <2>2. i - 1 = 0 /\ i + 1 = 2
    BY <2>1
  <2>3. answers' = [answers EXCEPT ![t] = SubSeq(@, 1, 0) \o SubSeq(@, 2, Len(@))]
    BY <2>1, <2>2
  <2> QED
    BY <2>1, <2>3
<1>2. lists \in Seq(SUBSET Dumps) /\ Len(lists) \in Nat /\ Len(lists) >= 1
      /\ tab \in [Tabs -> TabState] /\ answers \in [Tabs -> Seq(SUBSET Dumps)]
  BY <1>1, LenProperties DEF TypeOK
<1>n. Len(lists) \in Nat /\ Len(lists) >= 1
  BY <1>2
<1> DEFINE rest == SubSeq(lists, 1, 0) \o SubSeq(lists, 2, Len(lists))
<1>3. rest = SubSeq(lists, 2, Len(lists)) /\ Len(rest) = Len(lists) - 1
      /\ \A i \in 1..Len(lists) - 1 : rest[i] = lists[i + 1]
  <2>1. \A i \in 1..Len(lists) : lists[i] \in SUBSET Dumps
    BY <1>2, ElementOfSeq
  <2>2. /\ SubSeq(lists, 2, Len(lists)) \in Seq(SUBSET Dumps)
        /\ Len(SubSeq(lists, 2, Len(lists))) = Len(lists) - 1
        /\ \A i \in 1..Len(lists) - 1 : SubSeq(lists, 2, Len(lists))[i] = lists[i + 1]
    <3>1. \A i \in 2..Len(lists) : lists[i] \in SUBSET Dumps
      BY <1>2, <2>1
    <3>2. /\ SubSeq(lists, 2, Len(lists)) \in Seq(SUBSET Dumps)
          /\ Len(SubSeq(lists, 2, Len(lists))) = IF 2 <= Len(lists) THEN Len(lists) - 2 + 1 ELSE 0
          /\ \A i \in 1..Len(lists) - 2 + 1 : SubSeq(lists, 2, Len(lists))[i] = lists[2 + i - 1]
      BY <1>2, <3>1, SubSeqProperties
    <3>3. \A i \in 1..Len(lists) - 1 : 2 + i - 1 = i + 1
      BY <1>2
    <3>4. Len(lists) - 2 + 1 = Len(lists) - 1
      BY <1>2
    <3>5. ASSUME NEW n \in Nat, n >= 1
          PROVE  (IF 2 <= n THEN n - 2 + 1 ELSE 0) = n - 1
      BY <3>5
    <3>6. (IF 2 <= Len(lists) THEN Len(lists) - 2 + 1 ELSE 0) = Len(lists) - 1
      BY <1>2, <3>5
    <3> QED
      BY <3>2, <3>3, <3>4, <3>6
  <2>3. SubSeq(lists, 1, 0) = <<>>
    BY SubSeqEmpty
  <2>4. rest = SubSeq(lists, 2, Len(lists))
    BY <2>2, <2>3, ConcatEmptySeq
  <2> HIDE DEF rest
  <2> QED
    BY <2>2, <2>4
<1>4. answers'[t] = rest /\ tab'[t].list = lists[1]
  BY <1>1, <1>2 DEF TabState
<1>5. Newest(t)' = Newest(t)
  <2>1. Newest(t) = lists[Len(lists)]
    BY <1>2, EmptySeq DEF Newest
  <2>2. CASE Len(lists) = 1
    <3>1. rest = <<>>
      BY <1>3, <2>2
    <3> QED
      BY <1>4, <2>1, <2>2, <3>1 DEF Newest
  <2>3. CASE Len(lists) > 1
    <3> HIDE DEF rest
    <3>b. ASSUME NEW n \in Nat, n > 1
          PROVE  n - 1 \in 1..n - 1 /\ n - 1 + 1 = n /\ n - 1 # 0
      BY <3>b
    <3>a. Len(lists) - 1 \in 1..Len(lists) - 1 /\ Len(lists) - 1 + 1 = Len(lists) /\ Len(lists) - 1 # 0
      BY <1>n, <2>3, <3>b
    <3>1. rest # <<>> /\ rest[Len(rest)] = lists[Len(lists)]
      BY <1>3, <3>a, EmptySeq
    <3> QED
      BY <1>4, <2>1, <3>1 DEF Newest
  <2>4. ASSUME NEW n \in Nat, n >= 1
        PROVE  n = 1 \/ n > 1
    BY <2>4
  <2>5. Len(lists) = 1 \/ Len(lists) > 1
    BY <1>n, <2>4
  <2> QED
    BY <2>2, <2>3, <2>5
<1>6. ASSUME NEW u \in Tabs, u # t
      PROVE  Newest(u)' = Newest(u)
  BY <1>1, <1>2, <1>6 DEF Newest
<1> QED
  BY <1>5, <1>6

LEMMA DeleteKeepsFresh ==
  ASSUME FreshInv, NEW u \in Tabs, NEW k \in Slots, HandleDelete(u, k), NEW t \in Tabs
  PROVE  FreshTab(t)'
<1> DEFINE call == calls[u][k]
<1>1. /\ "auto" \in Slots /\ "user" \in Slots /\ calls \in [Tabs -> [Slots -> CallState]]
      /\ AutoIsBefore /\ FreshTab(t) /\ call.pc = "sent"
  BY DEF FreshInv, TypeOK, HandleDelete, Slots
<1>2. /\ UNCHANGED <<token, post, tab, chan, asked, answers, missed>>
      /\ Newest(t)' = Newest(t)
  BY DEF HandleDelete, Newest
<1>3. \A v \in Tabs, l \in Slots : v # u \/ l # k => calls'[v][l] = calls[v][l]
  BY <1>1 DEF HandleDelete
<1>4. Unannounced => Unannounced'
  BY <1>1, <1>2, <1>3 DEF Unannounced
<1>5. CASE t # u
  <2>1. CASE table' = table
    BY <1>1, <1>2, <1>3, <1>4, <1>5, <2>1, StaysFresh
  <2>2. CASE table' # table
    <3>1. Doomed(call) # {} /\ tab[u].token = token
      BY <2>2 DEF HandleDelete
    <3>2. calls' = [calls EXCEPT ![u][k] = [@ EXCEPT !.pc = "mutated"]]
      BY <3>1 DEF HandleDelete
    <3>3. Unannounced'
      BY <1>1, <3>2 DEF Unannounced, CallState
    <3> QED
      BY <1>1, <1>2, <3>3 DEF FreshTab
  <2> QED
    BY <2>1, <2>2
<1>6. CASE t = u /\ tab[u].token # token
  BY <1>1, <1>2, <1>6 DEF FreshTab
<1>7. CASE t = u /\ tab[u].token = token /\ (call.kind = "all" \/ Doomed(call) # {})
  <2>1. calls' = [calls EXCEPT ![u][k] = [@ EXCEPT !.pc = "mutated"]]
    BY <1>7 DEF HandleDelete
  <2>2. Unannounced'
    BY <1>1, <2>1 DEF Unannounced, CallState
  <2> QED
    BY <1>1, <1>2, <2>2 DEF FreshTab
<1>8. CASE t = u /\ tab[u].token = token /\ call.kind # "all" /\ Doomed(call) = {}
  <2>1. table' = table
    BY <1>8 DEF HandleDelete
  <2>2. CASE call.kind = "one"
    <3>1. k = "user"
      BY <1>1, <2>2 DEF AutoIsBefore, Slots
    <3> QED
      BY <1>1, <1>2, <1>3, <1>4, <1>8, <2>1, <3>1, StaysFresh
  <2>3. CASE call.kind # "one"
    <3>1. calls' = [calls EXCEPT ![u][k] = [@ EXCEPT !.pc = "answered"]]
      BY <1>8, <2>3 DEF HandleDelete
    <3>2. calls'[u][k].pc = "answered"
      BY <1>1, <3>1 DEF CallState
    <3> QED
      BY <1>1, <1>2, <1>3, <1>4, <1>8, <2>1, <3>2, StaysFresh
  <2> QED
    BY <2>2, <2>3
<1> QED
  BY <1>5, <1>6, <1>7, <1>8

\* A request that the database fails: the list of the tab that sent it may now
\* be old, and the tab has missed something; nothing changes for the others.
LEMMA FailureKeepsFresh ==
  ASSUME FreshInv, NEW u \in Tabs, NEW t \in Tabs,
         ListFails(u) \/ \E k \in Slots : DeleteFails(u, k)
  PROVE  FreshTab(t)'
<1>1. /\ "auto" \in Slots /\ "user" \in Slots /\ calls \in [Tabs -> [Slots -> CallState]]
      /\ FreshTab(t) /\ missed \in [Tabs -> BOOLEAN] /\ asked \in [Tabs -> Nat]
  BY DEF FreshInv, TypeOK, Slots
<1>2. UNCHANGED <<table, token, post, tab, chan, answers>> /\ Newest(t)' = Newest(t)
  BY DEF ListFails, DeleteFails, Newest
<1>3. CASE ListFails(u)
  <2>1. calls' = calls
    BY <1>3 DEF ListFails
  <2>2. CASE t = u
    <3>1. missed'[t]
      BY <1>1, <1>3, <2>2 DEF ListFails
    <3> QED
      BY <1>1, <1>2, <3>1 DEF FreshTab
  <2>3. CASE t # u
    <3>1. asked'[t] = asked[t] /\ missed'[t] = missed[t]
      BY <1>1, <1>3, <2>3 DEF ListFails
    <3> QED
      BY <1>1, <1>2, <2>1, <3>1, StaysFresh DEF Unannounced
  <2> QED
    BY <2>2, <2>3
<1>4. ASSUME NEW k \in Slots, DeleteFails(u, k)
      PROVE  FreshTab(t)'
  <2>1. /\ calls[u][k].pc = "sent" /\ calls' = [calls EXCEPT ![u][k] = FreeCall] /\ asked' = asked
        /\ missed' = [missed EXCEPT ![u] = @ \/ k = "auto"]
    BY <1>4 DEF DeleteFails
  <2>2. \A v \in Tabs, l \in Slots : v # u \/ l # k => calls'[v][l] = calls[v][l]
    BY <1>1, <2>1
  <2>3. Unannounced => Unannounced'
    BY <1>2, <2>1, <2>2 DEF Unannounced
  <2>4. missed[t] => missed'[t]
    BY <1>1, <2>1
  <2>5. CASE t = u /\ k = "auto"
    <3>1. missed'[t]
      BY <1>1, <2>1, <2>5
    <3> QED
      BY <1>1, <1>2, <3>1 DEF FreshTab
  <2>6. CASE t # u \/ k = "user"
    <3>1. calls[t]["auto"].pc # "free" => calls'[t]["auto"].pc # "free"
      BY <1>1, <2>2, <2>6
    <3>2. calls[t]["user"].pc \in {"mutated", "answered"} => calls'[t]["user"].pc \in {"mutated", "answered"}
      BY <1>1, <2>1, <2>2
    <3> QED
      BY <1>1, <1>2, <2>1, <2>3, <2>4, <3>1, <3>2, StaysFresh
  <2> QED
    BY <2>5, <2>6 DEF Slots
<1> QED
  BY <1>3, <1>4

LEMMA TabKeepsFresh ==
  ASSUME FreshInv, NEW u \in Tabs, TabStep(u) \/ UserStep(u) \/ Disconnect(u), "reorder" \notin Faults,
         NEW t \in Tabs
  PROVE  FreshTab(t)'
<1>1. /\ FreshTab(t) /\ "auto" \in Slots /\ "user" \in Slots /\ calls \in [Tabs -> [Slots -> CallState]]
      /\ tab \in [Tabs -> TabState] /\ asked \in [Tabs -> Nat] /\ token \in Nat
      /\ chan \in [Tabs -> Seq(Events)] /\ missed \in [Tabs -> BOOLEAN]
  BY DEF FreshInv, TypeOK, Slots
<1>2. ASSUME calls' = calls, post' = post
      PROVE  Unannounced' = Unannounced
  BY <1>2 DEF Unannounced
<1>3. CASE Connect(u) \/ SetAutoClear(u)
  <2>1. /\ UNCHANGED <<table, token, post, calls, chan, asked, answers, missed>>
    BY <1>3 DEF Connect, SetAutoClear
  <2>2. /\ tab'[t].booted = tab[t].booted /\ tab'[t].token = tab[t].token
        /\ tab'[t].timer = tab[t].timer /\ tab'[t].list = tab[t].list
    <3>1. CASE Connect(u)
      BY <1>1, <3>1 DEF Connect, TabState
    <3>2. CASE SetAutoClear(u)
      BY <1>1, <3>2 DEF SetAutoClear, TabState
    <3> QED
      BY <1>3, <3>1, <3>2
  <2>3. Newest(t)' = Newest(t)
    BY <2>1, <2>2 DEF Newest
  <2> QED
    BY <1>1, <1>2, <2>1, <2>2, <2>3, StaysFresh
<1>4. CASE Boot(u)
  <2>1. /\ UNCHANGED <<table, token, post, calls, chan, answers, missed>>
    BY <1>4 DEF Boot
  <2>2. CASE t = u
    <3>1. asked'[t] > 0 /\ tab'[t].token = token
      BY <1>1, <1>4, <2>2 DEF Boot, TabState
    <3> QED
      BY <1>1, <2>1, <3>1 DEF FreshTab, OwnDue
  <2>3. CASE t # u
    <3>1. tab'[t] = tab[t] /\ asked'[t] = asked[t]
      BY <1>1, <1>4, <2>3 DEF Boot
    <3>2. Newest(t)' = Newest(t)
      BY <2>1, <3>1 DEF Newest
    <3> QED
      BY <1>1, <1>2, <2>1, <3>1, <3>2, StaysFresh
  <2> QED
    BY <2>2, <2>3
<1>5. CASE HandleEvent(u)
  <2>1. /\ UNCHANGED <<table, token, post, calls, answers, missed>>
        /\ chan' = [chan EXCEPT ![u] = Tail(@)]
    BY <1>5 DEF HandleEvent
  <2> DEFINE e == Head(chan[u])
  <2>2. \/ /\ tab' = [tab EXCEPT ![u].pending = Earliest(@, e.id), ![u].burst = @ \cup {e.id}, ![u].timer = TRUE]
           /\ asked' = asked
        \/ tab' = tab /\ asked' = [asked EXCEPT ![u] = @ + 1]
    BY <1>5 DEF HandleEvent
  <2> HIDE DEF e
  <2>3. CASE t = u
    <3>1. (tab'[t].timer \/ asked'[t] > 0) /\ tab'[t].token = tab[t].token
      BY <1>1, <2>2, <2>3 DEF TabState
    <3> QED
      BY <1>1, <2>1, <3>1 DEF FreshTab, OwnDue
  <2>4. CASE t # u
    <3>1. tab'[t] = tab[t] /\ asked'[t] = asked[t] /\ chan'[t] = chan[t]
      BY <1>1, <2>1, <2>2, <2>4
    <3>2. Newest(t)' = Newest(t)
      BY <2>1, <3>1 DEF Newest
    <3>3. Unannounced' = Unannounced
      BY <1>2, <2>1
    <3>4. FreshTab(t) /\ table' = table /\ token' = token /\ missed' = missed /\ calls' = calls
      BY <1>1, <2>1
    <3> QED
      BY <3>1, <3>2, <3>3, <3>4, StaysFresh
  <2> QED
    BY <2>3, <2>4
<1>6. CASE TimerFires(u)
  <2>1. /\ UNCHANGED <<table, token, post, chan, asked, answers, missed>> /\ calls[u]["auto"].pc = "free"
        /\ tab' = [tab EXCEPT ![u].timer = FALSE, ![u].pending = None, ![u].burst = {}]
        /\ calls' = [calls EXCEPT ![u]["auto"] =
             [pc |-> "sent", kind |-> "before", id |-> tab[u].pending, burst |-> tab[u].burst]]
    BY <1>6 DEF TimerFires
  <2>2. CASE t = u
    <3>1. calls'[t]["auto"].pc = "sent" /\ tab'[t].token = tab[t].token
      BY <1>1, <2>1, <2>2 DEF TabState
    <3> QED
      BY <1>1, <2>1, <3>1 DEF FreshTab, OwnDue
  <2>3. CASE t # u
    <3>1. tab'[t] = tab[t] /\ calls'[t] = calls[t]
      BY <1>1, <2>1, <2>3
    <3>2. Unannounced => Unannounced'
      BY <1>1, <2>1 DEF Unannounced
    <3>3. Newest(t)' = Newest(t)
      BY <2>1, <3>1 DEF Newest
    <3> QED
      BY <1>1, <2>1, <3>1, <3>2, <3>3, StaysFresh
  <2> QED
    BY <2>2, <2>3
<1>7. CASE ApplyList(u)
  <2>1. UNCHANGED <<table, token, post, calls, chan, asked, missed>> /\ Newest(t)' = Newest(t)
    BY <1>7, ApplyKeepsNewest DEF ApplyList, FreshInv
  <2>2. /\ tab'[t].booted = tab[t].booted /\ tab'[t].token = tab[t].token
        /\ tab'[t].timer = tab[t].timer
    BY <1>1, <1>7 DEF ApplyList, TabState
  <2> QED
    BY <1>1, <1>2, <2>1, <2>2, StaysFresh
<1>8. ASSUME NEW k \in Slots, Reload(u, k)
      PROVE  FreshTab(t)'
  <2>1. /\ UNCHANGED <<table, token, post, tab, chan, answers, missed>>
        /\ calls' = [calls EXCEPT ![u][k] = FreeCall] /\ calls[u][k].pc = "answered"
        /\ asked' = [asked EXCEPT ![u] = @ + 1]
    BY <1>8 DEF Reload
  <2>2. CASE t = u
    <3>1. asked'[t] > 0
      BY <1>1, <2>1, <2>2
    <3> QED
      BY <1>1, <2>1, <3>1 DEF FreshTab, OwnDue
  <2>3. CASE t # u
    <3>1. asked'[t] = asked[t] /\ calls'[t] = calls[t]
      BY <1>1, <2>1, <2>3
    <3>2. Unannounced => Unannounced'
      BY <1>1, <2>1 DEF Unannounced
    <3>3. Newest(t)' = Newest(t)
      BY <2>1, <3>1 DEF Newest
    <3> QED
      BY <1>1, <2>1, <3>1, <3>2, <3>3, StaysFresh
  <2> QED
    BY <2>2, <2>3
<1>9. CASE UserDelete(u)
  <2>1. UNCHANGED <<table, token, post, tab, chan, asked, answers, missed>> /\ calls[u]["user"].pc = "free"
    BY <1>9 DEF UserDelete
  <2>2. \A v \in Tabs, l \in Slots : v # u \/ l # "user" => calls'[v][l] = calls[v][l]
    BY <1>1, <1>9 DEF UserDelete
  <2>3. Unannounced => Unannounced'
    BY <1>1, <2>1, <2>2 DEF Unannounced
  <2> QED
    BY <1>1, <2>1, <2>2, <2>3, StaysFresh DEF Newest
<1>10. CASE Disconnect(u)
  <2>1. /\ UNCHANGED <<table, token, post, calls, asked, answers>>
        /\ chan' = [chan EXCEPT ![u] = <<>>] /\ missed' = [missed EXCEPT ![u] = @ \/ chan[u] # <<>>]
    BY <1>10 DEF Disconnect
  <2>2. /\ tab'[t].booted = tab[t].booted /\ tab'[t].token = tab[t].token
        /\ tab'[t].timer = tab[t].timer /\ tab'[t].list = tab[t].list
    BY <1>1, <1>10 DEF Disconnect, TabState
  <2>3. Newest(t)' = Newest(t)
    BY <2>1, <2>2 DEF Newest
  <2>4. (missed[t] => missed'[t]) /\ (chan[t] # <<>> => chan'[t] # <<>> \/ missed'[t])
    BY <1>1, <2>1
  <2> QED
    BY <1>1, <1>2, <2>1, <2>2, <2>3, <2>4, StaysFresh
<1> QED
  BY <1>3, <1>4, <1>5, <1>6, <1>7, <1>8, <1>9, <1>10 DEF TabStep, UserStep

LEMMA FreshStep ==
  ASSUME FreshInv, [Next]_vars, "reorder" \notin Faults
  PROVE  FreshInv'
<1> SUFFICES ASSUME NEW t \in Tabs
             PROVE  FreshTab(t)'
  BY AutoStep, TypeStep DEF FreshInv
<1>k. /\ FreshTab(t) /\ TypeOK /\ asked \in [Tabs -> Nat] /\ answers \in [Tabs -> Seq(SUBSET Dumps)]
      /\ table \in SUBSET Dumps
      /\ post \in [Posts -> [pc : {"new", "stored", "done"}, id : Nat]]
      /\ calls \in [Tabs -> [Slots -> CallState]] /\ token \in Nat
  BY DEF FreshInv, TypeOK
<1>1. ASSUME NEW p \in Posts, AddDump(p)
      PROVE  FreshTab(t)'
  <2>1. UNCHANGED <<token, tab, calls, asked, answers, chan, missed>> /\ post[p].pc = "new"
    BY <1>1 DEF AddDump, tabVars
  <2>2. CASE post'[p].pc = "stored"
    BY <1>k, <2>1, <2>2 DEF FreshTab, Unannounced
  <2>3. CASE post'[p].pc # "stored"
    <3>1. table' = table /\ post' = [post EXCEPT ![p].pc = "done"]
      BY <1>1, <1>k, <2>3 DEF AddDump
    <3>2. Unannounced => Unannounced'
      BY <1>k, <2>1, <3>1 DEF Unannounced
    <3> QED
      BY <1>k, <2>1, <3>1, <3>2, StaysFresh DEF Newest
  <2> QED
    BY <2>2, <2>3
<1>2. ASSUME NEW p \in Posts, PublishCreated(p)
      PROVE  FreshTab(t)'
  <2>1. [type |-> "dump.created", id |-> post[p].id] \in Events
    BY <1>k DEF Events
  <2> QED
    BY <1>2, <1>k, <2>1, AnnounceIsDue DEF PublishCreated, tabVars
<1>3. ASSUME NEW u \in Tabs, NEW k \in Slots, HandleDelete(u, k)
      PROVE  FreshTab(t)'
  BY <1>3, DeleteKeepsFresh
<1>4. ASSUME NEW u \in Tabs, NEW k \in Slots, PublishCleared(u, k)
      PROVE  FreshTab(t)'
  <2>1. [type |-> "debug.cleared", id |-> None] \in Events
    BY DEF Events, None
  <2> QED
    BY <1>4, <1>k, <2>1, AnnounceIsDue DEF PublishCleared
<1>5. ASSUME NEW u \in Tabs, ReadList(u)
      PROVE  FreshTab(t)'
  <2>1. UNCHANGED <<table, token, post, tab, calls, chan>>
    BY <1>5 DEF ReadList
  <2>2. CASE t = u
    <3>1. answers'[t] = Append(answers[t], table) /\ answers[t] \in Seq(SUBSET Dumps)
      BY <1>k, <1>5, <2>2 DEF ReadList
    <3>2. answers'[t] # <<>> /\ answers'[t][Len(answers'[t])] = table
      <4>1. ASSUME NEW lists \in Seq(SUBSET Dumps), NEW list \in SUBSET Dumps
            PROVE  Append(lists, list) # <<>> /\ Append(lists, list)[Len(Append(lists, list))] = list
        BY <4>1, AppendProperties, LenProperties
      <4> QED
        BY <1>k, <3>1, <4>1
    <3> QED
      BY <1>k, <2>1, <3>2 DEF FreshTab, Newest
  <2>3. CASE t # u
    <3>1. asked'[t] = asked[t] /\ answers'[t] = answers[t] /\ missed'[t] = missed[t]
      BY <1>5, <1>k, <2>3 DEF ReadList, TypeOK
    <3> QED
      BY <1>k, <2>1, <3>1, StaysFresh DEF Newest, Unannounced
  <2> QED
    BY <2>2, <2>3
<1>6. CASE Restart
  <2>1. missed'[t] /\ token' = token + 1
    BY <1>6 DEF Restart
  <2>2. tab'[t].token = tab[t].token /\ tab[t].token \in Nat
    BY <1>k, <1>6 DEF Restart, TypeOK, TabState
  <2> QED
    BY <1>k, <2>1, <2>2 DEF FreshTab
<1>7. ASSUME NEW u \in Tabs, TabStep(u) \/ UserStep(u) \/ Disconnect(u)
      PROVE  FreshTab(t)'
  BY <1>7, TabKeepsFresh
<1>8. CASE UNCHANGED vars
  BY <1>8, <1>k, StaysFresh DEF vars, Newest, Unannounced
<1>9. ASSUME NEW u \in Tabs, ListFails(u) \/ \E k \in Slots : DeleteFails(u, k)
      PROVE  FreshTab(t)'
  BY <1>9, FailureKeepsFresh
<1> QED
  BY <1>1, <1>2, <1>3, <1>4, <1>5, <1>6, <1>7, <1>8, <1>9 DEF Next, ServerStep

(***************************************************************************)
(* For any number of scripts and tabs, posting in parallel too, any        *)
(* buffer, any restarts and a database that fails any request, as long as  *)
(* answers are not overtaken: a tab shows the table as soon as everything  *)
(* has settled, unless since its last successful read an event was lost to *)
(* it or the database failed a list it asked for or the DELETE of its      *)
(* "Auto clear".                                                           *)
(***************************************************************************)
THEOREM QuietTabsAreFresh ==
  ASSUME "reorder" \notin Faults
  PROVE  Spec => []QuietMeansFresh
<1>1. FreshInv /\ [Next]_vars => FreshInv'
  BY FreshStep
<1>2. FreshInv => QuietMeansFresh
  <2> SUFFICES ASSUME FreshInv, NEW t \in Tabs, Quiet(t), ~missed[t]
               PROVE  tab[t].list = table
    BY DEF QuietMeansFresh
  <2>1. asked[t] \in Nat /\ answers[t] \in Seq(SUBSET Dumps) /\ Len(answers[t]) \in Nat
    BY LenProperties DEF FreshInv, TypeOK
  <2>2. asked[t] = 0 /\ answers[t] = <<>>
    BY <2>1, EmptySeq DEF Quiet, Settled, Loading
  <2>3. ~OwnDue(t) /\ ~Unannounced
    BY <2>2 DEF Quiet, Settled, OwnDue, Unannounced, Slots
  <2> QED
    BY <2>2, <2>3 DEF FreshInv, FreshTab, Newest, Quiet
<1> QED
  BY <1>1, <1>2, InitFresh, PTL DEF Spec

=============================================================================
