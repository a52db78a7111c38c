----------------------------- MODULE DebugDumps -----------------------------
(***************************************************************************)
(* Captured dumps from the PHP script to the browser: POST /api/dumps, the *)
(* capped table debug_dumps, the event stream, and the dump list of every  *)
(* open tab of the web UI with its "Auto clear" switch.                    *)
(*                                                                         *)
(* A request handler mutates the table in one SQL statement and publishes  *)
(* in a later step; a tab reacts to an event with another request, whose   *)
(* answer travels for a while.  The list of a tab is thus a cache, kept    *)
(* fresh by events that may be lost (EventHub), and "Auto clear" deletes   *)
(* rows on the strength of what that cache's owner has been told.          *)
(*                                                                         *)
(* Abstractions: a dump is its row id and the script that posted it; the   *)
(* event channel of a tab, the socket and the browser's message queue are  *)
(* one bounded queue; the timer of 250 ms may fire at any time.            *)
(***************************************************************************)
EXTENDS Naturals, Sequences, FiniteSets

CONSTANTS
  Posts,        \* the dumps that scripts post, each once
  Tabs,         \* open tabs of the UI
  Cap,          \* MaxDebugDumps, 1000 in the code
  Buffer,       \* events that can wait for a tab
  MaxLoads,     \* bound: list requests of a tab that are under way
  MaxRestarts,  \* bound: restarts of the daemon
  Faults        \* subset of AllFaults: what may go wrong in this instance

AllFaults == {"parallel", "reorder", "disconnect", "busy"}

ASSUME DumpAssumption ==
  /\ IsFiniteSet(Posts)
  /\ Cap \in Nat \ {0}
  /\ Buffer \in Nat \ {0}
  /\ MaxLoads \in Nat \ {0}
  /\ MaxRestarts \in Nat
  /\ Faults \subseteq AllFaults

VARIABLES
  table,    \* the rows of debug_dumps
  lastId,   \* the AUTOINCREMENT counter of the table
  token,    \* Service.Token, new in every run of the daemon
  post,     \* the handler of every POST
  tab,      \* state of the UI in every tab
  calls,    \* the requests of a tab that delete rows
  chan,     \* events on their way to every tab
  asked,    \* GET /api/dumps of a tab that the server has not served
  answers,  \* lists on their way to every tab, oldest read first
  missed    \* history: since the last list was read for the tab, an event was
            \* lost to it, or the request that was to bring it news failed

vars == <<table, lastId, token, post, tab, calls, chan, asked, answers, missed>>

tabVars == <<tab, calls, asked, answers>>

None == 0
Dumps == [id : Nat \ {0}, post : Posts]

\* The coroutines that delete and then reload: a click, and the auto-clear
\* timer.  One of each at a time.
Slots == {"user", "auto"}

FreeCall == [pc |-> "free", kind |-> "none", id |-> None, burst |-> {}]

CallState == [pc : {"free", "sent", "mutated", "answered"},
              kind : {"none", "all", "before", "one"},
              id : Nat, burst : SUBSET Nat]

TabState == [booted : BOOLEAN, token : Nat, live : BOOLEAN, auto : BOOLEAN,
             pending : Nat, burst : SUBSET Nat, timer : BOOLEAN,
             list : SUBSET Dumps]

Events == [type : {"dump.created", "debug.cleared"}, id : Nat]

TypeOK ==
  /\ table \in SUBSET Dumps
  /\ lastId \in Nat
  /\ token \in Nat
  /\ post \in [Posts -> [pc : {"new", "stored", "done"}, id : Nat]]
  /\ tab \in [Tabs -> TabState]
  /\ calls \in [Tabs -> [Slots -> CallState]]
  /\ chan \in [Tabs -> Seq(Events)]
  /\ asked \in [Tabs -> Nat]
  /\ answers \in [Tabs -> Seq(SUBSET Dumps)]
  /\ missed \in [Tabs -> BOOLEAN]

Init ==
  /\ table = {}
  /\ lastId = 0
  /\ token = 1
  /\ post = [p \in Posts |-> [pc |-> "new", id |-> None]]
  /\ \E on \in [Tabs -> BOOLEAN] :
       tab = [t \in Tabs |-> [booted |-> FALSE, token |-> 0, live |-> FALSE,
                              auto |-> on[t], pending |-> None, burst |-> {},
                              timer |-> FALSE, list |-> {}]]
  /\ calls = [t \in Tabs |-> [k \in Slots |-> FreeCall]]
  /\ chan = [t \in Tabs |-> <<>>]
  /\ asked = [t \in Tabs |-> 0]
  /\ answers = [t \in Tabs |-> <<>>]
  /\ missed = [t \in Tabs |-> TRUE]

-----------------------------------------------------------------------------
(* The server *)

\* Mutant: a plain rowid, which SQLite takes from the rows that are left.
ReusedId == 1 + (IF table = {} THEN 0
                 ELSE CHOOSE n \in {d.id : d \in table} : \A d \in table : d.id <= n)

\* The id of the next row: ids of deleted rows are not given out again.
NextId == lastId + 1

HasRoom == Cardinality(table) < Cap

\* Service.publish: the event joins the queue of the tabs that are connected
\* and have room.
Reached(t) == tab[t].live /\ Len(chan[t]) < Buffer

Announce(event) ==
  /\ chan' = [t \in Tabs |-> IF Reached(t) THEN Append(chan[t], event) ELSE chan[t]]
  /\ missed' = [t \in Tabs |-> missed[t] \/ ~Reached(t)]

\* receiveDump: the counting INSERT of AddDebugDump.  Over the cap the script
\* is told "ok" and nothing is announced; a busy database is an error 500.
AddDump(p) ==
  /\ post[p].pc = "new"
  /\ "parallel" \in Faults \/ \A q \in Posts : post[q].pc # "stored"
  /\ \/ /\ HasRoom
        /\ table' = table \cup {[id |-> NextId, post |-> p]}
        /\ lastId' = NextId
        /\ post' = [post EXCEPT ![p] = [pc |-> "stored", id |-> NextId]]
     \/ /\ ~HasRoom \/ "busy" \in Faults
        /\ post' = [post EXCEPT ![p].pc = "done"]
        /\ UNCHANGED <<table, lastId>>
  /\ UNCHANGED <<token, tabVars, chan, missed>>

PublishCreated(p) ==
  /\ post[p].pc = "stored"
  /\ Announce([type |-> "dump.created", id |-> post[p].id])
  /\ post' = [post EXCEPT ![p].pc = "done"]
  /\ UNCHANGED <<table, lastId, token, tabVars>>

\* The rows a request deletes.
Doomed(call) ==
  CASE call.kind = "all"    -> table
    [] call.kind = "before" -> {d \in table : d.id < call.id}
    [] OTHER                -> {d \in table : d.id = call.id}

\* serveDumpsClear, serveDumpsClearBefore, serveDumpRoute: token, one DELETE,
\* and what the number of rows decides.  An answer that is no success rejects
\* the coroutine, which then reloads nothing.
HandleDelete(t, k) ==
  LET call == calls[t][k]
      hit  == Doomed(call) # {}
  IN /\ call.pc = "sent"
     /\ IF tab[t].token # token
        THEN /\ calls' = [calls EXCEPT ![t][k] = FreeCall]
             /\ UNCHANGED table
        ELSE /\ table' = table \ Doomed(call)
             /\ calls' = [calls EXCEPT ![t][k] =
                  IF call.kind = "one" /\ ~hit THEN FreeCall
                  ELSE [@ EXCEPT !.pc = IF call.kind = "all" \/ hit THEN "mutated"
                                        ELSE "answered"]]
     /\ UNCHANGED <<lastId, token, post, tab, chan, asked, answers, missed>>

\* The same handlers when the DELETE itself fails: error 500, nothing deleted
\* and nothing announced.  The auto-clear coroutine stood in for the load that
\* handleEvent left out, so the tab misses the dumps it was told of.
DeleteFails(t, k) ==
  /\ "busy" \in Faults
  /\ calls[t][k].pc = "sent" /\ tab[t].token = token
  /\ calls' = [calls EXCEPT ![t][k] = FreeCall]
  /\ missed' = [missed EXCEPT ![t] = @ \/ k = "auto"]
  /\ UNCHANGED <<table, lastId, token, post, tab, chan, asked, answers>>

PublishCleared(t, k) ==
  /\ calls[t][k].pc = "mutated"
  /\ Announce([type |-> "debug.cleared", id |-> None])
  /\ calls' = [calls EXCEPT ![t][k].pc = "answered"]
  /\ UNCHANGED <<table, lastId, token, post, tab, asked, answers>>

\* Mutant: an answer nobody asked for.
ReadListUnasked(t) ==
  /\ Len(answers[t]) < MaxLoads
  /\ asked' = [asked EXCEPT ![t] = @ - 1]
  /\ answers' = [answers EXCEPT ![t] = Append(@, table)]
  /\ missed' = [missed EXCEPT ![t] = FALSE]
  /\ UNCHANGED <<table, lastId, token, post, tab, calls, chan>>

\* serveDumpsList.
ReadList(t) ==
  /\ asked[t] > 0
  /\ asked' = [asked EXCEPT ![t] = @ - 1]
  /\ answers' = [answers EXCEPT ![t] = Append(@, table)]
  /\ missed' = [missed EXCEPT ![t] = FALSE]
  /\ UNCHANGED <<table, lastId, token, post, tab, calls, chan>>

\* serveDumpsList when the SELECT fails: error 500, and loadDumps leaves the list
\* of the tab as it was.  Nobody tries again.
ListFails(t) ==
  /\ "busy" \in Faults
  /\ asked[t] > 0
  /\ asked' = [asked EXCEPT ![t] = @ - 1]
  /\ missed' = [missed EXCEPT ![t] = TRUE]
  /\ UNCHANGED <<table, lastId, token, post, tab, calls, chan, answers>>

\* The daemon ends and another one starts: handlers, requests and connections
\* are gone, the table stays, the token is a new one.
Restart ==
  /\ token <= MaxRestarts
  /\ token' = token + 1
  /\ post' = [p \in Posts |-> IF post[p].pc = "stored" THEN [post[p] EXCEPT !.pc = "done"]
                              ELSE post[p]]
  /\ calls' = [t \in Tabs |-> [k \in Slots |-> FreeCall]]
  /\ asked' = [t \in Tabs |-> 0]
  /\ chan' = [t \in Tabs |-> <<>>]
  /\ tab' = [t \in Tabs |-> [tab[t] EXCEPT !.live = FALSE]]
  /\ missed' = [t \in Tabs |-> TRUE]
  /\ UNCHANGED <<table, lastId, answers>>

-----------------------------------------------------------------------------
(* A tab *)

Loading(t) == asked[t] + Len(answers[t])

CanLoad(t) == Loading(t) < MaxLoads

\* connectEvents, and its retry a second after the socket closes, which loads
\* nothing.
Connect(t) ==
  /\ ~tab[t].live
  /\ tab' = [tab EXCEPT ![t].live = TRUE]
  /\ UNCHANGED <<table, lastId, token, post, calls, chan, asked, answers, missed>>

Disconnect(t) ==
  /\ "disconnect" \in Faults
  /\ tab[t].live
  /\ tab' = [tab EXCEPT ![t].live = FALSE]
  /\ chan' = [chan EXCEPT ![t] = <<>>]
  /\ missed' = [missed EXCEPT ![t] = @ \/ chan[t] # <<>>]
  /\ UNCHANGED <<table, lastId, token, post, calls, asked, answers>>

\* boot: the token of the daemon, once, and the first load.
Boot(t) ==
  /\ ~tab[t].booted
  /\ tab' = [tab EXCEPT ![t].booted = TRUE, ![t].token = token]
  /\ asked' = [asked EXCEPT ![t] = @ + 1]
  /\ UNCHANGED <<table, lastId, token, post, calls, chan, answers, missed>>

\* Mutant: the largest id.
Latest(pending, id) == IF id > pending THEN id ELSE pending

\* scheduleAutoClear keeps the smallest id announced since the timer last
\* fired; 0 stands for null.
Earliest(pending, id) == IF pending = None \/ id < pending THEN id ELSE pending

\* handleEvent.
HandleEvent(t) ==
  /\ chan[t] # <<>>
  /\ LET e == Head(chan[t])
     IN IF e.type = "dump.created" /\ tab[t].auto
        THEN /\ tab' = [tab EXCEPT ![t].pending = Earliest(@, e.id),
                                   ![t].burst = @ \cup {e.id},
                                   ![t].timer = TRUE]
             /\ UNCHANGED asked
        ELSE /\ CanLoad(t)
             /\ asked' = [asked EXCEPT ![t] = @ + 1]
             /\ UNCHANGED tab
  /\ chan' = [chan EXCEPT ![t] = Tail(@)]
  /\ UNCHANGED <<table, lastId, token, post, calls, answers, missed>>

\* The callback of the auto-clear timer.
TimerFires(t) ==
  /\ tab[t].timer
  /\ calls[t]["auto"].pc = "free"
  /\ calls' = [calls EXCEPT ![t]["auto"] =
       [pc |-> "sent", kind |-> "before", id |-> tab[t].pending, burst |-> tab[t].burst]]
  /\ tab' = [tab EXCEPT ![t].timer = FALSE, ![t].pending = None, ![t].burst = {}]
  /\ UNCHANGED <<table, lastId, token, post, chan, asked, answers, missed>>

\* clearCurrentDumps and deleteCurrentDump.
UserDelete(t) ==
  /\ tab[t].booted
  /\ calls[t]["user"].pc = "free"
  /\ \E call \in {[kind |-> "all", id |-> None]}
               \cup {[kind |-> "one", id |-> d.id] : d \in tab[t].list} :
       calls' = [calls EXCEPT ![t]["user"] =
         [pc |-> "sent", kind |-> call.kind, id |-> call.id, burst |-> {}]]
  /\ UNCHANGED <<table, lastId, token, post, tab, chan, asked, answers, missed>>

\* Mutant: the list is not loaded again after a deletion.
ReloadForgotten(t, k) ==
  /\ calls[t][k].pc = "answered"
  /\ calls' = [calls EXCEPT ![t][k] = FreeCall]
  /\ UNCHANGED <<table, lastId, token, post, tab, chan, asked, answers, missed>>

\* The awaited deletion has succeeded: loadDumps.
Reload(t, k) ==
  /\ calls[t][k].pc = "answered"
  /\ CanLoad(t)
  /\ calls' = [calls EXCEPT ![t][k] = FreeCall]
  /\ asked' = [asked EXCEPT ![t] = @ + 1]
  /\ UNCHANGED <<table, lastId, token, post, tab, chan, answers, missed>>

\* loadDumps, after its await: the list is replaced by the answer, which may
\* have overtaken an older one on another connection.
ApplyList(t) ==
  \E i \in 1..Len(answers[t]) :
    /\ i = 1 \/ "reorder" \in Faults
    /\ tab' = [tab EXCEPT ![t].list = answers[t][i]]
    /\ answers' = [answers EXCEPT ![t] =
         SubSeq(@, 1, i - 1) \o SubSeq(@, i + 1, Len(@))]
    /\ UNCHANGED <<table, lastId, token, post, calls, chan, asked, missed>>

\* Mutant: switching over cancels the timer.
SetAutoClearCancels(t) ==
  /\ tab' = [tab EXCEPT ![t].auto = ~@, ![t].timer = FALSE, ![t].pending = None,
                        ![t].burst = {}]
  /\ UNCHANGED <<table, lastId, token, post, calls, chan, asked, answers, missed>>

\* setAutoClearDumps; a pending timer is left alone.
SetAutoClear(t) ==
  /\ tab' = [tab EXCEPT ![t].auto = ~@]
  /\ UNCHANGED <<table, lastId, token, post, calls, chan, asked, answers, missed>>

ServerStep ==
  \/ \E p \in Posts : AddDump(p) \/ PublishCreated(p)
  \/ \E t \in Tabs, k \in Slots : HandleDelete(t, k) \/ DeleteFails(t, k) \/ PublishCleared(t, k)
  \/ \E t \in Tabs : ReadList(t) \/ ListFails(t)

TabStep(t) ==
  \/ Connect(t) \/ Boot(t) \/ HandleEvent(t) \/ TimerFires(t) \/ ApplyList(t)
  \/ \E k \in Slots : Reload(t, k)

UserStep(t) == UserDelete(t) \/ SetAutoClear(t)

Next ==
  \/ ServerStep
  \/ Restart
  \/ \E t \in Tabs : TabStep(t) \/ UserStep(t) \/ Disconnect(t)

Spec == Init /\ [][Next]_vars

\* Handlers finish, tabs react.  Nothing is assumed of users and networks.
Fairness ==
  /\ \A p \in Posts : WF_vars(PublishCreated(p))
  /\ \A t \in Tabs :
       /\ WF_vars(ReadList(t)) /\ WF_vars(Connect(t)) /\ WF_vars(Boot(t))
       /\ SF_vars(HandleEvent(t)) /\ SF_vars(TimerFires(t)) /\ WF_vars(ApplyList(t))
       /\ \A k \in Slots : /\ WF_vars(HandleDelete(t, k)) /\ WF_vars(PublishCleared(t, k))
                           /\ SF_vars(Reload(t, k))

FairSpec == Spec /\ Fairness

-----------------------------------------------------------------------------
(* Properties *)

(***************************************************************************)
(* The hard cap of the table holds although it is checked by each INSERT   *)
(* on its own and scripts post in parallel, and a row that is stored has   *)
(* an id above all ids before it, deleted ones included.                   *)
(***************************************************************************)
CapHolds ==
  /\ Cardinality(table) <= Cap
  /\ \A d \in table : d.id <= lastId

\* What a tab shows or is about to show.
Shown(t) == tab[t].list \cup UNION {answers[t][i] : i \in DOMAIN answers[t]}

(***************************************************************************)
(* A row id seen anywhere keeps its meaning: a tab that deletes the dump   *)
(* it shows, however stale its list, deletes that dump or nothing.         *)
(***************************************************************************)
IdsKeepTheirMeaning ==
  \A t \in Tabs : \A d \in Shown(t), e \in table : d.id = e.id => d = e

\* The tab has dealt with everything it was told and has no request under way.
Settled(t) ==
  /\ \A k \in Slots : calls[t][k].pc = "free"
  /\ ~tab[t].timer /\ chan[t] = <<>> /\ Loading(t) = 0

\* Nothing is under way that could still change what the tab shows, a page of
\* this run of the daemon.
Quiet(t) ==
  /\ tab[t].booted /\ tab[t].token = token
  /\ \A p \in Posts : post[p].pc # "stored"
  /\ \A u \in Tabs, k \in Slots : calls[u][k].pc = "free"
  /\ Settled(t)

(***************************************************************************)
(* A tab that has missed nothing since the server last read the table for  *)
(* it shows the table as soon as everything has settled: every change is   *)
(* announced after it is stored, and every announcement leads to a read,   *)
(* through "Auto clear" too.  A tab has missed something when an event was *)
(* lost to it, or when the database failed the list it asked for or the    *)
(* DELETE of "Auto clear": the UI tries neither again, and stays stale     *)
(* until the next event.  A failed deletion of the user changes nothing.   *)
(***************************************************************************)
QuietMeansFresh == \A t \in Tabs : Quiet(t) /\ ~missed[t] => tab[t].list = table

\* Dumps of which the tab will still be told.
ToBeAnnounced(t) ==
  {post[p].id : p \in {q \in Posts : post[q].pc = "stored"}}
    \cup {chan[t][i].id : i \in {j \in DOMAIN chan[t] : chan[t][j].type = "dump.created"}}

(***************************************************************************)
(* "Auto clear" removes what is older than the latest burst of dumps: it   *)
(* never removes a dump of the burst it reacts to, nor one the tab has     *)
(* still to hear of.                                                       *)
(***************************************************************************)
AutoClearSparesNews ==
  [][\A t \in Tabs :
       calls[t]["auto"].pc = "sent" /\ calls'[t]["auto"].pc = "mutated" =>
         \A d \in table \ table' : d.id \notin calls[t]["auto"].burst \cup ToBeAnnounced(t)]_vars

(***************************************************************************)
(* A dump whose announcement has reached a tab is shown there in the end,  *)
(* or it has been deleted, or the tab has lost its connection or is a page *)
(* of an earlier run of the daemon, or it has come to rest with the list   *)
(* or the DELETE that the announcement led to failed by the database.      *)
(***************************************************************************)
AnnouncedIsShown ==
  \A t \in Tabs, n \in 1..Cardinality(Posts) :
    (\E i \in DOMAIN chan[t] : chan[t][i] = [type |-> "dump.created", id |-> n])
      ~> \/ \E d \in tab[t].list : d.id = n
         \/ ~\E d \in table : d.id = n
         \/ ~tab[t].live \/ tab[t].token # token
         \/ Settled(t) /\ missed[t]
=============================================================================
