----------------------------- MODULE MailCapture -----------------------------
(***************************************************************************)
(* Captured mail: SMTP sessions that parse a message, attribute it to a    *)
(* linked project and store it; the mail API; `herdlite mail clear`; and   *)
(* the mail view of the open tabs of the UI.                               *)
(*                                                                         *)
(* A session reads the projects, stores the message and answers in three   *)
(* steps.  The handlers of the API touch the store and publish, or read    *)
(* the message and then its attachments, in two.  A tab selects a message  *)
(* before its detail has arrived.                                          *)
(*                                                                         *)
(* Abstractions: an address is the name of the site of its domain, or      *)
(* Unknown; a message either has attachments or has none; a site has the   *)
(* name of its project; the MIME decoding, the way of an event (EventHub)  *)
(* and the badge that counts unseen mail are left out.                     *)
(***************************************************************************)
EXTENDS Naturals, Sequences, FiniteSets

CONSTANTS
  Sessions,    \* SMTP connections
  Tabs,        \* open tabs of the UI
  Paths,       \* directories that may be linked
  Names,       \* names of projects
  Recipients,  \* envelope recipients
  MaxRcpt,     \* smtpServer.MaxRecipients, 100 in the code
  Attached,    \* subset of BOOLEAN: whether messages have attachments
  Buffer,      \* events that can wait for a tab
  MaxMails,    \* bound: messages that are sent
  MaxRequests, \* bound: requests of a tab that are under way
  Faults       \* subset of AllFaults: what may go wrong in this instance

AllFaults == {"fail", "crash", "reorder", "reuse"}

Unknown == "Unknown Project"

ASSUME MailAssumption ==
  /\ Attached \subseteq BOOLEAN
  /\ MaxRcpt \in Nat \ {0} /\ Buffer \in Nat \ {0}
  /\ MaxMails \in Nat /\ MaxRequests \in Nat \ {0}
  /\ Names \cap {Unknown, "all", "none"} = {}
  /\ Faults \subseteq AllFaults

VARIABLES
  project, \* name under which a directory is linked, Unknown if it is not
  box,     \* every message ever stored, at its id
  rows,    \* ids in mail_messages
  atts,    \* ids of the messages whose attachments are in mail_attachments
  smtp,    \* the session of every connection
  told,    \* history: whom the client named for each message it sent: in its
           \* envelope since the last MAIL or, if nobody, in its headers
  clear,   \* `herdlite mail clear`, waiting for an answer to its question
  tab,     \* mail view of every tab
  reqs,    \* its requests, in the order they were sent
  pend,    \* events on their way to it
  lost     \* history: since its last read of the list a tab has lost an event
           \* or a request, or was not told of a change

projects == <<project>>
store    == <<box, rows, atts>>
sending  == <<smtp, told>>
views    == <<tab, reqs, pend, lost>>
vars     == <<projects, store, sending, clear, views>>

Sites == Names \cup {Unknown}
Ids   == DOMAIN box

\* The transaction of an SMTP session (from, recipients) and how far its DATA
\* is; got: the recipients the SMTP library counts for it, which a second MAIL
\* leaves; own: history, the recipients its client named since the last MAIL.
NewSession == [at |-> "ready", from |-> Unknown, rcpt |-> <<>>, own |-> <<>>, got |-> 0,
               project |-> Unknown, owner |-> Unknown, has |-> FALSE, tx |-> 0]

SessionState == [at : {"ready", "mail", "parsed", "stored"}, from : Sites,
                 rcpt : Seq(Recipients), own : Seq(Recipients), got : 0..MaxRcpt,
                 project : Sites, owner : Paths \cup {Unknown}, has : BOOLEAN,
                 tx : 0..MaxMails]

\* owner: history, the directory whose project the message was attributed to.
Message == [project : Sites, rcpt : Seq(Recipients), has : BOOLEAN,
            owner : Paths \cup {Unknown}, tx : 1..MaxMails]

NewTab == [mail |-> TRUE, list |-> {}, sel |-> 0, route |-> 0, shown |-> 0,
           whole |-> TRUE]

TabState == [mail : BOOLEAN, list : SUBSET Ids, sel : 0..MaxMails,
             route : 0..MaxMails, shown : 0..MaxMails, whole : BOOLEAN]

Request(op, id, push) ==
  [op |-> op, id |-> id, push |-> push, at |-> "sent", ok |-> FALSE,
   whole |-> TRUE, ids |-> {}]

RequestState == [op : {"list", "detail", "delete", "clear"}, id : 0..MaxMails,
                 push : BOOLEAN, at : {"sent", "half", "done"}, ok : BOOLEAN,
                 whole : BOOLEAN, ids : SUBSET Ids]

NoClear == [filter |-> "none", owner |-> Unknown]

TypeOK ==
  /\ project \in [Paths -> Sites]
  /\ \A p, q \in Paths : project[p] = project[q] => p = q \/ project[p] = Unknown
  /\ Len(box) <= MaxMails /\ \A i \in Ids : box[i] \in Message
  /\ rows \subseteq Ids
  /\ atts \subseteq rows
  /\ smtp \in [Sessions -> SessionState]
  /\ \A n \in DOMAIN told : told[n] \in Seq(Recipients)
  /\ clear \in [filter : Names \cup {"none"}, owner : Paths \cup {Unknown}]
  /\ tab \in [Tabs -> TabState]
  /\ \A t \in Tabs : \A i \in DOMAIN reqs[t] : reqs[t][i] \in RequestState
  /\ pend \in [Tabs -> 0..Buffer] /\ lost \in [Tabs -> BOOLEAN]

LoadMail == Request("list", 0, FALSE)

Init ==
  /\ project = [p \in Paths |-> Unknown]
  /\ box = <<>> /\ rows = {} /\ atts = {}
  /\ smtp = [s \in Sessions |-> NewSession]
  /\ told = <<>>
  /\ clear = NoClear
  /\ tab = [t \in Tabs |-> NewTab]
  /\ reqs = [t \in Tabs |-> <<LoadMail>>]
  /\ pend = [t \in Tabs |-> 0]
  /\ lost = [t \in Tabs |-> FALSE]

-----------------------------------------------------------------------------
(* Projects: what the mail code sees of link, which names a directory or gives
   it another name; no command takes a project away again *)

\* Somebody still holds the name for another directory.
Remembered(n, p) ==
  \/ \E i \in Ids : box[i].project = n /\ box[i].owner # p
  \/ \E s \in Sessions : smtp[s].project = n /\ smtp[s].owner # p
  \/ clear.filter = n /\ clear.owner # p

Link(p, n) ==
  /\ \A q \in Paths : project[q] # n
  /\ "reuse" \in Faults \/ ~Remembered(n, p)
  /\ project' = [project EXCEPT ![p] = n]
  /\ UNCHANGED <<store, sending, clear, views>>

Owner(n) ==
  IF \E p \in Paths : project[p] = n /\ n # Unknown
    THEN CHOOSE p \in Paths : project[p] = n
    ELSE Unknown

-----------------------------------------------------------------------------
(* The store *)

\* Mutant: without the transaction; the attachments fail after the message.
AddUnwrapped(message) ==
  /\ box' = Append(box, message)
  /\ rows' = rows \cup {Len(box) + 1}
  /\ UNCHANGED atts

AddMailMessage(message) ==
  LET id == Len(box) + 1 IN
    /\ box' = Append(box, message)
    /\ rows' = rows \cup {id}
    /\ atts' = IF message.has THEN atts \cup {id} ELSE atts

\* Mutant: foreign keys are off, as they are unless the connection says so.
RemoveRows(ids) ==
  /\ rows' = rows \ ids
  /\ UNCHANGED <<box, atts>>

\* DELETE FROM mail_messages; the attachments go with their message.
Remove(ids) ==
  /\ rows' = rows \ ids
  /\ atts' = atts \ ids
  /\ UNCHANGED box

\* Mutant: the name of the project is not in the filter, which is then all mail.
AnyWhere(filter) ==
  IF filter = Unknown THEN {i \in rows : box[i].project = Unknown} ELSE rows

\* The rows of a MailFilter.
MailWhere(filter) ==
  IF filter = "all" THEN rows ELSE {i \in rows : box[i].project = filter}

\* An event that finds the channel of a tab full is dropped; as the mail view
\* reads nothing but its type, those before it serve as well.
Publish == pend' = [t \in Tabs |-> IF pend[t] < Buffer THEN pend[t] + 1 ELSE pend[t]]

-----------------------------------------------------------------------------
(* SMTP *)

\* Mutant: a second MAIL in a session keeps the recipients of the first.
MailKeepsRecipients(s, from) ==
  smtp' = [smtp EXCEPT ![s].at = "mail", ![s].from = from, ![s].own = <<>>]

Mail(s, from) ==
  smtp' = [smtp EXCEPT ![s].at = "mail", ![s].from = from, ![s].rcpt = <<>>,
                       ![s].own = <<>>]

MailCommand(s) ==
  /\ smtp[s].at \in {"ready", "mail"} /\ Len(told) < MaxMails
  /\ \E from \in Sites : Mail(s, from)
  /\ UNCHANGED <<projects, store, told, clear, views>>

Rcpt(s) ==
  /\ smtp[s].at = "mail" /\ smtp[s].got < MaxRcpt
  /\ \E r \in Recipients :
       smtp' = [smtp EXCEPT ![s].rcpt = Append(@, r), ![s].own = Append(@, r),
                            ![s].got = @ + 1]
  /\ UNCHANGED <<projects, store, told, clear, views>>

\* RSET, and what the SMTP library does when a connection ends and after DATA.
Reset(s) ==
  /\ smtp[s].at = "mail"
  /\ smtp' = [smtp EXCEPT ![s] = NewSession]
  /\ UNCHANGED <<projects, store, told, clear, views>>

\* The addresses by which a message finds its project and those it is stored
\* for.  Without a From header the sender is that of the envelope, without
\* envelope recipients they are those of To, Cc and Bcc.
ParseMessage(header, replyTo, to, from, rcpt) ==
  [candidates |-> <<IF header = "none" THEN from ELSE header, replyTo, from>>,
   rcpt       |-> IF rcpt = <<>> THEN to ELSE rcpt]

\* Addresses of To, Cc and Bcc: none, or one.
HeaderRecipients == {<<>>} \cup {<<r>> : r \in Recipients}

\* The first of the addresses whose domain is a linked site.
DetectProjectName(candidates) ==
  LET linked(c) == c # Unknown /\ \E p \in Paths : project[p] = c
      hits == {i \in DOMAIN candidates : linked(candidates[i])} IN
  IF hits = {} THEN Unknown
  ELSE candidates[CHOOSE i \in hits : \A j \in hits : i <= j]

\* DATA: the message is read and parsed, and the projects are read.  The
\* library asks for a recipient, but one of before the last MAIL will do, which
\* the session has forgotten.
Data(s) ==
  /\ smtp[s].at = "mail" /\ smtp[s].got > 0 /\ Len(told) < MaxMails
  /\ \E header \in Sites \cup {"none"}, replyTo \in Sites,
        to \in HeaderRecipients, has \in Attached :
       LET parsed == ParseMessage(header, replyTo, to, smtp[s].from, smtp[s].rcpt)
           name   == DetectProjectName(parsed.candidates) IN
         /\ told' = Append(told, IF smtp[s].own = <<>> THEN to ELSE smtp[s].own)
         /\ smtp' = [smtp EXCEPT ![s] =
                       [NewSession EXCEPT !.at = "parsed", !.rcpt = parsed.rcpt,
                          !.project = name, !.owner = Owner(name), !.has = has,
                          !.tx = Len(told) + 1]]
  /\ UNCHANGED <<projects, store, clear, views>>

\* The message is stored, in one transaction.
Store(s) ==
  /\ smtp[s].at = "parsed"
  /\ AddMailMessage([project |-> smtp[s].project, rcpt |-> smtp[s].rcpt,
                     has |-> smtp[s].has, owner |-> smtp[s].owner,
                     tx |-> smtp[s].tx])
  /\ smtp' = [smtp EXCEPT ![s].at = "stored"]
  /\ UNCHANGED <<projects, told, clear, views>>

\* A message that cannot be read to its end, parsed or stored is refused.
Refuse(s) ==
  /\ smtp[s].at = "parsed"
  /\ smtp' = [smtp EXCEPT ![s] = NewSession]
  /\ UNCHANGED <<projects, store, told, clear, views>>

\* Mutant: the message is answered before it is stored, by a goroutine.
AnsweredEarly(s) == smtp[s].at \in {"parsed", "stored"}

Answered(s) == smtp[s].at = "stored"

\* mail.created is published, and the client told that its message is accepted.
Accept(s) ==
  /\ Answered(s)
  /\ smtp' = [smtp EXCEPT ![s] = NewSession]
  /\ Publish
  /\ UNCHANGED <<projects, store, told, clear, tab, reqs, lost>>

-----------------------------------------------------------------------------
(* herdlite mail clear *)

\* A project by --p or by the working directory: its name is read before the
\* question.
ClearAsk(p) ==
  /\ clear = NoClear /\ project[p] # Unknown
  /\ clear' = [filter |-> project[p], owner |-> p]
  /\ UNCHANGED <<projects, store, sending, views>>

\* The daemon is not told.
ClearMessages(filter) ==
  /\ Remove(MailWhere(filter))
  /\ lost' = [t \in Tabs |-> lost[t] \/ MailWhere(filter) # {}]
  /\ UNCHANGED <<projects, sending, tab, reqs, pend>>

ClearYes ==
  /\ clear # NoClear
  /\ ClearMessages(clear.filter)
  /\ clear' = NoClear

\* --all and --unknown, for which nothing is read beforehand.
ClearAll     == ClearMessages("all") /\ UNCHANGED clear
ClearUnknown == ClearMessages(Unknown) /\ UNCHANGED clear

ClearNo ==
  /\ clear # NoClear
  /\ clear' = NoClear
  /\ UNCHANGED <<projects, store, sending, views>>

-----------------------------------------------------------------------------
(* The mail API *)

\* The request the daemon works on next, and the answer that arrives next.
NextToServe(t, i) ==
  /\ reqs[t][i].at # "done"
  /\ "reorder" \in Faults \/ \A j \in 1..i - 1 : reqs[t][j].at = "done"

NextToArrive(t, i) ==
  /\ reqs[t][i].at = "done"
  /\ "reorder" \in Faults \/ i = 1

Half(t, i)       == reqs' = [reqs EXCEPT ![t][i].at = "half"]
Done(t, i, ok)   == reqs' = [reqs EXCEPT ![t][i].at = "done", ![t][i].ok = ok]
Sent(t, i, op)   == reqs[t][i].op = op /\ reqs[t][i].at = "sent"
Halfway(t, i, op) == reqs[t][i].op = op /\ reqs[t][i].at = "half"

\* GET /api/mail: the rows stay locked while the attachments are read.
ServeList(t, i) ==
  /\ Sent(t, i, "list")
  /\ reqs' = [reqs EXCEPT ![t][i].at = "done", ![t][i].ok = TRUE, ![t][i].ids = rows]
  /\ lost' = [lost EXCEPT ![t] = FALSE]
  /\ UNCHANGED <<store, pend>>

\* GET /api/mail/<id>: first the message, then its attachments.
ReadMessage(t, i) ==
  /\ Sent(t, i, "detail")
  /\ IF reqs[t][i].id \in rows THEN Half(t, i) ELSE Done(t, i, FALSE)
  /\ UNCHANGED <<store, pend, lost>>

ReadAttachments(t, i) ==
  LET id == reqs[t][i].id IN
    /\ Halfway(t, i, "detail")
    /\ reqs' = [reqs EXCEPT ![t][i].at = "done", ![t][i].ok = TRUE,
                            ![t][i].whole = box[id].has => id \in atts]
    /\ UNCHANGED <<store, pend, lost>>

\* DELETE /api/mail/<id>: 404 if nothing was deleted.
DeleteMail(t, i) ==
  LET id == reqs[t][i].id IN
    /\ Sent(t, i, "delete")
    /\ IF id \in rows
         THEN Remove({id}) /\ Half(t, i)
         ELSE UNCHANGED store /\ Done(t, i, FALSE)
    /\ UNCHANGED <<pend, lost>>

ClearMail(t, i) ==
  /\ Sent(t, i, "clear")
  /\ Remove(MailWhere("all"))
  /\ Half(t, i)
  /\ UNCHANGED <<pend, lost>>

\* The store fails, or the token is one of an earlier daemon: 500 or 403.
Fail(t, i) ==
  /\ "fail" \in Faults
  /\ reqs[t][i].at = "sent" \/ Halfway(t, i, "detail")
  /\ Done(t, i, FALSE)
  /\ lost' = [lost EXCEPT ![t] = @ \/ reqs[t][i].op \in {"list", "detail"}]
  /\ UNCHANGED <<store, pend>>

\* The end of both: mail.cleared is published.
AnswerCleared(t, i) ==
  /\ \E op \in {"delete", "clear"} : Halfway(t, i, op)
  /\ Publish
  /\ Done(t, i, TRUE)
  /\ UNCHANGED <<store, lost>>

\* A handler has deleted for the tab what it has not announced yet.
Deleting(t) ==
  \E i \in DOMAIN reqs[t], op \in {"delete", "clear"} : Halfway(t, i, op)

Serve(t) ==
  /\ \E i \in DOMAIN reqs[t] :
       /\ NextToServe(t, i)
       /\ \/ ServeList(t, i)
          \/ ReadMessage(t, i) \/ ReadAttachments(t, i)
          \/ DeleteMail(t, i) \/ ClearMail(t, i)
          \/ AnswerCleared(t, i) \/ Fail(t, i)
  /\ UNCHANGED <<projects, sending, clear, tab>>

-----------------------------------------------------------------------------
(* The mail view of a tab *)

Max0(ids) == IF ids = {} THEN 0 ELSE CHOOSE i \in ids : \A j \in ids : j <= i

Without(seq, i) == SubSeq(seq, 1, i - 1) \o SubSeq(seq, i + 1, Len(seq))

\* Mutant: the message of the address bar is not looked up in the list.
SelectByRoute(view, ids) ==
  IF ids = {} THEN 0 ELSE IF view.route # 0 THEN view.route
  ELSE IF view.sel \in ids THEN view.sel ELSE Max0(ids)

\* The message that loadMail selects: the one of the address bar if it is in
\* the list, else the selected one, else the newest.
Selection(view, ids) ==
  IF view.route \in ids THEN view.route
  ELSE IF view.sel \in ids THEN view.sel ELSE Max0(ids)

\* loadMail has the list: it selects a message and asks for its detail.
ListArrives(t, i) ==
  LET ids == reqs[t][i].ids
      sel == Selection(tab[t], ids) IN
    /\ reqs[t][i].op = "list" /\ reqs[t][i].ok
    /\ tab' = [tab EXCEPT ![t].list = ids, ![t].sel = sel,
                          ![t].shown = IF ids = {} THEN 0 ELSE @]
    /\ reqs' = [reqs EXCEPT ![t] = Without(@, i) \o
                  IF ids = {} THEN <<>> ELSE <<Request("detail", sel, FALSE)>>]

\* A load that failed ends there.
LoadFails(t, i) ==
  /\ reqs[t][i].op = "list" /\ ~reqs[t][i].ok
  /\ reqs' = [reqs EXCEPT ![t] = Without(@, i)]
  /\ UNCHANGED tab

\* selectMail has the detail; a click goes into the history only now.
DetailArrives(t, i) ==
  LET r == reqs[t][i] IN
    /\ r.op = "detail"
    /\ tab' = IF r.ok THEN [tab EXCEPT ![t].shown = r.id, ![t].whole = r.whole,
                                       ![t].route = IF r.push THEN r.id ELSE @]
              ELSE tab
    /\ reqs' = [reqs EXCEPT ![t] = Without(@, i)]

\* deleteCurrentMail and clearCurrentMail go on; a refusal ends them.
DeleteArrives(t, i) ==
  LET r == reqs[t][i] IN
    /\ r.op \in {"delete", "clear"}
    /\ tab' = IF r.ok /\ (r.op = "clear" \/ tab[t].sel = r.id)
                THEN [tab EXCEPT ![t].sel = 0, ![t].shown = 0] ELSE tab
    /\ reqs' = [reqs EXCEPT ![t] = Without(@, i) \o IF r.ok THEN <<LoadMail>> ELSE <<>>]

Arrive(t) ==
  /\ \E i \in DOMAIN reqs[t] :
       /\ NextToArrive(t, i)
       /\ ListArrives(t, i) \/ LoadFails(t, i) \/ DetailArrives(t, i) \/ DeleteArrives(t, i)
  /\ UNCHANGED <<projects, store, sending, clear, pend, lost>>

Ask(t, request) == reqs' = [reqs EXCEPT ![t] = Append(@, request)]
Room(t)         == Len(reqs[t]) < MaxRequests

HandleEvent(t) ==
  /\ pend[t] > 0 /\ Room(t)
  /\ pend' = [pend EXCEPT ![t] = @ - 1]
  /\ IF tab[t].mail THEN Ask(t, LoadMail) ELSE UNCHANGED reqs
  /\ UNCHANGED <<projects, store, sending, clear, tab, lost>>

\* The user clicks on a message of the list.
SelectMail(t) ==
  /\ tab[t].mail /\ Room(t)
  /\ \E id \in tab[t].list :
       tab' = [tab EXCEPT ![t].sel = id] /\ Ask(t, Request("detail", id, TRUE))
  /\ UNCHANGED <<projects, store, sending, clear, pend, lost>>

\* Delete in the context menu of a message, or the button that clears all.
DeleteClicked(t) ==
  /\ tab[t].mail /\ Room(t)
  /\ \/ \E id \in tab[t].list : Ask(t, Request("delete", id, FALSE))
     \/ Ask(t, Request("clear", 0, FALSE))
  /\ UNCHANGED <<projects, store, sending, clear, tab, pend, lost>>

\* The user goes to another view, or to the mail view with the message that an
\* earlier address or `herdlite mail open` names.
Navigate(t) ==
  /\ Room(t)
  /\ \/ /\ tab[t].mail
        /\ tab' = [tab EXCEPT ![t].mail = FALSE, ![t].route = 0]
        /\ UNCHANGED reqs
     \/ \E id \in {0} \cup Ids :
          /\ tab' = [tab EXCEPT ![t].mail = TRUE, ![t].route = id]
          /\ Ask(t, LoadMail)
  /\ UNCHANGED <<projects, store, sending, clear, pend, lost>>

\* The page is loaded anew: boot asks for the token and the list.  A handler
\* that is halfway publishes though its page is gone, here just before.
Reload(t) ==
  /\ lost[t] /\ ~Deleting(t)
  /\ tab' = [tab EXCEPT ![t] = [NewTab EXCEPT !.mail = tab[t].mail, !.route = tab[t].route]]
  /\ reqs' = [reqs EXCEPT ![t] = <<LoadMail>>]
  /\ pend' = [pend EXCEPT ![t] = 0]
  /\ UNCHANGED <<projects, store, sending, clear, lost>>

\* The daemon dies and is started anew: sessions, requests and events are gone.
Crash ==
  /\ "crash" \in Faults
  /\ smtp' = [s \in Sessions |-> NewSession]
  /\ reqs' = [t \in Tabs |-> <<>>]
  /\ pend' = [t \in Tabs |-> 0]
  /\ lost' = [t \in Tabs |-> TRUE]
  /\ UNCHANGED <<projects, store, told, clear, tab>>

Next ==
  \/ \E p \in Paths, n \in Names : Link(p, n)
  \/ \E s \in Sessions : MailCommand(s) \/ Rcpt(s) \/ Reset(s) \/ Data(s)
                         \/ Store(s) \/ Refuse(s) \/ Accept(s)
  \/ \E p \in Paths : ClearAsk(p)
  \/ ClearYes \/ ClearNo \/ ClearAll \/ ClearUnknown
  \/ \E t \in Tabs : Serve(t) \/ Arrive(t) \/ HandleEvent(t) \/ SelectMail(t)
                     \/ DeleteClicked(t) \/ Navigate(t) \/ Reload(t)
  \/ Crash

Spec == Init /\ [][Next]_vars

-----------------------------------------------------------------------------
(* Properties *)

\* A client is told that its message is accepted only after it was stored, once
\* and for those it named since the last MAIL, or for those of its headers if it
\* named nobody since: no crash comes between, and nothing is carried over from
\* an earlier transaction of the session (session.Mail, session.Data,
\* ParseMessage).
AcceptedIsStoredAsSent ==
  [][\A s \in Sessions : Accept(s) =>
       \E i \in Ids : /\ box[i].tx = smtp[s].tx
                      /\ box[i].rcpt = told[box[i].tx]
                      /\ \A j \in Ids : box[j].tx = box[i].tx => j = i]_vars

\* Messages leave the store only for somebody who asked for it: a tab that
\* deletes the message or clears the mailbox, or a clear on the command line,
\* which takes another project's mail only with --all (runMailClear,
\* serveMailDelete, serveMailClear).  Names must not be given to another
\* directory while mail or a question is left under them ("reuse").
Requested(i) ==
  \/ \E t \in Tabs : \E k \in DOMAIN reqs[t] :
       \/ Sent(t, k, "delete") /\ reqs[t][k].id = i
       \/ Sent(t, k, "clear")
  \/ clear # NoClear /\ clear.owner = box[i].owner
  \/ ClearUnknown /\ box[i].owner = Unknown
  \/ ClearAll

MailGoesOnRequest == [][\A i \in rows \ rows' : Requested(i)]_vars

\* A message is shown without its attachments only if it was deleted while it
\* was read (Store.MailMessage reads the two tables one after the other,
\* Store.AddMailMessage writes them in one transaction).
DetailIsWholeOrGone ==
  \A t \in Tabs : tab[t].shown \in rows => tab[t].whole

\* Nothing is under way that would change what the tab shows.
AtRest(t) ==
  /\ tab[t].mail /\ reqs[t] = <<>> /\ pend[t] = 0 /\ ~lost[t]
  /\ \A s \in Sessions : smtp[s].at # "stored"
  /\ \A u \in Tabs : ~Deleting(u)

\* A mail view at rest lists the mailbox and shows the message it marks as
\* selected, which is in the store (loadMail, selectMail, handleEvent and the
\* events of the API).
RestShowsTheMailbox ==
  \A t \in Tabs : AtRest(t) =>
    /\ tab[t].list = rows
    /\ tab[t].shown = tab[t].sel
    /\ rows # {} => tab[t].sel \in rows
=============================================================================
