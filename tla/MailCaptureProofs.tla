------------------------- MODULE MailCaptureProofs --------------------------
(***************************************************************************)
(* Proofs about MailCapture, for any sessions, tabs, projects and bounds.  *)
(***************************************************************************)
EXTENDS MailCapture, FiniteSetTheorems, SequenceTheorems,
        WellFoundedInduction, TLAPS

(* Sending *)

\* Who is past DATA.
Past(s) == smtp[s].at \in {"parsed", "stored"}

SendTyped ==
  /\ project \in [Paths -> Sites]
  /\ clear \in [filter : Names \cup {"none"}, owner : Paths \cup {Unknown}]
  /\ smtp \in [Sessions -> SessionState]
  /\ told \in Seq(Seq(Recipients)) /\ Len(told) <= MaxMails
  /\ box \in Seq(Message)

\* A transaction past DATA, or stored, has the recipients its client named: the
\* session's own list is that of the last MAIL, whatever the library counts, ..
Named ==
  /\ \A s \in Sessions : smtp[s].at = "mail" => smtp[s].rcpt = smtp[s].own
  /\ \A s \in Sessions : Past(s) => smtp[s].tx \in DOMAIN told /\ smtp[s].rcpt = told[smtp[s].tx]
  /\ \A i \in Ids : box[i].tx \in DOMAIN told /\ box[i].rcpt = told[box[i].tx]

\* .. is that of one session, and stored once, which "stored" says.
Once ==
  /\ \A s, r \in Sessions : Past(s) /\ Past(r) /\ smtp[s].tx = smtp[r].tx => s = r
  /\ \A i, j \in Ids : box[i].tx = box[j].tx => i = j
  /\ \A s \in Sessions : smtp[s].at = "parsed" => \A i \in Ids : box[i].tx # smtp[s].tx
  /\ \A s \in Sessions : smtp[s].at = "stored" => \E i \in Ids : box[i].tx = smtp[s].tx

SendInv == SendTyped /\ Named /\ Once

LEMMA NewSessionTyped == NewSession \in SessionState /\ NewSession.at = "ready"
<1>1. 0 \in 0..MaxMails
  BY MailAssumption
<1> QED
  BY <1>1, MailAssumption DEF NewSession, SessionState, Sites

LEMMA SendInit == Init => SendInv
<1> SUFFICES ASSUME Init
             PROVE  SendInv
  OBVIOUS
<1>1. SendTyped
  BY NewSessionTyped, MailAssumption DEF Init, SendTyped, Sites, NoClear
<1>2. \A s \in Sessions : smtp[s].at = "ready"
  BY NewSessionTyped DEF Init
<1> QED
  BY <1>1, <1>2 DEF Init, SendInv, Named, Once, Past, Ids

\* A session goes back, or on to another MAIL or RCPT.
LEMMA SessionMoves ==
  ASSUME SendInv, NEW s \in Sessions, NEW new \in SessionState, smtp' = [smtp EXCEPT ![s] = new],
         new.at \in {"ready", "mail"}, new.at = "mail" => new.rcpt = new.own,
         UNCHANGED <<project, clear, told, box>>
  PROVE  SendInv'
<1>1. smtp'[s] = new /\ \A r \in Sessions \ {s} : smtp'[r] = smtp[r]
  BY DEF SendInv, SendTyped
<1>2. SendTyped'
  BY DEF SendInv, SendTyped
<1>3. ASSUME NEW r \in Sessions
      PROVE  Past(r)' => Past(r) /\ smtp'[r] = smtp[r]
  BY <1>1 DEF Past
<1>4. Named'
  BY <1>1, <1>3 DEF SendInv, Named, Past, Ids
<1>5. Once'
  BY <1>1, <1>3 DEF SendInv, Once, Past, Ids
<1> QED
  BY <1>2, <1>4, <1>5 DEF SendInv

LEMMA CommandSends ==
  ASSUME SendInv, NEW s \in Sessions, MailCommand(s) \/ Rcpt(s) \/ Reset(s) \/ Refuse(s) \/ Accept(s)
  PROVE  SendInv'
<1>1. smtp \in [Sessions -> SessionState] /\ smtp[s] \in SessionState
  BY DEF SendInv, SendTyped
<1>2. CASE MailCommand(s)
  <2>1. PICK from \in Sites : Mail(s, from)
    BY <1>2 DEF MailCommand
  <2> DEFINE new == [smtp[s] EXCEPT !.at = "mail", !.from = from, !.rcpt = <<>>, !.own = <<>>]
  <2>2. smtp' = [smtp EXCEPT ![s] = new]
    BY <1>1, <2>1 DEF Mail
  <2>3. new \in SessionState /\ new.at = "mail" /\ new.rcpt = new.own
    <3>1. <<>> \in Seq(Recipients) /\ smtp[s] \in SessionState
      BY <1>1
    <3> QED
      BY <3>1 DEF SessionState
  <2> HIDE DEF new
  <2> QED
    BY <1>2, <2>2, <2>3, SessionMoves DEF MailCommand, projects, store
<1>3. CASE Rcpt(s)
  <2>1. PICK r \in Recipients :
          smtp' = [smtp EXCEPT ![s].rcpt = Append(@, r), ![s].own = Append(@, r), ![s].got = @ + 1]
    BY <1>3 DEF Rcpt
  <2> DEFINE new == [smtp[s] EXCEPT !.rcpt = Append(smtp[s].rcpt, r), !.own = Append(smtp[s].own, r),
                               !.got = smtp[s].got + 1]
  <2>2. smtp' = [smtp EXCEPT ![s] = new]
    BY <1>1, <2>1
  <2>3. /\ Append(smtp[s].rcpt, r) \in Seq(Recipients) /\ Append(smtp[s].own, r) \in Seq(Recipients)
        /\ smtp[s].got + 1 \in 0..MaxRcpt
    <3>1. smtp[s].got \in 0..MaxRcpt /\ smtp[s].got < MaxRcpt
      BY <1>1, <1>3 DEF SessionState, Rcpt
    <3>2. smtp[s].rcpt \in Seq(Recipients) /\ smtp[s].own \in Seq(Recipients)
      BY <1>1 DEF SessionState
    <3> QED
      BY <3>1, <3>2, MailAssumption
  <2>4. new \in SessionState /\ new.at = "mail" /\ new.rcpt = new.own
    BY <1>1, <1>3, <2>3 DEF SessionState, Rcpt, SendInv, Named
  <2> HIDE DEF new
  <2> QED
    BY <1>3, <2>2, <2>4, SessionMoves DEF Rcpt, projects, store
<1>4. CASE Reset(s) \/ Refuse(s) \/ Accept(s)
  BY <1>4, NewSessionTyped, SessionMoves DEF Reset, Refuse, Accept, projects, store
<1> QED
  BY <1>2, <1>3, <1>4

\* The project that is found is one of the addresses', or there is none.
LEMMA Detected ==
  ASSUME NEW a \in Sites, NEW b \in Sites, NEW c \in Sites
  PROVE  LET name == DetectProjectName(<<a, b, c>>)
         IN name \in Sites /\ (name # Unknown => \E p \in Paths : project[p] = name)
<1> DEFINE candidates == <<a, b, c>>
           linked(x) == x # Unknown /\ \E p \in Paths : project[p] = x
           hits == {i \in DOMAIN candidates : linked(candidates[i])}
<1>1. DOMAIN candidates = {1, 2, 3} /\ \A i \in {1, 2, 3} : candidates[i] \in Sites
  <2>1. DOMAIN candidates = 1..3
    OBVIOUS
  <2> QED
    BY <2>1
<1>2. \A i \in hits : i \in {1, 2, 3} /\ linked(candidates[i])
  BY <1>1
<1>3. DetectProjectName(candidates) = IF hits = {} THEN Unknown
        ELSE candidates[CHOOSE i \in hits : \A j \in hits : i <= j]
  BY DEF DetectProjectName
<1> HIDE DEF hits, linked
<1>4. CASE hits = {}
  BY <1>3, <1>4 DEF Sites
<1>5. CASE hits # {}
  <2>1. \E i \in hits : \A j \in hits : i <= j
    BY <1>2, <1>5
  <2>2. (CHOOSE i \in hits : \A j \in hits : i <= j) \in hits
    BY <2>1
  <2> QED
    BY <1>1, <1>2, <1>3, <1>5, <2>2 DEF linked
<1> QED
  BY <1>4, <1>5

LEMMA OwnerTyped == \A n : Owner(n) \in Paths \cup {Unknown}
BY DEF Owner

\* What a message is stored with, and whom its client named.
LEMMA DataSession ==
  ASSUME SendTyped, NEW s \in Sessions, Data(s)
  PROVE  \E name \in Sites, has \in BOOLEAN, to \in Seq(Recipients) :
           /\ name # Unknown => \E p \in Paths : project[p] = name
           /\ told' = Append(told, IF smtp[s].own = <<>> THEN to ELSE smtp[s].own)
           /\ smtp' = [smtp EXCEPT ![s] =
                [NewSession EXCEPT !.at = "parsed",
                   !.rcpt = IF smtp[s].rcpt = <<>> THEN to ELSE smtp[s].rcpt,
                   !.project = name, !.owner = Owner(name), !.has = has, !.tx = Len(told) + 1]]
<1> DEFINE Parsed(header, replyTo, to) == ParseMessage(header, replyTo, to, smtp[s].from, smtp[s].rcpt)
           Name(header, replyTo, to) == DetectProjectName(Parsed(header, replyTo, to).candidates)
<1>1. PICK header \in Sites \cup {"none"}, replyTo \in Sites, to \in HeaderRecipients, has \in Attached :
        /\ told' = Append(told, IF smtp[s].own = <<>> THEN to ELSE smtp[s].own)
        /\ smtp' = [smtp EXCEPT ![s] =
             [NewSession EXCEPT !.at = "parsed", !.rcpt = Parsed(header, replyTo, to).rcpt,
                !.project = Name(header, replyTo, to), !.owner = Owner(Name(header, replyTo, to)),
                !.has = has, !.tx = Len(told) + 1]]
  BY DEF Data
<1>2. smtp[s].from \in Sites /\ has \in BOOLEAN
  BY MailAssumption DEF SendTyped, SessionState
<1>3. to \in Seq(Recipients)
  <2>1. CASE to = <<>>
    BY <2>1
  <2>2. ASSUME NEW r \in Recipients, to = <<r>>
        PROVE  to \in Seq(Recipients)
    BY <2>2
  <2> QED
    BY <2>1, <2>2, Zenon DEF HeaderRecipients
<1> DEFINE a == IF header = "none" THEN smtp[s].from ELSE header
<1>4. /\ a \in Sites /\ Parsed(header, replyTo, to).candidates = <<a, replyTo, smtp[s].from>>
      /\ Parsed(header, replyTo, to).rcpt = IF smtp[s].rcpt = <<>> THEN to ELSE smtp[s].rcpt
  BY <1>2 DEF ParseMessage
<1> HIDE DEF a, Parsed
<1>5. LET name == Name(header, replyTo, to)
      IN name \in Sites /\ (name # Unknown => \E p \in Paths : project[p] = name)
  BY <1>2, <1>4, Detected
<1> HIDE DEF Name
<1> QED
  BY <1>1, <1>2, <1>3, <1>4, <1>5

LEMMA DataSends ==
  ASSUME SendInv, NEW s \in Sessions, Data(s)
  PROVE  SendInv'
<1>1. PICK name \in Sites, has \in BOOLEAN, to \in Seq(Recipients) :
           /\ name # Unknown => \E p \in Paths : project[p] = name
           /\ told' = Append(told, IF smtp[s].own = <<>> THEN to ELSE smtp[s].own)
           /\ smtp' = [smtp EXCEPT ![s] =
                [NewSession EXCEPT !.at = "parsed",
                   !.rcpt = IF smtp[s].rcpt = <<>> THEN to ELSE smtp[s].rcpt,
                   !.project = name, !.owner = Owner(name), !.has = has, !.tx = Len(told) + 1]]
  <2>1. SendTyped
    BY DEF SendInv
  <2> QED
    BY <2>1, DataSession
<1> DEFINE named == IF smtp[s].rcpt = <<>> THEN to ELSE smtp[s].rcpt
           new == [NewSession EXCEPT !.at = "parsed", !.rcpt = named,
                     !.project = name, !.owner = Owner(name), !.has = has, !.tx = Len(told) + 1]
<1>2. /\ smtp[s] \in SessionState /\ smtp[s].at = "mail"
      /\ told \in Seq(Seq(Recipients)) /\ Len(told) < MaxMails
      /\ named \in Seq(Recipients) /\ told' = Append(told, named)
  <2>1. smtp[s].rcpt = smtp[s].own /\ smtp[s].rcpt \in Seq(Recipients)
    BY DEF Data, SendInv, SendTyped, Named, SessionState
  <2> QED
    BY <1>1, <2>1 DEF Data, SendInv, SendTyped
<1>3. smtp' = [smtp EXCEPT ![s] = new]
  BY <1>1
<1> HIDE DEF named
<1>4. /\ new \in SessionState /\ new.at = "parsed" /\ new.rcpt = named /\ new.tx = Len(told) + 1
  <2>1. Len(told) + 1 \in 0..MaxMails
    BY <1>2, MailAssumption
  <2> QED
    BY <1>2, <2>1, NewSessionTyped, OwnerTyped DEF SessionState
<1> HIDE DEF new
<1>5. smtp'[s] = new /\ \A r \in Sessions \ {s} : smtp'[r] = smtp[r]
  BY <1>3 DEF SendInv, SendTyped, new
<1>6. /\ told' \in Seq(Seq(Recipients)) /\ Len(told') = Len(told) + 1
      /\ \A n \in DOMAIN told : n \in DOMAIN told' /\ told'[n] = told[n] /\ n # Len(told) + 1
      /\ Len(told) + 1 \in DOMAIN told' /\ told'[Len(told) + 1] = named
  BY <1>2
<1>7. UNCHANGED <<project, clear, box>>
  BY DEF Data, projects, store
<1>8. SendTyped'
  <2>1. Len(told') <= MaxMails
    BY <1>2, <1>6, MailAssumption
  <2>2. smtp' \in [Sessions -> SessionState]
    BY <1>4, <1>3 DEF SendInv, SendTyped
  <2> QED
    BY <1>6, <1>7, <2>1, <2>2 DEF SendInv, SendTyped
<1>9. Named'
  <2>1. ASSUME NEW r \in Sessions
        PROVE  /\ smtp'[r].at = "mail" => smtp'[r].rcpt = smtp'[r].own
               /\ Past(r)' => smtp'[r].tx \in DOMAIN told' /\ smtp'[r].rcpt = told'[smtp'[r].tx]
    <3>1. CASE r = s
      BY <1>2, <1>4, <1>5, <1>6, <3>1
    <3>2. CASE r # s
      BY <1>5, <1>6, <3>2 DEF SendInv, Named, Past
    <3> QED
      BY <3>1, <3>2
  <2>2. ASSUME NEW i \in Ids
        PROVE  box[i].tx \in DOMAIN told' /\ box[i].rcpt = told'[box[i].tx]
    BY <1>6 DEF SendInv, Named
  <2> QED
    BY <1>7, <2>1, <2>2 DEF Named, Ids
<1>10. Once'
  <2>1. \A i \in Ids : box[i].tx # Len(told) + 1
    BY <1>6 DEF SendInv, Named
  <2>2. \A r \in Sessions \ {s} : Past(r) => smtp[r].tx # Len(told) + 1
    BY <1>6 DEF SendInv, Named
  <2>3. \A q, r \in Sessions : Past(q)' /\ Past(r)' /\ smtp'[q].tx = smtp'[r].tx => q = r
    BY <1>4, <1>5, <2>2 DEF SendInv, Once, Past
  <2>4. \A r \in Sessions : smtp'[r].at = "parsed" => \A i \in Ids : box[i].tx # smtp'[r].tx
    BY <1>4, <1>5, <2>1 DEF SendInv, Once
  <2>5. \A r \in Sessions : smtp'[r].at = "stored" => \E i \in Ids : box[i].tx = smtp'[r].tx
    BY <1>4, <1>5 DEF SendInv, Once
  <2>6. \A i, j \in Ids : box[i].tx = box[j].tx => i = j
    BY DEF SendInv, Once
  <2> QED
    BY <1>7, <2>3, <2>4, <2>5, <2>6 DEF Once, Ids
<1> QED
  BY <1>8, <1>9, <1>10 DEF SendInv

LEMMA StoreSends ==
  ASSUME SendInv, NEW s \in Sessions, Store(s)
  PROVE  SendInv'
<1> DEFINE message == [project |-> smtp[s].project, rcpt |-> smtp[s].rcpt, has |-> smtp[s].has,
                       owner |-> smtp[s].owner, tx |-> smtp[s].tx]
<1>1. smtp[s] \in SessionState /\ smtp[s].at = "parsed" /\ smtp' = [smtp EXCEPT ![s].at = "stored"]
      /\ box \in Seq(Message) /\ box' = Append(box, message) /\ UNCHANGED <<project, clear, told>>
  BY DEF Store, AddMailMessage, SendInv, SendTyped, projects
<1>2. smtp[s].tx \in DOMAIN told /\ smtp[s].rcpt = told[smtp[s].tx]
  BY <1>1 DEF SendInv, Named, Past
<1>3. message \in Message /\ message.tx = smtp[s].tx /\ message.rcpt = smtp[s].rcpt
  <2>1. smtp[s].tx \in 1..MaxMails
    BY <1>1, <1>2 DEF SessionState, SendInv, SendTyped
  <2> QED
    BY <1>1, <2>1 DEF Message, SessionState
<1> HIDE DEF message
<1>4. /\ smtp' \in [Sessions -> SessionState]
      /\ smtp'[s].at = "stored" /\ smtp'[s].tx = smtp[s].tx /\ smtp'[s].rcpt = smtp[s].rcpt
      /\ \A r \in Sessions \ {s} : smtp'[r] = smtp[r]
  <2>1. [smtp[s] EXCEPT !.at = "stored"] \in SessionState
    BY <1>1 DEF SessionState
  <2>2. smtp' = [smtp EXCEPT ![s] = [smtp[s] EXCEPT !.at = "stored"]]
    BY <1>1 DEF SendInv, SendTyped
  <2> QED
    BY <1>1, <2>1, <2>2 DEF SendInv, SendTyped, SessionState
<1>5. /\ box' \in Seq(Message) /\ Ids' = Ids \cup {Len(box) + 1} /\ Len(box) + 1 \notin Ids
      /\ box'[Len(box) + 1] = message
      /\ \A i \in Ids : box'[i] = box[i]
  BY <1>1, <1>3 DEF Ids
<1>6. SendTyped'
  BY <1>1, <1>4, <1>5 DEF SendInv, SendTyped
<1>7. Named'
  <2>1. ASSUME NEW r \in Sessions
        PROVE  /\ smtp'[r].at = "mail" => smtp'[r].rcpt = smtp'[r].own
               /\ Past(r)' => smtp'[r].tx \in DOMAIN told /\ smtp'[r].rcpt = told[smtp'[r].tx]
    BY <1>2, <1>4 DEF SendInv, Named, Past
  <2>2. ASSUME NEW i \in Ids'
        PROVE  box'[i].tx \in DOMAIN told /\ box'[i].rcpt = told[box'[i].tx]
    BY <1>2, <1>3, <1>5 DEF SendInv, Named
  <2> QED
    BY <1>1, <2>1, <2>2 DEF Named
<1>8. Once'
  <2>1. \A r \in Sessions : Past(r)' <=> Past(r)
    BY <1>1, <1>4 DEF Past
  <2>2. \A r \in Sessions : smtp'[r].tx = smtp[r].tx
    BY <1>4
  <2>3. \A i \in Ids : box[i].tx # smtp[s].tx
    BY <1>1 DEF SendInv, Once
  <2>4. \A r \in Sessions \ {s} : smtp[r].at = "parsed" => smtp[r].tx # smtp[s].tx
    BY <1>1 DEF SendInv, Once, Past
  <2>5. \A i, j \in Ids' : box'[i].tx = box'[j].tx => i = j
    BY <1>3, <1>5, <2>3 DEF SendInv, Once
  <2>6. \A r \in Sessions : smtp'[r].at = "parsed" => \A i \in Ids' : box'[i].tx # smtp'[r].tx
    BY <1>3, <1>4, <1>5, <2>4 DEF SendInv, Once
  <2>7. \A r \in Sessions : smtp'[r].at = "stored" => \E i \in Ids' : box'[i].tx = smtp'[r].tx
    BY <1>3, <1>4, <1>5 DEF SendInv, Once
  <2>8. \A q, r \in Sessions : Past(q)' /\ Past(r)' /\ smtp'[q].tx = smtp'[r].tx => q = r
    BY <2>1, <2>2 DEF SendInv, Once
  <2> QED
    BY <2>5, <2>6, <2>7, <2>8 DEF Once
<1> QED
  BY <1>6, <1>7, <1>8 DEF SendInv

LEMMA LinkSends ==
  ASSUME SendInv, NEW p \in Paths, NEW n \in Names, Link(p, n)
  PROVE  SendInv'
<1>1. project' \in [Paths -> Sites]
  BY DEF Link, SendInv, SendTyped, Sites
<1> QED
  BY <1>1 DEF Link, store, sending, SendInv, SendTyped, Named, Once, Past, Ids

LEMMA ClearSends ==
  ASSUME SendInv, (\E p \in Paths : ClearAsk(p)) \/ ClearYes \/ ClearNo \/ ClearAll \/ ClearUnknown
  PROVE  SendInv'
<1>1. clear' \in [filter : Names \cup {"none"}, owner : Paths \cup {Unknown}]
  BY DEF ClearAsk, ClearYes, ClearNo, ClearAll, ClearUnknown, NoClear, SendInv, SendTyped, Sites
<1>2. UNCHANGED <<project, smtp, told, box>>
  BY DEF ClearAsk, ClearYes, ClearNo, ClearAll, ClearUnknown, ClearMessages, Remove, store, sending, projects
<1> QED
  BY <1>1, <1>2 DEF SendInv, SendTyped, Named, Once, Past, Ids

LEMMA TabSends ==
  ASSUME SendInv, NEW t \in Tabs,
         Serve(t) \/ Arrive(t) \/ HandleEvent(t) \/ SelectMail(t) \/ DeleteClicked(t) \/ Navigate(t) \/ Reload(t)
  PROVE  SendInv'
<1>1. UNCHANGED <<project, clear, smtp, told>>
  BY DEF Serve, Arrive, HandleEvent, SelectMail, DeleteClicked, Navigate, Reload, projects, sending
<1>2. UNCHANGED box
  BY DEF Serve, ServeList, ReadMessage, ReadAttachments, DeleteMail, ClearMail, AnswerCleared, Fail, Remove,
     Arrive, HandleEvent, SelectMail, DeleteClicked, Navigate, Reload, store
<1> QED
  BY <1>1, <1>2 DEF SendInv, SendTyped, Named, Once, Past, Ids

LEMMA CrashSends ==
  ASSUME SendInv, Crash
  PROVE  SendInv'
<1>1. UNCHANGED <<project, clear, told, box>> /\ smtp' = [s \in Sessions |-> NewSession]
  BY DEF Crash, projects, store
<1>2. \A s \in Sessions : smtp'[s].at = "ready" /\ ~Past(s)'
  BY <1>1, NewSessionTyped DEF Past
<1>3. SendTyped'
  BY <1>1, NewSessionTyped DEF SendInv, SendTyped
<1> QED
  BY <1>1, <1>2, <1>3 DEF SendInv, Named, Once, Ids

LEMMA SendStep == SendInv /\ [Next]_vars => SendInv'
<1> SUFFICES ASSUME SendInv, [Next]_vars
             PROVE  SendInv'
  OBVIOUS
<1>1. CASE UNCHANGED vars
  BY <1>1 DEF vars, projects, store, sending, SendInv, SendTyped, Named, Once, Past, Ids
<1> QED
  BY <1>1, CommandSends, DataSends, StoreSends, LinkSends, ClearSends, TabSends, CrashSends DEF Next

(***************************************************************************)
(* Whatever sessions there are and however they mix with crashes: a        *)
(* message whose client is told so is in the store, once, for those named  *)
(* since the last MAIL or, if nobody was, for those of its headers.        *)
(***************************************************************************)
THEOREM AcceptedIsStored == Spec => AcceptedIsStoredAsSent
<1>1. SendInv /\ [Next]_vars => SendInv'
  BY SendStep
<1>2. SendInv => \A s \in Sessions : Accept(s) =>
        \E i \in Ids : /\ box[i].tx = smtp[s].tx
                       /\ box[i].rcpt = told[box[i].tx]
                       /\ \A j \in Ids : box[j].tx = box[i].tx => j = i
  BY DEF SendInv, Named, Once, Accept, Answered
<1>3. SendInv /\ [Next]_vars => [\A s \in Sessions : Accept(s) =>
        \E i \in Ids : /\ box[i].tx = smtp[s].tx
                       /\ box[i].rcpt = told[box[i].tx]
                       /\ \A j \in Ids : box[j].tx = box[i].tx => j = i]_vars
  BY <1>2
<1> QED
  BY <1>1, <1>3, SendInit, PTL DEF Spec, AcceptedIsStoredAsSent

-----------------------------------------------------------------------------
(* Who asks for what *)

\* The name n stands for the directory p: it is linked, or mail was
\* attributed to it, or a question is asked of its mail.
Claims(n, p) ==
  \/ p \in Paths /\ project[p] = n
  \/ \E i \in Ids : box[i].project = n /\ box[i].owner = p
  \/ \E s \in Sessions : smtp[s].project = n /\ smtp[s].owner = p
  \/ clear.filter = n /\ clear.owner = p

OneOwner == \A n \in Names : \A p, q : Claims(n, p) /\ Claims(n, q) => p = q

\* Mail without a project is nobody's.
Nobodys ==
  /\ \A i \in Ids : box[i].project = Unknown => box[i].owner = Unknown
  /\ \A s \in Sessions : smtp[s].project = Unknown => smtp[s].owner = Unknown

OwnInv ==
  /\ SendInv
  /\ OneOwner /\ Nobodys
  /\ clear = NoClear \/ clear.filter \in Names
  /\ rows \subseteq Ids

NotNames == Unknown \notin Names /\ "none" \notin Names /\ "all" \notin Names

LEMMA NamesAreNames == NotNames
BY MailAssumption DEF NotNames

LEMMA OwnInit == Init => OwnInv
<1> SUFFICES ASSUME Init
             PROVE  OwnInv
  OBVIOUS
<1>1. SendInv
  BY SendInit
<1>2. \A n \in Names : \A p : ~Claims(n, p)
  BY NamesAreNames DEF Init, Claims, Ids, NewSession, NoClear, NotNames
<1>3. Nobodys
  BY DEF Init, Nobodys, Ids, NewSession
<1> QED
  BY <1>1, <1>2, <1>3 DEF OwnInv, OneOwner, Init, Ids

\* Nothing is claimed that was not before.
LEMMA NoNewClaims ==
  ASSUME OneOwner, \A n \in Names : \A p : Claims(n, p)' => Claims(n, p)
  PROVE  OneOwner'
BY DEF OneOwner

LEMMA SessionOwns ==
  ASSUME OwnInv, SendInv', NEW s \in Sessions,
         MailCommand(s) \/ Rcpt(s) \/ Reset(s) \/ Refuse(s) \/ Accept(s)
  PROVE  OwnInv'
<1>1. UNCHANGED <<project, box, rows, clear>>
  BY DEF MailCommand, Rcpt, Reset, Refuse, Accept, projects, store
<1>2. /\ \A r \in Sessions \ {s} : smtp'[r] = smtp[r]
      /\ \/ smtp'[s] = NewSession
         \/ smtp'[s].project = smtp[s].project /\ smtp'[s].owner = smtp[s].owner
  <2>1. smtp \in [Sessions -> SessionState] /\ smtp[s] \in SessionState
    BY DEF OwnInv, SendInv, SendTyped
  <2>2. CASE MailCommand(s)
    <3>1. PICK from : smtp' = [smtp EXCEPT ![s].at = "mail", ![s].from = from, ![s].rcpt = <<>>, ![s].own = <<>>]
      BY <2>2 DEF MailCommand, Mail
    <3> QED
      BY <2>1, <3>1 DEF SessionState
  <2>3. CASE Rcpt(s)
    <3>1. PICK r : smtp' = [smtp EXCEPT ![s].rcpt = Append(@, r), ![s].own = Append(@, r), ![s].got = @ + 1]
      BY <2>3 DEF Rcpt
    <3> QED
      BY <2>1, <3>1 DEF SessionState
  <2>4. CASE Reset(s) \/ Refuse(s) \/ Accept(s)
    BY <2>1, <2>4 DEF Reset, Refuse, Accept
  <2> QED
    BY <2>2, <2>3, <2>4
<1>3. NewSession.project = Unknown /\ NewSession.owner = Unknown
  BY DEF NewSession
<1>4. OneOwner'
  BY <1>1, <1>2, <1>3, NamesAreNames, NoNewClaims DEF OwnInv, Claims, Ids, NotNames
<1>5. Nobodys'
  BY <1>1, <1>2, <1>3 DEF OwnInv, Nobodys, Ids
<1> QED
  BY <1>1, <1>4, <1>5 DEF OwnInv, Ids

LEMMA DataOwns ==
  ASSUME OwnInv, SendInv', NEW s \in Sessions, Data(s)
  PROVE  OwnInv'
<1>1. UNCHANGED <<project, box, rows, clear>> /\ smtp \in [Sessions -> SessionState]
  BY DEF Data, projects, store, OwnInv, SendInv, SendTyped
<1>2. PICK name \in Sites, has \in BOOLEAN, to \in Seq(Recipients) :
           /\ name # Unknown => \E p \in Paths : project[p] = name
           /\ told' = Append(told, IF smtp[s].own = <<>> THEN to ELSE smtp[s].own)
           /\ smtp' = [smtp EXCEPT ![s] =
                [NewSession EXCEPT !.at = "parsed",
                   !.rcpt = IF smtp[s].rcpt = <<>> THEN to ELSE smtp[s].rcpt,
                   !.project = name, !.owner = Owner(name), !.has = has, !.tx = Len(told) + 1]]
  <2>1. SendTyped
    BY DEF OwnInv, SendInv
  <2> QED
    BY <2>1, DataSession
<1>3. /\ smtp'[s].project = name /\ smtp'[s].owner = Owner(name)
      /\ \A r \in Sessions \ {s} : smtp'[r] = smtp[r]
  BY <1>1, <1>2 DEF NewSession
<1>4. CASE name = Unknown
  <2>1. Owner(name) = Unknown
    BY <1>4 DEF Owner
  <2>2. OneOwner'
    BY <1>1, <1>3, <1>4, NamesAreNames, NoNewClaims DEF OwnInv, Claims, Ids, NotNames
  <2>3. Nobodys'
    BY <1>1, <1>3, <1>4, <2>1 DEF OwnInv, Nobodys, Ids
  <2> QED
    BY <1>1, <2>2, <2>3 DEF OwnInv, Ids
<1>5. CASE name # Unknown
  <2>1. Owner(name) \in Paths /\ project[Owner(name)] = name
    <3>1. \E p \in Paths : project[p] = name
      BY <1>2, <1>5
    <3>2. Owner(name) = CHOOSE p \in Paths : project[p] = name
      BY <1>5, <3>1 DEF Owner
    <3> QED
      BY <3>1, <3>2
  <2>2. OneOwner'
    BY <1>1, <1>3, <2>1, NoNewClaims DEF OwnInv, Claims, Ids
  <2>3. Nobodys'
    BY <1>1, <1>3, <1>5 DEF OwnInv, Nobodys, Ids
  <2> QED
    BY <1>1, <2>2, <2>3 DEF OwnInv, Ids
<1> QED
  BY <1>4, <1>5

LEMMA StoreOwns ==
  ASSUME OwnInv, SendInv', NEW s \in Sessions, Store(s)
  PROVE  OwnInv'
<1> DEFINE message == [project |-> smtp[s].project, rcpt |-> smtp[s].rcpt, has |-> smtp[s].has,
                       owner |-> smtp[s].owner, tx |-> smtp[s].tx]
<1>1. /\ smtp' = [smtp EXCEPT ![s].at = "stored"] /\ smtp \in [Sessions -> SessionState]
      /\ box \in Seq(Message) /\ box' = Append(box, message) /\ rows' = rows \cup {Len(box) + 1}
      /\ UNCHANGED <<project, clear>>
  BY DEF Store, AddMailMessage, OwnInv, SendInv, SendTyped, projects
<1>2. message.project = smtp[s].project /\ message.owner = smtp[s].owner
  OBVIOUS
<1> HIDE DEF message
<1>3. \A r \in Sessions : smtp'[r].project = smtp[r].project /\ smtp'[r].owner = smtp[r].owner
  BY <1>1 DEF SessionState
<1>4. /\ Ids' = Ids \cup {Len(box) + 1} /\ box'[Len(box) + 1] = message
      /\ \A i \in Ids : box'[i] = box[i]
  <2>1. box' \in Seq(Message) /\ Len(box') = Len(box) + 1
    BY <1>1 DEF SendInv, SendTyped
  <2> QED
    BY <1>1, <2>1 DEF Ids
<1>5. OneOwner'
  <2>1. ASSUME NEW n \in Names, NEW p, Claims(n, p)'
        PROVE  Claims(n, p)
    <3>1. CASE \E i \in Ids' : box'[i].project = n /\ box'[i].owner = p
      BY <1>2, <1>4, <3>1 DEF Claims
    <3>2. CASE ~\E i \in Ids' : box'[i].project = n /\ box'[i].owner = p
      BY <1>1, <1>3, <2>1, <3>2 DEF Claims
    <3> QED
      BY <3>1, <3>2
  <2> QED
    BY <2>1, NoNewClaims DEF OwnInv
<1>6. Nobodys'
  BY <1>2, <1>3, <1>4 DEF OwnInv, Nobodys
<1> QED
  BY <1>1, <1>4, <1>5, <1>6 DEF OwnInv

LEMMA LinkOwns ==
  ASSUME OwnInv, SendInv', NEW p \in Paths, NEW n \in Names, Link(p, n), "reuse" \notin Faults
  PROVE  OwnInv'
<1>1. /\ project' = [project EXCEPT ![p] = n] /\ project \in [Paths -> Sites]
      /\ \A q \in Paths : project[q] # n
      /\ ~Remembered(n, p)
      /\ UNCHANGED <<box, rows, smtp, clear>>
  BY DEF Link, store, sending, OwnInv, SendInv, SendTyped
<1>2. ASSUME NEW m \in Names \ {n}, NEW q, Claims(m, q)'
      PROVE  Claims(m, q)
  BY <1>1, <1>2 DEF Claims, Ids
<1>3. ASSUME NEW q, Claims(n, q)'
      PROVE  q = p
  BY <1>1, <1>3 DEF Claims, Remembered, Ids
<1>4. OneOwner'
  BY <1>2, <1>3 DEF OwnInv, OneOwner
<1> QED
  BY <1>1, <1>4 DEF OwnInv, Nobodys, Ids

LEMMA ClearOwns ==
  ASSUME OwnInv, SendInv', (\E p \in Paths : ClearAsk(p)) \/ ClearYes \/ ClearNo \/ ClearAll \/ ClearUnknown
  PROVE  OwnInv'
<1>1. UNCHANGED <<project, smtp, box>> /\ rows' \subseteq rows
  BY DEF ClearAsk, ClearYes, ClearNo, ClearAll, ClearUnknown, ClearMessages, Remove, projects, store, sending
<1>2. /\ clear' = NoClear \/ clear'.filter \in Names
      /\ \A n \in Names : \A p : clear'.filter = n /\ clear'.owner = p => Claims(n, p)
  <2>1. CASE \E p \in Paths : ClearAsk(p)
    <3>1. PICK p \in Paths : project[p] # Unknown /\ clear' = [filter |-> project[p], owner |-> p]
      BY <2>1 DEF ClearAsk
    <3>2. project[p] \in Names
      BY <3>1 DEF OwnInv, SendInv, SendTyped, Sites
    <3> QED
      BY <3>1, <3>2 DEF Claims
  <2>2. CASE ClearYes \/ ClearNo
    BY <2>2, NamesAreNames DEF ClearYes, ClearNo, NoClear, NotNames
  <2>3. CASE ClearAll \/ ClearUnknown
    BY <2>3 DEF ClearAll, ClearUnknown, OwnInv, Claims
  <2> QED
    BY <2>1, <2>2, <2>3
<1>3. OneOwner'
  BY <1>1, <1>2, NoNewClaims DEF OwnInv, Claims, Ids
<1> QED
  BY <1>1, <1>2, <1>3 DEF OwnInv, Nobodys, Ids

LEMMA TabOwns ==
  ASSUME OwnInv, SendInv', NEW t \in Tabs,
         Serve(t) \/ Arrive(t) \/ HandleEvent(t) \/ SelectMail(t) \/ DeleteClicked(t) \/ Navigate(t) \/ Reload(t)
  PROVE  OwnInv'
<1>1. UNCHANGED <<project, clear, smtp, told>>
  BY DEF Serve, Arrive, HandleEvent, SelectMail, DeleteClicked, Navigate, Reload, projects, sending
<1>2. UNCHANGED box /\ rows' \subseteq rows
  BY DEF Serve, ServeList, ReadMessage, ReadAttachments, DeleteMail, ClearMail, AnswerCleared, Fail, Remove,
     Arrive, HandleEvent, SelectMail, DeleteClicked, Navigate, Reload, store
<1>3. OneOwner'
  BY <1>1, <1>2, NoNewClaims DEF OwnInv, Claims, Ids
<1> QED
  BY <1>1, <1>2, <1>3 DEF OwnInv, Nobodys, Ids

LEMMA CrashOwns ==
  ASSUME OwnInv, SendInv', Crash
  PROVE  OwnInv'
<1>1. UNCHANGED <<project, clear, box, rows>> /\ smtp' = [s \in Sessions |-> NewSession]
  BY DEF Crash, projects, store
<1>2. \A s \in Sessions : smtp'[s].project = Unknown /\ smtp'[s].owner = Unknown
  BY <1>1 DEF NewSession
<1>3. OneOwner'
  BY <1>1, <1>2, NamesAreNames, NoNewClaims DEF OwnInv, Claims, Ids, NotNames
<1> QED
  BY <1>1, <1>2, <1>3 DEF OwnInv, Nobodys, Ids

LEMMA OwnStep == ASSUME "reuse" \notin Faults, OwnInv, [Next]_vars
                 PROVE  OwnInv'
<1>1. SendInv'
  BY SendStep DEF OwnInv
<1>2. CASE UNCHANGED vars
  <2>1. UNCHANGED <<project, clear, box, rows, smtp>>
    BY <1>2 DEF vars, projects, store, sending
  <2>2. OneOwner'
    BY <2>1, NoNewClaims DEF OwnInv, Claims, Ids
  <2> QED
    BY <1>1, <2>1, <2>2 DEF OwnInv, Nobodys, Ids
<1> QED
  BY <1>1, <1>2, SessionOwns, DataOwns, StoreOwns, LinkOwns, ClearOwns, TabOwns, CrashOwns DEF Next

\* Whoever takes a message away has been asked to.
LEMMA GoesOnRequest ==
  ASSUME OwnInv, [Next]_vars
  PROVE  \A i \in rows \ rows' : Requested(i)
<1> SUFFICES ASSUME NEW i \in rows \ rows'
             PROVE  Requested(i)
  OBVIOUS
<1>1. ASSUME NEW t \in Tabs, Serve(t)
      PROVE  Requested(i)
  <2>1. PICK k \in DOMAIN reqs[t] :
          \/ ServeList(t, k) \/ ReadMessage(t, k) \/ ReadAttachments(t, k)
          \/ DeleteMail(t, k) \/ ClearMail(t, k) \/ AnswerCleared(t, k) \/ Fail(t, k)
    BY <1>1 DEF Serve
  <2>2. DeleteMail(t, k) \/ ClearMail(t, k)
    BY <2>1 DEF ServeList, ReadMessage, ReadAttachments, AnswerCleared, Fail, store
  <2>3. CASE DeleteMail(t, k)
    BY <2>3 DEF DeleteMail, Remove, store, Requested
  <2>4. CASE ClearMail(t, k)
    BY <2>4 DEF ClearMail, Requested
  <2> QED
    BY <2>2, <2>3, <2>4
<1>2. CASE ClearYes
  <2>1. clear.filter \in Names /\ i \in MailWhere(clear.filter)
    BY <1>2 DEF ClearYes, ClearMessages, Remove, OwnInv
  <2>2. box[i].project = clear.filter /\ i \in Ids
    BY <2>1, NamesAreNames DEF MailWhere, NotNames, OwnInv
  <2>3. Claims(clear.filter, box[i].owner) /\ Claims(clear.filter, clear.owner)
    BY <2>2 DEF Claims
  <2>4. clear.owner = box[i].owner
    BY <2>1, <2>3 DEF OwnInv, OneOwner
  <2> QED
    BY <1>2, <2>4 DEF ClearYes, Requested
<1>3. CASE ClearUnknown
  <2>1. i \in MailWhere(Unknown)
    BY <1>3 DEF ClearUnknown, ClearMessages, Remove
  <2>2. box[i].project = Unknown
    BY <2>1 DEF MailWhere, Unknown
  <2> QED
    BY <1>3, <2>2 DEF Requested, OwnInv, Nobodys
<1>4. CASE ClearAll
  BY <1>4 DEF Requested
<1>5. rows' # rows => (\E t \in Tabs : Serve(t)) \/ ClearYes \/ ClearUnknown \/ ClearAll \/ (\E s \in Sessions : Store(s))
  BY DEF Next, vars, store, Link, MailCommand, Rcpt, Reset, Data, Refuse, Accept, ClearAsk, ClearNo,
     Arrive, HandleEvent, SelectMail, DeleteClicked, Navigate, Reload, Crash
<1>6. ASSUME NEW s \in Sessions
      PROVE  ~Store(s)
  BY DEF Store, AddMailMessage
<1> QED
  BY <1>1, <1>2, <1>3, <1>4, <1>5, <1>6

(***************************************************************************)
(* For any directories, names, tabs and sessions: a message leaves the     *)
(* store for no other reason than that somebody asked for it, as long as a *)
(* name is not given to another directory while mail is left under it.     *)
(***************************************************************************)
THEOREM MailGoesWhenAsked ==
  ASSUME "reuse" \notin Faults
  PROVE  Spec => MailGoesOnRequest
<1>1. OwnInv /\ [Next]_vars => OwnInv'
  BY OwnStep
<1>2. OwnInv /\ [Next]_vars => [\A i \in rows \ rows' : Requested(i)]_vars
  BY GoesOnRequest
<1> QED
  BY <1>1, <1>2, OwnInit, PTL DEF Spec, MailGoesOnRequest

-----------------------------------------------------------------------------
(* The mailbox and who looks at it *)

\* As many messages as were sent, at most: no two are of one transaction.
LEMMA BoxFits == SendInv => Len(box) <= Len(told)
<1> SUFFICES ASSUME SendInv, Len(box) > Len(told)
             PROVE  FALSE
  BY DEF SendInv, SendTyped
<1> DEFINE S == 1..Len(box)
           T == 1..Len(told)
           f == [i \in S |-> box[i].tx]
<1>1. Len(box) \in Nat /\ Len(told) \in Nat /\ Ids = S /\ DOMAIN told = T
  BY DEF SendInv, SendTyped, Ids
<1>2. IsFiniteSet(S) /\ Cardinality(S) = Len(box) /\ IsFiniteSet(T) /\ Cardinality(T) = Len(told)
  <2>1. /\ IsFiniteSet(S) /\ Cardinality(S) = IF 1 > Len(box) THEN 0 ELSE Len(box) - 1 + 1
        /\ IsFiniteSet(T) /\ Cardinality(T) = IF 1 > Len(told) THEN 0 ELSE Len(told) - 1 + 1
    <3>1. 1 \in Int /\ Len(box) \in Int /\ Len(told) \in Int
      BY <1>1
    <3> QED
      BY <3>1, FS_Interval
  <2> QED
    BY <1>1, <2>1
<1>3. f \in [S -> T]
  BY <1>1 DEF SendInv, Named
<1> HIDE DEF S, T, f
<1>4. \E x, y \in S : x # y /\ f[x] = f[y]
  BY <1>1, <1>2, <1>3, FS_PigeonHole
<1> QED
  BY <1>1, <1>4 DEF SendInv, Once, f

\* loadMail finds the newest of what it lists.
LEMMA NewestIs ==
  ASSUME NEW m \in Nat, NEW ids, ids \subseteq 0..m, ids # {}
  PROVE  \E i \in ids : \A j \in ids : j <= i
<1> DEFINE below == {m - i : i \in ids}
           R == OpToRel(<, Nat)
<1>1. below \subseteq Nat /\ below # {}
  <2>1. \A i \in ids : m - i \in Nat
    OBVIOUS
  <2>2. PICK i : i \in ids
    OBVIOUS
  <2>3. m - i \in below
    BY <2>2
  <2> QED
    BY <2>1, <2>3
<1>2. IsWellFoundedOn(R, Nat)
  BY NatLessThanWellFounded
<1>3. \A x, y \in Nat : y < x => <<y, x>> \in R
  BY DEF OpToRel
<1> HIDE DEF R, below
<1>4. PICK x \in below : \A y \in below : ~(<<y, x>> \in R)
  BY <1>1, <1>2, WFMin
<1>5. PICK i \in ids : x = m - i
  BY DEF below
<1>6. ASSUME NEW j \in ids
      PROVE  j <= i
  <2>1. m - j \in below /\ m - j \in Nat /\ x \in Nat
    BY <1>1, <1>4 DEF below
  <2>2. ~(m - j < x)
    BY <1>3, <1>4, <2>1
  <2> QED
    BY <1>5, <2>2
<1> QED
  BY <1>6

LEMMA SeqGrows ==
  ASSUME NEW S, NEW T, S \subseteq T
  PROVE  Seq(S) \subseteq Seq(T)
<1> SUFFICES ASSUME NEW s \in Seq(S)
             PROVE  s \in Seq(T)
  OBVIOUS
<1> QED
  OBVIOUS

LEMMA WithoutTyped ==
  ASSUME NEW S, NEW seq \in Seq(S), NEW i \in DOMAIN seq
  PROVE  Without(seq, i) \in Seq(S)
<1>1. i \in 1..Len(seq) /\ Len(seq) \in Nat /\ \A j \in 1..Len(seq) : seq[j] \in S
  OBVIOUS
<1>2. SubSeq(seq, 1, i - 1) \in Seq(S)
  <2>1. \A j \in 1..(i - 1) : seq[j] \in S
    BY <1>1
  <2>2. 1 \in Int /\ i - 1 \in Int
    BY <1>1
  <2> QED
    BY <2>1, <2>2, SubSeqProperties
<1>3. SubSeq(seq, i + 1, Len(seq)) \in Seq(S)
  <2>1. \A j \in (i + 1)..Len(seq) : seq[j] \in S
    BY <1>1
  <2>2. i + 1 \in Int /\ Len(seq) \in Int
    BY <1>1
  <2> QED
    BY <2>1, <2>2, SubSeqProperties
<1> QED
  BY <1>2, <1>3 DEF Without

\* A request names messages of the past; an answer tells of a message that is
\* still there with its attachments.
GoodRequests ==
  {r \in RequestState :
     /\ r.id \in {0} \cup Ids
     /\ r.op = "detail" /\ r.at = "done" /\ r.ok /\ r.id \in rows => r.whole}

GoodTabs ==
  {v \in TabState :
     /\ v.sel \in {0} \cup Ids /\ v.route \in {0} \cup Ids /\ v.shown \in {0} \cup Ids
     /\ v.shown \in rows => v.whole}

StoreGood ==
  /\ rows \subseteq Ids /\ atts \subseteq rows
  /\ \A i \in rows : box[i].has => i \in atts

Viewed ==
  /\ tab \in [Tabs -> GoodTabs]
  /\ reqs \in [Tabs -> Seq(GoodRequests)]
  /\ pend \in [Tabs -> 0..Buffer] /\ lost \in [Tabs -> BOOLEAN]

ViewInv == SendInv /\ StoreGood /\ Viewed

LEMMA IdsBounded == SendInv => 0 \notin Ids /\ Ids \subseteq 1..MaxMails /\ {0} \cup Ids \subseteq 0..MaxMails
<1> SUFFICES ASSUME SendInv
             PROVE  0 \notin Ids /\ Ids \subseteq 1..MaxMails /\ {0} \cup Ids \subseteq 0..MaxMails
  OBVIOUS
<1>1. Len(box) \in Nat /\ Len(told) \in Nat /\ Len(told) <= MaxMails /\ MaxMails \in Nat
  BY MailAssumption DEF SendInv, SendTyped
<1>2. Ids = 1..Len(box) /\ Len(box) <= MaxMails
  BY <1>1, BoxFits DEF Ids, SendInv, SendTyped
<1> QED
  BY <1>1, <1>2

LEMMA GoodGrow ==
  ASSUME Ids \subseteq Ids', \A i \in {0} \cup Ids : i \in rows' => i \in rows
  PROVE  GoodRequests \subseteq GoodRequests' /\ GoodTabs \subseteq GoodTabs'
<1>1. RequestState \subseteq RequestState' /\ TabState \subseteq TabState'
  BY DEF RequestState, TabState
<1> QED
  BY <1>1 DEF GoodRequests, GoodTabs

\* Request(op, id, push) as it is sent.
LEMMA RequestGood ==
  ASSUME SendInv, NEW op \in {"list", "detail", "delete", "clear"}, NEW id \in {0} \cup Ids, NEW push \in BOOLEAN
  PROVE  Request(op, id, push) \in GoodRequests
BY IdsBounded DEF Request, RequestState, GoodRequests

Unique == \A p, q \in Paths : project[p] = project[q] => p = q \/ project[p] = Unknown

MailInv == ViewInv /\ Unique

LEMMA MailInvTypes == MailInv => TypeOK
<1> SUFFICES ASSUME MailInv
             PROVE  TypeOK
  OBVIOUS
<1>1. SendTyped /\ StoreGood /\ Viewed /\ Unique /\ Ids = 1..Len(box) /\ Len(box) \in Nat /\ Ids \subseteq 1..MaxMails
  BY IdsBounded DEF MailInv, ViewInv, SendInv, SendTyped, Ids
<1>2. Len(box) <= MaxMails
  BY <1>1, BoxFits, MailAssumption DEF MailInv, ViewInv, SendInv, SendTyped
<1>3. \A i \in Ids : box[i] \in Message
  BY <1>1 DEF SendTyped
<1>4. \A n \in DOMAIN told : told[n] \in Seq(Recipients)
  BY <1>1 DEF SendTyped
<1>5. tab \in [Tabs -> TabState]
  BY <1>1 DEF Viewed, GoodTabs
<1>6. \A t \in Tabs : \A i \in DOMAIN reqs[t] : reqs[t][i] \in RequestState
  <2>1. GoodRequests \subseteq RequestState
    BY DEF GoodRequests
  <2>2. reqs \in [Tabs -> Seq(GoodRequests)]
    BY <1>1 DEF Viewed
  <2> HIDE DEF GoodRequests, RequestState
  <2>3. ASSUME NEW t \in Tabs, NEW i \in DOMAIN reqs[t]
        PROVE  reqs[t][i] \in GoodRequests
    <3>1. reqs[t] \in Seq(GoodRequests)
      BY <2>2
    <3> QED
      BY <3>1
  <2> QED
    BY <2>1, <2>3
<1> QED
  BY <1>1, <1>2, <1>3, <1>4, <1>5, <1>6 DEF TypeOK, SendTyped, StoreGood, Viewed, Unique

LEMMA NewTabGood == ASSUME SendInv, NEW m \in BOOLEAN, NEW route \in {0} \cup Ids
                    PROVE  [NewTab EXCEPT !.mail = m, !.route = route] \in GoodTabs /\ NewTab \in GoodTabs
BY IdsBounded DEF NewTab, GoodTabs, TabState

LEMMA MailInit == Init => MailInv
<1> SUFFICES ASSUME Init
             PROVE  MailInv
  OBVIOUS
<1>1. SendInv
  BY SendInit
<1>2. StoreGood /\ Unique
  BY DEF Init, StoreGood, Unique
<1>3. NewTab \in GoodTabs /\ LoadMail \in GoodRequests
  BY <1>1, NewTabGood, RequestGood DEF LoadMail
<1>4. <<LoadMail>> \in Seq(GoodRequests)
  BY <1>3
<1>5. 0 \in 0..Buffer
  BY MailAssumption
<1> QED
  BY <1>1, <1>2, <1>3, <1>4, <1>5 DEF Init, MailInv, ViewInv, Viewed

\* The store as it is, or without some messages.
LEMMA StoreShrinks ==
  ASSUME StoreGood, SendInv, UNCHANGED box,
         UNCHANGED <<rows, atts>> \/ \E ids : rows' = rows \ ids /\ atts' = atts \ ids
  PROVE  StoreGood' /\ GoodRequests \subseteq GoodRequests' /\ GoodTabs \subseteq GoodTabs'
<1>1. Ids' = Ids /\ rows' \subseteq rows
  BY DEF Ids
<1>2. StoreGood'
  BY <1>1 DEF StoreGood
<1> QED
  BY <1>1, <1>2, GoodGrow

\* Nothing that a tab has or is asked changes.
LEMMA ViewsStay ==
  ASSUME MailInv, GoodRequests \subseteq GoodRequests', GoodTabs \subseteq GoodTabs', UNCHANGED <<tab, reqs>>,
         pend' \in [Tabs -> 0..Buffer], lost' \in [Tabs -> BOOLEAN]
  PROVE  Viewed'
<1>1. Seq(GoodRequests) \subseteq Seq(GoodRequests')
  BY SeqGrows
<1>2. tab \in [Tabs -> GoodTabs'] /\ reqs \in [Tabs -> Seq(GoodRequests')]
  BY <1>1 DEF MailInv, ViewInv, Viewed
<1> QED
  BY <1>2 DEF Viewed

LEMMA PublishTyped == ASSUME MailInv, Publish
                      PROVE  pend' \in [Tabs -> 0..Buffer]
BY MailAssumption DEF MailInv, ViewInv, Viewed, Publish

\* The sessions, the command line and the projects.
LEMMA OthersView ==
  ASSUME MailInv, SendInv', UNCHANGED <<tab, reqs, box>>,
         UNCHANGED <<rows, atts>> \/ \E ids : rows' = rows \ ids /\ atts' = atts \ ids,
         pend' \in [Tabs -> 0..Buffer], lost' \in [Tabs -> BOOLEAN], Unique'
  PROVE  MailInv'
BY StoreShrinks, ViewsStay DEF MailInv, ViewInv

LEMMA LinkView ==
  ASSUME MailInv, SendInv', NEW p \in Paths, NEW n \in Names, Link(p, n)
  PROVE  MailInv'
<1>1. UNCHANGED <<tab, reqs, box, rows, atts, pend, lost>>
  BY DEF Link, store, views
<1>2. Unique'
  <2>1. project \in [Paths -> Sites]
    BY DEF MailInv, ViewInv, SendInv, SendTyped
  <2> QED
    BY <2>1 DEF Link, MailInv, Unique
<1> QED
  BY <1>1, <1>2, OthersView DEF MailInv, ViewInv, Viewed

LEMMA SessionView ==
  ASSUME MailInv, SendInv', NEW s \in Sessions,
         MailCommand(s) \/ Rcpt(s) \/ Reset(s) \/ Data(s) \/ Refuse(s) \/ Accept(s)
  PROVE  MailInv'
<1>1. UNCHANGED <<tab, reqs, box, rows, atts, lost, project>>
  BY DEF MailCommand, Rcpt, Reset, Data, Refuse, Accept, store, views, projects
<1>2. pend' = pend \/ Publish
  BY DEF MailCommand, Rcpt, Reset, Data, Refuse, Accept, views
<1>3. pend' \in [Tabs -> 0..Buffer]
  BY <1>2, PublishTyped DEF MailInv, ViewInv, Viewed
<1> QED
  BY <1>1, <1>3, OthersView DEF MailInv, ViewInv, Viewed, Unique

LEMMA StoreView ==
  ASSUME MailInv, SendInv', NEW s \in Sessions, Store(s)
  PROVE  MailInv'
<1> DEFINE message == [project |-> smtp[s].project, rcpt |-> smtp[s].rcpt, has |-> smtp[s].has,
                       owner |-> smtp[s].owner, tx |-> smtp[s].tx]
           id == Len(box) + 1
<1>1. /\ box \in Seq(Message) /\ box' = Append(box, message) /\ rows' = rows \cup {id}
      /\ atts' = IF message.has THEN atts \cup {id} ELSE atts
      /\ UNCHANGED <<tab, reqs, pend, lost, project>>
  BY DEF Store, AddMailMessage, MailInv, ViewInv, SendInv, SendTyped, projects, views
<1> HIDE DEF message
<1>2. /\ Ids = 1..Len(box) /\ Len(box) \in Nat /\ Ids' = Ids \cup {id} /\ id \notin {0} \cup Ids
      /\ box'[id] = message /\ \A i \in Ids : box'[i] = box[i]
  <2>1. box' \in Seq(Message) /\ Len(box') = Len(box) + 1
    BY <1>1 DEF SendInv, SendTyped
  <2> QED
    BY <1>1, <2>1 DEF Ids
<1> HIDE DEF id
<1>3. StoreGood'
  BY <1>1, <1>2 DEF MailInv, ViewInv, StoreGood
<1>4. GoodRequests \subseteq GoodRequests' /\ GoodTabs \subseteq GoodTabs'
  BY <1>1, <1>2, GoodGrow
<1>5. Viewed'
  BY <1>1, <1>4, ViewsStay DEF MailInv, ViewInv, Viewed
<1> QED
  BY <1>1, <1>3, <1>5 DEF MailInv, ViewInv, Unique

LEMMA ClearView ==
  ASSUME MailInv, SendInv', (\E p \in Paths : ClearAsk(p)) \/ ClearYes \/ ClearNo \/ ClearAll \/ ClearUnknown
  PROVE  MailInv'
<1>1. /\ UNCHANGED <<tab, reqs, box, pend, project>>
      /\ UNCHANGED <<rows, atts>> \/ \E ids : rows' = rows \ ids /\ atts' = atts \ ids
  BY DEF ClearAsk, ClearYes, ClearNo, ClearAll, ClearUnknown, ClearMessages, Remove, projects, store, views
<1>2. lost' \in [Tabs -> BOOLEAN]
  BY DEF ClearAsk, ClearYes, ClearNo, ClearAll, ClearUnknown, ClearMessages, views, MailInv, ViewInv, Viewed
<1> QED
  BY <1>1, <1>2, OthersView DEF MailInv, ViewInv, Viewed, Unique

LEMMA SeqSet ==
  ASSUME NEW S, NEW T, S \subseteq T, NEW seq \in Seq(S), NEW i \in DOMAIN seq, NEW new \in T
  PROVE  [seq EXCEPT ![i] = new] \in Seq(T)
<1>1. Len(seq) \in Nat /\ DOMAIN seq = 1..Len(seq) /\ seq \in [1..Len(seq) -> T]
  OBVIOUS
<1>2. [seq EXCEPT ![i] = new] \in [1..Len(seq) -> T]
  BY <1>1
<1> QED
  BY <1>1, <1>2, SeqDef

\* What one tab has and is asked changes.
LEMMA TabStep ==
  ASSUME MailInv, SendInv', StoreGood', GoodRequests \subseteq GoodRequests', GoodTabs \subseteq GoodTabs',
         UNCHANGED project, NEW t \in Tabs, NEW s \in Seq(GoodRequests'), NEW v \in GoodTabs',
         reqs' = [reqs EXCEPT ![t] = s], tab' = [tab EXCEPT ![t] = v],
         pend' \in [Tabs -> 0..Buffer], lost' \in [Tabs -> BOOLEAN]
  PROVE  MailInv'
<1>1. Seq(GoodRequests) \subseteq Seq(GoodRequests')
  BY SeqGrows
<1>2. tab \in [Tabs -> GoodTabs'] /\ reqs \in [Tabs -> Seq(GoodRequests')]
  BY <1>1 DEF MailInv, ViewInv, Viewed
<1>3. tab' \in [Tabs -> GoodTabs'] /\ reqs' \in [Tabs -> Seq(GoodRequests')]
  BY <1>2
<1> QED
  BY <1>3 DEF MailInv, ViewInv, Viewed, Unique

\* A step of the daemon on a request.
LEMMA ServeStep ==
  ASSUME MailInv, SendInv', NEW t \in Tabs, NEW i \in DOMAIN reqs[t], NEW new, UNCHANGED <<tab, box, project>>,
         UNCHANGED <<rows, atts>> \/ \E ids : rows' = rows \ ids /\ atts' = atts \ ids,
         reqs' = [reqs EXCEPT ![t] = [@ EXCEPT ![i] = new]], new \in GoodRequests',
         pend' \in [Tabs -> 0..Buffer], lost' \in [Tabs -> BOOLEAN]
  PROVE  MailInv'
<1>1. StoreGood' /\ GoodRequests \subseteq GoodRequests' /\ GoodTabs \subseteq GoodTabs'
  BY StoreShrinks DEF MailInv, ViewInv
<1>2. reqs[t] \in Seq(GoodRequests) /\ tab[t] \in GoodTabs
  BY DEF MailInv, ViewInv, Viewed
<1>3. [reqs[t] EXCEPT ![i] = new] \in Seq(GoodRequests')
  BY <1>1, <1>2, SeqSet
<1>4. reqs' = [reqs EXCEPT ![t] = [reqs[t] EXCEPT ![i] = new]]
  OBVIOUS
<1>5. tab' = [tab EXCEPT ![t] = tab[t]] /\ tab[t] \in GoodTabs'
  BY <1>1, <1>2 DEF MailInv, ViewInv, Viewed
<1> QED
  BY <1>1, <1>3, <1>4, <1>5, TabStep

\* Request i of tab t becomes r.
Put(all, t, i, r) == [all EXCEPT ![t] = [@ EXCEPT ![i] = r]]

LEMMA Written ==
  ASSUME MailInv, NEW t \in Tabs, NEW i \in DOMAIN reqs[t]
  PROVE  /\ \A a : Put(reqs, t, i, a)[t][i] = a
         /\ \A a, b : Put(Put(reqs, t, i, a), t, i, b) = Put(reqs, t, i, b)
<1>1. reqs \in [Tabs -> Seq(GoodRequests)] /\ reqs[t] \in Seq(GoodRequests)
  BY DEF MailInv, ViewInv, Viewed
<1>2. ASSUME NEW a
      PROVE  /\ Put(reqs, t, i, a)[t] = [reqs[t] EXCEPT ![i] = a]
             /\ Put(reqs, t, i, a)[t][i] = a
  <2>1. Put(reqs, t, i, a)[t] = [reqs[t] EXCEPT ![i] = a]
    BY <1>1 DEF Put
  <2> QED
    BY <1>1, <2>1
<1>3. ASSUME NEW a, NEW b
      PROVE  Put(Put(reqs, t, i, a), t, i, b) = Put(reqs, t, i, b)
  <2> DEFINE q == Put(reqs, t, i, a)
  <2>1. q = [reqs EXCEPT ![t] = [reqs[t] EXCEPT ![i] = a]] /\ q[t] = [reqs[t] EXCEPT ![i] = a]
    BY <1>2 DEF Put
  <2>2. \A seq \in Seq(GoodRequests) : [[seq EXCEPT ![i] = a] EXCEPT ![i] = b] = [seq EXCEPT ![i] = b]
    OBVIOUS
  <2> HIDE DEF q
  <2>3. [q[t] EXCEPT ![i] = b] = [reqs[t] EXCEPT ![i] = b]
    BY <1>1, <2>1, <2>2
  <2>4. Put(q, t, i, b) = [q EXCEPT ![t] = [reqs[t] EXCEPT ![i] = b]]
    BY <2>3 DEF Put
  <2>5. \A s, u : [[reqs EXCEPT ![t] = s] EXCEPT ![t] = u] = [reqs EXCEPT ![t] = u]
    BY <1>1
  <2>6. [q EXCEPT ![t] = [reqs[t] EXCEPT ![i] = b]] = [reqs EXCEPT ![t] = [reqs[t] EXCEPT ![i] = b]]
    BY <2>1, <2>5
  <2>7. Put(q, t, i, b) = Put(reqs, t, i, b)
    BY <2>4, <2>6 DEF Put
  <2> QED
    BY <2>7 DEF q
<1> QED
  BY <1>2, <1>3

\* Half(t, i) and Done(t, i, ok).
LEMMA HalfAndDone ==
  ASSUME MailInv, NEW t \in Tabs, NEW i \in DOMAIN reqs[t]
  PROVE  /\ Half(t, i) => reqs' = [reqs EXCEPT ![t] = [@ EXCEPT ![i] = [reqs[t][i] EXCEPT !.at = "half"]]]
         /\ \A ok : Done(t, i, ok) =>
              reqs' = [reqs EXCEPT ![t] = [@ EXCEPT ![i] = [reqs[t][i] EXCEPT !.at = "done", !.ok = ok]]]
         /\ reqs[t][i] \in GoodRequests
<1>1. reqs \in [Tabs -> Seq(GoodRequests)]
  BY DEF MailInv, ViewInv, Viewed
<1>2. reqs[t] \in Seq(GoodRequests)
  BY <1>1
<1>3. reqs[t][i] \in GoodRequests
  BY <1>2
<1>4. reqs[t][i] = [op |-> reqs[t][i].op, id |-> reqs[t][i].id, push |-> reqs[t][i].push, at |-> reqs[t][i].at,
                    ok |-> reqs[t][i].ok, whole |-> reqs[t][i].whole, ids |-> reqs[t][i].ids]
  BY <1>3 DEF GoodRequests, RequestState
<1>5. Half(t, i) => reqs' = [reqs EXCEPT ![t] = [@ EXCEPT ![i] = [reqs[t][i] EXCEPT !.at = "half"]]]
  BY DEF Half
<1>6. ASSUME NEW ok, Done(t, i, ok)
      PROVE  reqs' = [reqs EXCEPT ![t] = [@ EXCEPT ![i] = [reqs[t][i] EXCEPT !.at = "done", !.ok = ok]]]
  <2> DEFINE r1 == [reqs[t][i] EXCEPT !.at = "done"]
             q == Put(reqs, t, i, r1)
  <2>1. reqs' = Put(q, t, i, [q[t][i] EXCEPT !.ok = ok])
    BY <1>6 DEF Done, Put
  <2>2. q[t][i] = r1
    BY Written
  <2>3. [r1 EXCEPT !.ok = ok] = [reqs[t][i] EXCEPT !.at = "done", !.ok = ok]
    BY <1>4
  <2> HIDE DEF r1
  <2>4. reqs' = Put(reqs, t, i, [reqs[t][i] EXCEPT !.at = "done", !.ok = ok])
    BY <2>1, <2>2, <2>3, Written
  <2> QED
    BY <2>4 DEF Put
<1> QED
  BY <1>3, <1>5, <1>6

LEMMA AnswersGood ==
  ASSUME NEW r \in GoodRequests, Ids' = Ids, rows' \subseteq rows
  PROVE  /\ [r EXCEPT !.at = "half"] \in GoodRequests'
         /\ \A ok \in BOOLEAN : r.op # "detail" \/ ~ok => [r EXCEPT !.at = "done", !.ok = ok] \in GoodRequests'
<1>1. r \in RequestState' /\ r.id \in {0} \cup Ids'
  BY DEF GoodRequests, RequestState
<1>2. [r EXCEPT !.at = "half"] \in RequestState' /\ \A ok \in BOOLEAN : [r EXCEPT !.at = "done", !.ok = ok] \in RequestState'
  BY <1>1 DEF RequestState
<1>3. [r EXCEPT !.at = "half"] \in GoodRequests'
  BY <1>1, <1>2 DEF GoodRequests, RequestState
<1>4. ASSUME NEW ok \in BOOLEAN, r.op # "detail" \/ ~ok
      PROVE  [r EXCEPT !.at = "done", !.ok = ok] \in GoodRequests'
  BY <1>1, <1>2, <1>4 DEF GoodRequests, RequestState
<1> QED
  BY <1>3, <1>4

\* What ServeList(t, i) and ReadAttachments(t, i) make of the request.
LEMMA ListAnswer ==
  ASSUME MailInv, NEW t \in Tabs, NEW i \in DOMAIN reqs[t], ServeList(t, i)
  PROVE  reqs' = Put(reqs, t, i, [reqs[t][i] EXCEPT !.at = "done", !.ok = TRUE, !.ids = rows])
<1> DEFINE r1 == [reqs[t][i] EXCEPT !.at = "done"]
           r2 == [r1 EXCEPT !.ok = TRUE]
           r3 == [r2 EXCEPT !.ids = rows]
           q1 == Put(reqs, t, i, r1)
           q2 == Put(q1, t, i, [q1[t][i] EXCEPT !.ok = TRUE])
<1>1. reqs' = Put(q2, t, i, [q2[t][i] EXCEPT !.ids = rows])
  BY DEF ServeList, Put
<1>2. q2 = Put(reqs, t, i, r2)
  <2>1. q1[t][i] = r1
    BY Written
  <2> HIDE DEF r1
  <2> QED
    BY <2>1, Written
<1>3. reqs' = Put(reqs, t, i, r3)
  <2> HIDE DEF q2, r2
  <2>1. q2[t][i] = r2
    BY <1>2, Written
  <2> QED
    BY <1>1, <1>2, <2>1, Written
<1> QED
  BY <1>3

LEMMA DetailAnswer ==
  ASSUME MailInv, NEW t \in Tabs, NEW i \in DOMAIN reqs[t], ReadAttachments(t, i)
  PROVE  reqs' = Put(reqs, t, i, [reqs[t][i] EXCEPT !.at = "done", !.ok = TRUE,
                                    !.whole = box[reqs[t][i].id].has => reqs[t][i].id \in atts])
<1> DEFINE whole == box[reqs[t][i].id].has => reqs[t][i].id \in atts
           r1 == [reqs[t][i] EXCEPT !.at = "done"]
           r2 == [r1 EXCEPT !.ok = TRUE]
           r3 == [r2 EXCEPT !.whole = whole]
           q1 == Put(reqs, t, i, r1)
           q2 == Put(q1, t, i, [q1[t][i] EXCEPT !.ok = TRUE])
<1>1. reqs' = Put(q2, t, i, [q2[t][i] EXCEPT !.whole = whole])
  BY DEF ReadAttachments, Put
<1>2. q2 = Put(reqs, t, i, r2)
  <2>1. q1[t][i] = r1
    BY Written
  <2> HIDE DEF r1
  <2> QED
    BY <2>1, Written
<1> HIDE DEF whole
<1>3. reqs' = Put(reqs, t, i, r3)
  <2> HIDE DEF q2, r2
  <2>1. q2[t][i] = r2
    BY <1>2, Written
  <2> QED
    BY <1>1, <1>2, <2>1, Written
<1> QED
  BY <1>3 DEF whole

LEMMA ListView ==
  ASSUME MailInv, SendInv', NEW t \in Tabs, NEW i \in DOMAIN reqs[t], UNCHANGED <<tab, project>>, ServeList(t, i)
  PROVE  MailInv'
<1> DEFINE r == [reqs[t][i] EXCEPT !.at = "done", !.ok = TRUE, !.ids = rows]
<1>1. /\ reqs[t][i] \in GoodRequests /\ reqs[t][i].op = "list" /\ rows \subseteq Ids
      /\ UNCHANGED <<box, rows, atts, pend>>
  BY HalfAndDone DEF ServeList, Sent, store, MailInv, ViewInv, StoreGood
<1>2. r \in GoodRequests'
  BY <1>1 DEF GoodRequests, RequestState, Ids
<1>3. pend' \in [Tabs -> 0..Buffer] /\ lost' \in [Tabs -> BOOLEAN]
  BY <1>1 DEF ServeList, MailInv, ViewInv, Viewed
<1>4. reqs' = [reqs EXCEPT ![t] = [@ EXCEPT ![i] = r]]
  BY ListAnswer DEF Put
<1> HIDE DEF r
<1> QED
  BY <1>1, <1>2, <1>3, <1>4, ServeStep

LEMMA AttachmentsView ==
  ASSUME MailInv, SendInv', NEW t \in Tabs, NEW i \in DOMAIN reqs[t], UNCHANGED <<tab, project>>, ReadAttachments(t, i)
  PROVE  MailInv'
<1> DEFINE whole == box[reqs[t][i].id].has => reqs[t][i].id \in atts
           r == [reqs[t][i] EXCEPT !.at = "done", !.ok = TRUE, !.whole = whole]
<1>1. reqs[t][i] \in GoodRequests /\ UNCHANGED <<box, rows, atts, pend, lost>>
  BY HalfAndDone DEF ReadAttachments, store
<1>2. reqs' = [reqs EXCEPT ![t] = [@ EXCEPT ![i] = r]]
  BY DetailAnswer DEF Put
<1>3. r \in GoodRequests'
  <2>1. whole \in BOOLEAN /\ (reqs[t][i].id \in rows => whole)
    BY DEF MailInv, ViewInv, StoreGood
  <2> HIDE DEF whole
  <2> QED
    BY <1>1, <2>1 DEF GoodRequests, RequestState, Ids
<1> HIDE DEF r, whole
<1>4. pend' \in [Tabs -> 0..Buffer] /\ lost' \in [Tabs -> BOOLEAN]
  BY <1>1 DEF MailInv, ViewInv, Viewed
<1> QED
  BY <1>1, <1>2, <1>3, <1>4, ServeStep

\* A request is half done, or answered without being a detail that was read.
LEMMA HalfOrDoneView ==
  ASSUME MailInv, SendInv', NEW t \in Tabs, NEW i \in DOMAIN reqs[t], UNCHANGED <<tab, box, project>>,
         UNCHANGED <<rows, atts>> \/ \E ids : rows' = rows \ ids /\ atts' = atts \ ids,
         Half(t, i) \/ \E ok \in BOOLEAN : Done(t, i, ok) /\ (reqs[t][i].op # "detail" \/ ~ok),
         pend' \in [Tabs -> 0..Buffer], lost' \in [Tabs -> BOOLEAN]
  PROVE  MailInv'
<1>1. reqs[t][i] \in GoodRequests /\ Ids' = Ids /\ rows' \subseteq rows
  BY HalfAndDone DEF Ids
<1>2. CASE Half(t, i)
  <2> DEFINE new == [reqs[t][i] EXCEPT !.at = "half"]
  <2>1. new \in GoodRequests'
    BY <1>1, AnswersGood
  <2>2. reqs' = [reqs EXCEPT ![t] = [@ EXCEPT ![i] = new]]
    BY <1>2, HalfAndDone
  <2> HIDE DEF new
  <2> QED
    BY <2>1, <2>2, ServeStep
<1>3. ASSUME NEW ok \in BOOLEAN, Done(t, i, ok), reqs[t][i].op # "detail" \/ ~ok
      PROVE  MailInv'
  <2> DEFINE new == [reqs[t][i] EXCEPT !.at = "done", !.ok = ok]
  <2>1. new \in GoodRequests'
    BY <1>1, <1>3, AnswersGood
  <2>2. reqs' = [reqs EXCEPT ![t] = [@ EXCEPT ![i] = new]]
    BY <1>3, HalfAndDone
  <2> HIDE DEF new
  <2> QED
    BY <2>1, <2>2, ServeStep
<1> QED
  BY <1>2, <1>3

LEMMA ServeView ==
  ASSUME MailInv, SendInv', NEW t \in Tabs, Serve(t)
  PROVE  MailInv'
<1>1. PICK i \in DOMAIN reqs[t] :
        \/ ServeList(t, i) \/ ReadMessage(t, i) \/ ReadAttachments(t, i) \/ DeleteMail(t, i)
        \/ ClearMail(t, i) \/ AnswerCleared(t, i) \/ Fail(t, i)
  BY DEF Serve
<1>2. UNCHANGED <<tab, project>>
  BY DEF Serve, projects
<1>3. pend \in [Tabs -> 0..Buffer] /\ lost \in [Tabs -> BOOLEAN]
  BY DEF MailInv, ViewInv, Viewed
<1>4. CASE ServeList(t, i)
  BY <1>2, <1>4, ListView
<1>5. CASE ReadMessage(t, i)
  BY <1>2, <1>3, <1>5, HalfOrDoneView DEF ReadMessage, store
<1>6. CASE ReadAttachments(t, i)
  BY <1>2, <1>6, AttachmentsView
<1>7. CASE DeleteMail(t, i)
  <2>1. UNCHANGED box /\ (UNCHANGED <<rows, atts>> \/ \E ids : rows' = rows \ ids /\ atts' = atts \ ids)
    BY <1>7 DEF DeleteMail, Remove, store
  <2> QED
    BY <1>2, <1>3, <1>7, <2>1, HalfOrDoneView DEF DeleteMail
<1>8. CASE ClearMail(t, i)
  <2>1. UNCHANGED box /\ \E ids : rows' = rows \ ids /\ atts' = atts \ ids
    BY <1>8 DEF ClearMail, Remove
  <2> QED
    BY <1>2, <1>3, <1>8, <2>1, HalfOrDoneView DEF ClearMail
<1>9. CASE AnswerCleared(t, i)
  <2>1. reqs[t][i].op # "detail" /\ Done(t, i, TRUE) /\ UNCHANGED <<box, rows, atts, lost>>
    BY <1>9 DEF AnswerCleared, Halfway, store
  <2>2. pend' \in [Tabs -> 0..Buffer]
    BY <1>9, PublishTyped DEF AnswerCleared
  <2> QED
    BY <1>2, <1>3, <2>1, <2>2, HalfOrDoneView
<1>10. CASE Fail(t, i)
  <2>1. Done(t, i, FALSE) /\ UNCHANGED <<box, rows, atts, pend>>
    BY <1>10 DEF Fail, store
  <2>2. lost' \in [Tabs -> BOOLEAN]
    BY <1>3, <1>10 DEF Fail
  <2> QED
    BY <1>2, <1>3, <2>1, <2>2, HalfOrDoneView
<1> QED
  BY <1>1, <1>4, <1>5, <1>6, <1>7, <1>8, <1>9, <1>10

\* A tab goes on, and the store stays.
LEMMA TabMoves ==
  ASSUME MailInv, SendInv', UNCHANGED <<box, rows, atts, project>>,
         NEW t \in Tabs, NEW s \in Seq(GoodRequests), NEW v \in GoodTabs,
         reqs' = [reqs EXCEPT ![t] = s], tab' = [tab EXCEPT ![t] = v],
         pend' \in [Tabs -> 0..Buffer], lost' \in [Tabs -> BOOLEAN]
  PROVE  MailInv'
<1>1. StoreGood' /\ GoodRequests \subseteq GoodRequests' /\ GoodTabs \subseteq GoodTabs'
  BY StoreShrinks DEF MailInv, ViewInv
<1>2. s \in Seq(GoodRequests')
  BY <1>1, SeqGrows
<1> QED
  BY <1>1, <1>2, TabStep

LEMMA SelectionIs ==
  ASSUME SendInv, NEW v \in GoodTabs, NEW ids \in SUBSET Ids
  PROVE  Selection(v, ids) \in {0} \cup Ids
<1>1. CASE ids = {}
  <2>1. v.sel \notin ids /\ v.route \notin ids
    BY <1>1
  <2> QED
    BY <1>1, <2>1 DEF Selection, Max0
<1>2. CASE ids # {}
  <2>1. ids \subseteq 0..MaxMails /\ MaxMails \in Nat
    BY IdsBounded, MailAssumption
  <2>2. \E i \in ids : \A j \in ids : j <= i
    BY <1>2, <2>1, NewestIs
  <2>3. Max0(ids) \in ids
    BY <1>2, <2>2 DEF Max0
  <2> QED
    BY <2>3 DEF Selection, GoodTabs
<1> QED
  BY <1>1, <1>2

LEMMA ListArrivesView ==
  ASSUME MailInv, SendInv', UNCHANGED <<box, rows, atts, project, pend, lost>>,
         NEW t \in Tabs, NEW i \in DOMAIN reqs[t], ListArrives(t, i)
  PROVE  MailInv'
<1> DEFINE ids == reqs[t][i].ids
           sel == Selection(tab[t], ids)
           ask == IF ids = {} THEN <<>> ELSE <<Request("detail", sel, FALSE)>>
           s == Without(reqs[t], i) \o ask
           v == [tab[t] EXCEPT !.list = ids, !.sel = sel, !.shown = IF ids = {} THEN 0 ELSE @]
<1>1. reqs[t] \in Seq(GoodRequests) /\ reqs[t][i] \in GoodRequests /\ tab \in [Tabs -> GoodTabs] /\ tab[t] \in GoodTabs
  BY HalfAndDone DEF MailInv, ViewInv, Viewed
<1>2. ids \in SUBSET Ids
  BY <1>1 DEF GoodRequests, RequestState
<1>3. SendInv
  BY DEF MailInv, ViewInv
<1>4. sel \in {0} \cup Ids
  BY <1>1, <1>2, <1>3, SelectionIs
<1>5. reqs' = [reqs EXCEPT ![t] = s]
  BY DEF ListArrives
<1>6. tab' = [tab EXCEPT ![t] = v]
  BY <1>1 DEF ListArrives
<1> HIDE DEF sel, ids
<1>7. v \in GoodTabs
  <2>1. 0 \notin rows /\ sel \in 0..MaxMails /\ 0 \in 0..MaxMails
    BY <1>3, <1>4, IdsBounded, MailAssumption DEF MailInv, ViewInv, StoreGood
  <2> QED
    BY <1>1, <1>2, <1>4, <2>1 DEF GoodTabs, TabState
<1>8. s \in Seq(GoodRequests)
  <2>1. Request("detail", sel, FALSE) \in GoodRequests
    BY <1>3, <1>4, RequestGood
  <2>2. ask \in Seq(GoodRequests)
    <3> DEFINE detail == Request("detail", sel, FALSE)
    <3> HIDE DEF detail
    <3>1. detail \in GoodRequests
      BY <2>1 DEF detail
    <3>2. <<detail>> \in Seq(GoodRequests) /\ <<>> \in Seq(GoodRequests)
      BY <3>1
    <3> QED
      BY <3>2 DEF detail
  <2>3. Without(reqs[t], i) \in Seq(GoodRequests)
    BY <1>1, WithoutTyped
  <2> HIDE DEF ask
  <2> QED
    BY <2>2, <2>3
<1>9. pend' \in [Tabs -> 0..Buffer] /\ lost' \in [Tabs -> BOOLEAN]
  BY DEF MailInv, ViewInv, Viewed
<1> HIDE DEF s, v
<1> QED
  BY <1>5, <1>6, <1>7, <1>8, <1>9, TabMoves

LEMMA DetailArrivesView ==
  ASSUME MailInv, SendInv', UNCHANGED <<box, rows, atts, project, pend, lost>>,
         NEW t \in Tabs, NEW i \in DOMAIN reqs[t], NextToArrive(t, i), LoadFails(t, i) \/ DetailArrives(t, i)
  PROVE  MailInv'
<1> DEFINE r == reqs[t][i]
           s == Without(reqs[t], i)
           v == IF r.op = "detail" /\ r.ok
                  THEN [tab[t] EXCEPT !.shown = r.id, !.whole = r.whole, !.route = IF r.push THEN r.id ELSE @]
                  ELSE tab[t]
<1>1. reqs[t] \in Seq(GoodRequests) /\ r \in GoodRequests /\ tab \in [Tabs -> GoodTabs] /\ tab[t] \in GoodTabs
  BY HalfAndDone DEF MailInv, ViewInv, Viewed
<1>2. s \in Seq(GoodRequests)
  BY <1>1, WithoutTyped
<1>3. reqs' = [reqs EXCEPT ![t] = s]
  BY DEF LoadFails, DetailArrives
<1>4. tab' = [tab EXCEPT ![t] = v]
  <2>1. tab = [tab EXCEPT ![t] = tab[t]]
    BY <1>1
  <2>2. CASE LoadFails(t, i)
    BY <2>1, <2>2 DEF LoadFails
  <2>3. CASE DetailArrives(t, i) /\ ~r.ok
    BY <2>1, <2>3 DEF DetailArrives
  <2>4. CASE DetailArrives(t, i) /\ r.ok
    BY <1>1, <2>4 DEF DetailArrives
  <2> QED
    BY <2>2, <2>3, <2>4
<1>5. r.at = "done"
  BY DEF NextToArrive
<1> HIDE DEF r
<1>6. v \in GoodTabs
  BY <1>1, <1>5 DEF GoodTabs, TabState, GoodRequests, RequestState
<1>7. pend' \in [Tabs -> 0..Buffer] /\ lost' \in [Tabs -> BOOLEAN]
  BY DEF MailInv, ViewInv, Viewed
<1> HIDE DEF s, v
<1> QED
  BY <1>2, <1>3, <1>4, <1>6, <1>7, TabMoves

LEMMA DeleteArrivesView ==
  ASSUME MailInv, SendInv', UNCHANGED <<box, rows, atts, project, pend, lost>>,
         NEW t \in Tabs, NEW i \in DOMAIN reqs[t], DeleteArrives(t, i)
  PROVE  MailInv'
<1> DEFINE r == reqs[t][i]
           ask == IF r.ok THEN <<LoadMail>> ELSE <<>>
           s == Without(reqs[t], i) \o ask
           v == IF r.ok /\ (r.op = "clear" \/ tab[t].sel = r.id) THEN [tab[t] EXCEPT !.sel = 0, !.shown = 0] ELSE tab[t]
<1>1. reqs[t] \in Seq(GoodRequests) /\ tab \in [Tabs -> GoodTabs] /\ tab[t] \in GoodTabs /\ SendInv
  BY DEF MailInv, ViewInv, Viewed
<1>2. s \in Seq(GoodRequests)
  <2>1. LoadMail \in GoodRequests
    BY <1>1, RequestGood DEF LoadMail
  <2>2. ask \in Seq(GoodRequests)
    BY <2>1
  <2>3. Without(reqs[t], i) \in Seq(GoodRequests)
    BY <1>1, WithoutTyped
  <2> HIDE DEF ask
  <2> QED
    BY <2>2, <2>3
<1>3. reqs' = [reqs EXCEPT ![t] = s]
  BY DEF DeleteArrives
<1>4. tab' = [tab EXCEPT ![t] = v]
  BY <1>1 DEF DeleteArrives
<1>5. v \in GoodTabs
  <2>1. 0 \notin rows /\ 0 \in 0..MaxMails
    BY <1>1, IdsBounded, MailAssumption DEF MailInv, ViewInv, StoreGood
  <2> QED
    BY <1>1, <2>1 DEF GoodTabs, TabState
<1>6. pend' \in [Tabs -> 0..Buffer] /\ lost' \in [Tabs -> BOOLEAN]
  BY DEF MailInv, ViewInv, Viewed
<1> HIDE DEF s, v
<1> QED
  BY <1>2, <1>3, <1>4, <1>5, <1>6, TabMoves

LEMMA ArriveView ==
  ASSUME MailInv, SendInv', NEW t \in Tabs, Arrive(t)
  PROVE  MailInv'
<1>1. UNCHANGED <<box, rows, atts, project, pend, lost>>
  BY DEF Arrive, projects, store
<1>2. PICK i \in DOMAIN reqs[t] :
        NextToArrive(t, i) /\ (ListArrives(t, i) \/ LoadFails(t, i) \/ DetailArrives(t, i) \/ DeleteArrives(t, i))
  BY DEF Arrive
<1> QED
  BY <1>1, <1>2, ListArrivesView, DetailArrivesView, DeleteArrivesView

\* A request more.
LEMMA AskView ==
  ASSUME MailInv, SendInv', UNCHANGED <<box, rows, atts, project>>,
         NEW t \in Tabs, NEW r \in GoodRequests, NEW v \in GoodTabs,
         Ask(t, r) \/ UNCHANGED reqs, tab' = [tab EXCEPT ![t] = v],
         pend' \in [Tabs -> 0..Buffer], lost' \in [Tabs -> BOOLEAN]
  PROVE  MailInv'
<1>1. reqs \in [Tabs -> Seq(GoodRequests)] /\ reqs[t] \in Seq(GoodRequests)
  BY DEF MailInv, ViewInv, Viewed
<1>2. CASE Ask(t, r)
  <2>1. Append(reqs[t], r) \in Seq(GoodRequests)
    BY <1>1
  <2>2. reqs' = [reqs EXCEPT ![t] = Append(reqs[t], r)]
    BY <1>2 DEF Ask
  <2> QED
    BY <2>1, <2>2, TabMoves
<1>3. CASE UNCHANGED reqs
  <2>1. reqs' = [reqs EXCEPT ![t] = reqs[t]]
    BY <1>1, <1>3
  <2> QED
    BY <1>1, <2>1, TabMoves
<1> QED
  BY <1>2, <1>3

LEMMA UserView ==
  ASSUME MailInv, SendInv', NEW t \in Tabs,
         HandleEvent(t) \/ SelectMail(t) \/ DeleteClicked(t) \/ Navigate(t) \/ Reload(t)
  PROVE  MailInv'
<1>1. UNCHANGED <<box, rows, atts, project, lost>>
  BY DEF HandleEvent, SelectMail, DeleteClicked, Navigate, Reload, projects, store
<1>2. /\ SendInv /\ tab \in [Tabs -> GoodTabs] /\ tab[t] \in GoodTabs /\ tab = [tab EXCEPT ![t] = tab[t]]
      /\ reqs \in [Tabs -> Seq(GoodRequests)] /\ pend \in [Tabs -> 0..Buffer] /\ lost' \in [Tabs -> BOOLEAN]
  BY <1>1 DEF MailInv, ViewInv, Viewed
<1>3. LoadMail \in GoodRequests /\ \A id \in {0} \cup Ids :
        Request("detail", id, TRUE) \in GoodRequests /\ Request("delete", id, FALSE) \in GoodRequests
                                                     /\ Request("clear", id, FALSE) \in GoodRequests
  BY <1>2, RequestGood DEF LoadMail
<1>4. tab[t].list \subseteq Ids
  BY <1>2 DEF GoodTabs, TabState
<1>5. CASE HandleEvent(t)
  <2>1. pend' \in [Tabs -> 0..Buffer]
    BY <1>2, <1>5, MailAssumption DEF HandleEvent
  <2>2. tab' = [tab EXCEPT ![t] = tab[t]] /\ (Ask(t, LoadMail) \/ UNCHANGED reqs)
    BY <1>2, <1>5 DEF HandleEvent
  <2> QED
    BY <1>1, <1>2, <1>3, <2>1, <2>2, AskView
<1>6. CASE SelectMail(t)
  <2>1. PICK id \in tab[t].list : tab' = [tab EXCEPT ![t].sel = id] /\ Ask(t, Request("detail", id, TRUE))
    BY <1>6 DEF SelectMail
  <2> DEFINE v == [tab[t] EXCEPT !.sel = id]
             r == Request("detail", id, TRUE)
  <2>2. v \in GoodTabs
    BY <1>2, <1>4, IdsBounded DEF GoodTabs, TabState
  <2>3. r \in GoodRequests /\ Ask(t, r) /\ tab' = [tab EXCEPT ![t] = v] /\ pend' \in [Tabs -> 0..Buffer]
    BY <1>2, <1>3, <1>4, <1>6, <2>1 DEF SelectMail
  <2> HIDE DEF v, r
  <2> QED
    BY <1>1, <1>2, <2>2, <2>3, AskView
<1>7. CASE DeleteClicked(t)
  <2>1. tab' = [tab EXCEPT ![t] = tab[t]] /\ pend' \in [Tabs -> 0..Buffer]
    BY <1>2, <1>7 DEF DeleteClicked
  <2>2. \E r \in GoodRequests : Ask(t, r)
    BY <1>3, <1>4, <1>7 DEF DeleteClicked
  <2> QED
    BY <1>1, <1>2, <2>1, <2>2, AskView
<1>8. CASE Navigate(t)
  <2>1. pend' \in [Tabs -> 0..Buffer]
    BY <1>2, <1>8 DEF Navigate
  <2>2. CASE tab' = [tab EXCEPT ![t].mail = FALSE, ![t].route = 0] /\ UNCHANGED reqs
    <3> DEFINE v == [tab[t] EXCEPT !.mail = FALSE, !.route = 0]
    <3>1. v \in GoodTabs
      BY <1>2, IdsBounded DEF GoodTabs, TabState
    <3>2. tab' = [tab EXCEPT ![t] = v]
      BY <1>2, <2>2
    <3> HIDE DEF v
    <3> QED
      BY <1>1, <1>2, <1>3, <2>1, <2>2, <3>1, <3>2, AskView
  <2>3. ASSUME NEW id \in {0} \cup Ids, tab' = [tab EXCEPT ![t].mail = TRUE, ![t].route = id], Ask(t, LoadMail)
        PROVE  MailInv'
    <3> DEFINE v == [tab[t] EXCEPT !.mail = TRUE, !.route = id]
    <3>1. v \in GoodTabs
      BY <1>2, IdsBounded DEF GoodTabs, TabState
    <3>2. tab' = [tab EXCEPT ![t] = v]
      BY <1>2, <2>3
    <3> HIDE DEF v
    <3> QED
      BY <1>1, <1>2, <1>3, <2>1, <2>3, <3>1, <3>2, AskView
  <2> QED
    BY <1>8, <2>2, <2>3 DEF Navigate
<1>9. CASE Reload(t)
  <2> DEFINE v == [NewTab EXCEPT !.mail = tab[t].mail, !.route = tab[t].route]
             s == <<LoadMail>>
  <2>1. tab[t].mail \in BOOLEAN /\ tab[t].route \in {0} \cup Ids
    BY <1>2 DEF GoodTabs, TabState
  <2>2. v \in GoodTabs
    BY <1>2, <2>1, NewTabGood
  <2>3. s \in Seq(GoodRequests)
    BY <1>3
  <2>4. pend' \in [Tabs -> 0..Buffer]
    BY <1>2, <1>9, MailAssumption DEF Reload
  <2>5. reqs' = [reqs EXCEPT ![t] = s] /\ tab' = [tab EXCEPT ![t] = v]
    BY <1>9 DEF Reload
  <2> HIDE DEF v, s
  <2> QED
    BY <1>1, <1>2, <2>2, <2>3, <2>4, <2>5, TabMoves
<1> QED
  BY <1>5, <1>6, <1>7, <1>8, <1>9

LEMMA CrashView ==
  ASSUME MailInv, SendInv', Crash
  PROVE  MailInv'
<1>1. UNCHANGED <<tab, box, rows, atts, project>>
  BY DEF Crash, projects, store
<1>2. StoreGood' /\ GoodTabs \subseteq GoodTabs'
  BY <1>1, StoreShrinks DEF MailInv, ViewInv
<1>3. tab' \in [Tabs -> GoodTabs']
  BY <1>1, <1>2 DEF MailInv, ViewInv, Viewed
<1>4. reqs' \in [Tabs -> Seq(GoodRequests')] /\ pend' \in [Tabs -> 0..Buffer] /\ lost' \in [Tabs -> BOOLEAN]
  BY MailAssumption DEF Crash
<1> QED
  BY <1>1, <1>2, <1>3, <1>4 DEF MailInv, ViewInv, Viewed, Unique

LEMMA StaysView ==
  ASSUME MailInv, SendInv', UNCHANGED vars
  PROVE  MailInv'
BY OthersView DEF vars, projects, store, sending, views, MailInv, ViewInv, Viewed, Unique

LEMMA MailStep == MailInv /\ [Next]_vars => MailInv'
<1> SUFFICES ASSUME MailInv, [Next]_vars
             PROVE  MailInv'
  OBVIOUS
<1>1. SendInv'
  BY SendStep DEF MailInv, ViewInv
<1>2. CASE UNCHANGED vars
  BY <1>1, <1>2, StaysView
<1>3. ASSUME NEW p \in Paths, NEW n \in Names, Link(p, n)
      PROVE  MailInv'
  BY <1>1, <1>3, LinkView
<1>4. ASSUME NEW s \in Sessions, MailCommand(s) \/ Rcpt(s) \/ Reset(s) \/ Data(s) \/ Store(s) \/ Refuse(s) \/ Accept(s)
      PROVE  MailInv'
  BY <1>1, <1>4, SessionView, StoreView
<1>5. CASE (\E p \in Paths : ClearAsk(p)) \/ ClearYes \/ ClearNo \/ ClearAll \/ ClearUnknown
  BY <1>1, <1>5, ClearView
<1>6. ASSUME NEW t \in Tabs, Serve(t) \/ Arrive(t) \/ HandleEvent(t) \/ SelectMail(t) \/ DeleteClicked(t)
                             \/ Navigate(t) \/ Reload(t)
      PROVE  MailInv'
  BY <1>1, <1>6, ServeView, ArriveView, UserView
<1>7. CASE Crash
  BY <1>1, <1>7, CrashView
<1> QED
  BY <1>2, <1>3, <1>4, <1>5, <1>6, <1>7 DEF Next

(***************************************************************************)
(* For any sessions, tabs and bounds: every variable keeps its type; no    *)
(* name is that of two directories, and attachments are only of messages   *)
(* that are in the store.                                                  *)
(***************************************************************************)
THEOREM MailTypeCorrect == Spec => []TypeOK
<1> QED
  BY MailInit, MailStep, MailInvTypes, PTL DEF Spec

(***************************************************************************)
(* For any sessions, tabs and requests, in any order: a message that a tab *)
(* shows without its attachments is not in the store any more.             *)
(***************************************************************************)
THEOREM DetailStaysWhole == Spec => []DetailIsWholeOrGone
<1>1. MailInv => DetailIsWholeOrGone
  BY DEF MailInv, ViewInv, Viewed, GoodTabs, DetailIsWholeOrGone
<1> QED
  BY <1>1, MailInit, MailStep, PTL DEF Spec

-----------------------------------------------------------------------------
(* A mail view at rest *)

\* A list that was read, and a request that will lead to a read.
Listed(r) == r.op = "list" /\ r.at = "done" /\ r.ok

Loads(r) ==
  \/ r.op = "list" /\ r.at = "sent"
  \/ r.op \in {"delete", "clear"} /\ (r.at = "half" \/ (r.at = "done" /\ r.ok))

Detail(r) == r.op = "detail"

\* A detail that has not found its message.
NotFound(r) == r.at = "sent" \/ (r.at = "done" /\ ~r.ok)

\* The daemon works on one request after the other.
InOrder(q) == \A j \in DOMAIN q : q[j].at # "sent" => \A i \in 1..j - 1 : q[i].at = "done"

\* No later request satisfies what request i does.
LastListed(q, i) == Listed(q[i]) /\ \A j \in DOMAIN q : j > i => ~Listed(q[j])
LastDetail(q, i) == Detail(q[i]) /\ \A j \in DOMAIN q : j > i => ~Detail(q[j])

\* Once the mailbox was read empty, all that the tab has heard of before is gone.
EmptyIsEmpty(v, q, left) ==
  \A i \in DOMAIN q : Listed(q[i]) /\ q[i].ids = {} =>
    /\ v.list \cap left = {}
    /\ \A j \in DOMAIN q : /\ Detail(q[j]) => q[j].id \notin left /\ (j > i => NotFound(q[j]))
                           /\ Listed(q[j]) /\ j < i => q[j].ids \cap left = {}

NothingShown(v, q, left) ==
  /\ v.list = {} /\ v.sel = 0 /\ v.shown = 0
  /\ \A j \in DOMAIN q : Detail(q[j]) => q[j].id \notin left /\ NotFound(q[j])

SelectedShown(v, q, left) ==
  /\ v.sel \in v.list
  /\ \A j \in DOMAIN q : LastDetail(q, j) =>
       q[j].id = v.sel /\ (q[j].at = "done" /\ ~q[j].ok => v.sel \notin left)
  /\ (\A j \in DOMAIN q : ~Detail(q[j])) => v.shown = v.sel \/ v.sel \notin left

\* A tab shows what it has selected from its list, or asks for it, or will do so
\* when the next list arrives.
Settled(v, q, left) ==
  \/ \E i \in DOMAIN q : Listed(q[i]) \/ Loads(q[i])
  \/ NothingShown(v, q, left)
  \/ SelectedShown(v, q, left)

\* The last list that was read, the one shown if none is on its way, is the
\* mailbox.
ReadLast(v, q, left) ==
  /\ \A i \in DOMAIN q : LastListed(q, i) => q[i].ids = left
  /\ (\A i \in DOMAIN q : ~Listed(q[i])) => v.list = left

\* A change of the store that is still to be announced to all.
Unannounced ==
  \/ \E s \in Sessions : smtp[s].at = "stored"
  \/ \E t \in Tabs : Deleting(t)

\* A mail view whose last read is not the mailbox has another one coming.
UpToDate(t) ==
  \/ pend[t] > 0 \/ Unannounced
  \/ \E i \in DOMAIN reqs[t] : Loads(reqs[t][i])
  \/ ReadLast(tab[t], reqs[t], rows)

RestTab(t) ==
  /\ InOrder(reqs[t])
  /\ EmptyIsEmpty(tab[t], reqs[t], rows)
  /\ ~lost[t] => Settled(tab[t], reqs[t], rows) /\ (tab[t].mail => UpToDate(t))

RestInv == \A t \in Tabs : RestTab(t)

\* The store loses messages, or gets a new one.
LEMMA StoreKeepsRest ==
  ASSUME NEW v \in GoodTabs, NEW q \in Seq(GoodRequests), NEW left,
         \A i \in {0} \cup Ids : i \in left => i \in rows
  PROVE  /\ EmptyIsEmpty(v, q, rows) => EmptyIsEmpty(v, q, left)
         /\ Settled(v, q, rows) => Settled(v, q, left)
<1>1. \A i \in DOMAIN q : q[i].id \in {0} \cup Ids /\ q[i].ids \subseteq Ids
  <2>1. \A i \in DOMAIN q : q[i] \in GoodRequests
    OBVIOUS
  <2> QED
    BY <2>1 DEF GoodRequests, RequestState
<1>2. v.list \subseteq Ids /\ v.sel \in {0} \cup Ids
  BY DEF GoodTabs, TabState
<1>3. EmptyIsEmpty(v, q, rows) => EmptyIsEmpty(v, q, left)
  BY <1>1, <1>2 DEF EmptyIsEmpty
<1>4. NothingShown(v, q, rows) => NothingShown(v, q, left)
  BY <1>1, <1>2 DEF NothingShown
<1>5. SelectedShown(v, q, rows) => SelectedShown(v, q, left)
  BY <1>1, <1>2 DEF SelectedShown
<1> QED
  BY <1>3, <1>4, <1>5 DEF Settled

\* The first request is over.
LEMMA HeadGoes ==
  ASSUME NEW n \in Nat, NEW q, NEW rest, DOMAIN q = 1..n + 1, DOMAIN rest = 1..n,
         \A j \in 1..n : rest[j] = q[j + 1]
  PROVE  /\ InOrder(q) => InOrder(rest)
         /\ \A v, left : EmptyIsEmpty(v, q, left) => EmptyIsEmpty(v, rest, left)
         /\ \A i \in 1..n : LastListed(rest, i) <=> LastListed(q, i + 1)
         /\ \A i \in 1..n : LastDetail(rest, i) <=> LastDetail(q, i + 1)
         /\ \A i \in 1..n + 1 : i = 1 \/ \E j \in 1..n : i = j + 1
<1>0. \A i \in 1..n : i + 1 \in 1..n + 1
  OBVIOUS
<1>5. \A i \in 1..n + 1 : i = 1 \/ \E j \in 1..n : i = j + 1
  <2> SUFFICES ASSUME NEW i \in 1..n + 1, i # 1
               PROVE  \E j \in 1..n : i = j + 1
    OBVIOUS
  <2>1. i - 1 \in 1..n /\ i = (i - 1) + 1
    OBVIOUS
  <2> QED
    BY <2>1
<1>1. ASSUME InOrder(q)
      PROVE  InOrder(rest)
  <2> SUFFICES ASSUME NEW j \in 1..n, rest[j].at # "sent", NEW i \in 1..j - 1
               PROVE  rest[i].at = "done"
    BY DEF InOrder
  <2>1. i \in 1..n /\ j + 1 \in 1..n + 1 /\ i + 1 \in 1..(j + 1) - 1
    OBVIOUS
  <2> QED
    BY <1>1, <2>1 DEF InOrder
<1>2. ASSUME NEW v, NEW left, EmptyIsEmpty(v, q, left)
      PROVE  EmptyIsEmpty(v, rest, left)
  <2> SUFFICES ASSUME NEW i \in 1..n, Listed(rest[i]), rest[i].ids = {}
               PROVE  /\ v.list \cap left = {}
                      /\ \A j \in 1..n : /\ Detail(rest[j]) => rest[j].id \notin left /\ (j > i => NotFound(rest[j]))
                                         /\ Listed(rest[j]) /\ j < i => rest[j].ids \cap left = {}
    BY DEF EmptyIsEmpty
  <2>1. i + 1 \in 1..n + 1 /\ Listed(q[i + 1]) /\ q[i + 1].ids = {}
    BY <1>0
  <2>2. v.list \cap left = {}
    BY <1>2, <2>1 DEF EmptyIsEmpty
  <2>3. ASSUME NEW j \in 1..n
        PROVE  /\ Detail(rest[j]) => rest[j].id \notin left /\ (j > i => NotFound(rest[j]))
               /\ Listed(rest[j]) /\ j < i => rest[j].ids \cap left = {}
    <3>1. j + 1 \in 1..n + 1 /\ rest[j] = q[j + 1] /\ (j > i => j + 1 > i + 1) /\ (j < i => j + 1 < i + 1)
      BY <1>0
    <3> QED
      BY <1>2, <2>1, <3>1 DEF EmptyIsEmpty
  <2> QED
    BY <2>2, <2>3
<1>3. ASSUME NEW i \in 1..n
      PROVE  LastListed(rest, i) <=> LastListed(q, i + 1)
  <2>1. ASSUME LastListed(rest, i), NEW j \in 1..n + 1, j > i + 1
        PROVE  ~Listed(q[j])
    <3>1. PICK k \in 1..n : j = k + 1
      BY <1>5, <2>1
    <3>2. k > i
      BY <2>1, <3>1
    <3> QED
      BY <2>1, <3>1, <3>2 DEF LastListed
  <2>2. ASSUME LastListed(q, i + 1), NEW j \in 1..n, j > i
        PROVE  ~Listed(rest[j])
    <3>1. j + 1 \in 1..n + 1 /\ j + 1 > i + 1
      BY <2>2
    <3> QED
      BY <2>2, <3>1 DEF LastListed
  <2> QED
    BY <1>0, <2>1, <2>2 DEF LastListed
<1>4. ASSUME NEW i \in 1..n
      PROVE  LastDetail(rest, i) <=> LastDetail(q, i + 1)
  <2>1. ASSUME LastDetail(rest, i), NEW j \in 1..n + 1, j > i + 1
        PROVE  ~Detail(q[j])
    <3>1. PICK k \in 1..n : j = k + 1
      BY <1>5, <2>1
    <3>2. k > i
      BY <2>1, <3>1
    <3> QED
      BY <2>1, <3>1, <3>2 DEF LastDetail
  <2>2. ASSUME LastDetail(q, i + 1), NEW j \in 1..n, j > i
        PROVE  ~Detail(rest[j])
    <3>1. j + 1 \in 1..n + 1 /\ j + 1 > i + 1
      BY <2>2
    <3> QED
      BY <2>2, <3>1 DEF LastDetail
  <2> QED
    BY <1>0, <2>1, <2>2 DEF LastDetail
<1> QED
  BY <1>1, <1>2, <1>3, <1>4, <1>5

\* A request that has been sent joins the others.
LEMMA TailJoins ==
  ASSUME NEW n \in Nat, NEW q, NEW more, DOMAIN q = 1..n, DOMAIN more = 1..n + 1,
         \A j \in 1..n : more[j] = q[j], more[n + 1].at = "sent", NEW v, NEW left
  PROVE  /\ InOrder(q) => InOrder(more)
         /\ EmptyIsEmpty(v, q, left) /\ (Detail(more[n + 1]) => more[n + 1].id \in v.list) =>
              EmptyIsEmpty(v, more, left)
         /\ ReadLast(v, q, left) => ReadLast(v, more, left)
         /\ Settled(v, q, left) /\ ~Detail(more[n + 1]) => Settled(v, more, left)
<1> DEFINE r == more[n + 1]
<1>0. \A i \in 1..n + 1 : i \in 1..n \/ i = n + 1
  OBVIOUS
<1>6. 1..n \subseteq 1..n + 1 /\ n + 1 \in 1..n + 1 /\ \A i \in 1..n : i < n + 1
  OBVIOUS
<1>7. ~Listed(r)
  BY DEF Listed
<1> HIDE DEF r
<1>1. ASSUME InOrder(q)
      PROVE  InOrder(more)
  <2> SUFFICES ASSUME NEW j \in 1..n + 1, more[j].at # "sent", NEW i \in 1..j - 1
               PROVE  more[i].at = "done"
    BY DEF InOrder
  <2>1. j \in 1..n /\ i \in 1..n
    BY <1>0
  <2> QED
    BY <1>1, <2>1 DEF InOrder
<1>2. ASSUME EmptyIsEmpty(v, q, left), Detail(r) => r.id \in v.list
      PROVE  EmptyIsEmpty(v, more, left)
  <2> SUFFICES ASSUME NEW i \in 1..n + 1, Listed(more[i]), more[i].ids = {}
               PROVE  /\ v.list \cap left = {}
                      /\ \A j \in 1..n + 1 : /\ Detail(more[j]) => more[j].id \notin left /\ (j > i => NotFound(more[j]))
                                             /\ Listed(more[j]) /\ j < i => more[j].ids \cap left = {}
    BY DEF EmptyIsEmpty
  <2>1. i \in 1..n
    BY <1>0, <1>7 DEF r
  <2>2. /\ v.list \cap left = {}
        /\ \A j \in 1..n : /\ Detail(more[j]) => more[j].id \notin left /\ (j > i => NotFound(more[j]))
                           /\ Listed(more[j]) /\ j < i => more[j].ids \cap left = {}
    BY <1>2, <2>1 DEF EmptyIsEmpty
  <2>3. Detail(r) => r.id \notin left /\ NotFound(r)
    BY <1>2, <2>2 DEF NotFound, r
  <2> QED
    BY <1>0, <1>7, <2>2, <2>3 DEF r
<1>8. \A i \in 1..n : LastListed(more, i) <=> LastListed(q, i)
  BY <1>0, <1>6, <1>7 DEF LastListed, r
<1>3. ReadLast(v, q, left) => ReadLast(v, more, left)
  BY <1>0, <1>6, <1>7, <1>8 DEF ReadLast, LastListed, r
<1>4. ASSUME Settled(v, q, left), ~Detail(r)
      PROVE  Settled(v, more, left)
  <2>1. \A i \in 1..n : LastDetail(more, i) <=> LastDetail(q, i)
    BY <1>0, <1>6, <1>4 DEF LastDetail, r
  <2>2. NothingShown(v, q, left) => NothingShown(v, more, left)
    BY <1>0, <1>4 DEF NothingShown, r
  <2>3. SelectedShown(v, q, left) => SelectedShown(v, more, left)
    BY <1>0, <1>4, <1>6, <2>1 DEF SelectedShown, LastDetail, r
  <2> QED
    BY <1>4, <1>6, <2>2, <2>3 DEF Settled
<1> QED
  BY <1>1, <1>2, <1>3, <1>4 DEF r

\* The daemon goes on with the first request it has not answered.
LEMMA ServedRest ==
  ASSUME NEW n \in Nat, NEW q, NEW next, DOMAIN q = 1..n, DOMAIN next = 1..n, NEW i \in 1..n, NEW new,
         \A j \in 1..n : next[j] = IF j = i THEN new ELSE q[j],
         InOrder(q), \A j \in 1..i - 1 : q[j].at = "done", q[i].at # "done", new.at # "sent", new.op = q[i].op
  PROVE  /\ InOrder(next)
         /\ \A j \in 1..n : j > i => q[j].at = "sent" /\ ~Listed(q[j])
         /\ \A j \in 1..n : LastDetail(next, j) <=> LastDetail(q, j)
         /\ ~Listed(q[i])
<1>1. \A j \in 1..n : j > i => q[j].at = "sent"
  <2> SUFFICES ASSUME NEW j \in 1..n, j > i, q[j].at # "sent"
               PROVE  FALSE
    OBVIOUS
  <2>1. i \in 1..j - 1
    OBVIOUS
  <2> QED
    BY <2>1 DEF InOrder
<1>2. InOrder(next)
  <2> SUFFICES ASSUME NEW j \in 1..n, next[j].at # "sent", NEW k \in 1..j - 1
               PROVE  next[k].at = "done"
    BY DEF InOrder
  <2>1. k \in 1..n /\ ~(j > i)
    BY <1>1
  <2>2. k \in 1..i - 1
    BY <2>1
  <2> QED
    BY <2>1, <2>2
<1>3. \A j \in 1..n : Detail(next[j]) <=> Detail(q[j])
  BY DEF Detail
<1>4. \A j \in 1..n : LastDetail(next, j) <=> LastDetail(q, j)
  BY <1>3 DEF LastDetail
<1> QED
  BY <1>1, <1>2, <1>4 DEF Listed

\* The mailbox is read.
LEMMA ListServedRest ==
  ASSUME NEW n \in Nat, NEW q, NEW next, DOMAIN q = 1..n, DOMAIN next = 1..n, NEW i \in 1..n, NEW new,
         \A j \in 1..n : next[j] = IF j = i THEN new ELSE q[j],
         InOrder(q), \A j \in 1..i - 1 : q[j].at = "done", q[i].at # "done", new.op = q[i].op,
         NEW v, NEW left, EmptyIsEmpty(v, q, left), Listed(new), new.ids = left
  PROVE  EmptyIsEmpty(v, next, left) /\ Settled(v, next, left) /\ ReadLast(v, next, left)
<1>0. new.at # "sent" /\ ~Detail(new) /\ Listed(next[i])
  BY DEF Listed, Detail
<1>1. /\ \A j \in 1..n : j > i => q[j].at = "sent" /\ ~Listed(q[j])
      /\ new.at # "sent" /\ ~Detail(new) /\ Listed(next[i])
  BY <1>0, ServedRest
<1>2. Settled(v, next, left)
  BY <1>1 DEF Settled
<1>3. ReadLast(v, next, left)
  <2>1. ASSUME NEW j \in 1..n, LastListed(next, j)
        PROVE  j = i
    <3>1. ~(j > i)
      BY <1>1, <2>1 DEF LastListed
    <3>2. ~(i > j)
      BY <1>1, <2>1 DEF LastListed
    <3> QED
      BY <3>1, <3>2
  <2> QED
    BY <1>1, <2>1 DEF ReadLast
<1>4. EmptyIsEmpty(v, next, left)
  <2> SUFFICES ASSUME NEW k \in 1..n, Listed(next[k]), next[k].ids = {}
               PROVE  /\ v.list \cap left = {}
                      /\ \A j \in 1..n : /\ Detail(next[j]) => next[j].id \notin left /\ (j > k => NotFound(next[j]))
                                         /\ Listed(next[j]) /\ j < k => next[j].ids \cap left = {}
    BY DEF EmptyIsEmpty
  <2>1. CASE k = i
    <3>1. left = {}
      BY <2>1
    <3>2. ASSUME NEW j \in 1..n, Detail(next[j]), j > k
          PROVE  NotFound(next[j])
      BY <1>1, <2>1, <3>2 DEF NotFound
    <3> QED
      BY <3>1, <3>2
  <2>2. CASE k # i
    <3>1. ~(k > i) /\ Listed(q[k]) /\ q[k].ids = {}
      BY <1>1, <2>2
    <3>2. /\ v.list \cap left = {}
          /\ \A j \in 1..n : /\ Detail(q[j]) => q[j].id \notin left /\ (j > k => NotFound(q[j]))
                             /\ Listed(q[j]) /\ j < k => q[j].ids \cap left = {}
      BY <3>1 DEF EmptyIsEmpty
    <3> QED
      BY <1>1, <2>2, <3>1, <3>2
  <2> QED
    BY <2>1, <2>2
<1> QED
  BY <1>2, <1>3, <1>4

\* A message is looked for or read, or a request of another kind goes on.
LEMMA OtherServedRest ==
  ASSUME NEW n \in Nat, NEW q, NEW next, DOMAIN q = 1..n, DOMAIN next = 1..n, NEW i \in 1..n, NEW new,
         \A j \in 1..n : next[j] = IF j = i THEN new ELSE q[j],
         InOrder(q), \A j \in 1..i - 1 : q[j].at = "done", q[i].at # "done", new.at # "sent",
         new.op = q[i].op, new.id = q[i].id, ~Listed(new),
         NEW v, NEW left, EmptyIsEmpty(v, q, left),
         Detail(new) => \/ NotFound(new)
                        \/ q[i].at = "sent" /\ q[i].id \in left
                        \/ q[i].at = "half"
  PROVE  /\ EmptyIsEmpty(v, next, left)
         /\ ReadLast(v, q, left) => ReadLast(v, next, left)
         /\ /\ Settled(v, q, left)
            /\ Loads(q[i]) => Loads(new)
            /\ NotFound(new) /\ Detail(new) => new.id \notin left
            => Settled(v, next, left)
<1>1. /\ \A j \in 1..n : LastDetail(next, j) <=> LastDetail(q, j)
      /\ \A j \in 1..n : j > i => q[j].at = "sent" /\ ~Listed(q[j])
      /\ ~Listed(q[i])
  BY ServedRest
<1>2. /\ \A j \in 1..n : Listed(next[j]) <=> Listed(q[j])
      /\ \A j \in 1..n : Listed(q[j]) => next[j] = q[j]
      /\ \A j \in 1..n : (Detail(next[j]) <=> Detail(q[j])) /\ next[j].id = q[j].id
  BY <1>1 DEF Detail
<1>3. EmptyIsEmpty(v, next, left)
  <2> SUFFICES ASSUME NEW k \in 1..n, Listed(q[k]), q[k].ids = {}
               PROVE  /\ v.list \cap left = {}
                      /\ \A j \in 1..n : /\ Detail(next[j]) => next[j].id \notin left /\ (j > k => NotFound(next[j]))
                                         /\ Listed(next[j]) /\ j < k => next[j].ids \cap left = {}
    BY <1>2 DEF EmptyIsEmpty
  <2>1. /\ v.list \cap left = {}
        /\ \A j \in 1..n : /\ Detail(q[j]) => q[j].id \notin left /\ (j > k => NotFound(q[j]))
                           /\ Listed(q[j]) /\ j < k => q[j].ids \cap left = {}
    BY DEF EmptyIsEmpty
  <2>2. k < i
    BY <1>1
  <2>3. Detail(new) => NotFound(new)
    BY <1>2, <2>1, <2>2 DEF NotFound, Detail
  <2> QED
    BY <1>2, <2>1, <2>3
<1>4. ASSUME ReadLast(v, q, left)
      PROVE  ReadLast(v, next, left)
  <2>1. \A j \in 1..n : LastListed(next, j) <=> LastListed(q, j)
    BY <1>2 DEF LastListed
  <2>2. \A j \in 1..n : LastListed(next, j) => next[j] = q[j]
    BY <1>2, <2>1 DEF LastListed
  <2> QED
    BY <1>2, <1>4, <2>1, <2>2 DEF ReadLast
<1>5. ASSUME Settled(v, q, left), Loads(q[i]) => Loads(new), NotFound(new) /\ Detail(new) => new.id \notin left
      PROVE  Settled(v, next, left)
  <2>1. CASE \E j \in 1..n : Listed(q[j]) \/ Loads(q[j])
    <3>1. PICK j \in 1..n : Listed(q[j]) \/ Loads(q[j])
      BY <2>1
    <3>2. CASE j # i
      BY <3>1, <3>2 DEF Settled
    <3>3. CASE j = i
      BY <1>1, <1>5, <3>1, <3>3 DEF Settled
    <3> QED
      BY <3>2, <3>3
  <2>2. CASE NothingShown(v, q, left)
    <3>1. Detail(new) => NotFound(new)
      BY <1>2, <2>2 DEF NothingShown, NotFound
    <3> QED
      BY <1>2, <2>2, <3>1 DEF NothingShown, Settled
  <2>3. CASE SelectedShown(v, q, left)
    <3>1. ASSUME NEW j \in 1..n, LastDetail(next, j)
          PROVE  next[j].id = v.sel /\ (next[j].at = "done" /\ ~next[j].ok => v.sel \notin left)
      <4>1. q[j].id = v.sel /\ (q[j].at = "done" /\ ~q[j].ok => v.sel \notin left)
        BY <1>1, <2>3, <3>1 DEF SelectedShown
      <4>2. CASE j = i
        BY <1>5, <3>1, <4>1, <4>2 DEF LastDetail, NotFound
      <4> QED
        BY <4>1, <4>2
    <3> QED
      BY <1>2, <2>3, <3>1 DEF SelectedShown, Settled
  <2> QED
    BY <1>5, <2>1, <2>2, <2>3 DEF Settled
<1> QED
  BY <1>3, <1>4, <1>5

LEMMA RestTyped ==
  ASSUME MailInv, NEW t \in Tabs
  PROVE  /\ tab[t] \in GoodTabs /\ reqs[t] \in Seq(GoodRequests) /\ lost[t] \in BOOLEAN /\ pend[t] \in 0..Buffer
         /\ Len(reqs[t]) \in Nat /\ DOMAIN reqs[t] = 1..Len(reqs[t])
<1>1. tab[t] \in GoodTabs /\ reqs[t] \in Seq(GoodRequests) /\ lost[t] \in BOOLEAN /\ pend[t] \in 0..Buffer
  BY DEF MailInv, ViewInv, Viewed
<1> QED
  BY <1>1

\* A tab that does nothing is told of a change, or will be, or has lost the event.
LEMMA OthersRest ==
  ASSUME MailInv, NEW u \in Tabs, RestTab(u), tab'[u] = tab[u], reqs'[u] = reqs[u],
         \A i \in {0} \cup Ids : i \in rows' => i \in rows,
         ~lost'[u] => /\ ~lost[u]
                      /\ \/ pend'[u] > 0 \/ Unannounced'
                         \/ rows' = rows /\ (pend[u] > 0 => pend'[u] > 0) /\ ~Unannounced
  PROVE  RestTab(u)'
<1>1. tab[u] \in GoodTabs /\ reqs[u] \in Seq(GoodRequests)
  BY RestTyped
<1>2. /\ EmptyIsEmpty(tab[u], reqs[u], rows) => EmptyIsEmpty(tab[u], reqs[u], rows')
      /\ Settled(tab[u], reqs[u], rows) => Settled(tab[u], reqs[u], rows')
  BY <1>1, StoreKeepsRest
<1>3. InOrder(reqs'[u]) /\ EmptyIsEmpty(tab'[u], reqs'[u], rows')
  BY <1>2 DEF RestTab
<1>4. ASSUME ~lost'[u]
      PROVE  Settled(tab'[u], reqs'[u], rows') /\ (tab'[u].mail => UpToDate(u)')
  <2>1. ~lost[u] /\ Settled(tab'[u], reqs'[u], rows')
    BY <1>2, <1>4 DEF RestTab
  <2>2. CASE pend'[u] > 0 \/ Unannounced'
    BY <2>1, <2>2 DEF UpToDate
  <2>3. CASE rows' = rows /\ (pend[u] > 0 => pend'[u] > 0) /\ ~Unannounced
    BY <2>1, <2>3 DEF UpToDate, RestTab
  <2> QED
    BY <1>4, <2>1, <2>2, <2>3
<1> QED
  BY <1>3, <1>4 DEF RestTab

\* What one tab does, or the daemon does for it.
LEMMA OneTabRest ==
  ASSUME MailInv, RestInv, NEW t \in Tabs, UNCHANGED smtp,
         \A u \in Tabs : u # t => /\ tab'[u] = tab[u] /\ reqs'[u] = reqs[u] /\ lost'[u] = lost[u]
                                  /\ pend[u] > 0 => pend'[u] > 0,
         \A i \in {0} \cup Ids : i \in rows' => i \in rows,
         rows' = rows \/ Deleting(t)',
         Deleting(t) => Deleting(t)' \/ \A u \in Tabs : pend'[u] > 0,
         InOrder(reqs'[t]), EmptyIsEmpty(tab'[t], reqs'[t], rows'),
         ~lost'[t] =>
           /\ Settled(tab'[t], reqs'[t], rows')
           /\ tab'[t].mail => \/ pend'[t] > 0 \/ Unannounced \/ Deleting(t)'
                              \/ \E i \in DOMAIN reqs'[t] : Loads(reqs'[t][i])
                              \/ ReadLast(tab'[t], reqs'[t], rows')
  PROVE  RestInv'
<1>1. ASSUME NEW u \in Tabs, u # t, Deleting(u)
      PROVE  Deleting(u)'
  BY <1>1 DEF Deleting, Halfway
<1>2. Unannounced => Unannounced' \/ \A u \in Tabs : pend'[u] > 0
  BY <1>1 DEF Unannounced
<1>3. Deleting(t)' => Unannounced'
  BY DEF Unannounced
<1>4. RestTab(t)'
  BY <1>2, <1>3 DEF RestTab, UpToDate
<1>5. ASSUME NEW u \in Tabs, u # t
      PROVE  RestTab(u)'
  <2>1. RestTab(u)
    BY DEF RestInv
  <2>2. pend'[u] > 0 \/ Unannounced' \/ (rows' = rows /\ ~Unannounced)
    BY <1>2, <1>3
  <2> QED
    BY <1>5, <2>1, <2>2, OthersRest
<1> QED
  BY <1>4, <1>5 DEF RestInv

\* The request i of tab t has become `new`.
LEMMA ServedSeq ==
  ASSUME MailInv, NEW t \in Tabs, NEW i \in DOMAIN reqs[t], NEW new,
         reqs' = [reqs EXCEPT ![t] = [@ EXCEPT ![i] = new]]
  PROVE  /\ DOMAIN reqs'[t] = DOMAIN reqs[t]
         /\ \A j \in DOMAIN reqs[t] : reqs'[t][j] = IF j = i THEN new ELSE reqs[t][j]
         /\ \A u \in Tabs : u # t => reqs'[u] = reqs[u]
<1>1. reqs[t] \in Seq(GoodRequests) /\ reqs \in [Tabs -> Seq(GoodRequests)]
  BY DEF MailInv, ViewInv, Viewed
<1>2. reqs'[t] = [reqs[t] EXCEPT ![i] = new]
  BY <1>1
<1> QED
  BY <1>1, <1>2

LEMMA ServeListRest ==
  ASSUME MailInv, RestInv, NEW t \in Tabs, NEW i \in DOMAIN reqs[t], UNCHANGED <<tab, smtp>>,
         ServeList(t, i), reqs[t][i].at # "done", \A j \in 1..i - 1 : reqs[t][j].at = "done"
  PROVE  RestInv'
<1> DEFINE new == [reqs[t][i] EXCEPT !.at = "done", !.ok = TRUE, !.ids = rows]
<1>1. /\ reqs[t][i] \in GoodRequests /\ reqs[t][i].op = "list" /\ reqs[t][i].at = "sent"
      /\ UNCHANGED <<rows, pend>> /\ lost' = [lost EXCEPT ![t] = FALSE] /\ lost \in [Tabs -> BOOLEAN]
  BY HalfAndDone DEF ServeList, Sent, store, MailInv, ViewInv, Viewed
<1>2. reqs' = [reqs EXCEPT ![t] = [@ EXCEPT ![i] = new]]
  BY ListAnswer DEF Put
<1>3. Listed(new) /\ new.ids = rows /\ new.op = reqs[t][i].op
  BY <1>1 DEF GoodRequests, RequestState, Listed
<1> HIDE DEF new
<1>4. /\ DOMAIN reqs'[t] = DOMAIN reqs[t]
      /\ \A j \in DOMAIN reqs[t] : reqs'[t][j] = IF j = i THEN new ELSE reqs[t][j]
      /\ \A u \in Tabs : u # t => reqs'[u] = reqs[u]
  BY <1>2, ServedSeq
<1>5. /\ DOMAIN reqs[t] = 1..Len(reqs[t]) /\ Len(reqs[t]) \in Nat
      /\ InOrder(reqs[t]) /\ EmptyIsEmpty(tab[t], reqs[t], rows)
  BY RestTyped DEF RestInv, RestTab
<1>6. new.at # "sent"
  BY <1>3 DEF Listed
<1>n. /\ DOMAIN reqs'[t] = 1..Len(reqs[t]) /\ i \in 1..Len(reqs[t])
      /\ \A j \in 1..Len(reqs[t]) : reqs'[t][j] = IF j = i THEN new ELSE reqs[t][j]
  BY <1>4, <1>5
<1>7. InOrder(reqs'[t])
  <2> DEFINE q == reqs[t]
             next == reqs'[t]
             n == Len(reqs[t])
  <2>1. /\ n \in Nat /\ DOMAIN q = 1..n /\ DOMAIN next = 1..n /\ i \in 1..n
        /\ \A j \in 1..n : next[j] = IF j = i THEN new ELSE q[j]
        /\ InOrder(q) /\ q[i].at # "done" /\ new.op = q[i].op /\ new.at # "sent"
        /\ \A j \in 1..i - 1 : q[j].at = "done"
    BY <1>3, <1>5, <1>6, <1>n
  <2> HIDE DEF q, next, n
  <2>2. InOrder(next)
    BY ONLY <2>1, ServedRest
  <2> QED
    BY <2>2 DEF next
<1>8. EmptyIsEmpty(tab[t], reqs'[t], rows) /\ Settled(tab[t], reqs'[t], rows) /\ ReadLast(tab[t], reqs'[t], rows)
  BY <1>3, <1>5, <1>n, ListServedRest
<1>9. Deleting(t) => Deleting(t)'
  BY <1>1, <1>4 DEF Deleting, Halfway
<1> QED
  BY <1>1, <1>4, <1>7, <1>8, <1>9, OneTabRest

\* Half or done, otherwise.
LEMMA ServeOtherRest ==
  ASSUME MailInv, RestInv, NEW t \in Tabs, NEW i \in DOMAIN reqs[t], NEW new, UNCHANGED <<tab, smtp>>,
         reqs[t][i].at # "done", \A j \in 1..i - 1 : reqs[t][j].at = "done",
         reqs' = [reqs EXCEPT ![t] = [@ EXCEPT ![i] = new]], new.at # "sent",
         new.op = reqs[t][i].op, new.id = reqs[t][i].id, ~Listed(new),
         Detail(new) => \/ NotFound(new)
                        \/ (reqs[t][i].at = "sent" /\ reqs[t][i].id \in rows')
                        \/ reqs[t][i].at = "half",
         \A k \in {0} \cup Ids : k \in rows' => k \in rows,
         rows' = rows \/ (Loads(new) /\ new.at = "half"),
         \/ lost' = [lost EXCEPT ![t] = TRUE]
         \/ UNCHANGED lost /\ reqs[t][i].op # "list" /\ (NotFound(new) /\ Detail(new) => new.id \notin rows'),
         Loads(reqs[t][i]) => Loads(new) \/ reqs[t][i].op = "list",
         \/ UNCHANGED pend /\ ~Halfway(t, i, "delete") /\ ~Halfway(t, i, "clear")
         \/ \A u \in Tabs : pend'[u] > 0
  PROVE  RestInv'
<1>1. /\ DOMAIN reqs'[t] = DOMAIN reqs[t]
      /\ \A j \in DOMAIN reqs[t] : reqs'[t][j] = IF j = i THEN new ELSE reqs[t][j]
      /\ \A u \in Tabs : u # t => reqs'[u] = reqs[u]
  BY ServedSeq
<1>2. /\ DOMAIN reqs[t] = 1..Len(reqs[t]) /\ Len(reqs[t]) \in Nat
      /\ InOrder(reqs[t]) /\ EmptyIsEmpty(tab[t], reqs[t], rows)
      /\ tab[t] \in GoodTabs /\ reqs[t] \in Seq(GoodRequests) /\ lost \in [Tabs -> BOOLEAN]
  BY RestTyped DEF RestInv, RestTab, MailInv, ViewInv, Viewed
<1>3. /\ EmptyIsEmpty(tab[t], reqs[t], rows')
      /\ Settled(tab[t], reqs[t], rows) => Settled(tab[t], reqs[t], rows')
  BY <1>2, StoreKeepsRest
<1>n. /\ DOMAIN reqs'[t] = 1..Len(reqs[t]) /\ i \in 1..Len(reqs[t])
      /\ \A j \in 1..Len(reqs[t]) : reqs'[t][j] = IF j = i THEN new ELSE reqs[t][j]
  BY <1>1, <1>2
<1>4. InOrder(reqs'[t])
  BY <1>2, <1>n, ServedRest
<1>5. /\ EmptyIsEmpty(tab[t], reqs'[t], rows')
      /\ ReadLast(tab[t], reqs[t], rows') => ReadLast(tab[t], reqs'[t], rows')
      /\ Settled(tab[t], reqs[t], rows') /\ (Loads(reqs[t][i]) => Loads(new))
         /\ (NotFound(new) /\ Detail(new) => new.id \notin rows')
         => Settled(tab[t], reqs'[t], rows')
  BY <1>2, <1>3, <1>n, OtherServedRest
<1>6. Deleting(t) => Deleting(t)' \/ \A u \in Tabs : pend'[u] > 0
  <2> SUFFICES ASSUME NEW j \in DOMAIN reqs[t], NEW op \in {"delete", "clear"}, Halfway(t, j, op),
                      ~Halfway(t, i, op)
               PROVE  Deleting(t)'
    BY DEF Deleting
  <2>1. Halfway(t, j, op)'
    BY <1>1 DEF Halfway
  <2> QED
    BY <1>1, <2>1 DEF Deleting
<1>7. rows' = rows \/ Deleting(t)'
  BY <1>1 DEF Deleting, Halfway, Loads
<1>8. ASSUME ~lost'[t]
      PROVE  /\ Settled(tab[t], reqs'[t], rows')
             /\ tab[t].mail => \/ pend'[t] > 0 \/ Unannounced \/ Deleting(t)'
                               \/ \E j \in DOMAIN reqs'[t] : Loads(reqs'[t][j])
                               \/ ReadLast(tab[t], reqs'[t], rows')
  <2>1. UNCHANGED lost /\ reqs[t][i].op # "list" /\ (NotFound(new) /\ Detail(new) => new.id \notin rows') /\ ~lost[t]
    BY <1>2, <1>8
  <2>2. Settled(tab[t], reqs[t], rows) /\ (tab[t].mail => UpToDate(t))
    BY <2>1 DEF RestInv, RestTab
  <2>3. Settled(tab[t], reqs'[t], rows')
    BY <1>3, <1>5, <2>1, <2>2
  <2>4. (\E j \in DOMAIN reqs[t] : Loads(reqs[t][j])) => \E j \in DOMAIN reqs'[t] : Loads(reqs'[t][j])
    BY <1>1, <2>1
  <2>5. pend[t] > 0 => pend'[t] > 0
    OBVIOUS
  <2> QED
    BY <1>5, <1>7, <2>2, <2>3, <2>4, <2>5 DEF UpToDate
<1>9. \A u \in Tabs : u # t => lost'[u] = lost[u] /\ (pend[u] > 0 => pend'[u] > 0)
  BY <1>2
<1> QED
  BY <1>1, <1>4, <1>5, <1>6, <1>7, <1>8, <1>9, OneTabRest

\* Publish reaches every tab.
LEMMA PublishReaches ==
  ASSUME MailInv, Publish
  PROVE  \A u \in Tabs : pend'[u] > 0
BY MailAssumption DEF MailInv, ViewInv, Viewed, Publish

\* Half(t, i) and Done(t, i, FALSE).
LEMMA HalfRest ==
  ASSUME MailInv, RestInv, NEW t \in Tabs, NEW i \in DOMAIN reqs[t], UNCHANGED <<tab, smtp, pend, lost>>,
         reqs[t][i].at = "sent", \A j \in 1..i - 1 : reqs[t][j].at = "done", Half(t, i),
         \/ reqs[t][i].op = "detail" /\ reqs[t][i].id \in rows /\ rows' = rows
         \/ reqs[t][i].op \in {"delete", "clear"} /\ rows' \subseteq rows
  PROVE  RestInv'
<1> DEFINE new == [reqs[t][i] EXCEPT !.at = "half"]
<1>1. reqs' = [reqs EXCEPT ![t] = [@ EXCEPT ![i] = new]] /\ reqs[t][i] \in GoodRequests
  BY HalfAndDone
<1>2. new.at = "half" /\ new.op = reqs[t][i].op /\ new.id = reqs[t][i].id
  BY <1>1 DEF GoodRequests, RequestState
<1> HIDE DEF new
<1>3. /\ ~Listed(new) /\ ~NotFound(new) /\ reqs[t][i].op # "list" /\ ~Loads(reqs[t][i])
      /\ Detail(new) => reqs[t][i].id \in rows' /\ rows' = rows
      /\ rows' = rows \/ Loads(new)
      /\ ~Halfway(t, i, "delete") /\ ~Halfway(t, i, "clear")
      /\ \A k \in {0} \cup Ids : k \in rows' => k \in rows
  BY <1>2 DEF Listed, NotFound, Detail, Loads, Halfway
<1> QED
  BY <1>1, <1>2, <1>3, ServeOtherRest

LEMMA RefusedIs ==
  ASSUME MailInv, NEW t \in Tabs, NEW i \in DOMAIN reqs[t], Done(t, i, FALSE)
  PROVE  /\ reqs' = [reqs EXCEPT ![t] = [@ EXCEPT ![i] = [reqs[t][i] EXCEPT !.at = "done", !.ok = FALSE]]]
         /\ reqs[t][i] \in GoodRequests
<1>1. PICK ok \in BOOLEAN : ok = FALSE /\ Done(t, i, ok)
  OBVIOUS
<1>2. reqs' = [reqs EXCEPT ![t] = [@ EXCEPT ![i] = [reqs[t][i] EXCEPT !.at = "done", !.ok = ok]]]
  BY <1>1, HalfAndDone
<1>3. [reqs[t][i] EXCEPT !.at = "done", !.ok = ok] = [reqs[t][i] EXCEPT !.at = "done", !.ok = FALSE]
  BY <1>1
<1> QED
  BY <1>2, <1>3, HalfAndDone

LEMMA RefusedRest ==
  ASSUME MailInv, RestInv, NEW t \in Tabs, NEW i \in DOMAIN reqs[t], UNCHANGED <<tab, smtp, pend, rows>>,
         reqs[t][i].at # "done", \A j \in 1..i - 1 : reqs[t][j].at = "done", Done(t, i, FALSE),
         reqs[t][i].at = "sent" \/ reqs[t][i].op = "detail",
         \/ lost' = [lost EXCEPT ![t] = TRUE]
         \/ UNCHANGED lost /\ reqs[t][i].op # "list" /\ (reqs[t][i].op = "detail" => reqs[t][i].id \notin rows)
  PROVE  RestInv'
<1> DEFINE new == [reqs[t][i] EXCEPT !.at = "done", !.ok = FALSE]
<1>1. reqs' = [reqs EXCEPT ![t] = [@ EXCEPT ![i] = new]] /\ reqs[t][i] \in GoodRequests
  BY RefusedIs
<1>2. new.at = "done" /\ ~new.ok /\ new.op = reqs[t][i].op /\ new.id = reqs[t][i].id
  BY <1>1 DEF GoodRequests, RequestState
<1> HIDE DEF new
<1>3. /\ ~Listed(new) /\ NotFound(new) /\ (Loads(reqs[t][i]) => reqs[t][i].op = "list")
      /\ ~Halfway(t, i, "delete") /\ ~Halfway(t, i, "clear")
      /\ Detail(new) => reqs[t][i].op = "detail"
  BY <1>2 DEF Listed, NotFound, Detail, Loads, Halfway
<1> QED
  BY <1>1, <1>2, <1>3, ServeOtherRest

LEMMA AttachmentsRest ==
  ASSUME MailInv, RestInv, NEW t \in Tabs, NEW i \in DOMAIN reqs[t], UNCHANGED <<tab, smtp>>,
         \A j \in 1..i - 1 : reqs[t][j].at = "done", ReadAttachments(t, i)
  PROVE  RestInv'
<1> DEFINE whole == box[reqs[t][i].id].has => reqs[t][i].id \in atts
           new == [reqs[t][i] EXCEPT !.at = "done", !.ok = TRUE, !.whole = whole]
<1>1. /\ reqs[t][i] \in GoodRequests /\ UNCHANGED <<rows, pend, lost>>
      /\ reqs[t][i].op = "detail" /\ reqs[t][i].at = "half"
  BY HalfAndDone DEF ReadAttachments, store, Halfway
<1>2. reqs' = [reqs EXCEPT ![t] = [@ EXCEPT ![i] = new]]
  BY DetailAnswer DEF Put
<1> HIDE DEF whole
<1>3. new.at = "done" /\ new.ok /\ new.op = "detail" /\ new.id = reqs[t][i].id
  BY <1>1 DEF GoodRequests, RequestState
<1> HIDE DEF new
<1>4. /\ ~Listed(new) /\ ~NotFound(new) /\ ~Loads(reqs[t][i])
      /\ ~Halfway(t, i, "delete") /\ ~Halfway(t, i, "clear")
  BY <1>1, <1>3 DEF Listed, NotFound, Loads, Halfway
<1> QED
  BY <1>1, <1>2, <1>3, <1>4, ServeOtherRest

LEMMA AnsweredRest ==
  ASSUME MailInv, RestInv, NEW t \in Tabs, NEW i \in DOMAIN reqs[t], UNCHANGED <<tab, smtp>>,
         \A j \in 1..i - 1 : reqs[t][j].at = "done", AnswerCleared(t, i)
  PROVE  RestInv'
<1> DEFINE new == [reqs[t][i] EXCEPT !.at = "done", !.ok = TRUE]
<1>0. \E ok \in BOOLEAN : ok = TRUE /\ Done(t, i, ok)
  BY DEF AnswerCleared
<1>1. /\ reqs[t][i] \in GoodRequests /\ UNCHANGED <<rows, lost>> /\ \A u \in Tabs : pend'[u] > 0
      /\ reqs[t][i].op \in {"delete", "clear"} /\ reqs[t][i].at = "half"
  BY HalfAndDone, PublishReaches DEF AnswerCleared, store, Halfway
<1>2. reqs' = [reqs EXCEPT ![t] = [@ EXCEPT ![i] = new]]
  BY <1>0, HalfAndDone
<1>3. new.at = "done" /\ new.ok /\ new.op = reqs[t][i].op /\ new.id = reqs[t][i].id
  BY <1>1 DEF GoodRequests, RequestState
<1> HIDE DEF new
<1>4. ~Listed(new) /\ ~NotFound(new) /\ Loads(new) /\ ~Detail(new)
  BY <1>1, <1>3 DEF Listed, NotFound, Loads, Detail
<1> QED
  BY <1>1, <1>2, <1>3, <1>4, ServeOtherRest

LEMMA ServeRest ==
  ASSUME MailInv, RestInv, NEW t \in Tabs, Serve(t), "reorder" \notin Faults
  PROVE  RestInv'
<1>1. PICK i \in DOMAIN reqs[t] :
        /\ NextToServe(t, i)
        /\ \/ ServeList(t, i) \/ ReadMessage(t, i) \/ ReadAttachments(t, i) \/ DeleteMail(t, i)
           \/ ClearMail(t, i) \/ AnswerCleared(t, i) \/ Fail(t, i)
  BY DEF Serve
<1>2. UNCHANGED <<tab, smtp>> /\ lost \in [Tabs -> BOOLEAN]
  BY DEF Serve, sending, MailInv, ViewInv, Viewed
<1>3. reqs[t][i].at # "done" /\ \A j \in 1..i - 1 : reqs[t][j].at = "done"
  BY <1>1 DEF NextToServe
<1>4. CASE ServeList(t, i)
  BY <1>2, <1>3, <1>4, ServeListRest
<1>5. CASE ReadMessage(t, i)
  <2>1. UNCHANGED <<tab, smtp, pend, lost, rows>> /\ reqs[t][i].at = "sent" /\ reqs[t][i].op = "detail"
    BY <1>2, <1>5 DEF ReadMessage, store, Sent
  <2>2. IF reqs[t][i].id \in rows THEN Half(t, i) ELSE Done(t, i, FALSE)
    BY <1>5 DEF ReadMessage
  <2> QED
    BY <1>3, <2>1, <2>2, HalfRest, RefusedRest
<1>6. CASE ReadAttachments(t, i)
  BY <1>2, <1>3, <1>6, AttachmentsRest
<1>7. CASE DeleteMail(t, i)
  <2>1. UNCHANGED <<tab, smtp, pend, lost>> /\ reqs[t][i].at = "sent" /\ reqs[t][i].op = "delete"
    BY <1>2, <1>7 DEF DeleteMail, Sent
  <2>2. \/ rows' = rows \ {reqs[t][i].id} /\ Half(t, i)
        \/ rows' = rows /\ Done(t, i, FALSE)
    BY <1>7 DEF DeleteMail, Remove, store
  <2> QED
    BY <1>3, <2>1, <2>2, HalfRest, RefusedRest
<1>8. CASE ClearMail(t, i)
  <2>1. UNCHANGED <<tab, smtp, pend, lost>> /\ reqs[t][i].at = "sent" /\ reqs[t][i].op = "clear"
    BY <1>2, <1>8 DEF ClearMail, Sent
  <2>2. rows' = rows \ MailWhere("all") /\ Half(t, i)
    BY <1>8 DEF ClearMail, Remove
  <2> QED
    BY <1>3, <2>1, <2>2, HalfRest
<1>9. CASE AnswerCleared(t, i)
  BY <1>2, <1>3, <1>9, AnsweredRest
<1>10. CASE Fail(t, i)
  <2>1. /\ UNCHANGED <<tab, smtp, pend, rows>> /\ Done(t, i, FALSE)
        /\ reqs[t][i].at = "sent" \/ reqs[t][i].op = "detail"
        /\ lost' = [lost EXCEPT ![t] = @ \/ reqs[t][i].op \in {"list", "detail"}]
    BY <1>2, <1>10 DEF Fail, store, Halfway
  <2>2. CASE reqs[t][i].op \in {"list", "detail"}
    <3>1. lost' = [lost EXCEPT ![t] = TRUE]
      BY <1>2, <2>1, <2>2
    <3> QED
      BY <1>3, <2>1, <3>1, RefusedRest
  <2>3. CASE reqs[t][i].op \notin {"list", "detail"}
    <3>1. UNCHANGED lost
      BY <1>2, <2>1, <2>3
    <3> QED
      BY <1>3, <2>1, <2>3, <3>1, RefusedRest
  <2> QED
    BY <2>2, <2>3
<1> QED
  BY <1>1, <1>4, <1>5, <1>6, <1>7, <1>8, <1>9, <1>10

\* The answer of the first request arrives; what follows is still under way.
LEMMA WithoutHead ==
  ASSUME NEW S, NEW q \in Seq(S), NEW n \in Nat, Len(q) = n + 1
  PROVE  /\ Without(q, 1) \in Seq(S) /\ Len(Without(q, 1)) = n
         /\ \A j \in 1..n : Without(q, 1)[j] = q[j + 1]
<1>1. SubSeq(q, 1, 0) = <<>> /\ 1 - 1 = 0 /\ 1 + 1 = 2
  BY SubSeqEmpty
<1>2. /\ SubSeq(q, 2, n + 1) \in Seq(S) /\ Len(SubSeq(q, 2, n + 1)) = n
      /\ \A j \in 1..n : SubSeq(q, 2, n + 1)[j] = q[j + 1]
  <2>1. \A j \in 2..n + 1 : q[j] \in S
    OBVIOUS
  <2>2. 2 \in Int /\ n + 1 \in Int /\ (IF 2 <= n + 1 THEN n + 1 - 2 + 1 ELSE 0) = n
    OBVIOUS
  <2>3. \A j \in 1..n : 2 + j - 1 = j + 1
    OBVIOUS
  <2> QED
    BY <2>1, <2>2, <2>3, SubSeqProperties
<1>3. Without(q, 1) = SubSeq(q, 2, n + 1)
  BY <1>1, <1>2, ConcatEmptySeq DEF Without
<1> QED
  BY <1>2, <1>3

LEMMA HeadFacts ==
  ASSUME NEW n \in Nat, NEW q, NEW rest, DOMAIN q = 1..n + 1, DOMAIN rest = 1..n,
         \A j \in 1..n : rest[j] = q[j + 1]
  PROVE  /\ 1 \in 1..n + 1 /\ \A j \in 1..n : j + 1 \in 1..n + 1 /\ 1 < j + 1
         /\ \A i \in 1..n : LastListed(rest, i) <=> LastListed(q, i + 1)
         /\ \A i \in 1..n : LastDetail(rest, i) <=> LastDetail(q, i + 1)
         /\ (\A j \in 1..n : ~Listed(rest[j])) => \A j \in 1..n + 1 : j = 1 \/ ~Listed(q[j])
         /\ (\A j \in 1..n : ~Detail(rest[j])) => \A j \in 1..n + 1 : j = 1 \/ ~Detail(q[j])
         /\ (\A j \in 1..n : ~Loads(rest[j])) => \A j \in 1..n + 1 : j = 1 \/ ~Loads(q[j])
<1>1. /\ \A i \in 1..n : LastListed(rest, i) <=> LastListed(q, i + 1)
      /\ \A i \in 1..n : LastDetail(rest, i) <=> LastDetail(q, i + 1)
      /\ \A i \in 1..n + 1 : i = 1 \/ \E j \in 1..n : i = j + 1
  BY HeadGoes
<1>2. 1 \in 1..n + 1 /\ \A j \in 1..n : j + 1 \in 1..n + 1 /\ 1 < j + 1
  OBVIOUS
<1>3. ASSUME NEW j \in 1..n + 1, j # 1
      PROVE  \E k \in 1..n : q[j] = rest[k]
  BY <1>1, <1>3
<1> QED
  BY <1>1, <1>2, <1>3

LEMMA ListlessHeadGoes ==
  ASSUME NEW n \in Nat, NEW q, NEW rest, DOMAIN q = 1..n + 1, DOMAIN rest = 1..n,
         \A j \in 1..n : rest[j] = q[j + 1], NEW v, NEW left, ~Listed(q[1])
  PROVE  ReadLast(v, q, left) => ReadLast(v, rest, left)
<1>1. /\ \A j \in 1..n : j + 1 \in 1..n + 1
      /\ \A i \in 1..n : LastListed(rest, i) <=> LastListed(q, i + 1)
      /\ (\A j \in 1..n : ~Listed(rest[j])) => \A j \in 1..n + 1 : j = 1 \/ ~Listed(q[j])
  BY HeadFacts
<1> SUFFICES ASSUME ReadLast(v, q, left)
             PROVE  ReadLast(v, rest, left)
  OBVIOUS
<1>2. ASSUME NEW i \in 1..n, LastListed(rest, i)
      PROVE  rest[i].ids = left
  <2>1. i + 1 \in 1..n + 1 /\ LastListed(q, i + 1) /\ rest[i] = q[i + 1]
    BY <1>1, <1>2
  <2> QED
    BY <2>1 DEF ReadLast
<1>3. (\A i \in 1..n : ~Listed(rest[i])) => v.list = left
  BY <1>1 DEF ReadLast
<1> QED
  BY <1>2, <1>3 DEF ReadLast

\* Neither a list, nor what leads to one, nor a detail.
LEMMA OtherHeadGoes ==
  ASSUME NEW n \in Nat, NEW q, NEW rest, DOMAIN q = 1..n + 1, DOMAIN rest = 1..n,
         \A j \in 1..n : rest[j] = q[j + 1], NEW v, NEW left,
         ~Listed(q[1]), ~Detail(q[1])
  PROVE  Settled(v, q, left) /\ ~Loads(q[1]) => Settled(v, rest, left)
<1>1. /\ \A j \in 1..n : j + 1 \in 1..n + 1
      /\ \A i \in 1..n : LastDetail(rest, i) <=> LastDetail(q, i + 1)
      /\ (\A j \in 1..n : ~Listed(rest[j])) => \A j \in 1..n + 1 : j = 1 \/ ~Listed(q[j])
      /\ (\A j \in 1..n : ~Detail(rest[j])) => \A j \in 1..n + 1 : j = 1 \/ ~Detail(q[j])
      /\ (\A j \in 1..n : ~Loads(rest[j])) => \A j \in 1..n + 1 : j = 1 \/ ~Loads(q[j])
  BY HeadFacts
<1>3. ASSUME NothingShown(v, q, left)
      PROVE  NothingShown(v, rest, left)
  <2>1. ASSUME NEW j \in 1..n, Detail(rest[j])
        PROVE  rest[j].id \notin left /\ NotFound(rest[j])
    <3>1. j + 1 \in 1..n + 1 /\ rest[j] = q[j + 1]
      BY <1>1
    <3> QED
      BY <1>3, <2>1, <3>1 DEF NothingShown
  <2> QED
    BY <1>3, <2>1 DEF NothingShown
<1>4. ASSUME SelectedShown(v, q, left)
      PROVE  SelectedShown(v, rest, left)
  <2>1. ASSUME NEW i \in 1..n, LastDetail(rest, i)
        PROVE  rest[i].id = v.sel /\ (rest[i].at = "done" /\ ~rest[i].ok => v.sel \notin left)
    <3>1. i + 1 \in 1..n + 1 /\ LastDetail(q, i + 1) /\ rest[i] = q[i + 1]
      BY <1>1, <2>1
    <3> QED
      BY <1>4, <3>1 DEF SelectedShown
  <2>2. (\A j \in 1..n : ~Detail(rest[j])) => v.shown = v.sel \/ v.sel \notin left
    BY <1>1, <1>4 DEF SelectedShown
  <2> QED
    BY <1>4, <2>1, <2>2 DEF SelectedShown
<1> QED
  BY <1>1, <1>3, <1>4 DEF Settled

\* The detail is shown, unless there is none.
LEMMA DetailHeadGoes ==
  ASSUME NEW n \in Nat, NEW q, NEW rest, DOMAIN q = 1..n + 1, DOMAIN rest = 1..n,
         \A j \in 1..n : rest[j] = q[j + 1], NEW v, NEW left,
         Detail(q[1]), q[1].at = "done", q[1].ok \in BOOLEAN,
         NEW w, w.list = v.list, w.sel = v.sel, w.shown = IF q[1].ok THEN q[1].id ELSE v.shown
  PROVE  Settled(v, q, left) => Settled(w, rest, left)
<1>1. /\ 1 \in 1..n + 1 /\ \A j \in 1..n : j + 1 \in 1..n + 1
      /\ \A i \in 1..n : LastDetail(rest, i) <=> LastDetail(q, i + 1)
      /\ (\A j \in 1..n : ~Listed(rest[j])) => \A j \in 1..n + 1 : j = 1 \/ ~Listed(q[j])
      /\ (\A j \in 1..n : ~Detail(rest[j])) => \A j \in 1..n + 1 : j = 1 \/ ~Detail(q[j])
      /\ (\A j \in 1..n : ~Loads(rest[j])) => \A j \in 1..n + 1 : j = 1 \/ ~Loads(q[j])
  BY HeadFacts
<1>2. ASSUME NothingShown(v, q, left)
      PROVE  NothingShown(w, rest, left)
  <2>1. ASSUME NEW j \in 1..n, Detail(rest[j])
        PROVE  rest[j].id \notin left /\ NotFound(rest[j])
    <3>1. j + 1 \in 1..n + 1 /\ rest[j] = q[j + 1]
      BY <1>1
    <3> QED
      BY <1>2, <2>1, <3>1 DEF NothingShown
  <2>2. NotFound(q[1]) /\ v.list = {} /\ v.sel = 0 /\ v.shown = 0
    BY <1>1, <1>2 DEF NothingShown
  <2>3. ~q[1].ok
    BY <2>2 DEF NotFound
  <2> QED
    BY <2>1, <2>2, <2>3 DEF NothingShown
<1>3. ASSUME SelectedShown(v, q, left)
      PROVE  SelectedShown(w, rest, left)
  <2>1. /\ v.sel \in v.list
        /\ \A j \in 1..n + 1 : LastDetail(q, j) =>
             q[j].id = v.sel /\ (q[j].at = "done" /\ ~q[j].ok => v.sel \notin left)
    BY <1>3 DEF SelectedShown
  <2>2. \A j \in 1..n : LastDetail(rest, j) =>
             rest[j].id = w.sel /\ (rest[j].at = "done" /\ ~rest[j].ok => w.sel \notin left)
    BY <1>1, <2>1
  <2>3. ASSUME \A j \in 1..n : ~Detail(rest[j])
        PROVE  w.shown = w.sel \/ w.sel \notin left
    <3>1. LastDetail(q, 1)
      <4>1. \A j \in 1..n + 1 : j > 1 => ~Detail(q[j])
        BY <1>1, <2>3
      <4> QED
        BY <1>1, <4>1 DEF LastDetail
    <3> QED
      BY <1>1, <2>1, <3>1
  <2> QED
    BY <2>1, <2>2, <2>3 DEF SelectedShown
<1>4. ~Listed(q[1]) /\ ~Loads(q[1])
  BY DEF Listed, Loads, Detail
<1> QED
  BY <1>1, <1>2, <1>3, <1>4 DEF Settled

\* A list is shown; if it is empty, so is the view.
LEMMA ListHeadGoes ==
  ASSUME NEW n \in Nat, NEW q, NEW rest, DOMAIN q = 1..n + 1, DOMAIN rest = 1..n,
         \A j \in 1..n : rest[j] = q[j + 1], NEW v, NEW left,
         Listed(q[1]), EmptyIsEmpty(v, q, left), NEW w, w.list = q[1].ids
  PROVE  /\ EmptyIsEmpty(w, rest, left)
         /\ ReadLast(v, q, left) => ReadLast(w, rest, left)
         /\ w.list = {} /\ w.sel = 0 /\ w.shown = 0 => NothingShown(w, rest, left)
<1>1. /\ 1 \in 1..n + 1 /\ \A j \in 1..n : j + 1 \in 1..n + 1 /\ 1 < j + 1
      /\ \A i \in 1..n : LastListed(rest, i) <=> LastListed(q, i + 1)
      /\ (\A j \in 1..n : ~Listed(rest[j])) => \A j \in 1..n + 1 : j = 1 \/ ~Listed(q[j])
  BY ONLY n \in Nat, DOMAIN q = 1..n + 1, DOMAIN rest = 1..n, \A j \in 1..n : rest[j] = q[j + 1], HeadFacts
<1>0. EmptyIsEmpty(v, rest, left)
  BY HeadGoes
<1>2. EmptyIsEmpty(w, rest, left)
  <2>1. ASSUME NEW i \in 1..n, Listed(rest[i]), rest[i].ids = {}
        PROVE  w.list \cap left = {}
    <3>1. i + 1 \in 1..n + 1 /\ 1 < i + 1 /\ Listed(q[i + 1]) /\ q[i + 1].ids = {}
      BY <1>1, <2>1
    <3> QED
      BY <1>1, <3>1 DEF EmptyIsEmpty
  <2> QED
    BY <1>0, <2>1 DEF EmptyIsEmpty
<1>3. ASSUME ReadLast(v, q, left)
      PROVE  ReadLast(w, rest, left)
  <2>1. ASSUME \A i \in 1..n : ~Listed(rest[i])
        PROVE  w.list = left
    <3>1. LastListed(q, 1)
      <4>1. \A j \in 1..n + 1 : j > 1 => ~Listed(q[j])
        BY <1>1, <2>1
      <4> QED
        BY <1>1, <4>1 DEF LastListed
    <3> QED
      BY <1>1, <1>3, <3>1 DEF ReadLast
  <2>2. ASSUME NEW i \in 1..n, LastListed(rest, i)
        PROVE  rest[i].ids = left
    <3>1. i + 1 \in 1..n + 1 /\ LastListed(q, i + 1) /\ rest[i] = q[i + 1]
      BY <1>1, <2>2
    <3> QED
      BY <1>3, <3>1 DEF ReadLast
  <2> QED
    BY <2>1, <2>2 DEF ReadLast
<1>4. ASSUME w.list = {}, NEW j \in 1..n, Detail(rest[j])
      PROVE  rest[j].id \notin left /\ NotFound(rest[j])
  <2>1. j + 1 \in 1..n + 1 /\ j + 1 > 1 /\ rest[j] = q[j + 1]
    BY <1>1
  <2> QED
    BY <1>1, <1>4, <2>1 DEF EmptyIsEmpty
<1> QED
  BY <1>2, <1>3, <1>4 DEF NothingShown

\* A detail that is asked for: it will be shown.
LEMMA DetailJoins ==
  ASSUME NEW n \in Nat, NEW more, DOMAIN more = 1..n + 1, NEW w, NEW left,
         Detail(more[n + 1]), more[n + 1].at = "sent", more[n + 1].id = w.sel, w.sel \in w.list
  PROVE  Settled(w, more, left)
<1>1. n + 1 \in 1..n + 1 /\ \A j \in 1..n + 1 : j = n + 1 \/ n + 1 > j
  OBVIOUS
<1>2. \A j \in 1..n + 1 : LastDetail(more, j) => j = n + 1
  BY <1>1 DEF LastDetail
<1> QED
  BY <1>1, <1>2 DEF Settled, SelectedShown

\* Of a view these say only what it lists.
LEMMA SameList ==
  ASSUME NEW v, NEW w, w.list = v.list, NEW q, NEW left
  PROVE  /\ EmptyIsEmpty(v, q, left) => EmptyIsEmpty(w, q, left)
         /\ ReadLast(v, q, left) => ReadLast(w, q, left)
BY DEF EmptyIsEmpty, ReadLast

LEMMA SelectionListed ==
  ASSUME SendInv, NEW v, NEW ids \in SUBSET Ids
  PROVE  IF ids = {} THEN Selection(v, ids) = 0 ELSE Selection(v, ids) \in ids
<1>1. CASE ids = {}
  <2>1. v.sel \notin ids /\ v.route \notin ids
    BY <1>1
  <2> QED
    BY <1>1, <2>1 DEF Selection, Max0
<1>2. CASE ids # {}
  <2>1. ids \subseteq 0..MaxMails /\ MaxMails \in Nat
    BY IdsBounded, MailAssumption
  <2>2. \E i \in ids : \A j \in ids : j <= i
    BY <1>2, <2>1, NewestIs
  <2>3. Max0(ids) \in ids
    BY <1>2, <2>2 DEF Max0
  <2> QED
    BY <1>2, <2>3 DEF Selection
<1> QED
  BY <1>1, <1>2

\* What is left of the requests, and what one more makes of them.
LEMMA Rest ==
  ASSUME MailInv, NEW t \in Tabs, 1 \in DOMAIN reqs[t]
  PROVE  \E n \in Nat : LET rest == Without(reqs[t], 1) IN
           /\ DOMAIN reqs[t] = 1..n + 1 /\ DOMAIN rest = 1..n
           /\ \A j \in 1..n : rest[j] = reqs[t][j + 1]
           /\ rest \o <<>> = rest
           /\ \A r \in GoodRequests :
                LET more == rest \o <<r>> IN
                  /\ DOMAIN more = 1..n + 1 /\ more[n + 1] = r
                  /\ \A j \in 1..n : more[j] = rest[j]
<1>1. reqs[t] \in Seq(GoodRequests) /\ Len(reqs[t]) \in Nat /\ DOMAIN reqs[t] = 1..Len(reqs[t])
  BY RestTyped
<1> DEFINE n == Len(reqs[t]) - 1
           rest == Without(reqs[t], 1)
<1>2. n \in Nat /\ Len(reqs[t]) = n + 1
  BY <1>1
<1>3. rest \in Seq(GoodRequests) /\ Len(rest) = n /\ \A j \in 1..n : rest[j] = reqs[t][j + 1]
  BY <1>1, <1>2, WithoutHead
<1> HIDE DEF n, rest
<1>4. DOMAIN rest = 1..n /\ rest \o <<>> = rest
  BY <1>3, ConcatEmptySeq
<1>5. ASSUME NEW r \in GoodRequests
      PROVE  LET more == rest \o <<r>> IN
               /\ DOMAIN more = 1..n + 1 /\ more[n + 1] = r
               /\ \A j \in 1..n : more[j] = rest[j]
  BY <1>2, <1>3
<1> QED
  BY <1>1, <1>2, <1>3, <1>4, <1>5 DEF rest

\* An answer is taken.
LEMMA ArrivedRest ==
  ASSUME MailInv, RestInv, NEW t \in Tabs, UNCHANGED <<smtp, rows, pend, lost>>,
         \A u \in Tabs : u # t => tab'[u] = tab[u] /\ reqs'[u] = reqs[u],
         tab'[t].mail = tab[t].mail,
         Deleting(t) => Deleting(t)',
         InOrder(reqs'[t]), EmptyIsEmpty(tab'[t], reqs'[t], rows),
         Settled(tab[t], reqs[t], rows) => Settled(tab'[t], reqs'[t], rows),
         ReadLast(tab[t], reqs[t], rows) => ReadLast(tab'[t], reqs'[t], rows),
         (\E i \in DOMAIN reqs[t] : Loads(reqs[t][i])) => \E i \in DOMAIN reqs'[t] : Loads(reqs'[t][i])
  PROVE  RestInv'
<1>1. ASSUME ~lost'[t]
      PROVE  /\ Settled(tab'[t], reqs'[t], rows')
             /\ tab'[t].mail => \/ pend'[t] > 0 \/ Unannounced \/ Deleting(t)'
                                \/ \E i \in DOMAIN reqs'[t] : Loads(reqs'[t][i])
                                \/ ReadLast(tab'[t], reqs'[t], rows')
  <2>1. Settled(tab[t], reqs[t], rows) /\ (tab[t].mail => UpToDate(t))
    BY <1>1 DEF RestInv, RestTab
  <2> QED
    BY <2>1 DEF UpToDate
<1> QED
  BY <1>1, OneTabRest

LEMMA HalfwayStays ==
  ASSUME NEW t \in Tabs, NEW n \in Nat, NEW rest, DOMAIN reqs[t] = 1..n + 1, DOMAIN rest = 1..n,
         \A j \in 1..n : rest[j] = reqs[t][j + 1], reqs[t][1].at = "done",
         \A j \in 1..n : j \in DOMAIN reqs'[t] /\ reqs'[t][j] = rest[j]
  PROVE  /\ Deleting(t) => Deleting(t)'
         /\ (\E i \in DOMAIN reqs[t] : Loads(reqs[t][i])) =>
              Loads(reqs[t][1]) \/ \E i \in DOMAIN reqs'[t] : Loads(reqs'[t][i])
<1>1. \A i \in 1..n + 1 : i = 1 \/ \E j \in 1..n : i = j + 1
  BY HeadGoes
<1>2. ASSUME Deleting(t)
      PROVE  Deleting(t)'
  <2>1. PICK i \in 1..n + 1, op \in {"delete", "clear"} : Halfway(t, i, op)
    BY <1>2 DEF Deleting
  <2>2. PICK j \in 1..n : i = j + 1
    BY <1>1, <2>1 DEF Halfway
  <2>3. j \in DOMAIN reqs'[t] /\ reqs'[t][j] = reqs[t][i]
    BY <2>2
  <2> QED
    BY <2>1, <2>3 DEF Deleting, Halfway
<1>3. (\E i \in 1..n + 1 : Loads(reqs[t][i])) =>
        Loads(reqs[t][1]) \/ \E i \in DOMAIN reqs'[t] : Loads(reqs'[t][i])
  BY <1>1
<1> QED
  BY <1>2, <1>3

\* An answer after which nothing is asked.
LEMMA TakenRest ==
  ASSUME MailInv, RestInv, NEW t \in Tabs, UNCHANGED <<smtp, rows, pend, lost>>,
         1 \in DOMAIN reqs[t], reqs[t][1].at = "done", reqs' = [reqs EXCEPT ![t] = Without(@, 1)],
         \/ UNCHANGED tab /\ ~Listed(reqs[t][1]) /\ ~Detail(reqs[t][1]) /\ ~Loads(reqs[t][1])
         \/ DetailArrives(t, 1)
  PROVE  RestInv'
<1> DEFINE q == reqs[t]
           rest == Without(reqs[t], 1)
           v == tab[t]
           w == tab'[t]
<1>1. PICK n \in Nat : DOMAIN q = 1..n + 1 /\ DOMAIN rest = 1..n /\ \A j \in 1..n : rest[j] = q[j + 1]
  BY Rest
<1>2. /\ reqs'[t] = rest /\ \A u \in Tabs : u # t => reqs'[u] = reqs[u]
      /\ v \in GoodTabs /\ q[1] \in GoodRequests
  BY RestTyped, HalfAndDone DEF MailInv, ViewInv, Viewed
<1>3. InOrder(q) /\ EmptyIsEmpty(v, q, rows)
  BY DEF RestInv, RestTab
<1>4. /\ \A u \in Tabs : u # t => tab'[u] = tab[u]
      /\ w.mail = v.mail /\ w.list = v.list /\ w.sel = v.sel
      /\ Detail(q[1]) => w.shown = IF q[1].ok THEN q[1].id ELSE v.shown
      /\ w = v \/ Detail(q[1])
  <2>1. CASE UNCHANGED tab /\ ~Detail(q[1])
    BY <2>1
  <2>2. CASE DetailArrives(t, 1)
    <3>1. tab \in [Tabs -> GoodTabs]
      BY DEF MailInv, ViewInv, Viewed
    <3> QED
      BY <1>2, <2>2, <3>1 DEF DetailArrives, Detail, GoodTabs, TabState
  <2> QED
    BY <2>1, <2>2
<1>5. ~Listed(q[1]) /\ ~Loads(q[1]) /\ q[1].ok \in BOOLEAN /\ (Detail(q[1]) \/ UNCHANGED tab)
  BY <1>2 DEF DetailArrives, Listed, Loads, Detail, GoodRequests, RequestState
<1> HIDE DEF q, rest, v, w
<1>6. InOrder(rest) /\ EmptyIsEmpty(v, rest, rows)
  BY ONLY <1>1, <1>3, HeadGoes
<1>7. EmptyIsEmpty(w, rest, rows)
  BY <1>4, <1>6, SameList
<1>8. /\ ReadLast(v, q, rows) => ReadLast(w, rest, rows)
      /\ Settled(v, q, rows) => Settled(w, rest, rows)
  <2>1. CASE Detail(q[1])
    <3>1. Settled(v, q, rows) => Settled(w, rest, rows)
      BY <1>1, <1>4, <1>5, <2>1, DetailHeadGoes DEF q
    <3>2. ReadLast(v, q, rows) => ReadLast(v, rest, rows)
      BY ONLY <1>1, <1>5, ListlessHeadGoes
    <3> QED
      BY <1>4, <3>1, <3>2, SameList
  <2>2. CASE ~Detail(q[1])
    <3>1. /\ ReadLast(v, q, rows) => ReadLast(v, rest, rows)
          /\ Settled(v, q, rows) => Settled(v, rest, rows)
      BY ONLY <1>1, <1>5, <2>2, OtherHeadGoes, ListlessHeadGoes
    <3> QED
      BY <1>4, <2>2, <3>1
  <2> QED
    BY <2>1, <2>2
<1>9. /\ Deleting(t) => Deleting(t)'
      /\ (\E i \in DOMAIN reqs[t] : Loads(reqs[t][i])) => \E i \in DOMAIN reqs'[t] : Loads(reqs'[t][i])
  BY <1>1, <1>2, <1>5, HalfwayStays DEF q
<1> QED
  BY <1>2, <1>4, <1>6, <1>7, <1>8, <1>9, ArrivedRest DEF q, v, w

\* A list arrives: something of it is selected, and asked for.
LEMMA ListArrivesRest ==
  ASSUME MailInv, RestInv, NEW t \in Tabs, UNCHANGED <<smtp, rows, pend, lost>>,
         1 \in DOMAIN reqs[t], reqs[t][1].at = "done", ListArrives(t, 1)
  PROVE  RestInv'
<1> DEFINE q == reqs[t]
           rest == Without(reqs[t], 1)
           ids == reqs[t][1].ids
           sel == Selection(tab[t], ids)
           r == Request("detail", sel, FALSE)
           more == rest \o <<r>>
           v == tab[t]
           w == tab'[t]
<1>0. /\ v \in GoodTabs /\ q[1] \in GoodRequests /\ SendInv
      /\ tab \in [Tabs -> GoodTabs] /\ reqs \in [Tabs -> Seq(GoodRequests)]
  BY RestTyped, HalfAndDone DEF MailInv, ViewInv, Viewed
<1>1. ids \in SUBSET Ids /\ sel \in {0} \cup Ids /\ IF ids = {} THEN sel = 0 ELSE sel \in ids
  BY <1>0, SelectionIs, SelectionListed DEF GoodRequests, RequestState
<1>2. r \in GoodRequests /\ Detail(r) /\ r.at = "sent" /\ r.id = sel
  BY <1>0, <1>1, RequestGood DEF Request, Detail
<1>3. PICK n \in Nat :
        /\ DOMAIN q = 1..n + 1 /\ DOMAIN rest = 1..n /\ \A j \in 1..n : rest[j] = q[j + 1]
        /\ rest \o <<>> = rest
        /\ DOMAIN more = 1..n + 1 /\ more[n + 1] = r /\ \A j \in 1..n : more[j] = rest[j]
  BY <1>2, Rest
<1>4. InOrder(q) /\ EmptyIsEmpty(v, q, rows) /\ Listed(q[1]) /\ ~Loads(q[1])
  BY DEF RestInv, RestTab, ListArrives, Listed, Loads
<1>5. /\ \A u \in Tabs : u # t => tab'[u] = tab[u] /\ reqs'[u] = reqs[u]
      /\ w.mail = v.mail /\ w.list = ids /\ w.sel = sel /\ (ids = {} => w.shown = 0)
  BY <1>0 DEF ListArrives, GoodTabs, TabState
<1>6. IF ids = {} THEN reqs'[t] = rest ELSE reqs'[t] = more
  BY <1>0, <1>3 DEF ListArrives
<1>7. w.list = q[1].ids
  BY <1>5
<1> HIDE DEF q, rest, ids, sel, r, more, v, w
<1>8. InOrder(rest)
  BY ONLY <1>3, <1>4, HeadGoes
<1>9. /\ EmptyIsEmpty(w, rest, rows)
      /\ ReadLast(v, q, rows) => ReadLast(w, rest, rows)
      /\ w.list = {} /\ w.sel = 0 /\ w.shown = 0 => NothingShown(w, rest, rows)
  BY ONLY <1>3, <1>4, <1>7, ListHeadGoes
<1>10. CASE ids = {}
  <2>1. Settled(w, rest, rows)
    BY <1>1, <1>5, <1>9, <1>10 DEF Settled
  <2>2. /\ Deleting(t) => Deleting(t)'
        /\ (\E i \in DOMAIN reqs[t] : Loads(reqs[t][i])) => \E i \in DOMAIN reqs'[t] : Loads(reqs'[t][i])
    BY <1>3, <1>4, <1>6, <1>10, HalfwayStays DEF q
  <2> QED
    BY <1>5, <1>6, <1>8, <1>9, <1>10, <2>1, <2>2, ArrivedRest DEF q, v, w
<1>11. CASE ids # {}
  <2>1. more[n + 1].at = "sent" /\ Detail(more[n + 1]) /\ more[n + 1].id = w.sel /\ w.sel \in w.list
    BY <1>1, <1>2, <1>3, <1>5, <1>11
  <2>2. /\ InOrder(more) /\ EmptyIsEmpty(w, more, rows)
        /\ ReadLast(w, rest, rows) => ReadLast(w, more, rows)
    BY ONLY <1>3, <1>8, <1>9, <2>1, TailJoins
  <2>3. Settled(w, more, rows)
    BY ONLY <1>3, <2>1, DetailJoins
  <2>4. \A j \in 1..n : j \in DOMAIN reqs'[t] /\ reqs'[t][j] = rest[j]
    BY <1>3, <1>6, <1>11
  <2>5. /\ Deleting(t) => Deleting(t)'
        /\ (\E i \in DOMAIN reqs[t] : Loads(reqs[t][i])) => \E i \in DOMAIN reqs'[t] : Loads(reqs'[t][i])
    BY <1>3, <1>4, <2>4, HalfwayStays DEF q
  <2> QED
    BY <1>5, <1>6, <1>9, <1>11, <2>2, <2>3, <2>5, ArrivedRest DEF q, v, w
<1> QED
  BY <1>10, <1>11

LEMMA LoadMailGood ==
  ASSUME SendInv
  PROVE  LoadMail \in GoodRequests /\ Loads(LoadMail) /\ ~Detail(LoadMail) /\ LoadMail.at = "sent"
BY RequestGood DEF LoadMail, Request, Loads, Detail

\* A deletion or a clear is answered: the list is asked for.
LEMMA DeleteArrivesRest ==
  ASSUME MailInv, RestInv, NEW t \in Tabs, UNCHANGED <<smtp, rows, pend, lost>>,
         1 \in DOMAIN reqs[t], reqs[t][1].at = "done", DeleteArrives(t, 1)
  PROVE  RestInv'
<1> DEFINE q == reqs[t]
           rest == Without(reqs[t], 1)
           more == rest \o <<LoadMail>>
           v == tab[t]
           w == tab'[t]
<1>0. /\ v \in GoodTabs /\ q[1] \in GoodRequests /\ SendInv
      /\ tab \in [Tabs -> GoodTabs] /\ reqs \in [Tabs -> Seq(GoodRequests)]
  BY RestTyped, HalfAndDone DEF MailInv, ViewInv, Viewed
<1>1. PICK n \in Nat :
        /\ DOMAIN q = 1..n + 1 /\ DOMAIN rest = 1..n /\ \A j \in 1..n : rest[j] = q[j + 1]
        /\ rest \o <<>> = rest
        /\ DOMAIN more = 1..n + 1 /\ more[n + 1] = LoadMail /\ \A j \in 1..n : more[j] = rest[j]
  BY <1>0, LoadMailGood, Rest
<1>2. InOrder(q) /\ EmptyIsEmpty(v, q, rows) /\ ~Listed(q[1]) /\ ~Detail(q[1])
  BY DEF RestInv, RestTab, DeleteArrives, Listed, Detail
<1>3. CASE ~q[1].ok
  <2>1. UNCHANGED tab /\ reqs' = [reqs EXCEPT ![t] = rest]
    BY <1>1, <1>3 DEF DeleteArrives
  <2>2. ~Loads(q[1])
    BY <1>3 DEF Loads
  <2> QED
    BY <1>2, <2>1, <2>2, TakenRest
<1>4. CASE q[1].ok
  <2>1. /\ reqs'[t] = more /\ \A u \in Tabs : u # t => tab'[u] = tab[u] /\ reqs'[u] = reqs[u]
        /\ w.mail = v.mail /\ w.list = v.list
    <3>1. reqs' = [reqs EXCEPT ![t] = more]
      BY <1>4 DEF DeleteArrives
    <3>2. tab' = [tab EXCEPT ![t].sel = 0, ![t].shown = 0] \/ tab' = tab
      BY DEF DeleteArrives
    <3> QED
      BY <1>0, <3>1, <3>2 DEF GoodTabs, TabState
  <2>2. more[n + 1].at = "sent" /\ ~Detail(more[n + 1]) /\ Loads(more[n + 1])
    BY <1>0, <1>1, LoadMailGood
  <2>3. n + 1 \in DOMAIN more
    BY <1>1
  <2> HIDE DEF q, rest, more, v, w
  <2>4. InOrder(rest) /\ EmptyIsEmpty(v, rest, rows)
    BY ONLY <1>1, <1>2, HeadGoes
  <2>5. ReadLast(v, q, rows) => ReadLast(v, rest, rows)
    BY ONLY <1>1, <1>2, ListlessHeadGoes
  <2>6. /\ InOrder(more) /\ EmptyIsEmpty(v, more, rows)
        /\ ReadLast(v, rest, rows) => ReadLast(v, more, rows)
    BY ONLY <1>1, <2>2, <2>4, TailJoins
  <2>7. EmptyIsEmpty(w, more, rows) /\ (ReadLast(v, q, rows) => ReadLast(w, more, rows))
    BY <2>1, <2>5, <2>6, SameList
  <2>8. Settled(w, more, rows)
    BY <2>2, <2>3 DEF Settled
  <2>9. \A j \in 1..n : j \in DOMAIN reqs'[t] /\ reqs'[t][j] = rest[j]
    BY <1>1, <2>1
  <2>10. Deleting(t) => Deleting(t)'
    BY <1>1, <2>9, HalfwayStays DEF q
  <2>11. \E i \in DOMAIN reqs'[t] : Loads(reqs'[t][i])
    BY <2>1, <2>2, <2>3
  <2> QED
    BY <2>1, <2>6, <2>7, <2>8, <2>10, <2>11, ArrivedRest DEF q, v, w
<1> QED
  BY <1>3, <1>4

LEMMA ArriveRest ==
  ASSUME MailInv, RestInv, NEW t \in Tabs, Arrive(t), "reorder" \notin Faults
  PROVE  RestInv'
<1>1. UNCHANGED <<smtp, rows, pend, lost>>
  BY DEF Arrive, store, sending
<1>2. /\ 1 \in DOMAIN reqs[t] /\ reqs[t][1].at = "done"
      /\ ListArrives(t, 1) \/ LoadFails(t, 1) \/ DetailArrives(t, 1) \/ DeleteArrives(t, 1)
  BY DEF Arrive, NextToArrive
<1>3. CASE LoadFails(t, 1)
  <2>1. ~Listed(reqs[t][1]) /\ ~Detail(reqs[t][1]) /\ ~Loads(reqs[t][1])
    BY <1>2, <1>3 DEF LoadFails, Listed, Detail, Loads
  <2> QED
    BY <1>1, <1>2, <1>3, <2>1, TakenRest DEF LoadFails
<1>4. CASE DetailArrives(t, 1)
  BY <1>1, <1>2, <1>4, TakenRest DEF DetailArrives
<1> QED
  BY <1>1, <1>2, <1>3, <1>4, ListArrivesRest, DeleteArrivesRest

\* Something is asked.
LEMMA AskRest ==
  ASSUME MailInv, RestInv, NEW t \in Tabs, UNCHANGED <<smtp, rows, lost>>,
         NEW r \in GoodRequests, Ask(t, r), r.at = "sent",
         \A u \in Tabs : u # t => tab'[u] = tab[u] /\ pend'[u] = pend[u],
         tab'[t].list = tab[t].list, Detail(r) => r.id \in tab[t].list,
         \/ Loads(r)
         \/ UNCHANGED <<pend, tab>> /\ ~Detail(r)
         \/ UNCHANGED pend /\ tab'[t].mail = tab[t].mail /\ Detail(r) /\ r.id = tab'[t].sel
  PROVE  RestInv'
<1> DEFINE q == reqs[t]
           more == reqs'[t]
           n == Len(reqs[t])
           v == tab[t]
           w == tab'[t]
<1>1. /\ n \in Nat /\ DOMAIN q = 1..n /\ DOMAIN more = 1..n + 1 /\ more[n + 1] = r
      /\ \A j \in 1..n : more[j] = q[j]
      /\ \A u \in Tabs : u # t => reqs'[u] = reqs[u]
  <2>1. reqs \in [Tabs -> Seq(GoodRequests)] /\ q \in Seq(GoodRequests)
    BY DEF MailInv, ViewInv, Viewed
  <2>2. more = Append(q, r) /\ \A u \in Tabs : u # t => reqs'[u] = reqs[u]
    BY <2>1 DEF Ask
  <2> HIDE DEF more
  <2> QED
    BY <2>1, <2>2
<1>2. InOrder(q) /\ EmptyIsEmpty(v, q, rows)
  BY DEF RestInv, RestTab
<1>3. more[n + 1].at = "sent" /\ (Detail(more[n + 1]) => more[n + 1].id \in v.list)
  BY <1>1
<1>4. w.list = v.list
  OBVIOUS
<1>5. 1..n \subseteq 1..n + 1 /\ n + 1 \in 1..n + 1
  BY <1>1
<1> HIDE DEF q, more, n, v, w
<1>6. /\ InOrder(more) /\ EmptyIsEmpty(v, more, rows)
      /\ ReadLast(v, q, rows) => ReadLast(v, more, rows)
      /\ Settled(v, q, rows) /\ ~Detail(more[n + 1]) => Settled(v, more, rows)
  BY ONLY <1>1, <1>2, <1>3, TailJoins
<1>7. EmptyIsEmpty(w, more, rows) /\ (ReadLast(v, q, rows) => ReadLast(w, more, rows))
  BY <1>4, <1>6, SameList
<1>8. Deleting(t) => Deleting(t)'
  BY <1>1, <1>5 DEF Deleting, Halfway, q, more
<1>9. (\E i \in DOMAIN q : Loads(q[i])) \/ Loads(r) => \E i \in DOMAIN more : Loads(more[i])
  BY <1>1, <1>5
<1>10. CASE Loads(r)
  <2>1. Settled(w, more, rows)
    BY <1>9, <1>10 DEF Settled
  <2> QED
    BY <1>1, <1>6, <1>7, <1>8, <1>9, <1>10, <2>1, OneTabRest DEF more, w
<1>11. CASE UNCHANGED pend /\ w.mail = v.mail /\ (Settled(v, q, rows) => Settled(w, more, rows))
  <2>1. ASSUME ~lost'[t]
        PROVE  /\ Settled(w, more, rows)
               /\ w.mail => \/ pend'[t] > 0 \/ Unannounced \/ Deleting(t)'
                            \/ \E i \in DOMAIN more : Loads(more[i])
                            \/ ReadLast(w, more, rows)
    <3>1. Settled(v, q, rows) /\ (v.mail => UpToDate(t))
      BY <2>1 DEF RestInv, RestTab, q, v
    <3> QED
      BY <1>7, <1>9, <1>11, <3>1 DEF UpToDate, q, v
  <2> QED
    BY <1>1, <1>6, <1>7, <1>8, <1>11, <2>1, OneTabRest DEF more, w
<1>12. CASE UNCHANGED <<pend, tab>> /\ ~Detail(r)
  BY <1>1, <1>6, <1>11, <1>12 DEF v, w
<1>13. CASE UNCHANGED pend /\ tab'[t].mail = tab[t].mail /\ Detail(r) /\ r.id = tab'[t].sel
  <2>1. Detail(more[n + 1]) /\ more[n + 1].id = w.sel /\ w.sel \in w.list
    BY <1>1, <1>3, <1>4, <1>13 DEF w
  <2>2. Settled(w, more, rows)
    BY ONLY <1>1, <1>3, <2>1, DetailJoins
  <2> QED
    BY <1>11, <1>13, <2>2 DEF v, w
<1> QED
  BY <1>10, <1>12, <1>13

LEMMA UserRest ==
  ASSUME MailInv, RestInv, NEW t \in Tabs,
         HandleEvent(t) \/ SelectMail(t) \/ DeleteClicked(t) \/ Navigate(t) \/ Reload(t)
  PROVE  RestInv'
<1>1. UNCHANGED <<smtp, rows, lost>>
  BY DEF HandleEvent, SelectMail, DeleteClicked, Navigate, Reload, store, sending
<1>2. /\ SendInv /\ tab \in [Tabs -> GoodTabs] /\ tab[t] \in GoodTabs /\ lost \in [Tabs -> BOOLEAN]
      /\ reqs \in [Tabs -> Seq(GoodRequests)] /\ pend \in [Tabs -> 0..Buffer]
      /\ tab[t].list \subseteq Ids
  BY DEF MailInv, ViewInv, Viewed, GoodTabs, TabState
<1>3. LoadMail \in GoodRequests /\ Loads(LoadMail) /\ ~Detail(LoadMail) /\ LoadMail.at = "sent"
  BY <1>2, LoadMailGood
<1>4. InOrder(reqs[t]) /\ EmptyIsEmpty(tab[t], reqs[t], rows)
  BY DEF RestInv, RestTab
<1>5. CASE HandleEvent(t)
  <2>1. UNCHANGED tab /\ \A u \in Tabs : u # t => pend'[u] = pend[u]
    BY <1>2, <1>5 DEF HandleEvent
  <2>2. CASE tab[t].mail
    <3>1. Ask(t, LoadMail)
      BY <1>5, <2>2 DEF HandleEvent
    <3> QED
      BY <1>1, <1>3, <2>1, <3>1, AskRest
  <2>3. CASE ~tab[t].mail
    <3>1. UNCHANGED reqs
      BY <1>5, <2>3 DEF HandleEvent
    <3>2. Deleting(t) => Deleting(t)'
      BY <3>1 DEF Deleting, Halfway
    <3>3. ~lost'[t] => Settled(tab[t], reqs[t], rows)
      BY <1>1 DEF RestInv, RestTab
    <3> QED
      BY <1>1, <1>4, <2>1, <2>3, <3>1, <3>2, <3>3, OneTabRest
  <2> QED
    BY <2>2, <2>3
<1>6. CASE SelectMail(t)
  <2>1. PICK id \in tab[t].list : tab' = [tab EXCEPT ![t].sel = id] /\ Ask(t, Request("detail", id, TRUE))
    BY <1>6 DEF SelectMail
  <2> DEFINE r == Request("detail", id, TRUE)
  <2>2. r \in GoodRequests
    BY <1>2, RequestGood
  <2>3. Detail(r) /\ r.id = id /\ r.at = "sent"
    BY DEF Request, Detail
  <2> HIDE DEF r
  <2>4. /\ \A u \in Tabs : u # t => tab'[u] = tab[u] /\ pend'[u] = pend[u]
        /\ tab'[t].list = tab[t].list /\ tab'[t].mail = tab[t].mail /\ tab'[t].sel = id /\ UNCHANGED pend
    BY <1>2, <1>6, <2>1 DEF SelectMail, GoodTabs, TabState
  <2>5. Ask(t, r)
    BY <2>1 DEF r
  <2> QED
    BY <1>1, <2>2, <2>3, <2>4, <2>5, AskRest
<1>7. CASE DeleteClicked(t)
  <2>1. PICK id \in {0} \cup Ids, op \in {"delete", "clear"} : Ask(t, Request(op, id, FALSE))
    BY <1>2, <1>7 DEF DeleteClicked
  <2> DEFINE r == Request(op, id, FALSE)
  <2>2. r \in GoodRequests
    BY <1>2, RequestGood
  <2>3. ~Detail(r) /\ r.at = "sent"
    BY DEF Request, Detail
  <2> HIDE DEF r
  <2>4. UNCHANGED <<tab, pend>> /\ Ask(t, r)
    BY <1>7, <2>1 DEF DeleteClicked, r
  <2> QED
    BY <1>1, <2>2, <2>3, <2>4, AskRest
<1>8. CASE Navigate(t)
  <2>1. UNCHANGED pend
    BY <1>8 DEF Navigate
  <2>2. CASE tab' = [tab EXCEPT ![t].mail = FALSE, ![t].route = 0] /\ UNCHANGED reqs
    <3>1. /\ \A u \in Tabs : u # t => tab'[u] = tab[u]
          /\ tab'[t].list = tab[t].list /\ tab'[t].sel = tab[t].sel /\ tab'[t].shown = tab[t].shown
          /\ ~tab'[t].mail
      BY <1>2, <2>2 DEF GoodTabs, TabState
    <3>2. Deleting(t) => Deleting(t)'
      BY <2>2 DEF Deleting, Halfway
    <3>3. EmptyIsEmpty(tab'[t], reqs[t], rows)
      BY <1>4, <3>1, SameList
    <3>4. ~lost'[t] => Settled(tab'[t], reqs[t], rows)
      BY <1>1, <3>1 DEF RestInv, RestTab, Settled, NothingShown, SelectedShown
    <3> QED
      BY <1>1, <1>4, <2>1, <2>2, <3>1, <3>2, <3>3, <3>4, OneTabRest
  <2>3. ASSUME NEW id \in {0} \cup Ids, tab' = [tab EXCEPT ![t].mail = TRUE, ![t].route = id], Ask(t, LoadMail)
        PROVE  RestInv'
    <3>1. (\A u \in Tabs : u # t => tab'[u] = tab[u]) /\ tab'[t].list = tab[t].list
      BY <1>2, <2>3 DEF GoodTabs, TabState
    <3> QED
      BY <1>1, <1>3, <2>1, <2>3, <3>1, AskRest
  <2> QED
    BY <1>8, <2>2, <2>3 DEF Navigate
<1>9. CASE Reload(t)
  <2>1. /\ \A u \in Tabs : u # t => tab'[u] = tab[u] /\ reqs'[u] = reqs[u] /\ pend'[u] = pend[u]
        /\ reqs'[t] = <<LoadMail>> /\ ~Deleting(t) /\ lost'[t]
    BY <1>1, <1>2, <1>9 DEF Reload
  <2> DEFINE q == <<LoadMail>>
  <2>2. DOMAIN q = {1} /\ q[1] = LoadMail /\ ~Listed(q[1])
    BY DEF Listed, LoadMail, Request
  <2> HIDE DEF q
  <2>3. InOrder(q) /\ EmptyIsEmpty(tab'[t], q, rows)
    BY <2>2 DEF InOrder, EmptyIsEmpty
  <2> QED
    BY <1>1, <2>1, <2>3, OneTabRest DEF q
<1> QED
  BY <1>5, <1>6, <1>7, <1>8, <1>9

\* No tab does anything.
LEMMA TabsRest ==
  ASSUME MailInv, RestInv, UNCHANGED <<tab, reqs>>,
         \A i \in {0} \cup Ids : i \in rows' => i \in rows,
         \A u \in Tabs : ~lost'[u] =>
           /\ ~lost[u]
           /\ \/ pend'[u] > 0 \/ Unannounced'
              \/ rows' = rows /\ (pend[u] > 0 => pend'[u] > 0) /\ ~Unannounced
  PROVE  RestInv'
BY OthersRest DEF RestInv

\* A session that has no news goes on.
LEMMA StillUnannounced ==
  ASSUME UNCHANGED reqs, NEW s \in Sessions, smtp[s].at # "stored", \A r \in Sessions \ {s} : smtp'[r] = smtp[r]
  PROVE  Unannounced => Unannounced'
BY DEF Unannounced, Deleting, Halfway

LEMMA SessionRest ==
  ASSUME MailInv, RestInv, NEW s \in Sessions,
         MailCommand(s) \/ Rcpt(s) \/ Reset(s) \/ Data(s) \/ Store(s) \/ Refuse(s) \/ Accept(s)
  PROVE  RestInv'
<1>1. smtp \in [Sessions -> SessionState] /\ box \in Seq(Message)
  BY DEF MailInv, ViewInv, SendInv, SendTyped
<1>2. CASE MailCommand(s) \/ Rcpt(s) \/ Reset(s) \/ Data(s) \/ Refuse(s)
  <2>1. smtp[s].at # "stored" /\ UNCHANGED <<rows, tab, reqs, pend, lost>>
    BY <1>2 DEF MailCommand, Rcpt, Reset, Data, Refuse, store, views
  <2>2. \A r \in Sessions \ {s} : smtp'[r] = smtp[r]
    BY <1>1, <1>2 DEF MailCommand, Mail, Rcpt, Reset, Data, Refuse
  <2> QED
    BY <2>1, <2>2, StillUnannounced, TabsRest
<1>3. CASE Store(s)
  <2>1. UNCHANGED <<tab, reqs, lost>> /\ smtp'[s].at = "stored" /\ rows' = rows \cup {Len(box) + 1}
    BY <1>1, <1>3 DEF Store, AddMailMessage, views, SessionState
  <2>2. Unannounced'
    BY <2>1 DEF Unannounced
  <2>3. Len(box) + 1 \notin {0} \cup Ids
    BY <1>1 DEF Ids
  <2> QED
    BY <2>1, <2>2, <2>3, TabsRest
<1>4. CASE Accept(s)
  <2>1. \A u \in Tabs : pend'[u] > 0
    BY <1>4, PublishReaches DEF Accept
  <2> QED
    BY <1>4, <2>1, TabsRest DEF Accept, store
<1> QED
  BY <1>2, <1>3, <1>4

\* What the command line takes from the store, no tab is told of.
LEMMA ClearRest ==
  ASSUME MailInv, RestInv, NEW filter, ClearMessages(filter)
  PROVE  RestInv'
<1>1. /\ UNCHANGED <<tab, reqs, pend, smtp>> /\ rows' = rows \ MailWhere(filter)
      /\ \A u \in Tabs : lost'[u] = (lost[u] \/ MailWhere(filter) # {})
  BY DEF ClearMessages, Remove, sending
<1>2. Unannounced => Unannounced'
  BY <1>1 DEF Unannounced, Deleting, Halfway
<1>3. MailWhere(filter) = {} => rows' = rows
  BY <1>1
<1> QED
  BY <1>1, <1>2, <1>3, TabsRest

LEMMA CrashRest ==
  ASSUME Crash
  PROVE  RestInv'
<1> SUFFICES ASSUME NEW t \in Tabs
             PROVE  RestTab(t)'
  BY DEF RestInv
<1>1. reqs'[t] = <<>> /\ lost'[t]
  BY DEF Crash
<1>2. DOMAIN reqs'[t] = {}
  BY <1>1
<1> QED
  BY <1>1, <1>2 DEF RestTab, InOrder, EmptyIsEmpty

LEMMA InitRest == Init => RestInv
<1> SUFFICES ASSUME Init, NEW t \in Tabs
             PROVE  RestTab(t)
  BY DEF RestInv
<1>1. reqs[t] = <<LoadMail>>
  BY DEF Init
<1>2. DOMAIN reqs[t] = {1} /\ reqs[t][1] = LoadMail
  BY <1>1
<1>3. ~Listed(reqs[t][1]) /\ Loads(reqs[t][1]) /\ reqs[t][1].at = "sent"
  BY <1>2 DEF Listed, Loads, LoadMail, Request
<1> QED
  BY <1>2, <1>3 DEF RestTab, InOrder, EmptyIsEmpty, Settled, UpToDate

\* Nothing of what the views rest on changes.
LEMMA StaysRest ==
  ASSUME MailInv, RestInv, UNCHANGED <<rows, smtp, tab, reqs, pend, lost>>
  PROVE  RestInv'
<1>1. Unannounced => Unannounced'
  BY DEF Unannounced, Deleting, Halfway
<1> QED
  BY <1>1, TabsRest

LEMMA RestStep ==
  ASSUME MailInv, RestInv, [Next]_vars, "reorder" \notin Faults
  PROVE  RestInv'
<1>1. CASE UNCHANGED vars
  BY <1>1, StaysRest DEF vars, store, sending, views
<1>2. ASSUME NEW p \in Paths, NEW n \in Names, Link(p, n)
      PROVE  RestInv'
  BY <1>2, StaysRest DEF Link, store, sending, views
<1>3. ASSUME NEW p \in Paths, ClearAsk(p)
      PROVE  RestInv'
  BY <1>3, StaysRest DEF ClearAsk, store, sending, views
<1>4. CASE ClearNo
  BY <1>4, StaysRest DEF ClearNo, store, sending, views
<1>5. CASE ClearYes \/ ClearAll \/ ClearUnknown
  BY <1>5, ClearRest DEF ClearYes, ClearAll, ClearUnknown
<1>6. ASSUME NEW t \in Tabs, Serve(t) \/ Arrive(t)
      PROVE  RestInv'
  BY <1>6, ServeRest, ArriveRest
<1> QED
  BY <1>1, <1>2, <1>3, <1>4, <1>5, <1>6, SessionRest, UserRest, CrashRest DEF Next

\* No request, no event and no announcement is under way.
LEMMA RestIsRight ==
  ASSUME MailInv, RestInv, NEW t \in Tabs, AtRest(t)
  PROVE  tab[t].list = rows /\ tab[t].shown = tab[t].sel /\ (rows # {} => tab[t].sel \in rows)
<1>1. DOMAIN reqs[t] = {} /\ tab[t].mail /\ ~lost[t] /\ ~(pend[t] > 0) /\ ~Unannounced
  BY DEF AtRest, Unannounced
<1>2. Settled(tab[t], reqs[t], rows) /\ UpToDate(t)
  BY <1>1 DEF RestInv, RestTab
<1>3. tab[t].list = rows
  BY <1>1, <1>2 DEF UpToDate, ReadLast
<1>4. CASE NothingShown(tab[t], reqs[t], rows)
  BY <1>3, <1>4 DEF NothingShown
<1>5. CASE SelectedShown(tab[t], reqs[t], rows)
  BY <1>1, <1>3, <1>5 DEF SelectedShown
<1> QED
  BY <1>1, <1>2, <1>3, <1>4, <1>5 DEF Settled

(***************************************************************************)
(* For any sessions, tabs, requests and buffer, if answers come in the     *)
(* order of the requests: a mail view at rest lists the mailbox and shows  *)
(* the message it marks as selected.                                       *)
(***************************************************************************)
THEOREM RestIsTheMailbox ==
  ASSUME "reorder" \notin Faults
  PROVE  Spec => []RestShowsTheMailbox
<1>1. Init => RestInv
  BY InitRest
<1>2. MailInv /\ RestInv /\ [Next]_vars => RestInv'
  BY RestStep
<1>3. MailInv /\ RestInv => RestShowsTheMailbox
  BY RestIsRight DEF RestShowsTheMailbox
<1> QED
  BY <1>1, <1>2, <1>3, MailInit, MailStep, PTL DEF Spec

=============================================================================
