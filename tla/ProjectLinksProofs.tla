-------------------------- MODULE ProjectLinksProofs --------------------------
(***************************************************************************)
(* What holds of every number of commands, paths, names and versions, and  *)
(* of every fault: the table stays well formed and no project loses its    *)
(* row to another name.  The invariant adds to TypeOK what each line of a  *)
(* command has in its variables (Ready).                                   *)
(***************************************************************************)
EXTENDS ProjectLinks, FiniteSetTheorems, TLAPS

\* What a command that is about to run a line has read so far.
Ready(me) ==
  /\ me.pc = "lookUp" =>
       /\ me.op \in {"link", "use"}
       /\ me.opts \in (IF me.op = "use" THEN Pins ELSE LinkOptions)
       /\ me.path = Absent => me.value # Absent
  /\ me.pc \in {"readRow", "writeRow"} =>
       /\ me.op = "link" /\ me.opts \in LinkOptions
       /\ me.path \in Paths /\ me.php \in Versions
  /\ me.pc = "writeRow" /\ me.row # Absent => me.row.path = me.path
  /\ me.pc \in {"pin", "readBack"} => me.old \in Rows /\ me.php \in Versions
  /\ me.pc = "writeSite" => me.row \in Rows /\ me.php \in Versions
  /\ me.pc = "removeStale" => me.old \in Rows
  /\ me.pc \in {"removeStale", "applyEnv", "writeWs", "applyWs"} => me.row \in Rows

Inv == TypeOK /\ \A c \in Commands : Ready(cmd[c])

UniqueKeys(table) ==
  \A r, s \in table : r.path = s.path \/ r.name = s.name \/ r.domain = s.domain => r = s

FilesTyped ==
  /\ sites \in [Domains -> Sites \cup {Absent}]
  /\ ws \in [Domains -> WsPorts \cup {DefaultPort, Absent}]
  /\ env \in [Paths -> EnvState]

HistoryTyped == whole \subseteq Paths /\ lost \subseteq Domains

-----------------------------------------------------------------------------
(* The operators of the store *)

\* The options of link, field by field.
LEMMA OptionsTyped ==
  ASSUME NEW q \in LinkOptions
  PROVE  /\ q.name \in Names \cup {Absent}
         /\ q.domain \in Domains \cup {Absent}
         /\ q.php \in Versions \cup {Absent}
         /\ q.ws \in BOOLEAN
         /\ q.port \in WsPorts \cup {Absent}
<1>1. q \in [name : Opt("name", Names), domain : Opt("domain", Domains),
            php : Opt("php", Versions), ws : {FALSE, "ws" \in Options}, port : Opt("ws", WsPorts)]
  BY DEF LinkOptions
<1>2. /\ Opt("name", Names) \subseteq Names \cup {Absent}
      /\ Opt("domain", Domains) \subseteq Domains \cup {Absent}
      /\ Opt("php", Versions) \subseteq Versions \cup {Absent}
      /\ Opt("ws", WsPorts) \subseteq WsPorts \cup {Absent}
      /\ {FALSE, "ws" \in Options} \subseteq BOOLEAN
  BY DEF Opt
<1>3. /\ q.name \in Opt("name", Names) /\ q.domain \in Opt("domain", Domains)
      /\ q.php \in Opt("php", Versions) /\ q.ws \in {FALSE, "ws" \in Options}
      /\ q.port \in Opt("ws", WsPorts)
  BY <1>1
<1> QED
  BY <1>2, <1>3

\* The row that link writes for a path that is in the table is a row of that
\* path, and the one for a new path as well.
LEMMA UpdatedTyped ==
  ASSUME NEW row \in Rows, NEW q \in LinkOptions, NEW php \in Versions
  PROVE  Updated(row, q, php) \in Rows /\ Updated(row, q, php).path = row.path
<1>1. /\ Or(q.name, row.name) \in Names
      /\ Or(q.domain, Or(q.name, row.domain)) \in Domains
      /\ (row.ws \/ q.ws) \in BOOLEAN
      /\ (IF q.ws THEN Or(q.port, row.port) ELSE row.port) \in WsPorts \cup {DefaultPort}
  BY OptionsTyped DEF Or, Rows, Domains
<1> QED
  BY <1>1 DEF Updated, Rows

LEMMA FreshTyped ==
  ASSUME NEW p \in Paths, NEW q \in LinkOptions, NEW php \in Versions
  PROVE  Fresh(p, q, php) \in Rows /\ Fresh(p, q, php).path = p
<1>1. /\ Or(q.name, BaseName[p]) \in Names
      /\ Or(q.domain, Or(q.name, BaseName[p])) \in Domains
      /\ q.ws \in BOOLEAN
      /\ Or(q.port, DefaultPort) \in WsPorts \cup {DefaultPort}
  BY OptionsTyped, LinkAssumption DEF Or, Domains
<1> QED
  BY <1>1 DEF Fresh, Rows

\* What ByPath finds is the row of that path.
LEMMA ByPathFinds ==
  ASSUME rows \subseteq Rows, NEW p \in Paths
  PROVE  ByPath(p) \in rows \cup {Absent} /\ (ByPath(p) \in rows => ByPath(p).path = p)
<1>1. CASE \E r \in rows : r.path = p
  <2>1. ByPath(p) = CHOOSE r \in rows : r.path = p
    BY <1>1 DEF ByPath
  <2> QED
    BY <1>1, <2>1
<1>2. CASE ~\E r \in rows : r.path = p
  BY <1>2, AbsentAssumption DEF ByPath
<1> QED
  BY <1>1, <1>2

\* Replacing rows by one that clashes with none of the others keeps the keys
\* unique.
LEMMA ReplaceKeepsKeys ==
  ASSUME NEW table, UniqueKeys(table), NEW out, NEW new,
         \A r \in table \ out : r.path # new.path /\ r.name # new.name /\ r.domain # new.domain
  PROVE  UniqueKeys((table \ out) \cup {new})
BY DEF UniqueKeys

\* Absent is nothing else.
LEMMA AbsentIsNot ==
  /\ Absent \notin Paths /\ Absent \notin Names /\ Absent \notin Custom
  /\ Absent \notin Versions /\ Absent \notin Nat /\ Absent \notin Domains
BY LinkAssumption DEF Domains

-----------------------------------------------------------------------------
(* The invariant *)

LEMMA InitInv == Init => Inv
<1> SUFFICES ASSUME Init PROVE Inv
  OBVIOUS
<1>1. \A c \in Commands : cmd[c] = Idle
  BY DEF Init
<1>2. Idle \in CmdState /\ Ready(Idle)
  BY DEF Idle, CmdState, Pcs, Ready
<1>3. cmd \in [Commands -> CmdState]
  BY <1>2 DEF Init
<1> QED
  BY <1>1, <1>2, <1>3 DEF Init, Inv, TypeOK, EnvState

\* The steps change one command at a time.
LEMMA OneCommand ==
  ASSUME cmd \in [Commands -> CmdState], \A d \in Commands : Ready(cmd[d]),
         NEW c \in Commands, NEW new \in CmdState, Ready(new),
         cmd' = [cmd EXCEPT ![c] = new]
  PROVE  cmd' \in [Commands -> CmdState] /\ \A d \in Commands : Ready(cmd'[d])
<1>1. \A d \in Commands : cmd'[d] = IF d = c THEN new ELSE cmd[d]
  OBVIOUS
<1> QED
  BY <1>1

LEMMA IdleReady == Idle \in CmdState /\ Ready(Idle)
BY DEF Idle, CmdState, Pcs, Ready

CmdReady == cmd \in [Commands -> CmdState] /\ \A c \in Commands : Ready(cmd[c])

\* A command that has written its row goes on with that row.
LEMMA WrittenReady ==
  ASSUME CmdReady, NEW c \in Commands, NEW row \in Rows, cmd[c].php \in Versions, Written(c, row)
  PROVE  CmdReady'
<1> DEFINE new == [cmd[c] EXCEPT !.row = row, !.opts = Absent, !.pc = "writeSite"]
<1>1. cmd[c] \in CmdState
  BY DEF CmdReady
<1>2. cmd' = [cmd EXCEPT ![c] = new]
  BY DEF Written
<1>3. new \in CmdState
  BY <1>1 DEF CmdState, Pcs
<1>4. new.row = row /\ new.php = cmd[c].php /\ new.pc = "writeSite"
  BY <1>1 DEF CmdState
<1> HIDE DEF new
<1>5. Ready(new)
  BY <1>4 DEF Ready
<1> QED
  BY <1>2, <1>3, <1>5, OneCommand DEF CmdReady

\* The later lines only need the row, and the removal the row before.
LEMMA GotoReady ==
  ASSUME CmdReady, NEW c \in Commands, cmd[c].row \in Rows,
         NEW pc \in {"removeStale", "applyEnv", "writeWs", "applyWs"},
         pc = "removeStale" => cmd[c].old \in Rows, Goto(c, pc)
  PROVE  CmdReady'
<1> DEFINE old == IF pc = "removeStale" THEN cmd[c].old ELSE Absent
           new == [cmd[c] EXCEPT !.pc = pc, !.php = Absent, !.old = old]
<1>1. cmd[c] \in CmdState
  BY DEF CmdReady
<1>2. cmd' = [cmd EXCEPT ![c] = new]
  BY DEF Goto
<1>3. old \in Rows \cup {Absent} /\ (pc = "removeStale" => old \in Rows)
  <2>1. CASE pc = "removeStale"
    <3>1. cmd[c].old \in Rows
      BY <2>1
    <3> QED
      BY <2>1, <3>1
  <2>2. CASE pc # "removeStale"
    BY <2>2
  <2> QED
    BY <2>1, <2>2
<1> HIDE DEF old
<1>4. new \in CmdState
  BY <1>1, <1>3 DEF CmdState, Pcs
<1>5. new.row = cmd[c].row /\ new.old = old /\ new.pc = pc
  BY <1>1 DEF CmdState
<1> HIDE DEF new
<1>6. Ready(new)
  BY <1>3, <1>5 DEF Ready
<1> QED
  BY <1>2, <1>4, <1>6, OneCommand DEF CmdReady

\* What every line leaves in the variables of its command.
LEMMA CommandStep ==
  ASSUME Inv, NEW c \in Commands, Step(c)
  PROVE  CmdReady'
<1> USE DEF At
<1>0. /\ cmd \in [Commands -> CmdState] /\ \A d \in Commands : Ready(cmd[d])
      /\ cmd[c] \in CmdState /\ Ready(cmd[c])
      /\ rows \subseteq Rows
  BY DEF Inv, TypeOK
<1>i. CASE cmd' = [cmd EXCEPT ![c] = Idle]
  BY <1>0, <1>i, OneCommand, IdleReady DEF CmdReady
<1>1. CASE Begin(c)
  <2>1. PICK op \in {"link", "use"}, opts \in LinkOptions \cup Pins,
             path \in Paths \cup {Absent}, value \in Opt("value", Domains) :
          /\ (path = Absent) # (value = Absent)
          /\ opts \in (IF op = "use" THEN Pins ELSE LinkOptions)
          /\ cmd' = [cmd EXCEPT ![c] = [Idle EXCEPT !.pc = "lookUp", !.op = op, !.opts = opts,
                                                    !.path = path, !.value = value]]
    BY <1>1 DEF Begin
  <2> DEFINE new == [Idle EXCEPT !.pc = "lookUp", !.op = op, !.opts = opts,
                                 !.path = path, !.value = value]
  <2>2. value \in Domains \cup {Absent}
    BY DEF Opt
  <2>3. Idle \in CmdState
    BY IdleReady
  <2>4. new \in CmdState
    BY <2>2, <2>3 DEF CmdState, Pcs
  <2>5. new.pc = "lookUp" /\ new.op = op /\ new.opts = opts /\ new.path = path /\ new.value = value
    BY <2>3 DEF CmdState
  <2>6. path = Absent => value # Absent
    BY <2>1
  <2>7. Ready(new)
    <3> HIDE DEF new
    <3>1. op \in {"link", "use"} /\ opts \in (IF op = "use" THEN Pins ELSE LinkOptions)
      BY <2>1
    <3> QED
      BY <2>5, <2>6, <3>1 DEF Ready
  <2>8. cmd' = [cmd EXCEPT ![c] = new]
    BY <2>1
  <2> HIDE DEF new
  <2> QED
    BY <1>0, <2>4, <2>7, <2>8, OneCommand DEF CmdReady
<1>2. CASE LookUp(c)
  <2> DEFINE me == cmd[c]
             found == Found(me)
             must == me.op = "use" \/ me.path = Absent
             new(old) == [me EXCEPT
                 !.old = old,
                 !.path = IF old = Absent THEN @ ELSE old.path,
                 !.value = Absent,
                 !.php = Or(me.opts.php, IF old = Absent THEN Latest ELSE old.php),
                 !.pc = IF me.op = "use" THEN "pin" ELSE "readRow"]
  <2>1. CASE found \subseteq {Absent} /\ must
    BY <1>2, <2>1, <1>i DEF LookUp
  <2>2. CASE ~(found \subseteq {Absent} /\ must)
    <3>1. PICK old \in found : cmd' = [cmd EXCEPT ![c] = new(old)]
      BY <1>2, <2>2 DEF LookUp
    <3>2. found \subseteq Rows \cup {Absent}
      BY <1>0, ByPathFinds DEF Found, Nearest, ByValue, CmdState
    <3>3. me.pc = "lookUp" /\ me.op \in {"link", "use"}
          /\ me.opts \in (IF me.op = "use" THEN Pins ELSE LinkOptions)
      BY <1>0, <1>2 DEF LookUp, Ready
    <3>4. old = Absent => me.path \in Paths /\ me.op = "link"
      <4> SUFFICES ASSUME old = Absent PROVE me.path \in Paths /\ me.op = "link"
        OBVIOUS
      <4>1. ByValue(me.value) \subseteq Rows /\ Nearest(me.path) \subseteq Rows
        BY <1>0 DEF ByValue, Nearest
      <4>2. me.path # Absent /\ me.op # "use"
        BY <4>1, AbsentAssumption DEF Found
      <4> QED
        BY <1>0, <3>3, <4>2 DEF CmdState
    <3>5. me.opts.php \in Versions \cup {Absent}
      BY <3>3, OptionsTyped DEF Pins
    <3>6. Or(me.opts.php, IF old = Absent THEN Latest ELSE old.php) \in Versions
      BY <3>2, <3>5, LinkAssumption DEF Or, Rows
    <3>7. (IF old = Absent THEN me.path ELSE old.path) \in Paths
      BY <3>2, <3>4 DEF Rows
    <3>8. new(old) \in CmdState
      <4> DEFINE path == IF old = Absent THEN me.path ELSE old.path
                 php == Or(me.opts.php, IF old = Absent THEN Latest ELSE old.php)
                 pc == IF me.op = "use" THEN "pin" ELSE "readRow"
      <4>1. path \in Paths /\ php \in Versions /\ pc \in Pcs /\ old \in Rows \cup {Absent}
        BY <3>2, <3>6, <3>7 DEF Pcs
      <4>2. new(old) = [me EXCEPT !.old = old, !.path = path, !.value = Absent,
                                  !.php = php, !.pc = pc]
        OBVIOUS
      <4> HIDE DEF path, php, pc, new
      <4> QED
        BY <1>0, <4>1, <4>2 DEF CmdState
    <3>9. Ready(new(old))
      BY <1>0, <3>2, <3>3, <3>4, <3>6, <3>7 DEF Ready, CmdState
    <3> HIDE DEF new
    <3> QED
      BY <1>0, <3>1, <3>8, <3>9, OneCommand DEF CmdReady
  <2> QED
    BY <2>1, <2>2
<1>3. CASE ReadRow(c)
  <2> DEFINE new == [cmd[c] EXCEPT !.row = ByPath(cmd[c].path), !.pc = "writeRow"]
  <2>1. cmd' = [cmd EXCEPT ![c] = new]
    BY <1>3 DEF ReadRow
  <2>2. cmd[c].op = "link" /\ cmd[c].opts \in LinkOptions /\ cmd[c].path \in Paths /\ cmd[c].php \in Versions
    BY <1>0, <1>3 DEF ReadRow, Ready
  <2>3. /\ ByPath(cmd[c].path) \in Rows \cup {Absent}
        /\ ByPath(cmd[c].path) # Absent => ByPath(cmd[c].path).path = cmd[c].path
    BY <1>0, <2>2, ByPathFinds
  <2>4. new \in CmdState
    BY <1>0, <2>3 DEF CmdState, Pcs
  <2>5. /\ new.row = ByPath(cmd[c].path) /\ new.pc = "writeRow" /\ new.op = cmd[c].op
        /\ new.opts = cmd[c].opts /\ new.path = cmd[c].path /\ new.php = cmd[c].php
    BY <1>0 DEF CmdState
  <2> HIDE DEF new
  <2>6. Ready(new)
    BY <2>2, <2>3, <2>5 DEF Ready
  <2> QED
    BY <1>0, <2>1, <2>4, <2>6, OneCommand DEF CmdReady
<1>4. CASE UpdateRow(c)
  <2> DEFINE new == Updated(cmd[c].row, cmd[c].opts, cmd[c].php)
  <2>1. CASE Written(c, new)
    <3>1. cmd[c].row \in Rows /\ cmd[c].opts \in LinkOptions /\ cmd[c].php \in Versions
      BY <1>0, <1>4 DEF UpdateRow, Ready, CmdState
    <3>2. new \in Rows
      BY <3>1, UpdatedTyped
    <3> HIDE DEF new
    <3> QED
      BY <1>0, <2>1, <3>1, <3>2, WrittenReady DEF CmdReady
  <2> QED
    BY <1>4, <1>i, <2>1 DEF UpdateRow
<1>5. CASE InsertRow(c)
  <2> DEFINE new == Fresh(cmd[c].path, cmd[c].opts, cmd[c].php)
  <2>1. CASE Written(c, new)
    <3>1. cmd[c].path \in Paths /\ cmd[c].opts \in LinkOptions /\ cmd[c].php \in Versions
      BY <1>0, <1>5 DEF InsertRow, Ready
    <3>2. new \in Rows
      BY <3>1, FreshTyped
    <3> HIDE DEF new
    <3> QED
      BY <1>0, <2>1, <3>1, <3>2, WrittenReady DEF CmdReady
  <2> QED
    BY <1>5, <1>i, <2>1 DEF InsertRow
<1>6. CASE Pin(c)
  <2> DEFINE was == \A r \in {r \in rows : r.name = cmd[c].old.name} : r.path \in whole
             new == [cmd[c] EXCEPT !.pc = "readBack", !.opts = Absent, !.was = was]
  <2>1. CASE cmd' = [cmd EXCEPT ![c].pc = "readBack", ![c].opts = Absent, ![c].was = was]
    <3>1. cmd' = [cmd EXCEPT ![c] = new]
      BY <2>1
    <3>2. was \in BOOLEAN
      OBVIOUS
    <3> HIDE DEF was
    <3>3. cmd[c].old \in Rows /\ cmd[c].php \in Versions
      BY <1>0, <1>6 DEF Pin, Ready
    <3>4. new \in CmdState
      BY <1>0, <3>2 DEF CmdState, Pcs
    <3>5. new.pc = "readBack" /\ new.old = cmd[c].old /\ new.php = cmd[c].php
      BY <1>0 DEF CmdState
    <3> HIDE DEF new
    <3>6. Ready(new)
      BY <3>3, <3>5 DEF Ready
    <3> QED
      BY <1>0, <3>1, <3>4, <3>6, OneCommand DEF CmdReady
  <2> QED
    BY <1>6, <1>i, <2>1 DEF Pin
<1>7. CASE ReadBack(c)
  <2> DEFINE named == {r \in rows : r.name = cmd[c].old.name}
             row == CHOOSE r \in named : TRUE
             new == [cmd[c] EXCEPT !.row = row, !.pc = "writeSite"]
  <2>1. CASE named # {}
    <3>1. cmd' = [cmd EXCEPT ![c] = new]
      BY <1>7, <2>1 DEF ReadBack
    <3>2. row \in Rows
      BY <1>0, <2>1
    <3> HIDE DEF row
    <3>3. cmd[c].php \in Versions
      BY <1>0, <1>7 DEF ReadBack, Ready
    <3>4. new \in CmdState
      BY <1>0, <3>2 DEF CmdState, Pcs
    <3>5. new.pc = "writeSite" /\ new.row = row /\ new.php = cmd[c].php
      BY <1>0 DEF CmdState
    <3> HIDE DEF new
    <3>6. Ready(new)
      BY <3>2, <3>3, <3>5 DEF Ready
    <3> QED
      BY <1>0, <3>1, <3>4, <3>6, OneCommand DEF CmdReady
  <2> QED
    BY <1>7, <1>i, <2>1 DEF ReadBack
<1>8. CASE WriteSite(c)
  <2>1. cmd[c].row \in Rows /\ cmd[c].old \in Rows \cup {Absent}
    BY <1>0, <1>8 DEF WriteSite, Ready, CmdState
  <2>2. CASE Goto(c, "removeStale") /\ cmd[c].old # Absent
    BY <1>0, <2>1, <2>2, GotoReady DEF CmdReady
  <2>3. CASE Goto(c, "applyEnv")
    BY <1>0, <2>1, <2>3, GotoReady DEF CmdReady
  <2> QED
    BY <1>8, <1>i, <2>2, <2>3 DEF WriteSite, Finish
<1>9. CASE RemoveStale(c)
  <2>1. cmd[c].row \in Rows /\ Goto(c, "applyEnv")
    BY <1>0, <1>9 DEF RemoveStale, Ready
  <2> QED
    BY <1>0, <2>1, GotoReady DEF CmdReady
<1>10. CASE ApplyEnv(c)
  <2>1. cmd[c].row \in Rows
    BY <1>0, <1>10 DEF ApplyEnv, Ready
  <2>2. CASE Goto(c, "writeWs")
    BY <1>0, <2>1, <2>2, GotoReady DEF CmdReady
  <2> QED
    BY <1>10, <1>i, <2>2 DEF ApplyEnv, Finish
<1>11. CASE WriteWs(c)
  <2>1. cmd[c].row \in Rows /\ Goto(c, "applyWs")
    BY <1>0, <1>11 DEF WriteWs, Ready
  <2> QED
    BY <1>0, <2>1, GotoReady DEF CmdReady
<1>12. CASE ApplyWs(c) \/ Fail(c)
  BY <1>12, <1>i DEF ApplyWs, Finish, Fail
<1> QED
  BY <1>1, <1>2, <1>3, <1>4, <1>5, <1>6, <1>7, <1>8, <1>9, <1>10, <1>11, <1>12 DEF Step
-----------------------------------------------------------------------------
(* The table *)

\* What a line may do to the table: at most one row is another afterwards, and
\* the one that went left its path or its name behind.
Kept ==
  /\ Cardinality(rows \ rows') <= 1 /\ Cardinality(rows' \ rows) <= 1
  /\ \A r \in rows \ rows' : \E s \in rows' : s.path = r.path \/ s.name = r.name

\* Cardinalities of what is in a singleton.
LEMMA AtMostOne ==
  ASSUME NEW S, NEW x, S \subseteq {x}
  PROVE  Cardinality(S) <= 1
<1>1. CASE S = {}
  BY <1>1, FS_EmptySet
<1>2. CASE S = {x}
  BY <1>2, FS_Singleton
<1> QED
  BY <1>1, <1>2

\* One row of the table, or none, gives way to another.
LEMMA OneRowKept ==
  ASSUME NEW out, NEW new, NEW old, out \subseteq {old}, rows' = (rows \ out) \cup {new},
         out # {} => new.path = old.path \/ new.name = old.name
  PROVE  Kept
<1>1. rows \ rows' \subseteq {old} /\ rows' \ rows \subseteq {new}
  OBVIOUS
<1>2. Cardinality(rows \ rows') <= 1 /\ Cardinality(rows' \ rows) <= 1
  BY <1>1, AtMostOne
<1>3. ASSUME NEW r \in rows \ rows'
      PROVE  \E s \in rows' : s.path = r.path \/ s.name = r.name
  BY <1>3
<1> QED
  BY <1>2, <1>3 DEF Kept

LEMMA SameRowsKept == rows' = rows => Kept
<1> SUFFICES ASSUME rows' = rows PROVE Kept
  OBVIOUS
<1>1. rows \ rows' = {} /\ rows' \ rows = {}
  OBVIOUS
<1> QED
  BY <1>1, FS_EmptySet DEF Kept

\* Rows of one path, or of one name, are one row.
LEMMA AtMostOneRow ==
  ASSUME UniqueKeys(rows), NEW v
  PROVE  /\ \E old : {r \in rows : r.path = v} \subseteq {old}
         /\ \E old : {r \in rows : r.name = v} \subseteq {old}
<1>1. \E old : {r \in rows : r.path = v} \subseteq {old}
  <2>1. CASE \E r \in rows : r.path = v
    BY <2>1 DEF UniqueKeys
  <2> QED
    BY <2>1
<1>2. \E old : {r \in rows : r.name = v} \subseteq {old}
  <2>1. CASE \E r \in rows : r.name = v
    BY <2>1 DEF UniqueKeys
  <2> QED
    BY <2>1
<1> QED
  BY <1>1, <1>2

LEMMA RowsStep ==
  ASSUME Inv, NEW c \in Commands, Step(c)
  PROVE  rows' \subseteq Rows /\ UniqueKeys(rows)' /\ Kept
<1>0. rows \subseteq Rows /\ UniqueKeys(rows) /\ cmd[c] \in CmdState /\ Ready(cmd[c])
  BY DEF Inv, TypeOK, UniqueKeys
<1>i. CASE rows' = rows
  BY <1>0, <1>i, SameRowsKept DEF UniqueKeys
<1>1. CASE UpdateRow(c)
  <2> DEFINE me == cmd[c]
             new == Updated(me.row, me.opts, me.php)
             mine == {r \in rows : r.path = me.path}
  <2>1. CASE rows' = (rows \ mine) \cup {new} /\ mine # {} /\ ~Clash(new, rows \ mine)
    <3>1. me.row \in Rows /\ me.opts \in LinkOptions /\ me.php \in Versions /\ me.row.path = me.path
      BY <1>0, <1>1 DEF UpdateRow, At, Ready, CmdState
    <3>2. new \in Rows /\ new.path = me.path
      BY <3>1, UpdatedTyped
    <3> HIDE DEF new
    <3>3. \A r \in rows \ mine : r.path # new.path /\ r.name # new.name /\ r.domain # new.domain
      BY <2>1, <3>2 DEF Clash
    <3>4. PICK old : mine \subseteq {old}
      BY <1>0, AtMostOneRow
    <3>5. mine # {} => new.path = old.path
      BY <3>2, <3>4
    <3> HIDE DEF mine
    <3>6. rows' \subseteq Rows
      BY <1>0, <2>1, <3>2
    <3>7. UniqueKeys((rows \ mine) \cup {new})
      BY <1>0, <3>3, ReplaceKeepsKeys
    <3>8. UniqueKeys(rows)'
      BY <2>1, <3>7 DEF UniqueKeys
    <3> QED
      BY <2>1, <3>4, <3>5, <3>6, <3>8, OneRowKept
  <2> QED
    BY <1>1, <1>i, <2>1 DEF UpdateRow
<1>2. CASE InsertRow(c)
  <2> DEFINE me == cmd[c]
             new == Fresh(me.path, me.opts, me.php)
             taken == {r \in rows : r.name = new.name}
  <2>1. CASE /\ rows' = (rows \ taken) \cup {new}
             /\ ~\E r \in rows \ taken : r.domain = new.domain \/ r.path = new.path
    <3>1. me.path \in Paths /\ me.opts \in LinkOptions /\ me.php \in Versions
      BY <1>0, <1>2 DEF InsertRow, At, Ready
    <3>2. new \in Rows
      BY <3>1, FreshTyped
    <3> HIDE DEF new
    <3>3. \A r \in rows \ taken : r.path # new.path /\ r.name # new.name /\ r.domain # new.domain
      BY <2>1
    <3>4. PICK old : taken \subseteq {old}
      BY <1>0, AtMostOneRow
    <3>5. taken # {} => new.name = old.name
      BY <3>4
    <3> HIDE DEF taken
    <3>6. rows' \subseteq Rows
      BY <1>0, <2>1, <3>2
    <3>7. UniqueKeys((rows \ taken) \cup {new})
      BY <1>0, <3>3, ReplaceKeepsKeys
    <3>8. UniqueKeys(rows)'
      BY <2>1, <3>7 DEF UniqueKeys
    <3> QED
      BY <2>1, <3>4, <3>5, <3>6, <3>8, OneRowKept
  <2> QED
    BY <1>2, <1>i, <2>1 DEF InsertRow
<1>3. CASE Pin(c)
  <2> DEFINE name == cmd[c].old.name
             php == cmd[c].php
             named == {r \in rows : r.name = name}
  <2>1. CASE rows' = (rows \ named) \cup {[r EXCEPT !.php = php] : r \in named} /\ named # {}
    <3>1. php \in Versions
      BY <1>0, <1>3 DEF Pin, At, Ready
    <3>2. PICK old \in rows : named = {old} /\ old.name = name
      BY <1>0, <2>1 DEF UniqueKeys
    <3> DEFINE new == [old EXCEPT !.php = php]
    <3>3. {[r EXCEPT !.php = php] : r \in named} = {new}
      BY <3>2
    <3>4. rows' = (rows \ {old}) \cup {new}
      BY <2>1, <3>2, <3>3
    <3>5. new \in Rows /\ new.path = old.path /\ new.name = old.name /\ new.domain = old.domain
      BY <1>0, <3>1 DEF Rows
    <3> HIDE DEF new, named
    <3>6. \A r \in rows \ {old} : r.path # new.path /\ r.name # new.name /\ r.domain # new.domain
      BY <1>0, <3>5 DEF UniqueKeys
    <3>7. UniqueKeys((rows \ {old}) \cup {new})
      BY <1>0, <3>6, ReplaceKeepsKeys
    <3>8. UniqueKeys(rows)'
      BY <3>4, <3>7 DEF UniqueKeys
    <3> QED
      BY <1>0, <3>4, <3>5, <3>8, OneRowKept
  <2> QED
    BY <1>3, <1>i, <2>1 DEF Pin
<1>4. CASE ~(UpdateRow(c) \/ InsertRow(c) \/ Pin(c))
  BY <1>4, <1>i DEF Step, Begin, LookUp, ReadRow, ReadBack, WriteSite, RemoveStale,
                    ApplyEnv, WriteWs, ApplyWs, Fail
<1> QED
  BY <1>1, <1>2, <1>3, <1>4

-----------------------------------------------------------------------------
(* The files and the history *)

LEMMA FilesStep ==
  ASSUME Inv, NEW c \in Commands, Step(c)
  PROVE  FilesTyped' /\ HistoryTyped'
<1> USE DEF At
<1>0. /\ FilesTyped /\ HistoryTyped /\ rows \subseteq Rows
      /\ cmd[c] \in CmdState /\ Ready(cmd[c])
  BY DEF Inv, TypeOK, FilesTyped, HistoryTyped
<1>r. \A r \in Rows : /\ r.path \in Paths /\ r.domain \in Domains
                     /\ r.port \in WsPorts \cup {DefaultPort}
  BY DEF Rows
<1>1. CASE Begin(c) \/ LookUp(c) \/ ReadRow(c) \/ ReadBack(c)
  BY <1>0, <1>1 DEF Begin, LookUp, ReadRow, ReadBack, files, FilesTyped, HistoryTyped
<1>2. CASE UpdateRow(c)
  BY <1>0, <1>2 DEF UpdateRow, files, FilesTyped, HistoryTyped
<1>3. CASE InsertRow(c)
  BY <1>0, <1>r, <1>3 DEF InsertRow, files, FilesTyped, HistoryTyped
<1>4. CASE Pin(c)
  BY <1>0, <1>4 DEF Pin, files, FilesTyped, HistoryTyped
<1>5. CASE WriteSite(c)
  <2> DEFINE row == cmd[c].row
             site == [path |-> row.path, php |-> cmd[c].php]
  <2>1. row \in Rows /\ cmd[c].php \in Versions
    BY <1>0, <1>5 DEF WriteSite, Ready
  <2>2. site \in Sites /\ row.path \in Paths
    BY <1>r, <2>1 DEF Sites
  <2>3. sites' = [sites EXCEPT ![row.domain] = site] /\ UNCHANGED <<ws, env, lost>>
    BY <1>5 DEF WriteSite
  <2>4. whole' \subseteq whole \cup {row.path}
    BY <1>5 DEF WriteSite, Finish
  <2> HIDE DEF site
  <2> QED
    BY <1>0, <2>2, <2>3, <2>4 DEF FilesTyped, HistoryTyped
<1>6. CASE RemoveStale(c)
  BY <1>0, <1>6 DEF RemoveStale, FilesTyped, HistoryTyped
<1>7. CASE ApplyEnv(c)
  <2> DEFINE row == cmd[c].row
  <2>1. row.path \in Paths /\ row.domain \in Domains
    BY <1>0, <1>r, <1>7 DEF ApplyEnv, Ready
  <2>2. env' = [env EXCEPT ![row.path] = [@ EXCEPT !.app = row.domain]] /\ UNCHANGED <<sites, ws, lost>>
    BY <1>7 DEF ApplyEnv
  <2>3. whole' \subseteq whole \cup {row.path}
    BY <1>7 DEF ApplyEnv, Finish
  <2>4. [env[row.path] EXCEPT !.app = row.domain] \in EnvState
    BY <1>0, <2>1 DEF FilesTyped, EnvState
  <2> HIDE DEF row
  <2> QED
    BY <1>0, <2>1, <2>2, <2>3, <2>4 DEF FilesTyped, HistoryTyped
<1>8. CASE WriteWs(c)
  <2>1. cmd[c].row.port \in WsPorts \cup {DefaultPort}
    BY <1>0, <1>r, <1>8 DEF WriteWs, Ready
  <2> QED
    BY <1>0, <1>8, <2>1 DEF WriteWs, FilesTyped, HistoryTyped
<1>9. CASE ApplyWs(c)
  <2> DEFINE row == cmd[c].row
  <2>1. row.path \in Paths /\ row.domain \in Domains
    BY <1>0, <1>r, <1>9 DEF ApplyWs, Ready
  <2>2. env' = [env EXCEPT ![row.path] = [@ EXCEPT !.ws = row.domain]] /\ UNCHANGED <<sites, ws, lost>>
    BY <1>9 DEF ApplyWs
  <2>3. whole' \subseteq whole \cup {row.path}
    BY <1>9 DEF ApplyWs, Finish
  <2>4. [env[row.path] EXCEPT !.ws = row.domain] \in EnvState
    BY <1>0, <2>1 DEF FilesTyped, EnvState
  <2> HIDE DEF row
  <2> QED
    BY <1>0, <2>1, <2>2, <2>3, <2>4 DEF FilesTyped, HistoryTyped
<1>10. CASE Fail(c)
  <2>1. cmd[c].old # Absent => cmd[c].old.domain \in Domains
    BY <1>0, <1>r DEF CmdState
  <2>2. lost' \subseteq Domains
    BY <1>0, <1>10, <2>1 DEF Fail, HistoryTyped
  <2> QED
    BY <1>0, <1>10, <2>2 DEF Fail, files, FilesTyped, HistoryTyped
<1> QED
  BY <1>1, <1>2, <1>3, <1>4, <1>5, <1>6, <1>7, <1>8, <1>9, <1>10 DEF Step

-----------------------------------------------------------------------------
(* The theorems *)

LEMMA InvStep == Inv /\ [Next]_vars => Inv' /\ [Kept]_vars
<1> SUFFICES ASSUME Inv, [Next]_vars PROVE Inv' /\ [Kept]_vars
  OBVIOUS
<1>1. CASE Next
  <2>1. PICK c \in Commands : Step(c)
    BY <1>1 DEF Next
  <2>2. CmdReady' /\ rows' \subseteq Rows /\ UniqueKeys(rows)' /\ Kept /\ FilesTyped' /\ HistoryTyped'
    BY <2>1, CommandStep, RowsStep, FilesStep
  <2> QED
    BY <2>2 DEF Inv, TypeOK, CmdReady, UniqueKeys, FilesTyped, HistoryTyped
<1>2. CASE UNCHANGED vars
  BY <1>2 DEF vars, files, Inv, TypeOK, Ready, Kept
<1> QED
  BY <1>1, <1>2

(***************************************************************************)
(* Whatever commands run, overlap and fail: every line of link and php use *)
(* finds in its variables what it goes by.                                 *)
(***************************************************************************)
THEOREM LinksInvHolds == Spec => []Inv
<1> QED
  BY InitInv, InvStep, PTL DEF Spec

(***************************************************************************)
(* The table stays well formed: paths, names and domains are unique, also  *)
(* when two commands insert and rename at once.                            *)
(***************************************************************************)
THEOREM LinksTypeCorrect == Spec => []TypeOK
<1>1. Inv => TypeOK
  BY DEF Inv
<1> QED
  BY <1>1, LinksInvHolds, PTL

(***************************************************************************)
(* A project loses its row only to one that is linked under its own name.  *)
(***************************************************************************)
THEOREM ProjectsKeepTheirRows == Spec => RowsStayPut
<1>1. Inv /\ [Next]_vars => [Kept]_vars
  BY InvStep
<1> QED
  BY <1>1, LinksInvHolds, PTL DEF Spec, RowsStayPut, Kept
-----------------------------------------------------------------------------
(* One command at a time *)

\* What a command reads back, removes or writes is of one row; a changed port is
\* the one thing that the table may not have (Changed).
Same(r, row) == r.path = row.path /\ r.domain = row.domain /\ r.php = row.php /\ r.ws = row.ws

EnvServes(r) ==
  /\ env[r.path].app = r.domain
  /\ r.ws => ws[r.domain] # Absent /\ env[r.path].ws = r.domain

\* A row whose files are as the table says.
Served(r) == sites[r.domain] = [path |-> r.path, php |-> r.php] /\ EnvServes(r)

\* A command that has renamed its project and not yet removed the old files.
Stale(me) ==
  /\ me.pc \in {"writeSite", "removeStale"}
  /\ me.old # Absent /\ me.old.domain # me.row.domain

Later == {"writeSite", "removeStale", "applyEnv", "writeWs", "applyWs"}

\* How far a command has got that runs alone.
Progress(me) ==
  /\ me.pc \in {"readRow", "writeRow"} => me.old = ByPath(me.path)
  /\ me.pc = "writeRow" => me.row = me.old
  /\ me.pc \in {"pin", "readBack"} => me.op = "use"
  /\ me.pc = "pin" => me.old \in rows
  /\ me.pc = "readBack" =>
       /\ [me.old EXCEPT !.php = me.php] \in rows
       /\ me.old.path \notin whole
       /\ me.was => EnvServes(me.old)
  /\ me.pc = "writeSite" =>
       /\ me.php = me.row.php
       /\ me.op = "use" => me.old.domain = me.row.domain /\ (me.was => EnvServes(me.row))
  /\ me.pc \in Later => me.row.path \notin whole /\ \E r \in rows : Same(r, me.row)
  /\ me.pc \in Later \ {"writeSite"} => sites[me.row.domain] = [path |-> me.row.path, php |-> me.row.php]
  /\ me.pc = "removeStale" => Stale(me)
  /\ Stale(me) => \A r \in rows : r.domain # me.old.domain
  /\ me.pc \in {"writeWs", "applyWs"} => me.row.ws /\ env[me.row.path].app = me.row.domain
  /\ me.pc = "applyWs" => ws[me.row.domain] # Absent

Alone == \A c, d \in Commands : c = d \/ At(c, "idle") \/ At(d, "idle")

HasFile(d) == sites[d] # Absent \/ ws[d] # Absent

WholeServed == \A r \in rows : r.path \in whole => Served(r)

\* A websocket file is one of a project that has websockets; a site file is one
\* of a project, or about to be removed.
WsKnown == \A r \in rows : r.domain \notin lost /\ ws[r.domain] # Absent => r.ws

NoStray ==
  \A d \in Domains \ lost : HasFile(d) =>
    (\E r \in rows : r.domain = d) \/ (\E c \in Commands : Stale(cmd[c]) /\ cmd[c].old.domain = d)

ServedInv ==
  /\ Inv /\ Alone
  /\ \A c \in Commands : Progress(cmd[c])
  /\ WholeServed /\ WsKnown /\ NoStray

LEMMA InitServed == Init => ServedInv
<1> SUFFICES ASSUME Init PROVE ServedInv
  OBVIOUS
<1>1. Inv
  BY InitInv
<1>2. \A c \in Commands : cmd[c] = Idle
  BY DEF Init
<1>3. Alone /\ \A c \in Commands : Progress(cmd[c])
  BY <1>2 DEF Idle, Alone, At, Progress, Later, Stale
<1>4. WholeServed /\ WsKnown /\ NoStray
  BY DEF Init, WholeServed, WsKnown, NoStray, HasFile
<1> QED
  BY <1>1, <1>3, <1>4 DEF ServedInv

\* Only one command is under way, so that only its progress is in question.
LEMMA OneGoesOn ==
  ASSUME ServedInv, Inv', NEW c \in Commands, ~At(c, "idle") \/ AllIdle,
         \A d \in Commands \ {c} : cmd'[d] = cmd[d],
         Progress(cmd[c])', WholeServed', WsKnown', NoStray'
  PROVE  ServedInv'
<1>1. \A d \in Commands \ {c} : cmd'[d].pc = "idle"
  BY DEF ServedInv, Alone, At, AllIdle
<1>2. Alone'
  BY <1>1 DEF Alone, At
<1>3. \A d \in Commands \ {c} : Progress(cmd[d])'
  BY <1>1 DEF Progress, Later, Stale
<1> QED
  BY <1>2, <1>3 DEF ServedInv

\* A command that leaves the stores alone, or is over.
LEMMA NothingWritten ==
  ASSUME ServedInv, Inv', NEW c \in Commands, ~At(c, "idle") \/ AllIdle,
         \A d \in Commands \ {c} : cmd'[d] = cmd[d],
         UNCHANGED <<rows, files, whole>>, lost \subseteq lost', Progress(cmd[c])',
         Stale(cmd[c]) => cmd[c].old.domain \in lost'
  PROVE  ServedInv'
<1>1. WholeServed'
  BY DEF ServedInv, WholeServed, Served, EnvServes, files
<1>2. WsKnown'
  BY DEF ServedInv, WsKnown, files
<1>3. ASSUME NEW d \in Domains \ lost', HasFile(d)', ~\E r \in rows' : r.domain = d
      PROVE  \E e \in Commands : Stale(cmd[e])' /\ cmd'[e].old.domain = d
  <2>1. d \in Domains \ lost /\ HasFile(d) /\ ~\E r \in rows : r.domain = d
    BY <1>3 DEF HasFile, files
  <2>2. PICK e \in Commands : Stale(cmd[e]) /\ cmd[e].old.domain = d
    BY <2>1 DEF ServedInv, NoStray
  <2>3. e # c
    BY <1>3, <2>2
  <2> QED
    BY <2>2, <2>3 DEF Stale
<1>4. NoStray'
  BY <1>3 DEF NoStray
<1> QED
  BY <1>1, <1>2, <1>4, OneGoesOn

\* The idle command has nothing to show.
LEMMA IdleProgress ==
  ASSUME NEW c \in Commands, cmd'[c] = Idle
  PROVE  Progress(cmd[c])'
BY DEF Idle, Progress, Later, Stale

\* A project is found by its path.
LEMMA ByPathIs ==
  ASSUME UniqueKeys(rows), NEW r \in rows
  PROVE  ByPath(r.path) = r
BY DEF ByPath, UniqueKeys
\* The fields of a command.
LEMMA CommandIs ==
  ASSUME Inv, NEW c \in Commands
  PROVE  /\ cmd \in [Commands -> CmdState] /\ cmd[c] \in CmdState /\ Ready(cmd[c])
         /\ rows \subseteq Rows /\ UniqueKeys(rows)
         /\ \A new : cmd' = [cmd EXCEPT ![c] = new] =>
              cmd'[c] = new /\ \A d \in Commands \ {c} : cmd'[d] = cmd[d]
BY DEF Inv, TypeOK, UniqueKeys

LEMMA BeginServed ==
  ASSUME ServedInv, Inv', "overlap" \notin Faults, NEW c \in Commands, Begin(c)
  PROVE  ServedInv'
<1>1. Inv /\ AllIdle /\ At(c, "idle")
  BY DEF Begin, ServedInv
<1>2. PICK new : cmd' = [cmd EXCEPT ![c] = new] /\ new.pc = "lookUp"
  <2>1. PICK op \in {"link", "use"}, opts \in LinkOptions \cup Pins,
             path \in Paths \cup {Absent}, value \in Opt("value", Domains) :
          /\ (path = Absent) # (value = Absent)
          /\ opts \in (IF op = "use" THEN Pins ELSE LinkOptions)
          /\ cmd' = [cmd EXCEPT ![c] = [Idle EXCEPT !.pc = "lookUp", !.op = op, !.opts = opts,
                                                    !.path = path, !.value = value]]
    BY DEF Begin
  <2> DEFINE begun == [Idle EXCEPT !.pc = "lookUp", !.op = op, !.opts = opts, !.path = path, !.value = value]
  <2>2. begun.pc = "lookUp"
    BY DEF Idle
  <2>3. cmd' = [cmd EXCEPT ![c] = begun]
    BY <2>1
  <2> HIDE DEF begun
  <2> QED
    BY <2>2, <2>3
<1>3. cmd'[c].pc = "lookUp" /\ \A d \in Commands \ {c} : cmd'[d] = cmd[d]
  BY <1>1, <1>2, CommandIs
<1>4. Progress(cmd[c])'
  BY <1>3 DEF Progress, Later, Stale
<1>5. ~Stale(cmd[c])
  BY <1>1 DEF Stale, At
<1> QED
  BY <1>1, <1>3, <1>4, <1>5, NothingWritten DEF Begin

LEMMA EndServed ==
  ASSUME ServedInv, Inv', NEW c \in Commands, ~At(c, "idle"), cmd' = [cmd EXCEPT ![c] = Idle],
         UNCHANGED <<rows, files, whole>>, lost \subseteq lost',
         Stale(cmd[c]) => cmd[c].old.domain \in lost'
  PROVE  ServedInv'
<1>1. cmd'[c] = Idle /\ \A d \in Commands \ {c} : cmd'[d] = cmd[d]
  BY CommandIs DEF ServedInv
<1> QED
  BY <1>1, IdleProgress, NothingWritten

LEMMA LookUpServed ==
  ASSUME ServedInv, Inv', NEW c \in Commands, LookUp(c)
  PROVE  ServedInv'
<1> DEFINE me == cmd[c]
           found == Found(me)
           new(old) == [me EXCEPT
                 !.old = old,
                 !.path = IF old = Absent THEN @ ELSE old.path,
                 !.value = Absent,
                 !.php = Or(me.opts.php, IF old = Absent THEN Latest ELSE old.php),
                 !.pc = IF me.op = "use" THEN "pin" ELSE "readRow"]
<1>1. /\ Inv /\ me.pc = "lookUp" /\ ~At(c, "idle") /\ ~Stale(me)
      /\ UNCHANGED <<rows, files, whole, lost>>
  BY DEF LookUp, ServedInv, At, Stale
<1>2. CASE cmd' = [cmd EXCEPT ![c] = Idle]
  BY <1>1, <1>2, EndServed
<1>3. ASSUME NEW old \in found, cmd' = [cmd EXCEPT ![c] = new(old)]
      PROVE  ServedInv'
  <2>1. me \in CmdState /\ Ready(me) /\ rows \subseteq Rows /\ UniqueKeys(rows)
    BY <1>1, CommandIs
  <2>2. /\ me.op \in {"link", "use"} /\ me.path \in Paths \cup {Absent}
        /\ me.path = Absent => me.value # Absent
    BY <1>1, <2>1 DEF Ready, CmdState
  <2>3. CASE me.op = "use"
    <3>1. old \in rows
      BY <2>2, <2>3 DEF Found, ByValue, Nearest
    <3>2. new(old).pc = "pin" /\ new(old).op = "use" /\ new(old).old = old
      BY <2>1, <2>3 DEF CmdState
    <3> HIDE DEF new
    <3>3. cmd'[c] = new(old) /\ \A d \in Commands \ {c} : cmd'[d] = cmd[d]
      BY <1>1, <1>3, CommandIs
    <3>4. Progress(cmd[c])'
      BY <1>1, <3>1, <3>2, <3>3 DEF Progress, Later, Stale
    <3> QED
      BY <1>1, <3>3, <3>4, NothingWritten
  <2>4. CASE me.op = "link"
    <3>1. old = ByPath(IF old = Absent THEN me.path ELSE old.path)
      <4>1. CASE me.path = Absent
        <5>1. old \in rows
          BY <4>1 DEF Found, ByValue
        <5>2. old # Absent
          BY <2>1, <5>1, AbsentAssumption
        <5> QED
          BY <2>1, <5>1, <5>2, ByPathIs
      <4>2. CASE me.path # Absent
        <5>1. old = ByPath(me.path)
          BY <2>4, <4>2 DEF Found
        <5>2. old # Absent => old.path = me.path
          BY <2>1, <2>2, <4>2, <5>1, ByPathFinds
        <5> QED
          BY <5>1, <5>2
      <4> QED
        BY <4>1, <4>2
    <3>2. new(old).pc = "readRow" /\ new(old).old = old /\ new(old).path = IF old = Absent THEN me.path ELSE old.path
      BY <2>1, <2>4 DEF CmdState
    <3> HIDE DEF new
    <3>3. cmd'[c] = new(old) /\ \A d \in Commands \ {c} : cmd'[d] = cmd[d]
      BY <1>1, <1>3, CommandIs
    <3>4. \A p : ByPath(p)' = ByPath(p)
      BY <1>1 DEF ByPath
    <3>5. Progress(cmd[c])'
      BY <1>1, <3>1, <3>2, <3>3, <3>4 DEF Progress, Later, Stale
    <3> QED
      BY <1>1, <3>3, <3>5, NothingWritten
  <2> QED
    BY <2>2, <2>3, <2>4
<1> QED
  BY <1>2, <1>3 DEF LookUp

LEMMA ReadRowServed ==
  ASSUME ServedInv, Inv', NEW c \in Commands, ReadRow(c)
  PROVE  ServedInv'
<1> DEFINE new == [cmd[c] EXCEPT !.row = ByPath(cmd[c].path), !.pc = "writeRow"]
<1>1. /\ Inv /\ cmd[c].pc = "readRow" /\ ~At(c, "idle") /\ ~Stale(cmd[c])
      /\ UNCHANGED <<rows, files, whole, lost>> /\ Progress(cmd[c])
  BY DEF ReadRow, ServedInv, At, Stale
<1>2. new.pc = "writeRow" /\ new.row = ByPath(cmd[c].path) /\ new.old = cmd[c].old /\ new.path = cmd[c].path
  BY <1>1, CommandIs DEF CmdState
<1>3. cmd' = [cmd EXCEPT ![c] = new]
  BY DEF ReadRow
<1> HIDE DEF new
<1>4. cmd'[c] = new /\ \A d \in Commands \ {c} : cmd'[d] = cmd[d]
  BY <1>1, <1>3, CommandIs
<1>5. new.old = ByPath(new.path) /\ \A p : ByPath(p)' = ByPath(p)
  BY <1>1, <1>2 DEF Progress, ByPath
<1>6. Progress(cmd[c])'
  BY <1>2, <1>4, <1>5 DEF Progress, Later, Stale
<1> QED
  BY <1>1, <1>4, <1>6, NothingWritten

LEMMA ReadBackServed ==
  ASSUME ServedInv, Inv', NEW c \in Commands, ReadBack(c)
  PROVE  ServedInv'
<1> DEFINE named == {r \in rows : r.name = cmd[c].old.name}
           row == CHOOSE r \in named : TRUE
           back == [cmd[c].old EXCEPT !.php = cmd[c].php]
           new == [cmd[c] EXCEPT !.row = row, !.pc = "writeSite"]
<1>1. /\ Inv /\ cmd[c].pc = "readBack" /\ ~At(c, "idle") /\ ~Stale(cmd[c])
      /\ UNCHANGED <<rows, files, whole, lost>> /\ Progress(cmd[c])
      /\ cmd[c] \in CmdState /\ Ready(cmd[c]) /\ UniqueKeys(rows) /\ rows \subseteq Rows
  BY CommandIs DEF ReadBack, ServedInv, At, Stale
<1>2. cmd[c].old \in Rows /\ cmd[c].php \in Versions /\ cmd[c].op = "use" /\ back \in rows
      /\ cmd[c].old.path \notin whole /\ (cmd[c].was => EnvServes(cmd[c].old))
  BY <1>1 DEF Ready, Progress
<1>3. /\ back.path = cmd[c].old.path /\ back.name = cmd[c].old.name /\ back.domain = cmd[c].old.domain
      /\ back.ws = cmd[c].old.ws /\ back.php = cmd[c].php
  BY <1>2 DEF Rows
<1> HIDE DEF back
<1>4. row = back /\ named # {}
  BY <1>1, <1>2, <1>3 DEF UniqueKeys
<1> HIDE DEF row
<1>5. /\ new.pc = "writeSite" /\ new.row = back /\ new.php = cmd[c].php /\ new.old = cmd[c].old
      /\ new.op = "use" /\ new.was = cmd[c].was
  BY <1>1, <1>2, <1>4 DEF CmdState
<1>6. cmd' = [cmd EXCEPT ![c] = new]
  BY <1>4 DEF ReadBack, row
<1> HIDE DEF new
<1>7. cmd'[c] = new /\ \A d \in Commands \ {c} : cmd'[d] = cmd[d]
  BY <1>1, <1>6, CommandIs
<1>8. cmd'[c].was => EnvServes(cmd[c].row)'
  BY <1>1, <1>2, <1>3, <1>5, <1>7 DEF EnvServes, files
<1>9. Progress(cmd[c])'
  BY <1>1, <1>2, <1>3, <1>5, <1>7, <1>8 DEF Progress, Later, Stale, Same
<1> QED
  BY <1>1, <1>7, <1>9, NothingWritten

\* A command writes a row; whose files are not as they should be, or about whom
\* nothing was known, is not whole.
LEMMA RowWritten ==
  ASSUME ServedInv, Inv', NEW c \in Commands, ~At(c, "idle"), NEW out, NEW new \in Rows,
         \A d \in Commands \ {c} : cmd'[d] = cmd[d], ~Stale(cmd[c]),
         rows' = (rows \ out) \cup {new}, UNCHANGED files, whole' \subseteq whole, new.path \notin whole', lost \subseteq lost',
         Progress(cmd[c])',
         new.domain \notin lost' /\ ws[new.domain] # Absent => new.ws,
         \A r \in rows \cap out : r.domain = new.domain \/ r.domain \in lost' \/ (Stale(cmd[c])' /\ cmd'[c].old.domain = r.domain)
  PROVE  ServedInv'
<1>1. WholeServed'
  BY DEF ServedInv, WholeServed, Served, EnvServes, files
<1>2. WsKnown'
  BY DEF ServedInv, WsKnown, files
<1>3. ASSUME NEW d \in Domains \ lost', HasFile(d)', ~\E r \in rows' : r.domain = d
      PROVE  \E e \in Commands : Stale(cmd[e])' /\ cmd'[e].old.domain = d
  <2>1. d \in Domains \ lost /\ HasFile(d)
    BY <1>3 DEF HasFile, files
  <2>2. CASE \E r \in rows : r.domain = d
    BY <1>3, <2>2
  <2>3. CASE \E e \in Commands : Stale(cmd[e]) /\ cmd[e].old.domain = d
    BY <2>3 DEF Stale
  <2> QED
    BY <2>1, <2>2, <2>3 DEF ServedInv, NoStray
<1>4. NoStray'
  BY <1>3 DEF NoStray
<1> QED
  BY <1>1, <1>2, <1>4, OneGoesOn

\* While nothing is about to be removed, every file has its project.
LEMMA FilesHaveRows ==
  ASSUME ServedInv, NEW c \in Commands, ~At(c, "idle") \/ AllIdle, ~Stale(cmd[c]), NEW d \in Domains \ lost, HasFile(d)
  PROVE  \E r \in rows : r.domain = d
<1>1. ASSUME NEW e \in Commands, Stale(cmd[e])
      PROVE  FALSE
  <2>1. ~At(e, "idle")
    BY <1>1 DEF Stale, At
  <2>2. e = c
    BY <2>1 DEF ServedInv, Alone, AllIdle, At
  <2> QED
    BY <1>1, <2>2
<1> QED
  BY <1>1 DEF ServedInv, NoStray

LEMMA WrittenIs ==
  ASSUME Inv, NEW c \in Commands, NEW new, Written(c, new)
  PROVE  /\ cmd'[c].row = new /\ cmd'[c].pc = "writeSite" /\ cmd'[c].php = cmd[c].php
         /\ cmd'[c].old = cmd[c].old /\ cmd'[c].op = cmd[c].op
         /\ \A d \in Commands \ {c} : cmd'[d] = cmd[d]
<1> DEFINE me == [cmd[c] EXCEPT !.row = new, !.opts = Absent, !.pc = "writeSite"]
<1>1. cmd' = [cmd EXCEPT ![c] = me]
  BY DEF Written
<1>2. /\ me.row = new /\ me.pc = "writeSite" /\ me.php = cmd[c].php
      /\ me.old = cmd[c].old /\ me.op = cmd[c].op
  BY CommandIs DEF CmdState
<1> HIDE DEF me
<1> QED
  BY <1>1, <1>2, CommandIs

LEMMA UpdateServed ==
  ASSUME ServedInv, Inv', NEW c \in Commands, UpdateRow(c)
  PROVE  ServedInv'
<1> DEFINE me == cmd[c]
           row == me.row
           new == Updated(me.row, me.opts, me.php)
           mine == {r \in rows : r.path = me.path}
<1>1. /\ Inv /\ me.pc = "writeRow" /\ ~At(c, "idle") /\ ~Stale(me) /\ row # Absent /\ Progress(me)
      /\ me \in CmdState /\ Ready(me) /\ UniqueKeys(rows) /\ rows \subseteq Rows /\ UNCHANGED <<files, lost>>
  BY CommandIs DEF UpdateRow, ServedInv, At, Stale
<1>2. CASE cmd' = [cmd EXCEPT ![c] = Idle] /\ UNCHANGED <<rows, whole>>
  BY <1>1, <1>2, EndServed
<1>3. CASE /\ rows' = IF Changed(me.row, new) /\ mine # {} THEN (rows \ mine) \cup {new} ELSE rows
           /\ whole' = whole \ {me.path} /\ Written(c, new)
           /\ ~(Changed(me.row, new) /\ mine # {} /\ Clash(new, rows \ mine))
  <2>1. me.op = "link" /\ me.opts \in LinkOptions /\ me.path \in Paths /\ me.php \in Versions /\ row = me.old
        /\ row = ByPath(me.path)
    BY <1>1 DEF Ready, Progress
  <2>2. row \in rows /\ row.path = me.path /\ row \in Rows
    BY <1>1, <2>1, ByPathFinds
  <2>3. mine = {row}
    BY <1>1, <2>2 DEF UniqueKeys
  <2>4. new \in Rows /\ new.path = row.path
    BY <2>1, <2>2, UpdatedTyped
  <2>5. new.php = me.php /\ (row.ws => new.ws)
    BY <2>1, <2>2, OptionsTyped DEF Updated, Rows
  <2>6. ~Changed(row, new) => Same(row, new)
    BY <2>2, <2>4 DEF Changed, Rows, Same
  <2> HIDE DEF new
  <2>7. /\ cmd'[c].row = new /\ cmd'[c].pc = "writeSite" /\ cmd'[c].php = me.php
        /\ cmd'[c].old = row /\ cmd'[c].op = "link"
        /\ \A d \in Commands \ {c} : cmd'[d] = cmd[d]
    BY <1>1, <1>3, <2>1, WrittenIs
  <2>8. new.path \notin whole'
    BY <1>3, <2>2, <2>4
  <2>9. CASE Changed(row, new)
    <3>1. rows' = (rows \ {row}) \cup {new} /\ ~Clash(new, rows \ {row})
      BY <1>3, <2>3, <2>9
    <3>2. \A r \in rows \ {row} : r.domain # row.domain /\ r.domain # new.domain
      BY <1>1, <2>2, <3>1 DEF UniqueKeys, Clash
    <3>3. Progress(cmd[c])'
      BY <2>5, <2>7, <2>8, <3>1, <3>2 DEF Progress, Later, Stale, Same
    <3>4. new.domain \notin lost' /\ ws[new.domain] # Absent => new.ws
      <4> SUFFICES ASSUME new.domain \notin lost, ws[new.domain] # Absent
                   PROVE  new.ws
        BY <1>1
      <4>1. new.domain \in Domains \ lost /\ HasFile(new.domain)
        BY <2>4 DEF HasFile, Rows
      <4>2. PICK r \in rows : r.domain = new.domain
        BY <1>1, <4>1, FilesHaveRows
      <4>3. r = row
        BY <3>2, <4>2
      <4> QED
        BY <2>5, <4>2, <4>3 DEF ServedInv, WsKnown
    <3>5. \A r \in rows \cap {row} : \/ r.domain = new.domain \/ r.domain \in lost'
                                     \/ Stale(cmd[c])' /\ cmd'[c].old.domain = r.domain
      BY <2>2, <2>7, AbsentAssumption DEF Stale
    <3> QED
      BY <1>1, <1>3, <2>4, <2>7, <2>8, <3>1, <3>3, <3>4, <3>5, RowWritten
  <2>10. CASE ~Changed(row, new)
    <3>1. rows' = (rows \ {row}) \cup {row}
      BY <1>3, <2>2, <2>10
    <3>2. Progress(cmd[c])'
      BY <2>2, <2>5, <2>6, <2>7, <2>8, <2>10, <3>1 DEF Progress, Later, Stale, Same
    <3>3. row.domain \notin lost' /\ ws[row.domain] # Absent => row.ws
      BY <1>1, <2>2 DEF ServedInv, WsKnown
    <3>4. row.path \notin whole' /\ whole' \subseteq whole
      BY <1>3, <2>2
    <3>5. \A r \in rows \cap {row} : r.domain = row.domain
      OBVIOUS
    <3> QED
      BY <1>1, <2>2, <2>7, <3>1, <3>2, <3>3, <3>4, <3>5, RowWritten
  <2> QED
    BY <2>9, <2>10
<1> QED
  BY <1>2, <1>3 DEF UpdateRow

LEMMA InsertServed ==
  ASSUME ServedInv, Inv', NEW c \in Commands, InsertRow(c)
  PROVE  ServedInv'
<1> DEFINE me == cmd[c]
           new == Fresh(me.path, me.opts, me.php)
           taken == {r \in rows : r.name = new.name}
<1>1. /\ Inv /\ me.pc = "writeRow" /\ ~At(c, "idle") /\ ~Stale(me) /\ me.row = Absent /\ Progress(me)
      /\ me \in CmdState /\ Ready(me) /\ UniqueKeys(rows) /\ rows \subseteq Rows /\ UNCHANGED files
  BY CommandIs DEF InsertRow, ServedInv, At, Stale
<1>2. CASE cmd' = [cmd EXCEPT ![c] = Idle] /\ UNCHANGED <<rows, whole, lost>>
  BY <1>1, <1>2, EndServed
<1>3. CASE /\ ~\E r \in rows \ taken : r.domain = new.domain \/ r.path = new.path
           /\ rows' = (rows \ taken) \cup {new}
           /\ whole' = whole \ {me.path}
           /\ lost' = lost \cup {r.domain : r \in {t \in taken : t.domain # new.domain \/ (t.ws /\ ~new.ws)}}
           /\ Written(c, new)
  <2>1. me.op = "link" /\ me.opts \in LinkOptions /\ me.path \in Paths /\ me.php \in Versions /\ me.old = Absent
    BY <1>1 DEF Ready, Progress
  <2>2. new \in Rows /\ new.path = me.path
    BY <2>1, FreshTyped
  <2>3. new.php = me.php
    BY DEF Fresh
  <2> HIDE DEF new
  <2>4. /\ cmd'[c].row = new /\ cmd'[c].pc = "writeSite" /\ cmd'[c].php = me.php
        /\ cmd'[c].old = Absent /\ cmd'[c].op = "link"
        /\ \A d \in Commands \ {c} : cmd'[d] = cmd[d]
    BY <1>1, <1>3, <2>1, WrittenIs
  <2>5. new.path \notin whole' /\ whole' \subseteq whole /\ lost \subseteq lost'
    BY <1>3, <2>2
  <2>6. Progress(cmd[c])'
    BY <1>3, <2>3, <2>4, <2>5 DEF Progress, Later, Stale, Same
  <2>7. \A r \in rows \cap taken : r.domain = new.domain \/ r.domain \in lost'
    BY <1>3
  <2>8. new.domain \notin lost' /\ ws[new.domain] # Absent => new.ws
    <3> SUFFICES ASSUME new.domain \notin lost', ws[new.domain] # Absent
                 PROVE  new.ws
      OBVIOUS
    <3>1. new.domain \in Domains \ lost /\ HasFile(new.domain)
      BY <2>2, <2>5 DEF HasFile, Rows
    <3>2. PICK r \in rows : r.domain = new.domain
      BY <1>1, <3>1, FilesHaveRows
    <3>3. r.ws
      BY <3>1, <3>2 DEF ServedInv, WsKnown
    <3>4. r \in taken
      BY <1>3, <3>2
    <3> QED
      BY <1>3, <3>2, <3>3, <3>4
  <2> HIDE DEF taken
  <2> QED
    BY <1>1, <1>3, <2>2, <2>4, <2>5, <2>6, <2>7, <2>8, RowWritten
<1> QED
  BY <1>2, <1>3 DEF InsertRow

LEMMA PinServed ==
  ASSUME ServedInv, Inv', NEW c \in Commands, Pin(c)
  PROVE  ServedInv'
<1> DEFINE me == cmd[c]
           old == me.old
           named == {r \in rows : r.name = old.name}
           new == [old EXCEPT !.php = me.php]
           was == \A r \in named : r.path \in whole
           pinned == [me EXCEPT !.pc = "readBack", !.opts = Absent, !.was = was]
<1>1. /\ Inv /\ me.pc = "pin" /\ ~At(c, "idle") /\ ~Stale(me) /\ Progress(me)
      /\ me \in CmdState /\ Ready(me) /\ UniqueKeys(rows) /\ rows \subseteq Rows /\ UNCHANGED <<files, lost>>
  BY CommandIs DEF Pin, ServedInv, At, Stale
<1>2. old \in rows /\ old \in Rows /\ me.op = "use" /\ me.php \in Versions
  BY <1>1 DEF Ready, Progress
<1>3. named = {old}
  BY <1>1, <1>2 DEF UniqueKeys
<1>4. /\ rows' = (rows \ named) \cup {[r EXCEPT !.php = me.php] : r \in named}
      /\ whole' = whole \ {r.path : r \in named}
      /\ cmd' = [cmd EXCEPT ![c] = pinned]
  BY <1>3 DEF Pin
<1>5. /\ {[r EXCEPT !.php = me.php] : r \in named} = {new} /\ {r.path : r \in named} = {old.path}
      /\ was => old.path \in whole
  BY <1>3
<1>6. rows' = (rows \ {old}) \cup {new} /\ whole' = whole \ {old.path}
  BY <1>3, <1>4, <1>5
<1>7. new \in Rows /\ new.path = old.path /\ new.domain = old.domain /\ new.ws = old.ws
  BY <1>2 DEF Rows
<1> HIDE DEF new
<1>8. was => EnvServes(old)
  BY <1>2, <1>5 DEF ServedInv, WholeServed, Served
<1> HIDE DEF was
<1>9. pinned.pc = "readBack" /\ pinned.op = "use" /\ pinned.old = old /\ pinned.php = me.php /\ pinned.was = was
  BY <1>1, <1>2 DEF CmdState
<1> HIDE DEF pinned
<1>10. cmd'[c] = pinned /\ \A d \in Commands \ {c} : cmd'[d] = cmd[d]
  BY <1>1, <1>4, CommandIs
<1>11. cmd'[c].was => EnvServes(cmd[c].old)'
  BY <1>1, <1>8, <1>9, <1>10 DEF EnvServes, files
<1>12. Progress(cmd[c])'
  <2>1. [cmd'[c].old EXCEPT !.php = cmd'[c].php] \in rows'
    BY <1>6, <1>9, <1>10 DEF new
  <2> QED
    BY <1>6, <1>9, <1>10, <1>11, <2>1 DEF Progress, Later, Stale
<1>13. new.domain \notin lost' /\ ws[new.domain] # Absent => new.ws
  BY <1>1, <1>2, <1>7 DEF ServedInv, WsKnown
<1>14. new.path \notin whole' /\ whole' \subseteq whole
  BY <1>6, <1>7
<1>15. \A r \in rows \cap {old} : r.domain = new.domain
  BY <1>7
<1> QED
  BY <1>1, <1>6, <1>7, <1>10, <1>12, <1>13, <1>14, <1>15, RowWritten

\* A command writes or removes files: those of its own project, and those of the
\* domain that it has left.
LEMMA FileWritten ==
  ASSUME ServedInv, Inv', NEW c \in Commands, ~At(c, "idle"), \A d \in Commands \ {c} : cmd'[d] = cmd[d],
         UNCHANGED <<rows, lost>>, NEW row \in rows, row.path \notin whole,
         whole' = whole \/ (whole' = whole \cup {row.path} /\ Served(row)'),
         \A r \in rows \ {row} : /\ sites'[r.domain] = sites[r.domain] /\ ws'[r.domain] = ws[r.domain]
                                 /\ env'[r.path] = env[r.path],
         ws'[row.domain] # Absent => row.ws \/ ws'[row.domain] = ws[row.domain],
         \A d \in Domains \ {row.domain} : HasFile(d)' =>
           HasFile(d) /\ (Stale(cmd[c]) /\ cmd[c].old.domain = d => Stale(cmd[c])' /\ cmd'[c].old = cmd[c].old),
         Progress(cmd[c])'
  PROVE  ServedInv'
<1>1. UniqueKeys(rows) /\ rows \subseteq Rows
  BY CommandIs DEF ServedInv
<1>2. ASSUME NEW r \in rows, r.path \in whole'
      PROVE  Served(r)'
  <2>1. CASE r = row
    BY <1>2, <2>1
  <2>2. CASE r # row
    <3>1. r.path # row.path
      BY <1>1, <2>2 DEF UniqueKeys
    <3>2. Served(r)
      BY <1>2, <3>1 DEF ServedInv, WholeServed
    <3> QED
      BY <2>2, <3>2 DEF Served, EnvServes
  <2> QED
    BY <2>1, <2>2
<1>3. WholeServed'
  BY <1>2 DEF WholeServed
<1>4. WsKnown'
  BY DEF ServedInv, WsKnown
<1>5. ASSUME NEW d \in Domains \ lost', HasFile(d)', ~\E r \in rows' : r.domain = d
      PROVE  \E e \in Commands : Stale(cmd[e])' /\ cmd'[e].old.domain = d
  <2>1. d # row.domain
    BY <1>5
  <2>2. HasFile(d)
    BY <1>5, <2>1
  <2>3. PICK e \in Commands : Stale(cmd[e]) /\ cmd[e].old.domain = d
    BY <1>5, <2>2 DEF ServedInv, NoStray
  <2>4. CASE e = c
    BY <1>5, <2>1, <2>3, <2>4
  <2>5. CASE e # c
    BY <2>3, <2>5 DEF Stale
  <2> QED
    BY <2>4, <2>5
<1>6. NoStray'
  BY <1>5 DEF NoStray
<1> QED
  BY <1>3, <1>4, <1>6, OneGoesOn

\* What a later line knows of the row it works for.
LEMMA LaterKnows ==
  ASSUME ServedInv, NEW c \in Commands, cmd[c].pc \in Later
  PROVE  /\ cmd[c].row \in Rows /\ ~At(c, "idle") /\ Progress(cmd[c]) /\ cmd[c].row.path \notin whole
         /\ \E r \in rows : Same(r, cmd[c].row)
         /\ \A r \in rows : Same(r, cmd[c].row) => \A s \in rows \ {r} : s.path # r.path /\ s.domain # r.domain
<1>1. Inv /\ Progress(cmd[c])
  BY DEF ServedInv
<1>2. Ready(cmd[c]) /\ UniqueKeys(rows)
  BY <1>1, CommandIs
<1> QED
  BY <1>1, <1>2 DEF Later, Ready, Progress, UniqueKeys, At

LEMMA GotoIs ==
  ASSUME Inv, NEW c \in Commands, NEW pc, Goto(c, pc)
  PROVE  /\ cmd'[c].pc = pc /\ cmd'[c].row = cmd[c].row /\ (pc = "removeStale" => cmd'[c].old = cmd[c].old)
         /\ cmd'[c].op = cmd[c].op
         /\ \A d \in Commands \ {c} : cmd'[d] = cmd[d]
<1> DEFINE old == IF pc = "removeStale" THEN cmd[c].old ELSE Absent
           me == [cmd[c] EXCEPT !.pc = pc, !.php = Absent, !.old = old]
<1>1. cmd' = [cmd EXCEPT ![c] = me]
  BY DEF Goto
<1>2. pc = "removeStale" => old = cmd[c].old
  OBVIOUS
<1> HIDE DEF old
<1>3. me.pc = pc /\ me.row = cmd[c].row /\ me.old = old /\ me.op = cmd[c].op
  BY CommandIs DEF CmdState
<1> HIDE DEF me
<1> QED
  BY <1>1, <1>2, <1>3, CommandIs

LEMMA WriteSiteServed ==
  ASSUME ServedInv, Inv', NEW c \in Commands, WriteSite(c)
  PROVE  ServedInv'
<1> DEFINE me == cmd[c]
           new == me.row
           site == [path |-> new.path, php |-> me.php]
<1>1. me.pc = "writeSite" /\ me.pc \in Later
  BY DEF WriteSite, At, Later
<1>2. /\ new \in Rows /\ ~At(c, "idle") /\ Progress(me) /\ new.path \notin whole /\ Inv
      /\ \A r \in rows : Same(r, new) => \A s \in rows \ {r} : s.path # r.path /\ s.domain # r.domain
  BY <1>1, LaterKnows DEF ServedInv
<1>3. PICK row \in rows : Same(row, new)
  BY <1>1, LaterKnows
<1>4. me.php = new.php /\ (me.op = "use" => me.old.domain = new.domain /\ (me.was => EnvServes(new)))
  BY <1>1, <1>2 DEF Progress
<1>5. /\ sites' = [sites EXCEPT ![new.domain] = site] /\ UNCHANGED <<rows, ws, env, lost>>
      /\ sites \in [Domains -> Sites \cup {Absent}] /\ new.domain \in Domains
  BY <1>2 DEF WriteSite, Inv, TypeOK, Rows
<1>6. sites'[new.domain] = site /\ \A d \in Domains \ {new.domain} : sites'[d] = sites[d]
  BY <1>5
<1> HIDE DEF site
<1>7. \A r \in rows \ {row} : /\ sites'[r.domain] = sites[r.domain] /\ ws'[r.domain] = ws[r.domain]
                              /\ env'[r.path] = env[r.path]
  <2>1. rows \subseteq Rows
    BY <1>2, CommandIs
  <2> QED
    BY <1>2, <1>3, <1>5, <1>6, <2>1 DEF Same, Rows
<1>8. \A d \in Domains \ {row.domain} : HasFile(d)' => HasFile(d)
  BY <1>3, <1>5, <1>6 DEF Same, HasFile
<1>9. CASE me.op = "use"
  <2>1. /\ cmd' = [cmd EXCEPT ![c] = Idle]
        /\ whole' = IF me.was THEN whole \cup {new.path} ELSE whole
    BY <1>9 DEF WriteSite, Finish
  <2>2. cmd'[c] = Idle /\ \A d \in Commands \ {c} : cmd'[d] = cmd[d]
    BY <1>2, <2>1, CommandIs
  <2>3. Progress(cmd[c])'
    BY <2>2, IdleProgress
  <2>4. ~Stale(me)
    BY <1>4, <1>9 DEF Stale
  <2>5. whole' = whole \/ (whole' = whole \cup {row.path} /\ Served(row)')
    <3>1. CASE ~me.was
      BY <2>1, <3>1
    <3>2. CASE me.was
      <4>1. EnvServes(row) /\ EnvServes(row)'
        BY <1>3, <1>4, <1>5, <1>9, <3>2 DEF EnvServes, Same
      <4>2. sites'[row.domain] = [path |-> row.path, php |-> row.php]
        BY <1>3, <1>4, <1>6 DEF Same, site
      <4>3. Served(row)'
        BY <1>5, <4>1, <4>2 DEF Served
      <4> QED
        BY <1>3, <2>1, <3>2, <4>3 DEF Same
    <3> QED
      BY <3>1, <3>2
  <2> QED
    BY <1>2, <1>3, <1>5, <1>7, <1>8, <2>2, <2>3, <2>4, <2>5, FileWritten DEF Same
<1>10. CASE me.op # "use"
  <2> DEFINE pc == IF me.old # Absent /\ me.old.domain # new.domain THEN "removeStale" ELSE "applyEnv"
  <2>1. Goto(c, pc) /\ UNCHANGED whole
    BY <1>10 DEF WriteSite
  <2>2. /\ (pc = "removeStale" /\ Stale(me)) \/ (pc = "applyEnv" /\ ~Stale(me))
        /\ pc # "idle"
    <3>1. CASE me.old # Absent /\ me.old.domain # new.domain
      <4>1. pc = "removeStale" /\ Stale(me)
        BY <1>1, <3>1 DEF Stale
      <4> QED
        BY <4>1
    <3>2. CASE ~(me.old # Absent /\ me.old.domain # new.domain)
      <4>1. pc = "applyEnv" /\ ~Stale(me)
        BY <3>2 DEF Stale
      <4> QED
        BY <4>1
    <3> QED
      BY <3>1, <3>2
  <2> HIDE DEF pc
  <2>3. /\ cmd'[c].pc = pc /\ cmd'[c].row = new /\ (pc = "removeStale" => cmd'[c].old = me.old)
        /\ cmd'[c].op = me.op
        /\ \A d \in Commands \ {c} : cmd'[d] = cmd[d]
    BY <1>2, <2>1, GotoIs
  <2>4. Stale(cmd[c])' = Stale(me) /\ (Stale(me) => cmd'[c].old = me.old)
    BY <2>2, <2>3 DEF Stale
  <2>5. sites'[new.domain] = [path |-> new.path, php |-> new.php]
    BY <1>4, <1>6 DEF site
  <2>6. Progress(cmd[c])'
    BY <1>2, <1>3, <1>5, <2>1, <2>2, <2>3, <2>4, <2>5 DEF Progress, Later
  <2>7. \A d \in Domains \ {row.domain} : HasFile(d)' =>
          HasFile(d) /\ (Stale(cmd[c]) /\ cmd[c].old.domain = d => Stale(cmd[c])' /\ cmd'[c].old = cmd[c].old)
    BY <1>8, <2>4
  <2>8. row.path \notin whole /\ (ws'[row.domain] # Absent => row.ws \/ ws'[row.domain] = ws[row.domain])
    BY <1>2, <1>3, <1>5 DEF Same
  <2> QED
    BY <1>2, <1>3, <1>5, <1>7, <2>1, <2>3, <2>6, <2>7, <2>8, FileWritten
<1> QED
  BY <1>9, <1>10

LEMMA RemoveStaleServed ==
  ASSUME ServedInv, Inv', NEW c \in Commands, RemoveStale(c)
  PROVE  ServedInv'
<1> DEFINE me == cmd[c]
           gone == me.old.domain
<1>1. me.pc = "removeStale" /\ me.pc \in Later
  BY DEF RemoveStale, At, Later
<1>2. /\ me.row \in Rows /\ ~At(c, "idle") /\ Progress(me) /\ me.row.path \notin whole /\ Inv
  BY <1>1, LaterKnows DEF ServedInv
<1>3. PICK row \in rows : Same(row, me.row)
  BY <1>1, LaterKnows
<1>4. gone # row.domain /\ \A r \in rows : r.domain # gone
  BY <1>1, <1>2 DEF Progress
<1>5. /\ sites' = [sites EXCEPT ![gone] = Absent] /\ ws' = [ws EXCEPT ![gone] = Absent]
      /\ UNCHANGED <<rows, env, lost, whole>> /\ Goto(c, "applyEnv")
      /\ sites \in [Domains -> Sites \cup {Absent}] /\ ws \in [Domains -> WsPorts \cup {DefaultPort, Absent}]
      /\ rows \subseteq Rows
  BY <1>2, CommandIs DEF RemoveStale, Inv, TypeOK
<1>6. \A d \in Domains : IF d = gone THEN ~HasFile(d)' ELSE sites'[d] = sites[d] /\ ws'[d] = ws[d]
  BY <1>5 DEF HasFile
<1>7. \A r \in rows : sites'[r.domain] = sites[r.domain] /\ ws'[r.domain] = ws[r.domain]
  BY <1>4, <1>5, <1>6 DEF Rows
<1>8. cmd'[c].pc = "applyEnv" /\ cmd'[c].row = me.row /\ \A d \in Commands \ {c} : cmd'[d] = cmd[d]
  BY <1>2, <1>5, GotoIs
<1>9. \A d \in Domains \ {row.domain} : HasFile(d)' =>
        HasFile(d) /\ (Stale(cmd[c]) /\ cmd[c].old.domain = d => Stale(cmd[c])' /\ cmd'[c].old = cmd[c].old)
  BY <1>6 DEF HasFile
<1>10. sites'[me.row.domain] = [path |-> me.row.path, php |-> me.row.php]
  BY <1>1, <1>2, <1>3, <1>7 DEF Progress, Later, Same
<1>11. Progress(cmd[c])'
  BY <1>2, <1>3, <1>5, <1>8, <1>10 DEF Progress, Later, Stale
<1> HIDE DEF gone
<1> QED
  BY <1>2, <1>3, <1>5, <1>7, <1>8, <1>9, <1>11, FileWritten DEF Same

LEMMA EnvStepServed ==
  ASSUME ServedInv, Inv', NEW c \in Commands, ApplyEnv(c) \/ WriteWs(c) \/ ApplyWs(c)
  PROVE  ServedInv'
<1> DEFINE me == cmd[c]
           path == me.row.path
           domain == me.row.domain
<1>1. me.pc \in {"applyEnv", "writeWs", "applyWs"} /\ me.pc \in Later
  BY DEF ApplyEnv, WriteWs, ApplyWs, At, Later
<1>2. /\ me.row \in Rows /\ ~At(c, "idle") /\ Progress(me) /\ path \notin whole /\ Inv /\ ~Stale(me)
      /\ \A r \in rows : Same(r, me.row) => \A s \in rows \ {r} : s.path # r.path /\ s.domain # r.domain
  BY <1>1, LaterKnows DEF ServedInv, Stale
<1>3. PICK row \in rows : Same(row, me.row)
  BY <1>1, LaterKnows
<1>4. /\ sites[domain] = [path |-> path, php |-> me.row.php]
      /\ me.pc \in {"writeWs", "applyWs"} => me.row.ws /\ env[path].app = domain
      /\ me.pc = "applyWs" => ws[domain] # Absent
  BY <1>1, <1>2 DEF Progress, Later
<1>5. /\ rows \subseteq Rows /\ UNCHANGED <<rows, sites, lost>> /\ path \in Paths /\ domain \in Domains
      /\ env \in [Paths -> EnvState] /\ ws \in [Domains -> WsPorts \cup {DefaultPort, Absent}]
      /\ row.path = path /\ row.domain = domain /\ row.ws = me.row.ws /\ row.php = me.row.php
  BY <1>2, <1>3, CommandIs DEF ApplyEnv, WriteWs, ApplyWs, Inv, TypeOK, Rows, Same
<1>6. CASE ApplyEnv(c)
  <2>1. env' = [env EXCEPT ![path] = [@ EXCEPT !.app = domain]] /\ UNCHANGED ws
    BY <1>6 DEF ApplyEnv
  <2>2. env'[path].app = domain /\ \A p \in Paths \ {path} : env'[p] = env[p]
    <3>1. [env[path] EXCEPT !.app = domain].app = domain
      BY <1>5 DEF EnvState
    <3> QED
      BY <1>5, <2>1, <3>1
  <2>3. \A r \in rows \ {row} : /\ sites'[r.domain] = sites[r.domain] /\ ws'[r.domain] = ws[r.domain]
                                /\ env'[r.path] = env[r.path]
    BY <1>2, <1>3, <1>5, <2>1, <2>2 DEF Rows
  <2>4. \A d \in Domains \ {row.domain} : HasFile(d)' => HasFile(d)
    BY <1>5, <2>1 DEF HasFile
  <2>5. CASE me.row.ws
    <3>1. Goto(c, "writeWs") /\ UNCHANGED whole
      BY <1>6, <2>5 DEF ApplyEnv
    <3>2. cmd'[c].pc = "writeWs" /\ cmd'[c].row = me.row /\ \A d \in Commands \ {c} : cmd'[d] = cmd[d]
      BY <1>2, <3>1, GotoIs
    <3>3. Progress(cmd[c])'
      BY <1>2, <1>3, <1>4, <1>5, <2>2, <2>5, <3>1, <3>2 DEF Progress, Later, Stale
    <3> QED
      BY <1>2, <1>5, <2>1, <2>3, <2>4, <3>1, <3>2, <3>3, FileWritten
  <2>6. CASE ~me.row.ws
    <3>1. cmd' = [cmd EXCEPT ![c] = Idle] /\ whole' = whole \cup {path}
      BY <1>6, <2>6 DEF ApplyEnv, Finish
    <3>2. cmd'[c] = Idle /\ \A d \in Commands \ {c} : cmd'[d] = cmd[d]
      BY <1>2, <3>1, CommandIs
    <3>3. Served(row)'
      BY <1>4, <1>5, <2>2, <2>6 DEF Served, EnvServes
    <3>4. Progress(cmd[c])'
      BY <3>2, IdleProgress
    <3> QED
      BY <1>2, <1>5, <2>1, <2>3, <2>4, <3>1, <3>2, <3>3, <3>4, FileWritten
  <2> QED
    BY <2>5, <2>6
<1>7. CASE WriteWs(c)
  <2>1. ws' = [ws EXCEPT ![domain] = me.row.port] /\ UNCHANGED <<env, whole>> /\ Goto(c, "applyWs")
    BY <1>7 DEF WriteWs
  <2>2. ws'[domain] = me.row.port /\ \A d \in Domains \ {domain} : ws'[d] = ws[d]
    BY <1>5, <2>1
  <2>3. me.row.port # Absent
    <3>1. me.row.port \in WsPorts \cup {DefaultPort}
      BY <1>2 DEF Rows
    <3>2. WsPorts \cup {DefaultPort} \subseteq Nat
      BY LinkAssumption DEF DefaultPort
    <3> QED
      BY <3>1, <3>2, AbsentIsNot
  <2>4. \A r \in rows \ {row} : /\ sites'[r.domain] = sites[r.domain] /\ ws'[r.domain] = ws[r.domain]
                                /\ env'[r.path] = env[r.path]
    BY <1>2, <1>3, <1>5, <2>1, <2>2 DEF Rows
  <2>5. \A d \in Domains \ {row.domain} : HasFile(d)' => HasFile(d)
    BY <1>5, <2>2 DEF HasFile
  <2>6. cmd'[c].pc = "applyWs" /\ cmd'[c].row = me.row /\ \A d \in Commands \ {c} : cmd'[d] = cmd[d]
    BY <1>2, <2>1, GotoIs
  <2>7. me.row.ws /\ env[path].app = domain
    BY <1>4, <1>7 DEF WriteWs, At
  <2>8. Progress(cmd[c])'
    BY <1>2, <1>3, <1>4, <1>5, <2>1, <2>2, <2>3, <2>6, <2>7 DEF Progress, Later, Stale
  <2> QED
    BY <1>2, <1>5, <2>1, <2>4, <2>5, <2>6, <2>7, <2>8, FileWritten
<1>8. CASE ApplyWs(c)
  <2>1. env' = [env EXCEPT ![path] = [@ EXCEPT !.ws = domain]] /\ UNCHANGED ws
        /\ cmd' = [cmd EXCEPT ![c] = Idle] /\ whole' = whole \cup {path}
    BY <1>8 DEF ApplyWs, Finish
  <2>2. env'[path].app = env[path].app /\ env'[path].ws = domain /\ \A p \in Paths \ {path} : env'[p] = env[p]
    <3>1. [env[path] EXCEPT !.ws = domain].ws = domain /\ [env[path] EXCEPT !.ws = domain].app = env[path].app
      BY <1>5 DEF EnvState
    <3> QED
      BY <1>5, <2>1, <3>1
  <2>3. \A r \in rows \ {row} : /\ sites'[r.domain] = sites[r.domain] /\ ws'[r.domain] = ws[r.domain]
                                /\ env'[r.path] = env[r.path]
    BY <1>2, <1>3, <1>5, <2>1, <2>2 DEF Rows
  <2>4. \A d \in Domains \ {row.domain} : HasFile(d)' => HasFile(d)
    BY <1>5, <2>1 DEF HasFile
  <2>5. cmd'[c] = Idle /\ \A d \in Commands \ {c} : cmd'[d] = cmd[d]
    BY <1>2, <2>1, CommandIs
  <2>6. env[path].app = domain /\ ws[domain] # Absent
    BY <1>4, <1>8 DEF ApplyWs, At
  <2>7. Served(row)'
    BY <1>4, <1>5, <2>1, <2>2, <2>6 DEF Served, EnvServes
  <2>8. Progress(cmd[c])'
    BY <2>5, IdleProgress
  <2> QED
    BY <1>2, <1>5, <2>1, <2>3, <2>4, <2>5, <2>7, <2>8, FileWritten
<1> QED
  BY <1>6, <1>7, <1>8

LEMMA FailServed ==
  ASSUME ServedInv, Inv', NEW c \in Commands, Fail(c)
  PROVE  ServedInv'
<1>1. ~At(c, "idle") /\ cmd' = [cmd EXCEPT ![c] = Idle] /\ UNCHANGED <<rows, files, whole>> /\ lost \subseteq lost'
  BY DEF Fail
<1>2. Stale(cmd[c]) => cmd[c].old.domain \in lost'
  BY DEF Fail, Stale
<1> QED
  BY <1>1, <1>2, EndServed

LEMMA ServedStep ==
  ASSUME "overlap" \notin Faults, ServedInv, [Next]_vars
  PROVE  ServedInv'
<1>1. Inv'
  BY InvStep DEF ServedInv
<1>2. CASE UNCHANGED vars
  BY <1>1, <1>2 DEF vars, files, ServedInv, Alone, At, Progress, Stale, ByPath, Same, EnvServes, Served,
                    WholeServed, WsKnown, NoStray, HasFile
<1>3. CASE Next
  <2>1. PICK c \in Commands : Step(c)
    BY <1>3 DEF Next
  <2> QED
    BY <1>1, <2>1, BeginServed, LookUpServed, ReadRowServed, UpdateServed, InsertServed, PinServed, ReadBackServed,
       WriteSiteServed, RemoveStaleServed, EnvStepServed, FailServed DEF Step
<1> QED
  BY <1>2, <1>3

(***************************************************************************)
(* For any directories, one inside the other or not, names, domains and    *)
(* versions, and wherever commands fail: as long as commands follow one    *)
(* another, nginx and the .env serve what the table says of every project  *)
(* whose last command went through.                                        *)
(***************************************************************************)
THEOREM LinkedStaysServed ==
  ASSUME "overlap" \notin Faults
  PROVE  Spec => []LinkedIsServed
<1>1. ServedInv => LinkedIsServed
  BY DEF ServedInv, WholeServed, Served, EnvServes, LinkedIsServed
<1> QED
  BY <1>1, InitServed, ServedStep, PTL DEF Spec

(***************************************************************************)
(* As long as commands follow one another, every file that nginx reads is  *)
(* one of a project, under its present domain, unless the command failed   *)
(* or the row was taken over.                                              *)
(***************************************************************************)
THEOREM NothingIsLeftOver ==
  ASSUME "overlap" \notin Faults
  PROVE  Spec => []NoLeftovers
<1>1. ASSUME ServedInv, AllIdle, NEW d \in Domains \ lost, HasFile(d)
      PROVE  \E r \in rows : r.domain = d /\ (r.path \in whole =>
               /\ sites[d] # Absent /\ r.path = sites[d].path
               /\ ws[d] # Absent => r.ws)
  <2>1. PICK r \in rows : r.domain = d
    <3>1. \A e \in Commands : ~Stale(cmd[e])
      BY <1>1 DEF AllIdle, Stale
    <3> QED
      BY <1>1, <3>1 DEF ServedInv, NoStray
  <2>2. r \in Rows
    BY <1>1, CommandIs, <2>1 DEF ServedInv, Inv, TypeOK
  <2>3. r.path \in whole => sites[d] # Absent /\ r.path = sites[d].path
    <3>1. [path |-> r.path, php |-> r.php] \in Sites
      BY <2>2 DEF Rows, Sites
    <3> QED
      BY <1>1, <2>1, <3>1, AbsentAssumption DEF ServedInv, WholeServed, Served
  <2>4. ws[d] # Absent => r.ws
    BY <1>1, <2>1 DEF ServedInv, WsKnown
  <2> QED
    BY <2>1, <2>3, <2>4
<1>2. ServedInv => NoLeftovers
  BY <1>1 DEF NoLeftovers, HasFile
<1> QED
  BY <1>2, InitServed, ServedStep, PTL DEF Spec

=============================================================================
