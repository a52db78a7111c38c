---------------------------- MODULE ProjectLinks ----------------------------
(***************************************************************************)
(* `herdlite link` and `herdlite php use`: what they write into the table  *)
(* of projects, the nginx site files and the .env file of a project.       *)
(*                                                                         *)
(* A command is a sequence of steps over three stores that no transaction  *)
(* joins.  It reads the project's row up to three times, writes the row,   *)
(* and then writes and removes files by the domain of what it has read.    *)
(* Commands may overlap, and each may end after any step, with an error or *)
(* a Ctrl-C.                                                               *)
(*                                                                         *)
(* Abstractions: the default domain "<name>.test" is the name itself, and  *)
(* the subdomain "ws.<domain>" the domain; a site file is the project and  *)
(* the PHP version it serves; .env is the values that link derives from    *)
(* the row.  Certificates and databases, which link only ever adds, are in *)
(* SystemIntegration and Postgres.                                         *)
(***************************************************************************)
EXTENDS Naturals, FiniteSets

CONSTANTS
  Commands,  \* processes that run link or php use, over and over
  Paths,     \* Laravel roots
  Around,    \* the roots that a path is nested in
  Names,     \* sanitized project names, and their default domains
  Custom,    \* domains that are the default of no name
  BaseName,  \* the name derived from the last part of a path
  Versions,  \* installed PHP versions
  Latest,    \* the newest of them
  WsPorts,   \* ports for --ws-port
  Options,   \* bound: the options of link that users give in this instance
  Absent,    \* an option that is not given, a row or file that is not there
  Faults     \* subset of AllFaults: what may go wrong in this instance

AllFaults  == {"overlap", "fail"}
AllOptions == {"name", "domain", "php", "ws", "value"}

DefaultPort == 8080

ASSUME LinkAssumption ==
  /\ Around \in [Paths -> SUBSET Paths]
  /\ BaseName \in [Paths -> Names]
  /\ Latest \in Versions
  /\ WsPorts \subseteq Nat \ {0}
  /\ Absent \notin Paths \cup Names \cup Custom \cup Versions \cup Nat
  /\ Faults \subseteq AllFaults
  /\ Options \subseteq AllOptions

VARIABLES
  rows,   \* the table projects
  sites,  \* nginx site file of every domain
  ws,     \* nginx websocket file of every domain: the port
  env,    \* what .env says, by path
  cmd,    \* local state of every command
  whole,  \* history: paths whose last command went through
  lost    \* history: domains of rows that another path took over, and those a
          \* command left that failed between the row and its files

vars == <<rows, sites, ws, env, cmd, whole, lost>>

files == <<sites, ws, env>>

Domains == Names \cup Custom

Rows == [path : Paths, name : Names, domain : Domains, php : Versions,
         ws : BOOLEAN, port : WsPorts \cup {DefaultPort}]

Opt(option, values) == (IF option \in Options THEN values ELSE {}) \cup {Absent}

\* The options of link.
LinkOptions ==
  {q \in [name : Opt("name", Names), domain : Opt("domain", Domains), php : Opt("php", Versions),
          ws : {FALSE, "ws" \in Options}, port : Opt("ws", WsPorts)] : q.port # Absent => q.ws}

Pins == [php : Versions]

Pcs == {"idle", "lookUp", "readRow", "writeRow", "pin", "readBack", "writeSite",
        "removeStale", "applyEnv", "writeWs", "applyWs"}

CmdState == [pc : Pcs, op : {"link", "use", Absent}, opts : LinkOptions \cup Pins \cup {Absent},
             path : Paths \cup {Absent}, value : Domains \cup {Absent},
             old : Rows \cup {Absent}, row : Rows \cup {Absent},
             php : Versions \cup {Absent}, was : BOOLEAN]

Idle == [pc |-> "idle", op |-> Absent, opts |-> Absent, path |-> Absent, value |-> Absent,
         old |-> Absent, row |-> Absent, php |-> Absent, was |-> FALSE]

Sites == [path : Paths, php : Versions]

ASSUME AbsentAssumption == Absent \notin Rows /\ Absent \notin Sites

EnvState == [app : Domains \cup {Absent}, ws : Domains \cup {Absent}]

TypeOK ==
  /\ rows \subseteq Rows
  /\ \A r, s \in rows : r.path = s.path \/ r.name = s.name \/ r.domain = s.domain => r = s
  /\ sites \in [Domains -> Sites \cup {Absent}]
  /\ ws \in [Domains -> WsPorts \cup {DefaultPort, Absent}]
  /\ env \in [Paths -> EnvState]
  /\ cmd \in [Commands -> CmdState]
  /\ whole \subseteq Paths
  /\ lost \subseteq Domains

Init ==
  /\ rows = {}
  /\ sites = [d \in Domains |-> Absent]
  /\ ws = [d \in Domains |-> Absent]
  /\ env = [p \in Paths |-> [app |-> Absent, ws |-> Absent]]
  /\ cmd = [c \in Commands |-> Idle]
  /\ whole = {}
  /\ lost = {}

AllIdle == \A c \in Commands : cmd[c].pc = "idle"

-----------------------------------------------------------------------------
(* The store *)

\* Store.ProjectByPath; paths are unique.
ByPath(p) ==
  IF \E r \in rows : r.path = p THEN CHOOSE r \in rows : r.path = p ELSE Absent

\* Store.ProjectForWorkingDirectory: the innermost project around a directory.
Nearest(p) ==
  LET around == {r \in rows : r.path \in Around[p] \cup {p}}
  IN {r \in around : \A s \in around \ {r} : s.path \in Around[r.path]}

\* Store.ProjectByNameOrDomain: "x.test" is the domain of one project and, cut
\* short, may be the name of another; the query takes either.
ByValue(v) == {r \in rows : r.name = v \/ r.domain = v}

Or(option, default) == IF option = Absent THEN default ELSE option

\* The row of a path that is linked already.  --n alone resets the domain.
Updated(row, q, php) ==
  [row EXCEPT !.name = Or(q.name, @),
              !.domain = Or(q.domain, Or(q.name, @)),
              !.php = php,
              !.ws = @ \/ q.ws,
              !.port = IF q.ws THEN Or(q.port, @) ELSE @]

\* AddProjectWithOptions sets the port before it compares it, so that the port
\* alone is no change.
Changed(row, new) == [row EXCEPT !.port = new.port] # new

Fresh(p, q, php) ==
  LET name == Or(q.name, BaseName[p])
  IN [path |-> p, name |-> name, domain |-> Or(q.domain, name), php |-> php,
      ws |-> q.ws, port |-> Or(q.port, DefaultPort)]

\* Does a row of another path have the name or the domain?
Clash(new, others) == \E r \in others : r.name = new.name \/ r.domain = new.domain

-----------------------------------------------------------------------------
(* The steps of a command *)

At(c, pc) == cmd[c].pc = pc

Goto(c, pc) ==
  cmd' = [cmd EXCEPT ![c].pc = pc, ![c].php = Absent,
                     ![c].old = IF pc = "removeStale" THEN @ ELSE Absent]

Begin(c) ==
  /\ At(c, "idle")
  /\ "overlap" \in Faults \/ AllIdle
  /\ \E op \in {"link", "use"}, opts \in LinkOptions \cup Pins,
        path \in Paths \cup {Absent}, value \in Opt("value", Domains) :
       /\ (path = Absent) # (value = Absent)
       /\ opts \in (IF op = "use" THEN Pins ELSE LinkOptions)
       /\ cmd' = [cmd EXCEPT ![c] = [Idle EXCEPT !.pc = "lookUp", !.op = op, !.opts = opts,
                                                 !.path = path, !.value = value]]
  /\ UNCHANGED <<rows, files, whole, lost>>

\* resolveLinkPath and ProjectByPath, or resolveExistingProject: php use takes
\* the project around the directory, link the directory itself.
Found(me) ==
  IF me.path = Absent THEN ByValue(me.value)
  ELSE IF me.op = "use" THEN Nearest(me.path)
  ELSE {ByPath(me.path)}

\* The project, and the PHP version: the one asked for, the project's own, or
\* the latest.  resolveLinkPHPRuntime looks once more for a row that was not
\* found; the two reads are one here, as only another command could come between.
LookUp(c) ==
  LET me    == cmd[c]
      found == Found(me)
      must  == me.op = "use" \/ me.path = Absent
  IN /\ At(c, "lookUp")
     /\ IF found \subseteq {Absent} /\ must
        THEN cmd' = [cmd EXCEPT ![c] = Idle]
        ELSE \E old \in found :
               cmd' = [cmd EXCEPT ![c] = [me EXCEPT
                 !.old = old,
                 !.path = IF old = Absent THEN @ ELSE old.path,
                 !.value = Absent,
                 !.php = Or(me.opts.php, IF old = Absent THEN Latest ELSE old.php),
                 !.pc = IF me.op = "use" THEN "pin" ELSE "readRow"]]
     /\ UNCHANGED <<rows, files, whole, lost>>

\* AddProjectWithOptions reads the row once more.
ReadRow(c) ==
  /\ At(c, "readRow")
  /\ cmd' = [cmd EXCEPT ![c].row = ByPath(cmd[c].path), ![c].pc = "writeRow"]
  /\ UNCHANGED <<rows, files, whole, lost>>

\* The row is written; the rest of the command goes by what it has read.
Written(c, new) ==
  cmd' = [cmd EXCEPT ![c].row = new, ![c].opts = Absent, ![c].pc = "writeSite"]

\* Mutant: the table has no UNIQUE on name and domain.
UpdateRowUnchecked(c) ==
  LET me   == cmd[c]
      new  == Updated(me.row, me.opts, me.php)
      mine == {r \in rows : r.path = me.path}
  IN /\ At(c, "writeRow")
     /\ me.row # Absent
     /\ rows' = IF mine # {} THEN (rows \ mine) \cup {new} ELSE rows
     /\ whole' = whole \ {me.path}
     /\ Written(c, new)
     /\ UNCHANGED <<files, lost>>

\* Mutant: nothing to do when the row stays as it is.
UpdateRowShortcut(c) ==
  LET me   == cmd[c]
      new  == Updated(me.row, me.opts, me.php)
      mine == {r \in rows : r.path = me.path}
  IN /\ At(c, "writeRow")
     /\ me.row # Absent
     /\ IF Changed(me.row, new)
        THEN /\ mine # {} => ~Clash(new, rows \ mine)
             /\ rows' = IF mine # {} THEN (rows \ mine) \cup {new} ELSE rows
             /\ whole' = whole \ {me.path}
             /\ Written(c, new)
        ELSE /\ cmd' = [cmd EXCEPT ![c] = Idle]
             /\ whole' = whole \cup {me.path}
             /\ UNCHANGED rows
     /\ UNCHANGED <<files, lost>>

\* updateProjectByPath, when something has changed.  The row may be gone by
\* now; a clash with another row is an error.
UpdateRow(c) ==
  LET me   == cmd[c]
      new  == Updated(me.row, me.opts, me.php)
      mine == {r \in rows : r.path = me.path}
  IN /\ At(c, "writeRow")
     /\ me.row # Absent
     /\ IF Changed(me.row, new) /\ mine # {} /\ Clash(new, rows \ mine)
        THEN /\ cmd' = [cmd EXCEPT ![c] = Idle]
             /\ UNCHANGED <<rows, whole>>
        ELSE /\ rows' = IF Changed(me.row, new) /\ mine # {}
                        THEN (rows \ mine) \cup {new} ELSE rows
             /\ whole' = whole \ {me.path}
             /\ Written(c, new)
     /\ UNCHANGED <<files, lost>>

\* Mutant: INSERT OR REPLACE.
InsertReplaces(c) ==
  LET me    == cmd[c]
      new   == Fresh(me.path, me.opts, me.php)
      taken == {r \in rows : r.name = new.name \/ r.domain = new.domain \/ r.path = new.path}
  IN /\ At(c, "writeRow")
     /\ me.row = Absent
     /\ rows' = (rows \ taken) \cup {new}
     /\ whole' = whole \ {me.path}
     /\ Written(c, new)
     /\ UNCHANGED <<files, lost>>

\* upsertProject: a row of the same name is given to this path; any other
\* clash is an error.
InsertRow(c) ==
  LET me    == cmd[c]
      new   == Fresh(me.path, me.opts, me.php)
      taken == {r \in rows : r.name = new.name}
      rest  == rows \ taken
  IN /\ At(c, "writeRow")
     /\ me.row = Absent
     /\ IF \E r \in rest : r.domain = new.domain \/ r.path = new.path
        THEN /\ cmd' = [cmd EXCEPT ![c] = Idle]
             /\ UNCHANGED <<rows, whole, lost>>
        ELSE /\ rows' = rest \cup {new}
             /\ whole' = whole \ {me.path}
             /\ lost' = lost \cup {r.domain : r \in {t \in taken :
                                      t.domain # new.domain \/ (t.ws /\ ~new.ws)}}
             /\ Written(c, new)
     /\ UNCHANGED files

\* SetProjectPHPVersion: an UPDATE by name, and a SELECT by name after it.
Pin(c) ==
  LET named == {r \in rows : r.name = cmd[c].old.name}
  IN /\ At(c, "pin")
     /\ IF named = {}
        THEN /\ cmd' = [cmd EXCEPT ![c] = Idle]
             /\ UNCHANGED <<rows, whole>>
        ELSE /\ rows' = (rows \ named) \cup {[r EXCEPT !.php = cmd[c].php] : r \in named}
             /\ whole' = whole \ {r.path : r \in named}
             /\ cmd' = [cmd EXCEPT ![c].pc = "readBack",
                                   ![c].opts = Absent,
                                   ![c].was = \A r \in named : r.path \in whole]
     /\ UNCHANGED <<files, lost>>

ReadBack(c) ==
  LET named == {r \in rows : r.name = cmd[c].old.name}
  IN /\ At(c, "readBack")
     /\ cmd' = IF named = {} THEN [cmd EXCEPT ![c] = Idle]
               ELSE [cmd EXCEPT ![c].row = CHOOSE r \in named : TRUE, ![c].pc = "writeSite"]
     /\ UNCHANGED <<rows, files, whole, lost>>

\* The command has gone through; php use mends nothing but the PHP version.
Finish(c, path, mended) ==
  /\ cmd' = [cmd EXCEPT ![c] = Idle]
  /\ whole' = IF mended THEN whole \cup {path} ELSE whole

WriteSite(c) ==
  LET new == cmd[c].row
      old == cmd[c].old
  IN /\ At(c, "writeSite")
     /\ sites' = [sites EXCEPT ![new.domain] = [path |-> new.path, php |-> cmd[c].php]]
     /\ IF cmd[c].op = "use"
        THEN Finish(c, new.path, cmd[c].was)
        ELSE /\ Goto(c, IF old # Absent /\ old.domain # new.domain THEN "removeStale"
                        ELSE "applyEnv")
             /\ UNCHANGED whole
     /\ UNCHANGED <<rows, ws, env, lost>>

\* Mutant: the websocket file is forgotten.
RemoveStaleSiteOnly(c) ==
  /\ At(c, "removeStale")
  /\ sites' = [sites EXCEPT ![cmd[c].old.domain] = Absent]
  /\ Goto(c, "applyEnv")
  /\ UNCHANGED <<rows, ws, env, whole, lost>>

\* removeStaleSiteConfigs: by the domain the project had when it was looked up.
\* Neither os.Remove can end the command; a stop between the two leaves what one
\* before both of them leaves, less one file.
RemoveStale(c) ==
  /\ At(c, "removeStale")
  /\ sites' = [sites EXCEPT ![cmd[c].old.domain] = Absent]
  /\ ws' = [ws EXCEPT ![cmd[c].old.domain] = Absent]
  /\ Goto(c, "applyEnv")
  /\ UNCHANGED <<rows, env, whole, lost>>

ApplyEnv(c) ==
  LET row == cmd[c].row
  IN /\ At(c, "applyEnv")
     /\ env' = [env EXCEPT ![row.path].app = row.domain]
     /\ IF row.ws THEN Goto(c, "writeWs") /\ UNCHANGED whole
                  ELSE Finish(c, row.path, TRUE)
     /\ UNCHANGED <<rows, sites, ws, lost>>

WriteWs(c) ==
  /\ At(c, "writeWs")
  /\ ws' = [ws EXCEPT ![cmd[c].row.domain] = cmd[c].row.port]
  /\ Goto(c, "applyWs")
  /\ UNCHANGED <<rows, sites, env, whole, lost>>

ApplyWs(c) ==
  /\ At(c, "applyWs")
  /\ env' = [env EXCEPT ![cmd[c].row.path].ws = cmd[c].row.domain]
  /\ Finish(c, cmd[c].row.path, TRUE)
  /\ UNCHANGED <<rows, sites, ws, lost>>

\* An error of any step (certificate, file, database), or Ctrl-C.
Fail(c) ==
  /\ "fail" \in Faults
  /\ ~At(c, "idle")
  /\ cmd' = [cmd EXCEPT ![c] = Idle]
  /\ lost' = lost \cup (IF cmd[c].pc \in {"writeSite", "removeStale"} /\ cmd[c].old # Absent
                       THEN {cmd[c].old.domain} \ {cmd[c].row.domain} ELSE {})
  /\ UNCHANGED <<rows, files, whole>>

Step(c) ==
  \/ Begin(c) \/ LookUp(c) \/ ReadRow(c) \/ UpdateRow(c) \/ InsertRow(c)
  \/ Pin(c) \/ ReadBack(c) \/ WriteSite(c) \/ RemoveStale(c)
  \/ ApplyEnv(c) \/ WriteWs(c) \/ ApplyWs(c) \/ Fail(c)

Next == \E c \in Commands : Step(c)

Spec == Init /\ [][Next]_vars

-----------------------------------------------------------------------------
(* Properties *)

(***************************************************************************)
(* Once the last command about a project has gone through, nginx and the   *)
(* project's .env serve what the table says, whatever commands failed      *)
(* before and wherever they stopped.                                       *)
(***************************************************************************)
LinkedIsServed ==
  AllIdle => \A r \in rows : r.path \in whole =>
    /\ sites[r.domain] = [path |-> r.path, php |-> r.php]
    /\ env[r.path].app = r.domain
    /\ r.ws => ws[r.domain] # Absent /\ env[r.path].ws = r.domain

(***************************************************************************)
(* Renaming and moving leave nothing behind: every site file belongs to a  *)
(* project under its present domain, except where another path took the    *)
(* row over or the command failed after it had changed the row.            *)
(***************************************************************************)
NoLeftovers ==
  AllIdle => \A d \in Domains \ lost : sites[d] # Absent \/ ws[d] # Absent =>
    \E r \in rows : r.domain = d /\ (r.path \in whole =>
      /\ sites[d] # Absent /\ r.path = sites[d].path
      /\ ws[d] # Absent => r.ws)

(***************************************************************************)
(* The port nginx forwards websockets to is the port the table keeps for   *)
(* the project.                                                            *)
(***************************************************************************)
PortIsKept ==
  AllIdle => \A r \in rows : r.path \in whole /\ r.ws => ws[r.domain] = r.port

(***************************************************************************)
(* A project only loses its row to one that is linked under its own name:  *)
(* no step moves or removes two rows, and a row keeps its path or its      *)
(* name.                                                                   *)
(***************************************************************************)
RowsStayPut ==
  [][/\ Cardinality(rows \ rows') <= 1 /\ Cardinality(rows' \ rows) <= 1
     /\ \A r \in rows \ rows' : \E s \in rows' : s.path = r.path \/ s.name = r.name]_vars
=============================================================================
