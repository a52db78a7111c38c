------------------------------ MODULE Postgres ------------------------------
(***************************************************************************)
(* postgres.Manager and those who call it: `herdlite postgres init`,       *)
(* `start` and `stop`, and `herdlite link`, which makes a database for the *)
(* project and names it in its .env; with `herdlite env apply`, which      *)
(* writes the .env alone.                                                  *)
(*                                                                         *)
(* Init and Start call each other, so a command holds the lines it has yet *)
(* to get to, innermost call first.  EnsureDatabase looks and then         *)
(* creates; ApplyEnv reads the file and then writes it, as a whole.        *)
(*                                                                         *)
(* Abstractions: a project's database has the name of the project          *)
(* (projectDatabaseName is one to one on sanitized names); the row of a    *)
(* link is one step with its lookups, and its other files are left out     *)
(* (ProjectLinks has them); initdb, pg_ctl, psql and createdb are modelled *)
(* by what the calls rely on.                                              *)
(***************************************************************************)
EXTENDS EnvFile

CONSTANTS
  Commands, \* processes that run a command, over and over
  Projects, \* directories
  Names,    \* names of projects, and of their databases
  BaseName, \* the name a directory gives a project
  Sockets,  \* projects whose user asks for a websocket
  EnvFiles, \* what a user may save as .env
  None,     \* no project, no name, no row
  MaxMishaps, \* bound: failures and crashes
  Faults    \* subset of AllFaults: what may go wrong in this instance

\* "fail": a command stops at any step; "crash": the server dies; "overlap":
\* commands run at a time; "edit": the user saves the .env while one runs;
\* "tear": a command dies while it writes the .env.
AllFaults == {"fail", "crash", "overlap", "edit", "tear"}

Rows == [name : Names, ws : BOOLEAN]

Lines == [key : Keys \cup {Own}, value : Names \cup {"old"}]

ASSUME PostgresAssumption ==
  /\ BaseName \in [Projects -> Names]
  /\ Sockets \subseteq Projects
  /\ EnvFiles \subseteq Seq(Lines)
  /\ None \notin Names /\ None \notin Rows
  /\ MaxMishaps \in Nat
  /\ Faults \subseteq AllFaults

VARIABLES
  cluster, \* the data directory
  server,  \* does postgres run?
  roles,   \* of "root" and "user", the one with the name of the OS user
  dbs,     \* databases of the cluster
  rows,    \* table projects: name and whether the websocket is enabled
  env,     \* the .env of every project
  cmd,     \* local state of every command
  linked,  \* history: projects whose last link went through, unedited since
  mishaps  \* how much has gone wrong so far

vars == <<cluster, server, roles, dbs, rows, env, cmd, linked, mishaps>>

Lineup == {"start", "init", "initdb", "version", "bootstrap", "status", "spawn",
           "role", "exists", "create", "stop", "halt", "read", "write", "writeWs"}

\* todo: what is left to do, the next step first; keys: what "write" writes;
\* lines: what "read" has read; clean (history): nothing has gone wrong since.
CmdState == [op : {"none", "init", "start", "stop", "link", "env"},
             project : Projects \cup {None}, name : Names \cup {None},
             todo : Seq(Lineup), keys : SUBSET Keys, lines : Seq(Lines),
             outcome : {"none", "ok", "failed"}, clean : BOOLEAN]

Idle == [op |-> "none", project |-> None, name |-> None, todo |-> <<>>, keys |-> {},
         lines |-> <<>>, outcome |-> "none", clean |-> TRUE]

\* "torn": initdb has begun; "marked": it has written PG_VERSION.
TypeOK ==
  /\ cluster \in {"none", "torn", "marked", "whole"}
  /\ server \in {"down", "up"}
  /\ roles \subseteq {"root", "user"}
  /\ dbs \subseteq Names
  /\ rows \in [Projects -> Rows \cup {None}]
  /\ \A p, q \in Projects : rows[p] # None /\ rows[q] # None /\ rows[p].name = rows[q].name => p = q
  /\ env \in [Projects -> Seq(Lines)]
  /\ cmd \in [Commands -> CmdState]
  /\ linked \subseteq Projects
  /\ mishaps \in 0..MaxMishaps
  /\ server = "up" => cluster = "whole"

\* Nothing yet, or a cluster that someone made without --username=root.
Init ==
  /\ \/ cluster = "none" /\ roles = {}
     \/ cluster = "whole" /\ roles = {"user"}
  /\ server = "down"
  /\ dbs = {}
  /\ rows = [p \in Projects |-> None]
  /\ env \in [Projects -> EnvFiles]
  /\ cmd = [c \in Commands |-> Idle]
  /\ linked = {}
  /\ mishaps = 0

-----------------------------------------------------------------------------
(* Commands *)

\* Something goes wrong.
Mishap == mishaps < MaxMishaps /\ mishaps' = mishaps + 1

Running(c) == cmd[c].todo # <<>>

AllIdle == \A c \in Commands : ~Running(c)

At(c, line) == Running(c) /\ Head(cmd[c].todo) = line

Writing(c) == At(c, "write") \/ At(c, "writeWs")

Return(c, outcome) ==
  cmd' = [cmd EXCEPT ![c] = [Idle EXCEPT !.op = cmd[c].op, !.outcome = outcome,
                                         !.clean = cmd[c].clean]]

\* The step is done; `calls` come before what else there is to do.
Call(c, calls) ==
  LET todo == calls \o Tail(cmd[c].todo)
  IN IF todo = <<>> THEN Return(c, "ok") ELSE cmd' = [cmd EXCEPT ![c].todo = todo]

\* A command begins; what the others have reported is of the past.
Launch(c, new) ==
  /\ ~Running(c)
  /\ "overlap" \in Faults \/ AllIdle
  /\ cmd' = [d \in Commands |-> IF d = c THEN new ELSE [cmd[d] EXCEPT !.outcome = "none"]]

Begin(c) ==
  /\ \E op \in {"init", "start", "stop"} :
       Launch(c, [Idle EXCEPT !.op = op, !.todo = <<op>>])
  /\ UNCHANGED <<cluster, server, roles, dbs, rows, env, linked, mishaps>>

\* Mutant: a project may take a name that another holds.
NamedAnyway(p, n, ws) ==
  rows' = [rows EXCEPT ![p] = [name |-> n, ws |-> ws \/ (rows[p] # None /\ rows[p].ws)]]

\* The project of p is called n from now on.  A row of its own keeps its path
\* and may not take a name; a new one replaces the row of that name.
Named(p, n, ws) ==
  LET holds(q) == rows[q] # None /\ rows[q].name = n
  IN IF rows[p] = None
     THEN rows' = [q \in Projects |-> IF q = p THEN [name |-> n, ws |-> ws]
                                      ELSE IF holds(q) THEN None ELSE rows[q]]
     ELSE /\ \A q \in Projects \ {p} : ~holds(q)
          /\ rows' = [rows EXCEPT ![p] = [name |-> n, ws |-> @.ws \/ ws]]

\* runLink up to the database.
BeginLink(c, p) ==
  /\ \E option \in Names \cup {None}, ws \in BOOLEAN :
       LET n == IF option # None THEN option
                ELSE IF rows[p] = None THEN BaseName[p] ELSE rows[p].name
       IN /\ ws => p \in Sockets
          /\ Named(p, n, ws)
          /\ Launch(c, [Idle EXCEPT !.op = "link", !.project = p, !.name = n,
               !.keys = {"APP", "DB"},
               !.todo = <<"start", "exists", "read", "write">>
                          \o (IF rows'[p].ws THEN <<"read", "writeWs">> ELSE <<>>)])
  /\ linked' = linked \ ({p} \cup {q \in Projects : rows'[q] = None})
  /\ UNCHANGED <<cluster, server, roles, dbs, env, mishaps>>

\* runEnvApply up to the file; --mail adds nothing to APP.
BeginEnv(c, p) ==
  /\ rows[p] # None
  /\ \E keys \in SUBSET {"DB", "WS"} :
       /\ "WS" \in keys => rows[p].ws
       /\ Launch(c, [Idle EXCEPT !.op = "env", !.project = p, !.name = rows[p].name,
                       !.todo = <<"read", "write">>, !.keys = keys \cup {"APP"}])
  /\ UNCHANGED <<cluster, server, roles, dbs, rows, env, linked, mishaps>>

\* An error or a signal.  An initdb that fails cleans up, one that is killed
\* does not.
Fail(c) ==
  /\ "fail" \in Faults
  /\ Running(c)
  /\ Mishap
  /\ cmd' = [cmd EXCEPT ![c] = [Idle EXCEPT !.op = cmd[c].op, !.outcome = "failed", !.clean = FALSE]]
  /\ cluster' \in {cluster} \cup (IF At(c, "version") \/ At(c, "bootstrap") THEN {"none"} ELSE {})
  /\ env' \in {env} \cup (IF Writing(c) /\ "tear" \in Faults
                          THEN {[env EXCEPT ![cmd[c].project] = <<>>]} ELSE {})
  /\ UNCHANGED <<server, roles, dbs, rows, linked>>

-----------------------------------------------------------------------------
(* The manager *)

\* PG_VERSION is there.
Initialized == cluster \in {"marked", "whole"}

\* Mutant: an initialized cluster is not started.
InitUnstarted(c) ==
  /\ At(c, "init")
  /\ Call(c, IF Initialized THEN <<"role">> ELSE <<"initdb">>)
  /\ UNCHANGED <<cluster, server, roles, dbs, rows, env, linked, mishaps>>

\* Manager.Init.
InitCluster(c) ==
  /\ At(c, "init")
  /\ Call(c, IF Initialized THEN <<"start", "role">> ELSE <<"initdb">>)
  /\ UNCHANGED <<cluster, server, roles, dbs, rows, env, linked, mishaps>>

\* initdb takes an empty directory ..
InitDb(c) ==
  /\ At(c, "initdb")
  /\ IF cluster = "none" THEN cluster' = "torn" /\ Call(c, <<"version">>)
     ELSE UNCHANGED cluster /\ Return(c, "failed")
  /\ UNCHANGED <<server, roles, dbs, rows, env, linked, mishaps>>

\* .. writes PG_VERSION ..
WriteVersion(c) ==
  /\ At(c, "version")
  /\ cluster' = "marked"
  /\ Call(c, <<"bootstrap">>)
  /\ UNCHANGED <<server, roles, dbs, rows, env, linked, mishaps>>

\* .. and then all the rest, with the one role it is told of.
Bootstrap(c) ==
  /\ At(c, "bootstrap")
  /\ cluster' = "whole"
  /\ roles' = {"root"}
  /\ Call(c, <<>>)
  /\ UNCHANGED <<server, dbs, rows, env, linked, mishaps>>

\* Manager.Start up to pg_ctl.
Start(c) ==
  /\ At(c, "start")
  /\ Call(c, IF Initialized THEN <<"status">> ELSE <<"init", "status">>)
  /\ UNCHANGED <<cluster, server, roles, dbs, rows, env, linked, mishaps>>

\* isRunning.
Status(c) ==
  /\ At(c, "status")
  /\ Call(c, IF server = "up" THEN <<>> ELSE <<"spawn">>)
  /\ UNCHANGED <<cluster, server, roles, dbs, rows, env, linked, mishaps>>

\* pg_ctl start, which waits for the server.
Spawn(c) ==
  /\ At(c, "spawn")
  /\ IF cluster = "whole" /\ server = "down" THEN server' = "up" /\ Call(c, <<>>)
     ELSE UNCHANGED server /\ Return(c, "failed")
  /\ UNCHANGED <<cluster, roles, dbs, rows, env, linked, mishaps>>

\* EnsureRootRole connects as the OS user.
EnsureRole(c) ==
  /\ At(c, "role")
  /\ IF server = "up" /\ "user" \in roles THEN roles' = roles \cup {"root"} /\ Call(c, <<>>)
     ELSE UNCHANGED roles /\ Return(c, "failed")
  /\ UNCHANGED <<cluster, server, dbs, rows, env, linked, mishaps>>

Answers == server = "up" /\ "root" \in roles

\* Mutant: a database that cannot be looked up is taken to exist.
ExistsUnlessToldNot(c) ==
  /\ At(c, "exists")
  /\ Call(c, IF Answers /\ cmd[c].name \notin dbs THEN <<"create">> ELSE <<>>)
  /\ UNCHANGED <<cluster, server, roles, dbs, rows, env, linked, mishaps>>

\* databaseExists; without an answer EnsureDatabase goes on to create it.
Exists(c) ==
  /\ At(c, "exists")
  /\ Call(c, IF Answers /\ cmd[c].name \in dbs THEN <<>> ELSE <<"create">>)
  /\ UNCHANGED <<cluster, server, roles, dbs, rows, env, linked, mishaps>>

\* It fails although the server would answer the next call: a warning only.
LookupFails(c) ==
  /\ "fail" \in Faults
  /\ At(c, "exists")
  /\ Mishap
  /\ cmd' = [cmd EXCEPT ![c].todo = <<"create">> \o Tail(@), ![c].clean = FALSE]
  /\ UNCHANGED <<cluster, server, roles, dbs, rows, env, linked>>

\* createdb.
Create(c) ==
  /\ At(c, "create")
  /\ IF Answers /\ cmd[c].name \notin dbs THEN dbs' = dbs \cup {cmd[c].name} /\ Call(c, <<>>)
     ELSE UNCHANGED dbs /\ Return(c, "failed")
  /\ UNCHANGED <<cluster, server, roles, rows, env, linked, mishaps>>

\* Manager.Stop up to pg_ctl.
Stop(c) ==
  /\ At(c, "stop")
  /\ Call(c, IF Initialized /\ server = "up" THEN <<"halt">> ELSE <<>>)
  /\ UNCHANGED <<cluster, server, roles, dbs, rows, env, linked, mishaps>>

\* pg_ctl stop.
Halt(c) ==
  /\ At(c, "halt")
  /\ IF server = "up" THEN server' = "down" /\ Call(c, <<>>)
     ELSE UNCHANGED server /\ Return(c, "failed")
  /\ UNCHANGED <<cluster, roles, dbs, rows, env, linked, mishaps>>

Crash ==
  /\ "crash" \in Faults
  /\ server = "up"
  /\ Mishap
  /\ server' = "down"
  /\ cmd' = [c \in Commands |-> [cmd[c] EXCEPT !.clean = FALSE]]
  /\ UNCHANGED <<cluster, roles, dbs, rows, env, linked>>

-----------------------------------------------------------------------------
(* The .env *)

ReadFile(c) ==
  /\ At(c, "read")
  /\ cmd' = [cmd EXCEPT ![c].lines = env[cmd[c].project], ![c].todo = Tail(@)]
  /\ UNCHANGED <<cluster, server, roles, dbs, rows, env, linked, mishaps>>

\* Mutant: the file is made anew.
WriteFileAnew(c) ==
  LET keys == IF At(c, "write") THEN cmd[c].keys ELSE {"WS"}
  IN /\ Writing(c)
     /\ env' = [env EXCEPT ![cmd[c].project] =
          ApplyEnv(<<>>, [k \in keys |-> cmd[c].name])]
     /\ Call(c, <<>>)
     /\ linked' = IF cmd[c].op = "link" /\ Len(cmd[c].todo) = 1
                  THEN linked \cup {cmd[c].project} ELSE linked
     /\ UNCHANGED <<cluster, server, roles, dbs, rows, mishaps>>

WriteFile(c) ==
  LET keys == IF At(c, "write") THEN cmd[c].keys ELSE {"WS"}
  IN /\ Writing(c)
     /\ env' = [env EXCEPT ![cmd[c].project] =
          ApplyEnv(cmd[c].lines, [k \in keys |-> cmd[c].name])]
     /\ Call(c, <<>>)
     /\ linked' = IF cmd[c].op = "link" /\ Len(cmd[c].todo) = 1
                  THEN linked \cup {cmd[c].project} ELSE linked
     /\ UNCHANGED <<cluster, server, roles, dbs, rows, mishaps>>

\* The user saves the file.
Edit(p) ==
  /\ "edit" \in Faults \/ AllIdle
  /\ \E file \in EnvFiles : env' = [env EXCEPT ![p] = file]
  /\ linked' = linked \ {p}
  /\ UNCHANGED <<cluster, server, roles, dbs, rows, cmd, mishaps>>

-----------------------------------------------------------------------------

Step(c) ==
  \/ Begin(c) \/ Fail(c)
  \/ \E p \in Projects : BeginLink(c, p) \/ BeginEnv(c, p)
  \/ InitCluster(c) \/ InitDb(c) \/ WriteVersion(c) \/ Bootstrap(c)
  \/ Start(c) \/ Status(c) \/ Spawn(c) \/ EnsureRole(c)
  \/ Exists(c) \/ LookupFails(c) \/ Create(c) \/ Stop(c) \/ Halt(c)
  \/ ReadFile(c) \/ WriteFile(c)

Next ==
  \/ \E c \in Commands : Step(c)
  \/ Crash
  \/ \E p \in Projects : Edit(p)

Spec == Init /\ [][Next]_vars

-----------------------------------------------------------------------------
(* Properties *)

(***************************************************************************)
(* A command that succeeds has done what it says, through every call that  *)
(* Init and Start make of each other, and one that fails has a cause: the  *)
(* server died, a step failed, an initdb was killed, or a role is missing, *)
(* "root" for a link and the OS user's for a second `postgres init`.       *)
(***************************************************************************)
ReportsAreTrue ==
  \A c \in Commands : cmd[c].clean =>
    /\ cmd[c].outcome = "ok" =>
         /\ cmd[c].op = "start" => server = "up"
         /\ cmd[c].op = "stop" => server = "down"
         /\ cmd[c].op = "init" => cluster = "whole" /\ "root" \in roles
         /\ cmd[c].op = "link" => server = "up"
    /\ cmd[c].outcome = "failed" =>
         \/ cluster \in {"torn", "marked"}
         \/ cmd[c].op = "init" /\ "user" \notin roles
         \/ cmd[c].op = "link" /\ "root" \notin roles

(***************************************************************************)
(* A project whose last link went through has a database of its own, and   *)
(* every DB_DATABASE of its .env names it, whatever other links, renames,  *)
(* failures and `env apply` have done since.                               *)
(***************************************************************************)
LinkedHasDatabase ==
  \A p \in linked :
    /\ rows[p].name \in dbs
    /\ \A k \in {"APP", "DB"} : ValuesOf(env[p], k) = {rows[p].name}
    /\ \A q \in linked \ {p} : ValuesOf(env[p], "DB") # ValuesOf(env[q], "DB")

(***************************************************************************)
(* No command removes, moves or changes a line that is the user's own, or  *)
(* removes a line at all.                                                  *)
(***************************************************************************)
UserLinesSurvive ==
  [][\A p \in Projects : Edit(p) \/ KeepsLines(env[p], env'[p])]_vars
=============================================================================
