# Herdlite in TLA+

TLA+ models of Herdlite (`src/`), a local host for Laravel projects: a command
line tool, a daemon with an SMTP catcher and a web UI, and the services it
drives (nginx, PHP-FPM, PostgreSQL).  TLC checks every model on small
instances; TLAPS proves the theorems listed below for every value of the
constants.  `PROJECT.json` maps every definition to the lines it stands for and
lists the runs, the mutants (bugs seeded into the model that each property must
catch), the hazards, the findings and the theorems.

    tlc -workers 2 -config MCLinks.cfg MCProjectLinks.tla     # one run
    tlapm ProjectLinksProofs.tla                              # one proof module

## 1. The system

Everything is one binary.  Commands are short-lived processes; the daemon is a
long-lived one.  They share `~/.local/share/herdlite/herdlite.db` (SQLite, opened
anew for every call, no lock or transaction beyond one call), pidfiles, and
configuration files that no one locks.

| Component | State it keeps | Operations | Talks to | Hard behaviour |
|---|---|---|---|---|
| Daemon lifecycle (`daemon/daemon.go`, `mail/service.go` Run, `cli/daemon.go`) | `herdlite.pid`, two TCP ports, signals, zombies | start, stop, status, run | kernel, `/health`, itself by recursion | commands race for the pidfile; the daemon removes it whatever it says; deadlines of 2 s (commands) and 3 s (shutdown) |
| Event stream (`daemon/events.go`) | map of buffered channels under a mutex | Subscribe, unsubscribe, Publish, one handler per websocket | browsers; every handler that publishes | full buffers, send on closed channels, browsers that stop reading or vanish |
| Captured dumps (`daemon/dumps.go`, `state.go`, `App.svelte`) | table `debug_dumps` with a cap, list and timer of every tab | POST, list, delete, clear before, auto clear | event stream, PHP scripts | lists are caches; a tab deletes on what it was told |
| Captured mail (`mail/`, `daemon/mail_api.go`, `cli/mail.go`, `App.svelte`) | `mail_messages`, `mail_attachments`, SMTP sessions, mail view of every tab | MAIL/RCPT/DATA/RSET, list, detail, delete, clear | event stream, table of projects | crash between store and answer; torn reads; stale filters; late answers |
| Projects and links (`state.go`, `cli/projects.go`, `cli/php.go`, `nginx/render.go`, `laravel/env.go`) | table `projects`, site files, `.env` | link, php use | nginx, certificates, PostgreSQL | three stores without a transaction; commands may overlap and stop anywhere |
| Hosting (`services/hosting.go`, `cli/runtime.go`) | pidfiles of nginx and every FPM master | start, stop, restart | nginx, FPM, pg_ctl, daemon | signals that nobody waits for; stale pidfiles; failures half way |
| System integration (`install/`, `certs/`, `cli/install.go`, `cli/maintenance.go`, `cli/cert.go`) | CA and site certificates, trust stores, capability and its record, NetworkManager files, zsh hook | install, repair, uninstall, purge, cert init/site/trust | sudo, trust, certutil, setcap, getcap | a command may stop between any two files |
| PHP runtimes (`phpmanager/`, `cli/php.go`, `cli/shim.go`, `state.go`) | prefixes, `php_runtimes`, global version, pins, EOL table | install, global, use, eol sync; the shim's choice | GitHub, php.net, make | installations cut short anywhere; the prefix alone says what is left to do; versions compared as text; a table emptied and refilled |
| PostgreSQL (`postgres/`, `cli/postgres.go`) | cluster directory, server, roles, databases | init, start, stop, ensure database | initdb, pg_ctl, psql, createdb | Init and Start call each other; PG_VERSION is there before the cluster is; look, then create |
| .env editing (`laravel/env.go`, `cli/env.go`) | lines of `.env` | ApplyEnv, by link and env apply | the user's editor | read, then rewrite as a whole |
| Shims' exec, doctor, UI assets | none of their own | exec, print | | none |
| Log viewer (`daemon/logs.go`, `cli/logs.go`, `App.svelte`) | selected log of a tab | list, raw, clear (truncate) | log files of the services | answers out of order in a tab |

What makes each of them correct: the pidfile names the daemon that serves, and
commands tell the truth (lifecycle); every browser gets an ordered subsequence
and blocks nobody (events); a tab at rest shows the table, and deletes what its
user meant (dumps, mail); nginx serves what the table says (links); "running"
and "stopped" are true (hosting); the CA stays of one piece and uninstall takes
everything back (system); what `php list` shows is complete, and every request
finds the version it means (PHP); a linked project has a database of its own that
its `.env` names, and the user's lines survive (PostgreSQL, `.env`).

## 2. Modules

| Module | Models | Composed with | Proofs |
|---|---|---|---|
| `DaemonLifecycle` | pidfile protocol between commands and daemons | `Hosting` and `MailCapture` take the daemon as one step | `DaemonLifecycleProofs` |
| `EventFeed` | what the event stream promises: a lossy, ordered, at-most-once feed | abstract specification | |
| `EventHub` | hub and handlers | implements `EventFeed` (`ImplementsFeed`) | `HubAndSystemProofs` |
| `DebugDumps` | dumps from the script to the tab | events arrive as the feed promises | `DebugDumpsProofs` |
| `ProjectLinks` | link and php use over row, files and `.env` | `Hosting` takes a link as one step | `ProjectLinksProofs` |
| `Hosting` | start, stop, restart over processes and pidfiles | | `HostingProofs` |
| `SystemIntegration` | install, repair, uninstall, certificates | | `HubAndSystemProofs` |
| `MailCapture` | SMTP session, mail store, API, mail view | events arrive as the feed promises | `MailCaptureProofs` |
| `PhpRuntimes` | installations, choices of a version, the EOL table | `ProjectLinks` takes installed versions as given | `PhpRuntimesProofs` |
| `EnvFile` | `ApplyEnv` as an operator on sequences of lines | used by `Postgres` | `PostgresProofs` |
| `Postgres` | init, start, stop, a link's database and `.env` | extends `EnvFile`; `Hosting` takes PostgreSQL as one step | `PostgresProofs` |

`MC*.tla` give TLC what a `.cfg` cannot write (symmetry sets, functions); every
instance is a `.cfg`.  The constant `Faults` of a module is the set of things
that may go wrong in an instance; naming a fault adds behaviour and never
removes any.

How state and actions correspond to the code:

* **DaemonLifecycle.** `pidfile`, `owner` (which process holds a port), `proc`
  (where a daemon is between fork and exit, zombie included), `term` (who has
  been signalled) and `cmd` (a program counter per command).  Every line of
  `Manager.Start`, `Stop`, `Status` and `removeStalePID` that reads or writes
  the file, asks the kernel or probes `/health` is one action (`StopRead`,
  `StaleExists`, `Poll`, ...); every step of `Service.Run` another (`WritePid`,
  `Bind`, `ShutdownSmtp`, `RemoveOwnPidfile`, ...).  Start's recursion is a jump.
  `Reboot` ends every process and leaves the file, whose pid may then be that of
  another program of the user (proc "foreign", which leaves when it likes) or of
  somebody else (proc "alien"): `kill` answers EPERM for it, which `pidExists`
  takes for no process, and which ends `stop` with an error (`KillFails`).
* **EventHub.** `clients`, `chan`, `closed` are the hub's map; `conn` and `frame`
  are the handler goroutine; `seen` is what the browser got.  A body under the
  mutex is one action.  Writing a frame is a step that may arrive, get lost or
  fail.
* **DebugDumps.** `table`, `lastId` (AUTOINCREMENT), `token`; `post` the handler
  of a POST (the INSERT with its cap is one statement, the publish a later step);
  with "busy" the database may refuse the INSERT, a list (`ListFails`) or a DELETE
  (`DeleteFails`), each of which is answered 500; `tab`, `calls`, `chan`, `asked`,
  `answers` the coroutines of a tab between their `await`s.
* **ProjectLinks.** `rows`, `sites`, `ws`, `env`, and `cmd` with the values a command
  has read.  One action per read and write of `runLink` and `runPHPUse`, each of
  which may be the last (`Fail`).  `Around` gives for every directory those around
  it, innermost first: `php use` takes the nearest linked one (`Nearest`).
* **Hosting.** `proc`, `pidfile`, `conf` and `loaded` (version of the site files on
  disk and in nginx), `needed`, `others`, and `cmd`.  Boot, quit and crash are
  steps of the processes; after a `Reboot` a pidfile is "stale" or "foreign".
* **SystemIntegration.** A command is the list of its remaining steps (`Program`),
  each of which writes one file or runs one tool.  Key pairs are generations.
  `ReadRecord` has the value of the record or, with "fail", none at all: uninstall
  drops the error of that read and takes the capability for a foreign one.
* **MailCapture.** `smtp` is the session object, and with it `got`, the recipients
  that the SMTP library has counted: a MAIL after a RCPT empties the session's
  list and not the library's, so DATA may come without recipients, and
  `ParseMessage` then takes those of the headers.  `box`, `rows`, `atts` are the two
  tables; `reqs` the requests of a tab in the order they were sent, each
  sent, half served or answered; `tab` the selection, the list, what is shown
  and the address bar.
* **PhpRuntimes.** A prefix is what `make install` and `RenderConfig` have left in it
  (binaries, the rest, php-fpm.conf); `rows`, `chosen`, `eol` are the tables and
  keys; `cmd` goes through `Installer.Install` line by line (`Look`, `Make`,
  `InstallBinaries`, ..., `Record`).  `Find` is both `PHPRuntimeForRequest` and
  `ResolveRelease`; versions are triples of numbers.
* **Postgres** and **EnvFile.** A command holds the list of the lines it has yet to
  get to, so that a call puts the callee's lines before its own: Init's call of
  Start and Start's of Init are `Call(c, ...)`.  `cluster` is how far initdb got;
  `LookupFails` is a `databaseExists` whose query fails though the server is up.
  `ReadFile` and `WriteFile` are the two halves of `ApplyEnv`, whose text work is
  `EnvFile!ApplyEnv`.

## 3. Runs

| Run | Instance | Question |
|---|---|---|
| `daemon_sequential` | one command at a time, 4 pids, crashes, reboots | Does the pidfile name the daemon that serves, and do start and stop tell the truth? |
| `daemon_liveness` | 2 pids; crashes, slow hosts, daemons run by hand, reboots | Do losers and signalled daemons exit, does every command return, is nobody signalled who cannot clean up? |
| `event_hub` | 2 connections (one stalls), 3 events, buffer 2 | Does the hub implement the feed, and does a stalled browser hold up nobody? |
| `dumps` | 2 dumps, cap 2, buffer 1, a tab that disconnects and returns, 1 load under way, 1 restart, a busy database that refuses POSTs, lists and deletions | Is a settled list the table, does auto clear spare what is new, do ids keep their meaning, is what was announced shown in the end? |
| `links` | 2 directories, one inside the other, 2 names, 2 PHP versions, failures anywhere | Is what is served what the table says; is anything left behind; does a project keep its row? |
| `links_ws_port` | no fault | **violated**: a changed `--ws-port` is not stored |
| `hosting_sequential` | 2 versions, 3 changes of the sites; crashes, failures, reboots | Are "running" and "stopped" true; can everything that runs be stopped? |
| `system` | 2 sites, 3 key pairs; failures anywhere, an unreadable record, upgrades of nginx | Is the CA of one piece and trusted; does uninstall take back everything it can know of? |
| `system_hook` | no fault | **violated**: after an uninstall no install or repair hooks zsh again |
| `mail` | 2 messages, 1 connection that may send MAIL after MAIL, 1 tab with 2 requests under way, 1 project; failing reads, crashes | Is what is accepted stored as sent, or for the recipients of its headers, does mail leave only on request, does a view at rest show the mailbox? |
| `php` | versions 8.9.1, 8.10.0 and 8.10.1, one command at a time, 2 mishaps (failures, bad builds, lost libraries) | Is what is listed complete, does every request find what it names, do choices hold, is end of life final? |
| `postgres` | 2 projects whose directories have one name, 2 names, a websocket, 2 mishaps (failures, crashes of the server) | Do init, start and stop tell the truth, has a linked project a database of its own, do the user's lines survive? |

**Bounds.**  A property of a pidfile, a channel, a row or a certificate is broken
by two or three actors; the bounds leave room for one more than the scenario
needs.  Four pids let one command's daemon crash, be replaced, lose its port and
be replaced again.  A buffer of two and three events overflow.  In `dumps` every
second event of a burst is lost (`Buffer = 1`) and `MaxRestarts = 1` makes an old
token; its two dumps never exceed the cap of two, but a POST that meets a full
table behaves like one that meets a busy database (nothing stored, nothing
announced), and that the cap is never exceeded is proved for every cap
(`CapIsHard`).  Two names and two paths make every collision of unique keys; a
third name adds no new one.  Three key pairs allow a CA to be replaced twice.
`MaxMishaps` counts failures, bad builds, lost libraries and crashes of a server:
two allow an installation or a link to fail, be repeated, and fail again, between
any successes.  The three versions of `php` are 8.9.1, 8.10.0 and 8.10.1: two
patches of one branch, and two branches that text and numbers order differently.
In `postgres` both directories have one last component, so that two links by
default want one name, and the `.env` names a database twice around a line of the
user's.  The run `mail` has one directory and one name (with two it does not end in five
minutes): it checks what `mail clear` removes by its options and its question;
that it leaves another project's mail alone, and the filters of several projects,
are covered by the proof of `MailGoesWhenAsked`, which is for any number of them.
One recipient suffices there because
the list of recipients is an ordered list, in which one carried over shows as a
duplicate; `MaxRcpt = 1` bounds what a client names, not what a faulty session
keeps; `Attached = {TRUE}` leaves out messages without attachments, for which
`DetailIsWholeOrGone` says nothing; one tab suffices because tabs meet only
through the store and the events, and the command line deletes behind its back
(the proofs are for any number of tabs).
`Buffer = 1` in `mail` makes every second event a dropped one.  Most runs have one
command: it runs over and over, and stands for all commands that do not overlap.
Symmetry (`PidSymmetry`, `VersionSymmetry`) is used in safety runs only, over sets
whose members the modules compare for equality only.

**Deadlock** is checked except in `event_hub`: there a behaviour ends when all
`MaxEvents` are published and all connections are over.

**Fairness.**  Only what the runtime schedules is fair; users, scripts, browsers
that stop reading, crashes and faults are not.
`DaemonLifecycle`: weak fairness of every daemon's and every command's steps
(goroutines and processes get the CPU); strong fairness of `PollTimeout`, because
the loop of Start compares a clock on every turn and cannot poll for ever.
`EventHub`: weak fairness of publishing and of each handler; strong fairness of
`WriteFails` to a browser that is gone, since the kernel resets such a connection
and the pings, every 30 s, keep writing to it; browsers outside `Stalled` read.
`DebugDumps`: weak fairness of the server's handlers and of the tab's requests,
strong fairness of the callbacks that compete for the single load under way
(an event loop runs each of them in the end).  Tabs disconnect when they like,
and scripts post finitely often; `AnnouncedIsShown` speaks of tabs that stay
connected with a token of this daemon.
The liveness of a daemon's exit rests on an assumption about its peers where the
code has no deadline: when a port cannot be bound, `Service.Run` shuts both servers
down with `context.Background()`, which waits for what is connected to the other
port.  An SMTP session ends when it has been silent for the read timeout of 10 s;
of browsers that came between the two binds it is assumed that they go.  After a
signal both shutdowns share a deadline of 3 s.

## 4. What the runs show

Beyond the properties that hold, TLC delimits them.  Each of these lies outside
the passing runs and is found as soon as the fault is named:

* Two overlapping commands can leave a daemon that serves without a pidfile
  (`removeStalePID` reads, asks and removes in three steps).
* On a slow host `stop` reports success while the daemon still shuts down
  (2 s against 3 s), and a `start` then takes the old daemon's `/health` for its
  child's.
* `QuietMeansFresh` fails with "reorder": two overlapping loads may answer in the
  reverse order and the older list stays.  A tab that reconnects loads nothing,
  and a page of an earlier daemon has a stale token; the property excuses both.
* The UI tries nothing twice.  When the database refuses a list, or the DELETE of
  "Auto clear" (the code then returns before the list is read), a connected tab
  that has lost no event shows an old list, under "Live", until the next event.
  `QuietMeansFresh` and `AnnouncedIsShown` excuse such a tab (`missed`); without
  the excuse TLC finds both violated in the run `dumps`.
* `uninstall` drops the error of reading the record of the capability: with an
  unreadable database it leaves Herdlite's capability in place, prints
  "Herdlite did not record ownership." though it did, and succeeds.
  `UninstalledLeavesNothing` excuses the capability after such a command
  (`blind`).  The record stays, unless it was a purge, so that a second uninstall
  takes the capability.
* `AutoClearSparesNews` fails with "parallel": two handlers may publish in the
  reverse order of their ids, and auto clear removes the dump still to come.
* A `link` that overlaps a `php use` leaves nginx with the version it looked up.
* With "slowQuit" a `restart` takes the dying nginx and FPM for running ones: it
  reports success and leaves nothing up.
* After a reboot a pidfile may name another program: `start` takes it for nginx,
  FPM or the daemon, and `stop` sends it a signal.  The properties excuse what the
  code cannot know, and claim the rest.  If the program is another user's, `stop`
  gives up with an error, and a `start` or `status` removes the pidfile as stale.
* An FPM master that boots slower than 250 ms outlives a `stop` ("slowBoot").
* With "overlap" two commands both create a CA; with "torn" a purge that is cut
  short keeps sites of a CA that is gone.
* In the mail view, "reorder" leaves a message shown other than the selected
  one; with "reuse" (a name linked to another directory while the question of
  `mail clear` is open, or mail is left under it) a clear takes another
  project's mail.
* In `PhpRuntimes`, "overlap" (two installations into one prefix) records a version
  that is not complete, and "redesign" (php.net drops the table) empties the list
  of retired branches: `ParseEOL` takes a page without the table for an empty
  list.  `EndOfLifeIsFinal` assumes that the page keeps its table.
* A rebuild (`--force`) that is cut short between the binaries and the rest leaves
  a version that stays listed, with the php-fpm.conf of the build before; a plain
  `php install` finds its binaries good, and takes it as it is
  (`installer.go:58-64`).  Only another rebuild mends it.  `RecordedIsWhole` speaks
  of installations cut short before a version was first complete, which are taken
  up again, and excuses those that were hurt later (`spoiled`).
* In `Postgres`, "overlap" lets a link fail because another has created the
  database it has just missed; "overlap", "edit" and "tear" lose lines of a `.env`.
  A `postgres init` of a cluster that Herdlite itself has made fails, since
  `EnsureRootRole` connects as the OS user, whom that cluster does not know.

Two disagreements with what the program itself says are runs of their own:
`links_ws_port` and `system_hook` (see `findings`).

## 5. Proofs

All proofs follow the same argument: a strengthening `Inv` of the property,
`Init => Inv`, one lemma per group of actions for `Inv /\ [Next]_vars => Inv'`, and
PTL.  The assumptions are those the modules state about their constants
(`DaemonAssumption`, `HubAssumption`, ...); neither the sets nor the bounds are
limited.

* `DaemonLifecycleProofs`: `TypeCorrect`, `ArmedBeforeSignalled`, `NoDeadListener`,
  `ServingStaysTracked`, `DaemonReportsAreTrue`.
  *SignalsOnlyArmedDaemons* is not inductive: it needs `ArmedInv`, that every
  place a pid can be read from (the file, a command's copy, the set of the
  signalled) names a process that has already written its pidfile, which
  happens after its signal context exists.  The last two assume one command at a
  time (`Sole`), no "slow" and no "foreground", each of which breaks them; crashes
  and reboots are in.  `OneDaemon` (one at most, with its ports and the file) holds
  only because a daemon boots nowhere but under a start that polls and shuts down
  nowhere but under a stop that waits (`Attends`), because `Knows` carries what a
  command has seen from line to line (no daemon lives when a start gets to its
  spawn or a stop past its wait), and because the child a start polls for is there,
  a zombie at least, so that its file is never taken for stale (`Expects`).
* `HubAndSystemProofs`, on the hub: `HubTypeCorrect`, `NeverSendsOnClosed`,
  `StreamsInOrder`, and the refinement `HubImplementsFeed`. `Registered` ties
  membership in the hub to the handler's position and `closed` to its end;
  `OrderedStream` says of seen, frame and channel together that they increase and
  stay below the next number. Every step maps to `Open`, `Publish`, `Deliver`,
  `Lose`, `End` of the feed or a stutter.
* `HubAndSystemProofs`, on `SystemIntegration` (the two share nothing but the
  file; the operators of the second carry its name, such as `SystemSpec`, so that
  both can be extended): `SystemTypeCorrect`, `SitesStayTrusted`,
  `RecordStaysRight`, `UninstallTakesAll`.  None of the last three is inductive:
  they speak of commands at rest, or of one that has gone through, and a command
  may stop anywhere.  What is left of a program determines what has been done
  (`Left`): lemmas on the seven programs say which step follows which and what is
  left after a skip, and `EveryStepCourses` that every action begins, goes on,
  skips or stops.  *UninstallTakesAll* excepts the capability that nothing records
  and the one whose record this uninstall could not read (`blind`),
  *RecordStaysRight* a purge that removes the record unread.  `CaCourse` says what
  a command relies on when it gets to a line (who is about to write the key sees a
  CA without one, who is about to write a site's has signed it with the present
  CA, who is past the anchor has set it); `CaWhole` what that makes true of the
  CA, that a certificate counts only with its key.  `RecordCourse` is the same for
  the capability between the check, setcap and the record; `GoneCourse` says that
  what a running uninstall has not yet taken back it still will, and needs
  `NoOrphan`: a hook without its file is not in force, or `DisableZsh`, which does
  nothing without the file, would leave the hook.  Assumed for the three: no
  "overlap"; for `SitesStayTrusted` also no "torn".  TLC finds both to break
  `SitesAreTrusted` (section 4).  `SystemTypeCorrect` assumes nothing.
* `DebugDumpsProofs`: `DumpsTypeCorrect`, `CapIsHard`, `IdsAreStable`,
  `AutoClearSparesTheNews`, `QuietTabsAreFresh`.  `StoreInv` extends the meaning of
  ids to the lists of all tabs and the answers on their way, and bounds them by the
  counter.  *AutoClearSparesNews* is about one step, but needs the way of every id:
  `NewsInv` says that ids reach a tab in their order (`Ordered`), and that the id
  held by the timer, then by its request, is the least of what the tab has heard
  of and will hear of (`Below`).  Assumed: no "parallel", with which two scripts'
  ids reach a tab in the wrong order.  *QuietMeansFresh* speaks of tabs at rest;
  `FreshInv` says of all others what will still bring them a read: their own
  requests, timer and events (`OwnDue`), or a change that nobody has announced
  yet (`Unannounced`).  A tab for which the database has failed a list or an auto
  clear, or that has lost an event, has `missed` something and is excepted until
  its next read.  Assumed: no "reorder".
* `ProjectLinksProofs`: `LinksTypeCorrect` (with the unique keys),
  `ProjectsKeepTheirRows`, `LinkedStaysServed`, `NothingIsLeftOver`.  `Ready` says
  what a command has read when it gets to a line.  *LinkedIsServed* and *NoLeftovers*
  speak of commands at rest; `ServedInv` says what holds while one runs: `Progress`,
  which of the row's files a command has already made true; `WholeServed`, that no
  other row is disturbed; `NoStray`, that a file without a row is the one the
  command is about to remove.  `FileWritten` is the one argument for all file
  writes.  Assumed for the last two: no "overlap", which breaks both.
* `HostingProofs`: `HostingTypeCorrect`, `NothingEscapesHere`, `RunningIsServing`.
  *NothingEscapes* is not inductive: `Tracked` adds that a pidfile says "live" for
  nothing but a master that has booted, and that one that boots has none; `Place`
  keeps what a command has seen until it acts on it (the file it removes is stale,
  the master it spawns is down, the masters it has signalled are still quitting);
  `OneCommand` and `Reported` say that nobody else acts meanwhile. Assumed:
  "overlap" and "slowBoot" are not in `Faults`; both are needed (section 4).
  *RunningMeansServing* needs, on top, `Achieved`: what a start has brought up
  when it gets to a line, unless something has died or a pidfile names another
  program; assumed there too: no "slowQuit", with which a dying nginx counts as
  up.
* `PhpRuntimesProofs`: `PhpTypeCorrect`, `RecordedStaysWhole`, `ResolutionStaysRight`,
  `ChoicesAreKept`, `EndOfLifeStaysFinal`.  *RecordedIsWhole* (the
  configuration of every listed version; completeness of those not hurt after
  they were first complete) rests on
  `ConfMeansWhole`: a prefix with a php-fpm.conf is complete, hurt, or being
  written to; `Progress` says what the writer has done so far and `Alone` that
  there is one.  *ResolutionIsRight* needs the newest of every set of rows, which
  `HasNewest` grows row by row.  Assumed: no "overlap" for the first, no "overlap" and
  no "redesign" for the last, nothing for the others.
* `PostgresProofs`: `ApplyEnvKeeps` (about `EnvFile` alone, for every file and values),
  `PostgresTypeCorrect`, `LinesOfTheUserSurvive`, `LinkedKeepsItsDatabase`,
  `PostgresReportsAreTrue`.  `Makers`
  says who makes a cluster and how far it is, so that no server runs on an
  unfinished one; `Shape` that a write comes right after its read in every list
  of steps; `Fresh` that who is about to write has the file as it is.
  *LinkedHasDatabase* needs `Underway`: a link that no longer waits for its
  database has it, one that no longer waits for its first write has its lines in
  the file (`ApplyEnvValues` says what a write leaves there, for every file).
  Assumed for these two: no "overlap", "edit" or "tear", each of which breaks
  them.  *ReportsAreTrue* needs `OnCourse`: where a command may be that nothing has
  gone wrong for, and what the lines before have done (a start under way, with
  what its caller does after it; an initdb to come that finds no PG_VERSION; a
  server that is up for all that follows).  Assumed: commands follow one another.
* `MailCaptureProofs`: `MailTypeCorrect`, `AcceptedIsStored`, `MailGoesWhenAsked`,
  `DetailStaysWhole`, `RestIsTheMailbox`. *AcceptedIsStoredAsSent* is about one
  step, but only `Named` (what a session holds past DATA is what its client named)
  and `Once` (no two sessions, and no two stored messages, are of one transaction)
  make it hold; the recipients stored are those of the session or, if it has none
  while the library has counted some, those of the headers. `OneOwner` says that
  whatever is held under a name, mail, a session or an open question, is of one
  directory, so that a clear takes its own mail; assumed: no "reuse", which breaks
  it. `ViewInv` extends *DetailIsWholeOrGone* to the answers on their way, and
  bounds the ids they name: a box holds no more than was sent (a pigeonhole
  argument over transactions, `BoxFits`). *RestShowsTheMailbox* speaks of views at
  rest; `RestInv` says of all others what is still to come: a list that was read,
  or a request or announcement that leads to one (`UpToDate`), and the detail of
  what is selected (`Settled`). It needs the order of the requests (`InOrder`) and
  `EmptyIsEmpty`: after the mailbox was read empty, nothing the tab has heard of
  before is in the store any more. Assumed: no "reorder". With two tabs the
  attempt failed at first: a reload dropped a handler that had deleted a message
  but not yet published. In the code the handler goes on without its page, so
  `Reload` now waits for it (`Deleting`).

Every safety property of the passing runs is stated by a theorem.  Only
model-checked: every liveness property (fairness and ENABLED are out of the
prover's reach), and that nothing deadlocks.

## 6. Plan

Written, in the order of importance: 1 `DaemonLifecycle`, 2 `EventHub` with
`EventFeed`, 3 `DebugDumps`, 4 `ProjectLinks`, 5 `Hosting`, 6 `SystemIntegration`,
7 `MailCapture`, 8 `PhpRuntimes`, 9 `Postgres`, 10 `EnvFile`.  What could come next:

11. An abstract specification of hosting (down, partly up, up) that `Hosting`
    implements, and of a mailbox that `MailCapture` implements.
12. The log viewer: a tab whose answers come out of order shows one log under the
    name of another, as in the mail view; two projects whose names differ only in
    punctuation share the id of their log.

## 7. Not modelled

MIME decoding and the text of headers (Go's library); frames of the websocket
protocol; templates of nginx and FPM; the log viewer (it reads and truncates
files, see 12); the exec of the shims, nvm, the download of composer.phar; doctor,
printing and paths (no state); pacman; the vendored UI components and the stub of
a PHP extension; the lines of `~/.zshrc` that are not Herdlite's; the contents of
databases.  `PROJECT.json` lists every component with its status.
