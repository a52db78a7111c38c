------------------------------ MODULE Hosting ------------------------------
(***************************************************************************)
(* `herdlite start`, `stop` and `restart` (services.HostingManager): the   *)
(* FPM master of every PHP version, nginx, PostgreSQL and the daemon.      *)
(*                                                                         *)
(* The manager learns of FPM and nginx through their pidfiles only and     *)
(* stops them with a signal it does not wait for, while pg_ctl and         *)
(* daemon.Manager wait.  The processes boot, quit and die on their own.    *)
(*                                                                         *)
(* Abstractions: a process of each kind at a time (a second one cannot     *)
(* bind and exits); the commands about the daemon and PostgreSQL are one   *)
(* step (DaemonLifecycle has the daemon's own); `herdlite link` is one     *)
(* step (ProjectLinks has its steps); site files are a version number.     *)
(***************************************************************************)
EXTENDS Naturals

CONSTANTS
  Commands,  \* processes that run start, stop or restart, over and over
  Versions,  \* installed PHP versions
  MaxLinks,  \* bound: changes of the site files
  Faults     \* subset of AllFaults: what may go wrong in this instance

\* "slowBoot": FPM takes more than 250 ms; "slowQuit": it or nginx still quits
\* when the next command, or the second half of restart, looks at it; "reboot":
\* of the host, after which the pid in a file may be another program's.
AllFaults == {"crash", "fail", "reboot", "slowBoot", "slowQuit", "overlap"}

ASSUME HostingAssumption ==
  /\ "nginx" \notin Versions
  /\ MaxLinks \in Nat
  /\ Faults \subseteq AllFaults

VARIABLES
  proc,    \* FPM masters and nginx
  pidfile, \* their pidfiles
  others,  \* which of PostgreSQL and the daemon run
  needed,  \* PHP versions of the linked projects
  conf,    \* version of the site files
  loaded,  \* the one nginx serves
  cmd      \* local state of every command

vars == <<proc, pidfile, others, needed, conf, loaded, cmd>>

Procs == Versions \cup {"nginx"}

Pcs == {"idle", "stopDaemon", "stopNginx", "stopFpm", "stopPostgres",
        "check", "postgres", "fpm", "fpmRemove", "fpmSpawn", "fpmWait",
        "nginx", "nginxRemove", "nginxSpawn", "reload", "daemon"}

CmdState == [op : {"none", "start", "stop", "restart"}, pc : Pcs,
             left : SUBSET Versions, cur : Versions \cup {"none"},
             outcome : {"none", "running", "stopped", "failed"},
             clean : BOOLEAN]  \* history: nothing has died since it began

Idle == [op |-> "none", pc |-> "idle", left |-> {}, cur |-> "none",
         outcome |-> "none", clean |-> TRUE]

TypeOK ==
  /\ proc \in [Procs -> {"down", "booting", "up", "quitting"}]
  /\ pidfile \in [Procs -> {"none", "live", "stale", "foreign"}]
  /\ others \subseteq {"postgres", "daemon"}
  /\ needed \subseteq Versions
  /\ conf \in 0..MaxLinks
  /\ loaded \in 0..MaxLinks
  /\ cmd \in [Commands -> CmdState]

Init ==
  /\ proc = [p \in Procs |-> "down"]
  /\ pidfile = [p \in Procs |-> "none"]
  /\ others = {}
  /\ needed = {}
  /\ conf = 0
  /\ loaded = 0
  /\ cmd = [c \in Commands |-> Idle]

AllIdle == \A c \in Commands : cmd[c].pc = "idle"

-----------------------------------------------------------------------------
(* The processes *)

\* kill(pid, 0) on the pid in the file: it fails for a process that is gone and
\* for one of another user, and both are a "stale" file.
PidAlive(p) == \/ pidfile[p] = "live" /\ proc[p] # "down"
               \/ pidfile[p] = "foreign"

\* Has p had its time to boot, or to quit?
Settled(p) ==
  /\ proc[p] = "booting" => "slowBoot" \in Faults
  /\ proc[p] = "quitting" => "slowQuit" \in Faults

Boot(p) ==
  /\ proc[p] = "booting"
  /\ proc' = [proc EXCEPT ![p] = "up"]
  /\ pidfile' = [pidfile EXCEPT ![p] = "live"]
  /\ UNCHANGED <<others, needed, conf, loaded, cmd>>

Quit(p) ==
  /\ proc[p] = "quitting"
  /\ proc' = [proc EXCEPT ![p] = "down"]
  /\ pidfile' = [pidfile EXCEPT ![p] = "none"]
  /\ UNCHANGED <<others, needed, conf, loaded, cmd>>

\* The pidfile of a process that dies is left behind.
Crash(p) ==
  /\ "crash" \in Faults
  /\ proc[p] # "down"
  /\ proc' = [proc EXCEPT ![p] = "down"]
  /\ pidfile' = [pidfile EXCEPT ![p] = IF @ = "live" THEN "stale" ELSE @]
  /\ cmd' = [c \in Commands |-> [cmd[c] EXCEPT !.clean = FALSE]]
  /\ UNCHANGED <<others, needed, conf, loaded>>

\* The pidfiles are on disk and the pids are given out anew.
Reboot ==
  /\ "reboot" \in Faults
  /\ proc' = [p \in Procs |-> "down"]
  /\ \E reused \in SUBSET {p \in Procs : pidfile[p] # "none"} :
       pidfile' = [p \in Procs |-> CASE p \in reused        -> "foreign"
                                     [] pidfile[p] = "none" -> "none"
                                     [] OTHER               -> "stale"]
  /\ others' = {}
  /\ cmd' = [c \in Commands |-> Idle]
  /\ UNCHANGED <<needed, conf, loaded>>

-----------------------------------------------------------------------------
(* The commands *)

At(c, pc) == cmd[c].pc = pc

Goto(c, pc) == cmd' = [cmd EXCEPT ![c].pc = pc]

Return(c, outcome) ==
  cmd' = [cmd EXCEPT ![c] = [Idle EXCEPT !.outcome = outcome, !.clean = cmd[c].clean]]

\* A new command also ends what the others' last reports say of the present.
Begin(c) ==
  /\ At(c, "idle")
  /\ "overlap" \in Faults \/ AllIdle
  /\ \E op \in {"start", "stop", "restart"} :
       cmd' = [d \in Commands |->
         IF d = c THEN [Idle EXCEPT !.op = op, !.pc = IF op = "start" THEN "check"
                                                      ELSE "stopDaemon"]
         ELSE [cmd[d] EXCEPT !.outcome = "none"]]
  /\ UNCHANGED <<proc, pidfile, others, needed, conf, loaded>>

\* herdlite link or php use, by a user who waits for other commands.
Link(v) ==
  /\ AllIdle
  /\ conf < MaxLinks
  /\ conf' = conf + 1
  /\ \E gone \in SUBSET needed : needed' = (needed \ gone) \cup {v}
  /\ cmd' = [c \in Commands |-> Idle]
  /\ UNCHANGED <<proc, pidfile, others, loaded>>

\* Any step of a command may end it with an error, stopFPM's too when the pid has
\* gone to another user's program, which it may not signal.
Fail(c) ==
  /\ "fail" \in Faults
  /\ ~At(c, "idle")
  /\ Return(c, "failed")
  /\ UNCHANGED <<proc, pidfile, others, needed, conf, loaded>>

\* Mutant: a project without a PHP version is not refused.
CheckProjectsUnresolved(c) ==
  /\ At(c, "check")
  /\ cmd' = [cmd EXCEPT ![c].left = IF needed = {} THEN {"none"} ELSE needed,
                        ![c].pc = "postgres"]
  /\ UNCHANGED <<proc, pidfile, others, needed, conf, loaded>>

\* Start: the linked projects and requiredPHPRuntimes.
CheckProjects(c) ==
  /\ At(c, "check")
  /\ IF needed = {} THEN Return(c, "failed")
     ELSE cmd' = [cmd EXCEPT ![c].left = needed, ![c].pc = "postgres"]
  /\ UNCHANGED <<proc, pidfile, others, needed, conf, loaded>>

StartPostgres(c) ==
  /\ At(c, "postgres")
  /\ others' = others \cup {"postgres"}
  /\ Goto(c, "fpm")
  /\ UNCHANGED <<proc, pidfile, needed, conf, loaded>>

\* startFPM, once for every runtime that is left.
CheckFpm(c) ==
  /\ At(c, "fpm")
  /\ \/ /\ cmd[c].left = {}
        /\ Goto(c, "nginx")
     \/ \E v \in cmd[c].left :
          /\ Settled(v)
          /\ IF PidAlive(v) THEN cmd' = [cmd EXCEPT ![c].left = @ \ {v}]
             ELSE cmd' = [cmd EXCEPT ![c].cur = v,
                    ![c].pc = IF pidfile[v] = "stale" THEN "fpmRemove" ELSE "fpmSpawn"]
  /\ UNCHANGED <<proc, pidfile, others, needed, conf, loaded>>

\* removeStalePID removes the file, whatever it says by now.
RemoveStale(c, p, pc, next) ==
  /\ At(c, pc)
  /\ pidfile' = [pidfile EXCEPT ![p] = "none"]
  /\ Goto(c, next)
  /\ UNCHANGED <<proc, others, needed, conf, loaded>>

SpawnFpm(c) ==
  LET v == cmd[c].cur
  IN /\ At(c, "fpmSpawn")
     /\ proc' = [proc EXCEPT ![v] = IF @ = "down" THEN "booting" ELSE @]
     /\ Goto(c, "fpmWait")
     /\ UNCHANGED <<pidfile, others, needed, conf, loaded>>

\* After 250 ms.
WaitFpm(c) ==
  LET v == cmd[c].cur
  IN /\ At(c, "fpmWait")
     /\ Settled(v)
     /\ IF PidAlive(v)
        THEN cmd' = [cmd EXCEPT ![c].left = @ \ {v}, ![c].cur = "none", ![c].pc = "fpm"]
        ELSE Return(c, "failed")
     /\ UNCHANGED <<proc, pidfile, others, needed, conf, loaded>>

\* startOrReloadNginx.
CheckNginx(c) ==
  /\ At(c, "nginx")
  /\ Settled("nginx")
  /\ Goto(c, CASE PidAlive("nginx")          -> "reload"
               [] pidfile["nginx"] = "stale" -> "nginxRemove"
               [] OTHER                      -> "nginxSpawn")
  /\ UNCHANGED <<proc, pidfile, others, needed, conf, loaded>>

\* Mutant: an nginx that runs is left as it is.
ReloadSkipped(c) ==
  /\ At(c, "reload")
  /\ IF PidAlive("nginx") THEN Goto(c, "daemon") ELSE Return(c, "failed")
  /\ UNCHANGED <<proc, pidfile, others, needed, conf, loaded>>

\* `nginx -s reload`; a master that is quitting ignores the signal.
Reload(c) ==
  /\ At(c, "reload")
  /\ IF PidAlive("nginx")
     THEN /\ loaded' = IF proc["nginx"] = "up" THEN conf ELSE loaded
          /\ Goto(c, "daemon")
     ELSE /\ Return(c, "failed")
          /\ UNCHANGED loaded
  /\ UNCHANGED <<proc, pidfile, others, needed, conf>>

\* `nginx` returns when it has bound its ports, which the nginx before it must
\* have given up.
SpawnNginx(c) ==
  /\ At(c, "nginxSpawn")
  /\ IF proc["nginx"] = "down"
     THEN /\ proc' = [proc EXCEPT !["nginx"] = "up"]
          /\ pidfile' = [pidfile EXCEPT !["nginx"] = "live"]
          /\ loaded' = conf
          /\ Goto(c, "daemon")
     ELSE /\ Return(c, "failed")
          /\ UNCHANGED <<proc, pidfile, loaded>>
  /\ UNCHANGED <<others, needed, conf>>

StartDaemon(c) ==
  /\ At(c, "daemon")
  /\ others' = others \cup {"daemon"}
  /\ Return(c, "running")
  /\ UNCHANGED <<proc, pidfile, needed, conf, loaded>>

StopDaemon(c) ==
  /\ At(c, "stopDaemon")
  /\ others' = others \ {"daemon"}
  /\ Goto(c, "stopNginx")
  /\ UNCHANGED <<proc, pidfile, needed, conf, loaded>>

\* SIGQUIT or SIGTERM to the pid in the file, whosever it is; a stale file is
\* removed.
Signal(p) ==
  /\ proc' = [proc EXCEPT ![p] = IF pidfile[p] = "live" /\ @ # "down" THEN "quitting" ELSE @]
  /\ \E left \in (IF pidfile[p] = "foreign" THEN {"foreign", "stale"}
                   ELSE IF PidAlive(p) THEN {"live"} ELSE {"none"}) :
       pidfile' = [pidfile EXCEPT ![p] = left]

\* Mutant: the FPM masters of the linked projects only.
StopNginxNeeded(c) ==
  /\ At(c, "stopNginx")
  /\ Settled("nginx")
  /\ Signal("nginx")
  /\ cmd' = [cmd EXCEPT ![c].left = needed, ![c].pc = "stopFpm"]
  /\ UNCHANGED <<others, needed, conf, loaded>>

\* stopNginx; then every installed runtime, whether a project needs it or not.
StopNginx(c) ==
  /\ At(c, "stopNginx")
  /\ Settled("nginx")
  /\ Signal("nginx")
  /\ cmd' = [cmd EXCEPT ![c].left = Versions, ![c].pc = "stopFpm"]
  /\ UNCHANGED <<others, needed, conf, loaded>>

\* Mutant: the pidfile goes with the signal.
StopFpmForgets(c) ==
  /\ At(c, "stopFpm")
  /\ \E v \in cmd[c].left :
       /\ proc' = [proc EXCEPT ![v] = IF @ # "down" /\ pidfile[v] = "live" THEN "quitting" ELSE @]
       /\ pidfile' = [pidfile EXCEPT ![v] = "none"]
       /\ cmd' = [cmd EXCEPT ![c].left = @ \ {v},
                             ![c].pc = IF cmd[c].left = {v} THEN "stopPostgres" ELSE @]
  /\ UNCHANGED <<others, needed, conf, loaded>>

\* stopFPM, in any order.
StopFpm(c) ==
  /\ At(c, "stopFpm")
  /\ \/ /\ cmd[c].left = {}
        /\ Goto(c, "stopPostgres")
        /\ UNCHANGED <<proc, pidfile>>
     \/ \E v \in cmd[c].left :
          /\ Settled(v)
          /\ Signal(v)
          /\ cmd' = [cmd EXCEPT ![c].left = @ \ {v}]
  /\ UNCHANGED <<others, needed, conf, loaded>>

\* runRestart goes on with Start at once.
StopPostgres(c) ==
  /\ At(c, "stopPostgres")
  /\ others' = others \ {"postgres"}
  /\ IF cmd[c].op = "restart" THEN Goto(c, "check") ELSE Return(c, "stopped")
  /\ UNCHANGED <<proc, pidfile, needed, conf, loaded>>

Step(c) ==
  \/ Begin(c) \/ Fail(c)
  \/ CheckProjects(c) \/ StartPostgres(c)
  \/ CheckFpm(c) \/ RemoveStale(c, cmd[c].cur, "fpmRemove", "fpmSpawn")
  \/ SpawnFpm(c) \/ WaitFpm(c)
  \/ CheckNginx(c) \/ RemoveStale(c, "nginx", "nginxRemove", "nginxSpawn")
  \/ Reload(c) \/ SpawnNginx(c) \/ StartDaemon(c)
  \/ StopDaemon(c) \/ StopNginx(c) \/ StopFpm(c) \/ StopPostgres(c)

Next ==
  \/ \E c \in Commands : Step(c)
  \/ \E p \in Procs : Boot(p) \/ Quit(p) \/ Crash(p)
  \/ Reboot
  \/ \E v \in Versions : Link(v)

Spec == Init /\ [][Next]_vars

-----------------------------------------------------------------------------
(* Properties *)

(***************************************************************************)
(* "Hosting services are running.", and ".. restarted.", is the truth: the *)
(* FPM masters of all projects run, and nginx runs with the site files as  *)
(* they are, unless something died since the command began, or a pidfile   *)
(* names another program since a reboot.                                   *)
(***************************************************************************)
RunningMeansServing ==
  \A c \in Commands :
    cmd[c].outcome = "running" /\ cmd[c].clean /\ (\A p \in Procs : pidfile[p] # "foreign") =>
      /\ \A v \in needed : proc[v] = "up"
      /\ proc["nginx"] = "up" /\ loaded = conf
      /\ others = {"postgres", "daemon"}

\* What runs is the process its pidfile names.
UpIsTracked ==
  \A p \in Procs : proc[p] \in {"up", "quitting"} => pidfile[p] = "live"

\* Nothing runs that has not been told to quit.
StoppedMeansDown ==
  \A c \in Commands : cmd[c].outcome = "stopped" =>
    /\ \A p \in Procs : proc[p] \in {"down", "quitting"}
    /\ others = {}

(***************************************************************************)
(* No process gets out of reach: whatever runs is the one its pidfile      *)
(* names, and "Hosting services are stopped." is the truth, wherever the   *)
(* starts before it failed, whatever crashed, and whichever projects have  *)
(* changed their version since.                                            *)
(***************************************************************************)
NothingEscapes == UpIsTracked /\ StoppedMeansDown
=============================================================================
