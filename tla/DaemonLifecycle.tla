-------------------------- MODULE DaemonLifecycle --------------------------
(***************************************************************************)
(* The pidfile protocol between the short-lived `herdlite daemon           *)
(* start|stop|status` commands (daemon.Manager) and the long-lived daemon  *)
(* processes they spawn (daemon.Service.Run around mail.Service.Run).      *)
(*                                                                         *)
(* The two sides share one file, runtime/herdlite.pid, which nobody locks, *)
(* and two TCP ports.  A command reads the file, asks the kernel whether   *)
(* the pid exists, asks whoever answers on the HTTP port whether it is     *)
(* healthy, and removes the file, each in a step of its own; a daemon      *)
(* overwrites the file when it boots and removes it when it exits,         *)
(* whatever the file then says.                                            *)
(*                                                                         *)
(* Abstractions: os.WriteFile on the pidfile is one step; a pid is handed  *)
(* to one daemon only, but may be another program's after a reboot; clocks *)
(* are replaced by the order of steps, and a deadline may pass early only  *)
(* when "slow" \in Faults.                                                 *)
(***************************************************************************)
EXTENDS Naturals, FiniteSets

CONSTANTS
  Commands,   \* CLI processes that run start, stop or status, over and over
  Pids,       \* the pids the kernel hands out to daemons, each of them once
  NoPid,      \* no pid: an absent pidfile, a free port
  NoCommand,  \* the parent of a daemon typed by hand (`herdlite daemon run`)
  Faults      \* subset of AllFaults: what may go wrong in this instance

AllFaults == {"slow", "crash", "reboot", "foreground"}

ASSUME DaemonAssumption ==
  /\ NoPid \notin Pids
  /\ NoCommand \notin Commands
  /\ Faults \subseteq AllFaults

VARIABLES
  pidfile,  \* content of runtime/herdlite.pid
  proc,     \* life of every daemon process
  parent,   \* the command that spawned it, which never waits for it
  term,     \* pids with a SIGTERM delivered
  tried,    \* ports on which the daemon's ListenAndServe has returned from bind
  owner,    \* the process listening on each port
  cmd       \* local state of every command

vars == <<pidfile, proc, parent, term, tried, owner, cmd>>

Ports == {"smtp", "http"}

ProcStates == {"unborn", "boot", "running", "closing", "smtpClosed",
               "httpClosed", "exiting", "zombie", "gone",
               \* gone, and its pid is given to another program: one of the
               \* user, or one that the user may not signal
               "foreign", "alien"}

\* The functions a command can be in, by the line it will execute next.
CmdPcs == {"idle", "stRead", "stExists", "stHealth",
           "rmRead", "rmExists", "rmRemove",
           "spawn", "poll",
           "stopRead", "stopKill", "stopWait", "stopRemove", "done"}

\* What called Status (status, start, poll) or removeStalePID (those three,
\* the line of Start before the spawn, or Stop).
Callers == {"none", "status", "start", "poll", "fresh", "stop"}

Outcomes == {"none", "healthy", "unhealthy", "stopped", "already", "started",
             "failed", "spawnError", "notRunning", "stopError"}

CmdState == [op: {"none", "start", "stop", "status"}, pc: CmdPcs,
             caller: Callers, seen: Pids \cup {NoPid}, outcome: Outcomes]

TypeOK ==
  /\ pidfile \in Pids \cup {NoPid}
  /\ proc \in [Pids -> ProcStates]
  /\ parent \in [Pids -> Commands \cup {NoCommand}]
  /\ term \subseteq Pids
  /\ tried \in [Pids -> SUBSET Ports]
  /\ owner \in [Ports -> Pids \cup {NoPid}]
  /\ cmd \in [Commands -> CmdState]

Idle == [op |-> "none", pc |-> "idle", caller |-> "none", seen |-> NoPid,
         outcome |-> "none"]

Init ==
  /\ pidfile = NoPid
  /\ proc = [p \in Pids |-> "unborn"]
  /\ parent = [p \in Pids |-> NoCommand]
  /\ term = {}
  /\ tried = [p \in Pids |-> {}]
  /\ owner = [t \in Ports |-> NoPid]
  /\ cmd = [c \in Commands |-> Idle]

daemonVars == <<proc, parent, term, tried, owner>>

-----------------------------------------------------------------------------
(* Helpers *)

\* kill(pid, 0) succeeds: a zombie still has its pid (the command released the
\* handle and never waits for the child), a program of another user counts as
\* none.
PidExists(p) == proc[p] \notin {"unborn", "gone", "alien"}

Alive(p) == proc[p] \notin {"unborn", "zombie", "gone", "foreign", "alien"}

\* GET /health is answered by whatever process listens on the HTTP port.
HTTPUp == owner["http"] # NoPid

BindFailed(p) == \E t \in tried[p] : owner[t] # p

Serving(p) == proc[p] = "running" /\ \A t \in Ports : owner[t] = p

\* Ports of p are released; the others are left alone.
Released(p, ports) == [t \in Ports |-> IF t \in ports /\ owner[t] = p
                                       THEN NoPid ELSE owner[t]]

\* A dead child stays a zombie while the command that spawned it still runs.
DeadState(p) ==
  IF parent[p] \in Commands THEN "zombie" ELSE "gone"

-----------------------------------------------------------------------------
(* The daemon process *)

\* Service.Run: the signal context exists already; the pid is written over
\* whatever the file held.
WritePid(p) ==
  /\ proc[p] = "boot"
  /\ pidfile' = p
  /\ proc' = [proc EXCEPT ![p] = "running"]
  /\ UNCHANGED <<parent, term, tried, owner, cmd>>

\* One of the two ListenAndServe goroutines gets, or fails to get, its port.
Bind(p, t) ==
  /\ proc[p] = "running"
  /\ t \notin tried[p]
  /\ tried' = [tried EXCEPT ![p] = @ \cup {t}]
  /\ owner' = [owner EXCEPT ![t] = IF @ = NoPid THEN p ELSE @]
  /\ UNCHANGED <<pidfile, proc, parent, term, cmd>>

\* Mutants: the bind error is not selected on; the signal is not.
LeaveSelectDeaf(p) ==
  /\ proc[p] = "running"
  /\ p \in term
  /\ proc' = [proc EXCEPT ![p] = "closing"]
  /\ UNCHANGED <<pidfile, parent, term, tried, owner, cmd>>

LeaveSelectUnsignalled(p) ==
  /\ proc[p] = "running"
  /\ BindFailed(p)
  /\ proc' = [proc EXCEPT ![p] = "closing"]
  /\ UNCHANGED <<pidfile, parent, term, tried, owner, cmd>>

\* The select of Run: the signal context is done, or a bind error arrives.
LeaveSelect(p) ==
  /\ proc[p] = "running"
  /\ p \in term \/ BindFailed(p)
  /\ proc' = [proc EXCEPT ![p] = "closing"]
  /\ UNCHANGED <<pidfile, parent, term, tried, owner, cmd>>

\* smtpServer.Shutdown: the listener closes at once, open sessions are waited for,
\* three seconds at most after a signal.  After a bind error neither shutdown has
\* a deadline: SMTP sessions time out after ten seconds, and of the browsers that
\* came between the two binds it is assumed that they go.
ShutdownSmtp(p) ==
  /\ proc[p] = "closing"
  /\ owner' = Released(p, {"smtp"})
  /\ proc' = [proc EXCEPT ![p] = "smtpClosed"]
  /\ UNCHANGED <<pidfile, parent, term, tried, cmd>>

\* httpServer.Shutdown, only after the SMTP shutdown has returned.
ShutdownHttp(p) ==
  /\ proc[p] = "smtpClosed"
  /\ owner' = Released(p, {"http"})
  /\ proc' = [proc EXCEPT ![p] = "httpClosed"]
  /\ UNCHANGED <<pidfile, parent, term, tried, cmd>>

\* The deferred os.Remove of Service.Run, whichever pid the file names.
RemoveOwnPidfile(p) ==
  /\ proc[p] = "httpClosed"
  /\ pidfile' = NoPid
  /\ proc' = [proc EXCEPT ![p] = "exiting"]
  /\ UNCHANGED <<parent, term, tried, owner, cmd>>

Exit(p) ==
  /\ proc[p] = "exiting"
  /\ proc' = [proc EXCEPT ![p] = DeadState(p)]
  /\ UNCHANGED <<pidfile, parent, term, tried, owner, cmd>>

\* SIGKILL, the OOM killer or a panic: no deferred call runs.
Crash(p) ==
  /\ "crash" \in Faults
  /\ Alive(p)
  /\ proc' = [proc EXCEPT ![p] = DeadState(p)]
  /\ owner' = Released(p, Ports)
  /\ UNCHANGED <<pidfile, parent, term, tried, cmd>>

\* The pidfile is on disk, and the kernel counts pids anew: the one it names
\* may be that of another program, of the user or not.
Reboot ==
  /\ "reboot" \in Faults
  /\ \E now \in {"gone", "foreign", "alien"} :
       proc' = [p \in Pids |-> IF proc[p] = "unborn" THEN "unborn"
                               ELSE IF p = pidfile THEN now ELSE "gone"]
  /\ parent' = [p \in Pids |-> NoCommand]
  /\ term' = {}
  /\ owner' = [t \in Ports |-> NoPid]
  /\ cmd' = [c \in Commands |-> Idle]
  /\ UNCHANGED <<pidfile, tried>>

\* The other program exits.
Leave(p) ==
  /\ proc[p] \in {"foreign", "alien"}
  /\ proc' = [proc EXCEPT ![p] = "gone"]
  /\ UNCHANGED <<pidfile, parent, term, tried, owner, cmd>>

\* Somebody types `herdlite daemon run` in a terminal.
RunByHand(p) ==
  /\ "foreground" \in Faults
  /\ proc[p] = "unborn"
  /\ proc' = [proc EXCEPT ![p] = "boot"]
  /\ UNCHANGED <<pidfile, parent, term, tried, owner, cmd>>

DaemonStep(p) ==
  \/ WritePid(p)
  \/ \E t \in Ports : Bind(p, t)
  \/ LeaveSelect(p)
  \/ ShutdownSmtp(p)
  \/ ShutdownHttp(p)
  \/ RemoveOwnPidfile(p)
  \/ Exit(p)

-----------------------------------------------------------------------------
(* The command: where Status, removeStalePID and Stop return to *)

Goto(c, pc, caller) ==
  [cmd[c] EXCEPT !.pc = pc, !.caller = caller, !.seen = NoPid]

Finish(c, outcome) ==
  [cmd[c] EXCEPT !.pc = "done", !.caller = "none", !.seen = NoPid,
                 !.outcome = outcome]

AfterStatus(c, result) ==
  CASE cmd[c].caller = "status" -> Finish(c, result)
    [] cmd[c].caller = "start" /\ result = "healthy"   -> Finish(c, "already")
    [] cmd[c].caller = "start" /\ result = "unhealthy" -> Goto(c, "stopRead", "stop")
    [] cmd[c].caller = "start" /\ result = "stopped"   -> Goto(c, "rmRead", "fresh")
    [] cmd[c].caller = "poll" /\ result = "healthy"    -> Finish(c, "started")
    [] OTHER                                           -> Goto(c, "poll", "poll")

\* Start stops an unhealthy daemon and calls itself again.
AfterStop(c, result) ==
  IF cmd[c].op = "start" THEN Goto(c, "stRead", "start") ELSE Finish(c, result)

AfterRemoveStale(c) ==
  CASE cmd[c].caller = "fresh" -> Goto(c, "spawn", "none")
    [] cmd[c].caller = "stop"  -> AfterStop(c, "notRunning")
    [] OTHER                   -> AfterStatus(c, "stopped")

\* The command moves on and touches nothing but its own state.
Local(c, next) ==
  /\ cmd' = [cmd EXCEPT ![c] = next]
  /\ UNCHANGED <<pidfile, daemonVars>>

-----------------------------------------------------------------------------
(* Commands *)

Begin(c, op) ==
  /\ cmd[c].pc = "idle"
  /\ Local(c, [cmd[c] EXCEPT !.op = op,
                             !.pc = IF op = "stop" THEN "stopRead" ELSE "stRead",
                             !.caller = op])

\* The process exits; its children, the dead ones too, pass to init, which reaps.
Return(c) ==
  /\ cmd[c].pc = "done"
  /\ cmd' = [cmd EXCEPT ![c] = Idle]
  /\ proc' = [p \in Pids |-> IF proc[p] = "zombie" /\ parent[p] = c
                             THEN "gone" ELSE proc[p]]
  /\ parent' = [p \in Pids |-> IF parent[p] = c THEN NoCommand ELSE parent[p]]
  /\ UNCHANGED <<pidfile, term, tried, owner>>

\* Status, readPID.
StatusRead(c) ==
  /\ cmd[c].pc = "stRead"
  /\ Local(c, IF pidfile = NoPid
              THEN [cmd[c] EXCEPT !.pc = "rmRead"]
              ELSE [cmd[c] EXCEPT !.pc = "stExists", !.seen = pidfile])

\* Status, pidExists.
StatusExists(c) ==
  /\ cmd[c].pc = "stExists"
  /\ Local(c, [cmd[c] EXCEPT !.pc = IF PidExists(cmd[c].seen) THEN "stHealth" ELSE "rmRead",
                             !.seen = NoPid])

\* Status, HTTPHealthy: nothing ties the answer to the pid that was read.  A
\* slow host may miss the 200 ms of the client.
StatusHealth(c) ==
  /\ cmd[c].pc = "stHealth"
  /\ \/ HTTPUp /\ Local(c, AfterStatus(c, "healthy"))
     \/ (~HTTPUp \/ "slow" \in Faults) /\ Local(c, AfterStatus(c, "unhealthy"))

\* removeStalePID reads the file a second time.
StaleRead(c) ==
  /\ cmd[c].pc = "rmRead"
  /\ Local(c, IF pidfile = NoPid
              THEN AfterRemoveStale(c)
              ELSE [cmd[c] EXCEPT !.pc = "rmExists", !.seen = pidfile])

\* Mutant: the file is taken for stale unseen.
StaleExistsUnchecked(c) ==
  /\ cmd[c].pc = "rmExists"
  /\ Local(c, [cmd[c] EXCEPT !.pc = "rmRemove", !.seen = NoPid])

StaleExists(c) ==
  /\ cmd[c].pc = "rmExists"
  /\ Local(c, IF PidExists(cmd[c].seen)
              THEN AfterRemoveStale(c)
              ELSE [cmd[c] EXCEPT !.pc = "rmRemove", !.seen = NoPid])

\* os.Remove takes the file whatever it says by now.
StaleRemove(c) ==
  /\ cmd[c].pc = "rmRemove"
  /\ pidfile' = NoPid
  /\ cmd' = [cmd EXCEPT ![c] = AfterRemoveStale(c)]
  /\ UNCHANGED daemonVars

\* Mutant: the parent records the pid of the child.
SpawnRecords(c) ==
  /\ cmd[c].pc = "spawn"
  /\ \E p \in Pids :
       /\ proc[p] = "unborn"
       /\ proc' = [proc EXCEPT ![p] = "boot"]
       /\ parent' = [parent EXCEPT ![p] = c]
       /\ pidfile' = p
  /\ cmd' = [cmd EXCEPT ![c] = Goto(c, "poll", "poll")]
  /\ UNCHANGED <<term, tried, owner>>

\* Start: cmd.Start and Process.Release.
Spawn(c) ==
  /\ cmd[c].pc = "spawn"
  /\ \E p \in Pids :
       /\ proc[p] = "unborn"
       /\ proc' = [proc EXCEPT ![p] = "boot"]
       /\ parent' = [parent EXCEPT ![p] = c]
  /\ cmd' = [cmd EXCEPT ![c] = Goto(c, "poll", "poll")]
  /\ UNCHANGED <<pidfile, term, tried, owner>>

\* Start: opening the log or cmd.Start returns an error.  It also stands for
\* the bound on Pids: a start that finds no fresh pid fails.
SpawnFails(c) ==
  /\ cmd[c].pc = "spawn"
  /\ Local(c, Finish(c, "spawnError"))

Poll(c) ==
  /\ cmd[c].pc = "poll"
  /\ Local(c, Goto(c, "stRead", "poll"))

\* The child may still come up, or the next Status would find what it wants.
Promising(c) ==
  \/ \E p \in Pids : parent[p] = c /\ \/ proc[p] = "boot"
                                      \/ proc[p] = "running" /\ tried[p] # Ports
  \/ pidfile # NoPid /\ PidExists(pidfile) /\ HTTPUp

\* Mutant: the deadline does not wait for a child that is coming up.
PollTimeoutEarly(c) ==
  /\ cmd[c].pc = "poll"
  /\ Local(c, Finish(c, "failed"))

\* Mutant: no deadline; only an answer ends the loop.
PollTimeoutNever(c) ==
  /\ cmd[c].pc = "poll"
  /\ Promising(c)
  /\ Local(c, cmd[c])

\* The two seconds are over.  On a host that is not slow this happens only when
\* nothing is to be expected of another poll.
PollTimeout(c) ==
  /\ cmd[c].pc = "poll"
  /\ "slow" \in Faults \/ ~Promising(c)
  /\ Local(c, Finish(c, "failed"))

\* Stop, readPID.
StopRead(c) ==
  /\ cmd[c].pc = "stopRead"
  /\ Local(c, IF pidfile = NoPid
              THEN Goto(c, "rmRead", "stop")
              ELSE [Goto(c, "stopKill", "stop") EXCEPT !.seen = pidfile])

\* kill(pid, SIGTERM) fails: ESRCH, or another error, which ends Stop and the
\* Start that called it.
KillFails(c) ==
  IF proc[cmd[c].seen] = "alien" THEN Finish(c, "stopError")
  ELSE Goto(c, "rmRead", "stop")

\* Mutant: the file is read again for the signal.
StopKillRereads(c) ==
  /\ cmd[c].pc = "stopKill"
  /\ IF PidExists(cmd[c].seen)
     THEN /\ term' = term \cup {pidfile}
          /\ cmd' = [cmd EXCEPT ![c].pc = "stopWait"]
          /\ UNCHANGED <<pidfile, proc, parent, tried, owner>>
     ELSE Local(c, KillFails(c))

\* Stop, kill(pid, SIGTERM).
StopKill(c) ==
  /\ cmd[c].pc = "stopKill"
  /\ IF PidExists(cmd[c].seen)
     THEN /\ term' = term \cup {cmd[c].seen}
          /\ cmd' = [cmd EXCEPT ![c].pc = "stopWait"]
          /\ UNCHANGED <<pidfile, proc, parent, tried, owner>>
     ELSE Local(c, KillFails(c))

\* Mutant: no waiting at all.
StopWaitNot(c) ==
  /\ cmd[c].pc = "stopWait"
  /\ Local(c, Goto(c, "stopRemove", "stop"))

\* Stop, the polling loop ends because the pid is gone, or after two seconds:
\* a slow shutdown has three, a zombie never goes, and another program may
\* ignore the signal.
StopWait(c) ==
  /\ cmd[c].pc = "stopWait"
  /\ \/ ~PidExists(cmd[c].seen)
     \/ "slow" \in Faults
     \/ proc[cmd[c].seen] \in {"zombie", "foreign"}
  /\ Local(c, Goto(c, "stopRemove", "stop"))

\* Both ways out of the loop remove the file and report the daemon stopped.
StopRemove(c) ==
  /\ cmd[c].pc = "stopRemove"
  /\ pidfile' = NoPid
  /\ cmd' = [cmd EXCEPT ![c] = AfterStop(c, "stopped")]
  /\ UNCHANGED daemonVars

CommandStep(c) ==
  \/ Return(c)
  \/ StatusRead(c) \/ StatusExists(c) \/ StatusHealth(c)
  \/ StaleRead(c) \/ StaleExists(c) \/ StaleRemove(c)
  \/ Spawn(c) \/ SpawnFails(c) \/ Poll(c) \/ PollTimeout(c)
  \/ StopRead(c) \/ StopKill(c) \/ StopWait(c) \/ StopRemove(c)

Next ==
  \/ \E c \in Commands, op \in {"start", "stop", "status"} : Begin(c, op)
  \/ \E c \in Commands : CommandStep(c)
  \/ \E p \in Pids : DaemonStep(p) \/ Crash(p) \/ RunByHand(p) \/ Leave(p)
  \/ Reboot

Spec == Init /\ [][Next]_vars

\* A process that can run does, and the two-second deadline of Start passes.
\* Nothing is assumed of what users type or of crashes.
Fairness ==
  /\ \A p \in Pids : WF_vars(DaemonStep(p))
  /\ \A c \in Commands : WF_vars(CommandStep(c)) /\ SF_vars(PollTimeout(c))

FairSpec == Spec /\ Fairness

-----------------------------------------------------------------------------
(* Properties of every instance *)

(***************************************************************************)
(* SIGTERM reaches a daemon only after its signal context is installed: no *)
(* Stop can kill a booting daemon outright, so every daemon that is asked  *)
(* to stop runs its shutdown and its deferred clean-up.                    *)
(***************************************************************************)
SignalsOnlyArmedDaemons == \A p \in term : proc[p] \notin {"unborn", "boot"}

(***************************************************************************)
(* A port is held by a process that bound it itself and has not shut that  *)
(* listener down: whoever answers /health is a daemon between its bind and *)
(* its HTTP shutdown, never one that has released its pidfile.             *)
(***************************************************************************)
ListenersAreLive ==
  \A t \in Ports : owner[t] # NoPid =>
    /\ t \in tried[owner[t]]
    /\ proc[owner[t]] \in {"running", "closing"}
                           \cup (IF t = "http" THEN {"smtpClosed"} ELSE {})

(***************************************************************************)
(* Nothing lingers: a daemon that lost a port to another one, or that was  *)
(* asked to stop, reaches its exit, and every command returns to its       *)
(* shell, whatever the others do, Start's recursion through Stop included. *)
(***************************************************************************)
NothingLingers ==
  /\ \A p \in Pids : (p \in term \/ (proc[p] = "running" /\ BindFailed(p))) ~> ~Alive(p)
  /\ \A c \in Commands : (cmd[c].pc # "idle") ~> (cmd[c].pc = "idle")

-----------------------------------------------------------------------------
(* Properties of one command at a time on a host that is not slow *)

Reported(outcomes) == \E c \in Commands : cmd[c].pc = "done" /\ cmd[c].outcome \in outcomes

(***************************************************************************)
(* The daemon that serves both ports is the one the pidfile names, so that *)
(* the next stop or status finds it: no orphan.                            *)
(***************************************************************************)
ServingIsTracked == \A p \in Pids : Serving(p) => pidfile = p

(***************************************************************************)
(* What the commands report is true.  When stop says the daemon is         *)
(* stopped or that none is running, or gives up because it may not signal  *)
(* the program that has the pid, no daemon process is left; when start     *)
(* says one runs, the process that answers the health probe, if it has not *)
(* crashed since, is the one in the pidfile; when it says that none        *)
(* started, none serves.                                                   *)
(***************************************************************************)
ReportsAreTrue ==
  /\ \A c \in Commands : cmd[c].pc = "done" /\ cmd[c].op = "stop" =>
       ~\E p \in Pids : Alive(p)
  /\ Reported({"started", "already"}) => owner["http"] \in {pidfile, NoPid}
  /\ Reported({"failed"}) => ~\E p \in Pids : Serving(p)
=============================================================================
