--------------------------- MODULE HostingProofs ---------------------------
(***************************************************************************)
(* Proofs about Hosting, for any commands, versions and number of links.   *)
(***************************************************************************)
EXTENDS Hosting, TLAPS

(* Types *)

\* Where a command is about to start a master, it knows which.
Ready(me) ==
  /\ me.pc \in {"fpmRemove", "fpmSpawn", "fpmWait"} => me.cur \in Versions
  /\ me.pc # "idle" => me.outcome = "none"

Typed == TypeOK /\ \A c \in Commands : Ready(cmd[c])

ProcStates == {"down", "booting", "up", "quitting"}
FileStates == {"none", "live", "stale", "foreign"}

ProcsTyped == proc \in [Procs -> ProcStates] /\ pidfile \in [Procs -> FileStates]

RestTyped == others \subseteq {"postgres", "daemon"} /\ needed \subseteq Versions
               /\ conf \in 0..MaxLinks /\ loaded \in 0..MaxLinks

CmdTyped == cmd \in [Commands -> CmdState] /\ \A c \in Commands : Ready(cmd[c])

LEMMA TypedParts == Typed <=> ProcsTyped /\ RestTyped /\ CmdTyped
BY DEF Typed, TypeOK, ProcsTyped, RestTyped, CmdTyped, ProcStates, FileStates

LEMMA IdleTyped == Idle \in CmdState /\ Ready(Idle)
BY DEF Idle, CmdState, Pcs, Ready

LEMMA InitTyped == Init => Typed
BY IdleTyped, HostingAssumption DEF Init, Typed, TypeOK, Procs

\* The command c, and no other, gets a new local state.
Moves(c) == \E s \in CmdState : Ready(s) /\ cmd' = [cmd EXCEPT ![c] = s]

\* Lines at which cmd[c].cur is not used.
Free == Pcs \ {"fpmRemove", "fpmSpawn", "fpmWait"}

LEMMA MovesTyped ==
  ASSUME CmdTyped, NEW c \in Commands
  PROVE  /\ Moves(c) => CmdTyped'
         /\ \A o \in {"running", "stopped", "failed"} : Return(c, o) => Moves(c)
         /\ \A pc \in Free : Goto(c, pc) /\ cmd[c].pc # "idle" => Moves(c)
         /\ \A pc \in Pcs : Goto(c, pc) /\ cmd[c].cur \in Versions /\ cmd[c].pc # "idle" => Moves(c)
<1>1. cmd[c] \in CmdState /\ Ready(cmd[c]) /\ cmd \in [Commands -> CmdState]
  BY DEF CmdTyped
<1>2. Moves(c) => CmdTyped'
  BY DEF Moves, CmdTyped
<1>3. ASSUME NEW o \in {"running", "stopped", "failed"}, Return(c, o)
      PROVE  Moves(c)
  <2> DEFINE s == [Idle EXCEPT !.outcome = o, !.clean = cmd[c].clean]
  <2>1. s \in CmdState /\ Ready(s)
    BY <1>1, IdleTyped DEF CmdState, Ready, Idle
  <2>2. cmd' = [cmd EXCEPT ![c] = s]
    BY <1>3 DEF Return
  <2> HIDE DEF s
  <2> QED
    BY <2>1, <2>2 DEF Moves
<1>4. ASSUME NEW pc \in Pcs, Goto(c, pc), pc \in Free \/ cmd[c].cur \in Versions, cmd[c].pc # "idle"
      PROVE  Moves(c)
  <2> DEFINE s == [cmd[c] EXCEPT !.pc = pc]
  <2>1. s \in CmdState /\ Ready(s)
    BY <1>1, <1>4 DEF CmdState, Ready, Free
  <2>2. cmd' = [cmd EXCEPT ![c] = s]
    BY <1>1, <1>4 DEF Goto
  <2> HIDE DEF s
  <2> QED
    BY <2>1, <2>2 DEF Moves
<1> QED
  BY <1>2, <1>3, <1>4 DEF Free

\* Every step of a command but Begin moves it to a typed state.
LEMMA StepMoves ==
  ASSUME CmdTyped, RestTyped, NEW c \in Commands, Step(c), ~Begin(c)
  PROVE  Moves(c)
<1>1. cmd[c] \in CmdState /\ Ready(cmd[c]) /\ cmd \in [Commands -> CmdState]
  BY DEF CmdTyped
<1>2. ASSUME NEW left \in SUBSET Versions, NEW cur \in Versions \cup {"none"}, NEW pc \in Pcs,
             pc \in Free \/ cur \in Versions, cmd[c].pc # "idle",
             cmd' = [cmd EXCEPT ![c] = [cmd[c] EXCEPT !.left = left, !.cur = cur, !.pc = pc]]
      PROVE  Moves(c)
  <2> DEFINE s == [cmd[c] EXCEPT !.left = left, !.cur = cur, !.pc = pc]
  <2>1. s \in CmdState /\ Ready(s)
    BY <1>1, <1>2 DEF CmdState, Ready, Free
  <2> HIDE DEF s
  <2> QED
    BY <1>2, <2>1 DEF Moves, s
<1>3. cmd[c].left \in SUBSET Versions /\ cmd[c].cur \in Versions \cup {"none"} /\ cmd[c].pc \in Pcs
  BY <1>1 DEF CmdState
<1>4. CASE Fail(c)
  BY <1>4, MovesTyped DEF Fail
<1>5. CASE CheckProjects(c)
  <2>1. CASE needed = {}
    BY <1>5, <2>1, MovesTyped DEF CheckProjects
  <2>2. CASE needed # {}
    <3>1. cmd' = [cmd EXCEPT ![c] = [cmd[c] EXCEPT !.left = needed, !.cur = cmd[c].cur, !.pc = "postgres"]]
      BY <1>1, <1>5, <2>2 DEF CheckProjects, CmdState
    <3>2. needed \in SUBSET Versions /\ cmd[c].pc # "idle" /\ "postgres" \in Free /\ "postgres" \in Pcs
      BY <1>5 DEF CheckProjects, At, RestTyped, Pcs, Free
    <3> QED
      BY <1>2, <1>3, <3>1, <3>2
  <2> QED
    BY <2>1, <2>2
<1>6. CASE StartPostgres(c) \/ CheckNginx(c) \/ SpawnNginx(c) \/ Reload(c) \/ StartDaemon(c) \/ StopDaemon(c)
             \/ StopPostgres(c) \/ RemoveStale(c, "nginx", "nginxRemove", "nginxSpawn")
  BY <1>6, MovesTyped DEF StartPostgres, CheckNginx, SpawnNginx, Reload, StartDaemon, StopDaemon, StopPostgres,
     RemoveStale, At, Pcs, Free
<1>7. CASE CheckFpm(c)
  <2>1. CASE cmd[c].left = {} /\ Goto(c, "nginx")
    BY <1>7, <2>1, MovesTyped DEF CheckFpm, At, Pcs, Free
  <2>2. ASSUME NEW v \in cmd[c].left,
               IF PidAlive(v) THEN cmd' = [cmd EXCEPT ![c].left = @ \ {v}]
               ELSE cmd' = [cmd EXCEPT ![c].cur = v,
                      ![c].pc = IF pidfile[v] = "stale" THEN "fpmRemove" ELSE "fpmSpawn"]
        PROVE  Moves(c)
    <3>1. cmd[c].pc = "fpm" /\ v \in Versions
      BY <1>3, <1>7 DEF CheckFpm, At
    <3>2. CASE PidAlive(v)
      <4>1. cmd' = [cmd EXCEPT ![c] = [cmd[c] EXCEPT !.left = cmd[c].left \ {v}, !.cur = cmd[c].cur, !.pc = "fpm"]]
        <5>1. cmd' = [cmd EXCEPT ![c].left = @ \ {v}]
          BY <2>2, <3>2
        <5> QED
          BY <1>1, <3>1, <5>1 DEF CmdState
      <4>2. "fpm" \in Free /\ "fpm" \in Pcs /\ cmd[c].left \ {v} \in SUBSET Versions
        BY <1>3 DEF Free, Pcs
      <4> QED
        BY <1>2, <1>3, <3>1, <4>1, <4>2
    <3>3. CASE ~PidAlive(v)
      <4> DEFINE pc == IF pidfile[v] = "stale" THEN "fpmRemove" ELSE "fpmSpawn"
      <4>1. cmd' = [cmd EXCEPT ![c] = [cmd[c] EXCEPT !.left = cmd[c].left, !.cur = v, !.pc = pc]]
        BY <1>1, <2>2, <3>1, <3>3 DEF CmdState
      <4>2. pc \in Pcs
        BY DEF Pcs
      <4> QED
        BY <1>2, <1>3, <3>1, <4>1, <4>2
    <3> QED
      BY <3>2, <3>3
  <2> QED
    BY <1>7, <2>1, <2>2 DEF CheckFpm
<1>8. CASE RemoveStale(c, cmd[c].cur, "fpmRemove", "fpmSpawn") \/ SpawnFpm(c)
  BY <1>1, <1>8, MovesTyped DEF RemoveStale, SpawnFpm, At, Pcs, Ready
<1>9. CASE WaitFpm(c)
  <2>1. CASE PidAlive(cmd[c].cur)
    <3>1. cmd' = [cmd EXCEPT ![c] = [cmd[c] EXCEPT !.left = cmd[c].left \ {cmd[c].cur}, !.cur = "none", !.pc = "fpm"]]
      BY <1>1, <1>9, <2>1 DEF WaitFpm, CmdState
    <3> QED
      BY <1>2, <1>3, <1>9, <3>1 DEF WaitFpm, At, Pcs, Free
  <2>2. CASE ~PidAlive(cmd[c].cur)
    BY <1>9, <2>2, MovesTyped DEF WaitFpm
  <2> QED
    BY <2>1, <2>2
<1>10. CASE StopNginx(c)
  <2>1. cmd' = [cmd EXCEPT ![c] = [cmd[c] EXCEPT !.left = Versions, !.cur = cmd[c].cur, !.pc = "stopFpm"]]
    BY <1>1, <1>10 DEF StopNginx, CmdState
  <2>2. "stopFpm" \in Free /\ "stopFpm" \in Pcs /\ cmd[c].pc # "idle" /\ Versions \in SUBSET Versions
    BY <1>10 DEF StopNginx, At, Pcs, Free
  <2> QED
    BY <1>2, <1>3, <2>1, <2>2
<1>11. CASE StopFpm(c)
  <2>1. CASE cmd[c].left = {} /\ Goto(c, "stopPostgres")
    BY <1>11, <2>1, MovesTyped DEF StopFpm, At, Pcs, Free
  <2>2. ASSUME NEW v \in cmd[c].left, cmd' = [cmd EXCEPT ![c].left = @ \ {v}]
        PROVE  Moves(c)
    <3>1. cmd' = [cmd EXCEPT ![c] = [cmd[c] EXCEPT !.left = cmd[c].left \ {v}, !.cur = cmd[c].cur, !.pc = "stopFpm"]]
      BY <1>1, <1>11, <2>2 DEF StopFpm, At, CmdState
    <3> QED
      BY <1>2, <1>3, <1>11, <3>1 DEF StopFpm, At, Pcs, Free
  <2> QED
    BY <1>11, <2>1, <2>2 DEF StopFpm
<1> QED
  BY <1>4, <1>5, <1>6, <1>7, <1>8, <1>9, <1>10, <1>11 DEF Step

LEMMA BeginTyped ==
  ASSUME CmdTyped, NEW c \in Commands, Begin(c)
  PROVE  CmdTyped'
<1>1. PICK op \in {"start", "stop", "restart"} :
        cmd' = [d \in Commands |->
          IF d = c THEN [Idle EXCEPT !.op = op, !.pc = IF op = "start" THEN "check" ELSE "stopDaemon"]
          ELSE [cmd[d] EXCEPT !.outcome = "none"]]
  BY DEF Begin
<1>2. ASSUME NEW d \in Commands
      PROVE  cmd'[d] \in CmdState /\ Ready(cmd'[d])
  <2>1. CASE d = c
    BY <1>1, <2>1 DEF Idle, CmdState, Pcs, Ready
  <2>2. CASE d # c
    <3>1. cmd[d] \in CmdState /\ Ready(cmd[d])
      BY DEF CmdTyped
    <3> QED
      BY <1>1, <2>2, <3>1 DEF CmdState, Ready
  <2> QED
    BY <2>1, <2>2
<1>3. cmd' \in [Commands -> CmdState]
  BY <1>1, <1>2
<1> QED
  BY <1>2, <1>3 DEF CmdTyped

LEMMA ProcsStepTyped == ProcsTyped /\ RestTyped /\ CmdTyped /\ [Next]_vars => ProcsTyped' /\ RestTyped'
<1> SUFFICES ASSUME ProcsTyped, RestTyped, CmdTyped, [Next]_vars
             PROVE  ProcsTyped' /\ RestTyped'
  OBVIOUS
<1>1. ASSUME NEW p, Signal(p)
      PROVE  ProcsTyped'
  BY <1>1 DEF Signal, ProcsTyped, ProcStates, FileStates, PidAlive
<1>2. ASSUME NEW c \in Commands, Step(c)
      PROVE  ProcsTyped' /\ RestTyped'
  <2>1. CASE StopNginx(c)
    BY <1>1, <2>1 DEF StopNginx, RestTyped
  <2>2. CASE StopFpm(c)
    BY <1>1, <2>2 DEF StopFpm, RestTyped, ProcsTyped
  <2>3. CASE Begin(c) \/ Fail(c) \/ CheckProjects(c) \/ CheckFpm(c) \/ WaitFpm(c) \/ CheckNginx(c)
    BY <2>3 DEF Begin, Fail, CheckProjects, CheckFpm, WaitFpm, CheckNginx, ProcsTyped, RestTyped
  <2>4. CASE RemoveStale(c, cmd[c].cur, "fpmRemove", "fpmSpawn") \/ RemoveStale(c, "nginx", "nginxRemove", "nginxSpawn")
               \/ SpawnFpm(c)
    BY <2>4 DEF RemoveStale, SpawnFpm, ProcsTyped, RestTyped, ProcStates, FileStates
  <2>5. CASE StartPostgres(c) \/ StartDaemon(c) \/ StopDaemon(c) \/ StopPostgres(c) \/ Reload(c)
    BY <2>5 DEF StartPostgres, StartDaemon, StopDaemon, StopPostgres, Reload, ProcsTyped, RestTyped
  <2>6. CASE SpawnNginx(c)
    BY <2>6 DEF SpawnNginx, ProcsTyped, RestTyped, ProcStates, FileStates
  <2> QED
    BY <1>2, <2>1, <2>2, <2>3, <2>4, <2>5, <2>6 DEF Step
<1>3. ASSUME NEW p \in Procs, Boot(p) \/ Quit(p) \/ Crash(p)
      PROVE  ProcsTyped' /\ RestTyped'
  BY <1>3 DEF Boot, Quit, Crash, ProcsTyped, RestTyped, ProcStates, FileStates
<1>4. CASE Reboot
  <2>1. RestTyped'
    BY <1>4 DEF Reboot, RestTyped
  <2>2. proc' \in [Procs -> ProcStates]
    BY <1>4 DEF Reboot, ProcStates
  <2>3. pidfile' \in [Procs -> FileStates]
    BY <1>4 DEF Reboot, FileStates
  <2> QED
    BY <2>1, <2>2, <2>3 DEF ProcsTyped
<1>5. ASSUME NEW v \in Versions, Link(v)
      PROVE  ProcsTyped' /\ RestTyped'
  BY <1>5, HostingAssumption DEF Link, ProcsTyped, RestTyped
<1>6. CASE UNCHANGED vars
  BY <1>6 DEF vars, ProcsTyped, RestTyped
<1> QED
  BY <1>2, <1>3, <1>4, <1>5, <1>6 DEF Next

LEMMA CmdStepTyped == RestTyped /\ CmdTyped /\ [Next]_vars => CmdTyped'
<1> SUFFICES ASSUME RestTyped, CmdTyped, [Next]_vars
             PROVE  CmdTyped'
  OBVIOUS
<1>1. ASSUME NEW c \in Commands, Step(c)
      PROVE  CmdTyped'
  BY <1>1, BeginTyped, StepMoves, MovesTyped
<1>2. ASSUME NEW p \in Procs, Boot(p) \/ Quit(p)
      PROVE  CmdTyped'
  BY <1>2 DEF Boot, Quit, CmdTyped
<1>3. ASSUME NEW p \in Procs, Crash(p)
      PROVE  CmdTyped'
  <2>1. ASSUME NEW c \in Commands
        PROVE  [cmd[c] EXCEPT !.clean = FALSE] \in CmdState /\ Ready([cmd[c] EXCEPT !.clean = FALSE])
    BY DEF CmdTyped, CmdState, Ready
  <2> QED
    BY <1>3, <2>1 DEF Crash, CmdTyped
<1>4. ASSUME cmd' = [c \in Commands |-> Idle]
      PROVE  CmdTyped'
  BY <1>4, IdleTyped DEF CmdTyped
<1>5. CASE UNCHANGED vars
  BY <1>5 DEF vars, CmdTyped
<1> QED
  BY <1>1, <1>2, <1>3, <1>4, <1>5 DEF Next, Reboot, Link

LEMMA TypedStep == Typed /\ [Next]_vars => Typed'
<1> SUFFICES ASSUME ProcsTyped, RestTyped, CmdTyped, [Next]_vars
             PROVE  ProcsTyped' /\ RestTyped' /\ CmdTyped'
  BY TypedParts DEF Typed, TypeOK, ProcsTyped, RestTyped, CmdTyped, ProcStates, FileStates
<1> QED
  BY ProcsStepTyped, CmdStepTyped

(***************************************************************************)
(* Every variable keeps its type, whatever goes wrong and however the      *)
(* commands interleave.                                                    *)
(***************************************************************************)
THEOREM HostingTypeCorrect == Spec => []TypeOK
<1>1. Typed => TypeOK
  BY DEF Typed
<1> QED
  BY <1>1, InitTyped, TypedStep, PTL DEF Spec

-----------------------------------------------------------------------------
(* Nothing escapes *)

Quiet(p) == proc[p] \in {"down", "quitting"}

\* The pidfile of a master that has booted says so, and no other's does.
Tracked == \A p \in Procs : /\ proc[p] \in {"up", "quitting"} <=> pidfile[p] = "live"
                            /\ proc[p] = "booting" => pidfile[p] = "none"

OneCommand == \A c, d \in Commands : cmd[c].pc # "idle" /\ cmd[d].pc # "idle" => c = d

\* What a command has seen or done, and nobody undoes until it goes on.
Place(me) ==
  /\ me.pc = "fpmRemove" => pidfile[me.cur] = "stale"
  /\ me.pc = "fpmSpawn" => pidfile[me.cur] = "none" /\ proc[me.cur] = "down"
  /\ me.pc = "nginxRemove" => pidfile["nginx"] = "stale"
  /\ me.pc \in {"stopNginx", "stopFpm", "stopPostgres"} => "daemon" \notin others
  /\ me.pc = "stopFpm" => Quiet("nginx") /\ \A v \in Versions \ me.left : Quiet(v)
  /\ me.pc = "stopPostgres" => \A p \in Procs : Quiet(p)
  /\ me.outcome = "stopped" => others = {} /\ \A p \in Procs : Quiet(p)

\* A report lasts until the next command.
Reported == \A c \in Commands : cmd[c].outcome = "stopped" => AllIdle

EscInv == Typed /\ Tracked /\ OneCommand /\ Reported /\ \A c \in Commands : Place(cmd[c])

LEMMA EscInvMeans == EscInv => NothingEscapes
BY DEF EscInv, Tracked, Place, Quiet, NothingEscapes, UpIsTracked, StoppedMeansDown

LEMMA EscInit == Init => EscInv
<1> SUFFICES ASSUME Init
             PROVE  EscInv
  OBVIOUS
<1>1. \A c \in Commands : cmd[c].pc = "idle" /\ cmd[c].outcome = "none"
  BY DEF Init, Idle
<1>2. Tracked
  BY DEF Init, Tracked
<1> QED
  BY <1>1, <1>2, InitTyped DEF EscInv, OneCommand, Reported, Place

\* Only the one command that runs moves: it alone has to be looked at.
LEMMA OneMoves ==
  ASSUME EscInv, NEW c \in Commands, cmd[c].pc # "idle", Moves(c), Typed', Tracked', Place(cmd[c])',
         cmd[c]'.outcome = "stopped" => cmd[c]'.pc = "idle"
  PROVE  EscInv'
<1>1. PICK s \in CmdState : Ready(s) /\ cmd' = [cmd EXCEPT ![c] = s]
  BY DEF Moves
<1>2. cmd \in [Commands -> CmdState]
  BY DEF EscInv, Typed, TypeOK
<1>3. cmd'[c] = s /\ \A d \in Commands \ {c} : cmd'[d] = cmd[d] /\ cmd[d].pc = "idle" /\ cmd[d].outcome # "stopped"
  BY <1>1, <1>2 DEF EscInv, OneCommand, Reported, AllIdle
<1>4. OneCommand'
  BY <1>3 DEF OneCommand
<1>5. Reported'
  BY <1>3 DEF Reported, AllIdle
<1>6. \A d \in Commands \ {c} : Place(cmd[d])'
  BY <1>3 DEF Place
<1> QED
  BY <1>4, <1>5, <1>6 DEF EscInv

\* Signalling p: with its pidfile at hand, it quits.
LEMMA SignalQuiets ==
  ASSUME ProcsTyped, Tracked, NEW p \in Procs, Signal(p), Settled(p), "slowBoot" \notin Faults
  PROVE  Tracked' /\ Quiet(p)' /\ \A q \in Procs : Quiet(q) => Quiet(q)'
<1>1. proc[p] # "booting" /\ proc[p] \in ProcStates /\ pidfile[p] \in FileStates
  BY DEF Settled, ProcsTyped
<1>2. proc'[p] = IF pidfile[p] = "live" /\ proc[p] # "down" THEN "quitting" ELSE proc[p]
  BY DEF Signal, ProcsTyped
<1>3. /\ pidfile[p] = "foreign" => pidfile'[p] \in {"foreign", "stale"}
      /\ pidfile[p] # "foreign" => pidfile'[p] = IF PidAlive(p) THEN "live" ELSE "none"
  BY DEF Signal, ProcsTyped
<1>4. \A q \in Procs \ {p} : proc'[q] = proc[q] /\ pidfile'[q] = pidfile[q]
  BY DEF Signal, ProcsTyped
<1>5. /\ proc'[p] \in {"up", "quitting"} <=> pidfile'[p] = "live"
      /\ proc'[p] \in {"down", "quitting"}
  BY <1>1, <1>2, <1>3 DEF Tracked, PidAlive, ProcStates, FileStates
<1> QED
  BY <1>4, <1>5 DEF Tracked, Quiet

\* The steps of the masters.
LEMMA EscProcs ==
  ASSUME EscInv, Typed', NEW p \in Procs, Boot(p) \/ Quit(p) \/ Crash(p)
  PROVE  EscInv'
<1>1. ProcsTyped /\ CmdTyped
  BY TypedParts DEF EscInv
<1>2. others' = others /\ \A q \in Procs \ {p} : proc'[q] = proc[q] /\ pidfile'[q] = pidfile[q]
  BY <1>1 DEF Boot, Quit, Crash, ProcsTyped
<1>3. \A c \in Commands : /\ cmd'[c].pc = cmd[c].pc /\ cmd'[c].outcome = cmd[c].outcome
                          /\ cmd'[c].cur = cmd[c].cur /\ cmd'[c].left = cmd[c].left
  BY <1>1 DEF Boot, Quit, Crash, CmdTyped, CmdState
<1>4. Tracked'
  BY <1>1, <1>2 DEF EscInv, Tracked, Boot, Quit, Crash, ProcsTyped, ProcStates, FileStates
<1>5. /\ Quiet(p) => Quiet(p)'
      /\ proc[p] = "down" => FALSE
      /\ pidfile[p] # "stale"
  BY <1>1 DEF EscInv, Tracked, Boot, Quit, Crash, Quiet, ProcsTyped, ProcStates
<1>6. \A q \in Procs : Quiet(q) => Quiet(q)'
  BY <1>2, <1>5 DEF Quiet
<1>7. ASSUME NEW c \in Commands
      PROVE  Place(cmd[c])'
  <2>1. Place(cmd[c]) /\ Ready(cmd[c])
    BY <1>1 DEF EscInv, CmdTyped
  <2> QED
    BY <1>2, <1>3, <1>5, <1>6, <2>1 DEF Place, Ready, Procs
<1> QED
  BY <1>3, <1>4, <1>7 DEF EscInv, OneCommand, Reported, AllIdle

\* A reboot, and a change of the links, leave no command.
LEMMA EscIdle ==
  ASSUME EscInv, Typed', Reboot \/ \E v \in Versions : Link(v)
  PROVE  EscInv'
<1>1. \A c \in Commands : cmd'[c].pc = "idle" /\ cmd'[c].outcome = "none"
  BY DEF Reboot, Link, Idle
<1>2. Tracked'
  BY DEF Reboot, Link, EscInv, Tracked
<1> QED
  BY <1>1, <1>2 DEF EscInv, OneCommand, Reported, Place

LEMMA EscBegin ==
  ASSUME EscInv, Typed', NEW c \in Commands, Begin(c), "overlap" \notin Faults
  PROVE  EscInv'
<1>1. cmd \in [Commands -> CmdState]
  BY DEF EscInv, Typed, TypeOK
<1>2. /\ cmd'[c].pc \in {"check", "stopDaemon"} /\ cmd'[c].outcome = "none"
      /\ \A d \in Commands \ {c} : cmd'[d].pc = "idle" /\ cmd'[d].outcome = "none"
  <2>1. PICK op \in {"start", "stop", "restart"} :
          cmd' = [d \in Commands |->
            IF d = c THEN [Idle EXCEPT !.op = op, !.pc = IF op = "start" THEN "check" ELSE "stopDaemon"]
            ELSE [cmd[d] EXCEPT !.outcome = "none"]]
    BY DEF Begin
  <2>2. \A d \in Commands : cmd[d] \in CmdState /\ cmd[d].pc = "idle"
    BY <1>1 DEF Begin, AllIdle
  <2> QED
    BY <2>1, <2>2 DEF Idle, CmdState
<1>3. Tracked'
  BY DEF Begin, EscInv, Tracked
<1>4. \A d \in Commands : Place(cmd[d])'
  BY <1>2 DEF Place
<1>5. OneCommand' /\ Reported'
  BY <1>2 DEF OneCommand, Reported
<1> QED
  BY <1>3, <1>4, <1>5 DEF EscInv

\* The steps of the one command.
LEMMA EscStep ==
  ASSUME EscInv, Typed', NEW c \in Commands, Step(c), ~Begin(c), "slowBoot" \notin Faults
  PROVE  EscInv'
<1> DEFINE me == cmd[c]
<1>1. ProcsTyped /\ CmdTyped /\ RestTyped /\ Tracked /\ Place(cmd[c])
  BY TypedParts DEF EscInv
<1>2. Moves(c)
  BY <1>1, StepMoves
<1>3. cmd[c].pc # "idle"
  BY DEF Step, Fail, CheckProjects, StartPostgres, CheckFpm, RemoveStale, SpawnFpm, WaitFpm, CheckNginx, Reload,
     SpawnNginx, StartDaemon, StopDaemon, StopNginx, StopFpm, StopPostgres, At
<1>4. cmd[c] \in CmdState /\ Ready(cmd[c]) /\ Ready(cmd'[c]) /\ cmd \in [Commands -> CmdState]
  BY <1>1 DEF CmdTyped, Typed
<1>5. cmd[c].outcome = "none" /\ (cmd'[c].outcome = "stopped" => cmd'[c].pc = "idle")
  BY <1>3, <1>4 DEF Ready
<1>6. SUFFICES Tracked' /\ Place(cmd[c])'
  BY <1>2, <1>3, <1>5, OneMoves
<1>7. ASSUME NEW o \in {"running", "failed"}, Return(c, o)
      PROVE  Place(cmd[c])'
  BY <1>4, <1>7 DEF Return, Idle, Place
<1>8. ASSUME NEW pc \in Pcs, Goto(c, pc)
      PROVE  cmd'[c] = [cmd[c] EXCEPT !.pc = pc]
  BY <1>4, <1>8 DEF Goto
<1>9. CASE Fail(c)
  BY <1>1, <1>7, <1>9 DEF Fail, Tracked
<1>10. CASE CheckProjects(c)
  <2>1. CASE needed = {}
    BY <1>1, <1>7, <1>10, <2>1 DEF CheckProjects, Tracked
  <2>2. CASE needed # {}
    <3>1. cmd'[c].pc = "postgres" /\ cmd'[c].outcome = "none"
      BY <1>4, <1>5, <1>10, <2>2 DEF CheckProjects, CmdState
    <3> QED
      BY <1>1, <1>10, <3>1 DEF CheckProjects, Tracked, Place
  <2> QED
    BY <2>1, <2>2
<1>11. CASE StartPostgres(c)
  BY <1>1, <1>4, <1>5, <1>8, <1>11 DEF StartPostgres, Tracked, Place, Pcs, CmdState
<1>12. CASE CheckFpm(c)
  <2>1. CASE Goto(c, "nginx")
    BY <1>1, <1>4, <1>5, <1>8, <1>12, <2>1 DEF CheckFpm, Tracked, Place, Pcs, CmdState
  <2>2. ASSUME NEW v \in cmd[c].left, Settled(v), PidAlive(v), cmd' = [cmd EXCEPT ![c].left = @ \ {v}]
        PROVE  Place(cmd[c])'
    <3>1. cmd'[c].pc = "fpm" /\ cmd'[c].outcome = "none"
      BY <1>4, <1>5, <1>12, <2>2 DEF CheckFpm, At, CmdState
    <3> QED
      BY <3>1 DEF Place
  <2>3. ASSUME NEW v \in cmd[c].left, Settled(v), ~PidAlive(v),
               cmd' = [cmd EXCEPT ![c].cur = v,
                         ![c].pc = IF pidfile[v] = "stale" THEN "fpmRemove" ELSE "fpmSpawn"]
        PROVE  Place(cmd[c])'
    <3>1. /\ cmd'[c].pc = IF pidfile[v] = "stale" THEN "fpmRemove" ELSE "fpmSpawn"
          /\ cmd'[c].cur = v /\ cmd'[c].outcome = "none"
      BY <1>4, <1>5, <2>3 DEF CmdState
    <3>2. v \in Procs /\ proc[v] \in ProcStates /\ pidfile[v] \in FileStates /\ proc[v] # "booting"
      BY <1>1, <1>4, <2>3 DEF CmdState, Procs, ProcsTyped, Settled
    <3>3. pidfile[v] # "stale" => pidfile[v] = "none" /\ proc[v] = "down"
      BY <1>1, <2>3, <3>2 DEF Tracked, PidAlive, ProcStates, FileStates
    <3>4. proc' = proc /\ pidfile' = pidfile
      BY <1>12 DEF CheckFpm
    <3> QED
      BY <3>1, <3>3, <3>4 DEF Place
  <2>4. Tracked'
    BY <1>1, <1>12 DEF CheckFpm, Tracked
  <2> QED
    BY <1>12, <2>1, <2>2, <2>3, <2>4 DEF CheckFpm
<1>13. ASSUME NEW p \in Procs, NEW pc, NEW next \in {"fpmSpawn", "nginxSpawn"},
              RemoveStale(c, p, pc, next), pidfile[p] = "stale", next = "fpmSpawn" => p = cmd[c].cur
       PROVE  Tracked' /\ Place(cmd[c])'
  <2>1. proc[p] = "down" /\ proc' = proc /\ pidfile'[p] = "none" /\ \A q \in Procs \ {p} : pidfile'[q] = pidfile[q]
    BY <1>1, <1>13 DEF RemoveStale, Tracked, ProcsTyped, ProcStates
  <2>2. Tracked'
    BY <1>1, <2>1 DEF Tracked
  <2>3. cmd'[c].pc = next /\ cmd'[c].cur = cmd[c].cur /\ cmd'[c].outcome = "none"
    BY <1>4, <1>5, <1>8, <1>13 DEF RemoveStale, Pcs, CmdState
  <2> QED
    BY <1>13, <2>1, <2>2, <2>3 DEF Place
<1>14. CASE RemoveStale(c, cmd[c].cur, "fpmRemove", "fpmSpawn")
  BY <1>1, <1>4, <1>13, <1>14 DEF RemoveStale, At, Place, Ready, Procs
<1>15. CASE RemoveStale(c, "nginx", "nginxRemove", "nginxSpawn")
  BY <1>1, <1>13, <1>15 DEF RemoveStale, At, Place, Procs
<1>16. CASE SpawnFpm(c)
  <2>1. cmd[c].cur \in Versions /\ pidfile[cmd[c].cur] = "none" /\ proc[cmd[c].cur] = "down"
    BY <1>1, <1>4, <1>16 DEF SpawnFpm, At, Place, Ready
  <2>2. Tracked'
    BY <1>1, <1>16, <2>1 DEF SpawnFpm, Tracked, ProcsTyped, Procs
  <2>3. cmd'[c].pc = "fpmWait" /\ cmd'[c].outcome = "none"
    BY <1>4, <1>5, <1>8, <1>16 DEF SpawnFpm, Pcs, CmdState
  <2> QED
    BY <2>2, <2>3 DEF Place
<1>17. CASE WaitFpm(c)
  <2>1. Tracked'
    BY <1>1, <1>17 DEF WaitFpm, Tracked
  <2>2. CASE PidAlive(cmd[c].cur)
    <3>1. cmd'[c].pc = "fpm" /\ cmd'[c].outcome = "none"
      BY <1>4, <1>5, <1>17, <2>2 DEF WaitFpm, CmdState
    <3> QED
      BY <2>1, <3>1 DEF Place
  <2>3. CASE ~PidAlive(cmd[c].cur)
    BY <1>7, <1>17, <2>1, <2>3 DEF WaitFpm
  <2> QED
    BY <2>2, <2>3
<1>18. CASE CheckNginx(c)
  <2> DEFINE pc == CASE PidAlive("nginx") -> "reload"
                     [] pidfile["nginx"] = "stale" -> "nginxRemove"
                     [] OTHER -> "nginxSpawn"
  <2>1. pc \in {"reload", "nginxRemove", "nginxSpawn"} /\ (pc = "nginxRemove" => pidfile["nginx"] = "stale")
    BY DEF PidAlive
  <2>2. Goto(c, pc) /\ UNCHANGED <<proc, pidfile>>
    BY <1>18 DEF CheckNginx
  <2> HIDE DEF pc
  <2>3. cmd'[c].pc = pc /\ cmd'[c].outcome = "none"
    BY <1>4, <1>5, <1>8, <2>1, <2>2 DEF Pcs, CmdState
  <2> QED
    BY <1>1, <2>1, <2>2, <2>3 DEF Tracked, Place
<1>19. CASE Reload(c)
  <2>1. Tracked'
    BY <1>1, <1>19 DEF Reload, Tracked
  <2>2. CASE PidAlive("nginx")
    BY <1>4, <1>5, <1>8, <1>19, <2>1, <2>2 DEF Reload, Place, Pcs, CmdState
  <2>3. CASE ~PidAlive("nginx")
    BY <1>7, <1>19, <2>1, <2>3 DEF Reload
  <2> QED
    BY <2>2, <2>3
<1>20. CASE SpawnNginx(c)
  <2>1. CASE proc["nginx"] = "down"
    <3>1. Tracked'
      BY <1>1, <1>20, <2>1 DEF SpawnNginx, Tracked, ProcsTyped
    <3> QED
      BY <1>4, <1>5, <1>8, <1>20, <2>1, <3>1 DEF SpawnNginx, Place, Pcs, CmdState
  <2>2. CASE proc["nginx"] # "down"
    BY <1>1, <1>7, <1>20, <2>2 DEF SpawnNginx, Tracked
  <2> QED
    BY <2>1, <2>2
<1>21. CASE StartDaemon(c)
  BY <1>1, <1>7, <1>21 DEF StartDaemon, Tracked
<1>22. CASE StopDaemon(c)
  <2>1. cmd'[c].pc = "stopNginx" /\ cmd'[c].outcome = "none"
    BY <1>4, <1>5, <1>8, <1>22 DEF StopDaemon, Pcs, CmdState
  <2> QED
    BY <1>1, <1>22, <2>1 DEF StopDaemon, Tracked, Place
<1>23. CASE StopNginx(c)
  <2>1. Tracked' /\ Quiet("nginx")'
    BY <1>1, <1>23, SignalQuiets DEF StopNginx, Procs
  <2>2. cmd'[c].pc = "stopFpm" /\ cmd'[c].left = Versions /\ cmd'[c].outcome = "none"
    BY <1>4, <1>5, <1>23 DEF StopNginx, CmdState
  <2>3. "daemon" \notin others'
    BY <1>1, <1>23 DEF StopNginx, At, Place
  <2> QED
    BY <2>1, <2>2, <2>3 DEF Place
<1>24. CASE StopFpm(c)
  <2>1. /\ cmd[c].pc = "stopFpm" /\ "daemon" \notin others' /\ Quiet("nginx")
        /\ \A v \in Versions \ cmd[c].left : Quiet(v)
    BY <1>1, <1>24 DEF StopFpm, At, Place
  <2>2. CASE cmd[c].left = {} /\ Goto(c, "stopPostgres") /\ UNCHANGED <<proc, pidfile>>
    <3>1. cmd'[c].pc = "stopPostgres" /\ cmd'[c].outcome = "none"
      BY <1>4, <1>5, <1>8, <2>2 DEF Pcs, CmdState
    <3>2. \A p \in Procs : Quiet(p)'
      BY <2>1, <2>2 DEF Procs, Quiet
    <3> QED
      BY <1>1, <2>1, <2>2, <3>1, <3>2 DEF Tracked, Place
  <2>3. ASSUME NEW v \in cmd[c].left, Settled(v), Signal(v), cmd' = [cmd EXCEPT ![c].left = @ \ {v}]
        PROVE  Tracked' /\ Place(cmd[c])'
    <3>1. cmd'[c].pc = "stopFpm" /\ cmd'[c].left = cmd[c].left \ {v} /\ cmd'[c].outcome = "none"
      BY <1>4, <1>5, <2>1, <2>3 DEF CmdState
    <3>2. v \in Procs
      BY <1>4, <2>3 DEF CmdState, Procs
    <3>3. Tracked' /\ Quiet(v)' /\ \A q \in Procs : Quiet(q) => Quiet(q)'
      BY <1>1, <2>3, <3>2, SignalQuiets
    <3> QED
      BY <2>1, <3>1, <3>3 DEF Place, Procs
  <2> QED
    BY <1>24, <2>2, <2>3 DEF StopFpm
<1>25. CASE StopPostgres(c)
  <2>1. others' = {} /\ \A p \in Procs : Quiet(p)'
    BY <1>1, <1>25 DEF StopPostgres, At, Place, RestTyped, Quiet
  <2>2. cmd'[c].pc \in {"check", "idle"}
    <3>1. CASE Goto(c, "check")
      BY <1>4, <1>8, <3>1 DEF Pcs, CmdState
    <3>2. CASE Return(c, "stopped")
      BY <1>4, <3>2 DEF Return, Idle
    <3> QED
      BY <1>25, <3>1, <3>2 DEF StopPostgres
  <2> QED
    BY <1>1, <1>25, <2>1, <2>2 DEF StopPostgres, Tracked, Place
<1> QED
  BY <1>9, <1>10, <1>11, <1>12, <1>14, <1>15, <1>16, <1>17, <1>18, <1>19, <1>20, <1>21, <1>22, <1>23, <1>24, <1>25
     DEF Step

\* Every step of the specification.
LEMMA EscNext ==
  ASSUME "overlap" \notin Faults, "slowBoot" \notin Faults
  PROVE  EscInv /\ [Next]_vars => EscInv'
<1> SUFFICES ASSUME EscInv, [Next]_vars PROVE EscInv'
  OBVIOUS
<1>1. Typed'
  BY TypedStep DEF EscInv
<1>2. CASE UNCHANGED vars
  BY <1>1, <1>2 DEF vars, EscInv, Tracked, OneCommand, Reported, AllIdle, Place, Quiet
<1> QED
  BY <1>1, <1>2, EscBegin, EscStep, EscProcs, EscIdle DEF Next

(***************************************************************************)
(* Nothing runs that `herdlite stop` could not find, and what it reports   *)
(* stopped is down or quitting, whatever fails, crashes or reboots, for    *)
(* any number of versions: as long as the commands follow one another and  *)
(* FPM has booted by the time the next one looks at it.                    *)
(***************************************************************************)
THEOREM NothingEscapesHere ==
  ASSUME "overlap" \notin Faults, "slowBoot" \notin Faults
  PROVE  Spec => []NothingEscapes
<1> QED
  BY EscNext, EscInit, EscInvMeans, PTL DEF Spec

-----------------------------------------------------------------------------
(* Running means serving *)

NoForeign == \A p \in Procs : pidfile[p] # "foreign"

FpmLines   == {"fpm", "fpmRemove", "fpmSpawn", "fpmWait"}
NginxLines == {"nginx", "nginxRemove", "nginxSpawn", "reload", "daemon"}

\* What a start has achieved when it gets to a line.
Achieved(me) ==
  /\ me.pc \in FpmLines \cup {"postgres"} => \A v \in needed \ me.left : proc[v] = "up"
  /\ me.pc \in NginxLines => \A v \in needed : proc[v] = "up"
  /\ me.pc \in FpmLines \cup NginxLines => "postgres" \in others
  /\ me.pc \in {"reload", "daemon"} => proc["nginx"] = "up"
  /\ me.pc = "daemon" => loaded = conf
  /\ me.outcome = "running" =>
       /\ \A v \in needed : proc[v] = "up"
       /\ proc["nginx"] = "up" /\ loaded = conf
       /\ others = {"postgres", "daemon"}

Serving(me) ==
  /\ me.pc = "nginxSpawn" => pidfile["nginx"] # "foreign"
  /\ me.clean /\ NoForeign => Achieved(me)

RunInv ==
  /\ EscInv
  /\ \A c \in Commands : cmd[c].outcome = "running" => AllIdle
  /\ \A c \in Commands : Serving(cmd[c])

LEMMA RunInvMeans == RunInv => RunningMeansServing
BY DEF RunInv, Serving, Achieved, NoForeign, RunningMeansServing

LEMMA RunInit == Init => RunInv
<1> SUFFICES ASSUME Init
             PROVE  RunInv
  OBVIOUS
<1>1. \A c \in Commands : cmd[c].pc = "idle" /\ cmd[c].outcome = "none"
  BY DEF Init, Idle
<1>2. \A c \in Commands : Serving(cmd[c])
  BY <1>1 DEF Serving, Achieved, FpmLines, NginxLines
<1> QED
  BY <1>1, <1>2, EscInit DEF RunInv

\* A master that boots or quits disturbs nothing that is up; one that dies
\* makes every command of its time one that has seen a death.
LEMMA RunProcs ==
  ASSUME RunInv, EscInv', NEW p \in Procs, Boot(p) \/ Quit(p) \/ Crash(p)
  PROVE  RunInv'
<1>1. ProcsTyped /\ CmdTyped /\ Tracked
  BY TypedParts DEF RunInv, EscInv
<1>2. \A c \in Commands :
        /\ cmd'[c].pc = cmd[c].pc /\ cmd'[c].outcome = cmd[c].outcome /\ cmd'[c].left = cmd[c].left
        /\ cmd'[c].clean => cmd[c].clean /\ cmd'[c] = cmd[c] /\ ~Crash(p)
  BY <1>1 DEF Boot, Quit, Crash, CmdTyped, CmdState
<1>3. /\ UNCHANGED <<others, needed, conf, loaded>>
      /\ \A q \in Procs : pidfile'[q] = "foreign" <=> pidfile[q] = "foreign"
  BY <1>1 DEF Boot, Quit, Crash, ProcsTyped, Tracked
<1>4. NoForeign' => NoForeign
  BY <1>3 DEF NoForeign
<1>5. ASSUME ~Crash(p), NEW q \in Procs, proc[q] = "up"
      PROVE  proc'[q] = "up"
  BY <1>1, <1>5 DEF Boot, Quit, ProcsTyped
<1>6. "nginx" \in Procs /\ Versions \subseteq Procs /\ needed \subseteq Versions
  BY TypedParts DEF Procs, RunInv, EscInv, RestTyped
<1>7. ASSUME NEW c \in Commands
      PROVE  Serving(cmd[c])'
  <2>1. Serving(cmd[c])
    BY DEF RunInv
  <2>2. cmd'[c].pc = "nginxSpawn" => pidfile'["nginx"] # "foreign"
    BY <1>2, <1>3, <1>6, <2>1 DEF Serving
  <2>3. ASSUME cmd'[c].clean, NoForeign'
        PROVE  Achieved(cmd[c])'
    <3>1. Achieved(cmd[c]) /\ ~Crash(p) /\ cmd'[c] = cmd[c]
      BY <1>2, <1>4, <2>1, <2>3 DEF Serving
    <3> QED
      BY <1>3, <1>5, <1>6, <3>1 DEF Achieved
  <2> QED
    BY <2>2, <2>3 DEF Serving
<1> QED
  BY <1>2, <1>7 DEF RunInv, AllIdle

LEMMA RunIdle ==
  ASSUME RunInv, EscInv', Reboot \/ \E v \in Versions : Link(v)
  PROVE  RunInv'
<1>1. \A c \in Commands : cmd'[c].pc = "idle" /\ cmd'[c].outcome = "none"
  BY DEF Reboot, Link, Idle
<1>2. \A c \in Commands : Serving(cmd[c])'
  BY <1>1 DEF Serving, Achieved, FpmLines, NginxLines
<1> QED
  BY <1>1, <1>2 DEF RunInv

LEMMA RunBegin ==
  ASSUME RunInv, EscInv', NEW c \in Commands, Begin(c), "overlap" \notin Faults
  PROVE  RunInv'
<1>1. PICK op \in {"start", "stop", "restart"} :
        cmd' = [d \in Commands |->
          IF d = c THEN [Idle EXCEPT !.op = op, !.pc = IF op = "start" THEN "check" ELSE "stopDaemon"]
          ELSE [cmd[d] EXCEPT !.outcome = "none"]]
  BY DEF Begin
<1>2. \A d \in Commands : cmd[d] \in CmdState /\ cmd[d].pc = "idle"
  BY DEF Begin, AllIdle, RunInv, EscInv, Typed, TypeOK
<1>3. \A d \in Commands : cmd'[d].pc \in {"idle", "check", "stopDaemon"} /\ cmd'[d].outcome = "none"
  BY <1>1, <1>2 DEF Idle, CmdState
<1>4. \A d \in Commands : Serving(cmd[d])'
  BY <1>3 DEF Serving, Achieved, FpmLines, NginxLines
<1> QED
  BY <1>3, <1>4 DEF RunInv

\* Only the one command that runs moves: it alone has to be looked at.
LEMMA OneServes ==
  ASSUME RunInv, EscInv', NEW c \in Commands, cmd[c].pc # "idle", Moves(c), Serving(cmd[c])'
  PROVE  RunInv'
<1>1. PICK s \in CmdState : Ready(s) /\ cmd' = [cmd EXCEPT ![c] = s]
  BY DEF Moves
<1>2. cmd \in [Commands -> CmdState]
  BY DEF RunInv, EscInv, Typed, TypeOK
<1>3. /\ cmd'[c] = s /\ (s.outcome = "running" => s.pc = "idle")
      /\ \A d \in Commands \ {c} : cmd'[d] = cmd[d] /\ cmd[d].pc = "idle" /\ cmd[d].outcome # "running"
  BY <1>1, <1>2 DEF RunInv, EscInv, OneCommand, AllIdle, Ready
<1>4. \A d \in Commands \ {c} : Serving(cmd[d])'
  BY <1>3 DEF Serving, Achieved, FpmLines, NginxLines
<1>5. \A d \in Commands : cmd'[d].outcome = "running" => AllIdle'
  BY <1>3 DEF AllIdle
<1> QED
  BY <1>4, <1>5 DEF RunInv

\* The steps of the one command.
LEMMA RunStep ==
  ASSUME RunInv, EscInv', NEW c \in Commands, Step(c), ~Begin(c), "slowBoot" \notin Faults, "slowQuit" \notin Faults
  PROVE  RunInv'
<1> DEFINE me == cmd[c]
<1>1. ProcsTyped /\ CmdTyped /\ RestTyped /\ Tracked /\ Place(me) /\ Serving(me)
  BY TypedParts DEF RunInv, EscInv
<1>2. Moves(c)
  BY <1>1, StepMoves
<1>3. me.pc # "idle"
  BY DEF Step, Fail, CheckProjects, StartPostgres, CheckFpm, RemoveStale, SpawnFpm, WaitFpm, CheckNginx, Reload,
     SpawnNginx, StartDaemon, StopDaemon, StopNginx, StopFpm, StopPostgres, At
<1>4. me \in CmdState /\ Ready(me) /\ cmd \in [Commands -> CmdState] /\ me.outcome = "none"
  BY <1>1, <1>3 DEF CmdTyped, Ready
<1>5. SUFFICES Serving(me)'
  BY <1>2, <1>3, OneServes
<1>6. "nginx" \in Procs /\ Versions \subseteq Procs /\ needed \subseteq Versions /\ "nginx" \notin Versions
  BY <1>1, HostingAssumption DEF Procs, RestTyped
<1>7. ASSUME NEW o \in {"stopped", "failed"}, Return(c, o)
      PROVE  Serving(me)'
  BY <1>4, <1>7 DEF Return, Idle, Serving, Achieved, FpmLines, NginxLines
<1>8. ASSUME NEW pc \in Pcs, Goto(c, pc)
      PROVE  cmd'[c] = [me EXCEPT !.pc = pc]
  BY <1>4, <1>8 DEF Goto
<1>9. ASSUME cmd'[c].pc \in {"check", "stopNginx", "stopFpm", "stopPostgres"}, cmd'[c].outcome = "none"
      PROVE  Serving(me)'
  BY <1>9 DEF Serving, Achieved, FpmLines, NginxLines
<1>10. ASSUME NEW p \in Procs, Settled(p), PidAlive(p), NoForeign
       PROVE  proc[p] = "up"
  BY <1>1, <1>10 DEF Settled, PidAlive, NoForeign, ProcsTyped, ProcStates
<1>11. CASE Fail(c)
  BY <1>7, <1>11 DEF Fail
<1>12. CASE CheckProjects(c)
  <2>1. CASE needed = {}
    BY <1>7, <1>12, <2>1 DEF CheckProjects
  <2>2. CASE needed # {}
    <3>1. cmd'[c].pc = "postgres" /\ cmd'[c].outcome = "none" /\ cmd'[c].left = needed /\ needed' = needed
      BY <1>4, <1>12, <2>2 DEF CheckProjects, CmdState
    <3> QED
      BY <3>1 DEF Serving, Achieved, FpmLines, NginxLines
  <2> QED
    BY <2>1, <2>2
<1>13. CASE StartPostgres(c)
  <2>1. cmd'[c] = [me EXCEPT !.pc = "fpm"] /\ me.pc = "postgres"
    BY <1>8, <1>13 DEF StartPostgres, Pcs, At
  <2>2. "postgres" \in others' /\ UNCHANGED <<proc, pidfile, needed>>
    BY <1>13 DEF StartPostgres
  <2> QED
    BY <1>1, <1>4, <2>1, <2>2 DEF Serving, Achieved, NoForeign, FpmLines, NginxLines, CmdState
<1>14. CASE CheckFpm(c)
  <2>1. me.pc = "fpm" /\ UNCHANGED <<proc, pidfile, others, needed, conf, loaded>>
    BY <1>14 DEF CheckFpm, At
  <2>2. CASE me.left = {} /\ Goto(c, "nginx")
    <3>1. cmd'[c] = [me EXCEPT !.pc = "nginx"]
      BY <1>8, <2>2 DEF Pcs
    <3> QED
      BY <1>1, <1>4, <2>1, <2>2, <3>1 DEF Serving, Achieved, NoForeign, FpmLines, NginxLines, CmdState
  <2>3. ASSUME NEW v \in me.left, Settled(v), PidAlive(v), cmd' = [cmd EXCEPT ![c].left = @ \ {v}]
        PROVE  Serving(me)'
    <3>1. cmd'[c] = [me EXCEPT !.left = me.left \ {v}]
      BY <1>4, <2>3
    <3>2. v \in Procs /\ (NoForeign => proc[v] = "up")
      BY <1>4, <1>6, <1>10, <2>3 DEF CmdState
    <3> QED
      BY <1>1, <1>4, <2>1, <3>1, <3>2 DEF Serving, Achieved, NoForeign, FpmLines, NginxLines, CmdState
  <2>4. ASSUME NEW v \in me.left,
               cmd' = [cmd EXCEPT ![c].cur = v,
                         ![c].pc = IF pidfile[v] = "stale" THEN "fpmRemove" ELSE "fpmSpawn"]
        PROVE  Serving(me)'
    <3>1. /\ cmd'[c].pc \in {"fpmRemove", "fpmSpawn"} /\ cmd'[c].left = me.left
          /\ cmd'[c].clean = me.clean /\ cmd'[c].outcome = "none"
      BY <1>4, <2>4 DEF CmdState
    <3> QED
      BY <1>1, <2>1, <3>1 DEF Serving, Achieved, NoForeign, FpmLines, NginxLines
  <2> QED
    BY <1>14, <2>2, <2>3, <2>4 DEF CheckFpm
<1>15. ASSUME NEW p \in Procs, NEW pc, NEW next \in {"fpmSpawn", "nginxSpawn"},
              RemoveStale(c, p, pc, next), pidfile[p] = "stale",
              \/ me.pc \in FpmLines /\ next = "fpmSpawn"
              \/ me.pc \in NginxLines /\ p = "nginx"
       PROVE  Serving(me)'
  <2>1. /\ UNCHANGED <<proc, others, needed, conf, loaded>>
        /\ pidfile'[p] = "none" /\ \A q \in Procs \ {p} : pidfile'[q] = pidfile[q]
    BY <1>1, <1>15 DEF RemoveStale, ProcsTyped
  <2>2. cmd'[c] = [me EXCEPT !.pc = next] /\ (NoForeign' => NoForeign)
    BY <1>8, <1>15, <2>1 DEF RemoveStale, Pcs, NoForeign
  <2> QED
    BY <1>1, <1>4, <1>15, <2>1, <2>2 DEF Serving, Achieved, FpmLines, NginxLines, CmdState
<1>16. CASE RemoveStale(c, me.cur, "fpmRemove", "fpmSpawn")
  <2>1. me.pc = "fpmRemove" /\ me.cur \in Procs /\ pidfile[me.cur] = "stale"
    BY <1>1, <1>4, <1>6, <1>16 DEF RemoveStale, At, Place, Ready
  <2> QED
    BY <1>15, <1>16, <2>1 DEF FpmLines
<1>17. CASE RemoveStale(c, "nginx", "nginxRemove", "nginxSpawn")
  BY <1>1, <1>6, <1>15, <1>17 DEF RemoveStale, At, Place, NginxLines
<1>18. CASE SpawnFpm(c)
  <2>1. me.pc = "fpmSpawn" /\ cmd'[c] = [me EXCEPT !.pc = "fpmWait"]
    BY <1>8, <1>18 DEF SpawnFpm, At, Pcs
  <2>2. UNCHANGED <<pidfile, others, needed>> /\ \A q \in Procs : proc[q] = "up" => proc'[q] = "up"
    BY <1>1, <1>18 DEF SpawnFpm, ProcsTyped
  <2> QED
    BY <1>1, <1>4, <1>6, <2>1, <2>2 DEF Serving, Achieved, NoForeign, FpmLines, NginxLines, CmdState
<1>19. CASE WaitFpm(c)
  <2> DEFINE v == me.cur
  <2>1. /\ UNCHANGED <<proc, pidfile, others, needed, conf, loaded>>
        /\ me.pc = "fpmWait" /\ v \in Procs /\ Settled(v)
    BY <1>4, <1>6, <1>19 DEF WaitFpm, At, Ready
  <2>2. CASE PidAlive(v)
    <3>1. /\ cmd'[c].pc = "fpm" /\ cmd'[c].left = me.left \ {v}
          /\ cmd'[c].clean = me.clean /\ cmd'[c].outcome = "none"
      BY <1>4, <1>19, <2>2 DEF WaitFpm, CmdState
    <3>2. NoForeign => proc[v] = "up"
      BY <1>10, <2>1, <2>2
    <3> QED
      BY <1>1, <2>1, <3>1, <3>2 DEF Serving, Achieved, NoForeign, FpmLines, NginxLines
  <2>3. CASE ~PidAlive(v)
    BY <1>7, <1>19, <2>3 DEF WaitFpm
  <2> QED
    BY <2>2, <2>3
<1>20. CASE CheckNginx(c)
  <2> DEFINE pc == CASE PidAlive("nginx") -> "reload"
                     [] pidfile["nginx"] = "stale" -> "nginxRemove"
                     [] OTHER -> "nginxSpawn"
  <2>1. /\ pc \in {"reload", "nginxRemove", "nginxSpawn"}
        /\ pc = "reload" => PidAlive("nginx")
        /\ pc = "nginxSpawn" => pidfile["nginx"] # "foreign"
    BY DEF PidAlive
  <2>2. /\ Goto(c, pc) /\ UNCHANGED <<proc, pidfile, others, needed, conf, loaded>>
        /\ me.pc = "nginx" /\ Settled("nginx")
    BY <1>20 DEF CheckNginx, At
  <2> HIDE DEF pc
  <2>3. cmd'[c] = [me EXCEPT !.pc = pc]
    BY <1>8, <2>1, <2>2 DEF Pcs
  <2>4. pc = "reload" /\ NoForeign => proc["nginx"] = "up"
    BY <1>6, <1>10, <2>1, <2>2
  <2> QED
    BY <1>1, <1>4, <2>1, <2>2, <2>3, <2>4 DEF Serving, Achieved, NoForeign, FpmLines, NginxLines, CmdState
<1>21. CASE Reload(c)
  <2>1. me.pc = "reload" /\ UNCHANGED <<proc, pidfile, others, needed, conf>>
    BY <1>21 DEF Reload, At
  <2>2. CASE PidAlive("nginx")
    <3>1. cmd'[c] = [me EXCEPT !.pc = "daemon"] /\ (proc["nginx"] = "up" => loaded' = conf)
      BY <1>8, <1>21, <2>2 DEF Reload, Pcs
    <3> QED
      BY <1>1, <1>4, <2>1, <3>1 DEF Serving, Achieved, NoForeign, FpmLines, NginxLines, CmdState
  <2>3. CASE ~PidAlive("nginx")
    BY <1>7, <1>21, <2>3 DEF Reload
  <2> QED
    BY <2>2, <2>3
<1>22. CASE SpawnNginx(c)
  <2>1. me.pc = "nginxSpawn" /\ UNCHANGED <<others, needed, conf>>
    BY <1>22 DEF SpawnNginx, At
  <2>2. CASE proc["nginx"] = "down"
    <3>1. /\ cmd'[c] = [me EXCEPT !.pc = "daemon"] /\ loaded' = conf
          /\ proc'["nginx"] = "up" /\ \A q \in Procs \ {"nginx"} : proc'[q] = proc[q] /\ pidfile'[q] = pidfile[q]
      BY <1>1, <1>6, <1>8, <1>22, <2>2 DEF SpawnNginx, Pcs, ProcsTyped
    <3>2. NoForeign' => NoForeign
      BY <1>1, <2>1, <3>1 DEF NoForeign, Serving
    <3> QED
      BY <1>1, <1>4, <1>6, <2>1, <3>1, <3>2 DEF Serving, Achieved, FpmLines, NginxLines, CmdState
  <2>3. CASE proc["nginx"] # "down"
    BY <1>7, <1>22, <2>3 DEF SpawnNginx
  <2> QED
    BY <2>2, <2>3
<1>23. CASE StartDaemon(c)
  <2>1. /\ me.pc = "daemon" /\ UNCHANGED <<proc, pidfile, needed, conf, loaded>>
        /\ others' = others \cup {"daemon"}
    BY <1>23 DEF StartDaemon, At
  <2>2. cmd'[c].pc = "idle" /\ cmd'[c].clean = me.clean
    BY <1>4, <1>23 DEF StartDaemon, Return, Idle
  <2>3. me.clean /\ NoForeign => Achieved(me)
    BY <1>1 DEF Serving
  <2>4. "postgres" \in others => others' = {"postgres", "daemon"}
    BY <1>1, <2>1 DEF RestTyped
  <2> QED
    BY <2>1, <2>2, <2>3, <2>4 DEF Serving, Achieved, NoForeign, FpmLines, NginxLines
<1>24. CASE StopDaemon(c)
  BY <1>4, <1>8, <1>9, <1>24 DEF StopDaemon, Pcs, CmdState
<1>25. CASE StopNginx(c)
  <2>1. cmd'[c].pc = "stopFpm" /\ cmd'[c].outcome = "none"
    BY <1>4, <1>25 DEF StopNginx, CmdState
  <2> QED
    BY <1>9, <2>1
<1>26. CASE StopFpm(c)
  <2>1. cmd'[c].pc \in {"stopFpm", "stopPostgres"} /\ cmd'[c].outcome = "none"
    <3>1. CASE Goto(c, "stopPostgres")
      BY <1>4, <1>8, <3>1 DEF Pcs, CmdState
    <3>2. ASSUME NEW v \in me.left, cmd' = [cmd EXCEPT ![c].left = @ \ {v}]
          PROVE  cmd'[c].pc = me.pc /\ cmd'[c].outcome = "none"
      BY <1>4, <3>2 DEF CmdState
    <3> QED
      BY <1>26, <3>1, <3>2 DEF StopFpm, At
  <2> QED
    BY <1>9, <2>1
<1>27. CASE StopPostgres(c)
  <2>1. CASE Goto(c, "check")
    BY <1>4, <1>8, <1>9, <2>1 DEF Pcs, CmdState
  <2>2. CASE Return(c, "stopped")
    BY <1>7, <2>2
  <2> QED
    BY <1>27, <2>1, <2>2 DEF StopPostgres
<1> QED
  BY <1>11, <1>12, <1>13, <1>14, <1>16, <1>17, <1>18, <1>19, <1>20, <1>21, <1>22, <1>23, <1>24, <1>25, <1>26, <1>27
     DEF Step

(***************************************************************************)
(* "Hosting services are running." is the truth, for any number of         *)
(* versions, after any failures, crashes and reboots: the masters of all   *)
(* projects and nginx run, with the site files of the last link.  Commands *)
(* follow one another, and masters boot and quit in the time that the next *)
(* look at them leaves.                                                    *)
(***************************************************************************)
THEOREM RunningIsServing ==
  ASSUME "overlap" \notin Faults, "slowBoot" \notin Faults, "slowQuit" \notin Faults
  PROVE  Spec => []RunningMeansServing
<1>1. ASSUME RunInv, [Next]_vars, EscInv'
      PROVE  RunInv'
  <2>1. CASE UNCHANGED vars
    BY <1>1, <2>1 DEF vars, RunInv, AllIdle, Serving, Achieved, NoForeign
  <2> QED
    BY <1>1, <2>1, RunBegin, RunStep, RunProcs, RunIdle DEF Next
<1>2. RunInv /\ [Next]_vars => RunInv'
  BY <1>1, EscNext DEF RunInv
<1> QED
  BY <1>2, RunInit, RunInvMeans, PTL DEF Spec

=============================================================================
