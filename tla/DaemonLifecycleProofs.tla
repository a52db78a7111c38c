----------------------- MODULE DaemonLifecycleProofs -----------------------
(***************************************************************************)
(* Proofs about DaemonLifecycle, for any sets of commands and pids and any *)
(* subset of the faults.                                                   *)
(***************************************************************************)
EXTENDS DaemonLifecycle, TLAPS

(***************************************************************************)
(* A command remembers a pid exactly at the lines that go on to use it.  A *)
(* state it returns to from a call remembers none.                         *)
(***************************************************************************)
Holding == {"stExists", "rmExists", "stopKill", "stopWait"}

Returned(s) == s \in CmdState /\ s.seen = NoPid /\ s.pc \notin Holding

(***************************************************************************)
(* The operators that say where Status, removeStalePID and Stop return to  *)
(* yield such states.                                                      *)
(***************************************************************************)
LEMMA CallsReturn ==
  ASSUME TypeOK, NEW c \in Commands
  PROVE  /\ \A pc \in CmdPcs \ Holding, k \in Callers : Returned(Goto(c, pc, k))
         /\ \A o \in Outcomes : Returned(Finish(c, o))
         /\ \A r \in {"healthy", "unhealthy", "stopped"} : Returned(AfterStatus(c, r))
         /\ \A r \in {"stopped", "notRunning"} : Returned(AfterStop(c, r))
         /\ Returned(AfterRemoveStale(c))
<1>1. cmd[c] \in CmdState
  BY DEF TypeOK
<1>2. \A pc \in CmdPcs \ Holding, k \in Callers : Returned(Goto(c, pc, k))
  BY <1>1 DEF Goto, CmdState, Returned
<1>3. \A o \in Outcomes : Returned(Finish(c, o))
  BY <1>1 DEF Finish, CmdState, CmdPcs, Callers, Returned, Holding
<1>4. \A r \in {"healthy", "unhealthy", "stopped"} : Returned(AfterStatus(c, r))
  BY <1>2, <1>3 DEF AfterStatus, CmdPcs, Callers, Outcomes, Holding
<1>5. \A r \in {"stopped", "notRunning"} : Returned(AfterStop(c, r))
  BY <1>2, <1>3 DEF AfterStop, CmdPcs, Callers, Outcomes, Holding
<1>6. Returned(AfterRemoveStale(c))
  BY <1>2, <1>4, <1>5 DEF AfterRemoveStale, CmdPcs, Callers, Holding
<1> QED
  BY <1>2, <1>3, <1>4, <1>5, <1>6

-----------------------------------------------------------------------------

(***************************************************************************)
(* The strengthening of SignalsOnlyArmedDaemons: every place a pid can be  *)
(* read from (the file, a command's local copy) names a process that has   *)
(* already written its pidfile, hence has its signal context.              *)
(***************************************************************************)
Armed(p) == p \in Pids => proc[p] \notin {"unborn", "boot"}

Remembers(s) == Armed(s.seen) /\ (s.pc \in Holding => s.seen \in Pids)

ArmedInv ==
  /\ Armed(pidfile)
  /\ \A c \in Commands : Remembers(cmd[c])
  /\ \A p \in term : Armed(p)

Inv ==
  /\ TypeOK
  /\ ArmedInv
  /\ ListenersAreLive

LEMMA InitInv == Init => Inv
<1> SUFFICES ASSUME Init PROVE Inv
  OBVIOUS
<1> USE DaemonAssumption DEF Init
<1>1. TypeOK
  BY DEF TypeOK, Ports, ProcStates, CmdState, CmdPcs, Callers, Outcomes, Idle
<1>2. ArmedInv
  BY DEF ArmedInv, Armed, Remembers, Holding, Idle
<1>3. ListenersAreLive
  BY DEF ListenersAreLive
<1> QED
  BY <1>1, <1>2, <1>3 DEF Inv

(***************************************************************************)
(* A command that only moves on keeps the invariant when its new state is  *)
(* typed and remembers nothing, or an armed pid.                           *)
(***************************************************************************)
LEMMA LocalKeepsInv ==
  ASSUME Inv, NEW c \in Commands, NEW s \in CmdState, Remembers(s), Local(c, s)
  PROVE  Inv'
<1> USE DEF Inv, Local, daemonVars
<1>1. TypeOK'
  BY DEF TypeOK
<1>2. ArmedInv'
  BY DEF ArmedInv, Armed, Remembers, TypeOK
<1>3. ListenersAreLive'
  BY DEF ListenersAreLive
<1> QED
  BY <1>1, <1>2, <1>3

(***************************************************************************)
(* So does one that removes the pidfile and moves on.                      *)
(***************************************************************************)
LEMMA RemovalKeepsInv ==
  ASSUME Inv, NEW c \in Commands, NEW s, Returned(s),
         pidfile' = NoPid, cmd' = [cmd EXCEPT ![c] = s], UNCHANGED daemonVars
  PROVE  Inv'
<1> USE DaemonAssumption DEF Inv, daemonVars
<1>1. TypeOK'
  BY DEF TypeOK, Returned
<1>2. ArmedInv'
  BY DEF ArmedInv, Armed, Remembers, TypeOK, Returned
<1>3. ListenersAreLive'
  BY DEF ListenersAreLive
<1> QED
  BY <1>1, <1>2, <1>3

(***************************************************************************)
(* The steps of a daemon process.                                          *)
(***************************************************************************)
LEMMA ProcessKeepsInv ==
  ASSUME Inv, NEW p \in Pids, DaemonStep(p) \/ Crash(p) \/ RunByHand(p) \/ Leave(p)
  PROVE  Inv'
<1> USE DaemonAssumption DEF Inv
<1>0. DeadState(p) \in {"zombie", "gone"}
  BY DEF DeadState
<1>1. CASE WritePid(p)
  <2>1. TypeOK'
    BY <1>1 DEF WritePid, TypeOK, ProcStates
  <2>2. ArmedInv'
    BY <1>1 DEF WritePid, TypeOK, ArmedInv, Armed, Remembers
  <2>3. ListenersAreLive'
    BY <1>1 DEF WritePid, TypeOK, ListenersAreLive
  <2> QED BY <2>1, <2>2, <2>3
<1>2. ASSUME NEW t \in Ports, Bind(p, t) PROVE Inv'
  <2>1. TypeOK'
    BY <1>2 DEF Bind, TypeOK
  <2>2. ArmedInv'
    BY <1>2 DEF Bind, ArmedInv, Armed, Remembers
  <2>3. ListenersAreLive'
    BY <1>2 DEF Bind, TypeOK, ListenersAreLive
  <2> QED BY <2>1, <2>2, <2>3
<1>3. CASE LeaveSelect(p)
  <2>1. TypeOK'
    BY <1>3 DEF LeaveSelect, TypeOK, ProcStates
  <2>2. ArmedInv'
    BY <1>3 DEF LeaveSelect, TypeOK, ArmedInv, Armed, Remembers
  <2>3. ListenersAreLive'
    BY <1>3 DEF LeaveSelect, TypeOK, ListenersAreLive
  <2> QED BY <2>1, <2>2, <2>3
<1>4. CASE ShutdownSmtp(p)
  <2>1. TypeOK'
    BY <1>4 DEF ShutdownSmtp, TypeOK, ProcStates, Released
  <2>2. ArmedInv'
    BY <1>4 DEF ShutdownSmtp, TypeOK, ArmedInv, Armed, Remembers
  <2>3. ListenersAreLive'
    BY <1>4 DEF ShutdownSmtp, TypeOK, ListenersAreLive, Released, Ports
  <2> QED BY <2>1, <2>2, <2>3
<1>5. CASE ShutdownHttp(p)
  <2>1. TypeOK'
    BY <1>5 DEF ShutdownHttp, TypeOK, ProcStates, Released
  <2>2. ArmedInv'
    BY <1>5 DEF ShutdownHttp, TypeOK, ArmedInv, Armed, Remembers
  <2>3. ListenersAreLive'
    BY <1>5 DEF ShutdownHttp, TypeOK, ListenersAreLive, Released, Ports
  <2> QED BY <2>1, <2>2, <2>3
<1>6. CASE RemoveOwnPidfile(p)
  <2>1. TypeOK'
    BY <1>6 DEF RemoveOwnPidfile, TypeOK, ProcStates
  <2>2. ArmedInv'
    BY <1>6 DEF RemoveOwnPidfile, TypeOK, ArmedInv, Armed, Remembers
  <2>3. ListenersAreLive'
    BY <1>6 DEF RemoveOwnPidfile, TypeOK, ListenersAreLive
  <2> QED BY <2>1, <2>2, <2>3
<1>7. CASE Exit(p)
  <2>1. TypeOK'
    BY <1>7, <1>0 DEF Exit, TypeOK, ProcStates
  <2>2. ArmedInv'
    BY <1>7, <1>0 DEF Exit, TypeOK, ArmedInv, Armed, Remembers
  <2>3. ListenersAreLive'
    BY <1>7, <1>0 DEF Exit, TypeOK, ListenersAreLive
  <2> QED BY <2>1, <2>2, <2>3
<1>8. CASE Crash(p)
  <2>1. TypeOK'
    BY <1>8, <1>0 DEF Crash, TypeOK, ProcStates, Released
  <2>2. ArmedInv'
    BY <1>8, <1>0 DEF Crash, TypeOK, ArmedInv, Armed, Remembers
  <2>3. ListenersAreLive'
    BY <1>8, <1>0 DEF Crash, TypeOK, ListenersAreLive, Released
  <2> QED BY <2>1, <2>2, <2>3
<1>9. CASE RunByHand(p)
  <2>1. TypeOK'
    BY <1>9 DEF RunByHand, TypeOK, ProcStates
  <2>2. ArmedInv'
    BY <1>9 DEF RunByHand, TypeOK, ArmedInv, Armed, Remembers
  <2>3. ListenersAreLive'
    BY <1>9 DEF RunByHand, TypeOK, ListenersAreLive
  <2> QED BY <2>1, <2>2, <2>3
<1>10. CASE Leave(p)
  <2>1. TypeOK'
    BY <1>10 DEF Leave, TypeOK, ProcStates
  <2>2. ArmedInv'
    BY <1>10 DEF Leave, TypeOK, ArmedInv, Armed, Remembers
  <2>3. ListenersAreLive'
    BY <1>10 DEF Leave, TypeOK, ListenersAreLive
  <2> QED BY <2>1, <2>2, <2>3
<1> QED
  BY <1>1, <1>2, <1>3, <1>4, <1>5, <1>6, <1>7, <1>8, <1>9, <1>10 DEF DaemonStep

(***************************************************************************)
(* A reboot leaves no command and no port, and no pid that was handed out  *)
(* becomes one that never was.                                             *)
(***************************************************************************)
LEMMA RebootKeepsInv ==
  ASSUME Inv, Reboot
  PROVE  Inv'
<1> USE DaemonAssumption DEF Inv
<1> PICK now \in {"gone", "foreign", "alien"} :
      proc' = [p \in Pids |-> IF proc[p] = "unborn" THEN "unborn"
                              ELSE IF p = pidfile THEN now ELSE "gone"]
  BY DEF Reboot
<1>1. \A p \in Pids : /\ proc'[p] \in {"unborn", "foreign", "alien", "gone"}
                       /\ proc[p] # "unborn" => proc'[p] # "unborn"
  OBVIOUS
<1>2. \A c \in Commands : cmd'[c] = Idle
  BY DEF Reboot
<1>3. TypeOK'
  BY <1>1 DEF Reboot, TypeOK, ProcStates, CmdState, CmdPcs, Callers, Outcomes, Idle
<1>4. ArmedInv'
  <2>1. Armed(pidfile)'
    BY <1>1 DEF Reboot, ArmedInv, Armed
  <2>2. \A c \in Commands : Remembers(cmd[c])'
    BY <1>2 DEF Remembers, Armed, Holding, Idle
  <2> QED BY <2>1, <2>2 DEF ArmedInv, Reboot
<1>5. ListenersAreLive'
  BY DEF Reboot, ListenersAreLive
<1> QED
  BY <1>3, <1>4, <1>5

(***************************************************************************)
(* The steps of a command.                                                 *)
(***************************************************************************)
LEMMA CommandKeepsInv ==
  ASSUME Inv, NEW c \in Commands,
         CommandStep(c) \/ \E op \in {"start", "stop", "status"} : Begin(c, op)
  PROVE  Inv'
<1> USE DaemonAssumption DEF Inv
<1>t. cmd[c] \in CmdState /\ Remembers(cmd[c]) /\ pidfile \in Pids \cup {NoPid}
  BY DEF TypeOK, ArmedInv
<1>p. Armed(pidfile)
  BY DEF ArmedInv
<1>r. ASSUME NEW s, Returned(s), Local(c, s) PROVE Inv'
  BY <1>r, LocalKeepsInv DEF Returned, Remembers, Armed
<1>h. ASSUME NEW s \in CmdState, s.seen = pidfile, pidfile # NoPid, Local(c, s) PROVE Inv'
  BY <1>h, <1>t, <1>p, LocalKeepsInv DEF Remembers
<1>f. ASSUME NEW s, Returned(s), pidfile' = NoPid, cmd' = [cmd EXCEPT ![c] = s],
             UNCHANGED daemonVars
      PROVE  Inv'
  BY <1>f, RemovalKeepsInv
<1>0. ASSUME NEW op \in {"start", "stop", "status"}, Begin(c, op) PROVE Inv'
  <2> DEFINE s == [cmd[c] EXCEPT !.op = op,
                                 !.pc = IF op = "stop" THEN "stopRead" ELSE "stRead",
                                 !.caller = op]
  <2>1. s \in CmdState /\ Remembers(s)
    BY <1>t DEF CmdState, CmdPcs, Callers, Remembers, Holding
  <2>2. Local(c, s)
    BY <1>0 DEF Begin
  <2> HIDE DEF s
  <2> QED BY <2>1, <2>2, LocalKeepsInv
<1>1. CASE Return(c)
  <2>1. TypeOK'
    BY <1>1 DEF Return, TypeOK, ProcStates, CmdState, CmdPcs, Callers, Outcomes, Idle
  <2>2. ArmedInv'
    BY <1>1 DEF Return, TypeOK, ArmedInv, Armed, Remembers, Holding, Idle
  <2>3. ListenersAreLive'
    BY <1>1 DEF Return, TypeOK, ListenersAreLive
  <2> QED BY <2>1, <2>2, <2>3
<1>2. CASE StatusRead(c)
  <2>1. CASE pidfile = NoPid
    <3> DEFINE s == [cmd[c] EXCEPT !.pc = "rmRead"]
    <3>1. s \in CmdState /\ Remembers(s)
      BY <1>t DEF CmdState, CmdPcs, Remembers, Holding
    <3>2. Local(c, s)
      BY <1>2, <2>1 DEF StatusRead
    <3> HIDE DEF s
    <3> QED BY <3>1, <3>2, LocalKeepsInv
  <2>2. CASE pidfile # NoPid
    <3> DEFINE s == [cmd[c] EXCEPT !.pc = "stExists", !.seen = pidfile]
    <3>1. s \in CmdState /\ s.seen = pidfile
      BY <1>t DEF CmdState, CmdPcs
    <3>2. Local(c, s)
      BY <1>2, <2>2 DEF StatusRead
    <3> HIDE DEF s
    <3> QED BY <1>h, <2>2, <3>1, <3>2
  <2> QED BY <2>1, <2>2
<1>3. CASE StatusExists(c)
  <2> DEFINE s == [cmd[c] EXCEPT !.pc = IF PidExists(cmd[c].seen) THEN "stHealth" ELSE "rmRead",
                                 !.seen = NoPid]
  <2>1. Returned(s)
    BY <1>t DEF Returned, CmdState, CmdPcs, Holding
  <2>2. Local(c, s)
    BY <1>3 DEF StatusExists
  <2> HIDE DEF s
  <2> QED BY <1>r, <2>1, <2>2
<1>4. CASE StatusHealth(c)
  <2> PICK r \in {"healthy", "unhealthy"} : Local(c, AfterStatus(c, r))
    BY <1>4 DEF StatusHealth
  <2> QED BY <1>r, CallsReturn
<1>5. CASE StaleRead(c)
  <2>1. CASE pidfile = NoPid
    BY <1>5, <1>r, <2>1, CallsReturn DEF StaleRead
  <2>2. CASE pidfile # NoPid
    <3> DEFINE s == [cmd[c] EXCEPT !.pc = "rmExists", !.seen = pidfile]
    <3>1. s \in CmdState /\ s.seen = pidfile
      BY <1>t DEF CmdState, CmdPcs
    <3>2. Local(c, s)
      BY <1>5, <2>2 DEF StaleRead
    <3> HIDE DEF s
    <3> QED BY <1>h, <2>2, <3>1, <3>2
  <2> QED BY <2>1, <2>2
<1>6. CASE StaleExists(c)
  <2> DEFINE s == [cmd[c] EXCEPT !.pc = "rmRemove", !.seen = NoPid]
  <2>1. Returned(s)
    BY <1>t DEF Returned, CmdState, CmdPcs, Holding
  <2>2. Local(c, s) \/ Local(c, AfterRemoveStale(c))
    BY <1>6 DEF StaleExists
  <2> HIDE DEF s
  <2> QED BY <1>r, <2>1, <2>2, CallsReturn
<1>7. CASE StaleRemove(c)
  BY <1>7, <1>f, CallsReturn DEF StaleRemove
<1>8. CASE Spawn(c)
  <2> PICK p \in Pids : /\ proc[p] = "unborn"
                        /\ proc' = [proc EXCEPT ![p] = "boot"]
                        /\ parent' = [parent EXCEPT ![p] = c]
    BY <1>8 DEF Spawn
  <2>1. Returned(Goto(c, "poll", "poll"))
    BY CallsReturn DEF CmdPcs, Callers, Holding
  <2>2. TypeOK'
    BY <1>8, <2>1 DEF Spawn, TypeOK, ProcStates, Returned
  <2>3. ArmedInv'
    BY <1>8, <2>1 DEF Spawn, TypeOK, ArmedInv, Armed, Remembers, Returned
  <2>4. ListenersAreLive'
    BY <1>8 DEF Spawn, TypeOK, ListenersAreLive
  <2> QED BY <2>2, <2>3, <2>4
<1>9. CASE SpawnFails(c)
  BY <1>9, <1>r, CallsReturn DEF SpawnFails, Outcomes
<1>10. CASE Poll(c)
  BY <1>10, <1>r, CallsReturn DEF Poll, CmdPcs, Callers, Holding
<1>11. CASE PollTimeout(c)
  BY <1>11, <1>r, CallsReturn DEF PollTimeout, Outcomes
<1>12. CASE StopRead(c)
  <2>1. CASE pidfile = NoPid
    BY <1>12, <1>r, <2>1, CallsReturn DEF StopRead, CmdPcs, Callers, Holding
  <2>2. CASE pidfile # NoPid
    <3> DEFINE s == [Goto(c, "stopKill", "stop") EXCEPT !.seen = pidfile]
    <3>1. s \in CmdState /\ s.seen = pidfile
      BY <1>t DEF CmdState, CmdPcs, Callers, Goto
    <3>2. Local(c, s)
      BY <1>12, <2>2 DEF StopRead
    <3> HIDE DEF s
    <3> QED BY <1>h, <2>2, <3>1, <3>2
  <2> QED BY <2>1, <2>2
<1>13. CASE StopKill(c)
  <2>1. CASE PidExists(cmd[c].seen)
    <3>1. cmd[c].seen \in Pids /\ Armed(cmd[c].seen)
      BY <1>13, <1>t DEF StopKill, Remembers, Holding
    <3> DEFINE s == [cmd[c] EXCEPT !.pc = "stopWait"]
    <3>s. s \in CmdState
      BY <1>t DEF CmdState, CmdPcs
    <3>c. /\ cmd' = [cmd EXCEPT ![c] = s]
          /\ term' = term \cup {cmd[c].seen}
          /\ UNCHANGED <<pidfile, proc, parent, tried, owner>>
      BY <1>13, <2>1 DEF StopKill
    <3>2. TypeOK'
      BY <3>1, <3>s, <3>c DEF TypeOK
    <3>3. ArmedInv'
      BY <1>13, <1>t, <2>1, <3>1
         DEF StopKill, TypeOK, CmdState, ArmedInv, Armed, Remembers, Holding
    <3>4. ListenersAreLive'
      BY <1>13, <2>1 DEF StopKill, TypeOK, ListenersAreLive
    <3> QED BY <3>2, <3>3, <3>4
  <2>2. CASE ~PidExists(cmd[c].seen)
    BY <1>13, <1>r, <2>2, CallsReturn DEF StopKill, KillFails, CmdPcs, Callers, Holding, Outcomes
  <2> QED BY <2>1, <2>2
<1>14. CASE StopWait(c)
  BY <1>14, <1>r, CallsReturn DEF StopWait, CmdPcs, Callers, Holding
<1>15. CASE StopRemove(c)
  BY <1>15, <1>f, CallsReturn DEF StopRemove
<1> QED
  BY <1>0, <1>1, <1>2, <1>3, <1>4, <1>5, <1>6, <1>7, <1>8, <1>9, <1>10, <1>11,
     <1>12, <1>13, <1>14, <1>15 DEF CommandStep

(***************************************************************************)
(* Inv is an invariant: every step is a process's or a command's.          *)
(***************************************************************************)
THEOREM InvHolds == Spec => []Inv
<1>1. Inv /\ [Next]_vars => Inv'
  <2> SUFFICES ASSUME Inv, [Next]_vars PROVE Inv'
    OBVIOUS
  <2>1. ASSUME NEW p \in Pids, DaemonStep(p) \/ Crash(p) \/ RunByHand(p) \/ Leave(p)
        PROVE  Inv'
    BY <2>1, ProcessKeepsInv
  <2>0. CASE Reboot
    BY <2>0, RebootKeepsInv
  <2>2. ASSUME NEW c \in Commands,
               CommandStep(c) \/ \E op \in {"start", "stop", "status"} : Begin(c, op)
        PROVE  Inv'
    BY <2>2, CommandKeepsInv
  <2>3. CASE UNCHANGED vars
    BY <2>3 DEF vars, Inv, TypeOK, ArmedInv, Armed, Remembers, ListenersAreLive
  <2> QED
    BY <2>0, <2>1, <2>2, <2>3 DEF Next
<1> QED
  BY <1>1, InitInv, PTL DEF Spec

(***************************************************************************)
(* The state of the pidfile, of the processes and of the commands is well  *)
(* typed.                                                                  *)
(***************************************************************************)
THEOREM TypeCorrect == Spec => []TypeOK
<1>1. Inv => TypeOK
  BY DEF Inv
<1> QED
  BY <1>1, InvHolds, PTL

(***************************************************************************)
(* No Stop signals a daemon before its signal context exists.              *)
(***************************************************************************)
THEOREM ArmedBeforeSignalled == Spec => []SignalsOnlyArmedDaemons
<1>1. Inv => SignalsOnlyArmedDaemons
  BY DEF Inv, TypeOK, ArmedInv, Armed, SignalsOnlyArmedDaemons
<1> QED
  BY <1>1, InvHolds, PTL

(***************************************************************************)
(* A port is only ever held by a daemon that bound it and has not closed   *)
(* that listener.                                                          *)
(***************************************************************************)
THEOREM NoDeadListener == Spec => []ListenersAreLive
<1>1. Inv => ListenersAreLive
  BY DEF Inv
<1> QED
  BY <1>1, InvHolds, PTL
-----------------------------------------------------------------------------
(* One command at a time, on a host that is not slow *)

Down == \A p \in Pids : ~Alive(p)

\* One daemon at most, which has the ports it has tried and, once it runs and
\* until it is asked to stop, the file.
OneDaemon ==
  /\ \A p, q \in Pids : Alive(p) /\ Alive(q) => p = q
  /\ \A p \in Pids : proc[p] \in {"unborn", "boot"} => tried[p] = {}
  /\ \A p \in Pids : proc[p] = "running" =>
       pidfile = p /\ \A t \in Ports : t \in tried[p] => owner[t] = p

RemovalPcs == {"rmRead", "rmExists", "rmRemove"}

\* A daemon boots only while its parent polls, and shuts down only while a stop
\* waits for it.
Attends(me) ==
  \A p \in Pids :
    /\ proc[p] = "boot" => me.caller = "poll"
    /\ Alive(p) /\ (p \in term \/ proc[p] \notin {"boot", "running"}) =>
         me.pc = "stopWait" /\ me.seen = p

\* Who calls whom.
Called(me) ==
  /\ me.pc \in {"stRead", "stExists", "stHealth"} => me.caller \in {"status", "start", "poll"}
  /\ me.pc \in RemovalPcs => me.caller # "none"
  /\ me.pc = "poll" => me.caller = "poll"
  /\ me.caller = "poll" => me.pc \in {"poll", "stRead", "stExists", "stHealth", "rmRead", "rmExists"}
  /\ me.op = "stop" => \/ me.pc \in {"stopRead", "stopKill", "stopWait", "stopRemove", "done"}
                       \/ me.pc \in RemovalPcs /\ me.caller = "stop"

\* What a command knows by the line it is at, when the pidfile holds `file`.
Knows(me, file) ==
  /\ me.pc \in RemovalPcs /\ me.caller # "poll" =>
       Down /\ (file \in Pids => ~PidExists(file))
  /\ me.pc \in RemovalPcs /\ me.caller = "fresh" => file = NoPid
  /\ me.pc = "spawn" => Down /\ file = NoPid
  /\ me.pc \in {"stExists", "rmExists", "stopKill"} /\ me.caller # "poll" => me.seen = file
  /\ me.pc = "stopWait" => \A p \in Pids : Alive(p) => p = me.seen
  /\ me.pc = "stopRemove" => Down
  /\ me.pc = "done" /\ (me.op = "stop" \/ me.outcome = "failed") => Down

\* The child of a start that polls is there, dead or alive, and alone.
Expects(c, seen, file) ==
  \E p \in Pids : /\ parent[p] = c
                  /\ proc[p] \notin {"unborn", "gone", "foreign", "alien"}
                  /\ \A q \in Pids : Alive(q) => q = p
                  /\ {seen, file} \subseteq {NoPid, p}

Fits(c, me, file) ==
  Attends(me) /\ Called(me) /\ Knows(me, file) /\ (me.caller = "poll" => Expects(c, me.seen, file))

SoleInv == Inv /\ OneDaemon /\ \A c \in Commands : Fits(c, cmd[c], pidfile)

LEMMA SoleHolds == SoleInv => ServingIsTracked /\ ReportsAreTrue
<1> SUFFICES ASSUME SoleInv
             PROVE  ServingIsTracked /\ ReportsAreTrue
  OBVIOUS
<1>1. ServingIsTracked
  BY DEF SoleInv, OneDaemon, ServingIsTracked, Serving
<1>2. ASSUME NEW c \in Commands, cmd[c].pc = "done"
      PROVE  /\ cmd[c].op = "stop" \/ cmd[c].outcome = "failed" => Down
             /\ owner["http"] \in {pidfile, NoPid}
  <2>1. cmd[c].op = "stop" \/ cmd[c].outcome = "failed" => Down
    BY <1>2 DEF SoleInv, Fits, Knows
  <2>2. ASSUME owner["http"] # NoPid
        PROVE  owner["http"] = pidfile
    <3> DEFINE p == owner["http"]
    <3>1. p \in Pids /\ "http" \in tried[p] /\ proc[p] \in {"running", "closing", "smtpClosed"}
      BY <2>2 DEF SoleInv, Inv, TypeOK, ListenersAreLive, Ports
    <3>2. Alive(p) => proc[p] \in {"boot", "running"}
      BY <1>2, <3>1 DEF SoleInv, Fits, Attends
    <3>3. proc[p] = "running"
      BY <3>1, <3>2 DEF Alive
    <3> QED
      BY <3>1, <3>3 DEF SoleInv, OneDaemon
  <2> QED
    BY <2>1, <2>2
<1>3. ReportsAreTrue
  BY <1>2 DEF ReportsAreTrue, Reported, Down, Serving, Alive
<1> QED
  BY <1>1, <1>3

LEMMA SoleInit == Init => SoleInv
<1> SUFFICES ASSUME Init
             PROVE  SoleInv
  OBVIOUS
<1>1. Inv
  BY InitInv
<1>2. \A p \in Pids : ~Alive(p) /\ proc[p] = "unborn" /\ tried[p] = {}
  BY DEF Init, Alive
<1>3. OneDaemon
  BY <1>2 DEF OneDaemon
<1>4. ASSUME NEW c \in Commands
      PROVE  Fits(c, cmd[c], pidfile)
  BY <1>2 DEF Init, Idle, Fits, Attends, Called, Knows, RemovalPcs
<1> QED
  BY <1>1, <1>3, <1>4 DEF SoleInv

Sole == \A c, d \in Commands : c = d

\* No process comes to life, and the file goes only while a stop waits.
LEMMA DwindlingKeepsSole ==
  ASSUME SoleInv, Inv', UNCHANGED <<parent, term, tried, cmd>>,
         \A q \in Pids : /\ Alive(q)' => Alive(q)
                         /\ PidExists(q)' => PidExists(q)
                         /\ proc'[q] \in {"unborn", "boot", "running"} => proc[q] = proc'[q]
                         /\ Alive(q)' /\ proc'[q] \notin {"boot", "running"} =>
                              q \in term \/ proc[q] \notin {"boot", "running"}
                         /\ proc'[q] \in {"gone", "foreign", "alien"}
                           /\ proc[q] \notin {"gone", "foreign", "alien"} =>
                              parent[q] \notin Commands
                         /\ \A t \in Ports : proc'[q] = "running" /\ owner[t] = q => owner'[t] = q,
         \/ pidfile' = pidfile
         \/ /\ pidfile' = NoPid
            /\ \A c \in Commands : cmd[c].pc = "stopWait"
            /\ \A q \in Pids : proc'[q] # "running"
  PROVE  SoleInv'
<1>1. OneDaemon'
  BY DEF SoleInv, OneDaemon
<1>2. Down => Down'
  BY DEF Down
<1>3. ASSUME NEW c \in Commands
      PROVE  Fits(c, cmd[c], pidfile)'
  <2>1. cmd'[c] = cmd[c] /\ Fits(c, cmd[c], pidfile)
    BY DEF SoleInv
  <2>2. Attends(cmd[c])'
    BY <2>1 DEF Fits, Attends, Alive
  <2>3. Called(cmd[c])'
    BY <2>1 DEF Fits, Called
  <2>4. Knows(cmd[c], pidfile)'
    BY <1>2, <2>1 DEF Fits, Knows, RemovalPcs
  <2>5. cmd[c].caller = "poll" => Expects(c, cmd[c].seen, pidfile)'
    BY <2>1 DEF Fits, Expects
  <2> QED
    BY <2>1, <2>2, <2>3, <2>4, <2>5 DEF Fits
<1> QED
  BY <1>1, <1>3 DEF SoleInv

\* A child that dies is a zombie while its parent runs.
LEMMA DiesAs == \A p \in Pids : DeadState(p) \in {"zombie", "gone"} /\ (DeadState(p) = "gone" => parent[p] \notin Commands)
BY DEF DeadState

LEMMA ShuttingIsAwaited ==
  ASSUME SoleInv, NEW p \in Pids, Alive(p), p \in term \/ proc[p] \notin {"boot", "running"}
  PROVE  \A c \in Commands : cmd[c].pc = "stopWait" /\ cmd[c].seen = p
BY DEF SoleInv, Fits, Attends

LEMMA WritePidKeepsSole ==
  ASSUME SoleInv, Inv', NEW p \in Pids, WritePid(p)
  PROVE  SoleInv'
<1>1. /\ proc[p] = "boot" /\ pidfile' = p /\ proc' = [proc EXCEPT ![p] = "running"]
      /\ UNCHANGED <<parent, term, tried, owner, cmd>> /\ proc \in [Pids -> ProcStates]
  BY DEF WritePid, SoleInv, Inv, TypeOK
<1>2. \A q \in Pids : Alive(q) => q = p
  BY <1>1 DEF SoleInv, OneDaemon, Alive
<1>3. proc'[p] = "running" /\ \A q \in Pids \ {p} : proc'[q] = proc[q] /\ ~Alive(q) /\ ~Alive(q)'
  BY <1>1, <1>2 DEF Alive
<1>4. OneDaemon'
  BY <1>1, <1>3 DEF SoleInv, OneDaemon, Alive
<1>5. p \notin term
  BY <1>1 DEF SoleInv, Inv, ArmedInv, Armed
<1>6. ASSUME NEW c \in Commands
      PROVE  Fits(c, cmd[c], pidfile)'
  <2>1. cmd'[c] = cmd[c] /\ Fits(c, cmd[c], pidfile) /\ cmd[c].caller = "poll"
    BY <1>1 DEF SoleInv, Fits, Attends
  <2>2. Attends(cmd[c])'
    BY <1>1, <1>3, <1>5, <2>1 DEF Attends, Alive
  <2>3. Called(cmd[c])'
    BY <2>1 DEF Fits, Called
  <2>4. Knows(cmd[c], pidfile)'
    BY <2>1 DEF Fits, Knows, Called, RemovalPcs
  <2>5. Expects(c, cmd[c].seen, pidfile)'
    <3>1. PICK q \in Pids : /\ parent[q] = c
                            /\ proc[q] \notin {"unborn", "gone", "foreign", "alien"}
                            /\ \A r \in Pids : Alive(r) => r = q
                            /\ cmd[c].seen \in {NoPid, q}
      BY <2>1 DEF Fits, Expects
    <3>2. q = p
      BY <1>1, <3>1 DEF Alive
    <3>3. /\ parent'[p] = c /\ proc'[p] \notin {"unborn", "gone", "foreign", "alien"}
          /\ \A r \in Pids : Alive(r)' => r = p
          /\ {cmd'[c].seen, pidfile'} \subseteq {NoPid, p}
      BY <1>1, <1>3, <2>1, <3>1, <3>2
    <3> QED
      BY <3>3 DEF Expects
  <2> QED
    BY <2>2, <2>3, <2>4, <2>5 DEF Fits
<1> QED
  BY <1>4, <1>6 DEF SoleInv

LEMMA BindKeepsSole ==
  ASSUME SoleInv, Inv', NEW p \in Pids, NEW t \in Ports, Bind(p, t)
  PROVE  SoleInv'
<1>1. /\ proc[p] = "running" /\ tried' = [tried EXCEPT ![p] = @ \cup {t}]
      /\ owner' = [owner EXCEPT ![t] = IF @ = NoPid THEN p ELSE @]
      /\ UNCHANGED <<pidfile, proc, parent, term, cmd>>
      /\ tried \in [Pids -> SUBSET Ports] /\ owner \in [Ports -> Pids \cup {NoPid}]
  BY DEF Bind, SoleInv, Inv, TypeOK
<1>2. \A q \in Pids : Alive(q) => q = p
  BY <1>1 DEF SoleInv, OneDaemon, Alive
<1>3. owner[t] \in {p, NoPid}
  <2>1. owner[t] # NoPid => Alive(owner[t])
    BY DEF SoleInv, Inv, ListenersAreLive, Alive, Ports
  <2> QED
    BY <1>1, <1>2, <2>1
<1>4. owner'[t] = p /\ \A u \in Ports \ {t} : owner'[u] = owner[u]
  BY <1>1, <1>3
<1>5. OneDaemon'
  <2>1. \A q, r \in Pids : Alive(q)' /\ Alive(r)' => q = r
    BY <1>1 DEF SoleInv, OneDaemon, Alive
  <2>2. \A q \in Pids : proc'[q] \in {"unborn", "boot"} => tried'[q] = {}
    BY <1>1 DEF SoleInv, OneDaemon
  <2>3. \A q \in Pids : proc'[q] = "running" => q = p /\ pidfile' = p
    BY <1>1, <1>2 DEF SoleInv, OneDaemon, Alive
  <2>4. \A u \in Ports : u \in tried'[p] => owner'[u] = p
    BY <1>1, <1>4 DEF SoleInv, OneDaemon
  <2> QED
    BY <2>1, <2>2, <2>3, <2>4 DEF OneDaemon
<1>6. \A c \in Commands : Fits(c, cmd[c], pidfile)'
  BY <1>1 DEF SoleInv, Fits, Attends, Called, Knows, Expects, Down, Alive, PidExists
<1> QED
  BY <1>5, <1>6 DEF SoleInv

LEMMA ProcessKeepsSole ==
  ASSUME SoleInv, NEW p \in Pids, DaemonStep(p) \/ Crash(p) \/ Leave(p)
  PROVE  SoleInv'
<1>1. Inv' /\ proc \in [Pids -> ProcStates]
  BY ProcessKeepsInv DEF SoleInv, Inv, TypeOK
<1>2. CASE LeaveSelect(p)
  <2>1. proc[p] = "running" /\ p \in term
    BY <1>2 DEF LeaveSelect, BindFailed, SoleInv, Inv, TypeOK, OneDaemon
  <2> QED
    BY <1>1, <1>2, <2>1, DwindlingKeepsSole DEF LeaveSelect, Alive, PidExists
<1>3. CASE ShutdownSmtp(p)
  BY <1>1, <1>3, DwindlingKeepsSole DEF ShutdownSmtp, Released, Alive, PidExists
<1>4. CASE ShutdownHttp(p)
  BY <1>1, <1>4, DwindlingKeepsSole DEF ShutdownHttp, Released, Alive, PidExists
<1>5. CASE RemoveOwnPidfile(p)
  <2>1. /\ Alive(p) /\ proc[p] = "httpClosed" /\ pidfile' = NoPid /\ proc' = [proc EXCEPT ![p] = "exiting"]
        /\ UNCHANGED <<parent, term, tried, owner, cmd>>
    BY <1>5 DEF RemoveOwnPidfile, Alive
  <2>2. \A c \in Commands : cmd[c].pc = "stopWait"
    BY <2>1, ShuttingIsAwaited
  <2>3. \A q \in Pids : proc'[q] # "running"
    BY <1>1, <2>1 DEF SoleInv, OneDaemon, Alive
  <2> QED
    BY <1>1, <2>1, <2>2, <2>3, DwindlingKeepsSole DEF Alive, PidExists
<1>6. CASE Exit(p)
  BY <1>1, <1>6, DiesAs, DwindlingKeepsSole DEF Exit, Alive, PidExists
<1>7. CASE Crash(p)
  BY <1>1, <1>7, DiesAs, DwindlingKeepsSole DEF Crash, Released, Alive, PidExists
<1>8. CASE Leave(p)
  BY <1>1, <1>8, DwindlingKeepsSole DEF Leave, Alive, PidExists
<1> QED
  BY <1>1, <1>2, <1>3, <1>4, <1>5, <1>6, <1>7, <1>8, WritePidKeepsSole, BindKeepsSole DEF DaemonStep

LEMMA RebootKeepsSole ==
  ASSUME SoleInv, Reboot
  PROVE  SoleInv'
<1>1. Inv'
  BY RebootKeepsInv DEF SoleInv
<1>2. \A p \in Pids : proc'[p] \in {"unborn", "foreign", "alien", "gone"} /\ (proc'[p] = "unborn" => proc[p] = "unborn")
  BY DEF Reboot
<1>3. /\ \A p \in Pids : ~Alive(p)' /\ proc'[p] \notin {"boot", "running"}
      /\ tried' = tried /\ \A c \in Commands : cmd'[c] = Idle
  BY <1>2 DEF Alive, Reboot
<1>4. OneDaemon'
  BY <1>2, <1>3 DEF SoleInv, OneDaemon
<1>5. \A c \in Commands : Fits(c, cmd[c], pidfile)'
  BY <1>3 DEF Fits, Attends, Called, Knows, RemovalPcs, Idle
<1> QED
  BY <1>1, <1>4, <1>5 DEF SoleInv

\* A command that only moves on, or removes the file of nobody.
LEMMA MoveKeepsSole ==
  ASSUME SoleInv, Inv', Sole, NEW c \in Commands, NEW s, cmd' = [cmd EXCEPT ![c] = s], UNCHANGED daemonVars,
         pidfile' = pidfile \/ Down, Fits(c, s, pidfile')
  PROVE  SoleInv'
<1>1. cmd'[c] = s /\ \A d \in Commands : d = c
  BY DEF Sole, SoleInv, Inv, TypeOK
<1>2. OneDaemon'
  BY DEF SoleInv, OneDaemon, daemonVars, Down, Alive
<1>3. Fits(c, cmd[c], pidfile)'
  BY <1>1 DEF Fits, Attends, Called, Knows, Expects, Down, Alive, PidExists, daemonVars
<1> QED
  BY <1>1, <1>2, <1>3 DEF SoleInv

\* With no start polling and no stop waiting, a daemon that is alive runs and
\* has the file.
LEMMA AliveIsNamed ==
  ASSUME SoleInv, NEW c \in Commands, cmd[c].caller # "poll", cmd[c].pc # "stopWait", NEW p \in Pids, Alive(p)
  PROVE  p = pidfile /\ proc[p] = "running" /\ p \notin term
BY DEF SoleInv, Fits, Attends, OneDaemon

\* Where a command goes on from a status that is the answer to a call.
LEMMA StatusFits ==
  ASSUME SoleInv, NEW c \in Commands, NEW r \in {"healthy", "unhealthy", "stopped"}, NEW file,
         cmd[c].pc \in {"stHealth", "rmRead", "rmExists", "rmRemove"}, cmd[c].caller \in {"status", "start", "poll"},
         file \in {pidfile, NoPid},
         r = "healthy" => \A p \in Pids : proc[p] # "boot",
         r = "stopped" /\ cmd[c].caller # "poll" => Down /\ file = NoPid
  PROVE  Fits(c, AfterStatus(c, r), file)
<1> DEFINE me == cmd[c]
<1>1. me \in CmdState /\ me.op # "stop" /\ Fits(c, me, pidfile) /\ me.pc # "stopWait"
  BY DEF SoleInv, Inv, TypeOK, Fits, Called, RemovalPcs
<1>2. Down => \A p \in Pids : proc[p] # "boot"
  BY DEF Down, Alive
<1>3. CASE me.caller = "status"
  <2> DEFINE s == Finish(c, r)
  <2>1. s.pc = "done" /\ s.caller = "none" /\ s.op = me.op /\ s.outcome = r
    BY <1>1 DEF Finish, CmdState
  <2>2. AfterStatus(c, r) = s
    BY <1>3 DEF AfterStatus
  <2> HIDE DEF s
  <2> QED
    BY <1>1, <1>3, <2>1, <2>2 DEF Fits, Attends, Called, Knows, RemovalPcs
<1>4. CASE me.caller = "start" /\ r = "healthy"
  <2> DEFINE s == Finish(c, "already")
  <2>1. s.pc = "done" /\ s.caller = "none" /\ s.op = me.op /\ s.outcome = "already"
    BY <1>1 DEF Finish, CmdState
  <2>2. AfterStatus(c, r) = s
    BY <1>4 DEF AfterStatus
  <2> HIDE DEF s
  <2> QED
    BY <1>1, <1>4, <2>1, <2>2 DEF Fits, Attends, Called, Knows, RemovalPcs
<1>5. CASE me.caller = "start" /\ r = "unhealthy"
  <2> DEFINE s == Goto(c, "stopRead", "stop")
  <2>1. s.pc = "stopRead" /\ s.caller = "stop" /\ s.op = me.op
    BY <1>1 DEF Goto, CmdState
  <2>2. AfterStatus(c, r) = s
    BY <1>5 DEF AfterStatus
  <2> HIDE DEF s
  <2> QED
    BY <1>1, <1>5, <2>1, <2>2 DEF Fits, Attends, Called, Knows, RemovalPcs
<1>6. CASE me.caller = "start" /\ r = "stopped"
  <2> DEFINE s == Goto(c, "rmRead", "fresh")
  <2>1. s.pc = "rmRead" /\ s.caller = "fresh" /\ s.op = me.op /\ s.seen = NoPid
    BY <1>1 DEF Goto, CmdState
  <2>2. AfterStatus(c, r) = s
    BY <1>6 DEF AfterStatus
  <2> HIDE DEF s
  <2> QED
    BY <1>1, <1>6, <2>1, <2>2, DaemonAssumption DEF Fits, Attends, Called, Knows, RemovalPcs
<1>7. CASE me.caller = "poll" /\ r = "healthy"
  <2> DEFINE s == Finish(c, "started")
  <2>1. s.pc = "done" /\ s.caller = "none" /\ s.op = me.op /\ s.outcome = "started"
    BY <1>1 DEF Finish, CmdState
  <2>2. AfterStatus(c, r) = s
    BY <1>7 DEF AfterStatus
  <2> HIDE DEF s
  <2> QED
    BY <1>1, <1>7, <2>1, <2>2 DEF Fits, Attends, Called, Knows, RemovalPcs
<1>8. CASE me.caller = "poll" /\ r # "healthy"
  <2> DEFINE s == Goto(c, "poll", "poll")
  <2>1. s.pc = "poll" /\ s.caller = "poll" /\ s.op = me.op /\ s.seen = NoPid
    BY <1>1 DEF Goto, CmdState
  <2>2. AfterStatus(c, r) = s
    BY <1>8 DEF AfterStatus
  <2>3. Expects(c, NoPid, file)
    BY <1>1, <1>8 DEF Fits, Expects
  <2> HIDE DEF s
  <2> QED
    BY <1>1, <1>8, <2>1, <2>2, <2>3 DEF Fits, Attends, Called, Knows, RemovalPcs
<1> QED
  BY <1>3, <1>4, <1>5, <1>6, <1>7, <1>8

LEMMA StopFits ==
  ASSUME SoleInv, NEW c \in Commands, NEW r, Down, NEW file
  PROVE  Fits(c, AfterStop(c, r), file)
<1> DEFINE me == cmd[c]
<1>1. me \in CmdState /\ \A p \in Pids : ~Alive(p) /\ proc[p] # "boot"
  BY DEF SoleInv, Inv, TypeOK, Down, Alive
<1>2. CASE me.op = "start"
  <2> DEFINE s == Goto(c, "stRead", "start")
  <2>1. s.pc = "stRead" /\ s.caller = "start" /\ s.op = "start" /\ AfterStop(c, r) = s
    BY <1>1, <1>2 DEF Goto, CmdState, AfterStop
  <2> HIDE DEF s
  <2> QED
    BY <1>1, <2>1 DEF Fits, Attends, Called, Knows, RemovalPcs
<1>3. CASE me.op # "start"
  <2> DEFINE s == Finish(c, r)
  <2>1. s.pc = "done" /\ s.caller = "none" /\ AfterStop(c, r) = s
    BY <1>1, <1>3 DEF Finish, CmdState, AfterStop
  <2> HIDE DEF s
  <2> QED
    BY <1>1, <2>1 DEF Fits, Attends, Called, Knows, RemovalPcs
<1> QED
  BY <1>2, <1>3

LEMMA RemovalFits ==
  ASSUME SoleInv, NEW c \in Commands, cmd[c].pc \in RemovalPcs, NEW file,
         file \in {pidfile, NoPid}, cmd[c].caller # "poll" => file = NoPid
  PROVE  Fits(c, AfterRemoveStale(c), file)
<1> DEFINE me == cmd[c]
<1>1. me \in CmdState /\ Fits(c, me, pidfile) /\ (me.caller # "poll" => Down)
  BY DEF SoleInv, Inv, TypeOK, Fits, Knows
<1>2. CASE me.caller = "fresh"
  <2> DEFINE s == Goto(c, "spawn", "none")
  <2>1. s.pc = "spawn" /\ s.caller = "none" /\ s.op = me.op /\ AfterRemoveStale(c) = s
    BY <1>1, <1>2 DEF Goto, CmdState, AfterRemoveStale
  <2>2. me.op # "stop" /\ file = NoPid /\ Down /\ \A p \in Pids : ~Alive(p) /\ proc[p] # "boot"
    BY <1>1, <1>2 DEF Fits, Called, RemovalPcs, Down, Alive
  <2> HIDE DEF s
  <2> QED
    BY <2>1, <2>2 DEF Fits, Attends, Called, Knows, RemovalPcs
<1>3. CASE me.caller = "stop"
  BY <1>1, <1>3, StopFits DEF AfterRemoveStale
<1>4. CASE me.caller \in {"status", "start", "poll"}
  BY <1>1, <1>4, StatusFits DEF AfterRemoveStale, RemovalPcs
<1>5. me.caller # "none"
  BY <1>1 DEF Fits, Called
<1> QED
  BY <1>1, <1>2, <1>3, <1>4, <1>5 DEF CmdState, Callers

\* The steps in which a command moves on, and removes the file or leaves it.
LEMMA MovesKeepSole ==
  ASSUME SoleInv, Inv', Sole, "slow" \notin Faults, NEW c \in Commands,
         \/ \E op \in {"start", "stop", "status"} : Begin(c, op)
         \/ StatusRead(c) \/ StatusExists(c) \/ StatusHealth(c)
         \/ StaleRead(c) \/ StaleExists(c) \/ StaleRemove(c)
         \/ SpawnFails(c) \/ Poll(c) \/ PollTimeout(c)
         \/ StopRead(c) \/ (StopKill(c) /\ ~PidExists(cmd[c].seen)) \/ StopWait(c) \/ StopRemove(c)
  PROVE  SoleInv'
<1> DEFINE me == cmd[c]
<1>1. /\ me \in CmdState /\ Fits(c, me, pidfile) /\ Inv /\ OneDaemon
      /\ pidfile \in Pids \cup {NoPid} /\ NoPid \notin Pids /\ (me.pc \in Holding => me.seen \in Pids)
  BY DaemonAssumption DEF SoleInv, Inv, TypeOK, ArmedInv, Remembers
<1>2. /\ Attends(me) /\ Called(me) /\ Knows(me, pidfile)
      /\ me.caller = "poll" => Expects(c, me.seen, pidfile)
  BY <1>1 DEF Fits
<1>3. ASSUME NEW s, Fits(c, s, pidfile), Local(c, s)
      PROVE  SoleInv'
  BY <1>3, MoveKeepsSole DEF Local
<1>4. ASSUME NEW s, Fits(c, s, NoPid), Down, pidfile' = NoPid, cmd' = [cmd EXCEPT ![c] = s], UNCHANGED daemonVars
      PROVE  SoleInv'
  BY <1>4, MoveKeepsSole
<1>5. ASSUME me.caller # "poll", me.pc # "stopWait"
      PROVE  /\ \A p \in Pids : Alive(p) => p = pidfile /\ proc[p] = "running" /\ p \notin term
             /\ \A p \in Pids : proc[p] # "boot"
             /\ pidfile = NoPid \/ ~PidExists(pidfile) => Down
  <2>1. \A p \in Pids : Alive(p) => p = pidfile /\ proc[p] = "running" /\ p \notin term
    BY <1>5, AliveIsNamed
  <2> QED
    BY <1>1, <2>1 DEF Alive, Down, PidExists
<1>6. ASSUME NEW s, me.caller # "poll", me.pc # "stopWait", s.caller # "poll"
      PROVE  Attends(s)
  BY <1>5, <1>6 DEF Attends, Alive
<1>7. ASSUME NEW s, me.caller = "poll", s.caller = "poll"
      PROVE  Attends(s)
  BY <1>2, <1>7 DEF Attends, Called
<1>8. ASSUME Down, NEW s
      PROVE  Attends(s)
  BY <1>8 DEF Attends, Down, Alive
<1>10. CASE \E op \in {"start", "stop", "status"} : Begin(c, op)
  <2>1. PICK op \in {"start", "stop", "status"} : Begin(c, op)
    BY <1>10
  <2> DEFINE s == [cmd[c] EXCEPT !.op = op, !.pc = IF op = "stop" THEN "stopRead" ELSE "stRead", !.caller = op]
  <2>2. /\ me.pc = "idle" /\ Local(c, s) /\ s.op = op /\ s.caller = op
        /\ s.pc = IF op = "stop" THEN "stopRead" ELSE "stRead"
    BY <1>1, <2>1 DEF Begin, CmdState
  <2> HIDE DEF s
  <2>3. me.caller # "poll" /\ s.caller # "poll"
    BY <1>2, <2>2 DEF Called
  <2>4. Called(s) /\ Knows(s, pidfile)
    BY <2>2 DEF Called, Knows, RemovalPcs
  <2> QED
    BY <1>3, <1>6, <2>2, <2>3, <2>4 DEF Fits
<1>11. CASE StatusRead(c)
  <2>1. me.pc = "stRead" /\ me.caller \in {"status", "start", "poll"} /\ me.op # "stop"
    BY <1>2, <1>11 DEF StatusRead, Called, RemovalPcs
  <2>2. CASE pidfile = NoPid
    <3> DEFINE s == [cmd[c] EXCEPT !.pc = "rmRead"]
    <3>1. Local(c, s) /\ s.pc = "rmRead" /\ s.caller = me.caller /\ s.op = me.op /\ s.seen = me.seen
      BY <1>1, <1>11, <2>2 DEF StatusRead, CmdState
    <3> HIDE DEF s
    <3>2. Called(s)
      BY <2>1, <3>1 DEF Called, RemovalPcs
    <3>3. Attends(s)
      BY <1>6, <1>7, <2>1, <3>1
    <3>4. Knows(s, pidfile)
      BY <1>1, <1>5, <2>1, <2>2, <3>1 DEF Knows, RemovalPcs
    <3> QED
      BY <1>2, <1>3, <3>1, <3>2, <3>3, <3>4 DEF Fits
  <2>3. CASE pidfile # NoPid
    <3> DEFINE s == [cmd[c] EXCEPT !.pc = "stExists", !.seen = pidfile]
    <3>1. Local(c, s) /\ s.pc = "stExists" /\ s.caller = me.caller /\ s.op = me.op /\ s.seen = pidfile
      BY <1>1, <1>11, <2>3 DEF StatusRead, CmdState
    <3> HIDE DEF s
    <3>2. Called(s) /\ Knows(s, pidfile)
      BY <2>1, <3>1 DEF Called, Knows, RemovalPcs
    <3>3. Attends(s)
      BY <1>6, <1>7, <2>1, <3>1
    <3>4. me.caller = "poll" => Expects(c, pidfile, pidfile)
      BY <1>2 DEF Expects
    <3> QED
      BY <1>3, <3>1, <3>2, <3>3, <3>4 DEF Fits
  <2> QED
    BY <2>2, <2>3
<1>12. CASE StatusExists(c)
  <2> DEFINE s == [cmd[c] EXCEPT !.pc = IF PidExists(cmd[c].seen) THEN "stHealth" ELSE "rmRead", !.seen = NoPid]
  <2>1. /\ me.pc = "stExists" /\ me.caller \in {"status", "start", "poll"} /\ me.op # "stop" /\ me.seen \in Pids
        /\ Local(c, s) /\ s.caller = me.caller /\ s.op = me.op /\ s.seen = NoPid
        /\ s.pc = IF PidExists(me.seen) THEN "stHealth" ELSE "rmRead"
    BY <1>1, <1>2, <1>12 DEF StatusExists, Called, RemovalPcs, CmdState, Holding
  <2> HIDE DEF s
  <2>2. Called(s)
    BY <2>1 DEF Called, RemovalPcs
  <2>3. Attends(s)
    BY <1>6, <1>7, <2>1
  <2>4. Knows(s, pidfile)
    <3>1. me.caller # "poll" => me.seen = pidfile
      BY <1>2, <2>1 DEF Knows
    <3> QED
      BY <1>5, <2>1, <3>1 DEF Knows, RemovalPcs
  <2>5. me.caller = "poll" => Expects(c, NoPid, pidfile)
    BY <1>2 DEF Expects
  <2> QED
    BY <1>3, <2>1, <2>2, <2>3, <2>4, <2>5 DEF Fits
<1>13. CASE StatusHealth(c)
  <2>1. me.pc = "stHealth" /\ me.caller \in {"status", "start", "poll"}
    BY <1>2, <1>13 DEF StatusHealth, Called
  <2>2. HTTPUp => \A p \in Pids : proc[p] # "boot"
    <3>1. ASSUME HTTPUp, NEW p \in Pids, proc[p] = "boot"
          PROVE  FALSE
      <4> DEFINE q == owner["http"]
      <4>1. q \in Pids /\ Alive(q) /\ proc[q] # "boot"
        BY <1>1, <3>1 DEF Inv, TypeOK, ListenersAreLive, HTTPUp, Ports, Alive
      <4> QED
        BY <1>1, <3>1, <4>1 DEF OneDaemon, Alive
    <3> QED
      BY <3>1
  <2>3. \A r \in {"healthy", "unhealthy"} : (r = "healthy" => HTTPUp) => Fits(c, AfterStatus(c, r), pidfile)
    BY <2>1, <2>2, StatusFits
  <2>4. PICK r \in {"healthy", "unhealthy"} : Local(c, AfterStatus(c, r)) /\ (r = "healthy" => HTTPUp)
    BY <1>13 DEF StatusHealth
  <2> QED
    BY <1>3, <2>3, <2>4
<1>14. CASE StaleRead(c)
  <2>1. me.pc = "rmRead" /\ me.pc \in RemovalPcs
    BY <1>14 DEF StaleRead, RemovalPcs
  <2>2. CASE pidfile = NoPid
    <3>1. Fits(c, AfterRemoveStale(c), pidfile) /\ Local(c, AfterRemoveStale(c))
      BY <1>14, <2>1, <2>2, RemovalFits DEF StaleRead
    <3> QED
      BY <1>3, <3>1
  <2>3. CASE pidfile # NoPid
    <3> DEFINE s == [cmd[c] EXCEPT !.pc = "rmExists", !.seen = pidfile]
    <3>1. Local(c, s) /\ s.pc = "rmExists" /\ s.caller = me.caller /\ s.op = me.op /\ s.seen = pidfile
      BY <1>1, <1>14, <2>3 DEF StaleRead, CmdState
    <3> HIDE DEF s
    <3>2. Called(s) /\ Knows(s, pidfile)
      BY <1>2, <2>1, <3>1 DEF Called, Knows, RemovalPcs
    <3>3. Attends(s)
      BY <1>6, <1>7, <2>1, <3>1
    <3>4. me.caller = "poll" => Expects(c, pidfile, pidfile)
      BY <1>2 DEF Expects
    <3> QED
      BY <1>3, <3>1, <3>2, <3>3, <3>4 DEF Fits
  <2> QED
    BY <2>2, <2>3
<1>15. CASE StaleExists(c)
  <2>1. me.pc = "rmExists" /\ me.pc \in RemovalPcs /\ me.seen \in Pids
    BY <1>1, <1>15 DEF StaleExists, RemovalPcs, Holding
  <2>2. CASE me.caller = "poll"
    <3>1. PICK p \in Pids : proc[p] \notin {"unborn", "gone", "alien"} /\ me.seen \in {NoPid, p}
      BY <1>2, <2>2 DEF Expects
    <3>2. PidExists(me.seen)
      BY <1>1, <2>1, <3>1 DEF PidExists
    <3>3. Fits(c, AfterRemoveStale(c), pidfile) /\ Local(c, AfterRemoveStale(c))
      BY <1>15, <2>1, <2>2, <3>2, RemovalFits DEF StaleExists
    <3> QED
      BY <1>3, <3>3
  <2>3. CASE me.caller # "poll"
    <3>1. Down /\ pidfile = me.seen /\ ~PidExists(me.seen)
      BY <1>1, <1>2, <2>1, <2>3 DEF Knows
    <3> DEFINE s == [cmd[c] EXCEPT !.pc = "rmRemove", !.seen = NoPid]
    <3>2. Local(c, s) /\ s.pc = "rmRemove" /\ s.caller = me.caller /\ s.op = me.op /\ s.seen = NoPid
      BY <1>1, <1>15, <3>1 DEF StaleExists, CmdState
    <3> HIDE DEF s
    <3>3. Called(s) /\ Knows(s, pidfile)
      BY <1>2, <2>1, <2>3, <3>1, <3>2 DEF Called, Knows, RemovalPcs
    <3>4. Attends(s)
      BY <1>8, <3>1
    <3> QED
      BY <1>3, <2>3, <3>2, <3>3, <3>4 DEF Fits
  <2> QED
    BY <2>2, <2>3
<1>16. CASE StaleRemove(c)
  <2>1. me.pc = "rmRemove" /\ me.pc \in RemovalPcs /\ me.caller # "poll"
    BY <1>2, <1>16 DEF StaleRemove, RemovalPcs, Called
  <2>2. Down /\ Fits(c, AfterRemoveStale(c), NoPid)
    BY <1>2, <2>1, RemovalFits DEF Knows
  <2> QED
    BY <1>4, <1>16, <2>2 DEF StaleRemove
<1>17. CASE SpawnFails(c)
  <2> DEFINE s == Finish(c, "spawnError")
  <2>1. /\ Local(c, s) /\ s.pc = "done" /\ s.caller = "none" /\ s.op = me.op /\ s.outcome = "spawnError"
        /\ me.pc = "spawn"
    BY <1>1, <1>17 DEF SpawnFails, Finish, CmdState
  <2> HIDE DEF s
  <2>2. Down /\ Called(s) /\ Knows(s, pidfile)
    BY <1>2, <2>1 DEF Called, Knows, RemovalPcs
  <2> QED
    BY <1>3, <1>8, <2>1, <2>2 DEF Fits
<1>18. CASE Poll(c)
  <2> DEFINE s == Goto(c, "stRead", "poll")
  <2>1. /\ Local(c, s) /\ s.pc = "stRead" /\ s.caller = "poll" /\ s.op = me.op /\ s.seen = NoPid
        /\ me.pc = "poll"
    BY <1>1, <1>18 DEF Poll, Goto, CmdState
  <2> HIDE DEF s
  <2>2. me.caller = "poll" /\ me.op # "stop"
    BY <1>2, <2>1 DEF Called, RemovalPcs
  <2>3. Called(s) /\ Knows(s, pidfile) /\ Attends(s)
    BY <1>7, <2>1, <2>2 DEF Called, Knows, RemovalPcs
  <2>4. Expects(c, NoPid, pidfile)
    BY <1>2, <2>2 DEF Expects
  <2> QED
    BY <1>3, <2>1, <2>3, <2>4 DEF Fits
<1>19. CASE PollTimeout(c)
  <2> DEFINE s == Finish(c, "failed")
  <2>1. /\ Local(c, s) /\ s.pc = "done" /\ s.caller = "none" /\ s.op = me.op /\ me.pc = "poll"
        /\ ~Promising(c)
    BY <1>1, <1>19 DEF PollTimeout, Finish, CmdState
  <2> HIDE DEF s
  <2>2. me.caller = "poll"
    BY <1>2, <2>1 DEF Called
  <2>3. PICK p \in Pids : parent[p] = c /\ \A q \in Pids : Alive(q) => q = p
    BY <1>2, <2>2 DEF Expects
  <2>4. Down
    <3>1. ASSUME Alive(p)
          PROVE  FALSE
      <4>1. proc[p] \in {"boot", "running"}
        BY <1>2, <2>1, <3>1 DEF Attends
      <4>2. proc[p] = "running" /\ tried[p] = Ports
        BY <2>1, <2>3, <4>1 DEF Promising
      <4>3. pidfile = p /\ owner["http"] = p
        BY <1>1, <4>2 DEF OneDaemon, Ports
      <4> QED
        BY <1>1, <2>1, <4>2, <4>3 DEF Promising, PidExists, HTTPUp
    <3> QED
      BY <2>3, <3>1 DEF Down
  <2>5. Called(s) /\ Knows(s, pidfile)
    BY <2>1, <2>4 DEF Called, Knows, RemovalPcs
  <2> QED
    BY <1>3, <1>8, <2>1, <2>4, <2>5 DEF Fits
<1>20. CASE StopRead(c)
  <2>1. me.pc = "stopRead" /\ me.caller # "poll"
    BY <1>2, <1>20 DEF StopRead, Called
  <2>2. CASE pidfile = NoPid
    <3> DEFINE s == Goto(c, "rmRead", "stop")
    <3>1. Local(c, s) /\ s.pc = "rmRead" /\ s.caller = "stop" /\ s.op = me.op /\ s.seen = NoPid
      BY <1>1, <1>20, <2>2 DEF StopRead, Goto, CmdState
    <3> HIDE DEF s
    <3>2. Down
      BY <1>5, <2>1, <2>2
    <3>3. Called(s) /\ Knows(s, pidfile)
      BY <1>1, <2>2, <3>1, <3>2 DEF Called, Knows, RemovalPcs
    <3> QED
      BY <1>3, <1>8, <3>1, <3>2, <3>3 DEF Fits
  <2>3. CASE pidfile # NoPid
    <3> DEFINE s == [Goto(c, "stopKill", "stop") EXCEPT !.seen = pidfile]
    <3>1. Local(c, s) /\ s.pc = "stopKill" /\ s.caller = "stop" /\ s.op = me.op /\ s.seen = pidfile
      BY <1>1, <1>20, <2>3 DEF StopRead, Goto, CmdState
    <3> HIDE DEF s
    <3>2. Called(s) /\ Knows(s, pidfile)
      BY <3>1 DEF Called, Knows, RemovalPcs
    <3>3. Attends(s)
      BY <1>6, <2>1, <3>1
    <3> QED
      BY <1>3, <3>1, <3>2, <3>3 DEF Fits
  <2> QED
    BY <2>2, <2>3
<1>21. CASE StopKill(c) /\ ~PidExists(cmd[c].seen)
  <2> DEFINE s == KillFails(c)
  <2>1. /\ Local(c, s) /\ s.op = me.op /\ s.seen = NoPid /\ me.pc = "stopKill"
        /\ (s.pc = "rmRead" /\ s.caller = "stop") \/ (s.pc = "done" /\ s.caller = "none")
    BY <1>1, <1>21 DEF StopKill, KillFails, Goto, Finish, CmdState
  <2> HIDE DEF s
  <2>2. me.caller # "poll" /\ me.seen = pidfile
    BY <1>2, <2>1 DEF Called, Knows
  <2>3. Down
    BY <1>5, <1>21, <2>1, <2>2
  <2>4. Called(s) /\ Knows(s, pidfile)
    BY <1>1, <1>21, <2>1, <2>2, <2>3 DEF Called, Knows, RemovalPcs
  <2> QED
    BY <1>3, <1>8, <2>1, <2>3, <2>4 DEF Fits
<1>22. CASE StopWait(c)
  <2> DEFINE s == Goto(c, "stopRemove", "stop")
  <2>1. /\ Local(c, s) /\ s.pc = "stopRemove" /\ s.caller = "stop" /\ s.op = me.op
        /\ me.pc = "stopWait" /\ (~PidExists(me.seen) \/ proc[me.seen] \in {"zombie", "foreign"})
    BY <1>1, <1>22 DEF StopWait, Goto, CmdState
  <2> HIDE DEF s
  <2>2. Down
    BY <1>2, <2>1 DEF Knows, Down, Alive, PidExists
  <2>3. Called(s) /\ Knows(s, pidfile)
    BY <2>1, <2>2 DEF Called, Knows, RemovalPcs
  <2> QED
    BY <1>3, <1>8, <2>1, <2>2, <2>3 DEF Fits
<1>23. CASE StopRemove(c)
  <2>1. Down /\ Fits(c, AfterStop(c, "stopped"), NoPid)
    BY <1>2, <1>23, StopFits DEF StopRemove, Knows
  <2> QED
    BY <1>4, <1>23, <2>1 DEF StopRemove
<1> QED
  BY <1>10, <1>11, <1>12, <1>13, <1>14, <1>15, <1>16, <1>17, <1>18, <1>19, <1>20, <1>21, <1>22, <1>23

LEMMA SpawnKeepsSole ==
  ASSUME SoleInv, Inv', Sole, NEW c \in Commands, Spawn(c)
  PROVE  SoleInv'
<1> DEFINE s == Goto(c, "poll", "poll")
<1>1. PICK p \in Pids : /\ proc[p] = "unborn" /\ proc' = [proc EXCEPT ![p] = "boot"]
                        /\ parent' = [parent EXCEPT ![p] = c]
  BY DEF Spawn
<1>2. /\ cmd' = [cmd EXCEPT ![c] = s] /\ UNCHANGED <<pidfile, term, tried, owner>>
      /\ cmd[c].pc = "spawn" /\ cmd[c] \in CmdState
      /\ s.pc = "poll" /\ s.caller = "poll" /\ s.op = cmd[c].op /\ s.seen = NoPid
  BY DEF Spawn, Goto, CmdState, SoleInv, Inv, TypeOK
<1> HIDE DEF s
<1>3. cmd'[c] = s /\ \A d \in Commands : d = c
  BY <1>2 DEF Sole, SoleInv, Inv, TypeOK
<1>4. Down /\ pidfile = NoPid /\ cmd[c].op # "stop"
  BY <1>2 DEF SoleInv, Fits, Knows, Called, RemovalPcs
<1>5. /\ proc'[p] = "boot" /\ parent'[p] = c /\ p \notin term
      /\ \A q \in Pids \ {p} : proc'[q] = proc[q] /\ ~Alive(q)'
  BY <1>1, <1>4 DEF SoleInv, Inv, TypeOK, ArmedInv, Armed, Down, Alive
<1>6. OneDaemon'
  BY <1>1, <1>2, <1>5 DEF SoleInv, OneDaemon, Alive
<1>7. Fits(c, cmd[c], pidfile)'
  <2>1. Attends(cmd[c])'
    BY <1>2, <1>3, <1>5 DEF Attends, Alive
  <2>2. Called(cmd[c])' /\ Knows(cmd[c], pidfile)'
    BY <1>2, <1>3, <1>4 DEF Called, Knows, RemovalPcs
  <2>3. Expects(c, cmd[c].seen, pidfile)'
    <3>1. /\ parent'[p] = c /\ proc'[p] \notin {"unborn", "gone", "foreign", "alien"}
          /\ \A q \in Pids : Alive(q)' => q = p
          /\ {cmd'[c].seen, pidfile'} \subseteq {NoPid, p}
      BY <1>2, <1>3, <1>4, <1>5
    <3> QED
      BY <3>1 DEF Expects
  <2> QED
    BY <2>1, <2>2, <2>3 DEF Fits
<1> QED
  BY <1>3, <1>6, <1>7 DEF SoleInv

LEMMA KillKeepsSole ==
  ASSUME SoleInv, Inv', Sole, NEW c \in Commands, StopKill(c), PidExists(cmd[c].seen)
  PROVE  SoleInv'
<1> DEFINE s == [cmd[c] EXCEPT !.pc = "stopWait"]
           p == cmd[c].seen
<1>1. /\ cmd' = [cmd EXCEPT ![c] = s] /\ term' = term \cup {p}
      /\ UNCHANGED <<pidfile, proc, parent, tried, owner>>
      /\ cmd[c].pc = "stopKill" /\ cmd[c] \in CmdState
      /\ s.pc = "stopWait" /\ s.caller = cmd[c].caller /\ s.op = cmd[c].op /\ s.seen = p
  BY DEF StopKill, CmdState, SoleInv, Inv, TypeOK
<1> HIDE DEF s
<1>2. cmd'[c] = s /\ \A d \in Commands : d = c
  BY <1>1 DEF Sole, SoleInv, Inv, TypeOK
<1>3. cmd[c].caller # "poll" /\ p = pidfile
  BY <1>1 DEF SoleInv, Fits, Called, Knows
<1>4. \A q \in Pids : Alive(q) => q = p /\ proc[q] = "running" /\ q \notin term
  BY <1>1, <1>3, AliveIsNamed
<1>5. OneDaemon'
  BY <1>1 DEF SoleInv, OneDaemon, Alive
<1>6. Fits(c, cmd[c], pidfile)'
  <2>1. Attends(cmd[c])'
    BY <1>1, <1>2, <1>4 DEF Attends, Alive
  <2>2. Called(cmd[c])' /\ Knows(cmd[c], pidfile)'
    BY <1>1, <1>2, <1>3, <1>4 DEF Called, Knows, RemovalPcs, Alive
  <2> QED
    BY <1>1, <1>2, <1>3, <2>1, <2>2 DEF Fits
<1> QED
  BY <1>2, <1>5, <1>6 DEF SoleInv

LEMMA ReturnKeepsSole ==
  ASSUME SoleInv, Inv', Sole, NEW c \in Commands, Return(c)
  PROVE  SoleInv'
<1>1. /\ cmd' = [cmd EXCEPT ![c] = Idle] /\ UNCHANGED <<pidfile, term, tried, owner>>
      /\ proc' = [p \in Pids |-> IF proc[p] = "zombie" /\ parent[p] = c THEN "gone" ELSE proc[p]]
      /\ cmd[c].pc = "done"
  BY DEF Return
<1>2. cmd'[c] = Idle /\ \A d \in Commands : d = c
  BY <1>1 DEF Sole, SoleInv, Inv, TypeOK
<1>3. \A p \in Pids : /\ Alive(p)' <=> Alive(p)
                      /\ Alive(p) => proc'[p] = proc[p]
                      /\ proc'[p] \in {"unborn", "boot", "running"} => proc[p] = proc'[p]
  BY <1>1 DEF Alive
<1>4. OneDaemon'
  BY <1>1, <1>3 DEF SoleInv, OneDaemon
<1>5. cmd[c].caller # "poll"
  BY <1>1 DEF SoleInv, Fits, Called
<1>6. \A p \in Pids : Alive(p) => proc[p] = "running" /\ p \notin term
  BY <1>1, <1>5, AliveIsNamed
<1>7. Fits(c, cmd[c], pidfile)'
  <2>1. Attends(cmd[c])'
    BY <1>1, <1>3, <1>6 DEF Attends, Alive
  <2> QED
    BY <1>2, <2>1 DEF Fits, Called, Knows, RemovalPcs, Idle
<1> QED
  BY <1>2, <1>4, <1>7 DEF SoleInv

LEMMA SoleStep ==
  ASSUME SoleInv, [Next]_vars, Sole, Faults \cap {"slow", "foreground"} = {}
  PROVE  SoleInv'
<1>1. ASSUME NEW c \in Commands, CommandStep(c) \/ \E op \in {"start", "stop", "status"} : Begin(c, op)
      PROVE  SoleInv'
  <2>1. Inv'
    BY <1>1, CommandKeepsInv DEF SoleInv
  <2> QED
    BY <1>1, <2>1, MovesKeepSole, SpawnKeepsSole, KillKeepsSole, ReturnKeepsSole DEF CommandStep
<1>2. ASSUME NEW p \in Pids, DaemonStep(p) \/ Crash(p) \/ RunByHand(p) \/ Leave(p)
      PROVE  SoleInv'
  <2>1. ~RunByHand(p)
    BY DEF RunByHand
  <2> QED
    BY <1>2, <2>1, ProcessKeepsSole
<1>3. CASE Reboot
  BY <1>3, RebootKeepsSole
<1>4. CASE UNCHANGED vars
  <2>1. Inv'
    BY <1>4 DEF SoleInv, Inv, TypeOK, ArmedInv, Armed, Remembers, ListenersAreLive, vars
  <2>2. OneDaemon' /\ \A c \in Commands : Fits(c, cmd[c], pidfile)'
    BY <1>4 DEF SoleInv, OneDaemon, Fits, Attends, Called, Knows, Expects, Down, Alive, PidExists, vars
  <2> QED
    BY <2>1, <2>2 DEF SoleInv
<1> QED
  BY <1>1, <1>2, <1>3, <1>4 DEF Next

(***************************************************************************)
(* Any number of commands, one at a time, on a host that is not slow: the  *)
(* daemon that serves both ports is the one the pidfile names, whatever    *)
(* crashes and whenever the host reboots, even when a pid in the file is   *)
(* then that of another program.                                           *)
(***************************************************************************)
THEOREM ServingStaysTracked ==
  ASSUME Sole, Faults \cap {"slow", "foreground"} = {}
  PROVE  Spec => []ServingIsTracked
<1>1. SoleInv /\ [Next]_vars => SoleInv'
  BY SoleStep
<1>2. SoleInv => ServingIsTracked
  BY SoleHolds
<1> QED
  BY <1>1, <1>2, SoleInit, PTL DEF Spec

(***************************************************************************)
(* Under the same assumptions, what the commands report is true: no daemon *)
(* is left after a stop, the one a start reports answers and is in the     *)
(* pidfile, and none serves when a start has failed.                       *)
(***************************************************************************)
THEOREM DaemonReportsAreTrue ==
  ASSUME Sole, Faults \cap {"slow", "foreground"} = {}
  PROVE  Spec => []ReportsAreTrue
<1>1. SoleInv /\ [Next]_vars => SoleInv'
  BY SoleStep
<1>2. SoleInv => ReportsAreTrue
  BY SoleHolds
<1> QED
  BY <1>1, <1>2, SoleInit, PTL DEF Spec

=============================================================================
