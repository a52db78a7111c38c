------------------------- MODULE PhpRuntimesProofs -------------------------
(***************************************************************************)
(* Proofs about PhpRuntimes, for any commands, releases and branches, and  *)
(* any number of mishaps.                                                  *)
(***************************************************************************)
EXTENDS PhpRuntimes, TLAPS

(* Types *)

\* What a lookup returns is in the list it was given.
LEMMA FindTyped ==
  ASSUME NEW set, NEW request
  PROVE  Find(set, request) \in set \cup {None}
<1>1. \A v \in Firsts(set, request) : v \in set
  BY DEF Firsts
<1>2. CASE Firsts(set, request) = {}
  BY <1>2 DEF Find
<1>3. CASE Firsts(set, request) # {}
  <2>1. (CHOOSE v \in Firsts(set, request) : TRUE) \in Firsts(set, request)
    BY <1>3
  <2> QED
    BY <1>1, <1>3, <2>1 DEF Find
<1> QED
  BY <1>2, <1>3

LEMMA IdleTyped == Idle \in CmdState
BY DEF Idle, CmdState, Pcs

LEMMA InitTypeOK == Init => TypeOK
BY IdleTyped, PhpAssumption DEF Init, TypeOK, PrefixStates

\* What a line knows of its command; an installation has its version after
\* "resolve".
Installing == {"look", "make", "install", "binaries", "others", "render", "validate", "record"}

Ready(me) ==
  /\ me.pc \in Installing => me.op = "install" /\ me.version \in Versions
  /\ me.pc = "resolve" => me.op = "install"
  /\ me.pc \in {"fetch", "replace"} => me.op = "sync"

\* Lines that are entered by Begin and FetchPage alone.
Entries == {"resolve", "fetch", "replace"}

Typed == TypeOK /\ \A c \in Commands : Ready(cmd[c])

\* The command c, and no other, gets a new local state.
Moves(c) == \E s \in CmdState : Ready(s) /\ cmd' = [cmd EXCEPT ![c] = s]

LEMMA MovesTyped ==
  ASSUME Typed, NEW c \in Commands
  PROVE  /\ Return(c) => Moves(c)
         /\ \A pc \in Pcs \ Entries : Goto(c, pc) /\ cmd[c].pc \in Installing => Moves(c)
         /\ Moves(c) => /\ cmd' \in [Commands -> CmdState]
                        /\ \A d \in Commands : Ready(cmd'[d])
<1>1. cmd[c] \in CmdState /\ Ready(cmd[c])
  BY DEF Typed, TypeOK
<1>2. Return(c) => Moves(c)
  BY IdleTyped DEF Return, Moves, Ready, Idle, Installing
<1>3. ASSUME NEW pc \in Pcs \ Entries, Goto(c, pc), cmd[c].pc \in Installing
      PROVE  Moves(c)
  <2>1. cmd' = [cmd EXCEPT ![c] = [cmd[c] EXCEPT !.pc = pc]]
    BY <1>3 DEF Goto, Typed, TypeOK
  <2>2. [cmd[c] EXCEPT !.pc = pc] \in CmdState /\ Ready([cmd[c] EXCEPT !.pc = pc])
    BY <1>1, <1>3 DEF CmdState, Ready, Entries
  <2> QED
    BY <2>1, <2>2 DEF Moves
<1>4. Moves(c) => cmd' \in [Commands -> CmdState] /\ \A d \in Commands : Ready(cmd'[d])
  BY DEF Moves, Typed, TypeOK
<1> QED
  BY <1>2, <1>3, <1>4

LEMMA MishapTyped == TypeOK /\ (Mishap \/ UNCHANGED mishaps) => mishaps' \in 0..MaxMishaps
BY PhpAssumption DEF TypeOK, Mishap

\* Each action moves its command to a typed state.
LEMMA StepMoves ==
  ASSUME Typed, NEW c \in Commands, Step(c)
  PROVE  Moves(c)
<1> cmd[c] \in CmdState /\ Ready(cmd[c]) /\ cmd \in [Commands -> CmdState]
  BY DEF Typed, TypeOK
<1>1. CASE Begin(c)
  <2>1. PICK op \in {"install", "global", "use", "sync"}, q \in Requests, force \in BOOLEAN :
          cmd' = [cmd EXCEPT ![c] = [Idle EXCEPT !.op = op, !.request = q, !.force = force,
            !.pc = CASE op = "install" -> "resolve" [] op = "sync" -> "fetch" [] OTHER -> "choose"]]
    BY <1>1 DEF Begin
  <2> DEFINE s == [Idle EXCEPT !.op = op, !.request = q, !.force = force,
        !.pc = CASE op = "install" -> "resolve" [] op = "sync" -> "fetch" [] OTHER -> "choose"]
  <2>2. s \in CmdState
    BY IdleTyped DEF CmdState, Pcs
  <2>3. Ready(s)
    BY DEF Ready, Idle, Installing
  <2> QED
    BY <2>1, <2>2, <2>3 DEF Moves
<1>2. CASE Resolve(c)
  <2>1. CASE Find(Versions, cmd[c].request) = None
    BY <1>2, <2>1, MovesTyped DEF Resolve
  <2>2. CASE Find(Versions, cmd[c].request) # None
    <3> DEFINE v == Find(Versions, cmd[c].request)
    <3>1. v \in Versions
      BY <2>2, FindTyped
    <3>2. cmd[c].op = "install"
      BY <1>2 DEF Resolve, At, Ready
    <3> QED
      BY <1>2, <2>2, <3>1, <3>2 DEF Resolve, Moves, Ready, CmdState, Pcs
  <2> QED
    BY <2>1, <2>2
<1>3. CASE Fail(c) \/ Record(c) \/ Choose(c) \/ ReplaceEOL(c)
  BY <1>3, MovesTyped DEF Fail, Record, Choose, ReplaceEOL
<1>4. CASE Look(c) \/ Make(c) \/ InstallBinaries(c) \/ InstallOthers(c) \/ EndInstall(c) \/ RenderConfig(c)
  BY <1>4, MovesTyped DEF Look, Make, InstallBinaries, InstallOthers, EndInstall, RenderConfig, At, Pcs, Installing,
     Entries
<1>5. CASE Validate(c)
  BY <1>5, MovesTyped DEF Validate, At, Pcs, Installing, Entries
<1>6. CASE FetchPage(c)
  <2>1. PICK page \in {site} \cup (IF "redesign" \in Faults THEN {{}} ELSE {}) :
          cmd' = [cmd EXCEPT ![c].page = page, ![c].pc = "replace"]
    BY <1>6 DEF FetchPage
  <2>2. page \in SUBSET Branches
    BY <2>1 DEF Typed, TypeOK
  <2>3. [cmd[c] EXCEPT !.page = page, !.pc = "replace"] \in CmdState
    BY <2>2 DEF CmdState, Pcs
  <2>4. Ready([cmd[c] EXCEPT !.page = page, !.pc = "replace"])
    BY <1>6 DEF FetchPage, At, Ready, Installing, CmdState
  <2> QED
    BY <2>1, <2>3, <2>4 DEF Moves
<1> QED
  BY <1>1, <1>2, <1>3, <1>4, <1>5, <1>6 DEF Step

LEMMA TypeStep == Typed /\ [Next]_vars => Typed'
<1> SUFFICES ASSUME Typed, [Next]_vars PROVE Typed'
  OBVIOUS
<1>1. ASSUME NEW c \in Commands, Step(c) PROVE Typed'
  <2>1. cmd' \in [Commands -> CmdState] /\ \A d \in Commands : Ready(cmd'[d])
    BY <1>1, StepMoves, MovesTyped
  <2>2. cmd[c] \in CmdState /\ Ready(cmd[c])
    BY DEF Typed, TypeOK
  <2>3. prefix' \in [Versions -> PrefixStates]
    <3> DEFINE v == cmd[c].version
    <3>1. CASE InstallBinaries(c) \/ InstallOthers(c) \/ EndInstall(c) \/ RenderConfig(c)
      <4>1. \E s \in PrefixStates : prefix' = [prefix EXCEPT ![v] = s]
        <5>1. v \in Versions /\ prefix[v] \in PrefixStates
          BY <2>2, <3>1 DEF InstallBinaries, InstallOthers, EndInstall, RenderConfig, Typed, TypeOK,
             Ready, At, Installing
        <5>2. /\ \A made \in {"torn", "good", "poor"} : [prefix[v] EXCEPT !.bin = made] \in PrefixStates
              /\ \A made \in {"good", "poor"} : [prefix[v] EXCEPT !.bin = made, !.rest = "torn"] \in PrefixStates
              /\ [prefix[v] EXCEPT !.rest = "whole"] \in PrefixStates
              /\ [prefix[v] EXCEPT !.conf = TRUE] \in PrefixStates
          BY <5>1 DEF PrefixStates
        <5>3. CASE InstallBinaries(c)
          BY <5>2, <5>3 DEF InstallBinaries
        <5>4. CASE InstallOthers(c)
          <6>1. PICK made \in {"good", "poor"} :
                  prefix' = [prefix EXCEPT ![v] = [prefix[v] EXCEPT !.bin = made, !.rest = "torn"]]
            BY <5>1, <5>4 DEF InstallOthers, Typed, TypeOK
          <6> QED
            BY <5>2, <6>1
        <5>5. CASE EndInstall(c) \/ RenderConfig(c)
          BY <5>2, <5>5 DEF EndInstall, RenderConfig
        <5> QED
          BY <3>1, <5>3, <5>4, <5>5
      <4> QED
        BY <4>1 DEF Typed, TypeOK
    <3>2. CASE UNCHANGED prefix
      BY <3>2 DEF Typed, TypeOK
    <3> QED
      BY <1>1, <3>1, <3>2 DEF Step, Begin, Fail, Resolve, Look, Make, Validate, Record, Choose,
         FetchPage, ReplaceEOL
  <2>4. /\ rows' \subseteq Versions
        /\ chosen' \in [{"global", "pin"} -> rows' \cup {None}]
    <3>1. CASE Record(c)
      BY <2>2, <3>1 DEF Record, Typed, TypeOK, Ready, At, Installing
    <3>2. CASE Choose(c)
      BY <3>2, FindTyped DEF Choose, Typed, TypeOK
    <3>3. CASE UNCHANGED <<rows, chosen>>
      BY <3>3 DEF Typed, TypeOK
    <3> QED
      BY <1>1, <3>1, <3>2, <3>3 DEF Step, Begin, Fail, Resolve, Look, Make, InstallBinaries,
         InstallOthers, EndInstall, RenderConfig, Validate, FetchPage, ReplaceEOL
  <2>5. site' \subseteq Branches /\ eol' \subseteq Branches
    <3>1. cmd[c].page \subseteq Branches
      BY <2>2 DEF CmdState
    <3> QED
      BY <1>1, <3>1 DEF Step, Begin, Fail, Resolve, Look, Make, InstallBinaries, InstallOthers,
         EndInstall, RenderConfig, Validate, Record, Choose, FetchPage, ReplaceEOL, Typed, TypeOK
  <2>6. spoiled' \subseteq Versions
    BY <1>1, <2>2 DEF Step, Begin, Fail, Hurts, Resolve, Look, Make, InstallBinaries,
       InstallOthers, EndInstall, RenderConfig, Validate, Record, Choose, FetchPage, ReplaceEOL,
       Typed, TypeOK, Ready, At, Installing
  <2>7. mishaps' \in 0..MaxMishaps
    <3>1. Mishap \/ UNCHANGED mishaps
      BY <1>1 DEF Step, Begin, Fail, Resolve, Look, Make, InstallBinaries, InstallOthers,
         EndInstall, RenderConfig, Validate, Record, Choose, FetchPage, ReplaceEOL
    <3> QED
      BY <3>1, MishapTyped DEF Typed
  <2> QED
    BY <2>1, <2>3, <2>4, <2>5, <2>6, <2>7 DEF Typed, TypeOK
<1>2. ASSUME NEW v \in Versions, Upgrade(v) PROVE Typed'
  BY <1>2, MishapTyped DEF Upgrade, Typed, TypeOK, PrefixStates
<1>3. ASSUME NEW b \in Branches, Retire(b) PROVE Typed'
  BY <1>3 DEF Retire, Typed, TypeOK
<1>4. CASE UNCHANGED vars
  BY <1>4 DEF vars, Typed, TypeOK
<1> QED
  BY <1>1, <1>2, <1>3, <1>4 DEF Next

LEMMA InitTyped == Init => Typed
BY InitTypeOK DEF Typed, Init, Idle, Ready, Installing

THEOREM TypedHolds == Spec => []Typed
BY InitTyped, TypeStep, PTL DEF Spec

(***************************************************************************)
(* Every reachable state is well typed.                                    *)
(***************************************************************************)
THEOREM PhpTypeCorrect == Spec => []TypeOK
<1>1. Typed => TypeOK
  BY DEF Typed
<1> QED
  BY <1>1, TypedHolds, PTL

-----------------------------------------------------------------------------
(* What is recorded is whole, when installations do not overlap *)

\* No two commands of a kind at a time.
Alone ==
  \A c, d \in Commands : cmd[c].op = cmd[d].op /\ cmd[c].op # "none" => c = d

\* What the lines of an installation have made of its prefix.
Progress(me) ==
  /\ me.pc \in {"render", "validate"} => prefix[me.version].rest = "whole"
  /\ me.pc \in {"validate", "record"} => prefix[me.version].conf

(***************************************************************************)
(* The strengthening of RecordedIsWhole: a php-fpm.conf marks a prefix as  *)
(* complete, recorded or not, unless it is hurt or being written to.       *)
(***************************************************************************)
ConfMeansWhole ==
  \A v \in Versions \ spoiled :
    prefix[v].conf => Writing(v) \/ (prefix[v].bin = "good" /\ prefix[v].rest = "whole")

WholeInv ==
  /\ Typed
  /\ Alone
  /\ \A c \in Commands : Progress(cmd[c])
  /\ ConfMeansWhole
  /\ \A v \in rows : prefix[v].conf

\* A step of c leaves the others alone.
LEMMA OthersStay ==
  ASSUME Typed, NEW c \in Commands, Step(c)
  PROVE  \A d \in Commands \ {c} : cmd'[d] = cmd[d]
BY StepMoves DEF Moves, Typed, TypeOK

LEMMA AloneStep ==
  ASSUME WholeInv, NEW c \in Commands, Step(c), "overlap" \notin Faults
  PROVE  Alone'
<1>1. \A d \in Commands \ {c} : cmd'[d] = cmd[d]
  BY OthersStay DEF WholeInv
<1>2. cmd[c] \in CmdState /\ cmd \in [Commands -> CmdState]
  BY DEF WholeInv, Typed, TypeOK
<1>3. CASE Begin(c)
  <2>1. PICK op \in {"install", "global", "use", "sync"} :
          (\A d \in Commands : cmd[d].op # op) /\ cmd'[c].op = op
    BY <1>2, <1>3 DEF Begin, Idle
  <2> QED
    BY <1>1, <2>1 DEF Alone, WholeInv
<1>4. cmd'[c].op \in {cmd[c].op, "none"} => Alone'
  BY <1>1 DEF Alone, WholeInv
<1>5. Return(c) => cmd'[c].op = "none"
  BY <1>2 DEF Return, Idle
<1>6. \A pc : Goto(c, pc) => cmd'[c].op = cmd[c].op
  BY <1>2 DEF Goto, CmdState
<1>7. Resolve(c) => cmd'[c].op \in {cmd[c].op, "none"}
  BY <1>2, <1>5 DEF Resolve, CmdState
<1>8. FetchPage(c) => cmd'[c].op = cmd[c].op
  BY <1>2 DEF FetchPage, CmdState
<1>9. CASE Look(c) \/ Make(c) \/ InstallBinaries(c) \/ InstallOthers(c) \/ EndInstall(c) \/ RenderConfig(c)
  BY <1>4, <1>6, <1>9 DEF Look, Make, InstallBinaries, InstallOthers, EndInstall, RenderConfig
<1>10. CASE Fail(c) \/ Record(c) \/ Choose(c) \/ ReplaceEOL(c) \/ Validate(c)
  BY <1>4, <1>5, <1>6, <1>10 DEF Fail, Record, Choose, ReplaceEOL, Validate
<1> QED
  BY <1>3, <1>4, <1>7, <1>8, <1>9, <1>10 DEF Step

\* A prefix that is no longer being written to is the one c has left.
LEMMA WritingStays ==
  ASSUME Typed, NEW c \in Commands, Step(c), NEW v, Writing(v), ~Writing(v)'
  PROVE  cmd[c].version = v /\ cmd[c].pc \in {"binaries", "others", "render", "validate"}
BY OthersStay DEF Writing

\* The actions that write to the prefix: afterwards their command still does.
Write(c) == InstallBinaries(c) \/ InstallOthers(c) \/ EndInstall(c) \/ RenderConfig(c)

LEMMA WriteStep ==
  ASSUME Typed, NEW c \in Commands, Write(c)
  PROVE  LET v == cmd[c].version
         IN /\ v \in Versions
            /\ \A w \in Versions \ {v} : prefix'[w] = prefix[w]
            /\ cmd'[c].version = v
            /\ cmd'[c].pc \in {"binaries", "others", "render", "validate"}
            /\ prefix[v].conf => prefix'[v].conf
            /\ Progress(cmd[c]) => Progress(cmd[c])'
            /\ rows' = rows /\ spoiled' = spoiled
            /\ cmd[c].op = "install"
<1> DEFINE v == cmd[c].version
<1>1. cmd[c] \in CmdState /\ Ready(cmd[c]) /\ cmd \in [Commands -> CmdState]
      /\ prefix \in [Versions -> PrefixStates]
  BY DEF Typed, TypeOK
<1>2. v \in Versions /\ prefix[v] \in PrefixStates /\ cmd[c].op = "install"
  BY <1>1 DEF Write, InstallBinaries, InstallOthers, EndInstall, RenderConfig, At, Ready, Installing
<1>3. \A pc : Goto(c, pc) => cmd'[c].version = v /\ cmd'[c].pc = pc
  BY <1>1 DEF Goto, CmdState
<1>4. ASSUME NEW to \in PrefixStates, NEW pc \in {"binaries", "others", "render", "validate"},
             prefix' = [prefix EXCEPT ![v] = to], Goto(c, pc), prefix[v].conf => to.conf,
             pc \in {"render", "validate"} => to.rest = "whole" \/ ~Progress(cmd[c]),
             pc = "validate" => to.conf
      PROVE  /\ \A w \in Versions \ {v} : prefix'[w] = prefix[w]
             /\ cmd'[c].version = v /\ cmd'[c].pc = pc
             /\ prefix[v].conf => prefix'[v].conf
             /\ Progress(cmd[c]) => Progress(cmd[c])'
  <2>1. prefix'[v] = to /\ \A w \in Versions \ {v} : prefix'[w] = prefix[w]
    BY <1>1, <1>2, <1>4
  <2>2. cmd'[c].version = v /\ cmd'[c].pc = pc
    BY <1>3, <1>4
  <2> QED
    BY <1>4, <2>1, <2>2 DEF Progress
<1>5. CASE InstallBinaries(c)
  <2> DEFINE to == [prefix[v] EXCEPT !.bin = "torn"]
  <2>1. to \in PrefixStates /\ to.conf = prefix[v].conf
    BY <1>2 DEF PrefixStates
  <2>2. prefix' = [prefix EXCEPT ![v] = to] /\ Goto(c, "binaries") /\ rows' = rows /\ spoiled' = spoiled
    BY <1>5 DEF InstallBinaries
  <2> QED
    BY <1>2, <1>4, <2>1, <2>2
<1>6. CASE InstallOthers(c)
  <2>1. PICK made \in {"good", "poor"} :
          prefix' = [prefix EXCEPT ![v] = [prefix[v] EXCEPT !.bin = made, !.rest = "torn"]]
    BY <1>1, <1>2, <1>6 DEF InstallOthers
  <2> DEFINE to == [prefix[v] EXCEPT !.bin = made, !.rest = "torn"]
  <2>2. to \in PrefixStates /\ to.conf = prefix[v].conf
    BY <1>2 DEF PrefixStates
  <2>3. prefix' = [prefix EXCEPT ![v] = to] /\ Goto(c, "others") /\ rows' = rows /\ spoiled' = spoiled
    BY <1>6, <2>1 DEF InstallOthers
  <2> QED
    BY <1>2, <1>4, <2>2, <2>3
<1>7. CASE EndInstall(c)
  <2> DEFINE to == [prefix[v] EXCEPT !.rest = "whole"]
  <2>1. to \in PrefixStates /\ to.conf = prefix[v].conf /\ to.rest = "whole"
    BY <1>2 DEF PrefixStates
  <2>2. prefix' = [prefix EXCEPT ![v] = to] /\ Goto(c, "render") /\ rows' = rows /\ spoiled' = spoiled
    BY <1>7 DEF EndInstall
  <2> QED
    BY <1>2, <1>4, <2>1, <2>2
<1>8. CASE RenderConfig(c)
  <2> DEFINE to == [prefix[v] EXCEPT !.conf = TRUE]
  <2>1. to \in PrefixStates /\ to.conf /\ to.rest = prefix[v].rest
    BY <1>2 DEF PrefixStates
  <2>2. prefix' = [prefix EXCEPT ![v] = to] /\ Goto(c, "validate") /\ rows' = rows /\ spoiled' = spoiled
    BY <1>8 DEF RenderConfig
  <2>3. to.rest = "whole" \/ ~Progress(cmd[c])
    BY <1>8, <2>1 DEF RenderConfig, At, Progress
  <2> QED
    BY <1>2, <1>4, <2>1, <2>2, <2>3
<1> QED
  BY <1>5, <1>6, <1>7, <1>8 DEF Write

LEMMA WholeStep ==
  ASSUME WholeInv, NEW c \in Commands, Step(c), Typed', "overlap" \notin Faults
  PROVE  WholeInv'
<1> DEFINE v == cmd[c].version
<1>1. Alone'
  BY AloneStep
<1>2. \A d \in Commands \ {c} : cmd'[d] = cmd[d]
  BY OthersStay DEF WholeInv
<1>3. cmd[c] \in CmdState /\ Ready(cmd[c]) /\ cmd \in [Commands -> CmdState]
  BY DEF WholeInv, Typed, TypeOK
<1>4. CASE Write(c)
  <2>1. ASSUME NEW d \in Commands PROVE Progress(cmd[d])'
    <3>1. CASE d = c
      BY <1>4, <3>1, WriteStep DEF WholeInv
    <3>2. CASE d # c
      <4>1. cmd[d].op # "install"
        BY <1>4, <3>2, WriteStep DEF WholeInv, Alone
      <4>2. cmd'[d].pc \notin {"render", "validate", "record"}
        BY <1>2, <3>2, <4>1 DEF WholeInv, Typed, Ready, Installing
      <4> QED
        BY <4>2 DEF Progress
    <3> QED
      BY <3>1, <3>2
  <2>2. ConfMeansWhole'
    <3> SUFFICES ASSUME NEW w \in Versions \ spoiled', prefix'[w].conf
                 PROVE  Writing(w)' \/ (prefix'[w].bin = "good" /\ prefix'[w].rest = "whole")
      BY DEF ConfMeansWhole
    <3>1. CASE w = v
      BY <1>4, <3>1, WriteStep DEF WholeInv, Writing
    <3>2. CASE w # v
      BY <1>4, <3>2, WriteStep, WritingStays DEF WholeInv, ConfMeansWhole
    <3> QED
      BY <3>1, <3>2
  <2>3. (\A w \in rows : prefix[w].conf)'
    BY <1>4, WriteStep DEF WholeInv, Typed, TypeOK
  <2> QED
    BY <1>1, <2>1, <2>2, <2>3 DEF WholeInv
<1>5. CASE ~Write(c)
  <2>1. UNCHANGED prefix
    BY <1>5 DEF Write, Step, Begin, Fail, Resolve, Look, Make, Validate, Record, Choose, FetchPage,
       ReplaceEOL
  <2>2. Progress(cmd[c])'
    <3>1. Return(c) => cmd'[c].pc = "idle"
      BY <1>3 DEF Return, Idle
    <3>2. \A pc : Goto(c, pc) => cmd'[c].pc = pc /\ cmd'[c].version = v
      BY <1>3 DEF Goto, CmdState
    <3>3. CASE cmd'[c].pc \notin {"render", "validate", "record"}
      BY <3>3 DEF Progress
    <3>4. CASE Look(c) \/ Validate(c)
      BY <2>1, <3>1, <3>2, <3>4 DEF Look, Validate, Valid, Progress, WholeInv
    <3>5. CASE Begin(c)
      BY <1>3, <3>3, <3>5 DEF Begin, Idle
    <3>6. CASE Resolve(c)
      BY <1>3, <3>1, <3>3, <3>6 DEF Resolve, CmdState
    <3>7. CASE FetchPage(c)
      BY <1>3, <3>3, <3>7 DEF FetchPage, CmdState
    <3> QED
      BY <1>5, <3>1, <3>2, <3>3, <3>4, <3>5, <3>6, <3>7 DEF Write, Step, Fail, Make, Record, Choose,
         ReplaceEOL
  <2>3. \A d \in Commands : Progress(cmd[d])'
    BY <1>2, <2>1, <2>2 DEF WholeInv, Progress
  <2>4. ConfMeansWhole'
    <3> SUFFICES ASSUME NEW w \in Versions \ spoiled', prefix[w].conf, ~Writing(w)'
                 PROVE  prefix[w].bin = "good" /\ prefix[w].rest = "whole"
      BY <2>1 DEF ConfMeansWhole
    <3>1. CASE Fail(c)
      <4>1. w \notin spoiled /\ (Hurts(c) => w # v)
        BY <3>1 DEF Fail
      <4> QED
        BY <4>1, WritingStays DEF WholeInv, ConfMeansWhole, Hurts
    <3>2. CASE Validate(c)
      <4>1. CASE w = v
        BY <3>2, <4>1 DEF Validate, Valid, WholeInv, Progress, At
      <4>2. CASE w # v
        BY <3>2, <4>2, WritingStays DEF Validate, WholeInv, ConfMeansWhole
      <4> QED
        BY <4>1, <4>2
    <3>3. CASE ~Fail(c) /\ ~Validate(c)
      <4>1. spoiled' = spoiled
        BY <1>5, <3>3 DEF Write, Step, Begin, Resolve, Look, Make, Record, Choose, FetchPage, ReplaceEOL
      <4>2. cmd[c].pc \notin {"binaries", "others", "render", "validate"}
        BY <1>5, <3>3 DEF Write, Step, Begin, Resolve, Look, Make, Record, Choose, FetchPage, ReplaceEOL, At
      <4> QED
        BY <4>1, <4>2, WritingStays DEF WholeInv, ConfMeansWhole
    <3> QED
      BY <3>1, <3>2, <3>3
  <2>5. (\A w \in rows : prefix[w].conf)'
    <3>1. CASE Record(c)
      BY <2>1, <3>1 DEF Record, At, WholeInv, Progress
    <3>2. CASE UNCHANGED rows
      BY <2>1, <3>2 DEF WholeInv
    <3> QED
      BY <1>5, <3>1, <3>2 DEF Write, Step, Begin, Fail, Resolve, Look, Make, Validate, Choose,
         FetchPage, ReplaceEOL
  <2> QED
    BY <1>1, <2>3, <2>4, <2>5 DEF WholeInv
<1> QED
  BY <1>4, <1>5

LEMMA InitWhole == Init => WholeInv
BY InitTyped DEF WholeInv, Init, Idle, Alone, Progress, ConfMeansWhole

THEOREM WholeInvHolds ==
  ASSUME "overlap" \notin Faults
  PROVE  Spec => []WholeInv
<1>1. WholeInv /\ [Next]_vars => WholeInv'
  <2> SUFFICES ASSUME WholeInv, [Next]_vars PROVE WholeInv'
    OBVIOUS
  <2>1. Typed'
    BY TypeStep DEF WholeInv
  <2>2. CASE \E c \in Commands : Step(c)
    BY <2>1, <2>2, WholeStep
  <2>3. ASSUME NEW v \in Versions, Upgrade(v) PROVE WholeInv'
    BY <2>1, <2>3 DEF Upgrade, WholeInv, Typed, TypeOK, PrefixStates, Alone, Progress, ConfMeansWhole,
       Writing
  <2>4. CASE UNCHANGED vars \/ \E b \in Branches : Retire(b)
    BY <2>1, <2>4 DEF Retire, vars, WholeInv, Alone, Progress, ConfMeansWhole, Writing
  <2> QED
    BY <2>2, <2>3, <2>4 DEF Next
<1> QED
  BY <1>1, InitWhole, PTL DEF Spec

(***************************************************************************)
(* Every version that `php list` shows has its configuration and is        *)
(* complete, however installations of it were cut short before it first    *)
(* was, if two of them never run at a time.  Nothing is said of one hurt   *)
(* after that until a rebuild of it goes through.                          *)
(***************************************************************************)
THEOREM RecordedStaysWhole ==
  ASSUME "overlap" \notin Faults
  PROVE  Spec => []RecordedIsWhole
<1>1. WholeInv => RecordedIsWhole
  BY DEF WholeInv, RecordedIsWhole, ConfMeansWhole, Typed, TypeOK, PrefixStates
<1> QED
  BY <1>1, WholeInvHolds, PTL

-----------------------------------------------------------------------------
(* End of life is final, when syncs do not overlap and find their table *)

EolInv ==
  /\ WholeInv
  /\ eol \subseteq site
  /\ \A c \in Commands : cmd[c].pc = "replace" => eol \subseteq cmd[c].page /\ cmd[c].page \subseteq site

LEMMA EolStep ==
  ASSUME EolInv, NEW c \in Commands, Step(c), WholeInv', "overlap" \notin Faults, "redesign" \notin Faults
  PROVE  EolInv' /\ eol \subseteq eol'
<1>1. \A d \in Commands \ {c} : cmd'[d] = cmd[d]
  BY OthersStay DEF EolInv, WholeInv
<1>2. cmd[c] \in CmdState /\ cmd \in [Commands -> CmdState]
      /\ \A d \in Commands : Ready(cmd[d])
  BY DEF EolInv, WholeInv, Typed, TypeOK
<1>3. site' = site
  BY DEF Step, Begin, Fail, Resolve, Look, Make, InstallBinaries, InstallOthers, EndInstall,
     RenderConfig, Validate, Record, Choose, FetchPage, ReplaceEOL
<1>4. CASE ReplaceEOL(c)
  <2>1. cmd[c].pc = "replace" /\ eol' \in {cmd[c].page, eol} /\ cmd'[c].pc = "idle"
    BY <1>2, <1>4 DEF ReplaceEOL, At, Return, Idle
  <2>2. \A d \in Commands \ {c} : cmd[d].pc # "replace"
    BY <1>2, <2>1 DEF EolInv, WholeInv, Alone, Ready
  <2> QED
    BY <1>1, <1>3, <2>1, <2>2 DEF EolInv
<1>5. CASE FetchPage(c)
  <2>1. cmd'[c].page = site /\ eol' = eol
    BY <1>2, <1>5 DEF FetchPage, CmdState
  <2> QED
    BY <1>1, <1>3, <2>1 DEF EolInv
<1>6. CASE ~ReplaceEOL(c) /\ ~FetchPage(c)
  <2>1. eol' = eol
    BY <1>6 DEF Step, Begin, Fail, Resolve, Look, Make, InstallBinaries, InstallOthers, EndInstall,
       RenderConfig, Validate, Record, Choose
  <2>2. cmd'[c].pc # "replace"
    <3>1. Return(c) => cmd'[c].pc = "idle"
      BY <1>2 DEF Return, Idle
    <3>2. \A pc : Goto(c, pc) => cmd'[c].pc = pc
      BY <1>2 DEF Goto, CmdState
    <3>3. Begin(c) => cmd'[c].pc # "replace"
      BY <1>2 DEF Begin, Idle
    <3>4. Resolve(c) => cmd'[c].pc # "replace"
      BY <1>2, <3>1 DEF Resolve, CmdState
    <3> QED
      BY <1>6, <3>1, <3>2, <3>3, <3>4 DEF Step, Fail, Look, Make, InstallBinaries, InstallOthers,
         EndInstall, RenderConfig, Validate, Record, Choose
  <2> QED
    BY <1>1, <1>3, <2>1, <2>2 DEF EolInv
<1> QED
  BY <1>4, <1>5, <1>6

(***************************************************************************)
(* A branch that a sync has reported stays reported, however syncs fail,   *)
(* if no two of them run at a time and php.net's page keeps the table that *)
(* ParseEOL looks for, without which a sync empties the list.              *)
(***************************************************************************)
THEOREM EndOfLifeStaysFinal ==
  ASSUME "overlap" \notin Faults, "redesign" \notin Faults
  PROVE  Spec => EndOfLifeIsFinal
<1>1. Init => EolInv
  BY InitWhole DEF EolInv, Init, Idle
<1>2. EolInv /\ WholeInv' /\ [Next]_vars => EolInv' /\ [eol \subseteq eol']_vars
  <2> SUFFICES ASSUME EolInv, WholeInv', [Next]_vars PROVE EolInv' /\ eol \subseteq eol'
    OBVIOUS
  <2>1. CASE \E c \in Commands : Step(c)
    BY <2>1, EolStep
  <2>2. CASE \E v \in Versions : Upgrade(v)
    BY <2>2 DEF Upgrade, EolInv
  <2>3. CASE \E b \in Branches : Retire(b)
    BY <2>3 DEF Retire, EolInv
  <2>4. CASE UNCHANGED vars
    BY <2>4 DEF vars, EolInv
  <2> QED
    BY <2>1, <2>2, <2>3, <2>4 DEF Next
<1> QED
  BY <1>1, <1>2, WholeInvHolds, PTL DEF Spec, EndOfLifeIsFinal

-----------------------------------------------------------------------------
(* What `php` runs *)

\* Newer, spelled out.
LEMMA NewerIs ==
  ASSUME NEW v \in Nat \X Nat \X Nat, NEW w \in Nat \X Nat \X Nat
  PROVE  Newer(v, w) <=> \/ v[1] > w[1]
                         \/ v[1] = w[1] /\ v[2] > w[2]
                         \/ v[1] = w[1] /\ v[2] = w[2] /\ v[3] > w[3]
<1>1. \A i \in 1..3 : v[i] \in Nat /\ w[i] \in Nat
  OBVIOUS
<1>2. \A i \in 1..3 : i = 1 \/ i = 2 \/ i = 3
  OBVIOUS
<1>3. (\E i \in 1..3 : v[i] > w[i] /\ \A j \in 1..(i - 1) : v[j] = w[j])
        <=> \/ v[1] > w[1] /\ \A j \in 1..0 : v[j] = w[j]
            \/ v[2] > w[2] /\ \A j \in 1..1 : v[j] = w[j]
            \/ v[3] > w[3] /\ \A j \in 1..2 : v[j] = w[j]
  BY <1>2
<1>4. /\ \A j \in 1..0 : v[j] = w[j]
      /\ (\A j \in 1..1 : v[j] = w[j]) <=> v[1] = w[1]
      /\ (\A j \in 1..2 : v[j] = w[j]) <=> v[1] = w[1] /\ v[2] = w[2]
  OBVIOUS
<1> QED
  BY <1>3, <1>4 DEF Newer

\* It is a strict total order.
LEMMA NewerOrders ==
  ASSUME NEW u \in Versions, NEW v \in Versions, NEW w \in Versions
  PROVE  /\ ~Newer(v, v)
         /\ Newer(u, v) /\ Newer(v, w) => Newer(u, w)
         /\ v = w \/ Newer(v, w) \/ Newer(w, v)
<1>1. /\ u \in Nat \X Nat \X Nat /\ v \in Nat \X Nat \X Nat /\ w \in Nat \X Nat \X Nat
      /\ v = <<v[1], v[2], v[3]>> /\ w = <<w[1], w[2], w[3]>>
      /\ u[1] \in Nat /\ u[2] \in Nat /\ u[3] \in Nat
      /\ v[1] \in Nat /\ v[2] \in Nat /\ v[3] \in Nat
      /\ w[1] \in Nat /\ w[2] \in Nat /\ w[3] \in Nat
  BY PhpAssumption
<1>2. ~Newer(v, v)
  BY <1>1, NewerIs
<1>3. Newer(u, v) /\ Newer(v, w) => Newer(u, w)
  BY <1>1, NewerIs
<1>4. v = w \/ Newer(v, w) \/ Newer(w, v)
  BY <1>1, NewerIs
<1> QED
  BY <1>2, <1>3, <1>4

\* A full version finds itself, among any versions.
LEMMA FullFindsItself ==
  ASSUME NEW set \in SUBSET Versions, NEW v \in set
  PROVE  Find(set, v) = v
<1>1. ASSUME NEW w \in set, Matches(w, v) PROVE w = v
  <2>1. /\ v = <<v[1], v[2], v[3]>> /\ w = <<w[1], w[2], w[3]>> /\ DOMAIN v = 1..3
    BY PhpAssumption
  <2> QED
    BY <1>1, <2>1 DEF Matches
<1>2. Matches(v, v)
  BY DEF Matches
<1>3. Firsts(set, v) = {v}
  BY <1>1, <1>2, NewerOrders DEF Firsts
<1> QED
  BY <1>3 DEF Find

\* The newest of a set that grows by one stays or gives way to the new one.
LEMMA NewestGrows ==
  ASSUME NEW set \in SUBSET Versions, NEW v \in Versions, Find(set, <<>>) # None
  PROVE  LET old == Find(set, <<>>)
             new == Find(set \cup {v}, <<>>)
         IN new = old \/ Newer(new, old)
<1> DEFINE old == Find(set, <<>>)
<1> DEFINE grown == set \cup {v}
<1>1. \A w : Matches(w, <<>>)
  BY DEF Matches
<1>2. \A s, w : w \in Firsts(s, <<>>) <=> w \in s /\ \A u \in s : ~Newer(u, w)
  BY <1>1 DEF Firsts
<1>3. old \in Firsts(set, <<>>)
  BY DEF Find
<1>4. old \in set /\ \A u \in set : ~Newer(u, old)
  BY <1>2, <1>3
<1>5. CASE Newer(v, old)
  <2>1. v \in Firsts(grown, <<>>)
    BY <1>2, <1>4, <1>5, NewerOrders
  <2>2. Firsts(grown, <<>>) = {v}
    BY <1>2, <2>1, NewerOrders
  <2> QED
    BY <1>5, <2>2 DEF Find
<1>6. CASE ~Newer(v, old)
  <2>1. old \in Firsts(grown, <<>>)
    BY <1>2, <1>4, <1>6
  <2>2. Firsts(grown, <<>>) = {old}
    BY <1>2, <2>1, NewerOrders
  <2> QED
    BY <2>2 DEF Find
<1> QED
  BY <1>5, <1>6

\* A step adds at most one row.
LEMMA RowsGrow ==
  ASSUME Typed, [Next]_vars
  PROVE  rows' = rows \/ \E v \in Versions : rows' = rows \cup {v}
<1>1. ASSUME NEW c \in Commands, Record(c) PROVE \E v \in Versions : rows' = rows \cup {v}
  BY <1>1 DEF Record, At, Typed, Ready, Installing
<1> QED
  BY <1>1 DEF Next, Step, Begin, Fail, Resolve, Look, Make, InstallBinaries, InstallOthers, EndInstall,
     RenderConfig, Validate, Choose, FetchPage, ReplaceEOL, Upgrade, Retire, vars

(***************************************************************************)
(* What `php` runs changes only by a choice, or, without one, to a newer   *)
(* version, whatever is installed meanwhile and whatever overlaps.         *)
(***************************************************************************)
THEOREM ChoicesAreKept == Spec => ChoicesHold
<1> DEFINE Kept == chosen' = chosen =>
      \A inside \in BOOLEAN :
        \/ ShimRuns(inside)' = ShimRuns(inside)
        \/ /\ chosen["global"] = None /\ (inside => chosen["pin"] = None)
           /\ ShimRuns(inside) # None => Newer(ShimRuns(inside)', ShimRuns(inside))
<1>1. Typed /\ [Next]_vars => [Kept]_vars
  <2> SUFFICES ASSUME Typed, Next, chosen' = chosen, NEW inside \in BOOLEAN
               PROVE  \/ ShimRuns(inside)' = ShimRuns(inside)
                      \/ /\ chosen["global"] = None /\ (inside => chosen["pin"] = None)
                         /\ ShimRuns(inside) # None => Newer(ShimRuns(inside)', ShimRuns(inside))
    OBVIOUS
  <2>1. rows \subseteq Versions /\ chosen["global"] \in rows \cup {None} /\ chosen["pin"] \in rows \cup {None}
    BY DEF Typed, TypeOK
  <2>2. rows' = rows \/ \E v \in Versions : rows' = rows \cup {v}
    BY RowsGrow
  <2>3. CASE rows' = rows
    BY <2>3 DEF ShimRuns
  <2>4. ASSUME NEW v \in Versions, rows' = rows \cup {v}
        PROVE  \/ ShimRuns(inside)' = ShimRuns(inside)
               \/ /\ chosen["global"] = None /\ (inside => chosen["pin"] = None)
                  /\ ShimRuns(inside) # None => Newer(ShimRuns(inside)', ShimRuns(inside))
    <3>1. rows' \in SUBSET Versions /\ rows \in SUBSET Versions
      BY <2>1, <2>4
    <3>2. CASE inside /\ chosen["pin"] # None
      BY <2>1, <2>4, <3>1, <3>2, FullFindsItself DEF ShimRuns
    <3>3. CASE ~(inside /\ chosen["pin"] # None) /\ chosen["global"] # None
      BY <2>1, <2>4, <3>1, <3>3, FullFindsItself DEF ShimRuns
    <3>4. CASE ~(inside /\ chosen["pin"] # None) /\ chosen["global"] = None
      <4>1. ShimRuns(inside) = Find(rows, <<>>) /\ ShimRuns(inside)' = Find(rows', <<>>)
        BY <3>4 DEF ShimRuns
      <4> QED
        BY <2>4, <3>1, <3>4, <4>1, NewestGrows
    <3> QED
      BY <3>2, <3>3, <3>4
  <2> QED
    BY <2>2, <2>3, <2>4
<1> QED
  BY <1>1, TypedHolds, PTL DEF Spec, ChoicesHold

-----------------------------------------------------------------------------
(* A request that names an installed version finds the newest one *)

HasNewest(set) ==
  \A r \in Requests \cup {<<>>} : (\E v \in set : Matches(v, r)) => Firsts(set, r) # {}

\* Infinite sets may lack a newest; the table grows by one row at a time.
LEMMA HasNewestGrows ==
  ASSUME NEW set \in SUBSET Versions, HasNewest(set), NEW v \in Versions
  PROVE  HasNewest(set \cup {v})
<1> DEFINE grown == set \cup {v}
<1> SUFFICES ASSUME NEW r \in Requests \cup {<<>>}, NEW u \in grown, Matches(u, r)
             PROVE  Firsts(grown, r) # {}
  BY DEF HasNewest
<1>1. \A s, w : w \in Firsts(s, r) <=> w \in s /\ Matches(w, r) /\ \A x \in s : Matches(x, r) => ~Newer(x, w)
  BY DEF Firsts
<1>2. CASE \A w \in set : ~Matches(w, r)
  <2>1. v \in Firsts(grown, r)
    BY <1>1, <1>2, NewerOrders
  <2> QED
    BY <2>1
<1>3. CASE \E w \in set : Matches(w, r)
  <2>1. PICK m : m \in Firsts(set, r)
    BY <1>3 DEF HasNewest
  <2>2. m \in set /\ Matches(m, r) /\ \A x \in set : Matches(x, r) => ~Newer(x, m)
    BY <1>1, <2>1
  <2>3. CASE Matches(v, r) /\ Newer(v, m)
    <3>1. v \in Firsts(grown, r)
      BY <1>1, <2>2, <2>3, NewerOrders
    <3> QED
      BY <3>1
  <2>4. CASE ~(Matches(v, r) /\ Newer(v, m))
    <3>1. m \in Firsts(grown, r)
      BY <1>1, <2>2, <2>4
    <3> QED
      BY <3>1
  <2> QED
    BY <2>3, <2>4
<1> QED
  BY <1>2, <1>3

LEMMA FindsNewest ==
  ASSUME Typed, HasNewest(rows), NEW r \in Requests \cup {<<>>}
  PROVE  LET named == {v \in rows : Matches(v, r)}
         IN IF named = {} THEN Find(rows, r) = None ELSE IsNewest(Find(rows, r), named)
<1> DEFINE named == {v \in rows : Matches(v, r)}
<1>1. rows \subseteq Versions
  BY DEF Typed, TypeOK
<1>2. CASE named = {}
  BY <1>2 DEF Find, Firsts
<1>3. CASE named # {}
  <2>1. Firsts(rows, r) # {}
    BY <1>3 DEF HasNewest
  <2> DEFINE found == Find(rows, r)
  <2>2. found \in Firsts(rows, r)
    BY <2>1 DEF Find
  <2>3. found \in named /\ \A w \in named : ~Newer(w, found)
    BY <2>2 DEF Firsts
  <2>4. ASSUME NEW w \in named
        PROVE  \/ w[1] < found[1]
               \/ w[1] = found[1] /\ (w[2] < found[2] \/ (w[2] = found[2] /\ w[3] <= found[3]))
    <3>1. w \in Nat \X Nat \X Nat /\ found \in Nat \X Nat \X Nat /\ ~Newer(w, found)
      BY <1>1, <2>3, <2>4, PhpAssumption
    <3>2. /\ w[1] \in Nat /\ w[2] \in Nat /\ w[3] \in Nat
          /\ found[1] \in Nat /\ found[2] \in Nat /\ found[3] \in Nat
      BY <3>1
    <3> HIDE DEF found, named
    <3>3. ~(\/ w[1] > found[1]
            \/ w[1] = found[1] /\ w[2] > found[2]
            \/ w[1] = found[1] /\ w[2] = found[2] /\ w[3] > found[3])
      BY <3>1, NewerIs
    <3> QED
      BY <3>2, <3>3
  <2> HIDE DEF found, named
  <2>5. IsNewest(found, named)
    BY <2>3, <2>4 DEF IsNewest
  <2> QED
    BY <1>3, <2>5 DEF found, named
<1> QED
  BY <1>2, <1>3

(***************************************************************************)
(* Every request finds the newest installed version that it names, and the *)
(* shim finds a PHP whenever there is one, whatever overlaps or fails.     *)
(***************************************************************************)
THEOREM ResolutionStaysRight == Spec => []ResolutionIsRight
<1> DEFINE FindInv == Typed /\ HasNewest(rows)
<1>1. Init => FindInv
  BY InitTyped DEF Init, HasNewest
<1>2. FindInv /\ [Next]_vars => FindInv'
  <2> SUFFICES ASSUME FindInv, [Next]_vars PROVE FindInv'
    OBVIOUS
  <2>1. Typed' /\ rows \in SUBSET Versions
    BY TypeStep DEF Typed, TypeOK
  <2>2. HasNewest(rows')
    BY <2>1, RowsGrow, HasNewestGrows
  <2> QED
    BY <2>1, <2>2 DEF HasNewest
<1>3. FindInv => ResolutionIsRight
  <2> SUFFICES ASSUME FindInv PROVE ResolutionIsRight
    OBVIOUS
  <2>1. ASSUME rows # {}, NEW inside \in BOOLEAN PROVE ShimRuns(inside) \in rows
    <3>1. /\ rows \in SUBSET Versions
          /\ chosen["global"] \in rows \cup {None} /\ chosen["pin"] \in rows \cup {None}
      BY DEF Typed, TypeOK
    <3>2. Find(rows, <<>>) \in rows
      BY <2>1, FindsNewest DEF IsNewest, Matches
    <3> QED
      BY <3>1, <3>2, FullFindsItself DEF ShimRuns
  <2> QED
    BY <2>1, FindsNewest DEF ResolutionIsRight
<1> HIDE DEF FindInv
<1> QED
  BY <1>1, <1>2, <1>3, PTL DEF Spec
=============================================================================
