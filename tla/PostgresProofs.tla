--------------------------- MODULE PostgresProofs ---------------------------
(***************************************************************************)
(* Proofs about Postgres and EnvFile, for any projects, names and files.   *)
(***************************************************************************)
EXTENDS Postgres, SequenceTheorems, TLAPS

(* The .env *)

\* What ApplyEnv is given.
Values == UNION {[keys -> Names] : keys \in SUBSET Keys}

LEMMA RewrittenKeeps ==
  ASSUME NEW lines \in Seq(Lines), NEW values \in Values
  PROVE  /\ Rewritten(lines, values) \in Seq(Lines)
         /\ KeepsLines(lines, Rewritten(lines, values))
<1> DEFINE new == Rewritten(lines, values)
<1>1. PICK keys \in SUBSET Keys : values \in [keys -> Names]
  BY DEF Values
<1>2. DOMAIN lines = 1..Len(lines) /\ Len(lines) \in Nat /\ \A i \in DOMAIN lines : lines[i] \in Lines
  OBVIOUS
<1>3. ASSUME NEW i \in DOMAIN lines
      PROVE  new[i] \in Lines /\ new[i].key = lines[i].key /\ (lines[i].key = Own => new[i] = lines[i])
  BY <1>1, <1>2 DEF Rewritten, Lines, Keys, Own
<1>4. new \in [1..Len(lines) -> Lines] /\ DOMAIN new = 1..Len(lines)
  BY <1>2, <1>3 DEF Rewritten
<1>5. new \in Seq(Lines) /\ Len(new) = Len(lines)
  BY <1>2, <1>4
<1> QED
  BY <1>2, <1>3, <1>5 DEF KeepsLines

LEMMA CompletedKeeps ==
  ASSUME NEW old \in Seq(Lines), NEW lines \in Seq(Lines), KeepsLines(old, lines),
         NEW values \in Values, NEW k \in Keys
  PROVE  /\ Completed(lines, values, k) \in Seq(Lines)
         /\ KeepsLines(old, Completed(lines, values, k))
<1>1. CASE k \in DOMAIN values /\ ~Has(lines, k)
  <2> DEFINE line == [key |-> k, value |-> values[k]]
  <2>1. line \in Lines
    BY <1>1 DEF Lines, Values
  <2>2. Completed(lines, values, k) = Append(lines, line)
    BY <1>1 DEF Completed
  <2> HIDE DEF line
  <2>3. /\ Append(lines, line) \in Seq(Lines) /\ Len(Append(lines, line)) = Len(lines) + 1
        /\ \A i \in DOMAIN lines : Append(lines, line)[i] = lines[i]
    BY <2>1
  <2> QED
    BY <2>2, <2>3 DEF KeepsLines
<1>2. CASE ~(k \in DOMAIN values /\ ~Has(lines, k))
  BY <1>2 DEF Completed
<1> QED
  BY <1>1, <1>2

\* What ApplyEnv writes has every line of what it has read.
LEMMA ApplyEnvKeeps ==
  ASSUME NEW lines \in Seq(Lines), NEW values \in Values
  PROVE  ApplyEnv(lines, values) \in Seq(Lines) /\ KeepsLines(lines, ApplyEnv(lines, values))
<1> DEFINE one == Rewritten(lines, values)
           two == Completed(one, values, "APP")
           three == Completed(two, values, "DB")
<1>1. one \in Seq(Lines) /\ KeepsLines(lines, one)
  BY RewrittenKeeps
<1>2. "APP" \in Keys /\ "DB" \in Keys /\ "WS" \in Keys
  BY DEF Keys
<1> HIDE DEF one
<1>3. two \in Seq(Lines) /\ KeepsLines(lines, two)
  BY <1>1, <1>2, CompletedKeeps
<1> HIDE DEF two
<1>4. three \in Seq(Lines) /\ KeepsLines(lines, three)
  BY <1>2, <1>3, CompletedKeeps
<1>5. ApplyEnv(lines, values) = Completed(three, values, "WS")
  BY DEF ApplyEnv, one, two, three
<1> HIDE DEF three
<1> QED
  BY <1>2, <1>4, <1>5, CompletedKeeps

\* The values of k after the rewriting and any number of turns of the second
\* loop: the new one, at most, or what they were.
AtMost(old, lines, values, k) ==
  IF k \in DOMAIN values THEN ValuesOf(lines, k) \subseteq {values[k]}
  ELSE ValuesOf(lines, k) = ValuesOf(old, k)

LEMMA RewrittenValues ==
  ASSUME NEW lines \in Seq(Lines), NEW values \in Values, NEW k
  PROVE  AtMost(lines, Rewritten(lines, values), values, k)
<1> DEFINE new == Rewritten(lines, values)
<1>1. /\ DOMAIN new = DOMAIN lines
      /\ \A i \in DOMAIN lines : /\ new[i].key = lines[i].key
                                 /\ lines[i].key \in DOMAIN values => new[i].value = values[lines[i].key]
                                 /\ lines[i].key \notin DOMAIN values => new[i] = lines[i]
  BY DEF Rewritten
<1> HIDE DEF new
<1>2. CASE k \in DOMAIN values
  BY <1>1, <1>2 DEF AtMost, ValuesOf, new
<1>3. CASE k \notin DOMAIN values
  <2>1. ValuesOf(new, k) = ValuesOf(lines, k)
    BY <1>1, <1>3 DEF ValuesOf
  <2> QED
    BY <1>3, <2>1 DEF AtMost, new
<1> QED
  BY <1>2, <1>3

\* k has its new value, if it is given one.
Settled(lines, values, k) == k \in DOMAIN values => ValuesOf(lines, k) = {values[k]}

LEMMA CompletedValues ==
  ASSUME NEW old \in Seq(Lines), NEW lines \in Seq(Lines), NEW values \in Values, NEW j \in Keys,
         NEW k \in Keys, AtMost(old, lines, values, k)
  PROVE  /\ AtMost(old, Completed(lines, values, j), values, k)
         /\ k = j \/ Settled(lines, values, k) => Settled(Completed(lines, values, j), values, k)
<1> USE DEF Settled
<1> DEFINE new == Completed(lines, values, j)
           line == [key |-> j, value |-> values[j]]
<1>1. CASE j \in DOMAIN values /\ ~Has(lines, j)
  <2>1. line \in Lines /\ line.key = j /\ line.value = values[j]
    BY <1>1 DEF Lines, Values
  <2>2. new = Append(lines, line)
    BY <1>1 DEF Completed
  <2> HIDE DEF line, new
  <2>3. /\ DOMAIN new = 1..(Len(lines) + 1) /\ DOMAIN lines = 1..Len(lines) /\ Len(lines) \in Nat
        /\ new[Len(lines) + 1] = line
        /\ \A i \in DOMAIN lines : new[i] = lines[i]
    BY <2>1, <2>2
  <2>4. CASE k = j
    <3>1. \A i \in DOMAIN lines : new[i].key # j
      BY <1>1, <2>3 DEF Has
    <3>2. {i \in DOMAIN new : new[i].key = j} = {Len(lines) + 1}
      BY <2>1, <2>3, <3>1
    <3>3. ValuesOf(new, k) = {values[k]}
      BY <2>1, <2>3, <2>4, <3>2 DEF ValuesOf
    <3> QED
      BY <1>1, <2>4, <3>3 DEF AtMost, new
  <2>5. CASE k # j
    <3>1. {i \in DOMAIN new : new[i].key = k} = {i \in DOMAIN lines : lines[i].key = k}
      BY <2>1, <2>3, <2>5
    <3>2. ValuesOf(new, k) = ValuesOf(lines, k)
      BY <2>3, <3>1 DEF ValuesOf
    <3> QED
      BY <2>5, <3>2 DEF AtMost, new
  <2> QED
    BY <2>4, <2>5
<1>2. CASE ~(j \in DOMAIN values /\ ~Has(lines, j))
  <2>1. new = lines
    BY <1>2 DEF Completed
  <2>2. ASSUME k = j, k \in DOMAIN values
        PROVE  ValuesOf(lines, k) = {values[k]}
    <3>1. PICK i \in DOMAIN lines : lines[i].key = k
      BY <1>2, <2>2 DEF Has
    <3>2. lines[i].value \in ValuesOf(lines, k)
      BY <3>1 DEF ValuesOf
    <3>3. ValuesOf(lines, k) \subseteq {values[k]}
      BY <2>2 DEF AtMost
    <3> QED
      BY <3>2, <3>3
  <2> QED
    BY <2>1, <2>2
<1> QED
  BY <1>1, <1>2

\* What ApplyEnv is given it writes, and it leaves the other keys alone.
LEMMA ApplyEnvValues ==
  ASSUME NEW lines \in Seq(Lines), NEW values \in Values, NEW k \in Keys
  PROVE  ValuesOf(ApplyEnv(lines, values), k) =
           IF k \in DOMAIN values THEN {values[k]} ELSE ValuesOf(lines, k)
<1> DEFINE one == Rewritten(lines, values)
           two == Completed(one, values, "APP")
           three == Completed(two, values, "DB")
           four == Completed(three, values, "WS")
<1>1. one \in Seq(Lines) /\ KeepsLines(lines, one) /\ AtMost(lines, one, values, k)
  BY RewrittenKeeps, RewrittenValues
<1>2. "APP" \in Keys /\ "DB" \in Keys /\ "WS" \in Keys
  BY DEF Keys
<1> HIDE DEF one
<1>3. /\ two \in Seq(Lines) /\ KeepsLines(lines, two) /\ AtMost(lines, two, values, k)
      /\ k = "APP" => Settled(two, values, k)
  <2>1. two \in Seq(Lines) /\ KeepsLines(lines, two)
    BY <1>1, <1>2, CompletedKeeps
  <2>2. /\ AtMost(lines, two, values, k)
        /\ k = "APP" \/ Settled(one, values, k) => Settled(two, values, k)
    BY <1>1, <1>2, CompletedValues
  <2> QED
    BY <2>1, <2>2
<1> HIDE DEF two
<1>4. /\ three \in Seq(Lines) /\ KeepsLines(lines, three) /\ AtMost(lines, three, values, k)
      /\ k \in {"APP", "DB"} => Settled(three, values, k)
  <2>1. three \in Seq(Lines) /\ KeepsLines(lines, three)
    BY <1>2, <1>3, CompletedKeeps
  <2>2. /\ AtMost(lines, three, values, k)
        /\ k = "DB" \/ Settled(two, values, k) => Settled(three, values, k)
    BY <1>2, <1>3, CompletedValues
  <2> QED
    BY <1>3, <2>1, <2>2
<1> HIDE DEF three
<1>5. /\ AtMost(lines, four, values, k)
      /\ Settled(four, values, k)
  <2>1. /\ AtMost(lines, four, values, k)
        /\ k = "WS" \/ Settled(three, values, k) => Settled(four, values, k)
    BY <1>2, <1>4, CompletedValues
  <2> QED
    BY <1>4, <2>1 DEF Keys
<1>6. ApplyEnv(lines, values) = four
  BY DEF ApplyEnv, one, two, three
<1> HIDE DEF four
<1> QED
  BY <1>5, <1>6 DEF AtMost, Settled

LEMMA KeptAsItIs == \A lines \in Seq(Lines) : KeepsLines(lines, lines)
BY DEF KeepsLines

-----------------------------------------------------------------------------
(* What commands have before them *)

Writes == {"write", "writeWs"}
Initdb == {"version", "bootstrap"}
OfProject == {"exists", "create", "read", "write", "writeWs"}

\* A write comes right after its read, and initdb is not put off.
Shape(todo) == \A i \in 2..Len(todo) : /\ todo[i] \notin Initdb
                                       /\ todo[i] \in Writes => todo[i - 1] = "read"

\* Whoever has to do with a project knows which.
Known(me) == (\E i \in 1..Len(me.todo) : me.todo[i] \in OfProject) => me.project \in Projects /\ me.name \in Names

Good(me) == me \in CmdState /\ Shape(me.todo) /\ Known(me)

\* What a step that is no read may call.
Callable(me, calls) ==
  /\ calls \in Seq(Lineup)
  /\ \A i \in 1..Len(calls) : /\ calls[i] \notin Writes \cup {"read"}
                              /\ i > 1 => calls[i] \notin Initdb
                              /\ calls[i] \in OfProject => Head(me.todo) \in OfProject

LEMMA CallShape ==
  ASSUME NEW me, Good(me), me.todo # <<>>, Head(me.todo) # "read", NEW calls, Callable(me, calls),
         NEW todo, todo = calls \o Tail(me.todo)
  PROVE  /\ todo \in Seq(Lineup) /\ Shape(todo)
         /\ todo # <<>> => Head(todo) \notin Writes
         /\ todo # <<>> /\ Head(todo) \in Initdb => calls # <<>> /\ Head(calls) = Head(todo)
         /\ \A i \in 1..Len(todo) : todo[i] \in OfProject => \E j \in 1..Len(me.todo) : me.todo[j] \in OfProject
<1> DEFINE old == me.todo
<1>1. old \in Seq(Lineup) /\ Len(old) \in Nat \ {0} /\ Shape(old) /\ old[1] # "read" /\ Head(old) = old[1]
  BY DEF Good, CmdState
<1>2. calls \in Seq(Lineup) /\ Len(calls) \in Nat
  BY DEF Callable
<1> HIDE DEF old
<1>3. /\ Tail(old) \in Seq(Lineup) /\ Len(Tail(old)) = Len(old) - 1
      /\ \A i \in 1..(Len(old) - 1) : Tail(old)[i] = old[i + 1]
  BY <1>1
<1>4. /\ todo \in Seq(Lineup) /\ Len(todo) = Len(calls) + Len(old) - 1
      /\ \A i \in 1..Len(calls) : todo[i] = calls[i]
      /\ \A i \in (Len(calls) + 1)..Len(todo) : todo[i] = old[i - Len(calls) + 1]
  BY <1>1, <1>2, <1>3 DEF old
<1>5. ASSUME NEW i \in 2..Len(todo)
      PROVE  todo[i] \notin Initdb /\ (todo[i] \in Writes => todo[i - 1] = "read")
  <2>1. CASE i \in 1..Len(calls)
    BY <1>2, <1>4, <2>1 DEF Callable
  <2>2. CASE i = Len(calls) + 1
    BY <1>1, <1>2, <1>4, <2>2 DEF Shape
  <2>3. CASE i > Len(calls) + 1
    <3>1. /\ i - Len(calls) + 1 \in 2..Len(old)
          /\ i \in (Len(calls) + 1)..Len(todo) /\ i - 1 \in (Len(calls) + 1)..Len(todo)
      BY <1>1, <1>2, <1>4, <2>3
    <3>2. todo[i] = old[i - Len(calls) + 1]
      BY <1>4, <3>1
    <3>3. todo[i - 1] = old[(i - 1) - Len(calls) + 1]
      BY <1>4, <3>1
    <3>4. (i - 1) - Len(calls) + 1 = (i - Len(calls) + 1) - 1
      BY <1>2
    <3> QED
      BY <1>1, <3>1, <3>2, <3>3, <3>4 DEF Shape
  <2> QED
    BY <1>2, <1>4, <2>1, <2>2, <2>3
<1>6. ASSUME todo # <<>>
      PROVE  /\ Head(todo) \notin Writes
             /\ Head(todo) \in Initdb => calls # <<>> /\ Head(calls) = Head(todo)
  <2>1. Len(todo) >= 1 /\ Head(todo) = todo[1]
    BY <1>4, <1>6
  <2>2. CASE Len(calls) = 0
    BY <1>1, <1>4, <2>1, <2>2 DEF Shape
  <2>3. CASE Len(calls) > 0
    BY <1>2, <1>4, <2>1, <2>3 DEF Callable
  <2>4. Len(calls) = 0 \/ Len(calls) > 0
    BY <1>2
  <2> QED
    BY <2>2, <2>3, <2>4
<1>7. ASSUME NEW i \in 1..Len(todo), todo[i] \in OfProject
      PROVE  \E j \in 1..Len(old) : old[j] \in OfProject
  <2>1. CASE i \in 1..Len(calls)
    BY <1>1, <1>2, <1>4, <1>7, <2>1 DEF Callable, old
  <2>2. CASE i > Len(calls)
    <3>1. i - Len(calls) + 1 \in 1..Len(old) /\ todo[i] = old[i - Len(calls) + 1]
      BY <1>1, <1>2, <1>4, <2>2
    <3> QED
      BY <1>7, <3>1
  <2> QED
    BY <1>2, <1>4, <2>1, <2>2
<1> QED
  BY <1>4, <1>5, <1>6, <1>7 DEF Shape, old

LEMMA IdleGood == Idle \in CmdState /\ Idle.todo = <<>>
BY DEF Idle, CmdState

\* The local state of c, and of no other, becomes s.
Becomes(c, s) == cmd' = [cmd EXCEPT ![c] = s]

LEMMA CallBecomes ==
  ASSUME NEW c \in Commands, cmd \in [Commands -> CmdState], Good(cmd[c]), cmd[c].todo # <<>>,
         Head(cmd[c].todo) # "read", NEW calls, Callable(cmd[c], calls), Call(c, calls)
  PROVE  \E s : /\ Good(s) /\ Becomes(c, s)
                /\ s.todo # <<>> => Head(s.todo) \notin Writes
                /\ s.todo # <<>> /\ Head(s.todo) \in Initdb => calls # <<>> /\ Head(calls) = Head(s.todo)
<1> DEFINE todo == calls \o Tail(cmd[c].todo)
<1>1. /\ todo \in Seq(Lineup) /\ Shape(todo)
      /\ todo # <<>> => Head(todo) \notin Writes
      /\ todo # <<>> /\ Head(todo) \in Initdb => calls # <<>> /\ Head(calls) = Head(todo)
      /\ \A i \in 1..Len(todo) : todo[i] \in OfProject =>
           \E j \in 1..Len(cmd[c].todo) : cmd[c].todo[j] \in OfProject
  BY CallShape
<1> HIDE DEF todo
<1>2. CASE todo = <<>>
  <2> DEFINE s == [Idle EXCEPT !.op = cmd[c].op, !.outcome = "ok", !.clean = cmd[c].clean]
  <2>1. Becomes(c, s)
    BY <1>2 DEF Call, Return, Becomes, todo
  <2>2. s \in CmdState /\ s.todo = <<>>
    BY IdleGood DEF Good, CmdState
  <2> HIDE DEF s
  <2>3. Good(s)
    BY <2>2 DEF Good, Shape, Known
  <2> QED
    BY <2>1, <2>2, <2>3
<1>3. CASE todo # <<>>
  <2> DEFINE s == [cmd[c] EXCEPT !.todo = todo]
  <2>1. Becomes(c, s)
    BY <1>3 DEF Call, Becomes, todo
  <2>2. s \in CmdState /\ s.todo = todo /\ s.project = cmd[c].project /\ s.name = cmd[c].name
    BY <1>1 DEF Good, CmdState
  <2> HIDE DEF s
  <2>3. Good(s)
    BY <1>1, <2>2 DEF Good, Known
  <2> QED
    BY <1>1, <2>1, <2>2, <2>3
<1> QED
  BY <1>2, <1>3

LEMMA ReturnBecomes ==
  ASSUME NEW c \in Commands, Good(cmd[c]), NEW o \in {"ok", "failed"}, Return(c, o)
  PROVE  \E s : Good(s) /\ Becomes(c, s) /\ s.todo = <<>>
<1> DEFINE s == [Idle EXCEPT !.op = cmd[c].op, !.outcome = o, !.clean = cmd[c].clean]
<1>1. Becomes(c, s)
  BY DEF Return, Becomes
<1>2. s \in CmdState /\ s.todo = <<>>
  BY IdleGood DEF Good, CmdState
<1> HIDE DEF s
<1>3. Good(s)
  BY <1>2 DEF Good, Shape, Known
<1> QED
  BY <1>1, <1>2, <1>3

\* The steps of the manager.
Manages(c) ==
  \/ InitCluster(c) \/ InitDb(c) \/ WriteVersion(c) \/ Bootstrap(c)
  \/ Start(c) \/ Status(c) \/ Spawn(c) \/ EnsureRole(c)
  \/ Exists(c) \/ Create(c) \/ Stop(c) \/ Halt(c)

\* What it goes on with.
LEMMA ManagesBecomes ==
  ASSUME NEW c \in Commands, cmd \in [Commands -> CmdState], Good(cmd[c]), Manages(c)
  PROVE  \E s : /\ Good(s) /\ Becomes(c, s)
                /\ s.todo # <<>> => Head(s.todo) \notin Writes
                /\ s.todo # <<>> /\ Head(s.todo) = "version" => InitDb(c) /\ cluster = "none"
                /\ s.todo # <<>> /\ Head(s.todo) = "bootstrap" => WriteVersion(c)
<1>1. cmd[c].todo # <<>> /\ Head(cmd[c].todo) # "read"
  BY DEF Manages, InitCluster, InitDb, WriteVersion, Bootstrap, Start, Status, Spawn, EnsureRole,
     Exists, Create, Stop, Halt, At, Running
<1>2. ASSUME NEW o \in {"ok", "failed"}, Return(c, o)
      PROVE  \E s : Good(s) /\ Becomes(c, s) /\ s.todo = <<>>
  BY <1>2, ReturnBecomes
<1>3. ASSUME NEW calls, Callable(cmd[c], calls), Call(c, calls),
             calls # <<>> => Head(calls) \notin Initdb
      PROVE  \E s : /\ Good(s) /\ Becomes(c, s)
                    /\ s.todo # <<>> => Head(s.todo) \notin Writes /\ Head(s.todo) \notin Initdb
  BY <1>1, <1>3, CallBecomes
<1>4. Callable(cmd[c], <<>>)
  BY DEF Callable
<1>5. \A line \in {"status", "role", "initdb", "spawn", "halt"} :
        Callable(cmd[c], <<line>>) /\ Head(<<line>>) \notin Initdb
  BY DEF Callable, Lineup, Writes, OfProject, Initdb
<1>6. Callable(cmd[c], <<"start", "role">>) /\ Callable(cmd[c], <<"init", "status">>)
      /\ Head(<<"start", "role">>) \notin Initdb /\ Head(<<"init", "status">>) \notin Initdb
  BY DEF Callable, Lineup, Writes, OfProject, Initdb
<1>7. Head(cmd[c].todo) = "exists" => Callable(cmd[c], <<"create">>) /\ Head(<<"create">>) \notin Initdb
  BY DEF Callable, Lineup, Writes, OfProject, Initdb
<1>8. Callable(cmd[c], <<"version">>) /\ Callable(cmd[c], <<"bootstrap">>)
      /\ Head(<<"version">>) = "version" /\ Head(<<"bootstrap">>) = "bootstrap"
  BY DEF Callable, Lineup, Writes, OfProject
<1>9. CASE InitDb(c)
  <2>1. CASE cluster = "none"
    BY <1>1, <1>8, <1>9, <2>1, CallBecomes DEF InitDb, Initdb
  <2>2. CASE cluster # "none"
    BY <1>2, <1>9, <2>2 DEF InitDb
  <2> QED
    BY <2>1, <2>2
<1>10. CASE WriteVersion(c)
  BY <1>1, <1>8, <1>10, CallBecomes DEF WriteVersion, Initdb
<1>11. CASE InitCluster(c) \/ Start(c) \/ Status(c) \/ Stop(c) \/ Bootstrap(c)
  BY <1>3, <1>4, <1>5, <1>6, <1>11 DEF InitCluster, Start, Status, Stop, Bootstrap, Initdb
<1>12. CASE Spawn(c) \/ EnsureRole(c) \/ Create(c) \/ Halt(c)
  BY <1>2, <1>3, <1>4, <1>12 DEF Spawn, EnsureRole, Create, Halt, Initdb
<1>13. CASE Exists(c)
  BY <1>3, <1>4, <1>7, <1>13 DEF Exists, At, Initdb
<1> QED
  BY <1>9, <1>10, <1>11, <1>12, <1>13 DEF Manages

-----------------------------------------------------------------------------
(* Types *)

Making(c) == Running(c) /\ Head(cmd[c].todo) \in Initdb

\* Who makes the cluster does so alone, and finds it as its initdb left it.
Makers ==
  /\ \A c \in Commands : /\ At(c, "version") => cluster = "torn"
                         /\ At(c, "bootstrap") => cluster = "marked"
  /\ \A c, d \in Commands : Making(c) /\ Making(d) => c = d

RowsTyped ==
  /\ rows \in [Projects -> Rows \cup {None}]
  /\ \A p, q \in Projects : rows[p] # None /\ rows[q] # None /\ rows[p].name = rows[q].name => p = q

\* TypeOK but for the commands and the cluster.
DataTyped ==
  /\ roles \subseteq {"root", "user"}
  /\ dbs \subseteq Names
  /\ RowsTyped
  /\ env \in [Projects -> Seq(Lines)]
  /\ linked \subseteq Projects
  /\ mishaps \in 0..MaxMishaps

ClusterTyped ==
  /\ cluster \in {"none", "torn", "marked", "whole"}
  /\ server \in {"down", "up"}
  /\ server = "up" => cluster = "whole"

CmdsGood == cmd \in [Commands -> CmdState] /\ \A c \in Commands : Good(cmd[c])

PgInv == DataTyped /\ ClusterTyped /\ CmdsGood /\ Makers

LEMMA PgInvTypes == PgInv => TypeOK
BY DEF PgInv, TypeOK, DataTyped, RowsTyped, ClusterTyped, CmdsGood

LEMMA PgInit == Init => PgInv
<1> SUFFICES ASSUME Init
             PROVE  PgInv
  OBVIOUS
<1>1. cmd \in [Commands -> CmdState] /\ \A c \in Commands : cmd[c].todo = <<>>
  BY IdleGood DEF Init
<1>2. CmdsGood /\ Makers
  BY <1>1 DEF CmdsGood, Good, Shape, Known, Makers, Making, Running, At
<1>3. DataTyped
  BY PostgresAssumption DEF Init, DataTyped, RowsTyped
<1>4. ClusterTyped
  BY DEF Init, ClusterTyped
<1> QED
  BY <1>2, <1>3, <1>4 DEF PgInv

LEMMA BecomesGood ==
  ASSUME CmdsGood, NEW c \in Commands, NEW s, Good(s), Becomes(c, s)
  PROVE  CmdsGood' /\ cmd'[c] = s /\ \A d \in Commands \ {c} : cmd'[d] = cmd[d]
BY DEF CmdsGood, Becomes, Good

\* Nobody begins to make the cluster, and it stays as it is, or its maker stops.
LEMMA NobodyMakes ==
  ASSUME Makers, NEW c \in Commands, \A d \in Commands \ {c} : Making(d)' => Making(d) /\ cmd'[d].todo = cmd[d].todo,
         ~Making(c)', cluster' = cluster \/ Making(c)
  PROVE  Makers'
<1>1. ASSUME NEW d \in Commands, Making(d)'
      PROVE  d # c /\ Making(d) /\ cmd'[d].todo = cmd[d].todo /\ cluster' = cluster
  BY <1>1 DEF Makers
<1>2. \A d, x \in Commands : Making(d)' /\ Making(x)' => d = x
  BY <1>1 DEF Makers
<1>3. \A d \in Commands : /\ At(d, "version")' => cluster' = "torn"
                          /\ At(d, "bootstrap")' => cluster' = "marked"
  BY <1>1 DEF Makers, Making, At, Running, Initdb
<1> QED
  BY <1>2, <1>3 DEF Makers

LEMMA NamedTyped ==
  ASSUME RowsTyped, NEW p \in Projects, NEW n \in Names, NEW ws \in BOOLEAN, Named(p, n, ws)
  PROVE  RowsTyped'
<1>1. CASE rows[p] = None
  <2>1. rows' = [q \in Projects |-> IF q = p THEN [name |-> n, ws |-> ws]
                                    ELSE IF rows[q] # None /\ rows[q].name = n THEN None ELSE rows[q]]
    BY <1>1 DEF Named
  <2> QED
    BY <2>1 DEF RowsTyped, Rows
<1>2. CASE rows[p] # None
  <2>1. /\ rows' = [rows EXCEPT ![p] = [name |-> n, ws |-> @.ws \/ ws]]
        /\ \A q \in Projects \ {p} : ~(rows[q] # None /\ rows[q].name = n)
    BY <1>2 DEF Named
  <2>2. [name |-> n, ws |-> rows[p].ws \/ ws] \in Rows
    BY DEF Rows
  <2>3. \A q \in Projects \ {p} : rows'[q] = rows[q]
    BY <2>1 DEF RowsTyped
  <2>4. rows'[p] = [name |-> n, ws |-> rows[p].ws \/ ws]
    BY <2>1 DEF RowsTyped
  <2>5. rows' \in [Projects -> Rows \cup {None}]
    BY <2>1, <2>2 DEF RowsTyped
  <2> QED
    BY <2>1, <2>3, <2>4, <2>5 DEF RowsTyped
<1> QED
  BY <1>1, <1>2

\* A command begins with a step that is neither initdb's nor a write.
LEMMA LaunchGood ==
  ASSUME CmdsGood, Makers, NEW c \in Commands, NEW new, Good(new), new.todo # <<>>,
         Head(new.todo) \notin Initdb, cluster' = cluster, Launch(c, new)
  PROVE  CmdsGood' /\ Makers' /\ cmd'[c] = new
         /\ \A d \in Commands \ {c} : cmd'[d].todo = cmd[d].todo
<1>1. /\ cmd' = [d \in Commands |-> IF d = c THEN new ELSE [cmd[d] EXCEPT !.outcome = "none"]]
      /\ \A d \in Commands : Good(cmd[d])
  BY DEF Launch, CmdsGood
<1>2. ASSUME NEW d \in Commands \ {c}
      PROVE  Good(cmd'[d]) /\ cmd'[d].todo = cmd[d].todo
  <2> DEFINE s == [cmd[d] EXCEPT !.outcome = "none"]
  <2>1. s \in CmdState /\ s.todo = cmd[d].todo /\ s.project = cmd[d].project /\ s.name = cmd[d].name
    BY <1>1 DEF Good, CmdState
  <2>2. cmd'[d] = s
    BY <1>1
  <2> HIDE DEF s
  <2> QED
    BY <1>1, <2>1, <2>2 DEF Good, Known
<1>3. cmd'[c] = new
  BY <1>1
<1>4. CmdsGood'
  <2>1. DOMAIN cmd' = Commands /\ cmd' = [d \in Commands |-> cmd'[d]]
    BY <1>1
  <2>2. \A d \in Commands : cmd'[d] \in CmdState /\ Good(cmd'[d])
    BY <1>2, <1>3 DEF Good
  <2> QED
    BY <2>1, <2>2 DEF CmdsGood
<1>5. Makers'
  BY <1>2, <1>3, NobodyMakes DEF Making, Running
<1> QED
  BY <1>2, <1>3, <1>4, <1>5

LEMMA BeginGood ==
  ASSUME PgInv, NEW c \in Commands, Begin(c)
  PROVE  PgInv' /\ ~Writing(c)' /\ \A d \in Commands \ {c} : cmd'[d].todo = cmd[d].todo
<1>1. PICK op \in {"init", "start", "stop"} : Launch(c, [Idle EXCEPT !.op = op, !.todo = <<op>>])
  BY DEF Begin
<1> DEFINE new == [Idle EXCEPT !.op = op, !.todo = <<op>>]
<1>2. <<op>> \in Seq(Lineup) /\ <<op>> # <<>> /\ Head(<<op>>) = op /\ Len(<<op>>) = 1 /\ <<op>>[1] = op
  BY DEF Lineup
<1>3. new \in CmdState /\ new.todo = <<op>>
  BY <1>2, IdleGood DEF CmdState
<1> HIDE DEF new
<1>4. Good(new) /\ new.todo # <<>> /\ Head(new.todo) \notin Initdb
  BY <1>2, <1>3 DEF Good, Shape, Known, Initdb, OfProject
<1>5. CmdsGood' /\ Makers' /\ cmd'[c] = new /\ \A d \in Commands \ {c} : cmd'[d].todo = cmd[d].todo
  BY <1>1, <1>4, LaunchGood DEF PgInv, Begin, new
<1>6. DataTyped' /\ ClusterTyped'
  BY DEF PgInv, Begin, DataTyped, RowsTyped, ClusterTyped
<1>7. ~Writing(c)'
  BY <1>2, <1>3, <1>5 DEF Writing, At
<1> QED
  BY <1>5, <1>6, <1>7 DEF PgInv

LEMMA ConcatShape ==
  ASSUME NEW s \in Seq(Lineup), NEW t \in Seq(Lineup), Shape(s), Shape(t), s # <<>>,
         t[1] \notin Initdb \cup Writes
  PROVE  s \o t \in Seq(Lineup) /\ Shape(s \o t) /\ s \o t # <<>> /\ Head(s \o t) = Head(s)
<1> DEFINE both == s \o t
<1>1. /\ both \in Seq(Lineup) /\ Len(both) = Len(s) + Len(t) /\ Len(s) \in Nat \ {0} /\ Len(t) \in Nat
      /\ \A i \in 1..Len(s) : both[i] = s[i]
      /\ \A i \in (Len(s) + 1)..Len(both) : both[i] = t[i - Len(s)]
  OBVIOUS
<1>2. ASSUME NEW i \in 2..Len(both)
      PROVE  both[i] \notin Initdb /\ (both[i] \in Writes => both[i - 1] = "read")
  <2>1. CASE i \in 1..Len(s)
    <3>1. i \in 2..Len(s) /\ both[i] = s[i] /\ both[i - 1] = s[i - 1]
      BY <1>1, <2>1
    <3> QED
      BY <3>1 DEF Shape
  <2>2. CASE i = Len(s) + 1
    BY <1>1, <2>2
  <2>3. CASE i > Len(s) + 1
    <3>1. /\ i - Len(s) \in 2..Len(t)
          /\ i \in (Len(s) + 1)..Len(both) /\ i - 1 \in (Len(s) + 1)..Len(both)
      BY <1>1, <2>3
    <3>2. both[i] = t[i - Len(s)] /\ both[i - 1] = t[(i - 1) - Len(s)]
      BY <1>1, <3>1
    <3>3. (i - 1) - Len(s) = (i - Len(s)) - 1
      BY <1>1
    <3> QED
      BY <3>1, <3>2, <3>3 DEF Shape
  <2> QED
    BY <1>1, <2>1, <2>2, <2>3
<1> QED
  BY <1>1, <1>2 DEF Shape

LEMMA BeginLinkGood ==
  ASSUME PgInv, NEW c \in Commands, NEW p \in Projects, BeginLink(c, p)
  PROVE  PgInv' /\ ~Writing(c)' /\ \A d \in Commands \ {c} : cmd'[d].todo = cmd[d].todo
<1> DEFINE n(option) == IF option # None THEN option ELSE IF rows[p] = None THEN BaseName[p] ELSE rows[p].name
           todo == <<"start", "exists", "read", "write">> \o (IF rows'[p].ws THEN <<"read", "writeWs">> ELSE <<>>)
           new(name) == [Idle EXCEPT !.op = "link", !.project = p, !.name = name, !.keys = {"APP", "DB"},
                           !.todo = todo]
<1>1. PICK option \in Names \cup {None}, ws \in BOOLEAN :
        Named(p, n(option), ws) /\ Launch(c, new(n(option)))
  BY DEF BeginLink
<1>2. n(option) \in Names
  BY PostgresAssumption DEF PgInv, DataTyped, RowsTyped, Rows
<1>3. RowsTyped'
  BY <1>1, <1>2, NamedTyped DEF PgInv, DataTyped
<1>4. /\ todo \in Seq(Lineup) /\ todo # <<>> /\ Head(todo) = "start" /\ Shape(todo)
  <2> DEFINE base == <<"start", "exists", "read", "write">>
             more == <<"read", "writeWs">>
  <2>1. /\ base \in Seq(Lineup) /\ base # <<>> /\ Head(base) = "start" /\ Shape(base)
        /\ more \in Seq(Lineup) /\ Shape(more) /\ more[1] = "read"
    BY DEF Lineup, Shape, Initdb, Writes
  <2>2. todo = base \o more \/ todo = base \o <<>>
    OBVIOUS
  <2> HIDE DEF base, more, todo
  <2>3. CASE todo = base \o more
    BY <2>1, <2>3, ConcatShape DEF Initdb, Writes
  <2>4. CASE todo = base \o <<>>
    BY <2>1, <2>4
  <2> QED
    BY <2>2, <2>3, <2>4
<1> HIDE DEF n, todo
<1> DEFINE s == new(n(option))
<1>5. s \in CmdState /\ s.todo = todo /\ s.project = p /\ s.name = n(option)
  BY <1>2, <1>4, IdleGood DEF CmdState, Keys
<1>6. Launch(c, s)
  BY <1>1
<1> HIDE DEF s
<1>7. Good(s) /\ s.todo # <<>> /\ Head(s.todo) \notin Initdb /\ Head(s.todo) \notin Writes
  BY <1>2, <1>4, <1>5 DEF Good, Known, Initdb, Writes
<1>8. CmdsGood' /\ Makers' /\ cmd'[c] = s /\ \A d \in Commands \ {c} : cmd'[d].todo = cmd[d].todo
  BY <1>6, <1>7, LaunchGood DEF PgInv, BeginLink
<1>9. DataTyped' /\ ClusterTyped'
  BY <1>3 DEF PgInv, BeginLink, DataTyped, ClusterTyped
<1>10. ~Writing(c)'
  BY <1>7, <1>8 DEF Writing, At, Writes
<1> QED
  BY <1>8, <1>9, <1>10 DEF PgInv

LEMMA BeginEnvGood ==
  ASSUME PgInv, NEW c \in Commands, NEW p \in Projects, BeginEnv(c, p)
  PROVE  PgInv' /\ ~Writing(c)' /\ \A d \in Commands \ {c} : cmd'[d].todo = cmd[d].todo
<1>1. PICK keys \in SUBSET {"DB", "WS"} :
        Launch(c, [Idle EXCEPT !.op = "env", !.project = p, !.name = rows[p].name,
                     !.todo = <<"read", "write">>, !.keys = keys \cup {"APP"}])
  BY DEF BeginEnv
<1> DEFINE new == [Idle EXCEPT !.op = "env", !.project = p, !.name = rows[p].name,
                     !.todo = <<"read", "write">>, !.keys = keys \cup {"APP"}]
<1>2. rows[p].name \in Names
  BY DEF PgInv, DataTyped, RowsTyped, Rows, BeginEnv
<1>3. /\ <<"read", "write">> \in Seq(Lineup) /\ <<"read", "write">> # <<>> /\ Head(<<"read", "write">>) = "read"
      /\ Shape(<<"read", "write">>)
  BY DEF Lineup, Shape, Initdb, Writes
<1>4. new \in CmdState /\ new.todo = <<"read", "write">> /\ new.project = p /\ new.name = rows[p].name
  BY <1>2, <1>3, IdleGood DEF CmdState, Keys
<1> HIDE DEF new
<1>5. Good(new) /\ new.todo # <<>> /\ Head(new.todo) \notin Initdb
  BY <1>2, <1>3, <1>4 DEF Good, Known, Initdb
<1>6. CmdsGood' /\ Makers' /\ cmd'[c] = new /\ \A d \in Commands \ {c} : cmd'[d].todo = cmd[d].todo
  BY <1>1, <1>5, LaunchGood DEF PgInv, BeginEnv, new
<1>7. DataTyped' /\ ClusterTyped'
  BY DEF PgInv, BeginEnv, DataTyped, RowsTyped, ClusterTyped
<1>8. ~Writing(c)'
  BY <1>3, <1>4, <1>6 DEF Writing, At
<1> QED
  BY <1>6, <1>7, <1>8 DEF PgInv

LEMMA FailGood ==
  ASSUME PgInv, NEW c \in Commands, Fail(c)
  PROVE  PgInv' /\ ~Writing(c)' /\ \A d \in Commands \ {c} : cmd'[d] = cmd[d]
<1> DEFINE s == [Idle EXCEPT !.op = cmd[c].op, !.outcome = "failed", !.clean = FALSE]
<1>1. Becomes(c, s)
  BY DEF Fail, Becomes
<1>2. s \in CmdState /\ s.todo = <<>>
  BY IdleGood DEF PgInv, CmdsGood, CmdState
<1> HIDE DEF s
<1>3. Good(s)
  BY <1>2 DEF Good, Shape, Known
<1>4. CmdsGood' /\ cmd'[c] = s /\ \A d \in Commands \ {c} : cmd'[d] = cmd[d]
  BY <1>1, <1>3, BecomesGood DEF PgInv
<1>5. cluster' = cluster \/ (Making(c) /\ cluster' = "none" /\ server # "up")
  BY DEF Fail, At, Making, Initdb, PgInv, ClusterTyped, Makers
<1>6. Makers'
  BY <1>2, <1>4, <1>5, NobodyMakes DEF Making, Running, PgInv
<1>7. DataTyped'
  <2>1. env' \in [Projects -> Seq(Lines)]
    <3>1. env' = env \/ env' = [env EXCEPT ![cmd[c].project] = <<>>]
      BY DEF Fail
    <3>2. env \in [Projects -> Seq(Lines)] /\ <<>> \in Seq(Lines)
      BY DEF PgInv, DataTyped
    <3> QED
      BY <3>1, <3>2
  <2>2. mishaps' \in 0..MaxMishaps
    BY PostgresAssumption DEF Fail, Mishap, PgInv, DataTyped
  <2> QED
    BY <2>1, <2>2 DEF Fail, PgInv, DataTyped, RowsTyped
<1>8. ClusterTyped'
  BY <1>5 DEF Fail, PgInv, ClusterTyped
<1> QED
  BY <1>2, <1>4, <1>6, <1>7, <1>8 DEF PgInv, Writing, At, Running

LEMMA ManagesGood ==
  ASSUME PgInv, NEW c \in Commands, Manages(c)
  PROVE  PgInv' /\ ~Writing(c)' /\ \A d \in Commands \ {c} : cmd'[d] = cmd[d]
<1>1. PICK s : /\ Good(s) /\ Becomes(c, s)
               /\ s.todo # <<>> => Head(s.todo) \notin Writes
               /\ s.todo # <<>> /\ Head(s.todo) = "version" => InitDb(c) /\ cluster = "none"
               /\ s.todo # <<>> /\ Head(s.todo) = "bootstrap" => WriteVersion(c)
  BY ManagesBecomes DEF PgInv, CmdsGood
<1>2. CmdsGood' /\ cmd'[c] = s /\ \A d \in Commands \ {c} : cmd'[d] = cmd[d]
  BY <1>1, BecomesGood DEF PgInv
<1>3. ~Writing(c)'
  BY <1>1, <1>2 DEF Writing, At, Running, Writes
<1>4. DataTyped'
  <2>1. Exists(c) \/ Create(c) => cmd[c].name \in Names
    <3>1. ASSUME Exists(c) \/ Create(c)
          PROVE  Len(cmd[c].todo) >= 1 /\ cmd[c].todo[1] \in OfProject
      BY <3>1 DEF Exists, Create, At, Running, PgInv, CmdsGood, CmdState, OfProject
    <3> QED
      BY <3>1 DEF PgInv, CmdsGood, Good, Known
  <2> QED
    BY <2>1 DEF Manages, InitCluster, InitDb, WriteVersion, Bootstrap, Start, Status, Spawn, EnsureRole,
       Exists, Create, Stop, Halt, PgInv, DataTyped, RowsTyped
<1>5. /\ At(c, "version") => cluster = "torn" /\ server # "up" /\ Making(c)
      /\ At(c, "bootstrap") => cluster = "marked" /\ server # "up" /\ Making(c)
  BY DEF PgInv, Makers, ClusterTyped, Making, At, Initdb
<1>6. ClusterTyped'
  BY <1>5 DEF Manages, InitCluster, InitDb, WriteVersion, Bootstrap, Start, Status, Spawn, EnsureRole,
     Exists, Create, Stop, Halt, PgInv, ClusterTyped
<1>7. cluster' = cluster \/ (InitDb(c) /\ cluster = "none" /\ cluster' = "torn")
        \/ (WriteVersion(c) /\ cluster' = "marked") \/ Bootstrap(c)
  BY DEF Manages, InitCluster, InitDb, WriteVersion, Bootstrap, Start, Status, Spawn, EnsureRole,
     Exists, Create, Stop, Halt
<1>8. Makers'
  <2>1. CASE ~Making(c)' /\ (cluster' = cluster \/ Making(c))
    BY <1>2, <2>1, NobodyMakes DEF PgInv, Making, Running
  <2>2. CASE InitDb(c) /\ cluster = "none"
    <3>1. \A d \in Commands : ~Making(d)
      BY <2>2 DEF PgInv, Makers, Making, At, Initdb
    <3>2. \A d \in Commands \ {c} : ~Making(d)'
      BY <1>2, <3>1 DEF Making, Running
    <3>3. cluster' = "torn" /\ ~At(c, "bootstrap")'
      BY <1>1, <1>2, <2>2 DEF InitDb, WriteVersion, At, Running
    <3> QED
      BY <3>2, <3>3 DEF Makers, Making, At, Running, Initdb
  <2>3. CASE WriteVersion(c)
    <3>1. \A d \in Commands \ {c} : ~Making(d)
      BY <1>5, <2>3 DEF PgInv, Makers, WriteVersion
    <3>2. \A d \in Commands \ {c} : ~Making(d)'
      BY <1>2, <3>1 DEF Making, Running
    <3>3. cluster' = "marked" /\ ~At(c, "version")'
      BY <1>1, <1>2, <2>3 DEF InitDb, WriteVersion, At, Running
    <3> QED
      BY <3>2, <3>3 DEF Makers, Making, At, Running, Initdb
  <2>4. Making(c)' => (InitDb(c) /\ cluster = "none") \/ WriteVersion(c)
    BY <1>1, <1>2 DEF Making, Running, Initdb
  <2>5. Bootstrap(c) => Making(c)
    BY <1>5 DEF Bootstrap
  <2> QED
    BY <1>7, <2>1, <2>2, <2>3, <2>4, <2>5
<1> QED
  BY <1>2, <1>3, <1>4, <1>6, <1>8 DEF PgInv

\* What a lookup that fails leaves to do.
LEMMA LookupLeaves ==
  ASSUME PgInv, NEW c \in Commands, LookupFails(c)
  PROVE  /\ Running(c) /\ Head(cmd[c].todo) = "exists" /\ Callable(cmd[c], <<"create">>)
         /\ cmd'[c] = [cmd[c] EXCEPT !.todo = <<"create">> \o Tail(cmd[c].todo), !.clean = FALSE]
         /\ cmd'[c].todo = <<"create">> \o Tail(cmd[c].todo) /\ cmd'[c].clean = FALSE
         /\ \A f \in {"op", "project", "name", "keys", "lines", "outcome"} : cmd'[c][f] = cmd[c][f]
         /\ \A d \in Commands \ {c} : cmd'[d] = cmd[d]
<1>1. Running(c) /\ Head(cmd[c].todo) = "exists" /\ cmd \in [Commands -> CmdState]
  BY DEF LookupFails, At, PgInv, CmdsGood
<1>2. Callable(cmd[c], <<"create">>)
  BY <1>1 DEF Callable, Lineup, Writes, OfProject, Initdb
<1>3. /\ cmd'[c] = [cmd[c] EXCEPT !.todo = <<"create">> \o Tail(cmd[c].todo), !.clean = FALSE]
      /\ \A d \in Commands \ {c} : cmd'[d] = cmd[d]
  BY <1>1 DEF LookupFails
<1> QED
  BY <1>1, <1>2, <1>3 DEF CmdState

LEMMA LookupFailsGood ==
  ASSUME PgInv, NEW c \in Commands, LookupFails(c)
  PROVE  PgInv' /\ ~Writing(c)' /\ \A d \in Commands \ {c} : cmd'[d] = cmd[d]
<1> DEFINE todo == <<"create">> \o Tail(cmd[c].todo)
           s == [cmd[c] EXCEPT !.todo = todo, !.clean = FALSE]
<1>1. /\ cmd \in [Commands -> CmdState] /\ Good(cmd[c]) /\ cmd[c].todo # <<>> /\ Head(cmd[c].todo) = "exists"
      /\ Callable(cmd[c], <<"create">>) /\ \A d \in Commands \ {c} : cmd'[d] = cmd[d]
  BY LookupLeaves DEF PgInv, CmdsGood, Running
<1>2. /\ todo \in Seq(Lineup) /\ Shape(todo)
      /\ todo # <<>> => Head(todo) \notin Writes
      /\ todo # <<>> /\ Head(todo) \in Initdb => Head(<<"create">>) = Head(todo)
      /\ \A i \in 1..Len(todo) : todo[i] \in OfProject =>
           \E j \in 1..Len(cmd[c].todo) : cmd[c].todo[j] \in OfProject
  <2>1. Head(cmd[c].todo) # "read"
    BY <1>1
  <2> QED
    BY <1>1, <2>1, CallShape
<1>3. Becomes(c, s)
  BY <1>1 DEF LookupFails, Becomes
<1> HIDE DEF todo
<1>4. s \in CmdState /\ s.todo = todo /\ s.project = cmd[c].project /\ s.name = cmd[c].name
  BY <1>1, <1>2 DEF Good, CmdState
<1> HIDE DEF s
<1>5. Good(s)
  BY <1>1, <1>2, <1>4 DEF Good, Known
<1>6. CmdsGood' /\ cmd'[c] = s
  BY <1>3, <1>5, BecomesGood DEF PgInv
<1>7. ~Writing(c)' /\ ~Making(c)'
  BY <1>2, <1>4, <1>6 DEF Writing, Making, At, Running, Writes, Initdb
<1>8. Makers'
  BY <1>1, <1>7, NobodyMakes DEF PgInv, Making, Running, LookupFails
<1>9. mishaps' \in 0..MaxMishaps
  BY PostgresAssumption DEF LookupFails, Mishap, PgInv, DataTyped
<1>10. DataTyped' /\ ClusterTyped'
  BY <1>9 DEF LookupFails, PgInv, DataTyped, RowsTyped, ClusterTyped
<1> QED
  BY <1>1, <1>6, <1>7, <1>8, <1>10 DEF PgInv

LEMMA ReadGood ==
  ASSUME PgInv, NEW c \in Commands, ReadFile(c)
  PROVE  PgInv' /\ cmd'[c].lines = env[cmd'[c].project] /\ \A d \in Commands \ {c} : cmd'[d] = cmd[d]
<1> DEFINE old == cmd[c].todo
           lines == env[cmd[c].project]
           s == [cmd[c] EXCEPT !.lines = lines, !.todo = Tail(old)]
<1>1. Good(cmd[c]) /\ cmd[c] \in CmdState /\ cmd \in [Commands -> CmdState] /\ old # <<>> /\ Head(old) = "read"
  BY DEF PgInv, CmdsGood, ReadFile, At, Running
<1>2. Becomes(c, s)
  BY <1>1 DEF ReadFile, Becomes
<1>3. /\ old \in Seq(Lineup) /\ Len(old) \in Nat \ {0} /\ old[1] = "read" /\ Shape(old)
      /\ Tail(old) \in Seq(Lineup) /\ Len(Tail(old)) = Len(old) - 1
      /\ \A i \in 1..(Len(old) - 1) : Tail(old)[i] = old[i + 1]
  BY <1>1 DEF Good, CmdState
<1>4. cmd[c].project \in Projects /\ cmd[c].name \in Names
  BY <1>1, <1>3 DEF Good, Known, OfProject
<1>5. lines \in Seq(Lines)
  BY <1>4 DEF PgInv, DataTyped
<1>6. /\ s \in CmdState /\ s.todo = Tail(old) /\ s.lines = lines
      /\ s.project = cmd[c].project /\ s.name = cmd[c].name
  BY <1>1, <1>3, <1>5 DEF CmdState
<1> HIDE DEF s, old, lines
<1>7. Shape(Tail(old))
  <2>1. ASSUME NEW i \in 2..Len(Tail(old))
        PROVE  Tail(old)[i] = old[i + 1] /\ Tail(old)[i - 1] = old[i] /\ i + 1 \in 2..Len(old) /\ i = (i + 1) - 1
    <3>1. i \in 1..(Len(old) - 1) /\ i - 1 \in 1..(Len(old) - 1) /\ (i - 1) + 1 = i
      BY <1>3
    <3>2. Tail(old)[i - 1] = old[(i - 1) + 1]
      BY <1>3, <3>1
    <3> QED
      BY <1>3, <3>1, <3>2
  <2> QED
    BY <1>3, <2>1 DEF Shape
<1>8. Good(s)
  BY <1>4, <1>6, <1>7 DEF Good, Known
<1>9. CmdsGood' /\ cmd'[c] = s /\ \A d \in Commands \ {c} : cmd'[d] = cmd[d]
  BY <1>2, <1>8, BecomesGood DEF PgInv
<1>10. Head(Tail(old)) \notin Initdb \/ Tail(old) = <<>>
  BY <1>3 DEF Shape
<1>11. Makers'
  BY <1>6, <1>9, <1>10, NobodyMakes DEF PgInv, Making, Running, ReadFile
<1>12. DataTyped' /\ ClusterTyped'
  BY DEF PgInv, DataTyped, RowsTyped, ClusterTyped, ReadFile
<1> QED
  BY <1>6, <1>9, <1>11, <1>12 DEF PgInv, lines

LEMMA WriteGood ==
  ASSUME PgInv, NEW c \in Commands, WriteFile(c)
  PROVE  /\ PgInv' /\ ~Writing(c)' /\ \A d \in Commands \ {c} : cmd'[d] = cmd[d]
         /\ cmd[c].project \in Projects
         /\ \E new \in Seq(Lines) : /\ env' = [env EXCEPT ![cmd[c].project] = new]
                                    /\ KeepsLines(cmd[c].lines, new)
<1> DEFINE keys == IF At(c, "write") THEN cmd[c].keys ELSE {"WS"}
           values == [k \in keys |-> cmd[c].name]
           new == ApplyEnv(cmd[c].lines, values)
<1>1. Good(cmd[c]) /\ cmd[c] \in CmdState /\ cmd \in [Commands -> CmdState]
      /\ cmd[c].todo # <<>> /\ Head(cmd[c].todo) \in Writes
  BY DEF PgInv, CmdsGood, WriteFile, Writing, At, Running, Writes, Good
<1>2. cmd[c].project \in Projects /\ cmd[c].name \in Names
  <2>1. Len(cmd[c].todo) >= 1 /\ cmd[c].todo[1] \in OfProject
    BY <1>1 DEF CmdState, Writes, OfProject
  <2> QED
    BY <1>1, <2>1 DEF Good, Known
<1>3. keys \in SUBSET Keys /\ values \in [keys -> Names]
  BY <1>1, <1>2 DEF CmdState, Keys
<1>4. values \in Values
  BY <1>3 DEF Values
<1>5. env' = [env EXCEPT ![cmd[c].project] = new]
  BY DEF WriteFile
<1>6. new \in Seq(Lines) /\ KeepsLines(cmd[c].lines, new)
  <2>1. cmd[c].lines \in Seq(Lines)
    BY <1>1 DEF CmdState
  <2> HIDE DEF values
  <2> QED
    BY <1>4, <2>1, ApplyEnvKeeps
<1> HIDE DEF new, values, keys
<1>7. PICK s : /\ Good(s) /\ Becomes(c, s)
               /\ s.todo # <<>> => Head(s.todo) \notin Writes
               /\ s.todo # <<>> => Head(s.todo) \notin Initdb
  <2>1. Callable(cmd[c], <<>>)
    BY DEF Callable
  <2>2. Call(c, <<>>) /\ Head(cmd[c].todo) # "read"
    BY <1>1 DEF WriteFile, Writes
  <2> QED
    BY <1>1, <2>1, <2>2, CallBecomes
<1>8. CmdsGood' /\ cmd'[c] = s /\ \A d \in Commands \ {c} : cmd'[d] = cmd[d]
  BY <1>7, BecomesGood DEF PgInv
<1>9. Makers'
  BY <1>7, <1>8, NobodyMakes DEF PgInv, Making, Running, WriteFile
<1>10. DataTyped'
  <2>1. linked' \subseteq Projects
    BY <1>2 DEF PgInv, DataTyped, WriteFile
  <2>2. env' \in [Projects -> Seq(Lines)]
    BY <1>5, <1>6 DEF PgInv, DataTyped
  <2> QED
    BY <2>1, <2>2 DEF PgInv, DataTyped, RowsTyped, WriteFile
<1>11. ClusterTyped'
  BY DEF PgInv, ClusterTyped, WriteFile
<1>12. ~Writing(c)'
  BY <1>7, <1>8 DEF Writing, At, Running, Writes
<1> QED
  BY <1>2, <1>5, <1>6, <1>8, <1>9, <1>10, <1>11, <1>12 DEF PgInv

LEMMA CrashGood ==
  ASSUME PgInv, Crash
  PROVE  PgInv' /\ \A d \in Commands : cmd'[d].todo = cmd[d].todo /\ cmd'[d].lines = cmd[d].lines
                                       /\ cmd'[d].project = cmd[d].project
<1>1. ASSUME NEW d \in Commands
      PROVE  /\ Good(cmd'[d]) /\ cmd'[d].todo = cmd[d].todo
             /\ cmd'[d].lines = cmd[d].lines /\ cmd'[d].project = cmd[d].project
  <2> DEFINE s == [cmd[d] EXCEPT !.clean = FALSE]
  <2>1. cmd'[d] = s
    BY DEF Crash
  <2>2. /\ s \in CmdState /\ s.todo = cmd[d].todo /\ s.lines = cmd[d].lines
        /\ s.project = cmd[d].project /\ s.name = cmd[d].name
    BY DEF PgInv, CmdsGood, CmdState
  <2> HIDE DEF s
  <2> QED
    BY <2>1, <2>2 DEF PgInv, CmdsGood, Good, Known
<1>2. CmdsGood'
  <2>1. DOMAIN cmd' = Commands /\ cmd' = [d \in Commands |-> cmd'[d]]
    BY DEF Crash
  <2>2. \A d \in Commands : cmd'[d] \in CmdState /\ Good(cmd'[d])
    BY <1>1 DEF Good
  <2> QED
    BY <2>1, <2>2 DEF CmdsGood
<1>3. Makers'
  BY <1>1 DEF PgInv, Makers, Making, Running, At, Crash
<1>4. DataTyped' /\ ClusterTyped'
  BY PostgresAssumption DEF PgInv, DataTyped, RowsTyped, ClusterTyped, Crash, Mishap
<1> QED
  BY <1>1, <1>2, <1>3, <1>4 DEF PgInv

LEMMA EditGood == ASSUME PgInv, NEW p \in Projects, Edit(p)
                  PROVE  PgInv'
<1>1. PICK file \in EnvFiles : env' = [env EXCEPT ![p] = file]
  BY DEF Edit
<1>2. file \in Seq(Lines)
  BY PostgresAssumption
<1>3. DataTyped'
  BY <1>1, <1>2 DEF PgInv, DataTyped, RowsTyped, Edit
<1>4. ClusterTyped' /\ CmdsGood' /\ Makers'
  BY DEF PgInv, ClusterTyped, CmdsGood, Makers, Making, Running, At, Edit
<1> QED
  BY <1>3, <1>4 DEF PgInv

LEMMA PgStep == PgInv /\ [Next]_vars => PgInv'
<1> SUFFICES ASSUME PgInv, [Next]_vars
             PROVE  PgInv'
  OBVIOUS
<1>1. ASSUME NEW c \in Commands, Step(c)
      PROVE  PgInv'
  BY <1>1, BeginGood, FailGood, BeginLinkGood, BeginEnvGood, ManagesGood, LookupFailsGood,
     ReadGood, WriteGood DEF Step, Manages
<1>2. CASE UNCHANGED vars
  BY <1>2 DEF vars, PgInv, DataTyped, RowsTyped, ClusterTyped, CmdsGood, Makers, Making, Running, At
<1> QED
  BY <1>1, <1>2, CrashGood, EditGood DEF Next

(***************************************************************************)
(* Every variable keeps its type, no two projects have one name, and no    *)
(* server runs on a cluster that initdb has not finished, however the      *)
(* commands overlap and whatever fails.                                    *)
(***************************************************************************)
THEOREM PostgresTypeCorrect == Spec => []TypeOK
BY PgInit, PgStep, PgInvTypes, PTL DEF Spec

-----------------------------------------------------------------------------
(* The lines of the user *)

OneRuns == \A c, d \in Commands : Running(c) /\ Running(d) => c = d

\* Whoever is about to write has the file as it is.
Fresh == \A c \in Commands : Writing(c) => cmd[c].lines = env[cmd[c].project]

LinesInv == PgInv /\ OneRuns /\ Fresh

LEMMA LinesInit == Init => LinesInv
<1>1. Init => \A c \in Commands : ~Running(c)
  BY IdleGood DEF Init, Running
<1> QED
  BY <1>1, PgInit DEF LinesInv, OneRuns, Fresh, Writing, At

\* One command moves, the others have nothing to do.
LEMMA LinesMove ==
  ASSUME LinesInv, PgInv', NEW c \in Commands, \A d \in Commands \ {c} : ~Running(d)',
         Writing(c)' => cmd'[c].lines = env'[cmd'[c].project]
  PROVE  LinesInv'
BY DEF LinesInv, OneRuns, Fresh, Writing, At

LEMMA LinesStep ==
  ASSUME LinesInv, [Next]_vars, Faults \cap {"overlap", "edit", "tear"} = {}
  PROVE  LinesInv' /\ \A p \in Projects : Edit(p) \/ KeepsLines(env[p], env'[p])
<1>1. PgInv /\ PgInv' /\ env \in [Projects -> Seq(Lines)]
  BY PgStep DEF LinesInv, PgInv, DataTyped
<1>2. env' = env => \A p \in Projects : KeepsLines(env[p], env'[p])
  BY <1>1, KeptAsItIs
<1>3. ASSUME NEW c \in Commands, Begin(c) \/ \E p \in Projects : BeginLink(c, p) \/ BeginEnv(c, p)
      PROVE  LinesInv' /\ env' = env
  <2>1. ~Writing(c)' /\ \A d \in Commands \ {c} : cmd'[d].todo = cmd[d].todo
    BY <1>1, <1>3, BeginGood, BeginLinkGood, BeginEnvGood
  <2>2. \A d \in Commands : ~Running(d)
    BY <1>3 DEF Begin, BeginLink, BeginEnv, Launch, AllIdle
  <2>3. \A d \in Commands \ {c} : ~Running(d)'
    BY <2>1, <2>2 DEF Running
  <2>4. env' = env
    BY <1>3 DEF Begin, BeginLink, BeginEnv
  <2> QED
    BY <1>1, <2>1, <2>3, <2>4, LinesMove
<1>4. ASSUME NEW c \in Commands, Fail(c) \/ Manages(c) \/ LookupFails(c)
      PROVE  LinesInv' /\ env' = env
  <2>1. ~Writing(c)' /\ \A d \in Commands \ {c} : cmd'[d] = cmd[d]
    BY <1>1, <1>4, FailGood, ManagesGood, LookupFailsGood
  <2>2. Running(c)
    BY <1>4 DEF Fail, Manages, LookupFails, InitCluster, InitDb, WriteVersion, Bootstrap, Start, Status, Spawn,
       EnsureRole, Exists, Create, Stop, Halt, At
  <2>3. \A d \in Commands \ {c} : ~Running(d)'
    BY <2>1, <2>2 DEF LinesInv, OneRuns, Running
  <2>4. env' = env
    BY <1>4 DEF Fail, Manages, LookupFails, InitCluster, InitDb, WriteVersion, Bootstrap, Start, Status, Spawn,
       EnsureRole, Exists, Create, Stop, Halt
  <2> QED
    BY <1>1, <2>1, <2>3, <2>4, LinesMove
<1>5. ASSUME NEW c \in Commands, ReadFile(c)
      PROVE  LinesInv' /\ env' = env
  <2>1. /\ cmd'[c].lines = env[cmd'[c].project] /\ env' = env
        /\ \A d \in Commands \ {c} : cmd'[d] = cmd[d]
    BY <1>1, <1>5, ReadGood DEF ReadFile
  <2>2. \A d \in Commands \ {c} : ~Running(d)'
    BY <1>5, <2>1 DEF LinesInv, OneRuns, Running, ReadFile, At
  <2> QED
    BY <1>1, <2>1, <2>2, LinesMove
<1>6. ASSUME NEW c \in Commands, WriteFile(c)
      PROVE  LinesInv' /\ \A p \in Projects : KeepsLines(env[p], env'[p])
  <2>1. ~Writing(c)' /\ \A d \in Commands \ {c} : cmd'[d] = cmd[d]
    BY <1>1, <1>6, WriteGood
  <2>2. PICK new \in Seq(Lines) : /\ env' = [env EXCEPT ![cmd[c].project] = new]
                                  /\ KeepsLines(cmd[c].lines, new)
    BY <1>1, <1>6, WriteGood
  <2>3. cmd[c].lines = env[cmd[c].project] /\ cmd[c].project \in Projects
    BY <1>1, <1>6, WriteGood DEF LinesInv, Fresh, WriteFile
  <2>4. \A p \in Projects : KeepsLines(env[p], env'[p])
    BY <1>1, <2>2, <2>3, KeptAsItIs
  <2>5. \A d \in Commands \ {c} : ~Running(d)'
    BY <1>6, <2>1 DEF LinesInv, OneRuns, Running, WriteFile, Writing, At
  <2> QED
    BY <1>1, <2>1, <2>4, <2>5, LinesMove
<1>7. CASE Crash
  <2>1. \A d \in Commands : cmd'[d].todo = cmd[d].todo /\ cmd'[d].lines = cmd[d].lines
                            /\ cmd'[d].project = cmd[d].project
    BY <1>1, <1>7, CrashGood
  <2>2. env' = env
    BY <1>7 DEF Crash
  <2>3. LinesInv'
    BY <1>1, <2>1, <2>2 DEF LinesInv, OneRuns, Fresh, Writing, At, Running
  <2> QED
    BY <1>2, <2>2, <2>3
<1>8. ASSUME NEW p \in Projects, Edit(p)
      PROVE  LinesInv' /\ \A q \in Projects : Edit(q) \/ KeepsLines(env[q], env'[q])
  <2>1. (\A c \in Commands : ~Running(c)) /\ cmd' = cmd
    BY <1>8 DEF Edit, AllIdle
  <2>2. LinesInv'
    BY <1>1, <2>1 DEF LinesInv, OneRuns, Fresh, Writing, At, Running
  <2>3. \A q \in Projects \ {p} : env'[q] = env[q]
    BY <1>1, <1>8 DEF Edit
  <2> QED
    BY <1>1, <1>8, <2>2, <2>3, KeptAsItIs
<1>9. CASE UNCHANGED vars
  <2>1. env' = env /\ cmd' = cmd
    BY <1>9 DEF vars
  <2>2. LinesInv'
    BY <1>1, <2>1 DEF LinesInv, OneRuns, Fresh, Writing, At, Running
  <2> QED
    BY <1>2, <2>1, <2>2
<1> QED
  BY <1>2, <1>3, <1>4, <1>5, <1>6, <1>7, <1>8, <1>9 DEF Next, Step, Manages

(***************************************************************************)
(* For any file, any keys and any number of projects, no command removes a *)
(* line or touches one of the user's, as long as commands follow one       *)
(* another, the user does not save the file under them and none dies in    *)
(* the middle of a write.                                                  *)
(***************************************************************************)
THEOREM LinesOfTheUserSurvive ==
  ASSUME Faults \cap {"overlap", "edit", "tear"} = {}
  PROVE  Spec => UserLinesSurvive
<1>1. LinesInv /\ [Next]_vars => LinesInv'
  BY LinesStep
<1>2. LinesInv /\ [Next]_vars => [\A p \in Projects : Edit(p) \/ KeepsLines(env[p], env'[p])]_vars
  BY LinesStep
<1> QED
  BY <1>1, <1>2, LinesInit, PTL DEF Spec, UserLinesSurvive

-----------------------------------------------------------------------------
(* The databases of linked projects *)

Awaits(c, line) == \E i \in 1..Len(cmd[c].todo) : cmd[c].todo[i] = line

OnProject(c) == \E i \in 1..Len(cmd[c].todo) : cmd[c].todo[i] \in OfProject

\* The file of p names the database n, and no other.
NamesIt(p, n) == \A k \in {"APP", "DB"} : ValuesOf(env[p], k) = {n}

\* A command of a project has the name that the project has.
RightName(c) ==
  OnProject(c) => /\ cmd[c].op \in {"link", "env"}
                  /\ rows[cmd[c].project] # None /\ rows[cmd[c].project].name = cmd[c].name

\* What a link has behind it is done.
Underway(c) ==
  OnProject(c) /\ cmd[c].op = "link" =>
    /\ cmd[c].project \notin linked
    /\ cmd[c].keys = {"APP", "DB"}
    /\ Awaits(c, "exists") \/ Awaits(c, "create") \/ cmd[c].name \in dbs
    /\ Awaits(c, "write") \/ NamesIt(cmd[c].project, cmd[c].name)

LinksKept ==
  \A p \in linked : rows[p] # None /\ rows[p].name \in dbs /\ NamesIt(p, rows[p].name)

LinkInv == LinesInv /\ LinksKept /\ \A c \in Commands : RightName(c) /\ Underway(c)

LEMMA LinkInvHolds == LinkInv => LinkedHasDatabase
<1> SUFFICES ASSUME LinkInv
             PROVE  LinkedHasDatabase
  OBVIOUS
<1>1. RowsTyped /\ linked \subseteq Projects
  BY DEF LinkInv, LinesInv, PgInv, DataTyped
<1>2. ASSUME NEW p \in linked, NEW q \in linked \ {p}
      PROVE  ValuesOf(env[p], "DB") # ValuesOf(env[q], "DB")
  <2>1. rows[p].name # rows[q].name
    BY <1>1 DEF LinkInv, LinksKept, RowsTyped
  <2>2. ValuesOf(env[p], "DB") = {rows[p].name} /\ ValuesOf(env[q], "DB") = {rows[q].name}
    BY DEF LinkInv, LinksKept, NamesIt
  <2> QED
    BY <2>1, <2>2
<1> QED
  BY <1>2 DEF LinkInv, LinksKept, NamesIt, LinkedHasDatabase

LEMMA IdleIsOff == ASSUME CmdsGood, NEW c \in Commands, ~Running(c)
                   PROVE  ~OnProject(c)
<1>1. Len(cmd[c].todo) = 0
  BY DEF Running
<1> QED
  BY <1>1 DEF OnProject

LEMMA LinkInit == Init => LinkInv
<1> SUFFICES ASSUME Init
             PROVE  LinkInv
  OBVIOUS
<1>1. LinesInv
  BY LinesInit
<1>2. \A c \in Commands : ~OnProject(c)
  BY <1>1, IdleGood, IdleIsOff DEF Init, Running, LinesInv, PgInv
<1> QED
  BY <1>1, <1>2 DEF LinkInv, LinksKept, RightName, Underway, Init

\* One command moves, the others have nothing to do.
LEMMA LinkMove ==
  ASSUME LinesInv', NEW c \in Commands, \A d \in Commands \ {c} : ~Running(d)',
         LinksKept', RightName(c)', Underway(c)'
  PROVE  LinkInv'
<1>1. ASSUME NEW d \in Commands \ {c}
      PROVE  RightName(d)' /\ Underway(d)'
  <2>1. Len(cmd'[d].todo) = 0
    BY <1>1 DEF Running
  <2> QED
    BY <2>1 DEF RightName, Underway, OnProject
<1> QED
  BY <1>1 DEF LinkInv

\* The rest of a lineup waits on.
LEMMA CallAwaits ==
  ASSUME NEW old \in Seq(Lineup), old # <<>>, NEW calls \in Seq(Lineup), NEW line
  PROVE  /\ \A i \in 1..Len(old) : old[i] = line /\ Head(old) # line =>
              \E j \in 1..Len(calls \o Tail(old)) : (calls \o Tail(old))[j] = line
         /\ \A i \in 1..Len(calls) : calls[i] = line =>
              \E j \in 1..Len(calls \o Tail(old)) : (calls \o Tail(old))[j] = line
<1> DEFINE todo == calls \o Tail(old)
<1>1. /\ Len(old) \in Nat \ {0} /\ Head(old) = old[1] /\ Len(calls) \in Nat
      /\ Tail(old) \in Seq(Lineup) /\ Len(Tail(old)) = Len(old) - 1
      /\ \A i \in 1..(Len(old) - 1) : Tail(old)[i] = old[i + 1]
  OBVIOUS
<1>2. /\ Len(todo) = Len(calls) + Len(old) - 1
      /\ \A i \in 1..Len(calls) : todo[i] = calls[i]
      /\ \A i \in (Len(calls) + 1)..Len(todo) : todo[i] = old[i - Len(calls) + 1]
  BY <1>1
<1> HIDE DEF todo
<1>3. ASSUME NEW i \in 1..Len(old), old[i] = line, Head(old) # line
      PROVE  \E j \in 1..Len(todo) : todo[j] = line
  <2>1. i - 1 + Len(calls) \in (Len(calls) + 1)..Len(todo) /\ i - 1 + Len(calls) \in 1..Len(todo)
        /\ (i - 1 + Len(calls)) - Len(calls) + 1 = i
    BY <1>1, <1>2, <1>3
  <2>2. todo[i - 1 + Len(calls)] = old[i]
    BY <1>2, <2>1
  <2> QED
    BY <1>3, <2>1, <2>2
<1>4. ASSUME NEW i \in 1..Len(calls), calls[i] = line
      PROVE  \E j \in 1..Len(todo) : todo[j] = line
  <2>1. i \in 1..Len(todo)
    BY <1>1, <1>2
  <2> QED
    BY <1>2, <1>4, <2>1
<1> QED
  BY <1>3, <1>4 DEF todo

\* After a call the command is over, or it is as it was but for its lineup.
Calls(c, calls) ==
  \/ Call(c, calls)
  \/ calls # <<>> /\ cmd'[c] = [cmd[c] EXCEPT !.todo = calls \o Tail(cmd[c].todo), !.clean = FALSE]

LEMMA CallLinks ==
  ASSUME PgInv, NEW c \in Commands, Running(c), Head(cmd[c].todo) # "read",
         NEW calls, Callable(cmd[c], calls), Calls(c, calls)
  PROVE  \/ ~OnProject(c)'
         \/ /\ OnProject(c)
            /\ \A f \in {"op", "project", "name", "keys", "lines"} : cmd'[c][f] = cmd[c][f]
            /\ \A line \in Lineup : Awaits(c, line) /\ Head(cmd[c].todo) # line => Awaits(c, line)'
            /\ \A i \in 1..Len(calls) : Awaits(c, calls[i])'
<1> DEFINE old == cmd[c].todo
           todo == calls \o Tail(old)
<1>1. cmd \in [Commands -> CmdState] /\ Good(cmd[c]) /\ old \in Seq(Lineup) /\ old # <<>> /\ calls \in Seq(Lineup)
  BY DEF PgInv, CmdsGood, CmdState, Callable, Running
<1>2. CASE todo = <<>>
  <2>1. calls = <<>>
    <3>1. Len(todo) = Len(calls) + Len(Tail(old)) /\ Len(calls) \in Nat /\ Len(Tail(old)) \in Nat
      BY <1>1
    <3> QED
      BY <1>1, <1>2, <3>1
  <2>2. cmd'[c] = [Idle EXCEPT !.op = cmd[c].op, !.outcome = "ok", !.clean = cmd[c].clean]
    BY <1>1, <1>2, <2>1 DEF Calls, Call, Return
  <2>3. Len(cmd'[c].todo) = 0
    BY <2>2 DEF Idle
  <2> QED
    BY <2>3 DEF OnProject
<1>3. CASE todo # <<>> /\ OnProject(c)'
  <2>1. \/ cmd'[c] = [cmd[c] EXCEPT !.todo = todo]
        \/ cmd'[c] = [cmd[c] EXCEPT !.todo = todo, !.clean = FALSE]
    BY <1>1, <1>3 DEF Calls, Call
  <2> HIDE DEF todo, old
  <2>2. cmd'[c].todo = todo /\ \A f \in {"op", "project", "name", "keys", "lines"} : cmd'[c][f] = cmd[c][f]
    BY <1>1, <2>1 DEF CmdState
  <2>3. OnProject(c)
    BY <1>1, <1>3, <2>2, CallShape DEF OnProject, todo, old
  <2>4. ASSUME NEW line \in Lineup, Awaits(c, line), Head(old) # line
        PROVE  Awaits(c, line)'
    <3>1. PICK i \in 1..Len(old) : old[i] = line
      BY <2>4 DEF Awaits, old
    <3>2. \E j \in 1..Len(todo) : todo[j] = line
      BY <1>1, <2>4, <3>1, CallAwaits DEF todo
    <3> QED
      BY <2>2, <3>2 DEF Awaits
  <2>5. \A i \in 1..Len(calls) : Awaits(c, calls[i])'
    BY <1>1, <2>2, CallAwaits DEF Awaits, todo, old
  <2> QED
    BY <2>2, <2>3, <2>4, <2>5 DEF old
<1> QED
  BY <1>2, <1>3

LEMMA ReturnLinks ==
  ASSUME PgInv, NEW c \in Commands, NEW o, Return(c, o)
  PROVE  ~OnProject(c)'
<1>1. cmd'[c] = [Idle EXCEPT !.op = cmd[c].op, !.outcome = o, !.clean = cmd[c].clean]
  BY DEF Return, PgInv, CmdsGood
<1>2. Len(cmd'[c].todo) = 0
  BY <1>1 DEF Idle
<1> QED
  BY <1>2 DEF OnProject

\* What a step of the manager calls, or that it fails.
LEMMA ManagesCalls ==
  ASSUME PgInv, NEW c \in Commands, Manages(c)
  PROVE  /\ Running(c) /\ Head(cmd[c].todo) \notin Writes \cup {"read"}
         /\ dbs \subseteq dbs' /\ rows' = rows /\ env' = env /\ linked' = linked
         /\ \/ \E o \in {"ok", "failed"} : Return(c, o)
            \/ \E calls : /\ Callable(cmd[c], calls) /\ Call(c, calls)
                          /\ Head(cmd[c].todo) = "exists" => calls = <<"create">> \/ cmd[c].name \in dbs'
                          /\ Head(cmd[c].todo) = "create" => cmd[c].name \in dbs'
<1>1. Running(c) /\ Head(cmd[c].todo) \notin Writes \cup {"read"}
  BY DEF Manages, InitCluster, InitDb, WriteVersion, Bootstrap, Start, Status, Spawn, EnsureRole,
     Exists, Create, Stop, Halt, At, Writes
<1>2. dbs \subseteq dbs' /\ rows' = rows /\ env' = env /\ linked' = linked
  BY DEF Manages, InitCluster, InitDb, WriteVersion, Bootstrap, Start, Status, Spawn, EnsureRole,
     Exists, Create, Stop, Halt
<1> DEFINE Fine(calls) == /\ Callable(cmd[c], calls) /\ Call(c, calls)
                          /\ Head(cmd[c].todo) = "exists" => calls = <<"create">> \/ cmd[c].name \in dbs'
                          /\ Head(cmd[c].todo) = "create" => cmd[c].name \in dbs'
           Over == \E o \in {"ok", "failed"} : Return(c, o)
<1>3. /\ Callable(cmd[c], <<>>)
      /\ \A line \in {"status", "role", "initdb", "spawn", "halt", "version", "bootstrap"} : Callable(cmd[c], <<line>>)
      /\ Callable(cmd[c], <<"start", "role">>) /\ Callable(cmd[c], <<"init", "status">>)
      /\ Head(cmd[c].todo) = "exists" => Callable(cmd[c], <<"create">>)
  BY DEF Callable, Lineup, Writes, OfProject, Initdb
<1>4. CASE InitCluster(c)
  <2>1. Fine(<<"start", "role">>) \/ Fine(<<"initdb">>)
    BY <1>3, <1>4 DEF InitCluster, At
  <2> QED
    BY <1>1, <1>2, <2>1
<1>5. CASE Start(c)
  <2>1. Fine(<<"status">>) \/ Fine(<<"init", "status">>)
    BY <1>3, <1>5 DEF Start, At
  <2> QED
    BY <1>1, <1>2, <2>1
<1>6. CASE Status(c) \/ Stop(c) \/ Bootstrap(c)
  <2>1. Fine(<<>>) \/ Fine(<<"spawn">>) \/ Fine(<<"halt">>)
    BY <1>3, <1>6 DEF Status, Stop, Bootstrap, At
  <2> QED
    BY <1>1, <1>2, <2>1
<1>7. CASE Spawn(c) \/ EnsureRole(c) \/ Halt(c)
  <2>1. Over \/ Fine(<<>>)
    BY <1>3, <1>7 DEF Spawn, EnsureRole, Halt, At
  <2> QED
    BY <1>1, <1>2, <2>1
<1>8. CASE InitDb(c) \/ WriteVersion(c)
  <2>1. Over \/ Fine(<<"version">>) \/ Fine(<<"bootstrap">>)
    BY <1>3, <1>8 DEF InitDb, WriteVersion, At
  <2> QED
    BY <1>1, <1>2, <2>1
<1>9. CASE Exists(c)
  <2>1. Fine(<<>>) \/ Fine(<<"create">>)
    BY <1>3, <1>9 DEF Exists, At
  <2> QED
    BY <1>1, <1>2, <2>1
<1>10. CASE Create(c)
  <2>1. Over \/ Fine(<<>>)
    BY <1>3, <1>10 DEF Create, At
  <2> QED
    BY <1>1, <1>2, <2>1
<1> QED
  BY <1>4, <1>5, <1>6, <1>7, <1>8, <1>9, <1>10 DEF Manages

LEMMA ManagesLinks ==
  ASSUME LinkInv, LinesInv', NEW c \in Commands, Manages(c) \/ LookupFails(c)
  PROVE  LinkInv'
<1>1. PgInv /\ \A d \in Commands \ {c} : cmd'[d] = cmd[d]
  BY ManagesGood, LookupFailsGood DEF LinkInv, LinesInv
<1>2. Running(c) /\ dbs \subseteq dbs' /\ rows' = rows /\ env' = env /\ linked' = linked
  <2>1. CASE Manages(c)
    BY <1>1, <2>1, ManagesCalls
  <2>2. CASE LookupFails(c)
    BY <1>1, <2>2, LookupLeaves DEF LookupFails
  <2> QED
    BY <2>1, <2>2
<1>3. \A d \in Commands \ {c} : ~Running(d)'
  BY <1>1, <1>2 DEF LinkInv, LinesInv, OneRuns, Running
<1>4. LinksKept'
  BY <1>2 DEF LinkInv, LinksKept, NamesIt
<1>5. CASE ~OnProject(c)'
  BY <1>3, <1>4, <1>5, LinkMove DEF RightName, Underway
<1>6. CASE OnProject(c)'
  <2>1. PICK calls : /\ Callable(cmd[c], calls) /\ Calls(c, calls)
                     /\ Head(cmd[c].todo) = "exists" => calls = <<"create">> \/ cmd[c].name \in dbs'
                     /\ Head(cmd[c].todo) = "create" => cmd[c].name \in dbs'
    <3>1. CASE Manages(c)
      BY <1>1, <1>6, <3>1, ManagesCalls, ReturnLinks DEF Calls
    <3>2. CASE LookupFails(c)
      BY <1>1, <3>2, LookupLeaves DEF Calls
    <3> QED
      BY <3>1, <3>2
  <2>2. Head(cmd[c].todo) \notin Writes \cup {"read"}
    BY <1>1, ManagesCalls, LookupLeaves DEF Writes
  <2>3. /\ OnProject(c)
        /\ \A f \in {"op", "project", "name", "keys", "lines"} : cmd'[c][f] = cmd[c][f]
        /\ \A line \in Lineup : Awaits(c, line) /\ Head(cmd[c].todo) # line => Awaits(c, line)'
        /\ \A i \in 1..Len(calls) : Awaits(c, calls[i])'
    BY <1>1, <1>2, <1>6, <2>1, <2>2, CallLinks
  <2>4. /\ cmd'[c].op = cmd[c].op /\ cmd'[c].project = cmd[c].project
        /\ cmd'[c].name = cmd[c].name /\ cmd'[c].keys = cmd[c].keys
    BY <2>3
  <2>5. RightName(c)'
    BY <1>2, <2>3, <2>4 DEF LinkInv, RightName
  <2>6. Underway(c)'
    <3> SUFFICES ASSUME cmd[c].op = "link"
                 PROVE  Underway(c)'
      BY <2>4 DEF Underway
    <3>1. /\ cmd[c].project \notin linked /\ cmd[c].keys = {"APP", "DB"}
          /\ Awaits(c, "exists") \/ Awaits(c, "create") \/ cmd[c].name \in dbs
          /\ Awaits(c, "write") \/ NamesIt(cmd[c].project, cmd[c].name)
      BY <2>3 DEF LinkInv, Underway
    <3>2. calls = <<"create">> => Awaits(c, "create")'
      BY <2>3
    <3>3. Awaits(c, "exists")' \/ Awaits(c, "create")' \/ cmd[c].name \in dbs'
      BY <1>2, <2>1, <2>3, <3>1, <3>2 DEF Lineup
    <3>4. Awaits(c, "write")' \/ NamesIt(cmd[c].project, cmd[c].name)'
      BY <1>2, <2>2, <2>3, <3>1 DEF Lineup, Writes, NamesIt
    <3> QED
      BY <1>2, <2>4, <3>1, <3>3, <3>4 DEF Underway, NamesIt
  <2> QED
    BY <1>3, <1>4, <2>5, <2>6, LinkMove
<1> QED
  BY <1>5, <1>6

\* Only the command that has begun runs.
LEMMA LaunchLinks ==
  ASSUME LinesInv', NEW c \in Commands, NEW new, Launch(c, new), new.todo # <<>>
  PROVE  cmd'[c] = new /\ \A d \in Commands \ {c} : ~Running(d)'
<1>1. cmd'[c] = new
  BY DEF Launch
<1>2. Running(c)'
  BY <1>1 DEF Running
<1> QED
  BY <1>1, <1>2 DEF LinesInv, OneRuns

LEMMA BeginLinks ==
  ASSUME LinkInv, LinesInv', NEW c \in Commands, Begin(c)
  PROVE  LinkInv'
<1>1. PICK op \in {"init", "start", "stop"} : Launch(c, [Idle EXCEPT !.op = op, !.todo = <<op>>])
  BY DEF Begin
<1> DEFINE new == [Idle EXCEPT !.op = op, !.todo = <<op>>]
<1>2. new.todo = <<op>> /\ new.todo # <<>> /\ Launch(c, new)
  BY <1>1 DEF Idle
<1> HIDE DEF new
<1>3. cmd'[c] = new /\ \A d \in Commands \ {c} : ~Running(d)'
  BY <1>2, LaunchLinks DEF LinkInv
<1>4. ~OnProject(c)'
  BY <1>2, <1>3 DEF OnProject, OfProject
<1>5. LinksKept'
  BY DEF LinkInv, LinksKept, NamesIt, Begin
<1> QED
  BY <1>3, <1>4, <1>5, LinkMove DEF RightName, Underway

LEMMA BeginLinkLinks ==
  ASSUME LinkInv, LinesInv', NEW c \in Commands, NEW p \in Projects, BeginLink(c, p)
  PROVE  LinkInv'
<1> DEFINE n(option) == IF option # None THEN option ELSE IF rows[p] = None THEN BaseName[p] ELSE rows[p].name
           todo == <<"start", "exists", "read", "write">> \o (IF rows'[p].ws THEN <<"read", "writeWs">> ELSE <<>>)
           new(name) == [Idle EXCEPT !.op = "link", !.project = p, !.name = name, !.keys = {"APP", "DB"},
                           !.todo = todo]
<1>1. PICK option \in Names \cup {None}, ws \in BOOLEAN :
        Named(p, n(option), ws) /\ Launch(c, new(n(option)))
  BY DEF BeginLink
<1> DEFINE name == n(option)
<1>2. RowsTyped /\ name \in Names
  BY PostgresAssumption DEF LinkInv, LinesInv, PgInv, DataTyped, RowsTyped, Rows
<1>3. todo # <<>> /\ Len(todo) >= 4 /\ todo[2] = "exists" /\ todo[4] = "write"
  <2>1. CASE rows'[p].ws
    BY <2>1
  <2>2. CASE ~rows'[p].ws
    BY <2>2
  <2> QED
    BY <2>1, <2>2
<1> HIDE DEF n, todo
<1> DEFINE s == new(name)
<1>4. s.op = "link" /\ s.project = p /\ s.name = name /\ s.keys = {"APP", "DB"} /\ s.todo = todo
  BY DEF Idle
<1>5. Launch(c, s) /\ Named(p, name, ws)
  BY <1>1
<1> HIDE DEF s, name
<1>6. cmd'[c] = s /\ \A d \in Commands \ {c} : ~Running(d)'
  BY <1>3, <1>4, <1>5, LaunchLinks DEF LinkInv
<1>7. /\ rows'[p] # None /\ rows'[p].name = name
      /\ \A q \in Projects \ {p} : rows'[q] = None \/ rows'[q] = rows[q]
  <2>1. CASE rows[p] = None
    <3>1. rows' = [q \in Projects |-> IF q = p THEN [name |-> name, ws |-> ws]
                                      ELSE IF rows[q] # None /\ rows[q].name = name THEN None ELSE rows[q]]
      BY <1>5, <2>1 DEF Named
    <3>2. [name |-> name, ws |-> ws] \in Rows
      BY <1>2 DEF Rows
    <3> QED
      BY <3>1, <3>2, PostgresAssumption
  <2>2. CASE rows[p] # None
    <3>1. rows' = [rows EXCEPT ![p] = [name |-> name, ws |-> @.ws \/ ws]]
      BY <1>5, <2>2 DEF Named
    <3>2. rows'[p] = [name |-> name, ws |-> rows[p].ws \/ ws] /\ \A q \in Projects \ {p} : rows'[q] = rows[q]
      BY <1>2, <3>1 DEF RowsTyped
    <3>3. [name |-> name, ws |-> rows[p].ws \/ ws] \in Rows
      BY <1>2 DEF Rows
    <3> QED
      BY <3>2, <3>3, PostgresAssumption
  <2> QED
    BY <2>1, <2>2
<1>8. linked' = linked \ ({p} \cup {q \in Projects : rows'[q] = None}) /\ env' = env /\ dbs' = dbs
  BY DEF BeginLink
<1>9. LinksKept'
  <2>1. ASSUME NEW q \in linked'
        PROVE  q \in linked /\ rows'[q] = rows[q]
    <3>1. q \in linked /\ q # p /\ q \in Projects /\ rows'[q] # None
      BY <1>8 DEF LinkInv, LinesInv, PgInv, DataTyped
    <3> QED
      BY <1>7, <3>1
  <2> QED
    BY <1>8, <2>1 DEF LinkInv, LinksKept, NamesIt
<1>10. RightName(c)'
  BY <1>4, <1>6, <1>7 DEF RightName
<1>11. Underway(c)'
  <2>1. Awaits(c, "exists")' /\ Awaits(c, "write")'
    BY <1>3, <1>4, <1>6 DEF Awaits
  <2> QED
    BY <1>4, <1>6, <1>8, <2>1 DEF Underway
<1> QED
  BY <1>6, <1>9, <1>10, <1>11, LinkMove

LEMMA BeginEnvLinks ==
  ASSUME LinkInv, LinesInv', NEW c \in Commands, NEW p \in Projects, BeginEnv(c, p)
  PROVE  LinkInv'
<1>1. PICK keys \in SUBSET {"DB", "WS"} :
        Launch(c, [Idle EXCEPT !.op = "env", !.project = p, !.name = rows[p].name,
                     !.todo = <<"read", "write">>, !.keys = keys \cup {"APP"}])
  BY DEF BeginEnv
<1> DEFINE new == [Idle EXCEPT !.op = "env", !.project = p, !.name = rows[p].name,
                     !.todo = <<"read", "write">>, !.keys = keys \cup {"APP"}]
<1>2. new.op = "env" /\ new.project = p /\ new.name = rows[p].name /\ new.todo # <<>>
  BY DEF Idle
<1> HIDE DEF new
<1>3. cmd'[c] = new /\ \A d \in Commands \ {c} : ~Running(d)'
  BY <1>1, <1>2, LaunchLinks DEF LinkInv, new
<1>4. rows[p] # None /\ rows' = rows /\ env' = env /\ dbs' = dbs /\ linked' = linked
  BY DEF BeginEnv
<1>5. LinksKept'
  BY <1>4 DEF LinkInv, LinksKept, NamesIt
<1>6. RightName(c)' /\ Underway(c)'
  BY <1>2, <1>3, <1>4 DEF RightName, Underway
<1> QED
  BY <1>3, <1>5, <1>6, LinkMove

LEMMA FailLinks ==
  ASSUME LinkInv, LinesInv', NEW c \in Commands, Fail(c), "tear" \notin Faults
  PROVE  LinkInv'
<1>1. PgInv /\ \A d \in Commands \ {c} : cmd'[d] = cmd[d]
  BY FailGood DEF LinkInv, LinesInv
<1>2. \A d \in Commands \ {c} : ~Running(d)'
  BY <1>1 DEF LinkInv, LinesInv, OneRuns, Running, Fail
<1>3. Len(cmd'[c].todo) = 0
  BY <1>1 DEF Fail, Idle, PgInv, CmdsGood
<1>4. rows' = rows /\ env' = env /\ dbs' = dbs /\ linked' = linked
  BY DEF Fail
<1>5. LinksKept'
  BY <1>4 DEF LinkInv, LinksKept, NamesIt
<1> QED
  BY <1>2, <1>3, <1>5, LinkMove DEF RightName, Underway, OnProject

LEMMA ReadLinks ==
  ASSUME LinkInv, LinesInv', NEW c \in Commands, ReadFile(c)
  PROVE  LinkInv'
<1> DEFINE old == cmd[c].todo
<1>1. PgInv /\ \A d \in Commands \ {c} : cmd'[d] = cmd[d]
  BY ReadGood DEF LinkInv, LinesInv
<1>2. \A d \in Commands \ {c} : ~Running(d)'
  BY <1>1 DEF LinkInv, LinesInv, OneRuns, Running, ReadFile, At
<1>3. rows' = rows /\ env' = env /\ dbs' = dbs /\ linked' = linked
  BY DEF ReadFile
<1>4. LinksKept'
  BY <1>3 DEF LinkInv, LinksKept, NamesIt
<1>5. /\ cmd[c] \in CmdState /\ cmd'[c].todo = Tail(old)
      /\ cmd'[c].op = cmd[c].op /\ cmd'[c].project = cmd[c].project
      /\ cmd'[c].name = cmd[c].name /\ cmd'[c].keys = cmd[c].keys
  BY <1>1 DEF ReadFile, PgInv, CmdsGood, CmdState
<1>6. /\ Len(old) \in Nat \ {0} /\ old[1] = "read" /\ Len(Tail(old)) = Len(old) - 1
      /\ \A i \in 1..(Len(old) - 1) : Tail(old)[i] = old[i + 1]
  BY <1>5 DEF ReadFile, At, Running, CmdState
<1> HIDE DEF old
<1>7. OnProject(c)
  BY <1>6 DEF OnProject, OfProject, old
<1>8. ASSUME NEW line, line # "read", Awaits(c, line)
      PROVE  Awaits(c, line)'
  <2>1. PICK i \in 1..Len(old) : old[i] = line
    BY <1>8 DEF Awaits, old
  <2>2. i - 1 \in 1..Len(Tail(old)) /\ Tail(old)[i - 1] = line
    BY <1>6, <1>8, <2>1
  <2> QED
    BY <1>5, <2>2 DEF Awaits
<1>9. RightName(c)' /\ Underway(c)'
  BY <1>3, <1>5, <1>7, <1>8 DEF LinkInv, RightName, Underway, NamesIt
<1> QED
  BY <1>2, <1>4, <1>9, LinkMove

\* What a write leaves in the file of its project, and in the others.
LEMMA WriteValues ==
  ASSUME LinesInv, NEW c \in Commands, WriteFile(c)
  PROVE  /\ \A k \in Keys : ValuesOf(env'[cmd[c].project], k) =
              IF k \in (IF At(c, "write") THEN cmd[c].keys ELSE {"WS"}) THEN {cmd[c].name}
              ELSE ValuesOf(env[cmd[c].project], k)
         /\ \A q \in Projects \ {cmd[c].project} : env'[q] = env[q]
<1> DEFINE keys == IF At(c, "write") THEN cmd[c].keys ELSE {"WS"}
           values == [k \in keys |-> cmd[c].name]
<1>1. PgInv /\ cmd[c].lines = env[cmd[c].project] /\ cmd[c].project \in Projects
  BY WriteGood DEF LinesInv, Fresh, WriteFile
<1>2. Good(cmd[c]) /\ cmd[c] \in CmdState
  BY <1>1 DEF PgInv, CmdsGood
<1>3. cmd[c].name \in Names
  <2>1. Len(cmd[c].todo) >= 1 /\ cmd[c].todo[1] \in OfProject
    BY <1>2 DEF WriteFile, Writing, At, Running, CmdState, OfProject
  <2> QED
    BY <1>2, <2>1 DEF Good, Known
<1>4. keys \in SUBSET Keys /\ values \in [keys -> Names] /\ DOMAIN values = keys
      /\ \A k \in keys : values[k] = cmd[c].name
  BY <1>2, <1>3 DEF CmdState, Keys
<1>5. values \in Values
  BY <1>4 DEF Values
<1>6. env' = [env EXCEPT ![cmd[c].project] = ApplyEnv(cmd[c].lines, values)]
  BY DEF WriteFile
<1> HIDE DEF values
<1>7. env \in [Projects -> Seq(Lines)]
  BY <1>1 DEF PgInv, DataTyped
<1>8. ASSUME NEW k \in Keys
      PROVE  ValuesOf(env'[cmd[c].project], k) =
               IF k \in keys THEN {cmd[c].name} ELSE ValuesOf(env[cmd[c].project], k)
  <2>1. env[cmd[c].project] \in Seq(Lines)
    BY <1>1, <1>7
  <2>2. ValuesOf(ApplyEnv(env[cmd[c].project], values), k) =
          IF k \in DOMAIN values THEN {values[k]} ELSE ValuesOf(env[cmd[c].project], k)
    BY <1>5, <2>1, ApplyEnvValues
  <2>3. env'[cmd[c].project] = ApplyEnv(env[cmd[c].project], values)
    BY <1>1, <1>6, <1>7
  <2> QED
    BY <1>4, <2>2, <2>3
<1> QED
  BY <1>6, <1>7, <1>8

LEMMA WriteLinks ==
  ASSUME LinkInv, LinesInv', NEW c \in Commands, WriteFile(c)
  PROVE  LinkInv'
<1>1. PgInv /\ cmd[c].project \in Projects /\ \A d \in Commands \ {c} : cmd'[d] = cmd[d]
  BY WriteGood DEF LinkInv, LinesInv
<1>0. PICK p \in Projects : p = cmd[c].project
  BY <1>1
<1>2. PICK n : p = cmd[c].project /\ n = cmd[c].name
  BY <1>0
<1>3. Running(c) /\ Head(cmd[c].todo) \in Writes /\ cmd[c] \in CmdState
  BY <1>1 DEF WriteFile, Writing, At, Writes, PgInv, CmdsGood
<1>4. /\ Len(cmd[c].todo) \in Nat \ {0} /\ Head(cmd[c].todo) = cmd[c].todo[1]
      /\ OnProject(c)
  <2>1. Len(cmd[c].todo) \in Nat \ {0} /\ Head(cmd[c].todo) = cmd[c].todo[1]
    BY <1>3 DEF CmdState, Running
  <2> QED
    BY <1>3, <2>1 DEF OnProject, Writes, OfProject
<1>5. \A d \in Commands \ {c} : ~Running(d)'
  BY <1>1, <1>3 DEF LinkInv, LinesInv, OneRuns, Running
<1>6. /\ rows' = rows /\ dbs' = dbs
      /\ linked' = IF cmd[c].op = "link" /\ Len(cmd[c].todo) = 1 THEN linked \cup {p} ELSE linked
  BY <1>2 DEF WriteFile
<1>7. /\ \A k \in Keys : ValuesOf(env'[p], k) =
           IF k \in (IF At(c, "write") THEN cmd[c].keys ELSE {"WS"}) THEN {n} ELSE ValuesOf(env[p], k)
      /\ \A q \in Projects \ {p} : env'[q] = env[q]
  BY <1>2, WriteValues DEF LinkInv
<1>8. {"APP", "DB"} \subseteq Keys
  BY DEF Keys
<1>9. rows[p] # None /\ rows[p].name = n
  BY <1>2, <1>4 DEF LinkInv, RightName
<1>10. NamesIt(p, n) => NamesIt(p, n)'
  BY <1>7, <1>8 DEF NamesIt
<1>11. At(c, "write") /\ cmd[c].keys = {"APP", "DB"} => NamesIt(p, n)'
  BY <1>7, <1>8 DEF NamesIt
<1>12. ASSUME cmd[c].op = "link"
       PROVE  /\ p \notin linked /\ cmd[c].keys = {"APP", "DB"}
              /\ Awaits(c, "exists") \/ Awaits(c, "create") \/ n \in dbs
              /\ Awaits(c, "write") \/ NamesIt(p, n)
  BY <1>2, <1>4, <1>12 DEF LinkInv, Underway
<1>13. ASSUME cmd[c].op = "link", Len(cmd[c].todo) = 1
       PROVE  n \in dbs /\ NamesIt(p, n)'
  <2>1. \A line : Awaits(c, line) => line = Head(cmd[c].todo)
    BY <1>4, <1>13 DEF Awaits
  <2>2. n \in dbs
    BY <1>3, <1>12, <1>13, <2>1 DEF Writes
  <2>3. Awaits(c, "write") => At(c, "write")
    BY <1>3, <2>1 DEF At
  <2> QED
    BY <1>10, <1>11, <1>12, <1>13, <2>2, <2>3
<1>14. LinksKept'
  <2>1. ASSUME NEW q \in linked'
        PROVE  rows[q] # None /\ rows[q].name \in dbs /\ NamesIt(q, rows[q].name)'
    <3>1. CASE q \in linked /\ q # p
      <4>1. env'[q] = env[q]
        BY <1>7, <3>1 DEF LinkInv, LinesInv, PgInv, DataTyped
      <4> QED
        BY <1>6, <3>1, <4>1 DEF LinkInv, LinksKept, NamesIt
    <3>2. CASE q \in linked /\ q = p
      BY <1>6, <1>9, <1>10, <3>2 DEF LinkInv, LinksKept, NamesIt
    <3>3. CASE q \notin linked
      BY <1>6, <1>9, <1>13, <3>3 DEF NamesIt
    <3> QED
      BY <3>1, <3>2, <3>3
  <2> QED
    BY <1>6, <2>1 DEF LinksKept, NamesIt
<1>15. CASE ~OnProject(c)'
  BY <1>5, <1>14, <1>15, LinkMove DEF RightName, Underway
<1>16. CASE OnProject(c)'
  <2>1. Callable(cmd[c], <<>>) /\ Calls(c, <<>>) /\ Head(cmd[c].todo) # "read"
    BY <1>3 DEF Callable, Calls, WriteFile, Writes
  <2>2. /\ \A f \in {"op", "project", "name", "keys", "lines"} : cmd'[c][f] = cmd[c][f]
        /\ \A line \in Lineup : Awaits(c, line) /\ Head(cmd[c].todo) # line => Awaits(c, line)'
    BY <1>1, <1>3, <1>16, <2>1, CallLinks
  <2>3. /\ cmd'[c].op = cmd[c].op /\ cmd'[c].project = p
        /\ cmd'[c].name = n /\ cmd'[c].keys = cmd[c].keys
    BY <1>2, <2>2
  <2>4. cmd[c].op \in {"link", "env"}
    BY <1>4 DEF LinkInv, RightName
  <2>5. RightName(c)'
    BY <1>4, <1>6, <1>9, <2>3, <1>16, <2>4 DEF RightName
  <2>6. ASSUME cmd[c].op = "link"
        PROVE  Underway(c)'
    <3>1. p \notin linked'
      <4>1. Len(cmd[c].todo) # 1
        <5>1. ASSUME Len(cmd[c].todo) = 1
              PROVE  FALSE
          <6>1. cmd[c].todo \in Seq(Lineup) /\ cmd[c].todo # <<>>
            BY <1>3 DEF CmdState, Running
          <6>2. Tail(cmd[c].todo) \in Seq(Lineup) /\ Len(Tail(cmd[c].todo)) = 0
            BY <5>1, <6>1
          <6>3. /\ \A t \in Seq(Lineup) : Len(t) = 0 => t = <<>>
                /\ <<>> \o <<>> = <<>>
            OBVIOUS
          <6>4. Tail(cmd[c].todo) = <<>>
            BY <6>2, <6>3
          <6>5. Return(c, "ok")
            BY <2>1, <6>3, <6>4 DEF Calls, Call
          <6> QED
            BY <1>1, <1>16, <6>5, ReturnLinks
        <5> QED
          BY <5>1
      <4> QED
        BY <1>6, <1>12, <2>6, <4>1
    <3>2. Awaits(c, "exists")' \/ Awaits(c, "create")' \/ n \in dbs
      BY <1>3, <1>12, <2>2, <2>6 DEF Lineup, Writes
    <3>3. Awaits(c, "write")' \/ NamesIt(p, n)'
      BY <1>3, <1>10, <1>11, <1>12, <2>2, <2>6 DEF Lineup, At
    <3> QED
      BY <1>6, <1>12, <2>3, <2>6, <3>1, <3>2, <3>3 DEF Underway, NamesIt
  <2>7. cmd[c].op # "link" => Underway(c)'
    BY <2>3 DEF Underway
  <2> QED
    BY <1>5, <1>14, <2>5, <2>6, <2>7, LinkMove
<1> QED
  BY <1>15, <1>16

LEMMA CrashLinks ==
  ASSUME LinkInv, LinesInv', Crash
  PROVE  LinkInv'
<1>1. ASSUME NEW c \in Commands
      PROVE  /\ cmd'[c].todo = cmd[c].todo /\ cmd'[c].op = cmd[c].op /\ cmd'[c].project = cmd[c].project
             /\ cmd'[c].name = cmd[c].name /\ cmd'[c].keys = cmd[c].keys
  BY DEF Crash, LinkInv, LinesInv, PgInv, CmdsGood, CmdState
<1>2. rows' = rows /\ env' = env /\ dbs' = dbs /\ linked' = linked
  BY DEF Crash
<1>3. LinksKept'
  BY <1>2 DEF LinkInv, LinksKept, NamesIt
<1>4. ASSUME NEW c \in Commands
      PROVE  RightName(c)' /\ Underway(c)'
  <2>1. /\ OnProject(c)' <=> OnProject(c)
        /\ \A line : Awaits(c, line)' <=> Awaits(c, line)
    BY <1>1 DEF OnProject, Awaits
  <2>2. RightName(c) /\ Underway(c)
    BY DEF LinkInv
  <2> QED
    BY <1>1, <1>2, <2>1, <2>2 DEF RightName, Underway, NamesIt
<1> QED
  BY <1>3, <1>4 DEF LinkInv

LEMMA EditLinks ==
  ASSUME LinkInv, LinesInv', NEW p \in Projects, Edit(p), "edit" \notin Faults
  PROVE  LinkInv'
<1>1. cmd' = cmd /\ rows' = rows /\ dbs' = dbs /\ linked' = linked \ {p}
      /\ \A c \in Commands : ~Running(c)
  BY DEF Edit, AllIdle
<1>2. \A c \in Commands : ~OnProject(c)
  BY <1>1, IdleIsOff DEF LinkInv, LinesInv, PgInv
<1>3. \A q \in Projects \ {p} : env'[q] = env[q]
  <2>1. env \in [Projects -> Seq(Lines)] /\ \E file : env' = [env EXCEPT ![p] = file]
    BY DEF Edit, LinkInv, LinesInv, PgInv, DataTyped
  <2> QED
    BY <2>1
<1>4. LinksKept'
  BY <1>1, <1>3 DEF LinkInv, LinesInv, PgInv, DataTyped, LinksKept, NamesIt
<1>5. \A c \in Commands : RightName(c)' /\ Underway(c)'
  BY <1>1, <1>2 DEF RightName, Underway, OnProject
<1> QED
  BY <1>4, <1>5 DEF LinkInv

LEMMA LinkStep ==
  ASSUME LinkInv, [Next]_vars, Faults \cap {"overlap", "edit", "tear"} = {}
  PROVE  LinkInv'
<1>1. LinesInv'
  BY LinesStep DEF LinkInv
<1>2. ASSUME NEW c \in Commands, Step(c)
      PROVE  LinkInv'
  BY <1>1, <1>2, BeginLinks, FailLinks, BeginLinkLinks, BeginEnvLinks, ManagesLinks, ReadLinks, WriteLinks
     DEF Step, Manages
<1>3. CASE UNCHANGED vars
  BY <1>1, <1>3 DEF vars, LinkInv, LinksKept, NamesIt, RightName, Underway, OnProject, Awaits
<1> QED
  BY <1>1, <1>2, <1>3, CrashLinks, EditLinks DEF Next

(***************************************************************************)
(* For any projects and any names, a project whose last link went through  *)
(* has a database of its own that exists and that its .env names alone,    *)
(* whatever fails and whenever the server dies, as long as commands follow *)
(* one another, the user does not save the file under them and none dies   *)
(* in the middle of a write.                                               *)
(***************************************************************************)
THEOREM LinkedKeepsItsDatabase ==
  ASSUME Faults \cap {"overlap", "edit", "tear"} = {}
  PROVE  Spec => []LinkedHasDatabase
<1>1. LinkInv /\ [Next]_vars => LinkInv'
  BY LinkStep
<1> QED
  BY <1>1, LinkInit, LinkInvHolds, PTL DEF Spec
-----------------------------------------------------------------------------
(* What commands report *)

FileSteps == Seq({"read", "write", "writeWs"})

\* What follows on a start, by the command that calls it.
After(op) ==
  CASE op = "start" -> {<<>>}
    [] op = "init"  -> {<<"role">>}
    [] OTHER        -> {todo \in Seq(Lineup) : /\ todo # <<>> /\ Head(todo) = "exists"
                                               /\ Tail(todo) \in FileSteps}

\* An initdb to come finds no cluster that is marked as one.
ToMake(todo) ==
  /\ Head(todo) \in {"init", "initdb", "version", "bootstrap"}
  /\ Head(todo) \in {"init", "initdb"} => ~Initialized

\* A start is under way, and `rests` follows.
ToServe(todo, rests) ==
  \/ /\ Head(todo) \in {"start", "status", "spawn"} /\ Tail(todo) \in rests
     /\ Head(todo) # "start" => Initialized
     /\ Head(todo) = "spawn" => server = "down"
  \/ /\ ToMake(todo)
     /\ Tail(todo) # <<>> /\ Head(Tail(todo)) = "status" /\ Tail(Tail(todo)) \in rests

\* Where a command is that nothing has gone wrong for, and what it has done.
OnCourse(me) ==
  \/ me.op \in {"start", "init", "link"} /\ ToServe(me.todo, After(me.op))
  \/ me.op = "init" /\ Tail(me.todo) = <<>> /\ (Head(me.todo) = "init" \/ ToMake(me.todo))
  \/ me.op \in {"init", "link"} /\ me.todo \in After(me.op) /\ server = "up"
  \/ /\ me.op = "link" /\ Head(me.todo) = "create" /\ Tail(me.todo) \in FileSteps
     /\ server = "up" /\ ("root" \notin roles \/ me.name \notin dbs)
  \/ me.op = "link" /\ me.todo \in FileSteps /\ server = "up"
  \/ /\ me.op = "stop" /\ Tail(me.todo) = <<>>
     /\ Head(me.todo) = "stop" \/ (Head(me.todo) = "halt" /\ server = "up")
  \/ me.op = "env" /\ me.todo \in FileSteps

\* ReportsAreTrue of one command.
TrueReport(me) ==
  /\ me.outcome = "ok" =>
       /\ me.op = "start" => server = "up"
       /\ me.op = "stop" => server = "down"
       /\ me.op = "init" => cluster = "whole" /\ "root" \in roles
       /\ me.op = "link" => server = "up"
  /\ me.outcome = "failed" =>
       \/ cluster \in {"torn", "marked"}
       \/ me.op = "init" /\ "user" \notin roles
       \/ me.op = "link" /\ "root" \notin roles

Tells(me) == me.clean => (me.todo # <<>> => OnCourse(me)) /\ TrueReport(me)

ReportInv ==
  /\ PgInv /\ OneRuns
  /\ \A c \in Commands : cmd[c].outcome # "none" => AllIdle
  /\ \A c \in Commands : Tells(cmd[c])

LEMMA ReportInvMeans == ReportInv => ReportsAreTrue
BY DEF ReportInv, Tells, TrueReport, ReportsAreTrue

LEMMA ReportInit == Init => ReportInv
<1> SUFFICES ASSUME Init
             PROVE  ReportInv
  OBVIOUS
<1>1. \A c \in Commands : cmd[c].todo = <<>> /\ cmd[c].outcome = "none"
  BY DEF Init, Idle
<1>2. OneRuns /\ \A c \in Commands : Tells(cmd[c])
  BY <1>1 DEF OneRuns, Running, Tells, TrueReport
<1> QED
  BY <1>1, <1>2, PgInit DEF ReportInv

\* A call in front of what there is to do.
LEMMA InFront ==
  ASSUME NEW rest \in Seq(Lineup), NEW x \in Lineup
  PROVE  /\ <<>> \o rest = rest
         /\ <<x>> \o rest \in Seq(Lineup)
         /\ <<x>> \o rest # <<>> /\ Head(<<x>> \o rest) = x /\ Tail(<<x>> \o rest) = rest
<1>1. <<>> \o rest = rest
  BY ConcatEmptySeq
<1>2. /\ <<x>> \in Seq(Lineup) /\ Len(<<x>>) = 1 /\ Len(rest) \in Nat /\ <<x>>[1] = x
  OBVIOUS
<1> DEFINE one == <<x>> \o rest
<1>3. /\ one \in Seq(Lineup) /\ Len(one) = Len(rest) + 1 /\ one[1] = x
      /\ \A i \in 2..Len(one) : one[i] = rest[i - 1]
  BY <1>2
<1> HIDE DEF one
<1>4. one # <<>> /\ Head(one) = x /\ Tail(one) \in Seq(Lineup) /\ Len(Tail(one)) = Len(rest)
      /\ \A i \in 1..Len(rest) : Tail(one)[i] = one[i + 1]
  BY <1>2, <1>3
<1>5. Tail(one) = rest
  BY <1>2, <1>3, <1>4, SeqEqual
<1> QED
  BY <1>1, <1>3, <1>4, <1>5 DEF one

LEMMA TwoInFront ==
  ASSUME NEW rest \in Seq(Lineup), NEW x \in Lineup, NEW y \in Lineup
  PROVE  /\ <<x, y>> \o rest # <<>> /\ Head(<<x, y>> \o rest) = x
         /\ LET tail == Tail(<<x, y>> \o rest) IN tail # <<>> /\ Head(tail) = y /\ Tail(tail) = rest
<1>1. <<y>> \o rest \in Seq(Lineup)
  BY InFront
<1>2. <<x>> \in Seq(Lineup) /\ <<y>> \in Seq(Lineup) /\ <<x, y>> \in Seq(Lineup)
  OBVIOUS
<1>3. <<x, y>> = <<x>> \o <<y>>
  <2>1. Len(<<x, y>>) = 2 /\ Len(<<x>> \o <<y>>) = 2 /\ <<x>> \o <<y>> \in Seq(Lineup)
    BY <1>2
  <2>2. \A i \in 1..2 : <<x, y>>[i] = (<<x>> \o <<y>>)[i]
    BY <1>2
  <2> QED
    BY <1>2, <2>1, <2>2, SeqEqual
<1>4. <<x, y>> \o rest = <<x>> \o (<<y>> \o rest)
  BY <1>2, <1>3, ConcatAssociative
<1> DEFINE one == <<y>> \o rest
<1> HIDE DEF one
<1>5. Tail(<<x>> \o one) = one /\ <<x>> \o one # <<>> /\ Head(<<x>> \o one) = x
  BY <1>1, InFront DEF one
<1>6. one # <<>> /\ Head(one) = y /\ Tail(one) = rest
  BY InFront DEF one
<1> QED
  BY <1>4, <1>5, <1>6 DEF one

\* c has `todo` to do, or is over, and is otherwise as it was.
Goes(c, todo, outcome) ==
  /\ cmd'[c].todo = todo /\ cmd'[c].outcome = outcome
  /\ cmd'[c].op = cmd[c].op /\ cmd'[c].clean = cmd[c].clean
  /\ todo # <<>> => cmd'[c].name = cmd[c].name

LEMMA CallGoes ==
  ASSUME PgInv, NEW c \in Commands, NEW calls, Call(c, calls)
  PROVE  LET todo == calls \o Tail(cmd[c].todo)
         IN Goes(c, todo, IF todo = <<>> THEN "ok" ELSE cmd[c].outcome)
<1> DEFINE todo == calls \o Tail(cmd[c].todo)
<1>1. cmd \in [Commands -> CmdState] /\ cmd[c] \in CmdState
  BY DEF PgInv, CmdsGood
<1>2. CASE todo = <<>>
  <2>1. cmd'[c] = [Idle EXCEPT !.op = cmd[c].op, !.outcome = "ok", !.clean = cmd[c].clean]
    BY <1>1, <1>2 DEF Call, Return
  <2> QED
    BY <1>2, <2>1 DEF Goes, Idle
<1>3. CASE todo # <<>>
  <2>1. cmd'[c] = [cmd[c] EXCEPT !.todo = todo]
    BY <1>1, <1>3 DEF Call
  <2> HIDE DEF todo
  <2>2. Goes(c, todo, cmd[c].outcome)
    BY <1>1, <2>1 DEF Goes, CmdState
  <2> QED
    BY <1>3, <2>2 DEF todo
<1> QED
  BY <1>2, <1>3

LEMMA FailsGoes ==
  ASSUME PgInv, NEW c \in Commands, Return(c, "failed")
  PROVE  Goes(c, <<>>, "failed")
<1>1. cmd'[c] = [Idle EXCEPT !.op = cmd[c].op, !.outcome = "failed", !.clean = cmd[c].clean]
  BY DEF PgInv, CmdsGood, Return
<1> QED
  BY <1>1 DEF Goes, Idle

\* One command moves, the others have nothing to do and nothing to tell.
LEMMA ReportMove ==
  ASSUME ReportInv, PgInv', NEW c \in Commands, Running(c), \A d \in Commands \ {c} : cmd'[d] = cmd[d],
         cmd'[c].outcome # "none" => cmd'[c].todo = <<>>, Tells(cmd[c])'
  PROVE  ReportInv'
<1>1. \A d \in Commands \ {c} : cmd[d].todo = <<>> /\ cmd[d].outcome = "none"
  BY DEF ReportInv, OneRuns, Running, AllIdle
<1>2. \A d \in Commands \ {c} : Tells(cmd[d])'
  BY <1>1 DEF Tells, TrueReport
<1>3. OneRuns'
  BY <1>1 DEF OneRuns, Running
<1>4. \A d \in Commands : cmd'[d].outcome # "none" => AllIdle'
  BY <1>1 DEF AllIdle, Running
<1> QED
  BY <1>2, <1>3, <1>4 DEF ReportInv

\* A command begins: no other runs.
LEMMA ReportLaunch ==
  ASSUME ReportInv, PgInv', NEW c \in Commands, NEW new, Launch(c, new), "overlap" \notin Faults,
         new.outcome = "none", OnCourse(new)'
  PROVE  ReportInv'
<1>1. \A d \in Commands : cmd[d].todo = <<>> /\ cmd[d] \in CmdState
  BY DEF Launch, AllIdle, Running, ReportInv, PgInv, CmdsGood
<1>2. /\ cmd'[c] = new
      /\ \A d \in Commands \ {c} : cmd'[d].todo = <<>> /\ cmd'[d].outcome = "none"
  BY <1>1 DEF Launch, CmdState
<1>3. OneRuns'
  BY <1>2 DEF OneRuns, Running
<1>4. \A d \in Commands : cmd'[d].outcome = "none" /\ Tells(cmd[d])'
  BY <1>2 DEF Tells, TrueReport
<1> QED
  BY <1>3, <1>4 DEF ReportInv

\* The lines that are for a file follow one another.
LEMMA FileStepsGo ==
  ASSUME NEW todo \in FileSteps, todo # <<>>
  PROVE  Head(todo) \in {"read", "write", "writeWs"} /\ Tail(todo) \in FileSteps
BY HeadTailProperties DEF FileSteps

\* What is known of a command by the line it is at.
LEMMA CourseByLine ==
  ASSUME NEW me, OnCourse(me), me.todo \in Seq(Lineup), me.todo # <<>>, NEW line, line = Head(me.todo),
         NEW rest, rest = Tail(me.todo)
  PROVE  /\ line \in {"init", "initdb", "version", "bootstrap"} =>
              \/ /\ me.op \in {"start", "init", "link"} /\ ToMake(me.todo)
                 /\ rest # <<>> /\ Head(rest) = "status" /\ Tail(rest) \in After(me.op)
              \/ me.op = "init" /\ rest = <<>> /\ (line = "init" \/ ToMake(me.todo))
         /\ line \in {"start", "status", "spawn"} =>
              /\ me.op \in {"start", "init", "link"} /\ rest \in After(me.op)
              /\ line # "start" => Initialized
              /\ line = "spawn" => server = "down"
         /\ line = "role" => me.op = "init" /\ rest = <<>> /\ server = "up"
         /\ line = "exists" => me.op = "link" /\ rest \in FileSteps /\ server = "up"
         /\ line = "create" =>
              /\ me.op = "link" /\ rest \in FileSteps /\ server = "up"
              /\ "root" \notin roles \/ me.name \notin dbs
         /\ line \in {"stop", "halt"} => me.op = "stop" /\ rest = <<>> /\ (line = "halt" => server = "up")
         /\ line \in {"read", "write", "writeWs"} =>
              me.op \in {"link", "env"} /\ rest \in FileSteps /\ (me.op = "link" => server = "up")
<1>1. me.todo \in FileSteps => line \in {"read", "write", "writeWs"} /\ rest \in FileSteps
  BY FileStepsGo
<1>2. me.op = "init" /\ me.todo \in After("init") => line = "role" /\ rest = <<>>
  <2>1. Head(<<"role">>) = "role" /\ Tail(<<"role">>) = <<>>
    OBVIOUS
  <2> QED
    BY <2>1 DEF After
<1>3. me.op = "link" /\ me.todo \in After("link") => line = "exists" /\ rest \in FileSteps
  BY DEF After
<1> QED
  BY <1>1, <1>2, <1>3 DEF OnCourse, ToServe, ToMake

\* What a command goes on with is on course, or it is over and tells the truth.
LEMMA GoesTells ==
  ASSUME ReportInv, NEW c \in Commands, Running(c), NEW todo, NEW o \in {"none", "ok", "failed"},
         Goes(c, todo, o), cmd[c].clean => (todo # <<>> => OnCourse(cmd[c])') /\ TrueReport(cmd[c])'
  PROVE  Tells(cmd[c])'
BY DEF Goes, Tells

\* The steps of the manager.
LEMMA ManagesReports ==
  ASSUME ReportInv, PgInv', NEW c \in Commands, Manages(c)
  PROVE  ReportInv'
<1> DEFINE me == cmd[c]
           T == Tail(me.todo)
           line == Head(me.todo)
<1>1. /\ PgInv /\ ClusterTyped /\ \A d \in Commands \ {c} : cmd'[d] = cmd[d]
      /\ Running(c) /\ me \in CmdState
  BY ManagesGood, ManagesCalls DEF ReportInv, PgInv, CmdsGood
<1>2. me.todo \in Seq(Lineup) /\ me.todo # <<>> /\ T \in Seq(Lineup) /\ me.outcome = "none"
  BY <1>1, HeadTailProperties DEF CmdState, Running, ReportInv, AllIdle
<1>3. me.clean => OnCourse(me)
  BY <1>2 DEF ReportInv, Tells
<1>4. SUFFICES ASSUME me.clean
               PROVE  \E todo : \E o \in {"none", "ok", "failed"} :
                        /\ Goes(c, todo, o) /\ (o # "none" => todo = <<>>)
                        /\ (todo # <<>> => OnCourse(me)') /\ TrueReport(me)'
  <2>1. ASSUME ~me.clean
        PROVE  \E todo : \E o \in {"none", "ok", "failed"} :
                 Goes(c, todo, o) /\ (o # "none" => todo = <<>>)
    <3>1. (\E o \in {"ok", "failed"} : Return(c, o)) \/ (\E calls : Call(c, calls))
      BY <1>1, ManagesCalls
    <3>2. ASSUME NEW o \in {"ok", "failed"}, Return(c, o)
          PROVE  Goes(c, <<>>, o)
      <4>1. cmd'[c] = [Idle EXCEPT !.op = cmd[c].op, !.outcome = o, !.clean = cmd[c].clean]
        BY <1>1, <3>2 DEF PgInv, CmdsGood, Return
      <4> QED
        BY <4>1 DEF Goes, Idle
    <3>3. ASSUME NEW calls, Call(c, calls)
          PROVE  LET todo == calls \o T IN Goes(c, todo, IF todo = <<>> THEN "ok" ELSE "none")
      BY <1>1, <1>2, <3>3, CallGoes
    <3> QED
      BY <3>1, <3>2, <3>3
  <2>2. PICK todo : \E o \in {"none", "ok", "failed"} :
          /\ Goes(c, todo, o) /\ (o # "none" => todo = <<>>)
          /\ me.clean => (todo # <<>> => OnCourse(me)') /\ TrueReport(me)'
    BY <1>4, <2>1
  <2>3. PICK o \in {"none", "ok", "failed"} :
          /\ Goes(c, todo, o) /\ (o # "none" => todo = <<>>)
          /\ me.clean => (todo # <<>> => OnCourse(me)') /\ TrueReport(me)'
    BY <2>2
  <2>4. Tells(cmd[c])' /\ (cmd'[c].outcome # "none" => cmd'[c].todo = <<>>)
    BY <1>1, <2>3, GoesTells DEF Goes
  <2> QED
    BY <1>1, <2>4, ReportMove
<1> DEFINE Fine == \E todo : \E o \in {"none", "ok", "failed"} :
                     /\ Goes(c, todo, o) /\ (o # "none" => todo = <<>>)
                     /\ (todo # <<>> => OnCourse(me)') /\ TrueReport(me)'
<1>5. OnCourse(me)
  BY <1>3, <1>4
<1>6. ASSUME NEW todo, Goes(c, todo, "none"), OnCourse(me)'
      PROVE  Fine
  BY <1>6 DEF Goes, TrueReport
<1>7. ASSUME NEW o \in {"ok", "failed"}, Goes(c, <<>>, o), TrueReport(me)'
      PROVE  Fine
  BY <1>7
<1>8. Call(c, <<>>) => Goes(c, T, IF T = <<>> THEN "ok" ELSE "none")
  <2>1. <<>> \o T = T
    BY <1>2, ConcatEmptySeq
  <2>2. Call(c, <<>>) => LET todo == <<>> \o T IN Goes(c, todo, IF todo = <<>> THEN "ok" ELSE "none")
    BY <1>1, <1>2, CallGoes
  <2> HIDE DEF T
  <2> QED
    BY <2>1, <2>2
<1>9. ASSUME NEW x \in Lineup, Call(c, <<x>>)
      PROVE  /\ Goes(c, cmd'[c].todo, "none") /\ cmd'[c].todo = <<x>> \o T
             /\ cmd'[c].todo # <<>> /\ Head(cmd'[c].todo) = x /\ Tail(cmd'[c].todo) = T
             /\ cmd'[c].op = me.op /\ cmd'[c].name = me.name
  <2> DEFINE todo == <<x>> \o T
  <2>1. todo # <<>> /\ Head(todo) = x /\ Tail(todo) = T
    BY <1>2, InFront
  <2>2. Goes(c, todo, "none")
    <3> HIDE DEF T
    <3>1. Goes(c, todo, IF todo = <<>> THEN "ok" ELSE "none")
      BY <1>1, <1>2, <1>9, CallGoes DEF T
    <3> QED
      BY <2>1, <3>1
  <2> HIDE DEF todo
  <2>3. cmd'[c].todo = todo
    BY <2>2 DEF Goes
  <2> QED
    BY <2>1, <2>2, <2>3 DEF Goes, todo
<1>10. ASSUME NEW x \in Lineup, NEW y \in Lineup, Call(c, <<x, y>>)
       PROVE  /\ Goes(c, cmd'[c].todo, "none") /\ cmd'[c].todo # <<>> /\ Head(cmd'[c].todo) = x
              /\ Tail(cmd'[c].todo) = <<y>> \o T
              /\ Tail(cmd'[c].todo) # <<>> /\ Head(Tail(cmd'[c].todo)) = y /\ Tail(Tail(cmd'[c].todo)) = T
              /\ cmd'[c].op = me.op
  <2> DEFINE todo == <<x, y>> \o T
  <2>1. /\ todo # <<>> /\ Head(todo) = x
        /\ Tail(todo) # <<>> /\ Head(Tail(todo)) = y /\ Tail(Tail(todo)) = T
    BY <1>2, TwoInFront
  <2>2. Tail(todo) = <<y>> \o T
    <3>1. Tail(todo) \in Seq(Lineup) /\ <<y>> \o T \in Seq(Lineup)
      BY <1>2, InFront
    <3>2. Len(Tail(todo)) = Len(T) + 1 /\ Len(<<y>> \o T) = Len(T) + 1 /\ Len(T) \in Nat
      BY <1>2
    <3>3. \A i \in 1..(Len(T) + 1) : Tail(todo)[i] = (<<y>> \o T)[i]
      BY <1>2
    <3> QED
      BY <3>1, <3>2, <3>3, SeqEqual
  <2>3. Goes(c, todo, "none")
    <3> HIDE DEF T
    <3>1. Goes(c, todo, IF todo = <<>> THEN "ok" ELSE "none")
      BY <1>1, <1>2, <1>10, CallGoes DEF T
    <3> QED
      BY <2>1, <3>1
  <2> HIDE DEF todo
  <2> QED
    BY <2>1, <2>2, <2>3 DEF Goes
<1>11. Return(c, "failed") => Goes(c, <<>>, "failed")
  BY <1>1, FailsGoes
<1> SUFFICES Fine
  OBVIOUS
<1> HIDE DEF Fine, T, line
<1>12. /\ \A x \in {"status", "role", "initdb", "spawn", "halt", "version", "bootstrap", "create", "start", "init"} :
            x \in Lineup
       /\ \A x \in {"init", "initdb", "version", "bootstrap", "start", "status", "spawn", "role", "exists",
                    "create", "stop", "halt"} : At(c, x) => line = x
  BY DEF Lineup, At, line

<1>13. /\ line \in {"init", "initdb", "version", "bootstrap"} =>
            \/ /\ me.op \in {"start", "init", "link"} /\ ToMake(me.todo)
               /\ T # <<>> /\ Head(T) = "status" /\ Tail(T) \in After(me.op)
            \/ me.op = "init" /\ T = <<>> /\ (line = "init" \/ ToMake(me.todo))
       /\ line \in {"start", "status", "spawn"} =>
            /\ me.op \in {"start", "init", "link"} /\ T \in After(me.op)
            /\ line # "start" => Initialized
            /\ line = "spawn" => server = "down"
       /\ line = "role" => me.op = "init" /\ T = <<>> /\ server = "up"
       /\ line = "exists" => me.op = "link" /\ T \in FileSteps /\ server = "up"
       /\ line = "create" =>
            /\ me.op = "link" /\ T \in FileSteps /\ server = "up"
            /\ "root" \notin roles \/ me.name \notin dbs
       /\ line \in {"stop", "halt"} => me.op = "stop" /\ T = <<>> /\ (line = "halt" => server = "up")
  BY <1>2, <1>5, CourseByLine DEF T, line
<1>14. CASE InitCluster(c)
  <2>1. line = "init" /\ UNCHANGED <<cluster, server, roles>>
    BY <1>12, <1>14 DEF InitCluster
  <2>2. CASE Initialized
    <3>1. me.op = "init" /\ T = <<>> /\ Call(c, <<"start", "role">>)
      BY <1>13, <1>14, <2>1, <2>2 DEF InitCluster, ToMake, line
    <3>2. <<"role">> \o T = <<"role">>
      BY <3>1, ConcatEmptySeq DEF Lineup
    <3>3. Tail(cmd'[c].todo) \in After("init") /\ Head(cmd'[c].todo) = "start" /\ cmd'[c].op = "init"
          /\ Goes(c, cmd'[c].todo, "none")
      BY <1>10, <1>12, <3>1, <3>2 DEF After, Lineup
    <3>4. OnCourse(me)'
      BY <3>3 DEF OnCourse, ToServe, After
    <3> QED
      BY <1>6, <3>3, <3>4
  <2>3. CASE ~Initialized
    <3>1. Call(c, <<"initdb">>) /\ ~Initialized'
      BY <1>14, <2>1, <2>3 DEF InitCluster, Initialized
    <3>2. /\ Goes(c, cmd'[c].todo, "none") /\ Head(cmd'[c].todo) = "initdb" /\ Tail(cmd'[c].todo) = T
          /\ cmd'[c].op = me.op
      BY <1>9, <1>12, <3>1
    <3>3. OnCourse(me)'
      BY <1>13, <2>1, <3>1, <3>2 DEF OnCourse, ToServe, ToMake, After
    <3> QED
      BY <1>6, <3>2, <3>3
  <2> QED
    BY <2>2, <2>3
<1>15. CASE InitDb(c)
  <2>1. line = "initdb" /\ UNCHANGED <<server, roles>>
    BY <1>12, <1>15 DEF InitDb
  <2>2. CASE cluster = "none"
    <3>1. Call(c, <<"version">>)
      BY <1>15, <2>2 DEF InitDb
    <3>2. /\ Goes(c, cmd'[c].todo, "none") /\ Head(cmd'[c].todo) = "version" /\ Tail(cmd'[c].todo) = T
          /\ cmd'[c].op = me.op
      BY <1>9, <1>12, <3>1
    <3>3. OnCourse(me)'
      BY <1>13, <2>1, <3>2 DEF OnCourse, ToServe, ToMake, After
    <3> QED
      BY <1>6, <3>2, <3>3
  <2>3. CASE cluster # "none"
    <3>1. Goes(c, <<>>, "failed") /\ cluster' = cluster
      BY <1>11, <1>15, <2>3 DEF InitDb
    <3>2. ~Initialized
      BY <1>13, <2>1 DEF ToMake, line
    <3>3. cluster' = "torn"
      BY <1>1, <2>3, <3>1, <3>2 DEF Initialized, ClusterTyped
    <3> QED
      BY <1>7, <3>1, <3>3 DEF TrueReport, Goes
  <2> QED
    BY <2>2, <2>3
<1>16. CASE WriteVersion(c)
  <2>1. line = "version" /\ UNCHANGED <<server, roles>> /\ Call(c, <<"bootstrap">>)
    BY <1>12, <1>16 DEF WriteVersion
  <2>2. /\ Goes(c, cmd'[c].todo, "none") /\ Head(cmd'[c].todo) = "bootstrap" /\ Tail(cmd'[c].todo) = T
        /\ cmd'[c].op = me.op
    BY <1>9, <1>12, <2>1
  <2>3. OnCourse(me)'
    BY <1>13, <2>1, <2>2 DEF OnCourse, ToServe, ToMake, After
  <2> QED
    BY <1>6, <2>2, <2>3
<1>17. CASE Bootstrap(c)
  <2>1. /\ line = "bootstrap" /\ cluster' = "whole" /\ roles' = {"root"} /\ server' = server
        /\ Goes(c, T, IF T = <<>> THEN "ok" ELSE "none")
    BY <1>8, <1>12, <1>17 DEF Bootstrap
  <2>2. CASE T = <<>>
    <3>1. Goes(c, <<>>, "ok") /\ me.op = "init"
      BY <1>13, <2>1, <2>2
    <3>2. TrueReport(me)'
      BY <2>1, <3>1 DEF Goes, TrueReport
    <3> QED
      BY <1>7, <3>1, <3>2
  <2>3. CASE T # <<>>
    <3>1. Goes(c, T, "none") /\ me.op \in {"start", "init", "link"} /\ Head(T) = "status" /\ Tail(T) \in After(me.op)
      BY <1>13, <2>1, <2>3
    <3>2. OnCourse(me)'
      BY <2>1, <3>1 DEF OnCourse, ToServe, Goes, Initialized, After
    <3> QED
      BY <1>6, <3>1, <3>2
  <2> QED
    BY <2>2, <2>3

\* A start is over: what follows on it goes on, or the command is done.
<1>18. ASSUME Goes(c, T, IF T = <<>> THEN "ok" ELSE "none"), me.op \in {"start", "init", "link"},
              T \in After(me.op), server' = "up"
       PROVE  Fine
  <2>1. CASE T = <<>>
    <3>1. Goes(c, <<>>, "ok") /\ me.op = "start"
      <4>1. <<"role">> # <<>>
        OBVIOUS
      <4> QED
        BY <1>18, <2>1, <4>1 DEF After
    <3>2. TrueReport(me)'
      BY <1>18, <3>1 DEF Goes, TrueReport
    <3> QED
      BY <1>7, <3>1, <3>2
  <2>2. CASE T # <<>>
    <3>1. Goes(c, T, "none") /\ me.op \in {"init", "link"}
      BY <1>18, <2>2 DEF After
    <3>2. OnCourse(me)'
      BY <1>18, <3>1 DEF OnCourse, Goes, After
    <3> QED
      BY <1>6, <3>1, <3>2
  <2> QED
    BY <2>1, <2>2
<1>19. CASE Start(c)
  <2>1. line = "start" /\ UNCHANGED <<cluster, server, roles>>
    BY <1>12, <1>19 DEF Start
  <2>2. CASE Initialized
    <3>1. Call(c, <<"status">>) /\ Initialized'
      BY <1>19, <2>1, <2>2 DEF Start, Initialized
    <3>2. /\ Goes(c, cmd'[c].todo, "none") /\ Head(cmd'[c].todo) = "status" /\ Tail(cmd'[c].todo) = T
          /\ cmd'[c].op = me.op
      BY <1>9, <1>12, <3>1
    <3>3. OnCourse(me)'
      BY <1>13, <2>1, <3>1, <3>2 DEF OnCourse, ToServe, After
    <3> QED
      BY <1>6, <3>2, <3>3
  <2>3. CASE ~Initialized
    <3>1. Call(c, <<"init", "status">>) /\ ~Initialized'
      BY <1>19, <2>1, <2>3 DEF Start, Initialized
    <3>2. /\ Goes(c, cmd'[c].todo, "none") /\ Head(cmd'[c].todo) = "init" /\ Tail(cmd'[c].todo) # <<>>
          /\ Head(Tail(cmd'[c].todo)) = "status" /\ Tail(Tail(cmd'[c].todo)) = T
          /\ cmd'[c].op = me.op
      BY <1>10, <1>12, <3>1
    <3>3. OnCourse(me)'
      BY <1>13, <2>1, <3>1, <3>2 DEF OnCourse, ToServe, ToMake, After
    <3> QED
      BY <1>6, <3>2, <3>3
  <2> QED
    BY <2>2, <2>3
<1>20. CASE Status(c)
  <2>1. line = "status" /\ UNCHANGED <<cluster, server, roles>>
    BY <1>12, <1>20 DEF Status
  <2>2. CASE server = "up"
    <3>1. Goes(c, T, IF T = <<>> THEN "ok" ELSE "none")
      BY <1>8, <1>20, <2>2 DEF Status
    <3> QED
      BY <1>13, <1>18, <2>1, <2>2, <3>1
  <2>3. CASE server # "up"
    <3>1. Call(c, <<"spawn">>) /\ Initialized' /\ server' = "down"
      BY <1>1, <1>13, <1>20, <2>1, <2>3 DEF Status, Initialized, ClusterTyped
    <3>2. /\ Goes(c, cmd'[c].todo, "none") /\ Head(cmd'[c].todo) = "spawn" /\ Tail(cmd'[c].todo) = T
          /\ cmd'[c].op = me.op
      BY <1>9, <1>12, <3>1
    <3>3. OnCourse(me)'
      BY <1>13, <2>1, <3>1, <3>2 DEF OnCourse, ToServe, After
    <3> QED
      BY <1>6, <3>2, <3>3
  <2> QED
    BY <2>2, <2>3
<1>21. CASE Spawn(c)
  <2>1. line = "spawn" /\ UNCHANGED <<cluster, roles>>
    BY <1>12, <1>21 DEF Spawn
  <2>2. CASE cluster = "whole" /\ server = "down"
    <3>1. server' = "up" /\ Goes(c, T, IF T = <<>> THEN "ok" ELSE "none")
      BY <1>8, <1>21, <2>2 DEF Spawn
    <3> QED
      BY <1>13, <1>18, <2>1, <3>1
  <2>3. CASE ~(cluster = "whole" /\ server = "down")
    <3>1. Goes(c, <<>>, "failed")
      BY <1>11, <1>21, <2>3 DEF Spawn
    <3>2. cluster' = "marked"
      BY <1>13, <2>1, <2>3 DEF Initialized
    <3> QED
      BY <1>7, <3>1, <3>2 DEF TrueReport, Goes
  <2> QED
    BY <2>2, <2>3
<1>22. CASE EnsureRole(c)
  <2>1. line = "role" /\ UNCHANGED <<cluster, server>> /\ T = <<>> /\ me.op = "init" /\ server = "up"
    BY <1>12, <1>13, <1>22 DEF EnsureRole
  <2>2. CASE "user" \in roles
    <3>1. roles' = roles \cup {"root"} /\ Goes(c, <<>>, "ok")
      BY <1>8, <1>22, <2>1, <2>2 DEF EnsureRole
    <3>2. cluster' = "whole"
      BY <1>1, <2>1 DEF ClusterTyped
    <3> QED
      BY <1>7, <2>1, <3>1, <3>2 DEF TrueReport, Goes
  <2>3. CASE "user" \notin roles
    <3>1. roles' = roles /\ Goes(c, <<>>, "failed")
      BY <1>11, <1>22, <2>3 DEF EnsureRole
    <3> QED
      BY <1>7, <2>1, <2>3, <3>1 DEF TrueReport, Goes
  <2> QED
    BY <2>2, <2>3
\* The database is there: on to the files.
<1>23. ASSUME Goes(c, T, IF T = <<>> THEN "ok" ELSE "none"), me.op = "link", T \in FileSteps, server' = "up"
       PROVE  Fine
  <2>1. CASE T = <<>>
    <3>1. Goes(c, <<>>, "ok") /\ TrueReport(me)'
      BY <1>23, <2>1 DEF Goes, TrueReport
    <3> QED
      BY <1>7, <3>1
  <2>2. CASE T # <<>>
    <3>1. Goes(c, T, "none") /\ OnCourse(me)'
      BY <1>23, <2>2 DEF Goes, OnCourse
    <3> QED
      BY <1>6, <3>1
  <2> QED
    BY <2>1, <2>2
<1>24. CASE Exists(c)
  <2>1. /\ line = "exists" /\ UNCHANGED <<cluster, server, roles, dbs>>
        /\ me.op = "link" /\ T \in FileSteps /\ server = "up"
    BY <1>12, <1>13, <1>24 DEF Exists
  <2>2. CASE Answers /\ me.name \in dbs
    <3>1. Goes(c, T, IF T = <<>> THEN "ok" ELSE "none")
      BY <1>8, <1>24, <2>2 DEF Exists
    <3> QED
      BY <1>23, <2>1, <3>1
  <2>3. CASE ~(Answers /\ me.name \in dbs)
    <3>1. Call(c, <<"create">>)
      BY <1>24, <2>3 DEF Exists
    <3>2. /\ Goes(c, cmd'[c].todo, "none") /\ Head(cmd'[c].todo) = "create" /\ Tail(cmd'[c].todo) = T
          /\ cmd'[c].op = me.op /\ cmd'[c].name = me.name
      BY <1>9, <1>12, <3>1
    <3>3. OnCourse(me)'
      BY <2>1, <2>3, <3>2 DEF OnCourse, Answers
    <3> QED
      BY <1>6, <3>2, <3>3
  <2> QED
    BY <2>2, <2>3
<1>25. CASE Create(c)
  <2>1. /\ line = "create" /\ UNCHANGED <<cluster, server, roles>>
        /\ me.op = "link" /\ T \in FileSteps /\ server = "up" /\ ("root" \notin roles \/ me.name \notin dbs)
    BY <1>12, <1>13, <1>25 DEF Create
  <2>2. CASE Answers /\ me.name \notin dbs
    <3>1. Goes(c, T, IF T = <<>> THEN "ok" ELSE "none")
      BY <1>8, <1>25, <2>2 DEF Create
    <3> QED
      BY <1>23, <2>1, <3>1
  <2>3. CASE ~(Answers /\ me.name \notin dbs)
    <3>1. Goes(c, <<>>, "failed") /\ "root" \notin roles
      BY <1>11, <1>25, <2>1, <2>3 DEF Create, Answers
    <3> QED
      BY <1>7, <2>1, <3>1 DEF TrueReport, Goes
  <2> QED
    BY <2>2, <2>3
<1>26. CASE Stop(c)
  <2>1. line = "stop" /\ UNCHANGED <<cluster, server, roles>> /\ me.op = "stop" /\ T = <<>>
    BY <1>12, <1>13, <1>26 DEF Stop
  <2>2. CASE Initialized /\ server = "up"
    <3>1. Call(c, <<"halt">>)
      BY <1>26, <2>2 DEF Stop
    <3>2. /\ Goes(c, cmd'[c].todo, "none") /\ Head(cmd'[c].todo) = "halt" /\ Tail(cmd'[c].todo) = T
          /\ cmd'[c].op = me.op
      BY <1>9, <1>12, <3>1
    <3>3. OnCourse(me)'
      BY <2>1, <2>2, <3>2 DEF OnCourse
    <3> QED
      BY <1>6, <3>2, <3>3
  <2>3. CASE ~(Initialized /\ server = "up")
    <3>1. Goes(c, <<>>, "ok")
      BY <1>8, <1>26, <2>1, <2>3 DEF Stop
    <3>2. server' = "down"
      BY <1>1, <2>1, <2>3 DEF ClusterTyped, Initialized
    <3> QED
      BY <1>7, <2>1, <3>1, <3>2 DEF TrueReport, Goes
  <2> QED
    BY <2>2, <2>3
<1>27. CASE Halt(c)
  <2>1. line = "halt" /\ me.op = "stop" /\ T = <<>> /\ server = "up"
    BY <1>12, <1>13, <1>27 DEF Halt
  <2>2. server' = "down" /\ Goes(c, <<>>, "ok")
    BY <1>8, <1>27, <2>1 DEF Halt
  <2> QED
    BY <1>7, <2>1, <2>2 DEF TrueReport, Goes
<1> QED
  BY <1>14, <1>15, <1>16, <1>17, <1>19, <1>20, <1>21, <1>22, <1>24, <1>25, <1>26, <1>27 DEF Manages

\* A command that is at a line for a file.
LEMMA AtFile ==
  ASSUME ReportInv, NEW c \in Commands, Running(c), Head(cmd[c].todo) \in {"read", "write", "writeWs"},
         cmd[c].clean
  PROVE  /\ cmd[c].op \in {"link", "env"} /\ Tail(cmd[c].todo) \in FileSteps
         /\ cmd[c].op = "link" => server = "up"
<1>1. /\ OnCourse(cmd[c]) /\ cmd[c].todo \in Seq(Lineup) /\ cmd[c].todo # <<>>
  BY DEF ReportInv, Tells, Running, PgInv, CmdsGood, CmdState
<1> QED
  BY <1>1, CourseByLine

\* What is left for a file is on course, and when nothing is left the link is over.
LEMMA FileGoes ==
  ASSUME NEW c \in Commands, NEW todo \in FileSteps, NEW o \in {"none", "ok"}, Goes(c, todo, o),
         cmd[c].op \in {"link", "env"}, cmd[c].op = "link" => server = "up", server' = server
  PROVE  OnCourse(cmd[c])' /\ TrueReport(cmd[c])'
BY DEF Goes, OnCourse, TrueReport

LEMMA ReadReports ==
  ASSUME ReportInv, NEW c \in Commands, ReadFile(c)
  PROVE  ReportInv'
<1>1. PgInv' /\ \A d \in Commands \ {c} : cmd'[d] = cmd[d]
  BY ReadGood DEF ReportInv
<1>2. Running(c) /\ Head(cmd[c].todo) = "read" /\ cmd[c] \in CmdState /\ server' = server
  BY DEF ReadFile, At, ReportInv, PgInv, CmdsGood
<1>3. Goes(c, Tail(cmd[c].todo), "none")
  <2>1. cmd[c].outcome = "none"
    BY <1>2 DEF ReportInv, AllIdle
  <2>2. cmd'[c] = [cmd[c] EXCEPT !.lines = env[cmd[c].project], !.todo = Tail(cmd[c].todo)]
    BY DEF ReadFile, ReportInv, PgInv, CmdsGood
  <2> QED
    BY <1>2, <2>1, <2>2 DEF Goes, CmdState
<1>4. ASSUME cmd[c].clean
      PROVE  OnCourse(cmd[c])' /\ TrueReport(cmd[c])'
  BY <1>2, <1>3, <1>4, AtFile, FileGoes
<1>5. Tells(cmd[c])' /\ cmd'[c].outcome = "none"
  BY <1>2, <1>3, <1>4, GoesTells DEF Goes
<1> QED
  BY <1>1, <1>2, <1>5, ReportMove

LEMMA WriteReports ==
  ASSUME ReportInv, NEW c \in Commands, WriteFile(c)
  PROVE  ReportInv'
<1>1. PgInv' /\ \A d \in Commands \ {c} : cmd'[d] = cmd[d]
  BY WriteGood DEF ReportInv
<1>2. /\ Running(c) /\ Head(cmd[c].todo) \in {"write", "writeWs"} /\ cmd[c] \in CmdState
      /\ server' = server /\ Call(c, <<>>) /\ PgInv
  BY DEF WriteFile, Writing, At, ReportInv, PgInv, CmdsGood
<1> DEFINE T == Tail(cmd[c].todo)
           o == IF T = <<>> THEN "ok" ELSE "none"
<1>3. Goes(c, T, o)
  <2>1. cmd[c].outcome = "none"
    BY <1>2 DEF ReportInv, AllIdle
  <2>2. T \in Seq(Lineup)
    BY <1>2, HeadTailProperties DEF CmdState, Running
  <2>3. <<>> \o T = T
    BY <2>2, ConcatEmptySeq
  <2>4. LET todo == <<>> \o T IN Goes(c, todo, IF todo = <<>> THEN "ok" ELSE cmd[c].outcome)
    BY <1>2, CallGoes
  <2> HIDE DEF T
  <2> QED
    BY <2>1, <2>3, <2>4
<1>4. ASSUME cmd[c].clean
      PROVE  OnCourse(cmd[c])' /\ TrueReport(cmd[c])'
  BY <1>2, <1>3, <1>4, AtFile, FileGoes
<1>5. Tells(cmd[c])' /\ (cmd'[c].outcome # "none" => cmd'[c].todo = <<>>)
  BY <1>2, <1>3, <1>4, GoesTells DEF Goes
<1> QED
  BY <1>1, <1>2, <1>5, ReportMove

LEMMA BeginReports ==
  ASSUME ReportInv, NEW c \in Commands, Begin(c), "overlap" \notin Faults
  PROVE  ReportInv'
<1>1. PICK op \in {"init", "start", "stop"} : Launch(c, [Idle EXCEPT !.op = op, !.todo = <<op>>])
  BY DEF Begin
<1> DEFINE new == [Idle EXCEPT !.op = op, !.todo = <<op>>]
<1>2. Head(<<op>>) = op /\ Tail(<<op>>) = <<>>
  OBVIOUS
<1>3. new.op = op /\ new.todo = <<op>> /\ new.outcome = "none"
  BY DEF Idle
<1> HIDE DEF new
<1>4. OnCourse(new)'
  BY <1>2, <1>3 DEF OnCourse, ToServe, After
<1>5. PgInv'
  BY BeginGood DEF ReportInv
<1> QED
  BY <1>1, <1>3, <1>4, <1>5, ReportLaunch DEF new

LEMMA BeginLinkReports ==
  ASSUME ReportInv, NEW c \in Commands, NEW p \in Projects, BeginLink(c, p), "overlap" \notin Faults
  PROVE  ReportInv'
<1> DEFINE more == IF rows'[p].ws THEN <<"read", "writeWs">> ELSE <<>>
           todo == <<"start", "exists", "read", "write">> \o more
<1>1. PICK new : Launch(c, new) /\ new.op = "link" /\ new.todo = todo /\ new.outcome = "none"
  <2>1. PICK n : Launch(c, [Idle EXCEPT !.op = "link", !.project = p, !.name = n, !.keys = {"APP", "DB"},
                              !.todo = todo])
    BY DEF BeginLink
  <2> HIDE DEF todo
  <2> DEFINE it == [Idle EXCEPT !.op = "link", !.project = p, !.name = n, !.keys = {"APP", "DB"}, !.todo = todo]
  <2>2. Launch(c, it) /\ it.op = "link" /\ it.todo = todo /\ it.outcome = "none"
    BY <2>1 DEF Idle
  <2> HIDE DEF it
  <2> QED
    BY <2>2
<1>2. Head(todo) = "start" /\ Tail(todo) \in After("link")
  <2>1. more \in FileSteps /\ more \in Seq(Lineup)
    <3>1. <<"read", "writeWs">> \in FileSteps /\ <<"read", "writeWs">> \in Seq(Lineup)
      BY DEF FileSteps, Lineup
    <3>2. <<>> \in FileSteps /\ <<>> \in Seq(Lineup)
      BY DEF FileSteps, Lineup
    <3> QED
      BY <3>1, <3>2
  <2> HIDE DEF more
  <2> DEFINE files == <<"read", "write">> \o more
             rest == <<"exists">> \o files
  <2>2. files \in FileSteps /\ files \in Seq(Lineup)
    BY <2>1 DEF FileSteps, Lineup
  <2>3. todo = <<"start">> \o rest
    <3>1. <<"start", "exists", "read", "write">> = <<"start">> \o (<<"exists">> \o <<"read", "write">>)
      OBVIOUS
    <3>2. /\ <<"start">> \in Seq(Lineup) /\ <<"exists">> \in Seq(Lineup) /\ <<"read", "write">> \in Seq(Lineup)
          /\ <<"exists">> \o <<"read", "write">> \in Seq(Lineup)
      BY DEF Lineup
    <3>3. todo = <<"start">> \o ((<<"exists">> \o <<"read", "write">>) \o more)
      BY <2>1, <3>1, <3>2, ConcatAssociative
    <3>4. (<<"exists">> \o <<"read", "write">>) \o more = rest
      BY <2>1, <3>2, ConcatAssociative
    <3> QED
      BY <3>3, <3>4
  <2> HIDE DEF files, todo
  <2>4. rest \in Seq(Lineup) /\ rest # <<>> /\ Head(rest) = "exists" /\ Tail(rest) = files
    BY <2>2, InFront DEF Lineup
  <2> HIDE DEF rest
  <2>5. Head(todo) = "start" /\ Tail(todo) = rest
    BY <2>3, <2>4, InFront DEF Lineup
  <2> QED
    BY <2>2, <2>4, <2>5 DEF After
<1> HIDE DEF todo
<1>3. OnCourse(new)'
  BY <1>1, <1>2 DEF OnCourse, ToServe
<1>4. PgInv'
  BY BeginLinkGood DEF ReportInv
<1> QED
  BY <1>1, <1>3, <1>4, ReportLaunch

LEMMA BeginEnvReports ==
  ASSUME ReportInv, NEW c \in Commands, NEW p \in Projects, BeginEnv(c, p), "overlap" \notin Faults
  PROVE  ReportInv'
<1>1. PICK new : Launch(c, new) /\ new.op = "env" /\ new.todo = <<"read", "write">> /\ new.outcome = "none"
  <2>1. PICK keys : Launch(c, [Idle EXCEPT !.op = "env", !.project = p, !.name = rows[p].name,
                                 !.todo = <<"read", "write">>, !.keys = keys \cup {"APP"}])
    BY DEF BeginEnv
  <2> DEFINE it == [Idle EXCEPT !.op = "env", !.project = p, !.name = rows[p].name,
                      !.todo = <<"read", "write">>, !.keys = keys \cup {"APP"}]
  <2>2. Launch(c, it) /\ it.op = "env" /\ it.todo = <<"read", "write">> /\ it.outcome = "none"
    BY <2>1 DEF Idle
  <2> HIDE DEF it
  <2> QED
    BY <2>2
<1>2. new.todo \in FileSteps
  BY <1>1 DEF FileSteps
<1>3. OnCourse(new)'
  BY <1>1, <1>2 DEF OnCourse
<1>4. PgInv'
  BY BeginEnvGood DEF ReportInv
<1> QED
  BY <1>1, <1>3, <1>4, ReportLaunch

LEMMA FailReports ==
  ASSUME ReportInv, NEW c \in Commands, Fail(c)
  PROVE  ReportInv'
<1>1. PgInv' /\ Running(c) /\ \A d \in Commands \ {c} : cmd'[d] = cmd[d]
  BY FailGood DEF ReportInv, Fail
<1>2. cmd'[c] = [Idle EXCEPT !.op = cmd[c].op, !.outcome = "failed", !.clean = FALSE]
  BY DEF Fail, ReportInv, PgInv, CmdsGood
<1>3. cmd'[c].todo = <<>> /\ ~cmd'[c].clean
  BY <1>2 DEF Idle
<1> QED
  BY <1>1, <1>3, ReportMove DEF Tells

LEMMA CrashReports ==
  ASSUME ReportInv, Crash
  PROVE  ReportInv'
<1>1. PgInv' /\ \A c \in Commands : cmd'[c].todo = cmd[c].todo
  BY CrashGood DEF ReportInv
<1>2. \A c \in Commands : ~cmd'[c].clean /\ cmd'[c].outcome = cmd[c].outcome
  BY DEF Crash, ReportInv, PgInv, CmdsGood, CmdState
<1> QED
  BY <1>1, <1>2 DEF ReportInv, OneRuns, Running, AllIdle, Tells

\* A lookup that fails is a cause.
LEMMA LookupFailsReports ==
  ASSUME ReportInv, PgInv', NEW c \in Commands, LookupFails(c)
  PROVE  ReportInv'
<1>1. /\ Running(c) /\ cmd'[c].clean = FALSE /\ cmd'[c].outcome = cmd[c].outcome
      /\ \A d \in Commands \ {c} : cmd'[d] = cmd[d]
  BY LookupLeaves DEF ReportInv
<1>2. cmd[c].outcome = "none"
  BY <1>1 DEF ReportInv, AllIdle
<1>3. Tells(cmd[c])'
  BY <1>1 DEF Tells
<1> QED
  BY <1>1, <1>2, <1>3, ReportMove

\* Nothing of what the reports are about changes.
LEMMA SameReports ==
  ASSUME ReportInv, PgInv', UNCHANGED <<cluster, server, roles, dbs, cmd>>
  PROVE  ReportInv'
BY DEF ReportInv, OneRuns, Running, AllIdle, Tells, TrueReport, OnCourse, ToServe, ToMake, Initialized

LEMMA ReportStep ==
  ASSUME ReportInv, [Next]_vars, "overlap" \notin Faults
  PROVE  ReportInv'
<1>1. PgInv'
  BY PgStep DEF ReportInv
<1>2. ASSUME NEW c \in Commands, Step(c)
      PROVE  ReportInv'
  BY <1>1, <1>2, BeginReports, FailReports, BeginLinkReports, BeginEnvReports, ManagesReports, LookupFailsReports, ReadReports,
     WriteReports DEF Step, Manages
<1>3. CASE UNCHANGED vars
  BY <1>1, <1>3, SameReports DEF vars
<1>4. ASSUME NEW p \in Projects, Edit(p)
      PROVE  ReportInv'
  BY <1>1, <1>4, SameReports DEF Edit
<1> QED
  BY <1>2, <1>3, <1>4, CrashReports DEF Next

(***************************************************************************)
(* For any projects, any names and any number of commands that follow one  *)
(* another, a command that reports success has done what it says, through  *)
(* every call that Init and Start make of each other, and one that fails   *)
(* without anything going wrong under it met an unfinished initdb or a     *)
(* role that is missing.                                                   *)
(***************************************************************************)
THEOREM PostgresReportsAreTrue ==
  ASSUME "overlap" \notin Faults
  PROVE  Spec => []ReportsAreTrue
<1>1. ReportInv /\ [Next]_vars => ReportInv'
  BY ReportStep
<1> QED
  BY <1>1, ReportInit, ReportInvMeans, PTL DEF Spec

=============================================================================
