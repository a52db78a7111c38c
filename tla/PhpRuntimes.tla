---------------------------- MODULE PhpRuntimes ----------------------------
(***************************************************************************)
(* PHP versions: `herdlite php install`, `php global`, `php use` and       *)
(* `php eol sync`, and the shim, which picks the PHP that `php` runs.      *)
(*                                                                         *)
(* An installation compiles into its prefix, writes the configuration of   *)
(* FPM there, looks at the result and records it.  It may stop anywhere;   *)
(* the next one decides from the prefix alone whether there is work left,  *)
(* and no command ever removes a prefix or a row.                          *)
(*                                                                         *)
(* Abstractions: a version is <<major, minor, patch>>, a request a prefix  *)
(* of one (<<>> is "latest"); download, extraction, configure and make     *)
(* touch only files that every attempt makes anew, so they are one step;   *)
(* `php use` stops at the row (ProjectLinks has the files it writes).      *)
(***************************************************************************)
EXTENDS Naturals, FiniteSets

CONSTANTS
  Commands, \* processes that run a command, over and over
  Versions, \* the releases that GitHub lists, drafts and previews left out
  Branches, \* minor versions on php.net's page about end of life
  None,     \* no version
  MaxMishaps, \* bound: failures, failed builds and upgrades
  Faults    \* subset of AllFaults: what may go wrong in this instance

\* "fail": a command stops at any step; "upgrade": the system loses a library
\* that PHP needs; "overlap": two commands of a kind at a time; "redesign":
\* php.net's page has no table that ParseEOL finds.
AllFaults == {"fail", "upgrade", "overlap", "redesign"}

ASSUME PhpAssumption ==
  /\ Versions \subseteq Nat \X Nat \X Nat
  /\ None \notin Versions
  /\ MaxMishaps \in Nat
  /\ Faults \subseteq AllFaults

VARIABLES
  prefix,  \* what `make install` and RenderConfig have left in every prefix
  rows,    \* table php_runtimes
  chosen,  \* global_php_version, and the pin of the project one works in
  site,    \* branches php.net lists
  eol,     \* table php_eol_branches
  cmd,     \* local state of every command
  spoiled, \* history: prefixes hurt after they had their php-fpm.conf, and not
           \* rebuilt since by an install that went through
  mishaps  \* how much has gone wrong so far

vars == <<prefix, rows, chosen, site, eol, cmd, spoiled, mishaps>>

Requests == UNION {{<<>>, <<v[1], v[2]>>, v} : v \in Versions}

\* bin: the binaries; rest: what `make install` copies after them.
PrefixStates == [bin : {"none", "torn", "poor", "good"},
             rest : {"none", "torn", "whole"}, conf : BOOLEAN]

Pcs == {"idle", "resolve", "look", "make", "install", "binaries", "others", "render",
        "validate", "record", "choose", "fetch", "replace"}

CmdState == [op : {"none", "install", "global", "use", "sync"}, pc : Pcs,
             request : Requests \cup {<<>>}, force : BOOLEAN,
             version : Versions \cup {None}, page : SUBSET Branches]

Idle == [op |-> "none", pc |-> "idle", request |-> <<>>, force |-> FALSE,
         version |-> None, page |-> {}]

TypeOK ==
  /\ prefix \in [Versions -> PrefixStates]
  /\ rows \subseteq Versions
  /\ chosen \in [{"global", "pin"} -> rows \cup {None}]
  /\ site \subseteq Branches
  /\ eol \subseteq Branches
  /\ cmd \in [Commands -> CmdState]
  /\ spoiled \subseteq Versions
  /\ mishaps \in 0..MaxMishaps

Init ==
  /\ prefix = [v \in Versions |-> [bin |-> "none", rest |-> "none", conf |-> FALSE]]
  /\ rows = {}
  /\ chosen = [w \in {"global", "pin"} |-> None]
  /\ site = {}
  /\ eol = {}
  /\ cmd = [c \in Commands |-> Idle]
  /\ spoiled = {}
  /\ mishaps = 0

-----------------------------------------------------------------------------
(* Finding a version *)

\* Mutant: the order of ORDER BY version DESC, where 8.9 comes before 8.10.
NewerAsText(v, w) ==
  LET text(n) == IF n < 10 THEN 10 * n ELSE n
  IN \E i \in 1..3 : text(v[i]) > text(w[i]) /\ \A j \in 1..(i - 1) : v[j] = w[j]

\* compareVersion(v, w) > 0.
Newer(v, w) == \E i \in 1..3 : v[i] > w[i] /\ \A j \in 1..(i - 1) : v[j] = w[j]

Matches(v, request) == \A i \in DOMAIN request : v[i] = request[i]

\* PHPRuntimeForRequest and ResolveRelease: of the list, newest first, the
\* first that matches.  A full version is never taken for a minor one.
Firsts(set, request) ==
  LET hits == {v \in set : Matches(v, request)}
  IN {v \in hits : \A w \in hits : ~Newer(w, v)}

Find(set, request) ==
  IF Firsts(set, request) = {} THEN None ELSE CHOOSE v \in Firsts(set, request) : TRUE

\* resolveShimPHPRuntime, inside the project or elsewhere.
ShimRuns(inside) ==
  IF inside /\ chosen["pin"] # None THEN Find(rows, chosen["pin"])
  ELSE IF chosen["global"] # None THEN Find(rows, chosen["global"])
  ELSE Find(rows, <<>>)

-----------------------------------------------------------------------------
(* Commands *)

At(c, pc) == cmd[c].pc = pc

\* Something goes wrong.
Mishap == mishaps < MaxMishaps /\ mishaps' = mishaps + 1

Goto(c, pc) == cmd' = [cmd EXCEPT ![c].pc = pc]

Return(c) == cmd' = [cmd EXCEPT ![c] = Idle]

Begin(c) ==
  /\ At(c, "idle")
  /\ \E op \in {"install", "global", "use", "sync"}, r \in Requests, force \in BOOLEAN :
       /\ "overlap" \in Faults \/ \A d \in Commands : cmd[d].op # op
       /\ op # "install" => ~force
       /\ op = "sync" => r = <<>>
       /\ cmd' = [cmd EXCEPT ![c] = [Idle EXCEPT !.op = op, !.request = r, !.force = force,
            !.pc = CASE op = "install" -> "resolve" [] op = "sync" -> "fetch"
                     [] OTHER -> "choose"]]
  /\ UNCHANGED <<prefix, rows, chosen, site, eol, spoiled, mishaps>>

\* A prefix that had its php-fpm.conf and is written to is hurt when the writer
\* stops.
Hurts(c) == cmd[c].pc \in {"binaries", "others", "render", "validate"}
              /\ prefix[cmd[c].version].conf

\* Any step may be the last of its command: an error, a signal, no power.
Fail(c) ==
  /\ "fail" \in Faults
  /\ ~At(c, "idle")
  /\ spoiled' = IF Hurts(c) THEN spoiled \cup {cmd[c].version} ELSE spoiled
  /\ Mishap
  /\ Return(c)
  /\ UNCHANGED <<prefix, rows, chosen, site, eol>>

-----------------------------------------------------------------------------
(* php install *)

\* Releases and ResolveRelease.
Resolve(c) ==
  LET v == Find(Versions, cmd[c].request)
  IN /\ At(c, "resolve")
     /\ IF v = None THEN Return(c)
        ELSE cmd' = [cmd EXCEPT ![c].version = v, ![c].pc = "look"]
     /\ UNCHANGED <<prefix, rows, chosen, site, eol, spoiled, mishaps>>

\* Mutant: without validateFPMConfig.
ValidBinaries(v) == prefix[v].bin = "good"

\* ValidateRuntime runs the binaries and needs a php-fpm.conf; it looks at
\* nothing else.
Valid(v) == prefix[v].bin = "good" /\ prefix[v].conf

\* An installation that is valid is not compiled again, unless --force: also
\* one that a rebuild left half copied, with binaries that run.
Look(c) ==
  /\ At(c, "look")
  /\ Goto(c, IF ~cmd[c].force /\ Valid(cmd[c].version) THEN "record" ELSE "make")
  /\ UNCHANGED <<prefix, rows, chosen, site, eol, spoiled, mishaps>>

\* Download, extraction, buildconf, configure and make.
Make(c) ==
  /\ At(c, "make")
  /\ Goto(c, "install")
  /\ UNCHANGED <<prefix, rows, chosen, site, eol, spoiled, mishaps>>

\* `make install` starts to overwrite the binaries ..
InstallBinaries(c) ==
  /\ At(c, "install")
  /\ prefix' = [prefix EXCEPT ![cmd[c].version].bin = "torn"]
  /\ Goto(c, "binaries")
  /\ UNCHANGED <<rows, chosen, site, eol, spoiled, mishaps>>

\* .. goes on with headers, build scripts and PEAR; the binaries may lack a
\* module or not run ..
InstallOthers(c) ==
  /\ At(c, "binaries")
  /\ \E made \in {"good", "poor"} :
       /\ prefix' = [prefix EXCEPT ![cmd[c].version].bin = made,
                                   ![cmd[c].version].rest = "torn"]
       /\ IF made = "poor" THEN Mishap ELSE UNCHANGED mishaps
  /\ Goto(c, "others")
  /\ UNCHANGED <<rows, chosen, site, eol, spoiled>>

\* .. and ends.
EndInstall(c) ==
  /\ At(c, "others")
  /\ prefix' = [prefix EXCEPT ![cmd[c].version].rest = "whole"]
  /\ Goto(c, "render")
  /\ UNCHANGED <<rows, chosen, site, eol, spoiled, mishaps>>

\* RenderConfigForPaths.  The pool file follows php-fpm.conf, which includes it:
\* php-fpm -t fails in between, so conf stands for both.  `herdlite start`
\* renders them again, for recorded versions only, which have them.
RenderConfig(c) ==
  /\ At(c, "render")
  /\ prefix' = [prefix EXCEPT ![cmd[c].version].conf = TRUE]
  /\ Goto(c, "validate")
  /\ UNCHANGED <<rows, chosen, site, eol, spoiled, mishaps>>

\* Mutant: what was built is not validated.
ValidateNothing(c) ==
  /\ At(c, "validate")
  /\ spoiled' = spoiled \ {cmd[c].version}
  /\ Goto(c, "record")
  /\ UNCHANGED <<prefix, rows, chosen, site, eol, mishaps>>

Validate(c) ==
  LET v == cmd[c].version
  IN /\ At(c, "validate")
     /\ IF Valid(v)
        THEN /\ Goto(c, "record")
             /\ spoiled' = IF prefix[v].rest = "whole" THEN spoiled \ {v} ELSE spoiled
        ELSE /\ Return(c)
             /\ spoiled' = spoiled \cup {v}
     /\ UNCHANGED <<prefix, rows, chosen, site, eol, mishaps>>

\* UpsertPHPRuntime.
Record(c) ==
  /\ At(c, "record")
  /\ rows' = rows \cup {cmd[c].version}
  /\ Return(c)
  /\ UNCHANGED <<prefix, chosen, site, eol, spoiled, mishaps>>

\* A library goes or changes under a finished installation.
Upgrade(v) ==
  /\ "upgrade" \in Faults
  /\ prefix[v].bin = "good"
  /\ prefix' = [prefix EXCEPT ![v].bin = "poor"]
  /\ spoiled' = spoiled \cup {v}
  /\ Mishap
  /\ UNCHANGED <<rows, chosen, site, eol, cmd>>

-----------------------------------------------------------------------------
(* php global, php use, php eol sync *)

\* Mutant: what the user typed is kept, instead of the version it meant.
ChooseRequest(c) ==
  /\ At(c, "choose")
  /\ chosen' = [chosen EXCEPT ![IF cmd[c].op = "use" THEN "pin" ELSE "global"] =
       IF Find(rows, cmd[c].request) = None THEN @ ELSE cmd[c].request]
  /\ Return(c)
  /\ UNCHANGED <<prefix, rows, site, eol, spoiled, mishaps>>

\* The lookup, and SetMetaValue or SetProjectPHPVersion with the full version.
\* Rows never go, so the two need no steps of their own.
Choose(c) ==
  LET v     == Find(rows, cmd[c].request)
      where == IF cmd[c].op = "use" THEN "pin" ELSE "global"
  IN /\ At(c, "choose")
     /\ chosen' = [chosen EXCEPT ![where] = IF v = None THEN @ ELSE v]
     /\ Return(c)
     /\ UNCHANGED <<prefix, rows, site, eol, spoiled, mishaps>>

\* A branch reaches its end of life.
Retire(b) ==
  /\ b \notin site
  /\ site' = site \cup {b}
  /\ UNCHANGED <<prefix, rows, chosen, eol, cmd, spoiled, mishaps>>

\* EOLClient.Branches.
FetchPage(c) ==
  /\ At(c, "fetch")
  /\ \E page \in {site} \cup (IF "redesign" \in Faults THEN {{}} ELSE {}) :
       cmd' = [cmd EXCEPT ![c].page = page, ![c].pc = "replace"]
  /\ UNCHANGED <<prefix, rows, chosen, site, eol, spoiled, mishaps>>

\* Mutant: the DELETE is committed although an INSERT fails.
ReplaceWithoutTransaction(c) ==
  /\ At(c, "replace")
  /\ \E stored \in {cmd[c].page, {}} : eol' = stored
  /\ Return(c)
  /\ UNCHANGED <<prefix, rows, chosen, site, spoiled, mishaps>>

\* ReplacePHPEOLBranches, a transaction; a branch that is listed twice breaks
\* the primary key and rolls it back.
ReplaceEOL(c) ==
  /\ At(c, "replace")
  /\ eol' \in {cmd[c].page, eol}
  /\ Return(c)
  /\ UNCHANGED <<prefix, rows, chosen, site, spoiled, mishaps>>

Step(c) ==
  \/ Begin(c) \/ Fail(c)
  \/ Resolve(c) \/ Look(c) \/ Make(c) \/ InstallBinaries(c) \/ InstallOthers(c)
  \/ EndInstall(c) \/ RenderConfig(c) \/ Validate(c) \/ Record(c)
  \/ Choose(c) \/ FetchPage(c) \/ ReplaceEOL(c)

Next ==
  \/ \E c \in Commands : Step(c)
  \/ \E v \in Versions : Upgrade(v)
  \/ \E b \in Branches : Retire(b)

Spec == Init /\ [][Next]_vars

-----------------------------------------------------------------------------
(* Properties *)

\* A command writes to the prefix of v.
Writing(v) ==
  \E c \in Commands : cmd[c].version = v
                        /\ cmd[c].pc \in {"binaries", "others", "render", "validate"}

(***************************************************************************)
(* A version that `php list` shows has its configuration, and it is        *)
(* complete, down to the files that ValidateRuntime does not look at,      *)
(* however often its installation was cut short before it was first        *)
(* complete: RenderConfig comes last, and a prefix without php-fpm.conf is *)
(* built again (Installer.Install, RenderConfigForPaths, ValidateRuntime). *)
(* Excused are prefixes hurt after that, by a rebuild (--force, or the     *)
(* answer to a lost library) that was cut short or not valid, or by the    *)
(* system.  They are complete again when a rebuild goes through, and only  *)
(* then: a plain install takes one as it is as soon as its binaries run.   *)
(***************************************************************************)
RecordedIsWhole ==
  /\ \A v \in rows : prefix[v].conf
  /\ \A v \in rows \ spoiled :
       Writing(v) \/ prefix[v] = [bin |-> "good", rest |-> "whole", conf |-> TRUE]

\* The newest of a set, by the meaning of version numbers.
IsNewest(v, set) ==
  /\ v \in set
  /\ \A w \in set : \/ w[1] < v[1]
                    \/ w[1] = v[1] /\ (w[2] < v[2] \/ (w[2] = v[2] /\ w[3] <= v[3]))

(***************************************************************************)
(* Every request (latest, minor or full) finds the newest installed        *)
(* version that it names, 8.10 being newer than 8.9, and the shim finds a  *)
(* PHP whenever one is installed: what was chosen cannot get lost.         *)
(***************************************************************************)
ResolutionIsRight ==
  /\ \A r \in Requests :
       LET named == {v \in rows : Matches(v, r)}
       IN IF named = {} THEN Find(rows, r) = None ELSE IsNewest(Find(rows, r), named)
  /\ rows # {} => \A inside \in BOOLEAN : ShimRuns(inside) \in rows

(***************************************************************************)
(* What `php` runs in a directory changes only by `php use`, by            *)
(* `php global`, or, where neither has chosen, to a newer version: an      *)
(* installation of 8.4.6 takes no project pinned by "8.4" off its 8.4.5.   *)
(***************************************************************************)
ChoicesHold ==
  [][chosen' = chosen =>
       \A inside \in BOOLEAN :
         \/ ShimRuns(inside)' = ShimRuns(inside)
         \/ /\ chosen["global"] = None /\ (inside => chosen["pin"] = None)
            /\ ShimRuns(inside) # None => Newer(ShimRuns(inside)', ShimRuns(inside))]_vars

(***************************************************************************)
(* End of life is final: a branch that a sync has reported is not shown as *)
(* supported again, wherever a later sync stops or fails                   *)
(* (ReplacePHPEOLBranches).  Assumed is a page with the table that         *)
(* ParseEOL looks for: it takes a page without one for an empty list, and  *)
(* the sync then empties the table ("redesign").                           *)
(***************************************************************************)
EndOfLifeIsFinal == [][eol \subseteq eol']_vars
=============================================================================
