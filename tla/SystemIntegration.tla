-------------------------- MODULE SystemIntegration --------------------------
(***************************************************************************)
(* What install, repair, uninstall and the certificate commands do to the  *)
(* host: the local CA and the site certificates, the trust stores, the     *)
(* capability of the nginx binary, NetworkManager's files and the hook in  *)
(* ~/.zshrc.                                                               *)
(*                                                                         *)
(* A command is a program of steps, each of which writes one file or runs  *)
(* one tool; an error or Ctrl-C may end it after any of them.              *)
(*                                                                         *)
(* Abstractions: a key pair is the number of its generation; a             *)
(* certificate is the generation of the CA that signed it; a configuration *)
(* file is on, off (every line commented out) or absent.  The nginx files  *)
(* that install and repair rewrite, pacman, PHP and Composer are left out. *)
(***************************************************************************)
EXTENDS Naturals, Sequences

CONSTANTS
  Commands,  \* processes, each of which runs one command after the other
  Domains,   \* sites that get a certificate
  MaxPairs,  \* bound: CA key pairs that are generated
  Faults     \* subset of AllFaults: what may go wrong in this instance

AllFaults == {"overlap", "fail", "torn", "upgrade"}

ASSUME SystemAssumption ==
  /\ MaxPairs \in Nat \ {0}
  /\ Faults \subseteq AllFaults

VARIABLES
  made,    \* CA key pairs generated so far
  ca,      \* the two files of the CA: the key pair each belongs to, 0 if missing
  site,    \* certificate and key file of every site
  anchor,  \* the CA the system trusts, 0 for none
  nss,     \* the CA the user's browsers trust
  cap,     \* who gave nginx the capability: nobody, Herdlite, the user, or the
           \* user while Herdlite's record claims it
  owned,   \* meta nginx_cap_added_by_herdlite
  dns,     \* the two files of NetworkManager
  zsh,     \* herdlite.zsh and the hook in ~/.zshrc
  cmd,     \* local state of every command
  last,    \* history: the command that went through last, with none after it
  trusted, \* history: a command trusted the present CA and none has begun to
           \* change that
  stray,   \* history: Herdlite's capability has no record: a command ended between
           \* setcap and its record, or a blind purge took the record away
  blind    \* history: the last uninstall could not read the record that is there

files == <<made, ca, site>>
trust == <<anchor, nss>>
nginx == <<cap, owned, stray, blind>>
shell == <<dns, zsh>>
systemVars == <<files, trust, nginx, shell, cmd, last, trusted>>

Pairs    == 1..MaxPairs
FileKind == {"absent", "on", "off"}
NoSite   == [by |-> 0, key |-> FALSE]
NoCA     == [cert |-> 0, key |-> 0]

EnsureCA  == <<"checkCA", "writeCert", "writeKey">>
Trust     == <<"anchor", "nssDelete", "nssAdd">>
Setup     == <<"checkCap", "setcap", "record", "dnsMain", "dnsTest", "zshFile", "hook">>
Uninstall == <<"untrust", "nssRemove", "readRecord", "dropCap", "forget",
               "dnsTestOff", "dnsMainOff", "zshOff", "hookOff">>

\* The steps of every command, in their order.
Program ==
  [install   |-> EnsureCA \o Trust \o Setup \o <<"runtimes">>,
   repair    |-> Trust \o Setup,
   certInit  |-> EnsureCA,
   certTrust |-> <<"existingCA">> \o Trust,
   site      |-> EnsureCA \o <<"loadCA", "siteCert", "siteKey">>,
   uninstall |-> Uninstall,
   purge     |-> Uninstall \o <<"purgeConfig", "purgeData">>]

Ops      == DOMAIN Program
Trusting == {"install", "repair", "certTrust"}
Removing == {"uninstall", "purge"}

Idle == [op |-> "none", todo |-> <<>>, had |-> FALSE, site |-> "none", by |-> 0]

Todos(op) == {SubSeq(Program[op], i, Len(Program[op])) : i \in 1..Len(Program[op]) + 1}

Locals(op) ==
  [op : Ops, todo : Todos(op), had : BOOLEAN, site : Domains \cup {"none"}, by : 0..MaxPairs]

Running(me) == me \in Locals(me.op)

SystemTypeOK ==
  /\ made \in 0..MaxPairs
  /\ ca \in [cert : 0..made, key : 0..made]
  /\ site \in [Domains -> [by : 0..made, key : BOOLEAN]]
  /\ anchor \in 0..made /\ nss \in 0..made
  /\ cap \in {"none", "ours", "user", "shared"}
  /\ owned \in BOOLEAN /\ stray \in BOOLEAN /\ blind \in BOOLEAN /\ trusted \in BOOLEAN
  /\ dns \in [main : FileKind, test : FileKind]
  /\ zsh \in [file : FileKind, hook : FileKind]
  /\ last \in Ops \cup {"none"}
  /\ DOMAIN cmd = Commands
  /\ \A c \in Commands : cmd[c] = Idle \/ Running(cmd[c])

SystemInit ==
  /\ made = 0
  /\ ca = NoCA
  /\ site = [d \in Domains |-> NoSite]
  /\ anchor = 0 /\ nss = 0
  /\ cap = "none"
  /\ owned = FALSE /\ stray = FALSE /\ blind = FALSE /\ trusted = FALSE
  /\ dns = [main |-> "absent", test |-> "absent"]
  /\ zsh = [file |-> "absent", hook |-> "absent"]
  /\ cmd = [c \in Commands |-> Idle]
  /\ last = "none"

AllIdle == \A c \in Commands : cmd[c] = Idle

-----------------------------------------------------------------------------
(* The course of a command *)

At(c, step) == cmd[c].todo # <<>> /\ Head(cmd[c].todo) = step

Go(c) == cmd' = [cmd EXCEPT ![c].todo = Tail(@)] /\ UNCHANGED <<last, trusted>>

\* The rest of the command without its next n steps.
Skip(c, n) ==
  /\ cmd' = [cmd EXCEPT ![c].todo = SubSeq(@, n + 2, Len(@))]
  /\ UNCHANGED <<last, trusted>>

Abort(c) == cmd' = [cmd EXCEPT ![c] = Idle] /\ UNCHANGED <<last, trusted>>

Begin(c) ==
  /\ cmd[c] = Idle
  /\ "overlap" \in Faults \/ AllIdle
  /\ \E op \in Ops :
       /\ made < MaxPairs \/ EnsureCA # SubSeq(Program[op], 1, 3) \/ ca.key # 0
       /\ \E d \in IF op = "site" THEN Domains ELSE {"none"} :
            cmd' = [cmd EXCEPT ![c] = [Idle EXCEPT !.op = op, !.todo = Program[op], !.site = d]]
       /\ trusted' = (trusted /\ op \notin Trusting \cup Removing)
  /\ last' = "none" /\ blind' = FALSE
  /\ UNCHANGED <<files, trust, cap, owned, stray, shell>>

\* The command went through.
End(c) ==
  /\ cmd[c] # Idle /\ cmd[c].todo = <<>>
  /\ cmd' = [cmd EXCEPT ![c] = Idle]
  /\ last' = cmd[c].op
  /\ trusted' = (trusted \/ (cmd[c].op \in Trusting /\ ca.key # 0))
  /\ UNCHANGED <<files, trust, nginx, shell>>

\* An error of the next step, or Ctrl-C before it.  A purge that is cut short
\* leaves any of the files it was to remove.
Fail(c) ==
  /\ "fail" \in Faults
  /\ cmd[c].todo # <<>>
  /\ Abort(c)
  /\ stray' = (stray \/ (At(c, "record") /\ ~cmd[c].had))
  /\ IF At(c, "purgeData") /\ "torn" \in Faults
     THEN \E gone \in SUBSET ({"cert", "key"} \cup Domains) :
            /\ ca' = [f \in {"cert", "key"} |-> IF f \in gone THEN 0 ELSE ca[f]]
            /\ site' = [d \in Domains |-> IF d \in gone THEN NoSite ELSE site[d]]
     ELSE UNCHANGED <<ca, site>>
  /\ UNCHANGED <<made, trust, cap, owned, blind, shell>>

-----------------------------------------------------------------------------
(* Certificates *)

\* EnsureCA: a CA of which a file is missing is made anew.
CheckCA(c) ==
  /\ At(c, "checkCA")
  /\ IF ca.cert # 0 /\ ca.key # 0 THEN Skip(c, 2) ELSE Go(c)
  /\ UNCHANGED <<files, trust, nginx, shell>>

\* Mutant: an existing file is kept.
WriteCertOnce(c) ==
  /\ At(c, "writeCert")
  /\ made < MaxPairs
  /\ made' = made + 1
  /\ ca' = [ca EXCEPT !.cert = IF @ = 0 THEN made' ELSE @]
  /\ cmd' = [cmd EXCEPT ![c].by = made', ![c].todo = Tail(@)]
  /\ UNCHANGED <<site, trust, nginx, shell, last, trusted>>

WriteCert(c) ==
  /\ At(c, "writeCert")
  /\ made < MaxPairs
  /\ made' = made + 1
  /\ ca' = [ca EXCEPT !.cert = made']
  /\ cmd' = [cmd EXCEPT ![c].by = made', ![c].todo = Tail(@)]
  /\ UNCHANGED <<site, trust, nginx, shell, last, trusted>>

\* Mutant: the file gets a key of its own.
WriteKeyAnew(c) ==
  /\ At(c, "writeKey")
  /\ ca' = [ca EXCEPT !.key = made + 1]
  /\ Go(c)
  /\ UNCHANGED <<made, site, trust, nginx, shell>>

WriteKey(c) ==
  /\ At(c, "writeKey")
  /\ ca' = [ca EXCEPT !.key = cmd[c].by]
  /\ Go(c)
  /\ UNCHANGED <<made, site, trust, nginx, shell>>

\* EnsureSite: a site that has both files keeps them; otherwise it is signed
\* with the CA as it is on disk, whose key must match.
LoadCA(c) ==
  LET mine == site[cmd[c].site]
  IN /\ At(c, "loadCA")
     /\ IF mine.by # 0 /\ mine.key THEN Skip(c, 2)
        ELSE IF ca.cert = 0 \/ ca.cert # ca.key THEN Abort(c)
        ELSE /\ cmd' = [cmd EXCEPT ![c].by = ca.cert, ![c].todo = Tail(@)]
             /\ UNCHANGED <<last, trusted>>
     /\ UNCHANGED <<files, trust, nginx, shell>>

SiteCert(c) ==
  /\ At(c, "siteCert")
  /\ site' = [site EXCEPT ![cmd[c].site].by = cmd[c].by]
  /\ Go(c)
  /\ UNCHANGED <<made, ca, trust, nginx, shell>>

SiteKey(c) ==
  /\ At(c, "siteKey")
  /\ site' = [site EXCEPT ![cmd[c].site].key = TRUE]
  /\ Go(c)
  /\ UNCHANGED <<made, ca, trust, nginx, shell>>

\* cert trust wants a complete CA.
ExistingCA(c) ==
  /\ At(c, "existingCA")
  /\ IF ca.cert # 0 /\ ca.key # 0 THEN Go(c) ELSE Abort(c)
  /\ UNCHANGED <<files, trust, nginx, shell>>

-----------------------------------------------------------------------------
(* Trust *)

\* Mutant: an anchor that is there is left alone.
TrustCAKept(c) ==
  /\ At(c, "anchor")
  /\ IF ca.cert = 0 THEN Abort(c) /\ UNCHANGED anchor
     ELSE Go(c) /\ anchor' = IF anchor = 0 THEN ca.cert ELSE anchor
  /\ UNCHANGED <<files, nss, nginx, shell>>

TrustCA(c) ==
  /\ At(c, "anchor")
  /\ IF ca.cert = 0 THEN Abort(c) /\ UNCHANGED anchor
                    ELSE Go(c) /\ anchor' = ca.cert
  /\ UNCHANGED <<files, nss, nginx, shell>>

\* TrustUserNSSCA: the old certificate goes before the new one comes, and an
\* error of its deletion is ignored.  UntrustUserNSSCA reports the error.
NssDelete(c) ==
  /\ \/ (At(c, "nssDelete") \/ At(c, "nssRemove")) /\ nss' = 0
     \/ "fail" \in Faults /\ At(c, "nssDelete") /\ nss' = nss
  /\ Go(c)
  /\ UNCHANGED <<files, anchor, nginx, shell>>

NssAdd(c) ==
  /\ At(c, "nssAdd")
  /\ nss' = ca.cert
  /\ Go(c)
  /\ UNCHANGED <<files, anchor, nginx, shell>>

UntrustCA(c) ==
  /\ At(c, "untrust")
  /\ anchor' = 0
  /\ Go(c)
  /\ UNCHANGED <<files, nss, nginx, shell>>

-----------------------------------------------------------------------------
(* The capability of nginx *)

CheckCap(c) ==
  /\ At(c, "checkCap")
  /\ cmd' = [cmd EXCEPT ![c].had = cap # "none", ![c].todo = Tail(@)]
  /\ UNCHANGED <<files, trust, nginx, shell, last, trusted>>

EnableLowPortBinding(c) ==
  /\ At(c, "setcap")
  /\ cap' = IF cap = "none" THEN "ours" ELSE cap
  /\ Go(c)
  /\ UNCHANGED <<files, trust, owned, stray, blind, shell>>

\* Mutant: whoever had set it.
RecordAlways(c) ==
  /\ At(c, "record")
  /\ owned' = TRUE
  /\ Go(c)
  /\ UNCHANGED <<files, trust, cap, stray, blind, shell>>

\* The capability is Herdlite's own if nginx did not have it before.
Record(c) ==
  /\ At(c, "record")
  /\ owned' = (owned \/ ~cmd[c].had)
  /\ Go(c)
  /\ UNCHANGED <<files, trust, cap, stray, blind, shell>>

\* uninstallSystem discards the error of MetaValue: a record that cannot be read
\* counts as none.
ReadRecord(c) ==
  /\ At(c, "readRecord")
  /\ \/ owned /\ Go(c) /\ blind' = blind
     \/ ~owned /\ Skip(c, 2) /\ blind' = blind
     \/ "fail" \in Faults /\ owned /\ Skip(c, 2) /\ blind' = TRUE
  /\ UNCHANGED <<files, trust, cap, owned, stray, shell>>

DisableLowPortBinding(c) ==
  /\ At(c, "dropCap")
  /\ cap' = "none" /\ stray' = FALSE
  /\ Go(c)
  /\ UNCHANGED <<files, trust, owned, blind, shell>>

\* An error of the deletion is ignored.
Forget(c) ==
  /\ At(c, "forget")
  /\ \/ owned' = FALSE
     \/ "fail" \in Faults /\ owned' = owned
  /\ Go(c)
  /\ UNCHANGED <<files, trust, cap, stray, blind, shell>>

\* The user, or an upgrade of the package that replaces the binary, between
\* two commands.
UserSetcap ==
  /\ AllIdle /\ cap = "none"
  /\ cap' = IF owned THEN "shared" ELSE "user"
  /\ last' = "none"
  /\ UNCHANGED <<files, trust, owned, stray, blind, shell, cmd, trusted>>

UpgradeNginx ==
  /\ "upgrade" \in Faults
  /\ AllIdle /\ cap # "none"
  /\ cap' = "none" /\ stray' = FALSE
  /\ last' = "none"
  /\ UNCHANGED <<files, trust, owned, blind, shell, cmd, trusted>>

-----------------------------------------------------------------------------
(* NetworkManager and zsh *)

Off(file) == IF file = "absent" THEN "absent" ELSE "off"

DnsMain(c) ==
  /\ At(c, "dnsMain")
  /\ dns' = [dns EXCEPT !.main = "on"]
  /\ Go(c)
  /\ UNCHANGED <<files, trust, nginx, zsh>>

DnsTest(c) ==
  /\ At(c, "dnsTest")
  /\ dns' = [dns EXCEPT !.test = "on"]
  /\ Go(c)
  /\ UNCHANGED <<files, trust, nginx, zsh>>

DnsTestOff(c) ==
  /\ At(c, "dnsTestOff")
  /\ dns' = [dns EXCEPT !.test = Off(@)]
  /\ Go(c)
  /\ UNCHANGED <<files, trust, nginx, zsh>>

DnsMainOff(c) ==
  /\ At(c, "dnsMainOff")
  /\ dns' = [dns EXCEPT !.main = Off(@)]
  /\ Go(c)
  /\ UNCHANGED <<files, trust, nginx, zsh>>

WriteZshIntegration(c) ==
  /\ At(c, "zshFile")
  /\ zsh' = [zsh EXCEPT !.file = "on"]
  /\ Go(c)
  /\ UNCHANGED <<files, trust, nginx, dns>>

\* The source line counts as present wherever ~/.zshrc contains it, in a
\* comment too.
EnsureZshrcHook(c) ==
  /\ At(c, "hook")
  /\ zsh' = [zsh EXCEPT !.hook = IF @ = "absent" THEN "on" ELSE @]
  /\ Go(c)
  /\ UNCHANGED <<files, trust, nginx, dns>>

\* Mutant: a file that is commented out already has been dealt with.
DisableZshTwice(c) ==
  /\ At(c, "zshOff")
  /\ IF zsh.file # "on" THEN Skip(c, 1) /\ UNCHANGED zsh
     ELSE Go(c) /\ zsh' = [zsh EXCEPT !.file = "off"]
  /\ UNCHANGED <<files, trust, nginx, dns>>

\* DisableZshIntegration leaves the hook alone when herdlite.zsh is missing.
DisableZsh(c) ==
  /\ At(c, "zshOff")
  /\ IF zsh.file = "absent" THEN Skip(c, 1) /\ UNCHANGED zsh
     ELSE Go(c) /\ zsh' = [zsh EXCEPT !.file = "off"]
  /\ UNCHANGED <<files, trust, nginx, dns>>

CommentZshrcHook(c) ==
  /\ At(c, "hookOff")
  /\ zsh' = [zsh EXCEPT !.hook = Off(@)]
  /\ Go(c)
  /\ UNCHANGED <<files, trust, nginx, dns>>

\* The latest PHP and Composer.
Runtimes(c) ==
  /\ At(c, "runtimes")
  /\ Go(c)
  /\ UNCHANGED <<files, trust, nginx, shell>>

\* The directory of the configuration holds the state file and herdlite.zsh,
\* that of the data the certificates.
PurgeConfig(c) ==
  /\ At(c, "purgeConfig")
  /\ owned' = FALSE
  /\ zsh' = [zsh EXCEPT !.file = "absent"]
  /\ stray' = (stray \/ (cap = "ours" /\ blind))
  /\ Go(c)
  /\ UNCHANGED <<files, trust, cap, blind, dns>>

PurgeData(c) ==
  /\ At(c, "purgeData")
  /\ ca' = NoCA
  /\ site' = [d \in Domains |-> NoSite]
  /\ Go(c)
  /\ UNCHANGED <<made, trust, nginx, shell>>

Step(c) ==
  \/ Begin(c) \/ End(c) \/ Fail(c)
  \/ CheckCA(c) \/ WriteCert(c) \/ WriteKey(c) \/ LoadCA(c) \/ SiteCert(c) \/ SiteKey(c)
  \/ ExistingCA(c) \/ TrustCA(c) \/ NssDelete(c) \/ NssAdd(c) \/ UntrustCA(c)
  \/ CheckCap(c) \/ EnableLowPortBinding(c) \/ Record(c)
  \/ ReadRecord(c) \/ DisableLowPortBinding(c) \/ Forget(c)
  \/ DnsMain(c) \/ DnsTest(c) \/ DnsTestOff(c) \/ DnsMainOff(c)
  \/ WriteZshIntegration(c) \/ EnsureZshrcHook(c) \/ DisableZsh(c) \/ CommentZshrcHook(c)
  \/ Runtimes(c) \/ PurgeConfig(c) \/ PurgeData(c)

SystemNext == (\E c \in Commands : Step(c)) \/ UserSetcap \/ UpgradeNginx

SystemSpec == SystemInit /\ [][SystemNext]_systemVars

-----------------------------------------------------------------------------
(* Properties *)

(***************************************************************************)
(* The CA stays of one piece wherever its creation was cut short, and is   *)
(* never made anew under certificates that are kept.  Once install, repair *)
(* or cert trust has gone through over a complete CA, the browsers of the  *)
(* user and the system trust the sites that exist and those linked later,  *)
(* whatever came before.                                                   *)
(***************************************************************************)
SitesAreTrusted ==
  AllIdle =>
    /\ ca.cert # 0 /\ ca.key # 0 => ca.cert = ca.key
    /\ \A d \in Domains : site[d].key => site[d].by = ca.cert
    /\ trusted => anchor = ca.cert /\ nss = ca.cert /\ ca.cert # 0

(***************************************************************************)
(* Herdlite never records the user's own capability of nginx as its own,   *)
(* and forgets none it has set, except when it was stopped in between or a *)
(* purge could not read the record it removes.                             *)
(***************************************************************************)
RecordIsRight ==
  /\ owned => cap # "user"
  /\ AllIdle /\ cap = "ours" /\ ~stray => owned

(***************************************************************************)
(* An uninstall that has gone through takes back everything, whatever      *)
(* commands failed before and wherever they stopped.  Herdlite's own       *)
(* capability of nginx stays in two cases only: there is no record of it,  *)
(* or this uninstall could not read the record.  It then goes through all  *)
(* the same, and the record is kept, so that an uninstall that can read it *)
(* takes the capability back; only a purge removes the record as well.     *)
(***************************************************************************)
UninstalledLeavesNothing ==
  last \in Removing =>
    /\ anchor = 0 /\ nss = 0
    /\ cap = "ours" => stray \/ (blind /\ owned)
    /\ dns.main # "on" /\ dns.test # "on"
    /\ zsh.file # "on" /\ zsh.hook # "on"

(***************************************************************************)
(* install reports that the zsh integration is configured, repair that the *)
(* hook is appended if it is missing: then ~/.zshrc sources herdlite.zsh.  *)
(***************************************************************************)
InstalledMeansHooked == last \in {"install", "repair"} => zsh.hook = "on"
=============================================================================
