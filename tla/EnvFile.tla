------------------------------ MODULE EnvFile ------------------------------
(***************************************************************************)
(* Package laravel: the .env of a project as a sequence of lines.  A line  *)
(* that envKey finds no key in (a comment, a blank, `export K=v`) and one  *)
(* whose key Herdlite does not manage are the user's own, with key Own.    *)
(***************************************************************************)
EXTENDS Sequences, Naturals

Own == "own"

\* APP stands for AppEnv, with MailEnv, which no property tells from it; DB for
\* DatabaseEnv; WS for WebsocketEnv.
Keys == {"APP", "DB", "WS"}

Has(lines, k) == \E i \in DOMAIN lines : lines[i].key = k

\* The values of a key in a file.
ValuesOf(lines, k) == {lines[i].value : i \in {j \in DOMAIN lines : lines[j].key = k}}

\* The first loop: every line of a key that is given, be it the second.
Rewritten(lines, values) ==
  [i \in DOMAIN lines |->
     IF lines[i].key \in DOMAIN values
     THEN [key |-> lines[i].key, value |-> values[lines[i].key]] ELSE lines[i]]

\* One turn of the second loop: a key that no line has gets one.
Completed(lines, values, k) ==
  IF k \in DOMAIN values /\ ~Has(lines, k)
  THEN Append(lines, [key |-> k, value |-> values[k]]) ELSE lines

\* What ApplyEnv writes for what it has read, in the order of sortedEnvKeys.  Line
\* ends, which become "\n", are no part of a line here.
ApplyEnv(lines, values) ==
  Completed(Completed(Completed(Rewritten(lines, values),
    values, "APP"), values, "DB"), values, "WS")

\* Every line of old is still there, in its place, and the user's are as they
\* were.
KeepsLines(old, new) ==
  /\ Len(old) <= Len(new)
  /\ \A i \in DOMAIN old : /\ new[i].key = old[i].key
                           /\ old[i].key = Own => new[i] = old[i]
=============================================================================
