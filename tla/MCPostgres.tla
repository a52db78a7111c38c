----------------------------- MODULE MCPostgres -----------------------------
(* Instances of Postgres for TLC. *)
EXTENDS Postgres

CONSTANTS n1, n2

\* All directories have the same last component.
SameBase == [p \in Projects |-> n1]

\* A database named twice, around a line of the user's.
OneFile == {<<[key |-> "DB", value |-> "old"], [key |-> Own, value |-> "old"],
              [key |-> "DB", value |-> "old"]>>}
=============================================================================
