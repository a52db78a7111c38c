---------------------------- MODULE MCMailCapture ----------------------------
(* Instances of MailCapture for TLC. *)
EXTENDS MailCapture, TLC

MailSymmetry == Permutations(Recipients)
=============================================================================
