----------------------------- MODULE MCChangeQueue -----------------------------
(* Small instances of ChangeQueue for TLC.                                 *)
EXTENDS ChangeQueue

CONSTANTS b1, b2   \* learned rules

TwoLearned == <<b1, b2>>
OneLearned == <<b1>>

=============================================================================
