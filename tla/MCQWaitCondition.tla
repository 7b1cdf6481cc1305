-------------------------- MODULE MCQWaitCondition --------------------------
(* TLC instances of QWaitCondition. *)
EXTENDS QWaitCondition
=============================================================================
