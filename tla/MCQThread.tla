----------------------------- MODULE MCQThread -----------------------------
(* TLC instances of QThread. *)
EXTENDS QThread
=============================================================================
