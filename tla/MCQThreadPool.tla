--------------------------- MODULE MCQThreadPool ---------------------------
(* TLC instances of QThreadPool. *)
EXTENDS QThreadPool
=============================================================================
