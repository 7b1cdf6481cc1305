----------------------------- MODULE MCQRWMutex -----------------------------
(* TLC instances of QRWMutex. *)
EXTENDS QRWMutex
=============================================================================
