---------------------------- MODULE MCQLocalPipe ----------------------------
(* TLC instances of QLocalPipe, and writeBlock()'s loop as it is written. *)
EXTENDS QLocalPipe

\* How many bytes rounds copy that begin after n of len, at place w of a chunk of g.
Rounds(len, w, g) ==
  LET from[n \in 0..(len + g), v \in 0..(g - 1)] ==
        IF n >= len THEN n
        ELSE LET round == Min2(len, g - v) IN from[n + round, (v + round) % g]
  IN  from[0, w]

ASSUME CopiedIsWhatTheLoopCopies ==
  \A g \in 1..6 : \A len \in 1..14, w \in 0..(g - 1) : Copied(len, w, g) = Rounds(len, w, g)
ASSUME WhatFitsIsCopiedAsItIs ==
  \A g \in 1..6 : \A len \in 1..14, w \in 0..(g - 1) : Fits(len, w, g) <=> Copied(len, w, g) = len
=============================================================================
