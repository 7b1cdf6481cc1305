------------------------------ MODULE MCQMutex ------------------------------
(* TLC instances of QMutex. *)
EXTENDS QMutex

CONSTANTS t1, t2

\* Every thread calls lock(), or every thread calls tryLock().
LockOrTry == {[lock |-> Threads, try |-> {}], [lock |-> {}, try |-> Threads]}

\* Both call lock(), and one of them tryLock() as well.
LockAndTry == {[lock |-> Threads, try |-> {t2}]}
=============================================================================
