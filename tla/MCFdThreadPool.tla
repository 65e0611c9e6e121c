--------------------------- MODULE MCFdThreadPool ---------------------------
(* Instances of FdThreadPool for TLC: two tasks share a descriptor. *)
EXTENDS FdThreadPool, TLC

CONSTANTS t1, t2, t3, fd1, fd2

ThreeTasks == {t1, t2, t3}
SharedFds == t1 :> fd1 @@ t2 :> fd1 @@ t3 :> fd2
=============================================================================
