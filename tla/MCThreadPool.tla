---------------------------- MODULE MCThreadPool ----------------------------
(* Instances of ThreadPool for TLC. *)
EXTENDS ThreadPool, TLC

CONSTANTS t1, t2, t3

ThreeTasks == {t1, t2, t3}
OneTask == {t1}
=============================================================================
