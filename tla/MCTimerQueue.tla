---------------------------- MODULE MCTimerQueue ----------------------------
(* Instances of TimerQueue for TLC. *)
EXTENDS TimerQueue

\* The wall clock is set back a little, or forward by more.
BothWays == {-1, 2}
=============================================================================
