---------------------------- MODULE MCTimerLoop ----------------------------
(* TimerLoop has no constants: TLC checks it as it stands. *)
EXTENDS TimerLoop
=============================================================================
