---------------------------- MODULE MCSyncFile ----------------------------
(* Instances of SyncFile for TLC. *)
EXTENDS SyncFile, TLC

CONSTANTS c1, c2, f1, f2, f3

\* Groups of two: a file of two groups (the second one short), one of exactly one
\* group, and an empty one.
Sizes == f1 :> 3 @@ f2 :> 2 @@ f3 :> 0
Names == f1 :> 1 @@ f2 :> 2 @@ f3 :> 1

TwoAndOne == c1 :> <<f1, f3>> @@ c2 :> <<f2>>
=============================================================================
