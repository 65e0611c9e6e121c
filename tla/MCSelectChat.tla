---------------------------- MODULE MCSelectChat ----------------------------
(* Instances of SelectChat for TLC. *)
EXTENDS SelectChat

CONSTANTS c1, c2

MCMaxLines == [c \in Clients |-> IF c = c1 THEN 3 ELSE 1]
=============================================================================
