---------------------------- MODULE MCLRUCache ----------------------------
(* Instances of LRUCache for TLC. *)
EXTENDS LRUCache

CONSTANTS k1, k2, v1, v2
=============================================================================
