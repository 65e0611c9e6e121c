----------------------------- MODULE Filtering -----------------------------
(***************************************************************************)
(* Keep(s, S) is the sequence of those elements of s that are in the set S, *)
(* in their order: what SelectSeq gives for membership in S.  It is written *)
(* out as a recursive function of the length, because the prover knows      *)
(* nothing about SelectSeq.                                                 *)
(***************************************************************************)
EXTENDS Integers, Sequences

\* Kept(s, S)[i] is what is kept of the first i elements.
Kept(s, S) ==
    LET kept[i \in 0 .. Len(s)] ==
            IF i = 0 THEN <<>>
            ELSE IF s[i] \in S THEN Append(kept[i - 1], s[i]) ELSE kept[i - 1]
    IN kept

Keep(s, S) == Kept(s, S)[Len(s)]
=============================================================================
