------------------------------ MODULE LRUSpec ------------------------------
(***************************************************************************)
(* What a least-recently-used cache promises: it holds at most `limit`     *)
(* keys; a get or a put makes its key the most recent one; a new key that  *)
(* does not fit takes the place of the least recently used key.            *)
(* Whether a put of a cached key replaces its value is a parameter: the    *)
(* comment on the exercise says that it does (146.cc:7), the code leaves   *)
(* the old value (lines 57-60).                                            *)
(***************************************************************************)
EXTENDS Integers, Sequences, Functions, Filtering

CONSTANTS Key, Value, Miss,
          Overwrite   \* does a put of a cached key replace its value?

VARIABLES limit,     \* capacity, or -1 if the cache has none
          recent,    \* the cached keys, most recently used first
          value,     \* their values: a function on the cached keys
          result,    \* the result of the last get
          call       \* the arguments of the last call: a key and, for a put, a value

rvars == <<limit, recent, value, result, call>>

Cached == Range(recent)
Touch(k) == <<k>> \o Keep(recent, Cached \ {k})
Full == limit >= 0 /\ Len(recent) >= limit

RInit ==
    /\ limit \in Int
    /\ recent = <<>>
    /\ value = [k \in {} |-> Miss]
    /\ result = Miss
    /\ call = <<>>

Get(k) ==
    /\ call' = <<k>>
    /\ recent' = IF k \in Cached THEN Touch(k) ELSE recent
    /\ result' = IF k \in Cached THEN value[k] ELSE Miss
    /\ UNCHANGED <<limit, value>>

Put(k, v) ==
    LET kept == IF k \in Cached \/ ~Full THEN recent
                ELSE SubSeq(recent, 1, Len(recent) - 1)
    IN /\ call' = <<k, v>>
       /\ recent' = <<k>> \o Keep(kept, Cached \ {k})
       /\ value' = [x \in Range(recent') |->
                       IF x = k /\ (Overwrite \/ k \notin Cached) THEN v ELSE value[x]]
       /\ UNCHANGED <<limit, result>>

RNext == \E k \in Key : Get(k) \/ \E v \in Value : Put(k, v)

RSpec == RInit /\ [][RNext]_rvars
=============================================================================
