--------------------------- MODULE MCSequential ---------------------------
(* The components that run in one thread at a time, each on its own: the      *)
(* programs and the codec of Algorithms, the cache of LRUCache and the rate   *)
(* limiter of TokenBucket.  They never meet: in a behaviour one of the three  *)
(* runs and the other two stay as they were made.                             *)
EXTENDS Algorithms, LRUCache, TokenBucket, TLC

MCInts == {0, 1, 300, -1}

\* A letter, a byte that is not text, and bytes that read as a field.
MCContents == {<<>>, <<Byte(71)>>, <<Byte(255)>>, <<Field(1, Varint, 1)>>}

\* Known, unknown and mistyped fields; values that need one byte, more than one,
\* or do not fit into an int32; a submessage; the end of a group; a stray byte.
MCTokens == {Field(1, Varint, 3), Field(2, Varint, 0), Field(2, Varint, 2^IntBits),
             Field(2, Varint, 2^LongBits - 1), Field(3, Varint, 200),
             Field(1, Delimited, <<>>), Field(1, Delimited, <<Byte(71)>>),
             Field(1, Delimited, <<Field(1, Varint, 300), Field(2, Delimited, <<Byte(255)>>)>>),
             Field(2, Delimited, <<Byte(255)>>), Field(3, EndGroup, 0), Byte(71)}

CONSTANTS k1, k2, k3, k4, v1, v2

Names == Permutations({k1, k2, k3, k4}) \cup Permutations({v1, v2})

\* One node, two, three, and a capacity that is never reached.
MCCapacities == {1, 2, 3, -1}

\* Prices that are truncated, and the two kinds of argument Init does not expect.
MCMaxPermits == {2, 0, -2}

MCPermits == {-1, 0, 1, 3}

-----------------------------------------------------------------------------
NoProgram == program = "none" /\ input = <<>> /\ output = <<>> /\ ~done
UnusedCache == capacity_ = -1 /\ created = 0
UnusedBucket == max_permits = 2 /\ calls = 0

MCInit ==
    /\ CacheInit
    /\ BucketInit
    /\ \/ UnusedCache /\ UnusedBucket /\ Init
       \/ UnusedCache /\ done = FALSE /\ NoProgram
       \/ UnusedBucket /\ done = FALSE /\ NoProgram

MCNext ==
    \/ program # "none" /\ Run /\ UNCHANGED <<cachevars, bucketvars>>
    \/ program = "none" /\ UnusedBucket /\ CacheNext /\ UNCHANGED <<vars, bucketvars>>
    \/ program = "none" /\ UnusedCache /\ BucketNext /\ UNCHANGED <<vars, cachevars>>

MCSpec == MCInit /\ [][MCNext]_<<vars, cachevars, bucketvars>>
=============================================================================
