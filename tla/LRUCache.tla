------------------------------ MODULE LRUCache ------------------------------
(***************************************************************************)
(* The LRU cache of test/146.cc: a doubly linked list, most recently used  *)
(* node first, and a map from keys to nodes.  In the source a node's       *)
(* members `head` and `tail` are its predecessor and its successor; they   *)
(* are prev and next here, since head_ and tail_ are the ends of the list. *)
(* A node is never freed before the cache is, so that `new` makes nodes    *)
(* 1, 2, ... and an evicted node is used again for the new key.            *)
(***************************************************************************)
EXTENDS Integers, Sequences, FiniteSets, Functions

CONSTANTS Key, Value,   \* arguments of get and put
          Miss,         \* the -1 that get returns for an absent key
          Capacities    \* arguments of the constructor

(* A cache of capacity 0 is left out: its first put reads through the null
   pointer tail_ (line 64). *)
ASSUME LRUAssumption ==
    /\ IsFiniteSet(Key)
    /\ Capacities \subseteq Int \ {0}
    /\ Miss \notin Value

Node == 1 .. Cardinality(Key)
Null == 0

VARIABLES capacity_,
          list,        \* head_, tail_ and the links: prev and next of each node
          key, val,    \* the members of the nodes
          cache_mp_,   \* a function from the cached keys to nodes
          created,     \* how many nodes were made
          result,      \* what the last get returned
          call         \* history: the arguments of the last call

cachevars == <<capacity_, list, key, val, cache_mp_, created, result, call>>

CacheInit ==
    /\ capacity_ \in Capacities
    /\ list = [head |-> Null, tail |-> Null,
               prev |-> [n \in Node |-> Null], next |-> [n \in Node |-> Null]]
    /\ key \in [Node -> {Miss}]
    /\ val \in [Node -> {Miss}]
    /\ cache_mp_ = [k \in {} |-> Null]
    /\ created = 0
    /\ result = Miss
    /\ call = <<>>

\* f[n] = x, where n may be a null pointer that the code tests for.
SetLink(f, n, x) == IF n = Null THEN f ELSE [f EXCEPT ![n] = x]

\* Lines 49-54: what DeleteNode(n) makes of list l; n keeps its own links.
DeleteNode(l, n) ==
    [head |-> IF l.prev[n] = Null THEN l.next[n] ELSE l.head,
     tail |-> IF l.next[n] = Null THEN l.prev[n] ELSE l.tail,
     next |-> SetLink(l.next, l.prev[n], l.next[n]),
     prev |-> SetLink(l.prev, l.next[n], l.prev[n])]

\* Mutant: the old head is not linked back to the new one.
InsertHeadOneWay(l, n) ==
    [head |-> n,
     tail |-> IF l.tail = Null THEN n ELSE l.tail,
     next |-> [l.next EXCEPT ![n] = l.head],
     prev |-> [l.prev EXCEPT ![n] = Null]]

\* Lines 42-48: what InsertHead(n) makes of list l.
InsertHead(l, n) ==
    [head |-> n,
     tail |-> IF l.tail = Null THEN n ELSE l.tail,
     next |-> [l.next EXCEPT ![n] = l.head],
     prev |-> SetLink([l.prev EXCEPT ![n] = Null], l.head, n)]

MoveToHead(n) == list' = InsertHead(DeleteNode(list, n), n)

Cached == DOMAIN cache_mp_

\* Mutant: the node found stays where it is.
GetHitStays(k) ==
    /\ call' = <<k>>
    /\ k \in Cached
    /\ result' = val[cache_mp_[k]]
    /\ UNCHANGED <<capacity_, list, key, val, cache_mp_, created>>

\* Lines 32-39.
GetHit(k) ==
    /\ call' = <<k>>
    /\ k \in Cached
    /\ MoveToHead(cache_mp_[k])
    /\ result' = val[cache_mp_[k]]
    /\ UNCHANGED <<capacity_, key, val, cache_mp_, created>>

\* Line 40.
GetMiss(k) ==
    /\ call' = <<k>>
    /\ k \notin Cached
    /\ result' = Miss
    /\ UNCHANGED <<capacity_, list, key, val, cache_mp_, created>>

\* Lines 56-60: the value is not touched.
PutHit(k, v) ==
    /\ call' = <<k, v>>
    /\ k \in Cached
    /\ MoveToHead(cache_mp_[k])
    /\ UNCHANGED <<capacity_, key, val, cache_mp_, created, result>>

\* Line 63: size() is unsigned, and so is a negative capacity_ in the comparison.
Full == capacity_ >= 0 /\ Cardinality(Cached) >= capacity_

Assign(k, v, n, keep) ==
    /\ key' = [key EXCEPT ![n] = k]
    /\ val' = [val EXCEPT ![n] = v]
    /\ cache_mp_' = [x \in keep \cup {k} |-> IF x = k THEN n ELSE cache_mp_[x]]

\* Lines 62-69 and 73-74: the node at the tail is used again.
PutEvict(k, v) ==
    /\ call' = <<k, v>>
    /\ k \notin Cached
    /\ Full
    /\ MoveToHead(list.tail)
    /\ Assign(k, v, list.tail, Cached \ {key[list.tail]})
    /\ UNCHANGED <<capacity_, created, result>>

\* Lines 62-63 and 70-74.
PutNew(k, v) ==
    /\ call' = <<k, v>>
    /\ k \notin Cached
    /\ ~Full
    /\ created' = created + 1
    /\ list' = InsertHead(list, created')
    /\ Assign(k, v, created', Cached)
    /\ UNCHANGED <<capacity_, result>>

CacheNext ==
    \E k \in Key :
        \/ GetHit(k) \/ GetMiss(k)
        \/ \E v \in Value : PutHit(k, v) \/ PutEvict(k, v) \/ PutNew(k, v)

CacheSpec == CacheInit /\ [][CacheNext]_cachevars

-----------------------------------------------------------------------------
(* Properties. *)

Pointer == Node \cup {Null}
Arguments == {<<>>} \cup {<<k>> : k \in Key} \cup (Key \X Value)

\* Every variable keeps its type.
CacheTypeOK ==
    /\ capacity_ \in Capacities
    /\ list \in [head : Pointer, tail : Pointer,
                 prev : [Node -> Pointer], next : [Node -> Pointer]]
    /\ key \in [Node -> Key \cup {Miss}]
    /\ val \in [Node -> Value \cup {Miss}]
    /\ Cached \subseteq Key /\ cache_mp_ \in [Cached -> Node]
    /\ created \in 0 .. Cardinality(Key)
    /\ result \in Value \cup {Miss}
    /\ call \in Arguments

\* The i-th node from the head (the walk of showLRU, lines 78-88), Null behind
\* the end.
Walk[i \in Nat \ {0}] == IF i = 1 THEN list.head
                         ELSE IF Walk[i - 1] = Null THEN Null
                         ELSE list.next[Walk[i - 1]]

CacheSize == Cardinality(Cached)

\* The list is well formed after every operation: walking from head_ visits
\* exactly the cached nodes, one after the other, and ends at tail_; the links
\* back are the inverse; every node carries the key under which the map finds
\* it; all variables keep their types.  DeleteNode and InsertHead each leave it
\* broken in between (lines 42-54).
ListMatchesMap ==
    /\ CacheTypeOK
    /\ {Walk[i] : i \in 1 .. CacheSize} = Range(cache_mp_)
    /\ Cardinality(Range(cache_mp_)) = CacheSize
    /\ Walk[CacheSize + 1] = Null
    /\ list.tail = (IF CacheSize = 0 THEN Null ELSE Walk[CacheSize])
    /\ CacheSize > 0 => list.prev[list.head] = Null
    /\ \A i \in 2 .. CacheSize : list.prev[Walk[i]] = Walk[i - 1]
    /\ \A k \in Cached : key[cache_mp_[k]] = k

\* The cached keys in the order of the list, and their values.
Recent == [i \in 1 .. CacheSize |-> key[Walk[i]]]
Stored == [k \in Cached |-> val[cache_mp_[k]]]

Abstract == INSTANCE LRUSpec
                WITH limit <- capacity_, recent <- Recent, value <- Stored,
                     result <- result, call <- call, Overwrite <- FALSE
Documented == INSTANCE LRUSpec
                WITH limit <- capacity_, recent <- Recent, value <- Stored,
                     result <- result, call <- call, Overwrite <- TRUE

\* The least recently used key, and no other, is evicted, and only when a new key
\* does not fit (lines 32-76): the pointers implement the LRUSpec whose put leaves
\* the value of a cached key alone.
ImplementsLRU == Abstract!RSpec

\* What the comment on the exercise (line 7) says of the cache: a put of a cached key
\* changes its value and moves it to the head.  The code only moves it.
UpdatesOnPut == Documented!RSpec
=============================================================================
