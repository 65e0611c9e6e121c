--------------------------- MODULE LRUCacheProofs ---------------------------
(***************************************************************************)
(* Proofs about LRUCache, for any keys, values and capacities: the links   *)
(* always form one doubly linked list of the cached nodes, and the cache   *)
(* implements LRUSpec.                                                     *)
(***************************************************************************)
EXTENDS LRUCache, SequenceFacts, FunctionTheorems, FiniteSetTheorems

-----------------------------------------------------------------------------
(* Linked lists and the sequences they stand for. *)

ListRecord == [head : Pointer, tail : Pointer, prev : [Node -> Pointer], next : [Node -> Pointer]]

At(s, i) == IF i \in 1 .. Len(s) THEN s[i] ELSE Null

(* The links of l lead through the nodes of s, forwards and backwards. *)
Represents(l, s) ==
    /\ s \in Seq(Node) /\ NoDuplicates(s)
    /\ l.head = At(s, 1) /\ l.tail = At(s, Len(s))
    /\ \A i \in 1 .. Len(s) : l.next[s[i]] = At(s, i + 1) /\ l.prev[s[i]] = At(s, i - 1)

Without(s, j) == [i \in 1 .. Len(s) - 1 |-> IF i < j THEN s[i] ELSE s[i + 1]]
Before(n, s) == [i \in 1 .. Len(s) + 1 |-> IF i = 1 THEN n ELSE s[i - 1]]

\* There are as many nodes as keys, and none of them is the null pointer.
LEMMA NodeFacts ==
    /\ Cardinality(Key) \in Nat /\ Node \subseteq Nat /\ Null \notin Node
  <1>1. Cardinality(Key) \in Nat
    BY LRUAssumption, FS_CardinalityType
  <1>2. QED
    BY <1>1 DEF Node, Null

\* The elements of a sequence after one of them is taken out.
LEMMA WithoutFacts ==
    ASSUME NEW U, NEW s \in Seq(U), NEW j \in 1 .. Len(s)
    PROVE  /\ Without(s, j) \in Seq(U) /\ Len(Without(s, j)) = Len(s) - 1 /\ Len(s) \in Nat
           /\ \A i \in 0 .. Len(s) : At(Without(s, j), i) = IF i < j THEN At(s, i) ELSE At(s, i + 1)
           /\ NoDuplicates(s) => /\ NoDuplicates(Without(s, j))
                                 /\ Range(Without(s, j)) = Range(s) \ {s[j]}
  <1> DEFINE w == Without(s, j)
             n == Len(s)
  <1>1. /\ n \in Nat \ {0} /\ DOMAIN s = 1 .. n /\ \A i \in 1 .. n : s[i] \in U
    OBVIOUS
  <1>2. \A i \in 1 .. n - 1 : (IF i < j THEN s[i] ELSE s[i + 1]) \in U
    BY <1>1
  <1>3. w \in Seq(U) /\ Len(w) = n - 1 /\ DOMAIN w = 1 .. n - 1
    <2>1. w \in [1 .. n - 1 -> U]
      BY <1>2 DEF Without
    <2>2. n - 1 \in Nat
      BY <1>1
    <2>3. QED
      BY <2>1, <2>2
  <1>4. \A i \in 1 .. n - 1 : w[i] = IF i < j THEN s[i] ELSE s[i + 1]
    BY DEF Without
  <1> HIDE DEF w
  <1>5. ASSUME NEW i \in 0 .. n PROVE At(w, i) = IF i < j THEN At(s, i) ELSE At(s, i + 1)
    <2>1. CASE i = 0
      BY <1>1, <1>3, <2>1 DEF At
    <2>2. CASE i \in 1 .. n - 1
      BY <1>1, <1>3, <1>4, <2>2 DEF At
    <2>3. CASE i = n
      BY <1>1, <1>3, <2>3 DEF At
    <2>4. i = 0 \/ i \in 1 .. n - 1 \/ i = n
      <3>1. \A m \in Nat : \A x \in 0 .. m : x = 0 \/ x \in 1 .. m - 1 \/ x = m
        OBVIOUS
      <3> HIDE DEF n
      <3>2. QED
        BY <1>1, <3>1
    <2>5. QED
      BY <2>1, <2>2, <2>3, <2>4, Zenon
  <1>6. ASSUME NoDuplicates(s) PROVE NoDuplicates(w) /\ Range(w) = Range(s) \ {s[j]}
    <2>0. \A a, b \in 1 .. n : s[a] = s[b] => a = b
      BY <1>1, <1>6 DEF NoDuplicates
    <2>1. NoDuplicates(w)
      <3> SUFFICES ASSUME NEW a \in 1 .. n - 1, NEW b \in 1 .. n - 1, w[a] = w[b] PROVE a = b
        BY <1>3 DEF NoDuplicates
      <3> DEFINE f(x) == IF x < j THEN x ELSE x + 1
      <3>1. w[a] = s[f(a)] /\ w[b] = s[f(b)] /\ f(a) \in 1 .. n /\ f(b) \in 1 .. n
        BY <1>1, <1>4
      <3>2. f(a) = f(b)
        <4> HIDE DEF f
        <4>1. QED
          BY <2>0, <3>1
      <3>3. QED
        BY <1>1, <3>2
    <2>2. ASSUME NEW x \in Range(w) PROVE x \in Range(s) \ {s[j]}
      <3>1. PICK a \in 1 .. n - 1 : x = w[a]
        BY <1>3 DEF Range
      <3>2. PICK b \in 1 .. n : x = s[b] /\ b # j
        <4>1. CASE a < j
          BY <1>1, <1>4, <3>1, <4>1
        <4>2. CASE ~(a < j)
          <5>1. a + 1 \in 1 .. n /\ a + 1 # j /\ x = s[a + 1]
            BY <1>1, <1>4, <3>1, <4>2
          <5>2. QED
            BY <5>1
        <4>3. QED
          BY <4>1, <4>2
      <3>3. x # s[j]
        BY <2>0, <3>2
      <3>4. QED
        BY <1>1, <3>2, <3>3 DEF Range
    <2>3. ASSUME NEW x \in Range(s) \ {s[j]} PROVE x \in Range(w)
      <3>1. PICK b \in 1 .. n : x = s[b]
        BY <1>1 DEF Range
      <3>2. b # j
        BY <2>3, <3>1
      <3>3. CASE b < j
        <4>1. b \in 1 .. n - 1 /\ w[b] = x
          BY <1>1, <1>4, <3>1, <3>3
        <4>2. QED
          BY <1>3, <4>1 DEF Range
      <3>4. CASE ~(b < j)
        <4>1. b - 1 \in 1 .. n - 1 /\ ~(b - 1 < j)
          BY <1>1, <3>2, <3>4
        <4>2. w[b - 1] = x
          BY <1>1, <1>4, <3>1, <4>1
        <4>3. QED
          BY <1>3, <4>1, <4>2 DEF Range
      <3>5. QED
        BY <3>3, <3>4
    <2>4. QED
      BY <2>1, <2>2, <2>3
  <1>7. QED
    BY <1>1, <1>3, <1>5, <1>6 DEF w

\* The elements of a sequence with one put before them.
LEMMA BeforeFacts ==
    ASSUME NEW U, NEW s \in Seq(U), NEW x \in U
    PROVE  /\ Before(x, s) \in Seq(U) /\ Len(Before(x, s)) = Len(s) + 1 /\ Len(s) \in Nat
           /\ \A i \in 0 .. Len(s) + 2 : At(Before(x, s), i) = IF i = 1 THEN x ELSE At(s, i - 1)
           /\ Range(Before(x, s)) = Range(s) \cup {x}
           /\ NoDuplicates(s) /\ x \notin Range(s) => NoDuplicates(Before(x, s))
  <1> DEFINE b == Before(x, s)
             n == Len(s)
  <1>1. /\ n \in Nat /\ DOMAIN s = 1 .. n /\ \A i \in 1 .. n : s[i] \in U
    OBVIOUS
  <1>2. \A i \in 1 .. n + 1 : (IF i = 1 THEN x ELSE s[i - 1]) \in U
    BY <1>1
  <1>3. b \in Seq(U) /\ Len(b) = n + 1 /\ DOMAIN b = 1 .. n + 1
    <2>1. b \in [1 .. n + 1 -> U]
      BY <1>2 DEF Before
    <2>2. n + 1 \in Nat
      BY <1>1
    <2>3. QED
      BY <2>1, <2>2
  <1>4. \A i \in 1 .. n + 1 : b[i] = IF i = 1 THEN x ELSE s[i - 1]
    BY DEF Before
  <1> HIDE DEF b
  <1>5. ASSUME NEW i \in 0 .. n + 2 PROVE At(b, i) = IF i = 1 THEN x ELSE At(s, i - 1)
    BY <1>1, <1>3, <1>4 DEF At
  <1>6. Range(b) = Range(s) \cup {x}
    <2>1. ASSUME NEW y \in Range(b) PROVE y \in Range(s) \cup {x}
      BY <1>1, <1>3, <1>4 DEF Range
    <2>2. ASSUME NEW y \in Range(s) PROVE y \in Range(b)
      <3>1. PICK i \in 1 .. n : y = s[i]
        BY <1>1 DEF Range
      <3>2. i + 1 \in 1 .. n + 1 /\ b[i + 1] = y
        BY <1>1, <1>4, <3>1
      <3>3. QED
        BY <1>3, <3>2 DEF Range
    <2>3. x \in Range(b)
      BY <1>1, <1>3, <1>4 DEF Range
    <2>4. QED
      BY <2>1, <2>2, <2>3
  <1>7. ASSUME NoDuplicates(s), x \notin Range(s) PROVE NoDuplicates(b)
    <2>1. \A i \in 1 .. n : s[i] # x
      BY <1>1, <1>7 DEF Range
    <2>2. \A i, k \in 1 .. n : s[i] = s[k] => i = k
      BY <1>1, <1>7 DEF NoDuplicates
    <2> SUFFICES ASSUME NEW i \in 1 .. n + 1, NEW k \in 1 .. n + 1, b[i] = b[k] PROVE i = k
      BY <1>3 DEF NoDuplicates
    <2>3. CASE i = 1 /\ k # 1
      BY <1>1, <1>4, <2>1, <2>3
    <2>4. CASE i # 1 /\ k = 1
      BY <1>1, <1>4, <2>1, <2>4
    <2>5. CASE i # 1 /\ k # 1
      <3>1. i - 1 \in 1 .. n /\ k - 1 \in 1 .. n /\ s[i - 1] = s[k - 1]
        BY <1>1, <1>4, <2>5
      <3>2. i - 1 = k - 1
        BY <2>2, <3>1
      <3>3. QED
        BY <1>1, <3>2
    <2>6. QED
      BY <2>3, <2>4, <2>5
  <1>8. QED
    BY <1>1, <1>3, <1>5, <1>6, <1>7 DEF b

-----------------------------------------------------------------------------
(* The two operations on the links. *)

\* A pointer into the list names its place in it.
LEMMA AtUnique ==
    ASSUME NEW s \in Seq(Node), NoDuplicates(s), NEW i \in 1 .. Len(s), NEW k \in Int
    PROVE  At(s, k) = s[i] <=> k = i
  <1>1. s[i] \in Node /\ s[i] # Null /\ DOMAIN s = 1 .. Len(s)
    BY NodeFacts
  <1>2. CASE k \in 1 .. Len(s)
    BY <1>1, <1>2 DEF At, NoDuplicates
  <1>3. CASE k \notin 1 .. Len(s)
    BY <1>1, <1>3 DEF At
  <1>4. QED
    BY <1>2, <1>3

\* A place is in the list or it is the null pointer.
LEMMA AtType ==
    ASSUME NEW s \in Seq(Node), NEW k \in Int
    PROVE  /\ At(s, k) \in Pointer
           /\ At(s, k) = Null <=> k \notin 1 .. Len(s)
           /\ k \in 1 .. Len(s) => At(s, k) = s[k]
  <1>1. CASE k \in 1 .. Len(s)
    <2>1. s[k] \in Node
      BY <1>1
    <2>2. QED
      BY <1>1, <2>1, NodeFacts DEF At, Pointer
  <1>2. CASE k \notin 1 .. Len(s)
    BY <1>2 DEF At, Pointer
  <1>3. QED
    BY <1>1, <1>2

\* DeleteNode takes a node out of the list and leaves the others in their order.
LEMMA DeleteLemma ==
    ASSUME NEW l \in ListRecord, NEW s, Represents(l, s), NEW j \in 1 .. Len(s)
    PROVE  DeleteNode(l, s[j]) \in ListRecord /\ Represents(DeleteNode(l, s[j]), Without(s, j))
  <1> DEFINE d == DeleteNode(l, s[j])
             w == Without(s, j)
             n == Len(s)
  <1>1. s \in Seq(Node) /\ NoDuplicates(s) /\ n \in Nat /\ s[j] \in Node
    BY DEF Represents
  <1>2. /\ l.next[s[j]] = At(s, j + 1) /\ l.prev[s[j]] = At(s, j - 1)
        /\ At(s, j + 1) \in Pointer /\ At(s, j - 1) \in Pointer
        /\ At(s, j + 1) = Null <=> j = n
        /\ At(s, j - 1) = Null <=> j = 1
    <2>1. j + 1 \in Int /\ j - 1 \in Int
      OBVIOUS
    <2>2. (j + 1 \notin 1 .. n <=> j = n) /\ (j - 1 \notin 1 .. n <=> j = 1)
      BY <1>1
    <2>3. QED
      BY <1>1, <2>1, <2>2, AtType DEF Represents
  <1>3. /\ d.head = IF j = 1 THEN At(s, j + 1) ELSE l.head
        /\ d.tail = IF j = n THEN At(s, j - 1) ELSE l.tail
        /\ d.next = SetLink(l.next, At(s, j - 1), At(s, j + 1))
        /\ d.prev = SetLink(l.prev, At(s, j + 1), At(s, j - 1))
        /\ d = [head |-> d.head, tail |-> d.tail, next |-> d.next, prev |-> d.prev]
    BY <1>2 DEF DeleteNode
  <1>4. /\ l.head \in Pointer /\ l.tail \in Pointer
        /\ l.next \in [Node -> Pointer] /\ l.prev \in [Node -> Pointer]
    BY DEF ListRecord
  <1>5. /\ d.next \in [Node -> Pointer] /\ d.prev \in [Node -> Pointer]
        /\ \A m \in Node : d.next[m] = IF m = At(s, j - 1) THEN At(s, j + 1) ELSE l.next[m]
        /\ \A m \in Node : d.prev[m] = IF m = At(s, j + 1) THEN At(s, j - 1) ELSE l.prev[m]
    <2>1. /\ SetLink(l.next, At(s, j - 1), At(s, j + 1)) \in [Node -> Pointer]
          /\ \A m \in Node : SetLink(l.next, At(s, j - 1), At(s, j + 1))[m]
                                 = IF m = At(s, j - 1) THEN At(s, j + 1) ELSE l.next[m]
      BY <1>2, <1>4, NodeFacts DEF SetLink, Pointer
    <2>2. /\ SetLink(l.prev, At(s, j + 1), At(s, j - 1)) \in [Node -> Pointer]
          /\ \A m \in Node : SetLink(l.prev, At(s, j + 1), At(s, j - 1))[m]
                                 = IF m = At(s, j + 1) THEN At(s, j - 1) ELSE l.prev[m]
      BY <1>2, <1>4, NodeFacts DEF SetLink, Pointer
    <2> HIDE DEF d
    <2>3. QED
      BY <1>3, <2>1, <2>2
  <1> HIDE DEF d
  <1>6. d \in ListRecord
    BY <1>2, <1>3, <1>4, <1>5 DEF ListRecord
  <1>7. /\ w \in Seq(Node) /\ NoDuplicates(w) /\ Len(w) = n - 1
        /\ \A i \in 0 .. n : At(w, i) = IF i < j THEN At(s, i) ELSE At(s, i + 1)
    BY <1>1, WithoutFacts
  <1> HIDE DEF w
  <1>8. d.head = At(w, 1)
    <2>1. At(w, 1) = IF 1 < j THEN At(s, 1) ELSE At(s, 1 + 1)
      BY <1>1, <1>7
    <2>2. QED
      BY <1>3, <2>1 DEF Represents
  <1>9. d.tail = At(w, Len(w))
    <2>1. At(w, n - 1) = IF n - 1 < j THEN At(s, n - 1) ELSE At(s, n - 1 + 1)
      BY <1>1, <1>7
    <2>2. (n - 1 < j <=> j = n) /\ n - 1 + 1 = n
      BY <1>1
    <2>3. QED
      BY <1>3, <1>7, <2>1, <2>2 DEF Represents
  <1>10. ASSUME NEW i \in 1 .. Len(w)
         PROVE  d.next[w[i]] = At(w, i + 1) /\ d.prev[w[i]] = At(w, i - 1)
    <2>1. i \in 1 .. n - 1 /\ i \in Int /\ j \in Int
      BY <1>7
    <2>2. PICK k \in 1 .. n : k = IF i < j THEN i ELSE i + 1
      BY <1>1, <2>1
    <2>3. w[i] = s[k]
      <3>1. At(w, i) = w[i]
        BY <1>7, <1>10, <2>1, AtType
      <3>2. At(s, k) = s[k]
        BY <1>1, <2>2, AtType
      <3>3. At(w, i) = At(s, k)
        BY <1>1, <1>7, <2>1, <2>2
      <3>4. QED
        BY <3>1, <3>2, <3>3
    <2>4. s[k] \in Node /\ l.next[s[k]] = At(s, k + 1) /\ l.prev[s[k]] = At(s, k - 1)
      BY <1>1 DEF Represents
    <2>5. (At(s, j - 1) = s[k] <=> j - 1 = k) /\ (At(s, j + 1) = s[k] <=> j + 1 = k)
      BY <1>1, <2>1, AtUnique
    <2>6. At(w, i + 1) = IF i + 1 < j THEN At(s, i + 1) ELSE At(s, i + 1 + 1)
      BY <1>1, <1>7, <2>1
    <2>7. At(w, i - 1) = IF i - 1 < j THEN At(s, i - 1) ELSE At(s, i - 1 + 1)
      BY <1>1, <1>7, <2>1
    <2>8. d.next[s[k]] = At(w, i + 1)
      <3>1. d.next[s[k]] = IF j - 1 = k THEN At(s, j + 1) ELSE At(s, k + 1)
        BY <1>5, <2>4, <2>5
      <3>2. CASE i < j
        BY <2>1, <2>2, <2>6, <3>1, <3>2
      <3>3. CASE ~(i < j)
        BY <2>1, <2>2, <2>6, <3>1, <3>3
      <3>4. QED
        BY <3>2, <3>3
    <2>9. d.prev[s[k]] = At(w, i - 1)
      <3>1. d.prev[s[k]] = IF j + 1 = k THEN At(s, j - 1) ELSE At(s, k - 1)
        BY <1>5, <2>4, <2>5
      <3>2. CASE i < j
        BY <2>1, <2>2, <2>7, <3>1, <3>2
      <3>3. CASE ~(i < j)
        BY <2>1, <2>2, <2>7, <3>1, <3>3
      <3>4. QED
        BY <3>2, <3>3
    <2>10. QED
      BY <2>3, <2>8, <2>9
  <1>11. Represents(d, w)
    BY <1>7, <1>8, <1>9, <1>10 DEF Represents
  <1>12. QED
    BY <1>6, <1>11 DEF d, w

\* InsertHead puts a node that is not in the list before all the others.
LEMMA InsertLemma ==
    ASSUME NEW l \in ListRecord, NEW s, Represents(l, s), NEW n \in Node, n \notin Range(s)
    PROVE  InsertHead(l, n) \in ListRecord /\ Represents(InsertHead(l, n), Before(n, s))
  <1> DEFINE d == InsertHead(l, n)
             b == Before(n, s)
             N == Len(s)
  <1>1. /\ s \in Seq(Node) /\ NoDuplicates(s) /\ N \in Nat /\ l.head = At(s, 1)
        /\ \A i \in 1 .. N : s[i] \in Node /\ s[i] # n
    BY DEF Represents, Range
  <1>2. /\ l.head \in Pointer /\ l.tail \in Pointer /\ n \in Pointer /\ Null \in Pointer
        /\ l.next \in [Node -> Pointer] /\ l.prev \in [Node -> Pointer]
    BY DEF ListRecord, Pointer
  <1>3. /\ d.head = n
        /\ d.tail = IF l.tail = Null THEN n ELSE l.tail
        /\ d.next = [l.next EXCEPT ![n] = l.head]
        /\ d.prev = SetLink([l.prev EXCEPT ![n] = Null], l.head, n)
        /\ d = [head |-> d.head, tail |-> d.tail, next |-> d.next, prev |-> d.prev]
    BY DEF InsertHead
  <1>4. /\ d.next \in [Node -> Pointer]
        /\ \A m \in Node : d.next[m] = IF m = n THEN l.head ELSE l.next[m]
    <2> HIDE DEF d
    <2>1. QED
      BY <1>2, <1>3
  <1>5. /\ d.prev \in [Node -> Pointer]
        /\ \A m \in Node : d.prev[m] = IF m = l.head THEN n
                                       ELSE IF m = n THEN Null ELSE l.prev[m]
    <2> DEFINE p == [l.prev EXCEPT ![n] = Null]
    <2>1. p \in [Node -> Pointer] /\ \A m \in Node : p[m] = IF m = n THEN Null ELSE l.prev[m]
      BY <1>2
    <2> HIDE DEF p
    <2>2. /\ SetLink(p, l.head, n) \in [Node -> Pointer]
          /\ \A m \in Node : SetLink(p, l.head, n)[m] = IF m = l.head THEN n ELSE p[m]
      BY <1>2, <2>1, NodeFacts DEF SetLink, Pointer
    <2> HIDE DEF d
    <2>3. d.prev = SetLink(p, l.head, n)
      BY <1>3 DEF p
    <2>4. QED
      BY <2>1, <2>2, <2>3
  <1> HIDE DEF d
  <1>6. d \in ListRecord
    BY <1>2, <1>3, <1>4, <1>5 DEF ListRecord
  <1>7. /\ b \in Seq(Node) /\ NoDuplicates(b) /\ Len(b) = N + 1
        /\ \A i \in 0 .. N + 2 : At(b, i) = IF i = 1 THEN n ELSE At(s, i - 1)
    <2>1. s \in Seq(Node) /\ NoDuplicates(s) /\ n \in Node /\ n \notin Range(s)
      BY <1>1
    <2>2. \A t \in Seq(Node) : \A x \in Node :
              /\ Before(x, t) \in Seq(Node) /\ Len(Before(x, t)) = Len(t) + 1
              /\ \A i \in 0 .. Len(t) + 2 :
                    At(Before(x, t), i) = IF i = 1 THEN x ELSE At(t, i - 1)
              /\ NoDuplicates(t) /\ x \notin Range(t) => NoDuplicates(Before(x, t))
      BY BeforeFacts
    <2>3. QED
      BY <2>1, <2>2
  <1> HIDE DEF b
  <1>8. d.head = At(b, 1)
    BY <1>1, <1>3, <1>7
  <1>9. d.tail = At(b, Len(b))
    <2>1. l.tail = At(s, N) /\ (At(s, N) = Null <=> N = 0)
      <3>1. N \notin 1 .. N <=> N = 0
        BY <1>1
      <3>2. QED
        BY <1>1, <3>1, AtType DEF Represents
    <2>2. At(b, N + 1) = IF N + 1 = 1 THEN n ELSE At(s, N + 1 - 1)
      BY <1>1, <1>7
    <2>3. (N + 1 = 1 <=> N = 0) /\ N + 1 - 1 = N
      BY <1>1
    <2>4. QED
      BY <1>3, <1>7, <2>1, <2>2, <2>3
  <1>10. ASSUME NEW i \in 1 .. Len(b)
         PROVE  d.next[b[i]] = At(b, i + 1) /\ d.prev[b[i]] = At(b, i - 1)
    <2>1. i \in 1 .. N + 1 /\ b[i] = At(b, i)
      BY <1>7, <1>10, AtType
    <2>2. /\ At(b, i) = IF i = 1 THEN n ELSE At(s, i - 1)
          /\ At(b, i + 1) = At(s, i)
          /\ At(b, i - 1) = IF i - 1 = 1 THEN n ELSE At(s, i - 1 - 1)
      <3>1. i \in 0 .. N + 2 /\ i + 1 \in 0 .. N + 2 /\ i - 1 \in 0 .. N + 2
        BY <1>1, <2>1
      <3>2. i + 1 # 1 /\ i + 1 - 1 = i
        BY <2>1
      <3>3. QED
        BY <1>7, <3>1, <3>2
    <2>3. CASE i = 1
      <3>1. b[i] = n /\ l.head # n
        <4>1. n # At(s, 1)
          <5>1. CASE N = 0
            <6>1. At(s, 1) = Null
              BY <5>1 DEF At
            <6>2. QED
              BY <6>1, NodeFacts
          <5>2. CASE N # 0
            <6>1. 1 \in 1 .. N
              BY <1>1, <5>2
            <6>2. QED
              BY <1>1, <6>1 DEF At
          <5>3. QED
            BY <5>1, <5>2
        <4>2. QED
          BY <1>1, <2>1, <2>2, <2>3, <4>1
      <3>2. d.next[n] = At(s, 1) /\ d.prev[n] = Null
        BY <1>1, <1>4, <1>5, <3>1
      <3>3. At(b, i - 1) = Null
        <4>1. i - 1 = 0 /\ 0 \notin 1 .. Len(b)
          BY <2>3
        <4>2. QED
          BY <4>1 DEF At
      <3>4. QED
        BY <2>2, <2>3, <3>1, <3>2, <3>3
    <2>4. CASE i # 1
      <3>1. i - 1 \in 1 .. N
        BY <1>1, <2>1, <2>4
      <3>2. b[i] = s[i - 1] /\ s[i - 1] \in Node /\ s[i - 1] # n
        BY <1>1, <2>1, <2>2, <2>4, <3>1 DEF At
      <3>3. /\ l.next[s[i - 1]] = At(s, i - 1 + 1) /\ l.prev[s[i - 1]] = At(s, i - 1 - 1)
        BY <3>1 DEF Represents
      <3>4. i - 1 + 1 = i
        BY <2>1
      <3>5. At(s, 1) = s[i - 1] <=> 1 = i - 1
        BY <1>1, <3>1, AtUnique
      <3>6. d.next[b[i]] = At(b, i + 1)
        BY <1>4, <2>2, <3>2, <3>3, <3>4
      <3>7. d.prev[b[i]] = At(b, i - 1)
        BY <1>1, <1>5, <2>2, <3>2, <3>3, <3>5
      <3>8. QED
        BY <3>6, <3>7
    <2>5. QED
      BY <2>3, <2>4
  <1>11. Represents(d, b)
    BY <1>7, <1>8, <1>9, <1>10 DEF Represents
  <1>12. QED
    BY <1>6, <1>11 DEF d, b

\* Moving a node to the head: the others keep their order behind it.
LEMMA MoveLemma ==
    ASSUME NEW l \in ListRecord, NEW s, Represents(l, s), NEW j \in 1 .. Len(s)
    PROVE  /\ InsertHead(DeleteNode(l, s[j]), s[j]) \in ListRecord
           /\ Represents(InsertHead(DeleteNode(l, s[j]), s[j]), Before(s[j], Without(s, j)))
           /\ Range(Before(s[j], Without(s, j))) = Range(s)
  <1>1. s \in Seq(Node) /\ NoDuplicates(s) /\ s[j] \in Node /\ s[j] \in Range(s)
    BY DEF Represents, Range
  <1>2. DeleteNode(l, s[j]) \in ListRecord /\ Represents(DeleteNode(l, s[j]), Without(s, j))
    BY DeleteLemma
  <1>3. Without(s, j) \in Seq(Node) /\ Range(Without(s, j)) = Range(s) \ {s[j]}
    BY <1>1, WithoutFacts
  <1>4. s[j] \notin Range(Without(s, j))
    BY <1>3
  <1>5. Range(Before(s[j], Without(s, j))) = Range(Without(s, j)) \cup {s[j]}
    <2>1. \A q \in Seq(Node), x \in Node : Range(Before(x, q)) = Range(q) \cup {x}
      BY BeforeFacts
    <2>2. QED
      BY <1>1, <1>3, <2>1, Zenon
  <1>6. QED
    BY <1>1, <1>2, <1>3, <1>4, <1>5, InsertLemma

-----------------------------------------------------------------------------
(* The inductive invariant: the nodes made so far and the cached keys correspond to each
   other, and the links lead through exactly those nodes, in some order s. *)

Mapped ==
    /\ \A n \in 1 .. created : key[n] \in Cached /\ cache_mp_[key[n]] = n
    /\ \A k \in Cached : cache_mp_[k] \in 1 .. created /\ key[cache_mp_[k]] = k

Ordered(s) == Represents(list, s) /\ Range(s) = 1 .. created

LRUInv == CacheTypeOK /\ Mapped /\ \E s : Ordered(s)

\* There is one node for every cached key.
LEMMA SizeLemma == CacheTypeOK /\ Mapped => CacheSize = created
  <1> SUFFICES ASSUME CacheTypeOK, Mapped PROVE CacheSize = created
    OBVIOUS
  <1> DEFINE f == [n \in 1 .. created |-> key[n]]
  <1>1. created \in Nat
    BY NodeFacts DEF CacheTypeOK
  <1>2. \A n \in 1 .. created : key[n] \in Cached /\ cache_mp_[key[n]] = n
    BY DEF Mapped
  <1>3. \A k \in Cached : cache_mp_[k] \in 1 .. created /\ key[cache_mp_[k]] = k
    BY DEF Mapped
  <1>4. f \in Bijection(1 .. created, Cached)
    <2>1. f \in [1 .. created -> Cached]
      BY <1>2
    <2>2. \A a, b \in 1 .. created : f[a] = f[b] => a = b
      BY <1>2
    <2>3. \A k \in Cached : \E n \in 1 .. created : f[n] = k
      BY <1>3
    <2> HIDE DEF f
    <2>4. QED
      BY <2>1, <2>2, <2>3, Fun_IsBij
  <1>5. ExistsBijection(1 .. created, Cached)
    BY <1>4 DEF ExistsBijection
  <1>6. QED
    BY <1>1, <1>5, FS_CountingElements DEF CacheSize

\* So many nodes are in the list.
LEMMA LengthLemma ==
    ASSUME NEW n \in Nat, NEW s \in Seq(Node), NoDuplicates(s), Range(s) = 1 .. n
    PROVE  Len(s) = n
  <1>1. Len(s) \in Nat /\ DOMAIN s = 1 .. Len(s) /\ s \in [1 .. Len(s) -> Range(s)]
    BY DEF Range
  <1>2. s \in Bijection(1 .. Len(s), 1 .. n)
    <2>1. \A a, b \in 1 .. Len(s) : s[a] = s[b] => a = b
      BY <1>1 DEF NoDuplicates
    <2>2. \A k \in 1 .. n : \E i \in 1 .. Len(s) : s[i] = k
      BY <1>1 DEF Range
    <2>3. QED
      BY <1>1, <2>1, <2>2, Fun_IsBij
  <1>3. Cardinality(1 .. n) = Len(s)
    <2>1. ExistsBijection(1 .. Len(s), 1 .. n)
      BY <1>2 DEF ExistsBijection
    <2>2. QED
      BY <1>1, <2>1, FS_CountingElements
  <1>4. Cardinality(1 .. n) = n
    <2>1. Cardinality(1 .. n) = IF 1 > n THEN 0 ELSE n - 1 + 1
      BY FS_Interval
    <2>2. QED
      BY <2>1
  <1>5. QED
    BY <1>3, <1>4

-----------------------------------------------------------------------------
(* What each operation does to the invariant, with the order before and after it. *)

\* The parts of the invariant in the form in which the steps use them.
LEMMA OrderFacts ==
    ASSUME CacheTypeOK, Mapped, NEW s, Ordered(s)
    PROVE  /\ s \in Seq(Node) /\ NoDuplicates(s) /\ created \in Nat /\ Len(s) = created
           /\ CacheSize = created /\ list \in ListRecord /\ DOMAIN s = 1 .. created
           /\ list.tail = At(s, created)
           /\ \A i \in 1 .. created : s[i] \in 1 .. created
           /\ \A k \in Cached : \E j \in 1 .. Len(s) : s[j] = cache_mp_[k]
  <1>1. s \in Seq(Node) /\ NoDuplicates(s) /\ list.tail = At(s, Len(s)) /\ Range(s) = 1 .. created
    BY DEF Ordered, Represents
  <1>2. created \in Nat /\ list \in ListRecord
    BY NodeFacts DEF CacheTypeOK, ListRecord
  <1>3. Len(s) = created /\ DOMAIN s = 1 .. Len(s)
    BY <1>1, <1>2, LengthLemma
  <1>4. CacheSize = created
    BY SizeLemma
  <1>5. \A i \in 1 .. created : s[i] \in 1 .. created
    BY <1>1, <1>3 DEF Range
  <1>6. \A k \in Cached : \E j \in 1 .. Len(s) : s[j] = cache_mp_[k]
    BY <1>1, <1>3 DEF Mapped, Range
  <1>7. QED
    BY <1>1, <1>2, <1>3, <1>4, <1>5, <1>6

\* MoveToHead keeps the list well formed.
LEMMA MoveStep ==
    ASSUME CacheTypeOK, Mapped, NEW s, Ordered(s), NEW j \in 1 .. Len(s), MoveToHead(s[j])
    PROVE  /\ list' \in ListRecord
           /\ Represents(list', Before(s[j], Without(s, j)))
           /\ Range(Before(s[j], Without(s, j))) = 1 .. created
  <1>1. list \in ListRecord /\ Represents(list, s) /\ Range(s) = 1 .. created
    BY OrderFacts DEF Ordered
  <1>2. list' = InsertHead(DeleteNode(list, s[j]), s[j])
    BY DEF MoveToHead
  <1>3. QED
    BY <1>1, <1>2, MoveLemma

\* get and put of a cached key only change the order.
LEMMA HitStep ==
    ASSUME CacheTypeOK, Mapped, NEW s, Ordered(s), NEW j \in 1 .. Len(s), MoveToHead(s[j]),
           UNCHANGED <<capacity_, key, val, cache_mp_, created>>,
           result' \in Value \cup {Miss}, call' \in Arguments
    PROVE  CacheTypeOK' /\ Mapped' /\ Ordered(Before(s[j], Without(s, j)))'
  <1>1. /\ list' \in ListRecord
        /\ Represents(list', Before(s[j], Without(s, j)))
        /\ Range(Before(s[j], Without(s, j))) = 1 .. created
    BY MoveStep
  <1>2. CacheTypeOK'
    BY <1>1 DEF CacheTypeOK, Arguments, ListRecord, Cached
  <1>3. Mapped'
    BY DEF Mapped, Cached
  <1>4. QED
    BY <1>1, <1>2, <1>3 DEF Ordered

\* Assigning a new key to a node: the map finds this key and those that were kept.
LEMMA AssignFacts ==
    ASSUME CacheTypeOK, NEW k \in Key, NEW v \in Value, NEW n \in Node, NEW keep \in SUBSET Cached,
           Assign(k, v, n, keep)
    PROVE  /\ key' \in [Node -> Key \cup {Miss}] /\ val' \in [Node -> Value \cup {Miss}]
           /\ Cached' = keep \cup {k} /\ Cached' \subseteq Key /\ cache_mp_' \in [Cached' -> Node]
           /\ \A m \in Node : key'[m] = IF m = n THEN k ELSE key[m]
           /\ \A m \in Node : val'[m] = IF m = n THEN v ELSE val[m]
           /\ \A x \in keep \cup {k} : cache_mp_'[x] = IF x = k THEN n ELSE cache_mp_[x]
  <1>1. /\ key \in [Node -> Key \cup {Miss}] /\ val \in [Node -> Value \cup {Miss}]
        /\ Cached \subseteq Key /\ cache_mp_ \in [Cached -> Node]
    BY DEF CacheTypeOK
  <1>2. /\ key' \in [Node -> Key \cup {Miss}] /\ val' \in [Node -> Value \cup {Miss}]
        /\ \A m \in Node : key'[m] = IF m = n THEN k ELSE key[m]
        /\ \A m \in Node : val'[m] = IF m = n THEN v ELSE val[m]
    BY <1>1 DEF Assign
  <1>3. cache_mp_' = [x \in keep \cup {k} |-> IF x = k THEN n ELSE cache_mp_[x]]
    BY DEF Assign
  <1>4. Cached' = keep \cup {k}
    BY <1>3 DEF Cached
  <1>5. \A x \in keep \cup {k} : (IF x = k THEN n ELSE cache_mp_[x]) \in Node
    BY <1>1
  <1>6. QED
    BY <1>1, <1>2, <1>3, <1>4, <1>5

\* A put into a full cache gives the last node the new key and moves it to the head.
LEMMA EvictStep ==
    ASSUME CacheTypeOK, Mapped, NEW s, Ordered(s), NEW k \in Key, NEW v \in Value, PutEvict(k, v)
    PROVE  /\ created \in 1 .. Len(s) /\ list.tail = s[created]
           /\ CacheTypeOK' /\ Mapped' /\ Ordered(Before(s[created], Without(s, created)))'
  <1>1. /\ s \in Seq(Node) /\ created \in Nat /\ Len(s) = created /\ CacheSize = created
        /\ list.tail = At(s, created) /\ \A i \in 1 .. created : s[i] \in 1 .. created
    BY OrderFacts
  <1>2. created # 0
    <2>1. capacity_ \in Int /\ capacity_ # 0 /\ capacity_ >= 0 /\ CacheSize >= capacity_
      BY LRUAssumption DEF CacheTypeOK, PutEvict, Full, CacheSize
    <2>2. QED
      BY <1>1, <2>1
  <1>3. created \in 1 .. Len(s) /\ list.tail = s[created]
    BY <1>1, <1>2 DEF At
  <1> DEFINE n == s[created]
  <1>4. n \in Node /\ n \in 1 .. created /\ 1 .. created \subseteq Node
    BY <1>1, <1>3, NodeFacts DEF CacheTypeOK, Node
  <1>5. /\ k \notin Cached /\ MoveToHead(n) /\ Assign(k, v, n, Cached \ {key[n]})
        /\ UNCHANGED <<capacity_, created, result>> /\ call' \in Arguments
    BY <1>3 DEF PutEvict, Arguments
  <1>6. /\ list' \in ListRecord
        /\ Represents(list', Before(n, Without(s, created)))
        /\ Range(Before(n, Without(s, created))) = 1 .. created
    BY <1>3, <1>5, MoveStep
  <1> HIDE DEF n
  <1>7. /\ key' \in [Node -> Key \cup {Miss}] /\ val' \in [Node -> Value \cup {Miss}]
        /\ Cached' = (Cached \ {key[n]}) \cup {k} /\ Cached' \subseteq Key
        /\ cache_mp_' \in [Cached' -> Node]
        /\ \A m \in Node : key'[m] = IF m = n THEN k ELSE key[m]
        /\ \A x \in (Cached \ {key[n]}) \cup {k} :
               cache_mp_'[x] = IF x = k THEN n ELSE cache_mp_[x]
    BY <1>4, <1>5, AssignFacts
  <1>8. CacheTypeOK'
    BY <1>5, <1>6, <1>7 DEF CacheTypeOK, Arguments, ListRecord
  <1>9. Mapped'
    <2>1. \A m \in 1 .. created : key[m] \in Cached /\ cache_mp_[key[m]] = m
      BY DEF Mapped
    <2>2. \A x \in Cached : cache_mp_[x] \in 1 .. created /\ key[cache_mp_[x]] = x
      BY DEF Mapped
    <2>3. ASSUME NEW m \in 1 .. created PROVE key'[m] \in Cached' /\ cache_mp_'[key'[m]] = m
      BY <1>4, <1>5, <1>7, <2>1
    <2>4. ASSUME NEW x \in Cached'
          PROVE  cache_mp_'[x] \in 1 .. created /\ key'[cache_mp_'[x]] = x
      BY <1>4, <1>5, <1>7, <2>1, <2>2
    <2>5. created' = created
      BY <1>5
    <2>6. QED
      BY <2>3, <2>4, <2>5 DEF Mapped
  <1>10. Ordered(Before(n, Without(s, created)))'
    <2>1. n' = n /\ created' = created /\ s' = s
      BY <1>5 DEF n
    <2>2. QED
      BY <1>6, <2>1 DEF Ordered
  <1>11. QED
    BY <1>3, <1>8, <1>9, <1>10 DEF n

\* A put into a cache that is not full makes a node for the new key, at the head.
LEMMA NewStep ==
    ASSUME CacheTypeOK, Mapped, NEW s, Ordered(s), NEW k \in Key, NEW v \in Value, PutNew(k, v)
    PROVE  CacheTypeOK' /\ Mapped' /\ Ordered(Before(created, s))' /\ created + 1 \in Node
  <1>1. /\ s \in Seq(Node) /\ created \in Nat /\ CacheSize = created /\ list \in ListRecord
        /\ Represents(list, s) /\ Range(s) = 1 .. created
    BY OrderFacts DEF Ordered
  <1> DEFINE n == created + 1
  <1>2. /\ k \notin Cached /\ created' = n /\ list' = InsertHead(list, n)
        /\ Assign(k, v, n, Cached) /\ UNCHANGED <<capacity_, result>>
    BY DEF PutNew
  <1>3. n <= Cardinality(Key)
    <2>1. IsFiniteSet(Cached) /\ Cached \cup {k} \in SUBSET Key
      BY LRUAssumption, FS_Subset DEF CacheTypeOK
    <2>2. Cardinality(Cached \cup {k}) = n
      BY <1>1, <1>2, <2>1, FS_AddElement DEF CacheSize
    <2>3. Cardinality(Cached \cup {k}) <= Cardinality(Key)
      BY <2>1, LRUAssumption, FS_Subset
    <2>4. QED
      BY <2>2, <2>3
  <1>4. n \in Node /\ n \notin 1 .. created /\ 1 .. n = (1 .. created) \cup {n} /\ 1 .. created \subseteq Node
    BY <1>1, <1>3, NodeFacts DEF Node
  <1> HIDE DEF n
  <1>5. /\ list' \in ListRecord /\ Represents(list', Before(n, s))
        /\ Range(Before(n, s)) = 1 .. n
    <2>1. n \notin Range(s)
      BY <1>1, <1>4
    <2>2. \A q \in Seq(Node), x \in Node : Range(Before(x, q)) = Range(q) \cup {x}
      BY BeforeFacts
    <2>3. Range(Before(n, s)) = 1 .. n
      BY <1>1, <1>4, <2>2
    <2>4. QED
      BY <1>1, <1>2, <1>4, <2>1, <2>3, InsertLemma
  <1>6. /\ key' \in [Node -> Key \cup {Miss}] /\ val' \in [Node -> Value \cup {Miss}]
        /\ Cached' = Cached \cup {k} /\ Cached' \subseteq Key
        /\ cache_mp_' \in [Cached' -> Node]
        /\ \A m \in Node : key'[m] = IF m = n THEN k ELSE key[m]
        /\ \A x \in Cached \cup {k} : cache_mp_'[x] = IF x = k THEN n ELSE cache_mp_[x]
    BY <1>2, <1>4, AssignFacts
  <1>7. CacheTypeOK'
    <2>1. created' \in 0 .. Cardinality(Key)
      BY <1>2, <1>4, NodeFacts DEF Node
    <2>2. QED
      BY <1>2, <1>5, <1>6, <2>1 DEF CacheTypeOK, Arguments, PutNew, ListRecord
  <1>8. Mapped'
    <2>1. \A m \in 1 .. created : key[m] \in Cached /\ cache_mp_[key[m]] = m
      BY DEF Mapped
    <2>2. \A x \in Cached : cache_mp_[x] \in 1 .. created /\ key[cache_mp_[x]] = x
      BY DEF Mapped
    <2>3. ASSUME NEW m \in 1 .. n PROVE key'[m] \in Cached' /\ cache_mp_'[key'[m]] = m
      BY <1>2, <1>4, <1>6, <2>1
    <2>4. ASSUME NEW x \in Cached'
          PROVE  cache_mp_'[x] \in 1 .. n /\ key'[cache_mp_'[x]] = x
      BY <1>2, <1>4, <1>6, <2>1, <2>2
    <2>5. QED
      BY <1>2, <2>3, <2>4 DEF Mapped
  <1>9. Ordered(Before(created, s))'
    BY <1>2, <1>5 DEF Ordered
  <1>10. QED
    BY <1>4, <1>7, <1>8, <1>9 DEF n

\* The invariant holds in every reachable state.
LEMMA LRUInvHolds == CacheSpec => []LRUInv
  <1>1. CacheInit => LRUInv
    <2> SUFFICES ASSUME CacheInit PROVE LRUInv
      OBVIOUS
    <2>1. CacheTypeOK
      BY NodeFacts DEF CacheInit, CacheTypeOK, Arguments, Pointer, Cached
    <2>2. Mapped
      BY DEF CacheInit, Mapped, Cached
    <2>3. Ordered(<<>>)
      <3>1. <<>> \in Seq(Node) /\ Len(<<>>) = 0 /\ NoDuplicates(<<>>) /\ Range(<<>>) = {}
        BY DEF NoDuplicates, Range
      <3>2. list.head = Null /\ list.tail = Null /\ created = 0
        BY DEF CacheInit
      <3>3. QED
        BY <3>1, <3>2 DEF Ordered, Represents, At
    <2>4. QED
      BY <2>1, <2>2, <2>3 DEF LRUInv
  <1>2. LRUInv /\ [CacheNext]_cachevars => LRUInv'
    <2> SUFFICES ASSUME CacheTypeOK, Mapped, NEW s, Ordered(s), [CacheNext]_cachevars PROVE LRUInv'
      BY DEF LRUInv
    <2>1. ASSUME NEW k \in Key, GetHit(k) PROVE LRUInv'
      <3>1. PICK j \in 1 .. Len(s) : s[j] = cache_mp_[k]
        BY <2>1, OrderFacts DEF GetHit
      <3>2. /\ MoveToHead(s[j]) /\ UNCHANGED <<capacity_, key, val, cache_mp_, created>>
            /\ result' \in Value \cup {Miss} /\ call' \in Arguments
        BY <2>1, <3>1 DEF GetHit, CacheTypeOK, Arguments
      <3>3. QED
        BY <3>2, HitStep DEF LRUInv
    <2>2. ASSUME NEW k \in Key, GetMiss(k) PROVE LRUInv'
      <3>1. CacheTypeOK' /\ Mapped' /\ Ordered(s)'
        BY <2>2 DEF GetMiss, CacheTypeOK, Arguments, Mapped, Ordered, Represents, Cached
      <3>2. QED
        BY <3>1 DEF LRUInv
    <2>3. ASSUME NEW k \in Key, NEW v \in Value, PutHit(k, v) PROVE LRUInv'
      <3>1. PICK j \in 1 .. Len(s) : s[j] = cache_mp_[k]
        BY <2>3, OrderFacts DEF PutHit
      <3>2. /\ MoveToHead(s[j]) /\ UNCHANGED <<capacity_, key, val, cache_mp_, created>>
            /\ result' \in Value \cup {Miss} /\ call' \in Arguments
        BY <2>3, <3>1 DEF PutHit, CacheTypeOK, Arguments
      <3>3. QED
        BY <3>2, HitStep DEF LRUInv
    <2>4. ASSUME NEW k \in Key, NEW v \in Value, PutEvict(k, v) PROVE LRUInv'
      BY <2>4, EvictStep DEF LRUInv
    <2>5. ASSUME NEW k \in Key, NEW v \in Value, PutNew(k, v) PROVE LRUInv'
      BY <2>5, NewStep DEF LRUInv
    <2>6. CASE UNCHANGED cachevars
      <3>1. CacheTypeOK' /\ Mapped' /\ Ordered(s)'
        BY <2>6 DEF cachevars, CacheTypeOK, Mapped, Ordered, Represents, Cached
      <3>2. QED
        BY <3>1 DEF LRUInv
    <2>7. QED
      BY <2>1, <2>2, <2>3, <2>4, <2>5, <2>6 DEF CacheNext
  <1>3. QED
    BY <1>1, <1>2, PTL DEF CacheSpec

-----------------------------------------------------------------------------
(* Walking along the links gives the nodes in their order, and then null pointers. *)

\* Walk satisfies its recursion: the places of any order s are a function that does.
LEMMA WalkDef ==
    ASSUME NEW s, Represents(list, s)
    PROVE  /\ Walk[1] = list.head
           /\ \A i \in Nat \ {0, 1} :
                 Walk[i] = IF Walk[i - 1] = Null THEN Null ELSE list.next[Walk[i - 1]]
  <1> DEFINE D(f) == [i \in Nat \ {0} |-> IF i = 1 THEN list.head
                                          ELSE IF f[i - 1] = Null THEN Null
                                          ELSE list.next[f[i - 1]]]
             g == [i \in Nat \ {0} |-> At(s, i)]
             w == CHOOSE f : f = D(f)
  <1>1. /\ s \in Seq(Node) /\ Len(s) \in Nat /\ list.head = At(s, 1)
        /\ \A i \in 1 .. Len(s) : list.next[s[i]] = At(s, i + 1)
    BY DEF Represents
  <1>2. ASSUME NEW i \in Nat \ {0}
        PROVE  At(s, i) = IF i = 1 THEN list.head
                          ELSE IF g[i - 1] = Null THEN Null ELSE list.next[g[i - 1]]
    <2>1. CASE i = 1
      BY <1>1, <2>1
    <2>2. CASE i # 1
      <3>1. i - 1 \in Nat \ {0} /\ i - 1 + 1 = i
        BY <2>2
      <3>2. g[i - 1] = At(s, i - 1)
        BY <3>1
      <3>3. CASE i - 1 \in 1 .. Len(s)
        <4>1. At(s, i - 1) = s[i - 1] /\ At(s, i - 1) # Null
          BY <1>1, <3>1, <3>3, AtType
        <4>2. list.next[s[i - 1]] = At(s, i)
          BY <1>1, <3>1, <3>3
        <4>3. QED
          BY <2>2, <3>2, <4>1, <4>2
      <3>4. CASE i - 1 \notin 1 .. Len(s)
        <4>1. At(s, i - 1) = Null /\ At(s, i) = Null
          BY <1>1, <3>1, <3>4 DEF At
        <4>2. QED
          BY <2>2, <3>2, <4>1
      <3>5. QED
        BY <3>3, <3>4
    <2>3. QED
      BY <2>1, <2>2
  <1>3. g = D(g)
    <2>1. \A i \in Nat \ {0} : At(s, i) = D(g)[i]
      <3>1. \A i \in Nat \ {0} : D(g)[i] = IF i = 1 THEN list.head
                          ELSE IF g[i - 1] = Null THEN Null ELSE list.next[g[i - 1]]
        BY Zenon
      <3>2. QED
        BY <1>2, <3>1, Zenon
    <2>2. QED
      BY <2>1, Zenon
  <1> HIDE DEF g
  <1>4. Walk = w
    BY Zenon DEF Walk
  <1>5. w = D(w)
    BY <1>3, Zenon
  <1> HIDE DEF w
  <1>6. w[1] = list.head
    BY <1>5
  <1>7. ASSUME NEW i \in Nat \ {0, 1}
        PROVE  w[i] = IF w[i - 1] = Null THEN Null ELSE list.next[w[i - 1]]
    <2>1. i \in Nat \ {0} /\ i # 1
      OBVIOUS
    <2>2. QED
      BY <1>5, <2>1, Zenon
  <1>8. QED
    BY <1>4, <1>6, <1>7

\* The i-th node of the walk is the i-th of the order.
LEMMA WalkLemma == \A s : Represents(list, s) => \A i \in Nat \ {0} : Walk[i] = At(s, i)
  <1> SUFFICES ASSUME NEW s, Represents(list, s)
               PROVE  \A i \in Nat \ {0} : Walk[i] = At(s, i)
    OBVIOUS
  <1> DEFINE T == {i \in Nat : Walk[i + 1] = At(s, i + 1)}
  <1>1. /\ s \in Seq(Node) /\ Len(s) \in Nat /\ list.head = At(s, 1)
        /\ \A i \in 1 .. Len(s) : list.next[s[i]] = At(s, i + 1)
    BY DEF Represents
  <1>2. /\ Walk[1] = list.head
        /\ \A i \in Nat \ {0, 1} :
                 Walk[i] = IF Walk[i - 1] = Null THEN Null ELSE list.next[Walk[i - 1]]
    BY WalkDef
  <1>3. 0 \in T
    BY <1>1, <1>2
  <1>4. ASSUME NEW i \in Nat, i \in T PROVE i + 1 \in T
    <2>1. i + 1 + 1 \in Nat \ {0, 1} /\ i + 1 + 1 - 1 = i + 1 /\ i + 1 \in Nat
      OBVIOUS
    <2>2. Walk[i + 1 + 1] = IF Walk[i + 1] = Null THEN Null ELSE list.next[Walk[i + 1]]
      BY <1>2, <2>1
    <2>3. Walk[i + 1] = At(s, i + 1)
      BY <1>4
    <2>4. CASE i + 1 \in 1 .. Len(s)
      <3>1. At(s, i + 1) = s[i + 1] /\ At(s, i + 1) # Null
        BY <1>1, <2>1, <2>4, AtType
      <3>2. list.next[s[i + 1]] = At(s, i + 1 + 1)
        BY <1>1, <2>4
      <3>3. QED
        BY <2>1, <2>2, <2>3, <3>1, <3>2
    <2>5. CASE i + 1 \notin 1 .. Len(s)
      <3>1. At(s, i + 1) = Null /\ At(s, i + 1 + 1) = Null
        BY <1>1, <2>1, <2>5 DEF At
      <3>2. QED
        BY <2>1, <2>2, <2>3, <3>1
    <2>6. QED
      BY <2>4, <2>5
  <1>5. \A i \in Nat : i \in T
    <2> HIDE DEF T
    <2>1. QED
      BY <1>3, <1>4, NatInduct
  <1>6. ASSUME NEW i \in Nat \ {0} PROVE Walk[i] = At(s, i)
    <2>1. i - 1 \in Nat /\ i - 1 + 1 = i
      OBVIOUS
    <2>2. Walk[i - 1 + 1] = At(s, i - 1 + 1)
      BY <1>5, <2>1
    <2>3. QED
      BY <2>1, <2>2
  <1>7. QED
    BY <1>6

\* The links and the map agree after every operation: ListMatchesMap holds for any
\* keys, values and capacities.
THEOREM ListStaysMatched == CacheSpec => []ListMatchesMap
  <1>1. LRUInv => ListMatchesMap
    <2> SUFFICES ASSUME CacheTypeOK, Mapped, NEW s, Ordered(s) PROVE ListMatchesMap
      BY DEF LRUInv
    <2>1. /\ s \in Seq(Node) /\ NoDuplicates(s) /\ created \in Nat /\ Len(s) = created
          /\ CacheSize = created /\ DOMAIN s = 1 .. created /\ list.tail = At(s, created)
          /\ \A i \in 1 .. created : s[i] \in 1 .. created
      BY OrderFacts
    <2>2. /\ Represents(list, s) /\ Range(s) = 1 .. created
      BY DEF Ordered
    <2>3. /\ \A i \in 1 .. created : Walk[i] = s[i]
          /\ Walk[created + 1] = Null
      <3>1. \A i \in Nat \ {0} : Walk[i] = At(s, i)
        BY <2>2, WalkLemma
      <3>2. QED
        BY <2>1, <3>1 DEF At
    <2>4. Range(cache_mp_) = 1 .. created
      <3>1. \A n \in 1 .. created : key[n] \in Cached /\ cache_mp_[key[n]] = n
        BY DEF Mapped
      <3>2. \A k \in Cached : cache_mp_[k] \in 1 .. created
        BY DEF Mapped
      <3>3. QED
        BY <3>1, <3>2 DEF Range, Cached
    <2>5. {Walk[i] : i \in 1 .. CacheSize} = Range(cache_mp_)
      <3>1. {s[i] : i \in 1 .. created} = 1 .. created
        BY <2>1, <2>2 DEF Range
      <3>2. {Walk[i] : i \in 1 .. created} = {s[i] : i \in 1 .. created}
        BY <2>3, Zenon
      <3>3. QED
        BY <2>1, <2>4, <3>1, <3>2, Zenon
    <2>6. Cardinality(Range(cache_mp_)) = CacheSize
      <3>1. Cardinality(1 .. created) = IF 1 > created THEN 0 ELSE created - 1 + 1
        BY <2>1, FS_Interval
      <3>2. QED
        BY <2>1, <2>4, <3>1
    <2>7. list.tail = (IF CacheSize = 0 THEN Null ELSE Walk[CacheSize])
      BY <2>1, <2>3 DEF At
    <2>8. /\ list.head = At(s, 1)
          /\ \A i \in 1 .. created : list.prev[s[i]] = At(s, i - 1)
      BY <2>1, <2>2 DEF Represents
    <2>9. CacheSize > 0 => list.prev[list.head] = Null
      <3>1. created > 0 => 1 \in 1 .. created /\ At(s, 1) = s[1] /\ At(s, 1 - 1) = Null
        BY <2>1 DEF At
      <3>2. QED
        BY <2>1, <2>8, <3>1
    <2>10. \A i \in 2 .. CacheSize : list.prev[Walk[i]] = Walk[i - 1]
      <3> SUFFICES ASSUME NEW i \in 2 .. created PROVE list.prev[Walk[i]] = Walk[i - 1]
        BY <2>1
      <3>1. i \in 1 .. created /\ i - 1 \in 1 .. created
        BY <2>1
      <3>2. list.prev[s[i]] = s[i - 1]
        BY <2>1, <2>8, <3>1 DEF At
      <3>3. QED
        BY <2>3, <3>1, <3>2
    <2>11. \A k \in Cached : key[cache_mp_[k]] = k
      BY DEF Mapped
    <2>12. QED
      BY <2>1, <2>3, <2>5, <2>6, <2>7, <2>9, <2>10, <2>11 DEF ListMatchesMap
  <1>2. QED
    BY <1>1, LRUInvHolds, PTL

-----------------------------------------------------------------------------
(* Refinement of LRUSpec: what its sequence operators give, in terms of Before and
   Without. *)

\* Taking an element out of a longer sequence.
LEMMA WithoutAppend ==
    ASSUME NEW U, NEW t \in Seq(U), NEW x \in U
    PROVE  /\ \A j \in 1 .. Len(t) : Without(Append(t, x), j) = Append(Without(t, j), x)
           /\ Without(Append(t, x), Len(t) + 1) = t
  <1> DEFINE a == Append(t, x)
             n == Len(t)
  <1>1. /\ n \in Nat /\ a \in Seq(U) /\ Len(a) = n + 1 /\ a[n + 1] = x
        /\ \A i \in 1 .. n : a[i] = t[i]
    OBVIOUS
  <1> HIDE DEF a
  <1>2. ASSUME NEW j \in 1 .. n PROVE Without(a, j) = Append(Without(t, j), x)
    <2>1. /\ Without(t, j) \in Seq(U) /\ Len(Without(t, j)) = n - 1
      BY WithoutFacts
    <2>2. Without(a, j) \in Seq(U) /\ Len(Without(a, j)) = n
      <3>1. j \in 1 .. Len(a) /\ n + 1 - 1 = n
        BY <1>1
      <3>2. QED
        BY <1>1, <3>1, WithoutFacts
    <2>3. /\ \A i \in 1 .. n - 1 : Without(t, j)[i] = IF i < j THEN t[i] ELSE t[i + 1]
          /\ \A i \in 1 .. n : Without(a, j)[i] = IF i < j THEN a[i] ELSE a[i + 1]
      BY <1>1 DEF Without
    <2>4. /\ Append(Without(t, j), x) \in Seq(U) /\ Len(Append(Without(t, j), x)) = n
          /\ \A i \in 1 .. n : Append(Without(t, j), x)[i]
                                   = IF i = n THEN x ELSE Without(t, j)[i]
      <3>1. \A q \in Seq(U) : Len(q) = n - 1 =>
                /\ Append(q, x) \in Seq(U) /\ Len(Append(q, x)) = n
                /\ \A i \in 1 .. n : Append(q, x)[i] = IF i = n THEN x ELSE q[i]
        BY <1>1
      <3>2. QED
        BY <2>1, <3>1
    <2>5. ASSUME NEW i \in 1 .. n PROVE Without(a, j)[i] = Append(Without(t, j), x)[i]
      <3>1. CASE i = n
        BY <1>1, <2>3, <2>4, <3>1
      <3>2. CASE i # n
        <4>1. i \in 1 .. n - 1 /\ i + 1 \in 1 .. n
          BY <1>1, <3>2
        <4>2. QED
          BY <1>1, <2>3, <2>4, <3>2, <4>1
      <3>3. QED
        BY <3>1, <3>2
    <2>6. QED
      BY <2>2, <2>4, <2>5, SeqEqual
  <1>3. Without(a, n + 1) = t
    <2>1. Without(a, n + 1) = [i \in 1 .. n |-> t[i]]
      BY <1>1 DEF Without
    <2>2. t = [i \in 1 .. n |-> t[i]]
      OBVIOUS
    <2>3. QED
      BY <2>1, <2>2
  <1>4. QED
    BY <1>2, <1>3 DEF a

\* Keeping all elements but one takes out that one.
LEMMA KeepWithout ==
    ASSUME NEW U, NEW s \in Seq(U), NoDuplicates(s), NEW j \in 1 .. Len(s)
    PROVE  Keep(s, Range(s) \ {s[j]}) = Without(s, j)
  <1> DEFINE T == {t \in Seq(U) : NoDuplicates(t) =>
                     \A i \in 1 .. Len(t) : Keep(t, Range(t) \ {t[i]}) = Without(t, i)}
  <1>1. <<>> \in T
    BY EmptySeq
  <1>2. ASSUME NEW t \in Seq(U), NEW x \in U, t \in T PROVE Append(t, x) \in T
    <2> DEFINE a == Append(t, x)
               n == Len(t)
    <2>1. /\ n \in Nat /\ a \in Seq(U) /\ Len(a) = n + 1 /\ a[n + 1] = x
          /\ DOMAIN t = 1 .. n /\ DOMAIN a = 1 .. n + 1
          /\ \A i \in 1 .. n : a[i] = t[i]
      OBVIOUS
    <2>2. Range(a) = Range(t) \cup {x}
      BY AppendLemma
    <2>3. \A S : Keep(a, S) = IF x \in S THEN Append(Keep(t, S), x) ELSE Keep(t, S)
      BY KeepAppend
    <2>4. /\ \A i \in 1 .. n : Without(a, i) = Append(Without(t, i), x)
          /\ Without(a, n + 1) = t
      BY WithoutAppend
    <2> HIDE DEF a
    <2> SUFFICES ASSUME NoDuplicates(a), NEW i \in 1 .. n + 1
                 PROVE  Keep(a, Range(a) \ {a[i]}) = Without(a, i)
      BY <2>1 DEF a
    <2>5. NoDuplicates(t) /\ x \notin Range(t)
      BY <2>1, SMTT(30) DEF NoDuplicates, Range
    <2>6. CASE i \in 1 .. n
      <3> DEFINE S == Range(a) \ {t[i]}
      <3>1. x # t[i] /\ t[i] \in Range(t)
        BY <2>1, <2>5, <2>6 DEF Range
      <3>2. Keep(t, S) = Keep(t, Range(t) \ {t[i]})
        <4>1. Range(t) \cap S = Range(t) \cap (Range(t) \ {t[i]})
          BY <2>2
        <4>2. QED
          BY <4>1, KeepAgree
      <3>3. Keep(t, Range(t) \ {t[i]}) = Without(t, i)
        BY <1>2, <2>5, <2>6
      <3>4. Keep(a, S) = Append(Without(t, i), x)
        BY <2>2, <2>3, <3>1, <3>2, <3>3
      <3>5. QED
        BY <2>1, <2>4, <2>6, <3>4
    <2>7. CASE i = n + 1
      <3> DEFINE S == Range(a) \ {x}
      <3>1. Keep(t, S) = t
        <4>1. Range(t) \subseteq S
          BY <2>2, <2>5
        <4>2. QED
          BY <4>1, KeepAll
      <3>2. Keep(a, S) = t
        <4>1. x \notin S
          OBVIOUS
        <4>2. QED
          BY <2>3, <3>1, <4>1
      <3>3. QED
        BY <2>1, <2>4, <2>7, <3>2
    <2>8. QED
      BY <2>1, <2>6, <2>7
  <1>3. \A t \in Seq(U) : t \in T
    <2> HIDE DEF T
    <2>1. QED
      BY <1>1, <1>2, SeqInduct, Zenon
  <1>4. QED
    BY <1>3

\* Before is concatenation with a sequence of one element.
LEMMA BeforeConcat ==
    ASSUME NEW U, NEW s \in Seq(U), NEW x \in U
    PROVE  <<x>> \o s = Before(x, s)
  <1>1. Before(x, s) \in Seq(U) /\ Len(Before(x, s)) = Len(s) + 1 /\ Len(s) \in Nat
    BY BeforeFacts
  <1>2. \A i \in 1 .. Len(s) + 1 : Before(x, s)[i] = IF i = 1 THEN x ELSE s[i - 1]
    BY DEF Before
  <1>3. /\ <<x>> \o s \in Seq(U) /\ Len(<<x>> \o s) = Len(s) + 1
        /\ \A i \in 1 .. Len(s) + 1 : (<<x>> \o s)[i] = IF i = 1 THEN x ELSE s[i - 1]
    <2> DEFINE q == <<x>>
    <2>1. q \in Seq(U) /\ Len(q) = 1 /\ q[1] = x
      OBVIOUS
    <2> HIDE DEF q
    <2>2. /\ q \o s \in Seq(U) /\ Len(q \o s) = Len(q) + Len(s)
          /\ \A i \in 1 .. Len(q) + Len(s) :
                 (q \o s)[i] = IF i <= Len(q) THEN q[i] ELSE s[i - Len(q)]
      BY <2>1, ConcatProperties
    <2>3. /\ q \o s \in Seq(U) /\ Len(q \o s) = Len(s) + 1
          /\ \A i \in 1 .. Len(s) + 1 : (q \o s)[i] = IF i = 1 THEN q[1] ELSE s[i - 1]
      BY <1>1, <2>1, <2>2
    <2>4. QED
      BY <2>1, <2>3 DEF q
  <1>4. \A i \in 1 .. Len(s) + 1 : (<<x>> \o s)[i] = Before(x, s)[i]
    BY <1>2, <1>3
  <1>5. QED
    BY <1>1, <1>3, <1>4, SeqEqual

\* Taking out the last element leaves the elements before it.
LEMMA WithoutLast ==
    ASSUME NEW U, NEW s \in Seq(U), s # <<>>
    PROVE  SubSeq(s, 1, Len(s) - 1) = Without(s, Len(s))
  <1>1. Len(s) \in Nat \ {0}
    OBVIOUS
  <1>2. SubSeq(s, 1, Len(s) - 1) = [i \in 1 .. Len(s) - 1 |-> s[i]]
    BY <1>1
  <1>3. Without(s, Len(s)) = [i \in 1 .. Len(s) - 1 |-> s[i]]
    BY <1>1 DEF Without
  <1>4. QED
    BY <1>2, <1>3

(* The members of the nodes of s, in their order. *)
Along(f, s) == [i \in 1 .. Len(s) |-> f[s[i]]]

\* Moving a node to the head, and changing no other, moves its member to the front.
LEMMA AlongMove ==
    ASSUME NEW s \in Seq(Node), NEW j \in 1 .. Len(s), NEW f, NEW g,
           \A i \in 1 .. Len(s) : i # j => g[s[i]] = f[s[i]]
    PROVE  Along(g, Before(s[j], Without(s, j))) = Before(g[s[j]], Without(Along(f, s), j))
  <1> DEFINE w == Without(s, j)
             b == Before(s[j], w)
             n == Len(s)
             r == Along(f, s)
             u == Without(r, j)
  <1>1. n \in Nat \ {0} /\ s[j] \in Node
    OBVIOUS
  <1>2. w \in Seq(Node) /\ Len(w) = n - 1
    BY WithoutFacts
  <1>3. \A i \in 1 .. n - 1 : w[i] = IF i < j THEN s[i] ELSE s[i + 1]
    BY DEF Without
  <1> HIDE DEF w
  <1>4. b \in Seq(Node) /\ Len(b) = n - 1 + 1
    <2>1. \A q \in Seq(Node), x \in Node :
              Before(x, q) \in Seq(Node) /\ Len(Before(x, q)) = Len(q) + 1
      BY BeforeFacts
    <2>2. QED
      BY <1>1, <1>2, <2>1
  <1>5. \A i \in 1 .. n : b[i] = IF i = 1 THEN s[j] ELSE w[i - 1]
    <2>1. n - 1 + 1 = n
      BY <1>1
    <2>2. QED
      BY <1>2, <2>1 DEF Before
  <1> HIDE DEF b
  <1>6. Len(r) = n /\ \A i \in 1 .. n : r[i] = f[s[i]]
    BY <1>1 DEF Along
  <1> HIDE DEF r
  <1>7. Len(u) = n - 1 /\ \A i \in 1 .. n - 1 : u[i] = IF i < j THEN r[i] ELSE r[i + 1]
    BY <1>1, <1>6 DEF Without
  <1> HIDE DEF u
  <1>8. /\ Along(g, b) = [i \in 1 .. n |-> g[b[i]]]
        /\ Before(g[s[j]], u) = [i \in 1 .. n |-> IF i = 1 THEN g[s[j]] ELSE u[i - 1]]
    <2>1. n - 1 + 1 = n
      BY <1>1
    <2>2. QED
      BY <1>4, <1>7, <2>1, Zenon DEF Along, Before
  <1>9. ASSUME NEW i \in 1 .. n PROVE g[b[i]] = IF i = 1 THEN g[s[j]] ELSE u[i - 1]
    <2>1. CASE i = 1
      BY <1>5, <2>1
    <2>2. CASE i # 1
      <3>1. i - 1 \in 1 .. n - 1 /\ i - 1 + 1 = i
        BY <1>1, <2>2
      <3>2. PICK k \in 1 .. n : k # j /\ k = IF i - 1 < j THEN i - 1 ELSE i
        BY <1>1, <2>2, <3>1
      <3>3. b[i] = s[k] /\ u[i - 1] = f[s[k]]
        BY <1>3, <1>5, <1>6, <1>7, <2>2, <3>1, <3>2
      <3>4. QED
        BY <2>2, <3>2, <3>3
    <2>3. QED
      BY <2>1, <2>2
  <1>10. QED
    <2>1. Along(g, b) = Before(g[s[j]], u)
      BY <1>8, <1>9, Zenon
    <2>2. QED
      BY <2>1 DEF b, w, u, r

\* A new node at the head puts its member to the front.
LEMMA AlongNew ==
    ASSUME NEW s \in Seq(Node), NEW n \in Node, NEW f, NEW g,
           \A i \in 1 .. Len(s) : g[s[i]] = f[s[i]]
    PROVE  Along(g, Before(n, s)) = Before(g[n], Along(f, s))
  <1> DEFINE b == Before(n, s)
             m == Len(s)
             r == Along(f, s)
  <1>1. m \in Nat
    OBVIOUS
  <1>2. b \in Seq(Node) /\ Len(b) = m + 1
    BY BeforeFacts
  <1>3. \A i \in 1 .. m + 1 : b[i] = IF i = 1 THEN n ELSE s[i - 1]
    BY DEF Before
  <1> HIDE DEF b
  <1>4. Len(r) = m /\ \A i \in 1 .. m : r[i] = f[s[i]]
    BY <1>1 DEF Along
  <1> HIDE DEF r
  <1>5. /\ Along(g, b) = [i \in 1 .. m + 1 |-> g[b[i]]]
        /\ Before(g[n], r) = [i \in 1 .. m + 1 |-> IF i = 1 THEN g[n] ELSE r[i - 1]]
    BY <1>2, <1>4, Zenon DEF Along, Before
  <1>6. ASSUME NEW i \in 1 .. m + 1 PROVE g[b[i]] = IF i = 1 THEN g[n] ELSE r[i - 1]
    <2>1. CASE i = 1
      BY <1>1, <1>3, <2>1
    <2>2. CASE i # 1
      <3>1. i - 1 \in 1 .. m
        BY <1>1, <2>2
      <3>2. QED
        BY <1>3, <1>4, <2>2, <3>1
    <2>3. QED
      BY <2>1, <2>2
  <1>7. QED
    <2>1. Along(g, b) = Before(g[n], r)
      BY <1>5, <1>6, Zenon
    <2>2. QED
      BY <2>1 DEF b, r

RecentFollows ==
    \A s : CacheTypeOK /\ Mapped /\ Ordered(s) =>
        /\ Recent = Along(key, s) /\ Recent \in Seq(Key) /\ NoDuplicates(Recent)
        /\ Len(Recent) = CacheSize /\ Range(Recent) = Cached

\* Under the invariant the abstract sequence is the keys along the order of the nodes.
LEMMA RecentLemma == RecentFollows
  <1> SUFFICES ASSUME CacheTypeOK, Mapped, NEW s, Ordered(s)
               PROVE  /\ Recent = Along(key, s) /\ Recent \in Seq(Key) /\ NoDuplicates(Recent)
                      /\ Len(Recent) = CacheSize /\ Range(Recent) = Cached
    BY DEF RecentFollows
  <1>1. /\ s \in Seq(Node) /\ NoDuplicates(s) /\ created \in Nat /\ Len(s) = created
        /\ CacheSize = created /\ DOMAIN s = 1 .. created
        /\ \A i \in 1 .. created : s[i] \in 1 .. created
        /\ \A k \in Cached : \E j \in 1 .. Len(s) : s[j] = cache_mp_[k]
    BY OrderFacts
  <1>2. \A n \in 1 .. created : key[n] \in Cached /\ cache_mp_[key[n]] = n
    BY DEF Mapped
  <1>3. \A k \in Cached : k \in Key /\ key[cache_mp_[k]] = k
    BY DEF Mapped, CacheTypeOK
  <1>4. \A i \in 1 .. created : Walk[i] = s[i]
    <2>1. \A i \in Nat \ {0} : Walk[i] = At(s, i)
      BY WalkLemma DEF Ordered
    <2>2. QED
      BY <1>1, <2>1 DEF At
  <1> DEFINE r == [i \in 1 .. created |-> key[s[i]]]
  <1>5. Recent = r /\ Along(key, s) = r
    <2>1. Recent = [i \in 1 .. created |-> key[Walk[i]]]
      BY <1>1 DEF Recent
    <2>2. [i \in 1 .. created |-> key[Walk[i]]] = r
      BY <1>4, Zenon
    <2>3. Along(key, s) = r
      BY <1>1 DEF Along
    <2>4. QED
      BY <2>1, <2>2, <2>3, Zenon
  <1>6. \A i \in 1 .. created : r[i] = key[s[i]] /\ key[s[i]] \in Key
    BY <1>1, <1>2, <1>3
  <1>7. r \in Seq(Key) /\ Len(r) = created /\ DOMAIN r = 1 .. created
    <2>1. r \in [1 .. created -> Key]
      BY <1>6
    <2> HIDE DEF r
    <2>2. QED
      BY <1>1, <2>1
  <1> HIDE DEF r
  <1>8. NoDuplicates(r)
    <2> SUFFICES ASSUME NEW a \in 1 .. created, NEW b \in 1 .. created, r[a] = r[b]
                 PROVE  a = b
      BY <1>7 DEF NoDuplicates
    <2>1. s[a] = s[b]
      <3>1. key[s[a]] = key[s[b]]
        BY <1>6
      <3>2. cache_mp_[key[s[a]]] = s[a] /\ cache_mp_[key[s[b]]] = s[b]
        BY <1>1, <1>2
      <3>3. QED
        BY <3>1, <3>2, Zenon
    <2>2. QED
      BY <1>1, <2>1 DEF NoDuplicates
  <1>9. Range(r) = Cached
    <2>1. \A k \in Cached : \E j \in 1 .. created : r[j] = k
      BY <1>1, <1>3, <1>6
    <2>2. \A j \in 1 .. created : r[j] \in Cached
      BY <1>1, <1>2, <1>6
    <2>3. QED
      BY <1>7, <2>1, <2>2 DEF Range
  <1>10. QED
    BY <1>1, <1>5, <1>7, <1>8, <1>9

\* The same after a step.
LEMMA RecentNext ==
    ASSUME NEW s, CacheTypeOK', Mapped', Ordered(s)'
    PROVE  Recent' = Along(key', s) /\ Range(Recent') = Cached'
  <1>1. RecentFollows'
    BY RecentLemma, PTL
  <1>2. QED
    BY <1>1 DEF RecentFollows

\* LRUSpec's operators, on the refinement mapping, are those of this module.
LEMMA SameOperators ==
    /\ Abstract!Cached = Range(Recent)
    /\ \A q, S : Abstract!Keep(q, S) = Keep(q, S)
  <1>1. Abstract!Cached = Range(Recent)
    BY DEF Abstract!Cached, Abstract!Range, Range
  <1>2. \A q, S : Abstract!Keep(q, S) = Keep(q, S)
    BY Zenon DEF Keep, Kept, Abstract!Keep, Abstract!Kept
  <1>3. QED
    BY <1>1, <1>2

\* A get or a put of a cached key makes it the most recent one.
LEMMA TouchStep ==
    ASSUME CacheTypeOK, Mapped, NEW s, Ordered(s), NEW k \in Cached, MoveToHead(cache_mp_[k]),
           UNCHANGED <<capacity_, key, val, cache_mp_, created>>,
           result' \in Value \cup {Miss}, call' \in Arguments
    PROVE  /\ Recent' = <<k>> \o Keep(Recent, Range(Recent) \ {k})
           /\ Range(Recent) = Cached /\ Range(Recent') = Cached /\ k \in Key
           /\ Stored' = Stored
  <1>1. PICK j \in 1 .. Len(s) : s[j] = cache_mp_[k]
    BY OrderFacts
  <1>2. s \in Seq(Node) /\ Len(s) = CacheSize
    BY OrderFacts
  <1>3. k \in Key /\ key[s[j]] = k
    BY <1>1 DEF CacheTypeOK, Mapped
  <1>4. /\ Recent = Along(key, s) /\ Recent \in Seq(Key) /\ NoDuplicates(Recent)
        /\ Len(Recent) = CacheSize /\ Range(Recent) = Cached
    BY RecentLemma DEF RecentFollows
  <1>5. Recent[j] = k /\ j \in 1 .. Len(Recent)
    BY <1>2, <1>3, <1>4 DEF Along
  <1>6. CacheTypeOK' /\ Mapped' /\ Ordered(Before(s[j], Without(s, j)))'
    BY <1>1, HitStep
  <1>7. Recent' = Along(key, Before(s[j], Without(s, j))) /\ Range(Recent') = Cached
    <2>1. Recent' = Along(key', Before(s[j], Without(s, j))) /\ Range(Recent') = Cached'
      BY <1>6, RecentNext
    <2>2. QED
      BY <2>1 DEF Cached
  <1>8. Recent' = Before(k, Without(Recent, j))
    <2>1. Along(key, Before(s[j], Without(s, j))) = Before(key[s[j]], Without(Along(key, s), j))
      BY <1>2, AlongMove
    <2>2. QED
      BY <1>3, <1>4, <1>7, <2>1, Zenon
  <1>9. Keep(Recent, Range(Recent) \ {k}) = Without(Recent, j)
    <2>1. Keep(Recent, Range(Recent) \ {Recent[j]}) = Without(Recent, j)
      BY <1>4, <1>5, KeepWithout
    <2>2. QED
      BY <1>5, <2>1, Zenon
  <1>10. <<k>> \o Without(Recent, j) = Before(k, Without(Recent, j))
    <2>1. Without(Recent, j) \in Seq(Key)
      BY <1>4, <1>5, WithoutFacts
    <2>2. QED
      BY <1>3, <2>1, BeforeConcat
  <1>11. Stored' = Stored
    BY DEF Stored, Cached
  <1>12. QED
    BY <1>3, <1>4, <1>7, <1>8, <1>9, <1>10, <1>11, Zenon

\* A new key in a full cache takes the place of the least recently used one.
LEMMA EvictRefines ==
    ASSUME CacheTypeOK, Mapped, NEW s, Ordered(s), NEW k \in Key, NEW v \in Value, PutEvict(k, v)
    PROVE  /\ Recent' = <<k>> \o Keep(SubSeq(Recent, 1, Len(Recent) - 1), Range(Recent) \ {k})
           /\ Range(Recent) = Cached /\ Len(Recent) = CacheSize
           /\ Stored' = [x \in Range(Recent') |-> IF x = k THEN v ELSE Stored[x]]
  <1>1. /\ created \in 1 .. Len(s) /\ list.tail = s[created]
        /\ CacheTypeOK' /\ Mapped' /\ Ordered(Before(s[created], Without(s, created)))'
    BY EvictStep
  <1>2. s \in Seq(Node) /\ Len(s) = created /\ CacheSize = created /\ NoDuplicates(s)
    BY OrderFacts
  <1>3. /\ Recent = Along(key, s) /\ Recent \in Seq(Key) /\ NoDuplicates(Recent)
        /\ Len(Recent) = CacheSize /\ Range(Recent) = Cached
    BY RecentLemma DEF RecentFollows
  <1> DEFINE n == s[created]
  <1>4. /\ n \in Node /\ k \notin Cached /\ Assign(k, v, n, Cached \ {key[n]})
        /\ created' = created
    BY <1>1, <1>2 DEF PutEvict
  <1>5. /\ Cached' = (Cached \ {key[n]}) \cup {k}
        /\ \A m \in Node : key'[m] = IF m = n THEN k ELSE key[m]
        /\ \A m \in Node : val'[m] = IF m = n THEN v ELSE val[m]
        /\ \A x \in (Cached \ {key[n]}) \cup {k} :
               cache_mp_'[x] = IF x = k THEN n ELSE cache_mp_[x]
    <2> HIDE DEF n
    <2>1. QED
      BY <1>4, AssignFacts
  <1>6. Recent' = Along(key', Before(n, Without(s, created))) /\ Range(Recent') = Cached'
    <2>1. Ordered(Before(s[created], Without(s, created)))'
            = (/\ Represents(list', Before(s[created], Without(s, created)))
               /\ Range(Before(s[created], Without(s, created))) = 1 .. created')
      BY <1>4 DEF Ordered
    <2>2. PICK t : t = Before(n, Without(s, created))
      OBVIOUS
    <2>3. Ordered(t)'
      BY <1>1, <2>1, <2>2, Zenon DEF Ordered
    <2>4. Recent' = Along(key', t) /\ Range(Recent') = Cached'
      BY <1>1, <2>3, RecentNext
    <2>5. QED
      BY <2>2, <2>4, Zenon
  <1>7. Recent' = Before(k, Without(Recent, created))
    <2>1. \A i \in 1 .. Len(s) : i # created => key'[s[i]] = key[s[i]]
      BY <1>1, <1>2, <1>5 DEF NoDuplicates
    <2>2. Along(key', Before(s[created], Without(s, created)))
              = Before(key'[s[created]], Without(Along(key, s), created))
      BY <1>1, <1>2, <2>1, AlongMove
    <2>3. key'[s[created]] = k
      BY <1>4, <1>5
    <2>4. QED
      BY <1>3, <1>6, <2>2, <2>3, Zenon
  <1>8. Keep(SubSeq(Recent, 1, Len(Recent) - 1), Range(Recent) \ {k}) = Without(Recent, created)
    <2>1. Recent # <<>> /\ created \in 1 .. Len(Recent) /\ Len(Recent) = created
      BY <1>1, <1>2, <1>3
    <2>2. SubSeq(Recent, 1, Len(Recent) - 1) = Without(Recent, created)
      BY <1>3, <2>1, WithoutLast
    <2>3. /\ Without(Recent, created) \in Seq(Key)
          /\ Range(Without(Recent, created)) = Range(Recent) \ {Recent[created]}
      BY <1>3, <2>1, WithoutFacts
    <2>4. Range(Without(Recent, created)) \subseteq Range(Recent) \ {k}
      BY <1>3, <1>4, <2>3
    <2>5. Keep(Without(Recent, created), Range(Recent) \ {k}) = Without(Recent, created)
      BY <2>3, <2>4, KeepAll
    <2>6. QED
      BY <2>2, <2>5, Zenon
  <1>9. <<k>> \o Without(Recent, created) = Before(k, Without(Recent, created))
    <2>1. Without(Recent, created) \in Seq(Key)
      BY <1>1, <1>2, <1>3, WithoutFacts
    <2>2. QED
      BY <2>1, BeforeConcat
  <1>10. Stored' = [x \in Range(Recent') |-> IF x = k THEN v ELSE Stored[x]]
    <2>1. ASSUME NEW x \in Cached'
          PROVE  val'[cache_mp_'[x]] = IF x = k THEN v ELSE Stored[x]
      <3>1. CASE x = k
        BY <1>4, <1>5, <3>1
      <3>2. CASE x # k
        <4>1. x \in Cached /\ x # key[n]
          BY <1>5, <3>2
        <4>2. cache_mp_'[x] = cache_mp_[x]
          BY <1>5, <3>2
        <4>3. cache_mp_[x] \in Node /\ cache_mp_[x] # n
          BY <4>1 DEF Mapped, CacheTypeOK
        <4>4. Stored[x] = val[cache_mp_[x]]
          BY <4>1 DEF Stored
        <4>5. QED
          BY <1>5, <4>1, <4>2, <4>3, <4>4
      <3>3. QED
        BY <3>1, <3>2
    <2>2. Stored' = [x \in Cached' |-> val'[cache_mp_'[x]]]
      BY DEF Stored, Cached
    <2>3. QED
      BY <1>6, <2>1, <2>2, Zenon
  <1>11. QED
    BY <1>3, <1>7, <1>8, <1>9, <1>10, Zenon

\* A new key in a cache that is not full becomes the most recent one.
LEMMA NewRefines ==
    ASSUME CacheTypeOK, Mapped, NEW s, Ordered(s), NEW k \in Key, NEW v \in Value, PutNew(k, v)
    PROVE  /\ Recent' = <<k>> \o Keep(Recent, Range(Recent) \ {k})
           /\ Range(Recent) = Cached /\ Len(Recent) = CacheSize
           /\ Stored' = [x \in Range(Recent') |-> IF x = k THEN v ELSE Stored[x]]
  <1>1. CacheTypeOK' /\ Mapped' /\ Ordered(Before(created, s))' /\ created + 1 \in Node
    BY NewStep
  <1>2. /\ s \in Seq(Node) /\ Len(s) = created /\ created \in Nat
        /\ \A i \in 1 .. created : s[i] \in 1 .. created
    BY OrderFacts
  <1>3. /\ Recent = Along(key, s) /\ Recent \in Seq(Key)
        /\ Len(Recent) = CacheSize /\ Range(Recent) = Cached
    BY RecentLemma DEF RecentFollows
  <1> DEFINE n == created + 1
  <1>4. k \notin Cached /\ Assign(k, v, n, Cached) /\ created' = n
    BY DEF PutNew
  <1>5. n \notin 1 .. created /\ n \in Node
    BY <1>1, <1>2
  <1> HIDE DEF n
  <1>6. /\ Cached' = Cached \cup {k}
        /\ \A m \in Node : key'[m] = IF m = n THEN k ELSE key[m]
        /\ \A m \in Node : val'[m] = IF m = n THEN v ELSE val[m]
        /\ \A x \in Cached \cup {k} : cache_mp_'[x] = IF x = k THEN n ELSE cache_mp_[x]
    BY <1>4, <1>5, AssignFacts
  <1>7. Recent' = Along(key', Before(n, s)) /\ Range(Recent') = Cached'
    <2>1. PICK t : t = Before(n, s)
      OBVIOUS
    <2>2. Ordered(t)'
      BY <1>1, <1>4, <2>1, Zenon DEF Ordered
    <2>3. Recent' = Along(key', t) /\ Range(Recent') = Cached'
      BY <1>1, <2>2, RecentNext
    <2>4. QED
      BY <2>1, <2>3, Zenon
  <1>8. Recent' = Before(k, Recent)
    <2>1. \A i \in 1 .. Len(s) : key'[s[i]] = key[s[i]]
      BY <1>2, <1>5, <1>6
    <2>2. Along(key', Before(n, s)) = Before(key'[n], Along(key, s))
      BY <1>2, <1>5, <2>1, AlongNew
    <2>3. key'[n] = k
      BY <1>5, <1>6
    <2>4. QED
      BY <1>3, <1>7, <2>2, <2>3, Zenon
  <1>9. Keep(Recent, Range(Recent) \ {k}) = Recent
    <2>1. Range(Recent) \subseteq Range(Recent) \ {k}
      BY <1>3, <1>4
    <2>2. QED
      BY <1>3, <2>1, KeepAll
  <1>10. <<k>> \o Recent = Before(k, Recent)
    BY <1>3, BeforeConcat
  <1>11. Stored' = [x \in Range(Recent') |-> IF x = k THEN v ELSE Stored[x]]
    <2>1. ASSUME NEW x \in Cached'
          PROVE  val'[cache_mp_'[x]] = IF x = k THEN v ELSE Stored[x]
      <3>1. CASE x = k
        BY <1>4, <1>5, <1>6, <3>1
      <3>2. CASE x # k
        <4>1. x \in Cached /\ cache_mp_'[x] = cache_mp_[x]
          BY <1>6, <3>2
        <4>2. cache_mp_[x] \in Node /\ cache_mp_[x] # n
          BY <1>5, <4>1 DEF Mapped, CacheTypeOK
        <4>3. Stored[x] = val[cache_mp_[x]]
          BY <4>1 DEF Stored
        <4>4. QED
          BY <1>6, <4>1, <4>2, <4>3
      <3>3. QED
        BY <3>1, <3>2
    <2>2. Stored' = [x \in Cached' |-> val'[cache_mp_'[x]]]
      BY DEF Stored, Cached
    <2>3. QED
      BY <1>7, <2>1, <2>2, Zenon
  <1>12. QED
    BY <1>3, <1>8, <1>9, <1>10, <1>11, Zenon

\* The pointers and the map implement the least-recently-used cache of LRUSpec, for any
\* keys, values and capacities: ImplementsLRU.
THEOREM CacheImplementsLRU == CacheSpec => ImplementsLRU
  <1>1. CacheInit => Abstract!RInit
    <2> SUFFICES ASSUME CacheInit PROVE Abstract!RInit
      OBVIOUS
    <2>1. Cached = {} /\ result = Miss /\ capacity_ \in Int /\ call = <<>>
      BY LRUAssumption DEF CacheInit, Cached
    <2>2. CacheSize = 0
      BY <2>1, FS_EmptySet DEF CacheSize
    <2>3. Recent = <<>>
      BY <2>2 DEF Recent
    <2>4. Stored = [k \in {} |-> Miss]
      BY <2>1 DEF Stored
    <2>5. QED
      BY <2>1, <2>3, <2>4 DEF Abstract!RInit
  <1>2. LRUInv /\ [CacheNext]_cachevars => [Abstract!RNext]_(Abstract!rvars)
    <2> SUFFICES ASSUME CacheTypeOK, Mapped, NEW s, Ordered(s), [CacheNext]_cachevars
                 PROVE  Abstract!RNext \/ UNCHANGED Abstract!rvars
      BY DEF LRUInv
    <2>0. /\ Abstract!Cached = Range(Recent) /\ Range(Recent) = Cached
          /\ Len(Recent) = CacheSize
          /\ \A q, S : Abstract!Keep(q, S) = Keep(q, S)
      BY SameOperators, RecentLemma, Zenon DEF RecentFollows
    <2>1. ASSUME NEW k \in Key, GetHit(k) PROVE Abstract!Get(k)
      <3>1. /\ Recent' = <<k>> \o Keep(Recent, Range(Recent) \ {k}) /\ Stored' = Stored
        BY <2>1, TouchStep DEF GetHit, CacheTypeOK, Arguments
      <3>2. k \in Cached /\ result' = Stored[k] /\ capacity_' = capacity_ /\ call' = <<k>>
        BY <2>1 DEF GetHit, Stored
      <3>3. Abstract!Touch(k) = <<k>> \o Keep(Recent, Range(Recent) \ {k})
        BY <2>0, Zenon DEF Abstract!Touch
      <3>4. QED
        BY <2>0, <3>1, <3>2, <3>3, Zenon DEF Abstract!Get
    <2>2. ASSUME NEW k \in Key, GetMiss(k) PROVE Abstract!Get(k)
      <3>1. k \notin Cached /\ result' = Miss /\ capacity_' = capacity_ /\ Stored' = Stored
            /\ call' = <<k>>
        BY <2>2 DEF GetMiss, Stored, Cached
      <3>2. Recent' = Recent
        BY <2>2 DEF GetMiss, Recent, CacheSize, Cached, Walk
      <3>3. QED
        BY <2>0, <3>1, <3>2, Zenon DEF Abstract!Get
    <2>3. ASSUME NEW k \in Key, NEW v \in Value, PutHit(k, v) PROVE Abstract!Put(k, v)
      <3>1. /\ Recent' = <<k>> \o Keep(Recent, Range(Recent) \ {k}) /\ Stored' = Stored
            /\ Range(Recent') = Cached
        BY <2>3, TouchStep DEF PutHit, CacheTypeOK, Arguments
      <3>2. k \in Cached /\ result' = result /\ capacity_' = capacity_ /\ call' = <<k, v>>
        BY <2>3 DEF PutHit
      <3>3. Stored' = [x \in Range(Recent') |->
                          IF x = k /\ (FALSE \/ k \notin Cached) THEN v ELSE Stored[x]]
        <4>1. Stored = [x \in Cached |-> IF x = k /\ (FALSE \/ k \notin Cached) THEN v ELSE Stored[x]]
          BY <3>2 DEF Stored
        <4>2. QED
          BY <3>1, <4>1, Zenon
      <3>4. Abstract!Range(Recent') = Range(Recent')
        BY DEF Abstract!Range, Range
      <3>5. QED
        BY <2>0, <3>1, <3>2, <3>3, <3>4, Zenon DEF Abstract!Put
    <2>4. ASSUME NEW k \in Key, NEW v \in Value, PutEvict(k, v) PROVE Abstract!Put(k, v)
      <3>1. /\ Recent' = <<k>> \o Keep(SubSeq(Recent, 1, Len(Recent) - 1), Range(Recent) \ {k})
            /\ Stored' = [x \in Range(Recent') |-> IF x = k THEN v ELSE Stored[x]]
        BY <2>4, EvictRefines
      <3>2. k \notin Cached /\ result' = result /\ capacity_' = capacity_ /\ Full /\ call' = <<k, v>>
        BY <2>4 DEF PutEvict
      <3>3. Abstract!Full
        BY <2>0, <3>2 DEF Full, Abstract!Full, CacheSize
      <3>4. Abstract!Range(Recent') = Range(Recent')
        BY DEF Abstract!Range, Range
      <3>5. Stored' = [x \in Range(Recent') |->
                          IF x = k /\ (FALSE \/ k \notin Cached) THEN v ELSE Stored[x]]
        BY <3>1, <3>2, Zenon
      <3>6. QED
        BY <2>0, <3>1, <3>2, <3>3, <3>4, <3>5, Zenon DEF Abstract!Put
    <2>5. ASSUME NEW k \in Key, NEW v \in Value, PutNew(k, v) PROVE Abstract!Put(k, v)
      <3>1. /\ Recent' = <<k>> \o Keep(Recent, Range(Recent) \ {k})
            /\ Stored' = [x \in Range(Recent') |-> IF x = k THEN v ELSE Stored[x]]
        BY <2>5, NewRefines
      <3>2. k \notin Cached /\ result' = result /\ capacity_' = capacity_ /\ ~Full /\ call' = <<k, v>>
        BY <2>5 DEF PutNew
      <3>3. ~Abstract!Full
        BY <2>0, <3>2 DEF Full, Abstract!Full, CacheSize
      <3>4. Abstract!Range(Recent') = Range(Recent')
        BY DEF Abstract!Range, Range
      <3>5. Stored' = [x \in Range(Recent') |->
                          IF x = k /\ (FALSE \/ k \notin Cached) THEN v ELSE Stored[x]]
        BY <3>1, <3>2, Zenon
      <3>6. QED
        BY <2>0, <3>1, <3>2, <3>3, <3>4, <3>5, Zenon DEF Abstract!Put
    <2>6. CASE UNCHANGED cachevars
      <3>1. Recent' = Recent /\ Stored' = Stored /\ capacity_' = capacity_ /\ result' = result
            /\ call' = call
        BY <2>6 DEF cachevars, Recent, Stored, CacheSize, Cached, Walk
      <3>2. QED
        BY <3>1 DEF Abstract!rvars
    <2>7. QED
      <3>1. \/ \E k \in Key : GetHit(k) \/ GetMiss(k)
            \/ \E k \in Key, v \in Value : PutHit(k, v) \/ PutEvict(k, v) \/ PutNew(k, v)
            \/ UNCHANGED cachevars
        BY DEF CacheNext
      <3>2. QED
        BY <2>1, <2>2, <2>3, <2>4, <2>5, <2>6, <3>1, Zenon DEF Abstract!RNext
  <1>3. QED
    BY <1>1, <1>2, LRUInvHolds, PTL DEF CacheSpec, ImplementsLRU, Abstract!RSpec
=============================================================================
