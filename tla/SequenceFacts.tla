--------------------------- MODULE SequenceFacts ---------------------------
(***************************************************************************)
(* Facts about sequences that the proofs about the pools, the servers and  *)
(* the cache share.  Induction comes first.  The library's induction       *)
(* theorems take an operator, which the provers cannot instantiate; the    *)
(* principle that a nonempty set of naturals has a least element takes a   *)
(* set, which they can, and gives induction over sets of naturals and of   *)
(* sequences.                                                              *)
(***************************************************************************)
EXTENDS Filtering, WellFoundedInduction, SequenceTheorems, TLAPS

Below == {p \in Nat \X Nat : p[1] < p[2]}

\* A nonempty set of natural numbers has a least element.
LEMMA NatMinimum ==
    ASSUME NEW T \in SUBSET Nat, T # {}
    PROVE  \E x \in T : \A y \in T : x <= y
  <1>1. IsWellFoundedOn(Below, Nat)
    BY NatLessThanWellFounded, Zenon DEF OpToRel, Below
  <1>2. PICK x \in T : \A y \in T : ~ (<<y, x>> \in Below)
    BY <1>1, WFMin
  <1>3. \A y \in Nat : ~ (<<y, x>> \in Below) => x <= y
    BY DEF Below
  <1>4. QED
    BY <1>2, <1>3

\* Induction: a set that contains 0 and with every number the next one contains all.
LEMMA NatInduct ==
    ASSUME NEW T, 0 \in T, \A n \in Nat : n \in T => n + 1 \in T
    PROVE  \A n \in Nat : n \in T
  <1> SUFFICES ASSUME \E n \in Nat : n \notin T PROVE FALSE
    OBVIOUS
  <1>1. PICK x \in Nat \ T : \A y \in Nat \ T : x <= y
    BY NatMinimum
  <1>2. x - 1 \in Nat /\ x - 1 \in T
    BY <1>1
  <1>3. QED
    BY <1>1, <1>2

\* The same for sequences: a set that contains the empty sequence and with every
\* sequence all those that are one element longer contains all sequences.
LEMMA SeqInduct ==
    ASSUME NEW U, NEW T, <<>> \in T,
           \A s \in Seq(U), x \in U : s \in T => Append(s, x) \in T
    PROVE  \A s \in Seq(U) : s \in T
  <1> DEFINE L == {n \in Nat : \A s \in Seq(U) : Len(s) = n => s \in T}
  <1>1. 0 \in L
    BY EmptySeq
  <1>2. ASSUME NEW n \in Nat, n \in L PROVE n + 1 \in L
    <2> SUFFICES ASSUME NEW s \in Seq(U), Len(s) = n + 1 PROVE s \in T
      OBVIOUS
    <2>1. s # <<>>
      OBVIOUS
    <2>2. PICK f \in Seq(U), x \in U : s = Append(f, x)
      BY <2>1, SequenceEmptyOrAppend
    <2>3. Len(f) = n
      BY <2>2
    <2>4. QED
      BY <1>2, <2>2, <2>3
  <1>3. \A n \in Nat : n \in L
    BY <1>1, <1>2, NatInduct
  <1>4. QED
    BY <1>3

-----------------------------------------------------------------------------
(* Keep is well defined: there is a function that satisfies its recursion. *)

KeptStep(f, s, S, i) ==
    IF i = 0 THEN <<>> ELSE IF s[i] \in S THEN Append(f[i - 1], s[i]) ELSE f[i - 1]

IsKept(f, s, S) == f = [i \in 0 .. Len(s) |-> KeptStep(f, s, S, i)]

\* Such a function exists for every sequence, by induction on its length.
LEMMA KeptExists ==
    ASSUME NEW U, NEW S, NEW s \in Seq(U)
    PROVE  \E f : IsKept(f, s, S)
  <1> DEFINE T == {n \in Nat : n <= Len(s) => \E f : f = [i \in 0 .. n |-> KeptStep(f, s, S, i)]}
  <1>1. 0 \in T
    <2> DEFINE f == [i \in 0 .. 0 |-> <<>>]
    <2>1. f = [i \in 0 .. 0 |-> KeptStep(f, s, S, i)]
      BY DEF KeptStep
    <2>2. QED
      BY <2>1
  <1>2. ASSUME NEW n \in Nat, n \in T PROVE n + 1 \in T
    <2> SUFFICES ASSUME n + 1 <= Len(s)
                 PROVE  \E f : f = [i \in 0 .. n + 1 |-> KeptStep(f, s, S, i)]
      OBVIOUS
    <2>1. Len(s) \in Nat /\ n <= Len(s)
      OBVIOUS
    <2>2. PICK f : f = [i \in 0 .. n |-> KeptStep(f, s, S, i)]
      BY <1>2, <2>1
    <2> DEFINE g == [i \in 0 .. n + 1 |-> IF i = n + 1 THEN KeptStep(f, s, S, n + 1) ELSE f[i]]
    <2> HIDE DEF g
    <2>3. \A i \in 0 .. n : g[i] = f[i]
      BY DEF g
    <2>4. \A i \in 0 .. n : f[i] = KeptStep(f, s, S, i)
      BY <2>2
    <2>5. ASSUME NEW i \in 0 .. n + 1 PROVE g[i] = KeptStep(g, s, S, i)
      <3>1. CASE i = 0
        BY <2>3, <2>4, <3>1 DEF KeptStep
      <3>2. CASE i \in 1 .. n
        <4>1. g[i - 1] = f[i - 1] /\ g[i] = f[i]
          BY <2>3, <3>2
        <4>2. QED
          BY <2>4, <3>2, <4>1 DEF KeptStep
      <3>3. CASE i = n + 1
        <4>1. g[i - 1] = f[i - 1] /\ g[i] = KeptStep(f, s, S, n + 1)
          BY <2>3, <3>3 DEF g
        <4>2. QED
          BY <3>3, <4>1 DEF KeptStep
      <3>4. QED
        BY <3>1, <3>2, <3>3
    <2>6. g = [i \in 0 .. n + 1 |-> KeptStep(g, s, S, i)]
      <3>1. g = [i \in 0 .. n + 1 |-> g[i]]
        BY DEF g
      <3>2. QED
        BY <2>5, <3>1
    <2>7. QED
      BY <2>6
  <1>3. Len(s) \in T
    BY <1>1, <1>2, NatInduct, LenProperties
  <1>4. QED
    BY <1>3 DEF IsKept

\* Kept satisfies its recursion.
LEMMA KeptDef ==
    ASSUME NEW U, NEW S, NEW s \in Seq(U)
    PROVE  /\ Kept(s, S)[0] = <<>>
           /\ \A i \in 1 .. Len(s) :
                 Kept(s, S)[i] = IF s[i] \in S THEN Append(Kept(s, S)[i - 1], s[i])
                                 ELSE Kept(s, S)[i - 1]
  <1> DEFINE D(f) == [i \in 0 .. Len(s) |->
                        IF i = 0 THEN <<>>
                        ELSE IF s[i] \in S THEN Append(f[i - 1], s[i]) ELSE f[i - 1]]
             k == CHOOSE f : f = D(f)
  <1>1. \E f : f = D(f)
    <2>1. PICK f : IsKept(f, s, S)
      BY KeptExists
    <2>2. f = D(f)
      BY <2>1, Zenon DEF IsKept, KeptStep
    <2>3. QED
      BY <2>2
  <1>2. Kept(s, S) = k
    BY Zenon DEF Kept
  <1>3. k = D(k)
    BY <1>1, Zenon
  <1> HIDE DEF k
  <1>4. Len(s) \in Nat
    OBVIOUS
  <1>5. k[0] = <<>>
    BY <1>3, <1>4
  <1>6. ASSUME NEW i \in 1 .. Len(s)
        PROVE  k[i] = IF s[i] \in S THEN Append(k[i - 1], s[i]) ELSE k[i - 1]
    <2>1. i \in 0 .. Len(s) /\ i # 0
      BY <1>4
    <2>2. QED
      BY <1>3, <2>1, Zenon
  <1>7. QED
    BY <1>2, <1>5, <1>6

-----------------------------------------------------------------------------
(* Elements of a sequence, and what Keep does to them. *)

NoDuplicates(s) == \A i, j \in DOMAIN s : s[i] = s[j] => i = j

\* What appending an element does to the elements of a sequence.
LEMMA AppendLemma ==
    ASSUME NEW S, NEW s \in Seq(S), NEW t \in S
    PROVE  /\ Range(Append(s, t)) = Range(s) \cup {t}
           /\ NoDuplicates(s) /\ t \notin Range(s) => NoDuplicates(Append(s, t))
  <1>1. /\ Len(s) \in Nat /\ DOMAIN s = 1 .. Len(s)
        /\ DOMAIN Append(s, t) = 1 .. Len(s) + 1
        /\ \A i \in 1 .. Len(s) : Append(s, t)[i] = s[i]
        /\ Append(s, t)[Len(s) + 1] = t
    OBVIOUS
  <1>2. Range(Append(s, t)) \subseteq Range(s) \cup {t}
    BY <1>1 DEF Range
  <1>3. Range(s) \cup {t} \subseteq Range(Append(s, t))
    <2>1. t \in Range(Append(s, t))
      <3>1. Len(s) + 1 \in DOMAIN Append(s, t)
        BY <1>1
      <3>2. QED
        BY <1>1, <3>1 DEF Range
    <2>2. QED
      BY <1>1, <2>1 DEF Range
  <1>4. NoDuplicates(s) /\ t \notin Range(s) => NoDuplicates(Append(s, t))
    BY <1>1 DEF Range, NoDuplicates
  <1>5. QED
    BY <1>2, <1>3, <1>4

\* What removing the first element does to them.
LEMMA TailLemma ==
    ASSUME NEW S, NEW s \in Seq(S), s # <<>>
    PROVE  /\ Range(s) = Range(Tail(s)) \cup {Head(s)}
           /\ NoDuplicates(s) => NoDuplicates(Tail(s)) /\ Head(s) \notin Range(Tail(s))
  <1>1. /\ Len(s) \in Nat \ {0} /\ DOMAIN s = 1 .. Len(s)
        /\ DOMAIN Tail(s) = 1 .. Len(s) - 1
        /\ \A i \in 1 .. Len(s) - 1 : Tail(s)[i] = s[i + 1]
        /\ Head(s) = s[1]
    OBVIOUS
  <1>2. Range(s) \subseteq Range(Tail(s)) \cup {Head(s)}
    <2> SUFFICES ASSUME NEW i \in DOMAIN s
                 PROVE  s[i] = Head(s) \/ \E j \in DOMAIN Tail(s) : s[i] = Tail(s)[j]
      BY DEF Range
    <2>1. CASE i = 1
      BY <2>1, <1>1
    <2>2. CASE i # 1
      <3>1. i - 1 \in DOMAIN Tail(s) /\ Tail(s)[i - 1] = s[i]
        BY <2>2, <1>1
      <3>2. QED
        BY <3>1
    <2>3. QED
      BY <2>1, <2>2
  <1>3. Range(Tail(s)) \cup {Head(s)} \subseteq Range(s)
    BY <1>1 DEF Range
  <1>4. NoDuplicates(s) => NoDuplicates(Tail(s))
    BY <1>1 DEF NoDuplicates
  <1>5. NoDuplicates(s) => Head(s) \notin Range(Tail(s))
    BY <1>1 DEF NoDuplicates, Range
  <1>6. QED
    BY <1>2, <1>3, <1>4, <1>5

\* The elements of a concatenation.
LEMMA ConcatRange ==
    ASSUME NEW S, NEW s \in Seq(S), NEW t \in Seq(S)
    PROVE  Range(s \o t) = Range(s) \cup Range(t)
  <1>1. /\ Len(s) \in Nat /\ Len(t) \in Nat /\ DOMAIN s = 1 .. Len(s) /\ DOMAIN t = 1 .. Len(t)
        /\ DOMAIN (s \o t) = 1 .. Len(s) + Len(t)
        /\ \A i \in 1 .. Len(s) + Len(t) :
               (s \o t)[i] = IF i <= Len(s) THEN s[i] ELSE t[i - Len(s)]
    OBVIOUS
  <1>2. ASSUME NEW x \in Range(s \o t) PROVE x \in Range(s) \cup Range(t)
    <2>1. PICK i \in 1 .. Len(s) + Len(t) : x = (s \o t)[i]
      BY <1>1 DEF Range
    <2>2. CASE i <= Len(s)
      BY <1>1, <2>1, <2>2 DEF Range
    <2>3. CASE ~(i <= Len(s))
      <3>1. i - Len(s) \in 1 .. Len(t)
        BY <1>1, <2>3
      <3>2. QED
        BY <1>1, <2>1, <2>3, <3>1 DEF Range
    <2>4. QED
      BY <2>2, <2>3
  <1>3. ASSUME NEW x \in Range(s) PROVE x \in Range(s \o t)
    <2>1. PICK i \in 1 .. Len(s) : x = s[i]
      BY <1>1 DEF Range
    <2>2. i \in 1 .. Len(s) + Len(t) /\ (s \o t)[i] = x
      BY <1>1, <2>1
    <2>3. QED
      BY <1>1, <2>2 DEF Range
  <1>4. ASSUME NEW x \in Range(t) PROVE x \in Range(s \o t)
    <2>1. PICK i \in 1 .. Len(t) : x = t[i]
      BY <1>1 DEF Range
    <2>2. Len(s) + i \in 1 .. Len(s) + Len(t) /\ (s \o t)[Len(s) + i] = x
      BY <1>1, <2>1
    <2>3. QED
      BY <1>1, <2>2 DEF Range
  <1>5. QED
    BY <1>2, <1>3, <1>4

\* Appending to the second of two sequences.
LEMMA ConcatAppend ==
    ASSUME NEW S, NEW s \in Seq(S), NEW t \in Seq(S), NEW x \in S
    PROVE  s \o Append(t, x) = Append(s \o t, x)
  <1> DEFINE a == s \o Append(t, x)
             b == Append(s \o t, x)
  <1>1. Len(s) \in Nat /\ Len(t) \in Nat
    OBVIOUS
  <1>2. /\ a \in Seq(S) /\ b \in Seq(S)
        /\ Len(a) = Len(s) + Len(t) + 1 /\ Len(b) = Len(s) + Len(t) + 1
    BY <1>1
  <1>3. ASSUME NEW i \in 1 .. Len(s) + Len(t) + 1 PROVE a[i] = b[i]
    <2>1. CASE i <= Len(s)
      BY <1>1, <2>1
    <2>2. CASE Len(s) < i /\ i <= Len(s) + Len(t)
      BY <1>1, <2>2
    <2>3. CASE i = Len(s) + Len(t) + 1
      BY <1>1, <2>3
    <2>4. QED
      BY <1>1, <2>1, <2>2, <2>3
  <1> HIDE DEF a, b
  <1>4. QED
    BY <1>1, <1>2, <1>3, SeqEqual DEF a, b

\* Moving an element from the head of one sequence to the end of the one before it.
LEMMA ConcatShift ==
    ASSUME NEW S, NEW s \in Seq(S), NEW t \in Seq(S), t # <<>>
    PROVE  Append(s, Head(t)) \o Tail(t) = s \o t
  <1> DEFINE a == Append(s, Head(t)) \o Tail(t)
             b == s \o t
  <1>1. Len(s) \in Nat /\ Len(t) \in Nat
    OBVIOUS
  <1>2. /\ a \in Seq(S) /\ b \in Seq(S)
        /\ Len(a) = Len(s) + Len(t) /\ Len(b) = Len(s) + Len(t)
    BY <1>1
  <1>3. ASSUME NEW i \in 1 .. Len(s) + Len(t) PROVE a[i] = b[i]
    <2>1. CASE i <= Len(s)
      BY <1>1, <2>1
    <2>2. CASE i = Len(s) + 1
      BY <1>1, <2>2
    <2>3. CASE Len(s) + 1 < i
      BY <1>1, <2>3
    <2>4. i <= Len(s) \/ i = Len(s) + 1 \/ Len(s) + 1 < i
      BY <1>1
    <2>5. QED
      BY <2>1, <2>2, <2>3, <2>4, Zenon
  <1> HIDE DEF a, b
  <1>4. QED
    BY <1>1, <1>2, <1>3, SeqEqual DEF a, b

\* Nothing is kept of the empty sequence.
LEMMA KeepEmpty == \A S : Keep(<<>>, S) = <<>>
  <1> SUFFICES ASSUME NEW S PROVE Keep(<<>>, S) = <<>>
    OBVIOUS
  <1>1. <<>> \in Seq({}) /\ Len(<<>>) = 0
    OBVIOUS
  <1>2. Kept(<<>>, S)[0] = <<>>
    <2>1. \A s \in Seq({}) : Kept(s, S)[0] = <<>>
      BY KeptDef
    <2>2. QED
      BY <1>1, <2>1, Zenon
  <1>3. QED
    BY <1>1, <1>2 DEF Keep

\* A new last element is kept if it is in the set.
LEMMA KeepAppend ==
    ASSUME NEW U, NEW S, NEW s \in Seq(U), NEW x \in U
    PROVE  Keep(Append(s, x), S) = IF x \in S THEN Append(Keep(s, S), x) ELSE Keep(s, S)
  <1> DEFINE a == Append(s, x)
             n == Len(s)
             k == Kept(s, S)
             l == Kept(a, S)
             T == {i \in Nat : i <= n => l[i] = k[i]}
  <1>1. /\ a \in Seq(U) /\ n \in Nat /\ Len(a) = n + 1 /\ a[n + 1] = x
        /\ \A i \in 1 .. n : a[i] = s[i]
    OBVIOUS
  <1> HIDE DEF a, n
  <1>2. /\ k[0] = <<>>
        /\ \A i \in 1 .. n : k[i] = IF s[i] \in S THEN Append(k[i - 1], s[i]) ELSE k[i - 1]
    BY KeptDef DEF n
  <1>3. /\ l[0] = <<>>
        /\ \A i \in 1 .. Len(a) : l[i] = IF a[i] \in S THEN Append(l[i - 1], a[i]) ELSE l[i - 1]
    BY <1>1, KeptDef
  <1> HIDE DEF k, l
  <1>4. 0 \in T
    BY <1>2, <1>3
  <1>5. ASSUME NEW i \in Nat, i \in T PROVE i + 1 \in T
    <2> SUFFICES ASSUME i + 1 <= n PROVE l[i + 1] = k[i + 1]
      OBVIOUS
    <2>1. i + 1 \in 1 .. n /\ i + 1 \in 1 .. Len(a) /\ (i + 1) - 1 = i /\ l[i] = k[i]
      BY <1>1, <1>5
    <2>2. QED
      BY <1>1, <1>2, <1>3, <2>1
  <1>6. l[n] = k[n]
    <2>1. n \in T
      BY <1>1, <1>4, <1>5, NatInduct
    <2>2. QED
      BY <1>1, <2>1
  <1>7. l[n + 1] = IF x \in S THEN Append(k[n], x) ELSE k[n]
    <2>1. n + 1 \in 1 .. Len(a) /\ (n + 1) - 1 = n
      BY <1>1
    <2>2. QED
      BY <1>1, <1>3, <1>6, <2>1
  <1>8. QED
    BY <1>1, <1>7 DEF Keep, a, n, k, l

\* Keep gives a sequence over the same set.
LEMMA KeepType ==
    ASSUME NEW U, NEW S, NEW s \in Seq(U)
    PROVE  Keep(s, S) \in Seq(U)
  <1> DEFINE T == {t \in Seq(U) : Keep(t, S) \in Seq(U)}
  <1>1. <<>> \in T
    <2>1. Keep(<<>>, S) = <<>> /\ <<>> \in Seq(U)
      BY KeepEmpty
    <2>2. QED
      BY <2>1, Zenon
  <1>2. \A t \in Seq(U), x \in U : t \in T => Append(t, x) \in T
    BY KeepAppend, SMTT(30)
  <1>3. \A t \in Seq(U) : t \in T
    <2> HIDE DEF T
    <2>1. QED
      BY <1>1, <1>2, SeqInduct, Zenon
  <1>4. QED
    BY <1>3

\* The elements kept are those in the set.
LEMMA KeepRange ==
    ASSUME NEW U, NEW S, NEW s \in Seq(U)
    PROVE  Range(Keep(s, S)) = Range(s) \cap S
  <1> DEFINE T == {t \in Seq(U) : Range(Keep(t, S)) = Range(t) \cap S}
  <1>1. <<>> \in T
    BY KeepEmpty DEF Range
  <1>2. ASSUME NEW t \in Seq(U), NEW x \in U, t \in T PROVE Append(t, x) \in T
    <2>1. Range(Append(t, x)) = Range(t) \cup {x}
      BY AppendLemma
    <2>2. CASE x \in S
      <3>1. Keep(Append(t, x), S) = Append(Keep(t, S), x) /\ Keep(t, S) \in Seq(U)
        BY <2>2, KeepAppend, KeepType
      <3>2. Range(Keep(Append(t, x), S)) = Range(Keep(t, S)) \cup {x}
        BY <3>1, AppendLemma
      <3>3. QED
        BY <1>2, <2>1, <2>2, <3>2
    <2>3. CASE x \notin S
      <3>1. Keep(Append(t, x), S) = Keep(t, S)
        BY <2>3, KeepAppend
      <3>2. QED
        BY <1>2, <2>1, <2>3, <3>1
    <2>4. QED
      BY <2>2, <2>3
  <1>3. \A t \in Seq(U) : t \in T
    <2> HIDE DEF T
    <2>1. QED
      BY <1>1, <1>2, SeqInduct, Zenon
  <1>4. QED
    BY <1>3

\* Removing the first element of a sequence removes the first one that is kept, if the
\* two are the same, and nothing otherwise.
LEMMA KeepTail ==
    ASSUME NEW U, NEW S, NEW s \in Seq(U), s # <<>>
    PROVE  /\ Head(s) \in S => /\ Keep(s, S) # <<>> /\ Head(Keep(s, S)) = Head(s)
                               /\ Keep(Tail(s), S) = Tail(Keep(s, S))
           /\ Head(s) \notin S => Keep(Tail(s), S) = Keep(s, S)
  <1> DEFINE P(t) == /\ Head(t) \in S => /\ Keep(t, S) # <<>> /\ Head(Keep(t, S)) = Head(t)
                                         /\ Keep(Tail(t), S) = Tail(Keep(t, S))
                     /\ Head(t) \notin S => Keep(Tail(t), S) = Keep(t, S)
             T == {t \in Seq(U) : t # <<>> => P(t)}
  <1>1. <<>> \in T
    BY EmptySeq
  <1>2. ASSUME NEW t \in Seq(U), NEW x \in U, t \in T PROVE Append(t, x) \in T
    <2> DEFINE a == Append(t, x)
    <2>0. /\ a \in Seq(U) /\ Keep(t, S) \in Seq(U)
          /\ Keep(a, S) = IF x \in S THEN Append(Keep(t, S), x) ELSE Keep(t, S)
      BY KeepAppend, KeepType
    <2>1. CASE t = <<>>
      <3>1. Head(a) = x /\ Tail(a) = <<>>
        BY <2>1
      <3>2. Keep(t, S) = <<>> /\ Keep(Tail(a), S) = <<>>
        BY <2>1, <3>1, KeepEmpty
      <3>3. Keep(a, S) = IF x \in S THEN <<x>> ELSE <<>>
        BY <2>0, <3>2
      <3>4. P(a)
        BY <3>1, <3>2, <3>3
      <3>5. QED
        BY <2>0, <3>4
    <2>2. CASE t # <<>>
      <3>1. /\ Head(a) = Head(t) /\ Tail(a) = Append(Tail(t), x)
            /\ Tail(t) \in Seq(U)
        BY <2>2
      <3>2. Keep(Tail(a), S) = IF x \in S THEN Append(Keep(Tail(t), S), x) ELSE Keep(Tail(t), S)
        <4> HIDE DEF a
        <4>1. \A q \in Seq(U) : Keep(Append(q, x), S)
                  = IF x \in S THEN Append(Keep(q, S), x) ELSE Keep(q, S)
          BY KeepAppend
        <4>2. QED
          BY <3>1, <4>1, Zenon
      <3>3. P(t)
        BY <1>2, <2>2
      <3>4. P(a)
        <4>1. CASE Head(t) \in S /\ x \in S
          <5>1. /\ Keep(t, S) # <<>> /\ Head(Append(Keep(t, S), x)) = Head(Keep(t, S))
                /\ Tail(Append(Keep(t, S), x)) = Append(Tail(Keep(t, S)), x)
                /\ Append(Keep(t, S), x) # <<>>
            BY <2>0, <3>3, <4>1
          <5>2. QED
            BY <2>0, <3>1, <3>2, <3>3, <4>1, <5>1
        <4>2. CASE ~(Head(t) \in S /\ x \in S)
          BY <2>0, <3>1, <3>2, <3>3, <4>2
        <4>3. QED
          BY <4>1, <4>2
      <3>5. QED
        BY <2>0, <3>4
    <2>3. QED
      BY <2>1, <2>2
  <1>3. \A t \in Seq(U) : t \in T
    <2> HIDE DEF T
    <2>1. QED
      BY <1>1, <1>2, SeqInduct, Zenon
  <1>4. QED
    BY <1>3

\* Keeping twice is keeping what is in both sets.
LEMMA KeepKeep ==
    ASSUME NEW U, NEW S, NEW R, NEW s \in Seq(U)
    PROVE  Keep(Keep(s, S), R) = Keep(s, S \cap R)
  <1> DEFINE T == {t \in Seq(U) : Keep(Keep(t, S), R) = Keep(t, S \cap R)}
  <1>1. <<>> \in T
    <2>1. Keep(<<>>, S) = <<>> /\ Keep(<<>>, R) = <<>> /\ Keep(<<>>, S \cap R) = <<>>
      BY KeepEmpty
    <2>2. QED
      BY <2>1, EmptySeq
  <1>2. ASSUME NEW t \in Seq(U), NEW x \in U, t \in T PROVE Append(t, x) \in T
    <2>1. Keep(t, S) \in Seq(U) /\ Append(t, x) \in Seq(U)
      BY KeepType
    <2>2. Keep(Append(t, x), S) = IF x \in S THEN Append(Keep(t, S), x) ELSE Keep(t, S)
      BY KeepAppend
    <2>3. Keep(Append(t, x), S \cap R)
              = IF x \in S \cap R THEN Append(Keep(t, S \cap R), x) ELSE Keep(t, S \cap R)
      BY KeepAppend
    <2>4. Keep(Append(Keep(t, S), x), R)
              = IF x \in R THEN Append(Keep(Keep(t, S), R), x) ELSE Keep(Keep(t, S), R)
      BY <2>1, KeepAppend
    <2>5. Keep(Keep(t, S), R) = Keep(t, S \cap R)
      BY <1>2
    <2>6. Keep(Keep(Append(t, x), S), R) = Keep(Append(t, x), S \cap R)
      <3>1. CASE x \in S
        <4>1. Keep(Append(t, x), S) = Append(Keep(t, S), x)
          BY <2>2, <3>1
        <4>2. x \in S \cap R <=> x \in R
          BY <3>1
        <4>3. QED
          BY <2>3, <2>4, <2>5, <4>1, <4>2, Zenon
      <3>2. CASE x \notin S
        <4>1. Keep(Append(t, x), S) = Keep(t, S) /\ x \notin S \cap R
          BY <2>2, <3>2
        <4>2. QED
          BY <2>3, <2>5, <4>1, Zenon
      <3>3. QED
        BY <3>1, <3>2
    <2>7. QED
      BY <2>1, <2>6
  <1>3. \A t \in Seq(U) : t \in T
    <2> HIDE DEF T
    <2>1. QED
      BY <1>1, <1>2, SeqInduct, Zenon
  <1>4. QED
    BY <1>3

\* What is kept depends only on which elements of the sequence are in the set.
LEMMA KeepAgree ==
    ASSUME NEW U, NEW S, NEW R, NEW s \in Seq(U), Range(s) \cap S = Range(s) \cap R
    PROVE  Keep(s, S) = Keep(s, R)
  <1> DEFINE T == {t \in Seq(U) : Range(t) \cap S = Range(t) \cap R => Keep(t, S) = Keep(t, R)}
  <1>1. <<>> \in T
    <2>1. Keep(<<>>, S) = <<>> /\ Keep(<<>>, R) = <<>>
      BY KeepEmpty
    <2>2. QED
      BY <2>1, EmptySeq
  <1>2. ASSUME NEW t \in Seq(U), NEW x \in U, t \in T PROVE Append(t, x) \in T
    <2> SUFFICES ASSUME Range(Append(t, x)) \cap S = Range(Append(t, x)) \cap R
                 PROVE  Keep(Append(t, x), S) = Keep(Append(t, x), R)
      BY AppendProperties
    <2>1. Range(Append(t, x)) = Range(t) \cup {x}
      BY AppendLemma
    <2>2. (x \in S <=> x \in R) /\ Range(t) \cap S = Range(t) \cap R
      BY <2>1
    <2>3. Keep(t, S) = Keep(t, R)
      BY <1>2, <2>2
    <2>4. /\ Keep(Append(t, x), S) = IF x \in S THEN Append(Keep(t, S), x) ELSE Keep(t, S)
          /\ Keep(Append(t, x), R) = IF x \in R THEN Append(Keep(t, R), x) ELSE Keep(t, R)
      BY KeepAppend
    <2>5. QED
      BY <2>2, <2>3, <2>4
  <1>3. \A t \in Seq(U) : t \in T
    <2> HIDE DEF T
    <2>1. QED
      BY <1>1, <1>2, SeqInduct, Zenon
  <1>4. QED
    BY <1>3

\* If no element is in the set nothing is kept.
LEMMA KeepNone ==
    ASSUME NEW U, NEW S, NEW s \in Seq(U), Range(s) \cap S = {}
    PROVE  Keep(s, S) = <<>>
  <1>1. Keep(s, S) \in Seq(U) /\ Range(Keep(s, S)) = {}
    BY KeepType, KeepRange
  <1>2. QED
    BY <1>1 DEF Range

\* Keep introduces no duplicates.
LEMMA KeepNoDuplicates ==
    ASSUME NEW U, NEW S, NEW s \in Seq(U), NoDuplicates(s)
    PROVE  NoDuplicates(Keep(s, S))
  <1> DEFINE T == {t \in Seq(U) : NoDuplicates(t) => NoDuplicates(Keep(t, S))}
  <1>1. <<>> \in T
    <2>1. Keep(<<>>, S) = <<>>
      BY KeepEmpty
    <2>2. QED
      BY <2>1, EmptySeq
  <1>2. ASSUME NEW t \in Seq(U), NEW x \in U, t \in T PROVE Append(t, x) \in T
    <2> SUFFICES ASSUME NoDuplicates(Append(t, x)) PROVE NoDuplicates(Keep(Append(t, x), S))
      BY AppendProperties
    <2>1. NoDuplicates(t) /\ x \notin Range(t)
      <3>1. /\ Len(t) \in Nat /\ DOMAIN t = 1 .. Len(t) /\ DOMAIN Append(t, x) = 1 .. Len(t) + 1
            /\ \A i \in 1 .. Len(t) : Append(t, x)[i] = t[i]
            /\ Append(t, x)[Len(t) + 1] = x
        OBVIOUS
      <3>2. QED
        BY <3>1 DEF NoDuplicates, Range
    <2>2. /\ Keep(t, S) \in Seq(U) /\ x \notin Range(Keep(t, S))
          /\ NoDuplicates(Keep(t, S))
      BY <1>2, <2>1, KeepType, KeepRange
    <2>3. CASE x \in S
      <3>1. Keep(Append(t, x), S) = Append(Keep(t, S), x)
        BY <2>3, KeepAppend
      <3>2. NoDuplicates(Append(Keep(t, S), x))
        BY <2>2, AppendLemma
      <3>3. QED
        BY <3>1, <3>2
    <2>4. CASE x \notin S
      <3>1. Keep(Append(t, x), S) = Keep(t, S)
        BY <2>4, KeepAppend
      <3>2. QED
        BY <2>2, <3>1
    <2>5. QED
      BY <2>3, <2>4
  <1>3. \A t \in Seq(U) : t \in T
    <2> HIDE DEF T
    <2>1. QED
      BY <1>1, <1>2, SeqInduct, Zenon
  <1>4. QED
    BY <1>3

\* If all elements are in the set all are kept.
LEMMA KeepAll ==
    ASSUME NEW U, NEW S, NEW s \in Seq(U), Range(s) \subseteq S
    PROVE  Keep(s, S) = s
  <1> DEFINE T == {t \in Seq(U) : Range(t) \subseteq S => Keep(t, S) = t}
  <1>1. <<>> \in T
    <2>1. Keep(<<>>, S) = <<>>
      BY KeepEmpty
    <2>2. QED
      BY <2>1, EmptySeq
  <1>2. ASSUME NEW t \in Seq(U), NEW x \in U, t \in T PROVE Append(t, x) \in T
    <2> SUFFICES ASSUME Range(Append(t, x)) \subseteq S PROVE Keep(Append(t, x), S) = Append(t, x)
      BY AppendProperties
    <2>1. Range(t) \subseteq S /\ x \in S
      BY AppendLemma
    <2>2. Keep(t, S) = t
      BY <1>2, <2>1
    <2>3. Keep(Append(t, x), S) = IF x \in S THEN Append(Keep(t, S), x) ELSE Keep(t, S)
      BY KeepAppend
    <2>4. QED
      BY <2>1, <2>2, <2>3
  <1>3. \A t \in Seq(U) : t \in T
    <2> HIDE DEF T
    <2>1. QED
      BY <1>1, <1>2, SeqInduct, Zenon
  <1>4. QED
    BY <1>3

\* What is kept of a concatenation.
LEMMA KeepConcat ==
    ASSUME NEW U, NEW S, NEW s \in Seq(U), NEW t \in Seq(U)
    PROVE  Keep(s \o t, S) = Keep(s, S) \o Keep(t, S)
  <1> DEFINE T == {r \in Seq(U) : Keep(s \o r, S) = Keep(s, S) \o Keep(r, S)}
  <1>0. Keep(s, S) \in Seq(U)
    BY KeepType
  <1>1. <<>> \in T
    <2>1. Keep(<<>>, S) = <<>> /\ s \o <<>> = s /\ <<>> \in Seq(U)
      BY KeepEmpty
    <2>2. Keep(s, S) \o <<>> = Keep(s, S)
      BY <1>0
    <2>3. QED
      BY <2>1, <2>2, Zenon
  <1>2. ASSUME NEW r \in Seq(U), NEW x \in U, r \in T PROVE Append(r, x) \in T
    <2>1. /\ s \o Append(r, x) = Append(s \o r, x) /\ s \o r \in Seq(U) /\ Append(r, x) \in Seq(U)
      BY ConcatAppend
    <2>2. Keep(Append(s \o r, x), S)
              = IF x \in S THEN Append(Keep(s \o r, S), x) ELSE Keep(s \o r, S)
      <3>1. \A q \in Seq(U) : Keep(Append(q, x), S)
                = IF x \in S THEN Append(Keep(q, S), x) ELSE Keep(q, S)
        BY KeepAppend
      <3>2. QED
        BY <2>1, <3>1, Zenon
    <2>3. Keep(Append(r, x), S) = IF x \in S THEN Append(Keep(r, S), x) ELSE Keep(r, S)
      BY KeepAppend
    <2>4. Keep(r, S) \in Seq(U)
      BY KeepType
    <2>5. Keep(s, S) \o Append(Keep(r, S), x) = Append(Keep(s, S) \o Keep(r, S), x)
      BY <1>0, <2>4, ConcatAppend
    <2>6. Keep(s \o r, S) = Keep(s, S) \o Keep(r, S)
      BY <1>2
    <2>7. Keep(s \o Append(r, x), S) = Keep(s, S) \o Keep(Append(r, x), S)
      BY <2>1, <2>2, <2>3, <2>5, <2>6, Zenon
    <2>8. QED
      BY <2>1, <2>7
  <1>3. \A r \in Seq(U) : r \in T
    <2> HIDE DEF T
    <2>1. QED
      BY <1>1, <1>2, SeqInduct, Zenon
  <1>4. QED
    BY <1>3
=============================================================================
