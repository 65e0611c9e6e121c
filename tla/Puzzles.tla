------------------------------ MODULE Puzzles ------------------------------
(***************************************************************************)
(* Four exercises of the directory test, each as an operator named after   *)
(* its C++ function.  A vector is a function on 0 .. n - 1; printing is    *)
(* left out.                                                               *)
(***************************************************************************)
EXTENDS Integers, Sequences, FiniteSets, SequencesExt, FiniteSetsExt

CONSTANT IntWidth   \* width of an int (32 in the build)

Size(v) == Cardinality(DOMAIN v)

\* C++ division and remainder truncate; int arithmetic that overflows wraps in
\* the build (it is undefined in the language).
Quo(a, b) == IF a >= 0 THEN a \div b ELSE -((-a) \div b)
Rem(a, b) == a - b * Quo(a, b)
Wrap(v) == ((v + 2^(IntWidth - 1)) % 2^IntWidth) - 2^(IntWidth - 1)

-----------------------------------------------------------------------------
RECURSIVE Reverted(_, _)
Reverted(num, res) ==
    IF num = 0 THEN res ELSE Reverted(Quo(num, 10), Wrap(Wrap(res * 10) + Rem(num, 10)))
revertnum(num) == Reverted(num, 0)

\* How many letters str[digit - '1'] has; a letter is its position in it.
Letters(digit) == CASE digit = 1 -> 0 [] digit \in {7, 9} -> 4 [] OTHER -> 3

\* The loops over n and m from i on: which n with which m.  The second is bounded by
\* the letters of digit i, not n.
Tries(des, i) ==
    IF i > Len(des) THEN <<>>
    ELSE [k \in 1 .. (Len(des) - i + 1) * Letters(des[i]) |->
             [n |-> i + (k - 1) \div Letters(des[i]), m |-> (k - 1) % Letters(des[i])]]

\* des[n][m] with m one past the last letter is '\0'; any m behind it is outside the
\* string, and what is read there is undefined.
PastEnd(des, t) == t.m > Letters(des[t.n])

\* Mutant: shorter strings are results too.
RECURSIVE coreAny(_, _, _)
coreAny(des, i, s) ==
    LET tries == Tries(des, i)
        calls == [k \in DOMAIN tries |-> coreAny(des, tries[k].n + 1, Append(s, tries[k].m))]
    IN [res |-> Append(FlattenSeq([k \in DOMAIN calls |-> calls[k].res]), s),
        past |-> \E k \in DOMAIN tries : PastEnd(des, tries[k]) \/ calls[k].past]

\* What core pushes into res, and whether it read outside a string.
RECURSIVE core(_, _, _)
core(des, i, s) ==
    LET tries == Tries(des, i)
        calls == [k \in DOMAIN tries |-> core(des, tries[k].n + 1, Append(s, tries[k].m))]
        found == FlattenSeq([k \in DOMAIN calls |-> calls[k].res])
    IN [res |-> IF Len(s) >= Len(des) THEN Append(found, s) ELSE found,
        past |-> \E k \in DOMAIN tries : PastEnd(des, tries[k]) \/ calls[k].past]
letterCombinations(digits) == core(digits, 1, <<>>)

jump(nums) ==
    LET Step(st, i) ==
            LET far == Max({st.maxpos, i + nums[i]})
            IN IF i = st.end THEN [res |-> st.res + 1, end |-> far, maxpos |-> far]
               ELSE [st EXCEPT !.maxpos = far]
    IN FoldLeft(Step, [res |-> 0, end |-> 0, maxpos |-> 0],
                [k \in 1 .. Size(nums) - 1 |-> k - 1]).res

\* The while loop; p is the contents of the priority queue, whose top is any pair
\* of positions with the least sum.
RECURSIVE Popped(_, _, _, _)
Popped(nums1, nums2, k, p) ==
    IF k = 0 \/ p = {} THEN <<>>
    ELSE LET Sum(q) == nums1[q[1]] + nums2[q[2]]
             item == CHOOSE q \in p : \A r \in p : Sum(q) <= Sum(r)
             next == IF item[2] + 1 < Size(nums2) THEN {<<item[1], item[2] + 1>>} ELSE {}
         IN <<item>> \o Popped(nums1, nums2, k - 1, (p \ {item}) \cup next)
KSmallestPairs(nums1, nums2, k) ==
    Popped(nums1, nums2, k, {<<i, 0>> : i \in 0 .. Min({k, Size(nums1)}) - 1})

-----------------------------------------------------------------------------
(* The reference definitions. *)

\* o is num with its decimal digits in the opposite order and its sign.
Digit(num, i) == Rem(Quo(num, 10^i), 10)
IsReverse(o, num) ==
    LET n == CHOOSE n \in 0 .. IntWidth : Quo(num, 10^n) = 0 /\ \A i \in 0 .. n - 1 : Quo(num, 10^i) # 0
        value == FoldLeft(LAMBDA s, i : s + Digit(num, i - 1) * 10^(n - i), 0, [i \in 1 .. n |-> i])
    IN value = Wrap(value) => o = value

\* The strings with one letter per digit, each once and in lexical order.  A string is
\* read past its end when a 1, whose string is empty, stands behind a first digit that
\* has letters, and only then; what is read there gets into none of the results.
AreCombinations(o, digits) ==
    LET Less(a, b) == \E i \in DOMAIN a : a[i] < b[i] /\ \A j \in 1 .. i - 1 : a[j] = b[j]
    IN /\ Range(o.res) = {s \in [DOMAIN digits -> 0 .. 3] :
                             \A i \in DOMAIN digits : s[i] < Letters(digits[i])}
       /\ \A k \in 1 .. Len(o.res) - 1 : Less(o.res[k], o.res[k + 1])
       /\ o.past <=> \E i \in 2 .. Len(digits) : digits[i] = 1 /\ digits[1] # 1

\* After[n]: the positions that n jumps can lead to.
IsFewestJumps(o, nums) ==
    LET last == Size(nums) - 1
        After[n \in 0 .. last] ==
            IF n = 0 THEN {0}
            ELSE UNION {{j \in i + 1 .. i + nums[i] : j <= last} : i \in After[n - 1]}
    IN (\E n \in 0 .. last : last \in After[n]) =>
           /\ o \in 0 .. last /\ last \in After[o]
           /\ \A n \in 0 .. o - 1 : last \notin After[n]

\* k different pairs (all if there are fewer), in ascending order of their sums,
\* and none that is left out has a smaller sum.
AreSmallestPairs(o, nums1, nums2, k) ==
    LET Sum(q) == nums1[q[1]] + nums2[q[2]]
        all == (DOMAIN nums1) \X (DOMAIN nums2)
    IN /\ Range(o) \subseteq all /\ IsInjective(o)
       /\ Len(o) = Min({k, Cardinality(all)})
       /\ \A i \in 1 .. Len(o) - 1 : Sum(o[i]) <= Sum(o[i + 1])
       /\ o # <<>> => \A q \in all \ Range(o) : Sum(q) >= Sum(Last(o))

=============================================================================
