------------------------------ MODULE Sorting ------------------------------
(***************************************************************************)
(* The six sorting programs of sort_algo.  An int array is a function on   *)
(* 0 .. n - 1; each operator returns the array that the C++ function of    *)
(* the same name leaves behind.  A for loop is a fold over the values its  *)
(* counter takes, a while loop or a recursive call is a recursive operator *)
(* (so nothing is proved about this module; TLC evaluates it).             *)
(***************************************************************************)
EXTENDS Integers, Sequences, FiniteSets, SequencesExt

Up(a, b)   == [k \in 1 .. b - a + 1 |-> a + k - 1]
Down(a, b) == [k \in 1 .. a - b + 1 |-> a - k + 1]
swap(v, i, j) == [v EXCEPT ![i] = v[j], ![j] = v[i]]

-----------------------------------------------------------------------------
\* bubble_sort.cc:6-14.
BubbleSort(vec, start, end) ==
    FoldLeft(LAMBDA v, i :
                 FoldLeft(LAMBDA w, j : IF w[i] > w[j] THEN swap(w, i, j) ELSE w,
                          v, Up(i, end)),
             vec, Up(0, end))

\* choose_sort.cc:6-16.
ChooseSort(vec, start, end) ==
    FoldLeft(LAMBDA v, i :
                 swap(v, i, FoldLeft(LAMBDA tmp, j : IF v[tmp] > v[j] THEN j ELSE tmp,
                                     i, Up(i, end))),
             vec, Up(0, end))

\* insert_sort.cc:6-14; the inner loop does not stop where the element belongs.
InsertSort(vec, start, end) ==
    FoldLeft(LAMBDA v, i :
                 FoldLeft(LAMBDA w, j : IF w[j + 1] <= w[j] THEN swap(w, j + 1, j) ELSE w,
                          v, Down(i - 1, 0)),
             vec, Up(0, end))

\* heap_sort.cc:5-19: let the element at head sink.  Equal elements are swapped.
RECURSIVE Heap(_, _, _)
Heap(vec, head, end) ==
    LET left == head * 2 + 1
        son == IF left + 1 <= end /\ vec[left] < vec[left + 1] THEN left + 1 ELSE left
    IN IF left > end \/ vec[son] < vec[head] THEN vec
       ELSE Heap(swap(vec, head, son), son, end)

\* Mutant: the heap is not mended over the last element.
HeapSortShort(vec, start, end) ==
    LET n == end - start + 1
        built == FoldLeft(LAMBDA v, i : Heap(v, i, end), vec, Down(n \div 2 - 1, 0))
    IN FoldLeft(LAMBDA v, i : Heap(swap(v, 0, i), 0, i - 2), built, Down(n - 1, 0))

\* heap_sort.cc:21-30.
HeapSort(vec, start, end) ==
    LET n == end - start + 1
        built == FoldLeft(LAMBDA v, i : Heap(v, i, end), vec, Down(n \div 2 - 1, 0))
    IN FoldLeft(LAMBDA v, i : Heap(swap(v, 0, i), 0, i - 1), built, Down(n - 1, 0))

\* merge_sort.cc:8-13: merge vec[i .. mid] and vec[j .. end].
RECURSIVE Merged(_, _, _, _, _)
Merged(vec, i, mid, j, end) ==
    IF i <= mid /\ (j > end \/ ~(vec[i] > vec[j]))
    THEN <<vec[i]>> \o Merged(vec, i + 1, mid, j, end)
    ELSE IF j <= end THEN <<vec[j]>> \o Merged(vec, i, mid, j + 1, end)
    ELSE <<>>

\* merge_sort.cc:5-18.
Merge(vec, start, mid, end) ==
    LET arr == Merged(vec, start, mid, mid + 1, end)
    IN [n \in DOMAIN vec |-> IF n \in start .. end THEN arr[n - start + 1] ELSE vec[n]]

\* merge_sort.cc:20-26.
RECURSIVE MergeSort(_, _, _)
MergeSort(vec, start, end) ==
    IF start >= end THEN vec
    ELSE LET mid == (start + end) \div 2
         IN Merge(MergeSort(MergeSort(vec, start, mid), mid + 1, end), start, mid, end)

\* quick_sort.cc:9 and 11: where the inner loops stop.
RECURSIVE FromRight(_, _, _, _)
FromRight(vec, tmp, start, end) ==
    IF start < end /\ tmp <= vec[end] THEN FromRight(vec, tmp, start, end - 1) ELSE end

RECURSIVE FromLeft(_, _, _, _)
FromLeft(vec, tmp, start, end) ==
    IF start < end /\ tmp >= vec[start] THEN FromLeft(vec, tmp, start + 1, end) ELSE start

\* quick_sort.cc:8-15: the array and the place of the pivot.
RECURSIVE Partition(_, _, _, _)
Partition(vec, tmp, start, end) ==
    IF start < end
    THEN LET e == FromRight(vec, tmp, start, end)
             v == [vec EXCEPT ![start] = vec[e]]
             s == FromLeft(v, tmp, start, e)
         IN Partition([v EXCEPT ![e] = v[s]], tmp, s, e)
    ELSE [vec |-> [vec EXCEPT ![start] = tmp], idx |-> start]

\* quick_sort.cc:6-16.
ParititionSort(vec, start, end) == Partition(vec, vec[start], start, end)

\* quick_sort.cc:18-24.
RECURSIVE QuickSort(_, _, _)
QuickSort(vec, start, end) ==
    IF start < end
    THEN LET p == ParititionSort(vec, start, end)
         IN QuickSort(QuickSort(p.vec, start, p.idx - 1), p.idx + 1, end)
    ELSE vec

-----------------------------------------------------------------------------
\* The reference: o is v with the elements of lo .. hi in ascending order and
\* everything else in its place.
Occurrences(v, lo, hi, x) == Cardinality({i \in lo .. hi : v[i] = x})
IsSortOf(o, v, lo, hi) ==
    /\ DOMAIN o = DOMAIN v
    /\ \A i \in lo .. hi - 1 : o[i] <= o[i + 1]
    /\ \A x \in Range(v) \cup Range(o) : Occurrences(o, lo, hi, x) = Occurrences(v, lo, hi, x)
    /\ \A i \in DOMAIN v \ (lo .. hi) : o[i] = v[i]

=============================================================================
