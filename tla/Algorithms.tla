----------------------------- MODULE Algorithms -----------------------------
(***************************************************************************)
(* The programs of sort_algo and test and the message codec, run on every  *)
(* input up to a bound and compared with what they ought to compute.       *)
(* Every program with every input is one initial state; the one step of    *)
(* a behaviour runs it.                                                    *)
(***************************************************************************)
EXTENDS Sorting, Puzzles, Messages

CONSTANTS MaxLen,     \* bound: the longest array, list of digits or wire
          Elements,   \* the values of array elements
          Ints,       \* the values of int32 fields
          Contents,   \* the contents of bytes and string fields
          Tokens      \* what the wire may hold

ASSUME AlgorithmsAssumption == MaxLen \in Nat /\ Elements \subseteq Nat

VARIABLES program, input, output, done

vars == <<program, input, output, done>>

Sorts == {"bubble", "choose", "insert", "heap", "merge", "quick"}

Arrays(n) == [0 .. n - 1 -> Elements]
Ascending(n) == {v \in Arrays(n) : \A i \in 0 .. n - 2 : v[i] <= v[i + 1]}
SmallWires == UNION {[1 .. n -> Tokens] : n \in 0 .. 1}
Wires == UNION {[1 .. n -> Tokens] : n \in 0 .. MaxLen - 1}

\* The messages a program can build or read.
Kinds(kind) == CASE kind = "int32" -> Ints [] kind = "bool" -> {0, 1}
                 [] kind \in {"bytes", "string"} -> Contents
                 [] kind = "message" -> {<<>>} \cup {<<ParseFromArray(ResultCode, w).msg>> : w \in SmallWires}
MessagesOf(type) ==
    {[field |-> <<x, y>>, unknown |-> u] :
        x \in Kinds(type[1]), y \in Kinds(type[2]),
        u \in {ParseFromArray(type, w).msg.unknown : w \in SmallWires}}

Init ==
    /\ done = FALSE
    /\ output = <<>>
    /\ \/ /\ program \in Sorts
          /\ \E n \in 1 .. MaxLen : \E lo \in 0 .. n - 1 : \E hi \in lo .. n - 1 :
                 input \in [vec : Arrays(n), start : {lo}, end : {hi}]
       \/ program = "revertnum" /\ input \in -(2^(IntWidth - 1)) .. 2^(IntWidth - 1) - 1
       \/ program = "letterCombinations" /\ \E n \in 0 .. 3 : input \in [1 .. n -> {1, 2, 6, 7, 9}]
       \/ program = "jump" /\ \E n \in 1 .. MaxLen + 1 : input \in Arrays(n)
       \/ /\ program = "KSmallestPairs"
          /\ \E n \in 0 .. 3, m \in 1 .. 3 :
                 input \in [nums1 : Ascending(n), nums2 : Ascending(m), k : 0 .. n * m + 1]
       \/ program = "parse" /\ input \in [type : Types, wire : Wires]
       \/ /\ program = "merge messages"
          /\ \E t \in Types : input \in [type : {t}, to : MessagesOf(t), from : MessagesOf(t)]

Result ==
    CASE program = "bubble" -> BubbleSort(input.vec, input.start, input.end)
      [] program = "choose" -> ChooseSort(input.vec, input.start, input.end)
      [] program = "insert" -> InsertSort(input.vec, input.start, input.end)
      [] program = "heap"   -> HeapSort(input.vec, input.start, input.end)
      [] program = "merge"  -> MergeSort(input.vec, input.start, input.end)
      [] program = "quick"  -> QuickSort(input.vec, input.start, input.end)
      [] program = "revertnum" -> revertnum(input)
      [] program = "letterCombinations" -> letterCombinations(input)
      [] program = "jump" -> jump(input)
      [] program = "KSmallestPairs" -> KSmallestPairs(input.nums1, input.nums2, input.k)
      [] program = "parse" -> ParseFromArray(input.type, input.wire)
      [] program = "merge messages" -> MergeFrom(input.type, input.to, input.from)

Run ==
    /\ ~done
    /\ output' = Result
    /\ done' = TRUE
    /\ UNCHANGED <<program, input>>

Spec == Init /\ [][Run]_vars

-----------------------------------------------------------------------------
(* Properties. *)

\* Called for the range 0 .. end, as all their callers do, the six sorting programs
\* sort it, duplicates and single elements included, and leave the rest alone;
\* MergeSort and QuickSort also honour a range that does not begin at 0, which
\* their own recursive calls rely on.
Sorted ==
    done /\ program \in Sorts /\ (input.start = 0 \/ program \in {"merge", "quick"})
        => IsSortOf(output, input.vec, input.start, input.end)

\* Each exercise meets its reference: the digits are reversed whenever the result
\* fits into an int; the combinations are complete although the inner loop of core is
\* bounded by another digit's letters, which makes it read past the end of a string if
\* a 1 comes behind a first digit other than 1, as in "21", and for no other digits;
\* the jumps are the fewest wherever the end can be reached at all; and the pairs are
\* the k smallest ones.
PuzzlesSolved ==
    done => CASE program = "revertnum" -> IsReverse(output, input)
              [] program = "letterCombinations" -> AreCombinations(output, input)
              [] program = "jump" -> IsFewestJumps(output, input)
              [] program = "KSmallestPairs" ->
                     AreSmallestPairs(output, input.nums1, input.nums2, input.k)
              [] OTHER -> TRUE

\* Whatever was read from the wire is written and read again unchanged, unknown
\* fields, wrong wire types, repeated and too wide fields included; ByteSizeLong
\* announces exactly the bytes that are written; and a program that reads the bytes of
\* a message without unknown fields as another type and writes them again loses
\* nothing, as long as neither type has a submessage or a bool (an empty submessage
\* read as bytes would be dropped).  With unknown fields it may: a varint 2^32 that the
\* other type knows as an int32 is cut to 0 there, and not written.
RereadsWhatItWrites ==
    done /\ program = "parse" /\ output.ok =>
        LET wire == Serialize(input.type, output.msg)
            Via(other) == ParseFromArray(other, wire)
        IN /\ ParseFromArray(input.type, wire) = output
           /\ SizeOf(wire) = ByteSizeLong(input.type, output.msg)
           /\ input.type # LoginResponse /\ output.msg.unknown = <<>> =>
                  \A other \in Types \ {LoginResponse} : Via(other).ok =>
                      ParseFromArray(input.type, Serialize(other, Via(other).msg)) = output

\* Reading the bytes of two messages in a row is merging them, and copying is
\* merging into an empty message.  (For bytes that spell out a default value the
\* first is not true: the parser stores the 0, MergeFrom skips it.)
ConcatenationMerges ==
    done /\ program = "merge messages" =>
        LET wire == Serialize(input.type, input.to) \o Serialize(input.type, input.from)
            read == ParseFromArray(input.type, wire)
        IN /\ read.ok => read.msg = output
           /\ CopyFrom(input.type, input.from) = input.from

=============================================================================
