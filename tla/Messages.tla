------------------------------ MODULE Messages ------------------------------
(***************************************************************************)
(* The five protobuf messages of socket/epoll/echo.pb.{h,cc}.  A message   *)
(* type is the sequence of the kinds of its fields, numbered from 1; a     *)
(* message holds the value of each field and the unknown fields it has     *)
(* read.  Bytes on the wire are a sequence of tokens: a tag with what      *)
(* follows it (number, wire type, value), or a byte that no tag can begin  *)
(* with.  The contents of a length-delimited token are again tokens, so    *)
(* that the same bytes can be read as text or as a message.  int32 fields  *)
(* and the varints of the wire keep their widths, as parameters.  Groups   *)
(* and fixed-width wire types, which no message here uses, are left out,   *)
(* except for the tag that ends a group.                                   *)
(***************************************************************************)
EXTENDS Integers, Sequences, SequencesExt

CONSTANTS IntBits,    \* width of an int32 field (32 in the build)
          LongBits,   \* width of a varint on the wire (64)
          GroupBits   \* payload bits of a byte of a varint (7)

ASSUME WidthAssumption == /\ {IntBits, LongBits, GroupBits} \subseteq Nat \ {0, 1}
                          /\ IntBits < LongBits

Varint == 0
Delimited == 2
EndGroup == 4
Field(n, w, v) == [num |-> n, wt |-> w, body |-> v]
Byte(b) == Field(0, 7, b)

\* protoc writes Clear, _InternalParse, _InternalSerialize and ByteSizeLong out for
\* each message, by one pattern: a table here, read by the operators of the same
\* names below, stands for these four functions of its message.
Client        == <<"string", "int32">>
Server        == <<"int32", "int32">>
ResultCode    == <<"int32", "bytes">>
LoginRequest  == <<"bytes", "bytes">>
LoginResponse == <<"message", "bool">>
Types == {Client, Server, ResultCode, LoginRequest, LoginResponse}

\* A submessage is a pointer: <<>> for nullptr, <<m>> for an object.
DefaultOf(kind) == IF kind \in {"int32", "bool"} THEN 0 ELSE <<>>
WireType(kind) == IF kind \in {"int32", "bool"} THEN Varint ELSE Delimited

Clear(type) == [field |-> [i \in DOMAIN type |-> DefaultOf(type[i])], unknown |-> <<>>]
Set(m, i, v) == [m EXCEPT !.field[i] = v]

-----------------------------------------------------------------------------
(* Encoding.  Fields with their default value are not written, a submessage *)
(* that exists is, even when it is empty.                                   *)

ToWire(v) == v % 2^LongBits                         \* sign extension
ToInt32(v) == LET u == v % 2^IntBits                \* truncation
              IN IF u < 2^(IntBits - 1) THEN u ELSE u - 2^IntBits

WriteField(kind, i, v) ==
    IF v = DefaultOf(kind) THEN <<>>
    ELSE <<Field(i, WireType(kind), IF WireType(kind) = Varint THEN ToWire(v) ELSE v)>>

SerializeLeaf(type, m) ==
    WriteField(type[1], 1, m.field[1]) \o WriteField(type[2], 2, m.field[2]) \o m.unknown

\* Mutant: unknown fields are forgotten.
SerializeKnown(type, m) ==
    LET sub == m.field[1]
        first == IF type[1] = "message" /\ sub # <<>>
                 THEN <<Field(1, Delimited, SerializeLeaf(ResultCode, sub[1]))>>
                 ELSE WriteField(type[1], 1, sub)
    IN first \o WriteField(type[2], 2, m.field[2])

Serialize(type, m) ==
    LET sub == m.field[1]
        first == IF type[1] = "message" /\ sub # <<>>
                 THEN <<Field(1, Delimited, SerializeLeaf(ResultCode, sub[1]))>>
                 ELSE WriteField(type[1], 1, sub)
    IN first \o WriteField(type[2], 2, m.field[2]) \o m.unknown

\* Bytes of a varint; of tokens on the wire, their contents included.
VarintSize(v) == CHOOSE n \in 1 .. LongBits :
                     v < 2^(GroupBits * n) /\ \A k \in 1 .. n - 1 : v >= 2^(GroupBits * k)
FlatSize(t) == CASE t.wt = Varint -> 1 + VarintSize(t.body) [] t.wt \in {EndGroup, 7} -> 1
                 [] OTHER -> 1 + VarintSize(Len(t.body)) + Len(t.body)
SizeOf(tokens) ==
    LET Flat(s) == FoldLeft(LAMBDA n, t : n + FlatSize(t), 0, s)
        Deep(s) == FoldLeft(LAMBDA n, t : n + IF t.wt = Delimited
                        THEN 1 + VarintSize(Flat(t.body)) + Flat(t.body) ELSE FlatSize(t), 0, s)
    IN FoldLeft(LAMBDA n, t : n + IF t.wt = Delimited
                        THEN 1 + VarintSize(Deep(t.body)) + Deep(t.body) ELSE FlatSize(t), 0, tokens)

\* What ByteSizeLong counts, by its own formulas: an int32 below zero takes the
\* longest varint.
FieldSize(kind, v) ==
    CASE v = DefaultOf(kind) -> 0
      [] kind = "bool" -> 1 + 1
      [] kind = "int32" -> 1 + IF v < 0 THEN (LongBits + GroupBits - 1) \div GroupBits
                               ELSE VarintSize(v)
      [] OTHER -> 1 + VarintSize(SizeOf(v)) + SizeOf(v)

ByteSizeLong(type, m) ==
    LET sub == m.field[1]
        inner == FieldSize("int32", sub[1].field[1]) + FieldSize("bytes", sub[1].field[2])
                 + SizeOf(sub[1].unknown)
        first == IF type[1] = "message" /\ sub # <<>> THEN 1 + VarintSize(inner) + inner
                 ELSE FieldSize(type[1], sub)
    IN first + FieldSize(type[2], m.field[2]) + SizeOf(m.unknown)

-----------------------------------------------------------------------------
(* Decoding.  st holds the message read so far, whether the parser has     *)
(* stopped, and its verdict; what was read before it stopped stays.        *)

\* Only bytes below 128; of what a varint holds, one group.
Ascii(t) == t.body < 2^GroupBits
Utf8(tokens) == \A t \in Range(tokens) :
                    IF t.wt = Delimited THEN \A u \in Range(t.body) : u.wt # Delimited /\ Ascii(u)
                    ELSE Ascii(t)

Stop(st, ok) == [st EXCEPT !.done = ~ok, !.ok = ok]
Store(st, i, v) == [st EXCEPT !.msg.field[i] = v]

\* The cases of the switch in _InternalParse; sub is what the contents of t give
\* when they are read into the submessage.
StoreField(kind, st, t, sub) ==
    CASE kind = "int32"   -> Store(st, t.num, ToInt32(t.body))
      [] kind = "bool"    -> Store(st, t.num, IF t.body = 0 THEN 0 ELSE 1)
      [] kind = "bytes"   -> Store(st, t.num, t.body)
      [] kind = "string"  -> Stop(Store(st, t.num, t.body), Utf8(t.body))
      [] kind = "message" -> Stop(Store(st, t.num, <<sub.msg>>), sub.ok)

\* Its default: what is not a field of this type ends the message or is kept.
ParseToken(type, st, t, sub) ==
    LET known == t.num \in DOMAIN type /\ t.wt = WireType(type[t.num])
    IN CASE st.done -> st
         [] ~st.done /\ known -> StoreField(type[t.num], st, t, sub)
         [] ~st.done /\ ~known /\ t.wt \in {EndGroup, 7} -> Stop(st, FALSE)
         [] OTHER -> [st EXCEPT !.msg.unknown = Append(@, t)]

Parser(m) == [msg |-> m, done |-> FALSE, ok |-> TRUE]
MergeLeaf(type, m, tokens) ==
    FoldLeft(LAMBDA st, t : ParseToken(type, st, t, st), Parser(m), tokens)

\* ParseFromArray clears the message and reads tokens into it; a submessage that
\* occurs again is merged into the one that is there.
ParseFromArray(type, tokens) ==
    LET Into(st) == IF st.msg.field[1] = <<>> THEN Clear(ResultCode) ELSE st.msg.field[1][1]
    IN FoldLeft(LAMBDA st, t : ParseToken(type, st, t, MergeLeaf(ResultCode, Into(st), t.body)),
                Parser(Clear(type)), tokens)

-----------------------------------------------------------------------------
(* Merging and copying. *)

MergeLeaves(type, to, from) ==
    [field |-> [i \in DOMAIN type |-> IF from.field[i] # DefaultOf(type[i]) THEN from.field[i]
                                      ELSE to.field[i]],
     unknown |-> to.unknown \o from.unknown]

\* Mutant: the submessage is replaced.
MergeReplacing(type, to, from) == MergeLeaves(type, to, from)

MergeFrom(type, to, from) ==
    LET m == MergeLeaves(type, to, from)
    IN IF type[1] = "message" /\ to.field[1] # <<>> /\ from.field[1] # <<>>
       THEN Set(m, 1, <<MergeLeaves(ResultCode, to.field[1][1], from.field[1][1])>>)
       ELSE m

CopyFrom(type, from) == MergeFrom(type, Clear(type), from)

=============================================================================
