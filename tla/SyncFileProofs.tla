--------------------------- MODULE SyncFileProofs ---------------------------
(***************************************************************************)
(* Proofs about SyncFile, for any clients, files, names and sizes: which   *)
(* connection a queued transfer has, that the pieces of a transfer arrive  *)
(* at a client that expects them, and that a client which has the server   *)
(* to itself gets the files it asked for.                                  *)
(***************************************************************************)
EXTENDS SyncFile, SequenceFacts, FiniteSetTheorems

-----------------------------------------------------------------------------
(* The invariant that holds whatever is killed. *)

Bytes == (File \cup {NoFile}) \X Nat
ClientRecord == [pc : {"new", "name", "namebody", "infolen", "info", "chunk", "chunkbody",
                       "lost"} \cup Ended,
                 arg : Nat, len : Nat, left : Nat, copy : Seq(Bytes), got : Seq(Seq(Bytes))]
LoopRecord == [pc : {"wait", "len", "body", "dispatch", "delete"}, fd : Fd \cup {0},
               recv : Nat, cmd : File \cup {NoFile}, len : Nat]
FrameRecord == [fd : Fd \cup {0}, pc : {"open", "infolen", "info", "chunk", "chunkbody"},
                file : File \cup {NoFile}, pos : Nat, left : Nat]
Request == [kind : {"len"}, data : Nat \ {0}] \cup [kind : {"name"}, data : File]
Reply == [kind : {"len", "info"}, data : Nat] \cup [kind : {"chunk"}, data : Seq(Bytes)]

ClientType ==
    /\ client \in [Client -> ClientRecord]
    /\ \A c \in Client : /\ client[c].pc = "chunkbody" => client[c].left > 0
                         /\ client[c].arg > 0
                         /\ client[c].pc = "namebody" => client[c].arg <= Len(Argv[c])

NetType ==
    /\ up \in [Client -> Seq(Request)] /\ down \in [Client -> Seq(Reply)]
    /\ backlog \in Seq(Client) /\ conn \in [Fd -> Client \cup {NoClient}]
    /\ ready \in Seq(Fd \cup {serv_sock})

PoolType ==
    /\ queue \in Seq(Task)
    /\ task \in Seq(FrameRecord)
    /\ Range(queue) \cup running \cup finished \cup withdrawn \subseteq DOMAIN task
    /\ \A t \in running : task[t].pc = "chunkbody" => task[t].left > 0

TypeInv == ClientType /\ NetType /\ PoolType /\ loop \in LoopRecord
           /\ overlapped \subseteq Client /\ alive \in BOOLEAN

(* Who is where: a client that was started waits for accept, or has one descriptor,
   which it keeps until its end was read; the ready list holds what its name says. *)
Links ==
    /\ NoDuplicates(backlog) /\ NoDuplicates(ready)
    /\ \A c \in Range(backlog) : client[c].pc # "new" /\ c \notin Range(conn)
    /\ \A c \in Range(conn) \ {NoClient} : client[c].pc # "new"
    /\ \A a, b \in Fd : conn[a] = conn[b] /\ conn[a] # NoClient => a = b
    /\ serv_sock \in Range(ready) <=> backlog # <<>>
    /\ \A fd \in Range(ready) \ {serv_sock} : conn[fd] # NoClient
    /\ loop.pc \in {"len", "body", "dispatch"} => loop.fd \in Fd /\ conn[loop.fd] # NoClient
    /\ loop.pc = "delete" => loop.fd \in Fd /\ conn[loop.fd] = NoClient

(* A task is in one place; a queued one has not begun and has a connection, until the
   connection is closed and the task is withdrawn. *)
Places ==
    /\ NoDuplicates(queue) /\ Range(queue) \cap running = {}
    /\ \A t \in Range(queue) \cup running : task[t].fd \in Fd
    /\ \A t \in Range(queue) : /\ task[t] = Frame(task[t].fd)
                               /\ conn[task[t].fd] = NoClient
                                      => loop.pc = "delete" /\ loop.fd = task[t].fd

(* Where the loop is with a request of client c. *)
Stage(c) == IF loop.pc \in {"len", "body", "dispatch"} /\ conn[loop.fd] = c
            THEN loop.pc ELSE "none"

(* Lengths and names take turns in the stream to the server, which looks for a length
   first and for a name when it has read a length. *)
Turns(c) ==
    LET u == up[c]
        half == Stage(c) = "body" /\ loop.recv > 0
    IN /\ \A i \in 1 .. Len(u) - 1 : u[i].kind # u[i + 1].kind
       /\ u # <<>> => u[1].kind = IF half THEN "name" ELSE "len"
       /\ u # <<>> /\ client[c].pc \notin Ended
              => u[Len(u)].kind = IF client[c].pc = "namebody" THEN "len" ELSE "name"
       /\ u = <<>> /\ client[c].pc \notin Ended => (half <=> client[c].pc = "namebody")
       /\ Stage(c) = "len" => Readable(c)
       /\ Stage(c) \in {"body", "dispatch"} /\ loop.recv = 0 => u = <<>> /\ client[c].pc \in Ended
       /\ client[c].pc = "new" => u = <<>> /\ down[c] = <<>> /\ client[c].copy = <<>>
                                  /\ client[c].arg = 1 /\ client[c].got = <<>>

BaseInv == TypeInv /\ Links /\ Places /\ \A c \in Client : Turns(c)

-----------------------------------------------------------------------------
(* Facts about the parts. *)

\* The operators of the pool are the ones the lemmas are about.
LEMMA PoolOperators ==
    /\ Pool!Queued = Range(queue)
    /\ \A S : Pool!Keep(queue, S) = Keep(queue, S)
  <1>1. Pool!Queued = Range(queue)
    BY DEF Pool!Queued, Pool!Range, Range
  <1>2. ASSUME NEW S PROVE Pool!Keep(queue, S) = Keep(queue, S)
    BY Zenon DEF Keep, Kept, Pool!Keep, Pool!Kept
  <1>3. QED
    BY <1>1, <1>2

\* What is on disk is a sequence of bytes, as long as Size says.
LEMMA ContentType ==
    ASSUME NEW f \in File \cup {NoFile}
    PROVE  /\ Content(f) \in Seq(Bytes) /\ Len(Content(f)) \in Nat
           /\ f \in File => Len(Content(f)) = Size[f]
  <1>1. CASE f = NoFile
    BY <1>1, SyncAssumption DEF Content
  <1>2. CASE f \in File
    <2>1. f # NoFile /\ Size[f] \in Nat
      BY <1>2, SyncAssumption
    <2> DEFINE s == [i \in 1 .. Size[f] |-> <<f, i>>]
    <2>2. \A i \in 1 .. Size[f] : <<f, i>> \in Bytes
      BY <1>2 DEF Bytes
    <2>3. s \in Seq(Bytes) /\ Len(s) = Size[f]
      BY <2>1, <2>2
    <2>4. QED
      BY <2>1, <2>3 DEF Content
  <1>3. QED
    BY <1>1, <1>2

\* The smaller one of two numbers.
LEMMA MinOfTwo ==
    ASSUME NEW a \in Nat, NEW b \in Nat
    PROVE  Min({a, b}) = IF a <= b THEN a ELSE b
  <1> DEFINE m == IF a <= b THEN a ELSE b
  <1>1. m \in {a, b} /\ \A y \in {a, b} : m <= y
    OBVIOUS
  <1>2. \A x \in {a, b} : (\A y \in {a, b} : x <= y) => x = m
    OBVIOUS
  <1>3. QED
    BY <1>1, <1>2 DEF Min

\* A group is a part of the file: bytes pos + 1 to pos + Split, or to the end.
LEMMA GroupType ==
    ASSUME NEW f \in File \cup {NoFile}, NEW pos \in Nat
    PROVE  /\ Group(f, pos) \in Seq(Bytes) /\ Len(Group(f, pos)) \in Nat
           /\ LET n == Len(Content(f))
                  k == IF pos + Split <= n THEN Split ELSE n - pos
              IN pos <= n => /\ Len(Group(f, pos)) = k
                             /\ \A i \in 1 .. k : Group(f, pos)[i] = Content(f)[pos + i]
  <1> DEFINE n == Len(Content(f))
             m == IF pos + Split <= n THEN pos + Split ELSE n
  <1>1. Content(f) \in Seq(Bytes) /\ n \in Nat /\ Split \in Nat
    BY ContentType, SyncAssumption
  <1>2. Group(f, pos) = SubSeq(Content(f), pos + 1, m)
    BY <1>1, MinOfTwo DEF Group
  <1>3. m \in Nat /\ m <= n
    BY <1>1
  <1> HIDE DEF n, m
  <1>4. /\ Group(f, pos) \in Seq(Bytes)
        /\ Len(Group(f, pos)) = IF pos + 1 <= m THEN m - pos ELSE 0
        /\ \A i \in 1 .. m - pos : Group(f, pos)[i] = Content(f)[pos + i]
    BY <1>1, <1>2, <1>3, SubSeqProperties DEF n
  <1>5. QED
    BY <1>1, <1>3, <1>4 DEF n, m

-----------------------------------------------------------------------------
(* What each action of a client does to it and to its streams. *)

(* The fields of client c after a step; the other clients stay as they are. *)
Becomes(c, pc, arg, len, left, copy, got) ==
    /\ client' \in [Client -> ClientRecord]
    /\ client'[c].pc = pc /\ client'[c].arg = arg /\ client'[c].len = len
    /\ client'[c].left = left /\ client'[c].copy = copy /\ client'[c].got = got
    /\ \A d \in Client \ {c} : client'[d] = client[d]

\* A client's fields have their types.
LEMMA ClientFields ==
    ASSUME ClientType, NEW c \in Client
    PROVE  /\ client[c] \in ClientRecord
           /\ client[c].pc \in {"new", "name", "namebody", "infolen", "info", "chunk",
                                "chunkbody", "lost"} \cup Ended
           /\ client[c].arg \in Nat /\ client[c].len \in Nat /\ client[c].left \in Nat
           /\ client[c].copy \in Seq(Bytes) /\ client[c].got \in Seq(Seq(Bytes))
  BY DEF ClientType, ClientRecord

\* The actions of a client that have to do with its request.
LEMMA RequestEffects ==
    ASSUME TypeInv, NEW c \in Client
    PROVE  LET r == client[c] IN
           /\ InitClient(c) => Becomes(c, "name", r.arg, r.len, r.left, r.copy, r.got)
           /\ RequestLength(c) => Becomes(c, "namebody", r.arg, r.len, r.left, r.copy, r.got)
           /\ RequestName(c) => Becomes(c, "infolen", r.arg, r.len, r.left, r.copy, r.got)
           /\ RecvUnexpected(c) \/ RecvInfoEof(c)
                  => Becomes(c, "lost", r.arg, r.len, r.left, r.copy, r.got)
           /\ \A how \in Ended : Leave(c, how) => Becomes(c, how, 1, 0, 0, <<>>, r.got)
  <1>0. client \in [Client -> ClientRecord]
    BY DEF TypeInv, ClientType
  <1>1. ASSUME NEW pc \in {"name", "namebody", "infolen", "lost"},
               client' = [client EXCEPT ![c].pc = pc]
        PROVE  Becomes(c, pc, client[c].arg, client[c].len, client[c].left, client[c].copy,
                       client[c].got)
    BY <1>0, <1>1 DEF Becomes, ClientRecord
  <1>2. ASSUME NEW how \in Ended, Leave(c, how)
        PROVE  Becomes(c, how, 1, 0, 0, <<>>, client[c].got)
    <2>1. PICK e \in Seq(Bytes) : e = <<>>
      BY EmptySeq, Zenon
    <2>2. client' = [client EXCEPT ![c].pc = how, ![c].arg = 1, ![c].len = 0,
                                   ![c].left = 0, ![c].copy = e]
      BY <1>2, <2>1, Zenon DEF Leave
    <2>3. Becomes(c, how, 1, 0, 0, e, client[c].got)
      BY <1>0, <1>2, <2>2, ZenonT(40) DEF Becomes, ClientRecord
    <2>4. QED
      BY <2>1, <2>3
  <1>3. QED
    BY <1>1, <1>2 DEF InitClient, RequestLength, RequestName, RecvUnexpected, RecvInfoEof

\* Numbers of groups are natural numbers.
LEMMA GroupsType == \A n \in Nat : RecvGroups(n) = SendGroups(n) /\ SendGroups(n) \in Nat
  <1>1. Split \in Nat \ {0}
    BY SyncAssumption
  <1>2. \A a \in Nat, b \in Nat \ {0} : a \div b \in Nat
    OBVIOUS
  <1>3. \A n \in Nat : (n + Split - 1) \div Split \in Nat
    <2>1. \A n \in Nat : n + Split - 1 \in Nat
      BY <1>1
    <2>2. QED
      BY <1>1, <1>2, <2>1
  <1>4. QED
    BY <1>3 DEF RecvGroups, SendGroups

\* What arrives is the head of the stream, and has its type.
LEMMA Arrival ==
    ASSUME TypeInv, NEW c \in Client, down[c] # <<>>
    PROVE  /\ Head(down[c]) \in Reply /\ Tail(down[c]) \in Seq(Reply)
           /\ Head(down[c]).kind \in {"len", "info", "chunk"}
           /\ Head(down[c]).kind \in {"len", "info"} => Head(down[c]).data \in Nat
           /\ Head(down[c]).kind = "chunk" => Head(down[c]).data \in Seq(Bytes)
  <1>1. Head(down[c]) \in Reply /\ Tail(down[c]) \in Seq(Reply)
    BY DEF TypeInv, NetType
  <1>2. QED
    BY <1>1 DEF Reply

\* The actions that take a piece of the answer.
LEMMA ReceiveEffects ==
    ASSUME TypeInv, NEW c \in Client
    PROVE  LET r == client[c]
               m == Head(down[c])
           IN /\ RecvLength(c) =>
                   Becomes(c, IF r.pc = "infolen" THEN "info" ELSE "chunkbody", r.arg, m.data,
                           r.left, r.copy, r.got)
              /\ RecvInfo(c) =>
                   Becomes(c, "chunk", r.arg, 0, RecvGroups(m.data), r.copy, r.got)
              /\ RecvChunk(c) =>
                   Becomes(c, "chunk", r.arg, 0, r.left - 1, r.copy \o m.data, r.got)
              /\ RecvChunkEof(c) =>
                   \/ Becomes(c, "chunk", r.arg, r.len, r.left - 1, r.copy, r.got)
                   \/ Becomes(c, "chunk", r.arg, 0, r.left - 1, r.copy \o Zeros(r.len), r.got)
              /\ FileDone(c) =>
                   Becomes(c, "name", r.arg + 1, r.len, r.left, <<>>, Append(r.got, r.copy))
  <1>0. client \in [Client -> ClientRecord] /\ ClientType
    BY DEF TypeInv, ClientType
  <1>1. ASSUME RecvLength(c)
        PROVE  Becomes(c, IF client[c].pc = "infolen" THEN "info" ELSE "chunkbody", client[c].arg,
                       Head(down[c]).data, client[c].left, client[c].copy, client[c].got)
    <2>1. Head(down[c]).data \in Nat
      BY <1>1, Arrival DEF RecvLength, Arrives
    <2>2. QED
      BY <1>0, <1>1, <2>1 DEF RecvLength, Becomes, ClientRecord
  <1>2. ASSUME RecvInfo(c)
        PROVE  Becomes(c, "chunk", client[c].arg, 0, RecvGroups(Head(down[c]).data),
                       client[c].copy, client[c].got)
    <2>1. RecvGroups(Head(down[c]).data) \in Nat
      BY <1>2, Arrival, GroupsType DEF RecvInfo, Arrives
    <2>2. QED
      BY <1>0, <1>2, <2>1 DEF RecvInfo, Becomes, ClientRecord
  <1>3. ASSUME RecvChunk(c)
        PROVE  Becomes(c, "chunk", client[c].arg, 0, client[c].left - 1,
                       client[c].copy \o Head(down[c]).data, client[c].got)
    <2>1. Head(down[c]).data \in Seq(Bytes)
      BY <1>3, Arrival DEF RecvChunk, Arrives
    <2>2. PICK b \in Seq(Bytes) : b = client[c].copy \o Head(down[c]).data
      <3>1. client[c].copy \in Seq(Bytes)
        BY <1>0, ClientFields
      <3>2. QED
        BY <2>1, <3>1, ConcatProperties, Zenon
    <2>3. client[c].pc = "chunkbody"
      BY <1>3 DEF RecvChunk, Arrives, Fits, Waits, AtClient
    <2>4. PICK n \in Nat : n = client[c].left - 1
      BY <1>0, <2>3 DEF ClientType, ClientRecord
    <2>5. client' = [client EXCEPT ![c].pc = "chunk", ![c].len = 0, ![c].left = n,
                                   ![c].copy = b]
      BY <1>3, <2>2, <2>4, Zenon DEF RecvChunk
    <2>6. QED
      BY <1>0, <2>2, <2>4, <2>5 DEF Becomes, ClientRecord
  <1>4. ASSUME RecvChunkEof(c)
        PROVE  \/ Becomes(c, "chunk", client[c].arg, client[c].len, client[c].left - 1,
                          client[c].copy, client[c].got)
               \/ Becomes(c, "chunk", client[c].arg, 0, client[c].left - 1,
                          client[c].copy \o Zeros(client[c].len), client[c].got)
    <2>1. PICK n \in Nat : n = client[c].left - 1
      BY <1>0, <1>4, ClientFields DEF RecvChunkEof
    <2>2. PICK b \in Seq(Bytes) : b = client[c].copy \o Zeros(client[c].len)
      <3>1. Zeros(client[c].len) \in Seq(Bytes)
        <4>1. client[c].len \in Nat /\ <<NoFile, 0>> \in Bytes
          BY <1>0, ClientFields DEF Bytes
        <4>2. \A k \in Nat, x \in Bytes : [i \in 1 .. k |-> x] \in Seq(Bytes)
          OBVIOUS
        <4>3. QED
          BY <4>1, <4>2, Zenon DEF Zeros
      <3>2. client[c].copy \in Seq(Bytes)
        BY <1>0, ClientFields
      <3>3. QED
        BY <3>1, <3>2, ConcatProperties, Zenon
    <2>3. CASE AtClient(c, "chunk") /\ client' = [client EXCEPT ![c].left = @ - 1]
      BY <1>0, <2>1, <2>3 DEF Becomes, ClientRecord, AtClient
    <2>4. CASE client' = [client EXCEPT ![c].pc = "chunk", ![c].len = 0, ![c].left = @ - 1,
                                        ![c].copy = @ \o Zeros(client[c].len)]
      <3>1. client' = [client EXCEPT ![c].pc = "chunk", ![c].len = 0, ![c].left = n,
                                     ![c].copy = b]
        BY <2>1, <2>2, <2>4, Zenon
      <3>2. QED
        BY <1>0, <2>1, <2>2, <3>1, ZenonT(40) DEF Becomes, ClientRecord
    <2>5. QED
      BY <1>4, <2>3, <2>4 DEF RecvChunkEof
  <1>5. ASSUME FileDone(c)
        PROVE  Becomes(c, "name", client[c].arg + 1, client[c].len, client[c].left, <<>>,
                       Append(client[c].got, client[c].copy))
    <2>1. PICK e \in Seq(Bytes) : e = <<>>
      BY EmptySeq, Zenon
    <2>2. PICK g \in Seq(Seq(Bytes)) : g = Append(client[c].got, client[c].copy)
      <3>1. client[c].got \in Seq(Seq(Bytes)) /\ client[c].copy \in Seq(Bytes)
        BY <1>0, ClientFields
      <3>2. QED
        BY <3>1, AppendProperties, Zenon
    <2>3. PICK a \in Nat : a = client[c].arg + 1
      BY <1>0, ClientFields
    <2>4. client' = [client EXCEPT ![c].pc = "name", ![c].arg = a, ![c].copy = e, ![c].got = g]
      BY <1>5, <2>1, <2>2, <2>3, Zenon DEF FileDone
    <2>5. Becomes(c, "name", a, client[c].len, client[c].left, e, g)
      BY <1>0, <2>4 DEF Becomes, ClientRecord
    <2>6. QED
      BY <2>1, <2>2, <2>3, <2>5, Zenon
  <1>6. QED
    BY <1>1, <1>2, <1>3, <1>4, <1>5

\* The name of the file a client asks for.
LEMMA AskedFile ==
    ASSUME TypeInv, NEW c \in Client, client[c].arg <= Len(Argv[c])
    PROVE  /\ Argv[c][client[c].arg] \in File
           /\ Length(NameLen[Argv[c][client[c].arg]]) \in Request
           /\ Name(Argv[c][client[c].arg]) \in Request
  <1>1. Argv[c] \in Seq(File) /\ client[c].arg \in 1 .. Len(Argv[c])
    BY SyncAssumption DEF TypeInv, ClientType, ClientRecord
  <1>2. Argv[c][client[c].arg] \in File
    BY <1>1
  <1>3. NameLen[Argv[c][client[c].arg]] \in Nat \ {0}
    BY <1>2, SyncAssumption
  <1>4. QED
    BY <1>2, <1>3 DEF Length, Name, Request

(* The part of a step of client c that is the same for all of them. *)
Own(c) ==
    /\ client[c].pc \notin {"new"} \cup Ended /\ client'[c].pc # "new"
    /\ client' \in [Client -> ClientRecord]
    /\ up' \in [Client -> Seq(Request)] /\ down' \in [Client -> Seq(Reply)]
    /\ \A d \in Client \ {c} : client'[d] = client[d] /\ up'[d] = up[d] /\ down'[d] = down[d]
    /\ UNCHANGED <<overlapped, backlog, conn, loop, pvars, task, alive>>
    /\ ready' = ready \/ Notify(c)

\* A step of a client leaves the others, the loop and the tasks alone.
LEMMA OwnStep ==
    ASSUME TypeInv, NEW c \in Client, ClientStep(c) \/ Kill(c)
    PROVE  Own(c)
  <1>0. /\ ClientType /\ up \in [Client -> Seq(Request)] /\ down \in [Client -> Seq(Reply)]
    BY DEF TypeInv, NetType
  <1>1. CASE RequestLength(c) /\ UNCHANGED <<overlapped, loop, pvars, task, alive>>
    <2>1. Append(up[c], Length(NameLen[Argv[c][client[c].arg]])) \in Seq(Request)
      BY <1>0, <1>1, AskedFile DEF RequestLength
    <2>2. /\ up' \in [Client -> Seq(Request)]
          /\ \A d \in Client \ {c} : up'[d] = up[d]
      BY <1>0, <1>1, <2>1 DEF RequestLength
    <2>3. QED
      BY <1>0, <1>1, <2>2, RequestEffects DEF RequestLength, Becomes, Own, AtClient, Ended, pvars
  <1>2. CASE RequestName(c) /\ UNCHANGED <<overlapped, loop, pvars, task, alive>>
    <2>1. Append(up[c], Name(Argv[c][client[c].arg])) \in Seq(Request)
      BY <1>0, <1>2, AskedFile DEF RequestName, AtClient, ClientType
    <2>2. /\ up' \in [Client -> Seq(Request)]
          /\ \A d \in Client \ {c} : up'[d] = up[d]
      BY <1>0, <1>2, <2>1 DEF RequestName
    <2>3. QED
      BY <1>0, <1>2, <2>2, RequestEffects DEF RequestName, Becomes, Own, AtClient, Ended, pvars
  <1>3. ASSUME down[c] # <<>>, Recv(c)
        PROVE  /\ down' \in [Client -> Seq(Reply)] /\ \A d \in Client \ {c} : down'[d] = down[d]
               /\ UNCHANGED <<up, backlog, conn, ready>>
    <2>1. Tail(down[c]) \in Seq(Reply)
      BY <1>3, Arrival
    <2>2. QED
      BY <1>0, <1>3, <2>1 DEF Recv
  <1>4. CASE RecvLength(c) /\ UNCHANGED <<overlapped, loop, pvars, task, alive>>
    <2>1. client[c].pc \in {"infolen", "chunk"} /\ down[c] # <<>> /\ Recv(c)
      BY <1>4 DEF RecvLength, Arrives, Fits, Waits, AtClient
    <2>2. QED
      BY <1>0, <1>3, <1>4, <2>1, ReceiveEffects DEF Becomes, Own, Ended, pvars
  <1>5. CASE RecvInfo(c) /\ UNCHANGED <<overlapped, loop, pvars, task, alive>>
    BY <1>0, <1>3, <1>5, ReceiveEffects
    DEF RecvInfo, Arrives, Fits, Waits, AtClient, Becomes, Own, Ended, pvars
  <1>6. CASE RecvChunk(c) /\ UNCHANGED <<overlapped, loop, pvars, task, alive>>
    BY <1>0, <1>3, <1>6, ReceiveEffects
    DEF RecvChunk, Arrives, Fits, Waits, AtClient, Becomes, Own, Ended, pvars
  <1>7. CASE (RecvUnexpected(c) \/ RecvInfoEof(c)) /\ UNCHANGED <<overlapped, loop, pvars, task, alive>>
    <2>1. client[c].pc \in {"infolen", "info", "chunk", "chunkbody"}
      BY <1>7 DEF RecvUnexpected, RecvInfoEof, Waits, AtClient
    <2>2. UNCHANGED netvars
      BY <1>7 DEF RecvUnexpected, RecvInfoEof
    <2>3. QED
      BY <1>0, <1>7, <2>1, <2>2, RequestEffects DEF Becomes, Own, Ended, netvars, pvars
  <1>8. CASE RecvChunkEof(c) /\ UNCHANGED <<overlapped, loop, pvars, task, alive>>
    <2>1. client[c].pc \in {"chunk", "chunkbody"} /\ UNCHANGED netvars
      BY <1>8 DEF RecvChunkEof, AtClient
    <2>2. QED
      BY <1>0, <1>8, <2>1, ReceiveEffects DEF Becomes, Own, Ended, netvars, pvars
  <1>9. CASE FileDone(c) /\ UNCHANGED <<overlapped, loop, pvars, task, alive>>
    <2>1. client[c].pc = "chunk" /\ UNCHANGED netvars
      BY <1>9 DEF FileDone, AtClient
    <2>2. QED
      BY <1>0, <1>9, <2>1, ReceiveEffects DEF Becomes, Own, Ended, netvars, pvars
  <1>10. ASSUME NEW how \in Ended, Leave(c, how), client[c].pc \notin {"new"} \cup Ended,
                UNCHANGED <<overlapped, loop, pvars, task, alive>>
         PROVE  Own(c)
    <2>1. /\ down' \in [Client -> Seq(Reply)] /\ \A d \in Client \ {c} : down'[d] = down[d]
          /\ UNCHANGED <<up, backlog, conn>> /\ Notify(c)
      BY <1>0, <1>10 DEF Leave
    <2>2. QED
      BY <1>0, <1>10, <2>1, RequestEffects DEF Becomes, Own, Ended, pvars
  <1>11. CASE (Exit(c) \/ ExitBySignal(c)) /\ UNCHANGED <<overlapped, loop, pvars, task, alive>>
    BY <1>10, <1>11 DEF Exit, ExitBySignal, AtClient, Ended
  <1>12. CASE Kill(c)
    BY <1>10, <1>12 DEF Kill, Clients, Ended
  <1>13. QED
    BY <1>1, <1>2, <1>4, <1>5, <1>6, <1>7, <1>8, <1>9, <1>11, <1>12 DEF ClientStep

\* A descriptor is put on the ready list at most once.
LEMMA NotifyEffect ==
    ASSUME TypeInv, NEW c \in Client, Notify(c)
    PROVE  \/ ready' = ready
           \/ \E fd \in Fd : conn[fd] = c /\ fd \notin Range(ready) /\ ready' = Append(ready, fd)
  <1> DEFINE fd == CHOOSE x \in Fd : conn[x] = c
  <1>1. CASE c \in Range(conn)
    <2>1. \E x \in Fd : conn[x] = c
      BY <1>1 DEF Range, TypeInv, NetType
    <2>2. fd \in Fd /\ conn[fd] = c
      BY <2>1
    <2>3. ready' = Mark(ready, fd)
      BY <1>1 DEF Notify
    <2> HIDE DEF fd
    <2>4. QED
      BY <2>2, <2>3 DEF Mark
  <1>2. CASE c \notin Range(conn)
    BY <1>2 DEF Notify
  <1>3. QED
    BY <1>1, <1>2

\* An appended descriptor leaves the ready list as the invariant says.
LEMMA ReadyAppend ==
    ASSUME TypeInv, Links, NEW fd \in Fd \cup {serv_sock}, fd \notin Range(ready),
           ready' = Append(ready, fd)
    PROVE  /\ ready' \in Seq(Fd \cup {serv_sock}) /\ NoDuplicates(ready')
           /\ Range(ready') = Range(ready) \cup {fd}
  <1>1. ready \in Seq(Fd \cup {serv_sock}) /\ NoDuplicates(ready)
    BY DEF TypeInv, NetType, Links
  <1>2. Append(ready, fd) \in Seq(Fd \cup {serv_sock})
    BY <1>1, AppendProperties
  <1>3. QED
    BY <1>1, <1>2, AppendLemma

\* A step of a client keeps the types of the clients.
LEMMA ClientTypeStep ==
    ASSUME TypeInv, NEW c \in Client, ClientStep(c) \/ Kill(c)
    PROVE  ClientType'
  <1>0. /\ ClientType /\ client' \in [Client -> ClientRecord]
        /\ \A d \in Client \ {c} : client'[d] = client[d]
    BY OwnStep DEF Own, TypeInv
  <1>1. SUFFICES /\ client'[c].pc = "chunkbody" => client'[c].left > 0
                 /\ client'[c].arg > 0
                 /\ client'[c].pc = "namebody" => client'[c].arg <= Len(Argv[c])
    BY <1>0 DEF ClientType
  <1>2. /\ client[c].pc = "chunkbody" => client[c].left > 0
        /\ client[c].arg \in Nat \ {0}
        /\ client[c].pc = "namebody" => client[c].arg <= Len(Argv[c])
    BY <1>0, ClientFields DEF ClientType
  <1>3. CASE RequestLength(c)
    BY <1>2, <1>3, RequestEffects DEF Becomes, RequestLength
  <1>4. CASE RequestName(c)
    BY <1>2, <1>4, RequestEffects DEF Becomes
  <1>5. CASE RecvLength(c)
    <2>1. client[c].pc = "infolen" \/ client[c].left > 0
      BY <1>5 DEF RecvLength, Arrives, Fits, Waits, AtClient
    <2>2. /\ client'[c].pc = (IF client[c].pc = "infolen" THEN "info" ELSE "chunkbody")
          /\ client'[c].arg = client[c].arg /\ client'[c].left = client[c].left
      BY <1>5, ReceiveEffects DEF Becomes
    <2>3. QED
      BY <1>2, <2>1, <2>2
  <1>6. CASE RecvInfo(c) \/ RecvChunk(c) \/ RecvChunkEof(c) \/ FileDone(c)
    <2>1. RecvInfo(c) => client'[c].pc = "chunk" /\ client'[c].arg = client[c].arg
      BY ReceiveEffects DEF Becomes
    <2>2. RecvChunk(c) => client'[c].pc = "chunk" /\ client'[c].arg = client[c].arg
      BY ReceiveEffects DEF Becomes
    <2>3. RecvChunkEof(c) => client'[c].pc = "chunk" /\ client'[c].arg = client[c].arg
      BY ReceiveEffects DEF Becomes
    <2>4. FileDone(c) => client'[c].pc = "name" /\ client'[c].arg = client[c].arg + 1
      BY ReceiveEffects DEF Becomes
    <2>5. client'[c].pc \in {"chunk", "name"} /\ client'[c].arg \in {client[c].arg, client[c].arg + 1}
      BY <1>6, <2>1, <2>2, <2>3, <2>4
    <2>6. QED
      BY <1>2, <2>5
  <1>7. CASE RecvUnexpected(c) \/ RecvInfoEof(c)
    BY <1>2, <1>7, RequestEffects DEF Becomes
  <1>8. ASSUME NEW how \in Ended, Leave(c, how)
        PROVE  /\ client'[c].pc = "chunkbody" => client'[c].left > 0
               /\ client'[c].arg > 0
               /\ client'[c].pc = "namebody" => client'[c].arg <= Len(Argv[c])
    BY <1>8, RequestEffects DEF Becomes, Ended
  <1>9. CASE Exit(c) \/ ExitBySignal(c) \/ Kill(c)
    BY <1>8, <1>9 DEF Exit, ExitBySignal, Kill, Ended
  <1>10. QED
    BY <1>3, <1>4, <1>5, <1>6, <1>7, <1>9 DEF ClientStep

\* A step of a client keeps the types, and who has which descriptor.
LEMMA ClientBase ==
    ASSUME BaseInv, NEW c \in Client, ClientStep(c) \/ Kill(c)
    PROVE  TypeInv' /\ Links' /\ Places'
  <1>0. TypeInv /\ Links /\ Places /\ Own(c)
    BY OwnStep DEF BaseInv
  <1>1. \/ ready' = ready
        \/ \E fd \in Fd : conn[fd] = c /\ fd \notin Range(ready) /\ ready' = Append(ready, fd)
    BY <1>0, NotifyEffect DEF Own
  <1>2. /\ ready' \in Seq(Fd \cup {serv_sock}) /\ NoDuplicates(ready')
        /\ serv_sock \in Range(ready') <=> serv_sock \in Range(ready)
        /\ \A fd \in Range(ready') \ {serv_sock} : conn[fd] # NoClient
    <2>1. CASE ready' = ready
      BY <1>0, <2>1 DEF TypeInv, NetType, Links
    <2>2. ASSUME NEW fd \in Fd, conn[fd] = c, fd \notin Range(ready), ready' = Append(ready, fd)
          PROVE  /\ ready' \in Seq(Fd \cup {serv_sock}) /\ NoDuplicates(ready')
                 /\ serv_sock \in Range(ready') <=> serv_sock \in Range(ready)
                 /\ \A x \in Range(ready') \ {serv_sock} : conn[x] # NoClient
      <3>1. /\ ready' \in Seq(Fd \cup {serv_sock}) /\ NoDuplicates(ready')
            /\ Range(ready') = Range(ready) \cup {fd}
        BY <1>0, <2>2, ReadyAppend
      <3>2. fd # serv_sock /\ c # NoClient
        BY SyncAssumption DEF Fd, serv_sock
      <3>3. QED
        BY <1>0, <2>2, <3>1, <3>2 DEF Links
    <2>3. QED
      BY <1>1, <2>1, <2>2
  <1>3. TypeInv'
    BY <1>0, <1>2, ClientTypeStep DEF TypeInv, NetType, PoolType, Own, pvars
  <1>4. \A d \in Client : client[d].pc # "new" => client'[d].pc # "new"
    BY <1>0 DEF Own
  <1>5. Links'
    <2>1. UNCHANGED <<backlog, conn, loop>>
      BY <1>0 DEF Own
    <2>2. Range(backlog) \subseteq Client /\ Range(conn) \ {NoClient} \subseteq Client
      BY <1>0 DEF TypeInv, NetType, Range
    <2>3. QED
      BY <1>0, <1>2, <1>4, <2>1, <2>2 DEF Links
  <1>6. Places'
    BY <1>0 DEF Places, Own, pvars
  <1>7. QED
    BY <1>3, <1>5, <1>6

\* Lengths and names go on taking turns when the other kind is appended.
LEMMA AlternateAppend ==
    ASSUME NEW u \in Seq(Request), NEW m \in Request,
           \A i \in 1 .. Len(u) - 1 : u[i].kind # u[i + 1].kind,
           u # <<>> => u[Len(u)].kind # m.kind
    PROVE  LET v == Append(u, m) IN
           /\ v # <<>> /\ v[Len(v)] = m /\ v[1] = IF u = <<>> THEN m ELSE u[1]
           /\ \A i \in 1 .. Len(v) - 1 : v[i].kind # v[i + 1].kind
  <1> DEFINE v == Append(u, m)
             n == Len(u)
  <1>1. /\ n \in Nat /\ Len(v) = n + 1 /\ v[n + 1] = m /\ \A i \in 1 .. n : v[i] = u[i]
        /\ u = <<>> <=> n = 0
    BY AppendProperties, EmptySeq
  <1> HIDE DEF v
  <1>2. v # <<>>
    BY <1>1
  <1>3. ASSUME NEW i \in 1 .. Len(v) - 1 PROVE v[i].kind # v[i + 1].kind
    <2>1. CASE i = n
      BY <1>1, <2>1
    <2>2. CASE i \in 1 .. n - 1
      BY <1>1, <2>2
    <2>3. QED
      BY <1>1, <2>1, <2>2
  <1>4. QED
    BY <1>1, <1>2, <1>3 DEF v

\* A step of a client keeps the order of lengths and names.
LEMMA ClientTurns ==
    ASSUME BaseInv, NEW c \in Client, ClientStep(c) \/ Kill(c)
    PROVE  \A d \in Client : Turns(d)'
  <1>0. TypeInv /\ Own(c) /\ \A d \in Client : Turns(d)
    BY OwnStep DEF BaseInv
  <1>1. \A d \in Client : Stage(d)' = Stage(d) /\ loop' = loop
    BY <1>0 DEF Own, Stage
  <1>2. ASSUME NEW d \in Client \ {c} PROVE Turns(d)'
    <2>1. client'[d] = client[d] /\ up'[d] = up[d] /\ down'[d] = down[d]
      BY <1>0 DEF Own
    <2>2. Turns(d)
      BY <1>0
    <2>3. QED
      BY <1>1, <2>1, <2>2 DEF Turns, Readable
  <1>3. client[c].pc \notin {"new"} \cup Ended /\ client'[c].pc # "new" /\ Turns(c)
        /\ up[c] \in Seq(Request)
    BY <1>0 DEF Own, TypeInv, NetType
  <1>4. ASSUME RequestLength(c) PROVE Turns(c)'
    <2> DEFINE m == Length(NameLen[Argv[c][client[c].arg]])
    <2>1. /\ client[c].pc = "name" /\ m.kind = "len" /\ up'[c] = Append(up[c], m)
      BY <1>0, <1>4 DEF RequestLength, AtClient, Length, TypeInv, NetType
    <2>2. client'[c].pc = "namebody"
      BY <1>0, <1>4, RequestEffects DEF Becomes
    <2>3. up[c] # <<>> => up[c][Len(up[c])].kind # m.kind
      BY <1>3, <2>1 DEF Turns
    <2>4. m \in Request
      BY <1>0, <1>4, AskedFile DEF RequestLength
    <2> HIDE DEF m
    <2>5. /\ up'[c] # <<>> /\ up'[c][Len(up'[c])] = m
          /\ up'[c][1] = (IF up[c] = <<>> THEN m ELSE up[c][1])
          /\ \A i \in 1 .. Len(up'[c]) - 1 : up'[c][i].kind # up'[c][i + 1].kind
      <3>1. \A i \in 1 .. Len(up[c]) - 1 : up[c][i].kind # up[c][i + 1].kind
        BY <1>3 DEF Turns
      <3>2. QED
        BY <1>3, <2>1, <2>4, <2>3, <3>1, AlternateAppend
    <2>6. QED
      BY <1>1, <1>3, <2>2, <2>1, <2>5 DEF Turns, Readable, Ended
  <1>5. ASSUME RequestName(c) PROVE Turns(c)'
    <2> DEFINE m == Name(Argv[c][client[c].arg])
    <2>1. /\ client[c].pc = "namebody" /\ m.kind = "name" /\ up'[c] = Append(up[c], m)
      BY <1>0, <1>5 DEF RequestName, AtClient, Name, TypeInv, NetType
    <2>2. client'[c].pc = "infolen"
      BY <1>0, <1>5, RequestEffects DEF Becomes
    <2>3. up[c] # <<>> => up[c][Len(up[c])].kind # m.kind
      BY <1>3, <2>1 DEF Turns
    <2>4. m \in Request
      BY <1>0, <1>5, <2>1, AskedFile DEF TypeInv, ClientType
    <2> HIDE DEF m
    <2>5. /\ up'[c] # <<>> /\ up'[c][Len(up'[c])] = m
          /\ up'[c][1] = (IF up[c] = <<>> THEN m ELSE up[c][1])
          /\ \A i \in 1 .. Len(up'[c]) - 1 : up'[c][i].kind # up'[c][i + 1].kind
      <3>1. \A i \in 1 .. Len(up[c]) - 1 : up[c][i].kind # up[c][i + 1].kind
        BY <1>3 DEF Turns
      <3>2. QED
        BY <1>3, <2>1, <2>4, <2>3, <3>1, AlternateAppend
    <2>6. QED
      BY <1>1, <1>3, <2>2, <2>1, <2>5 DEF Turns, Readable, Ended
  <1>6. ASSUME up' = up, client[c].pc # "namebody", client'[c].pc # "namebody",
               client'[c].pc \notin Ended
        PROVE  Turns(c)'
    BY <1>1, <1>3, <1>6 DEF Turns, Readable
  <1>7. ASSUME RecvLength(c) \/ RecvInfo(c) \/ RecvChunk(c) \/ RecvUnexpected(c) \/ RecvInfoEof(c)
               \/ RecvChunkEof(c) \/ FileDone(c)
        PROVE  Turns(c)'
    <2>1. up' = up /\ client[c].pc # "namebody"
      BY <1>7 DEF RecvLength, RecvInfo, RecvChunk, RecvUnexpected, RecvInfoEof, RecvChunkEof,
                  FileDone, Recv, netvars, Arrives, Fits, Waits, AtClient
    <2>2. client'[c].pc \in {"info", "chunk", "chunkbody", "lost", "name"}
      <3>1. RecvUnexpected(c) \/ RecvInfoEof(c) => client'[c].pc = "lost"
        BY <1>0, RequestEffects DEF Becomes
      <3>2. RecvLength(c) => client'[c].pc \in {"info", "chunkbody"}
        BY <1>0, ReceiveEffects DEF Becomes
      <3>3. RecvInfo(c) => client'[c].pc = "chunk"
        BY <1>0, ReceiveEffects DEF Becomes
      <3>4. RecvChunk(c) => client'[c].pc = "chunk"
        BY <1>0, ReceiveEffects DEF Becomes
      <3>5. RecvChunkEof(c) => client'[c].pc = "chunk"
        BY <1>0, ReceiveEffects DEF Becomes
      <3>6. FileDone(c) => client'[c].pc = "name"
        BY <1>0, ReceiveEffects DEF Becomes
      <3>7. QED
        BY <1>7, <3>1, <3>2, <3>3, <3>4, <3>5, <3>6
    <2>3. QED
      BY <1>6, <2>1, <2>2 DEF Ended
  <1>8. ASSUME NEW how \in Ended, Leave(c, how) PROVE Turns(c)'
    <2>1. up' = up /\ client'[c].pc \in Ended
      BY <1>0, <1>8, RequestEffects DEF Leave, Becomes
    <2>2. QED
      BY <1>1, <1>3, <2>1 DEF Turns, Readable
  <1>9. ASSUME Exit(c) \/ ExitBySignal(c) \/ Kill(c) PROVE Turns(c)'
    BY <1>8, <1>9 DEF Exit, ExitBySignal, Kill, Ended
  <1>10. Turns(c)'
    BY <1>4, <1>5, <1>7, <1>9 DEF ClientStep
  <1>11. QED
    BY <1>2, <1>10

\* A client that is started waits for accept, and nothing else changes.
LEMMA InitBase ==
    ASSUME BaseInv, NEW c \in Client, InitClient(c)
    PROVE  BaseInv'
  <1>0. TypeInv /\ Links /\ Places /\ \A d \in Client : Turns(d)
    BY DEF BaseInv
  <1>1. /\ client[c].pc = "new" /\ backlog' = Append(backlog, c)
        /\ ready' = Mark(ready, serv_sock) /\ overlapped' \subseteq Client
        /\ UNCHANGED <<up, down, conn, loop, queue, running, finished, withdrawn, task, alive>>
    BY <1>0 DEF InitClient, AtClient, pvars, TypeInv, Clients
  <1>2. Becomes(c, "name", client[c].arg, client[c].len, client[c].left, client[c].copy,
                client[c].got)
    BY <1>0, RequestEffects
  <1>3. backlog \in Seq(Client) /\ c \notin Range(backlog) /\ c \notin Range(conn)
    BY <1>0, <1>1, SyncAssumption DEF TypeInv, NetType, Links
  <1>4. /\ backlog' \in Seq(Client) /\ backlog' # <<>> /\ NoDuplicates(backlog')
        /\ Range(backlog') = Range(backlog) \cup {c}
    BY <1>0, <1>1, <1>3, AppendLemma, AppendProperties DEF Links
  <1>5. /\ ready' \in Seq(Fd \cup {serv_sock}) /\ NoDuplicates(ready')
        /\ Range(ready') = Range(ready) \cup {serv_sock}
    <2>1. CASE serv_sock \in Range(ready)
      BY <1>0, <1>1, <2>1 DEF Mark, TypeInv, NetType, Links
    <2>2. CASE serv_sock \notin Range(ready)
      BY <1>0, <1>1, <2>2, ReadyAppend DEF Mark
    <2>3. QED
      BY <2>1, <2>2
  <1>6. ClientType'
    BY <1>0, <1>2 DEF TypeInv, ClientType, Becomes
  <1>7. TypeInv'
    BY <1>0, <1>1, <1>4, <1>5, <1>6 DEF TypeInv, NetType, PoolType
  <1>8. \A d \in Client : client[d].pc # "new" => client'[d].pc # "new"
    BY <1>2 DEF Becomes
  <1>9. Links'
    <2>1. Range(backlog) \subseteq Client /\ Range(conn) \ {NoClient} \subseteq Client
      BY <1>0 DEF TypeInv, NetType, Range
    <2>2. client'[c].pc # "new"
      BY <1>2 DEF Becomes
    <2>3. QED
      BY <1>0, <1>1, <1>3, <1>4, <1>5, <1>8, <2>1, <2>2 DEF Links
  <1>10. Places'
    BY <1>0, <1>1 DEF Places
  <1>11. ASSUME NEW d \in Client PROVE Turns(d)'
    <2>1. Stage(d)' = Stage(d) /\ loop' = loop /\ up'[d] = up[d] /\ down'[d] = down[d] /\ Turns(d)
      BY <1>0, <1>1 DEF Stage
    <2>2. CASE d # c
      <3>1. client'[d] = client[d]
        BY <1>2, <2>2 DEF Becomes
      <3>2. QED
        BY <2>1, <3>1 DEF Turns, Readable
    <2>3. CASE d = c
      <3>1. client'[c].pc = "name"
        BY <1>2 DEF Becomes
      <3>2. QED
        BY <1>1, <2>1, <2>3, <3>1 DEF Turns, Readable, Ended
    <2>4. QED
      BY <2>2, <2>3
  <1>12. QED
    BY <1>7, <1>9, <1>10, <1>11 DEF BaseInv

-----------------------------------------------------------------------------
(* The loop. *)

\* There are as many descriptors as clients, so that one is free while a client has
\* none, and accept returns a free one.
LEMMA FreeDescriptor ==
    ASSUME TypeInv, Links, NEW h \in Client, h \notin Range(conn)
    PROVE  LET fd == Min({d \in Fd : conn[d] = NoClient})
           IN fd \in Fd /\ conn[fd] = NoClient
  <1> DEFINE n == Cardinality(Client)
             Free == {d \in Fd : conn[d] = NoClient}
  <1>1. /\ n \in Nat \ {0} /\ IsFiniteSet(Client \ {h}) /\ Cardinality(Client \ {h}) = n - 1
        /\ IsFiniteSet(Fd) /\ Cardinality(Fd) = n
    <2>1. n \in Nat /\ IsFiniteSet(Client)
      BY SyncAssumption, FS_CardinalityType
    <2>2. IsFiniteSet(Client \ {h}) /\ Cardinality(Client \ {h}) = n - 1
      BY <2>1, FS_RemoveElement
    <2>3. n # 0
      BY <2>1, FS_EmptySet
    <2>4. IsFiniteSet(Fd) /\ Cardinality(Fd) = n
      BY <2>1, <2>3, FS_Interval DEF Fd
    <2>5. QED
      BY <2>1, <2>2, <2>3, <2>4
  <1>2. Free # {}
    <2> SUFFICES ASSUME Free = {} PROVE FALSE
      OBVIOUS
    <2>1. \A d \in Fd : conn[d] \in Client \ {h}
      BY DEF TypeInv, NetType, Range
    <2>2. conn \in [Fd -> Client \ {h}]
      BY <2>1 DEF TypeInv, NetType
    <2>3. \A a, b \in Fd : conn[a] = conn[b] => a = b
      BY <2>1, SyncAssumption DEF Links
    <2>4. conn \in Injection(Fd, Client \ {h})
      BY <2>2, <2>3 DEF Injection, IsInjective
    <2>5. Cardinality(Fd) <= Cardinality(Client \ {h})
      BY <1>1, <2>4, FS_Injection
    <2>6. QED
      BY <1>1, <2>5
  <1>3. PICK f \in Free : \A g \in Free : f <= g
    <2>1. Free \in SUBSET Nat
      BY DEF Fd
    <2>2. QED
      BY <1>2, <2>1, NatMinimum
  <1>4. Min(Free) \in Free
    BY <1>3 DEF Min
  <1>5. QED
    BY <1>4

\* The parts of loop.
LEMMA LoopFields ==
    ASSUME TypeInv
    PROVE  /\ loop.pc \in {"wait", "len", "body", "dispatch", "delete"}
           /\ loop.fd \in Fd \cup {0} /\ loop.recv \in Nat
           /\ loop.cmd \in File \cup {NoFile} /\ loop.len \in Nat
  BY DEF TypeInv, LoopRecord

\* The ready list without its first descriptor.
LEMMA ReadyTail ==
    ASSUME TypeInv, Links, ready # <<>>
    PROVE  /\ Head(ready) \in Fd \cup {serv_sock} /\ Head(ready) \in Range(ready)
           /\ Tail(ready) \in Seq(Fd \cup {serv_sock}) /\ NoDuplicates(Tail(ready))
           /\ Range(Tail(ready)) = Range(ready) \ {Head(ready)}
  <1>1. ready \in Seq(Fd \cup {serv_sock}) /\ NoDuplicates(ready)
    BY DEF TypeInv, NetType, Links
  <1>2. Head(ready) \in Fd \cup {serv_sock} /\ Tail(ready) \in Seq(Fd \cup {serv_sock})
    BY <1>1
  <1>3. QED
    BY <1>1, <1>2, TailLemma

\* What becomes of the variables when a connection is accepted.
LEMMA AcceptEffect ==
    ASSUME BaseInv, AcceptClient
    PROVE  \E fd \in Fd :
             /\ conn[fd] = NoClient /\ backlog # <<>> /\ Head(backlog) \in Client
             /\ Head(backlog) \in Range(backlog) /\ Head(backlog) \notin Range(conn)
             /\ conn' = [conn EXCEPT ![fd] = Head(backlog)] /\ backlog' = Tail(backlog)
             /\ ready' \in Seq(Fd \cup {serv_sock}) /\ NoDuplicates(ready')
             /\ serv_sock \in Range(ready') <=> Tail(backlog) # <<>>
             /\ Range(ready') \ {serv_sock} =
                  (Range(ready) \ {serv_sock}) \cup IF Readable(Head(backlog)) THEN {fd} ELSE {}
             /\ Tail(backlog) = <<>> =>
                  ready' = IF Readable(Head(backlog)) THEN Append(Tail(ready), fd) ELSE Tail(ready)
  <1> DEFINE fd == Min({d \in Fd : conn[d] = NoClient})
             h == Head(backlog)
             rest == Tail(ready)
             listen == IF Len(backlog) = 1 THEN rest ELSE Append(rest, serv_sock)
  <1>0. TypeInv /\ Links /\ ready # <<>> /\ Head(ready) = serv_sock
    BY DEF BaseInv, AcceptClient
  <1>1. /\ rest \in Seq(Fd \cup {serv_sock}) /\ NoDuplicates(rest)
        /\ Range(rest) = Range(ready) \ {serv_sock}
        /\ serv_sock \in Range(ready)
    BY <1>0, ReadyTail
  <1>2. backlog # <<>> /\ backlog \in Seq(Client)
    BY <1>0, <1>1 DEF Links, TypeInv, NetType
  <1>3. h \in Client /\ h \in Range(backlog) /\ (Len(backlog) = 1 <=> Tail(backlog) = <<>>)
    <2>1. h \in Range(backlog)
      BY <1>2, TailLemma
    <2>2. Len(backlog) = 1 <=> Tail(backlog) = <<>>
      <3>1. Len(backlog) \in Nat /\ Tail(backlog) \in Seq(Client) /\ Len(Tail(backlog)) = Len(backlog) - 1
        BY <1>2, HeadTailProperties
      <3>2. \A s \in Seq(Client) : s = <<>> <=> Len(s) = 0
        OBVIOUS
      <3>3. Tail(backlog) = <<>> <=> Len(Tail(backlog)) = 0
        BY <3>1, <3>2, Zenon
      <3>4. QED
        BY <3>1, <3>3
    <2>3. QED
      BY <1>2, <2>1, <2>2
  <1>4. h \notin Range(conn)
    BY <1>0, <1>3 DEF Links
  <1>5. fd \in Fd /\ conn[fd] = NoClient
    BY <1>0, <1>3, <1>4, FreeDescriptor
  <1>6. /\ conn' = [conn EXCEPT ![fd] = h] /\ backlog' = Tail(backlog)
        /\ ready' = IF Readable(h) THEN Append(listen, fd) ELSE listen
    BY DEF AcceptClient
  <1>7. fd \notin Range(ready) /\ fd # serv_sock
    BY <1>0, <1>5 DEF Links, Fd, serv_sock
  <1> HIDE DEF fd, h, rest
  <1>8. /\ listen \in Seq(Fd \cup {serv_sock}) /\ NoDuplicates(listen)
        /\ Range(listen) \ {serv_sock} = Range(ready) \ {serv_sock}
        /\ serv_sock \in Range(listen) <=> Tail(backlog) # <<>>
    <2>1. CASE Len(backlog) = 1
      BY <1>1, <1>3, <2>1
    <2>2. CASE Len(backlog) # 1
      <3>1. Append(rest, serv_sock) \in Seq(Fd \cup {serv_sock})
        BY <1>1, AppendProperties
      <3>2. /\ NoDuplicates(Append(rest, serv_sock))
            /\ Range(Append(rest, serv_sock)) = Range(rest) \cup {serv_sock}
        BY <1>1, AppendLemma
      <3>3. QED
        BY <1>1, <1>3, <2>2, <3>1, <3>2
    <2>3. QED
      BY <2>1, <2>2
  <1>9. /\ Append(listen, fd) \in Seq(Fd \cup {serv_sock}) /\ NoDuplicates(Append(listen, fd))
        /\ Range(Append(listen, fd)) = Range(listen) \cup {fd}
    <2> HIDE DEF listen
    <2>1. fd \notin Range(listen)
      BY <1>7, <1>8
    <2>2. QED
      BY <1>5, <1>8, <2>1, AppendProperties, AppendLemma
  <1>10. Tail(backlog) = <<>> => listen = rest
    BY <1>3
  <1> HIDE DEF listen
  <1>11. /\ ready' \in Seq(Fd \cup {serv_sock}) /\ NoDuplicates(ready')
         /\ serv_sock \in Range(ready') <=> Tail(backlog) # <<>>
         /\ Range(ready') \ {serv_sock} =
              (Range(ready) \ {serv_sock}) \cup IF Readable(h) THEN {fd} ELSE {}
         /\ Tail(backlog) = <<>> => ready' = IF Readable(h) THEN Append(rest, fd) ELSE rest
    <2>1. CASE Readable(h)
      BY <1>6, <1>7, <1>8, <1>9, <1>10, <2>1
    <2>2. CASE ~Readable(h)
      BY <1>6, <1>8, <1>10, <2>2
    <2>3. QED
      BY <2>1, <2>2
  <1>12. QED
    BY <1>2, <1>3, <1>4, <1>5, <1>6, <1>11 DEF h, rest

(* The fields of loop after a step. *)
LoopIs(pc, fd, recv, cmd, len) ==
    /\ loop' \in LoopRecord /\ loop'.pc = pc /\ loop'.fd = fd
    /\ loop'.recv = recv /\ loop'.cmd = cmd /\ loop'.len = len

\* What the actions that do not read a request do to the loop.
LEMMA LoopEffects ==
    ASSUME TypeInv, Links
    PROVE  /\ ClientEvent => LoopIs("len", Head(ready), loop.recv, NoFile, loop.len)
           /\ SubmitTask => LoopIs("wait", 0, 0, loop.cmd, loop.recv)
           /\ CloseClient => LoopIs("delete", loop.fd, loop.recv, loop.cmd, 0)
           /\ DelCloseFD => LoopIs("wait", 0, loop.recv, loop.cmd, loop.len)
  <1>0. loop \in LoopRecord
    BY DEF TypeInv
  <1>1. ClientEvent => Head(ready) \in Fd \cup {0}
    BY ReadyTail DEF ClientEvent, serv_sock
  <1>2. ClientEvent => LoopIs("len", Head(ready), loop.recv, NoFile, loop.len)
    BY <1>0, <1>1 DEF LoopRecord, ClientEvent, LoopIs
  <1>3. ASSUME SubmitTask PROVE LoopIs("wait", 0, 0, loop.cmd, loop.recv)
    <2>1. PICK n \in Nat : n = loop.recv
      BY LoopFields
    <2>2. PICK z \in Fd \cup {0} : z = 0
      OBVIOUS
    <2>3. loop' = [loop EXCEPT !.pc = "wait", !.fd = z, !.recv = 0, !.len = n]
      BY <1>3, <2>1, <2>2, Zenon DEF SubmitTask
    <2>4. QED
      BY <1>0, <2>1, <2>2, <2>3 DEF LoopRecord, LoopIs
  <1>4. CloseClient => LoopIs("delete", loop.fd, loop.recv, loop.cmd, 0)
    BY <1>0 DEF LoopRecord, CloseClient, LoopIs
  <1>5. DelCloseFD => LoopIs("wait", 0, loop.recv, loop.cmd, loop.len)
    BY <1>0 DEF LoopRecord, DelCloseFD, LoopIs
  <1>6. QED
    BY <1>2, <1>3, <1>4, <1>5

\* What reading a request does: a length, and then the name behind it.
LEMMA ReadEffects ==
    ASSUME BaseInv, NEW c \in Client, c = conn[loop.fd]
    PROVE  LET m == Head(up[c]) IN
           /\ RecvBuffLength =>
                \/ /\ up[c] # <<>> /\ m.kind = "len" /\ m.data \in Nat \ {0}
                   /\ LoopIs("body", loop.fd, m.data, loop.cmd, loop.len)
                   /\ up' = [up EXCEPT ![c] = Tail(@)]
                \/ /\ up[c] = <<>> /\ client[c].pc \in Ended /\ up' = up
                   /\ LoopIs("body", loop.fd, 0, loop.cmd, loop.len)
           /\ RecvBuffBody =>
                \/ /\ loop.recv > 0 /\ up[c] # <<>> /\ m.kind = "name" /\ m.data \in File
                   /\ LoopIs("dispatch", loop.fd, loop.recv, m.data, loop.len)
                   /\ up' = [up EXCEPT ![c] = Tail(@)]
                \/ /\ up[c] = <<>> /\ client[c].pc \in Ended /\ up' = up
                   /\ LoopIs("dispatch", loop.fd, loop.recv, loop.cmd, loop.len)
  <1>0. TypeInv /\ Turns(c) /\ loop \in LoopRecord /\ up[c] \in Seq(Request)
    BY DEF BaseInv, TypeInv, NetType
  <1>1. up[c] # <<>> => Head(up[c]) = up[c][1] /\ Head(up[c]) \in Request
    BY <1>0
  <1>2. ASSUME RecvBuffLength
        PROVE  \/ /\ up[c] # <<>> /\ Head(up[c]).kind = "len" /\ Head(up[c]).data \in Nat \ {0}
                  /\ LoopIs("body", loop.fd, Head(up[c]).data, loop.cmd, loop.len)
                  /\ up' = [up EXCEPT ![c] = Tail(@)]
               \/ /\ up[c] = <<>> /\ client[c].pc \in Ended /\ up' = up
                  /\ LoopIs("body", loop.fd, 0, loop.cmd, loop.len)
    <2>1. Stage(c) = "len"
      BY <1>2 DEF RecvBuffLength, AtLoop, Stage
    <2>2. CASE up[c] # <<>>
      <3>1. Head(up[c]).kind = "len" /\ Head(up[c]).data \in Nat \ {0}
        BY <1>0, <1>1, <2>1, <2>2 DEF Turns, Request
      <3>2. /\ loop' = [loop EXCEPT !.pc = "body", !.recv = Head(up[c]).data]
            /\ up' = [up EXCEPT ![c] = Tail(@)]
        BY <1>2, <2>2 DEF RecvBuffLength
      <3>3. QED
        BY <1>0, <2>2, <3>1, <3>2 DEF LoopRecord, LoopIs
    <2>3. CASE up[c] = <<>>
      <3>1. client[c].pc \in Ended /\ up' = up /\ loop' = [loop EXCEPT !.pc = "body", !.recv = 0]
        BY <1>2, <2>3 DEF RecvBuffLength
      <3>2. QED
        BY <1>0, <2>3, <3>1 DEF LoopRecord, LoopIs
    <2>4. QED
      BY <2>2, <2>3
  <1>3. ASSUME RecvBuffBody
        PROVE  \/ /\ loop.recv > 0 /\ up[c] # <<>> /\ Head(up[c]).kind = "name"
                  /\ Head(up[c]).data \in File
                  /\ LoopIs("dispatch", loop.fd, loop.recv, Head(up[c]).data, loop.len)
                  /\ up' = [up EXCEPT ![c] = Tail(@)]
               \/ /\ up[c] = <<>> /\ client[c].pc \in Ended /\ up' = up
                  /\ LoopIs("dispatch", loop.fd, loop.recv, loop.cmd, loop.len)
    <2>1. Stage(c) = "body" /\ loop.recv \in Nat
      BY <1>0, <1>3, LoopFields DEF RecvBuffBody, AtLoop, Stage
    <2>2. CASE loop.recv > 0 /\ up[c] # <<>>
      <3>1. Head(up[c]).kind = "name" /\ Head(up[c]).data \in File
        BY <1>0, <1>1, <2>1, <2>2 DEF Turns, Request
      <3>2. /\ loop' = [loop EXCEPT !.pc = "dispatch", !.cmd = Head(up[c]).data]
            /\ up' = [up EXCEPT ![c] = Tail(@)]
        BY <1>3, <2>1, <2>2 DEF RecvBuffBody
      <3>3. QED
        BY <1>0, <2>2, <3>1, <3>2 DEF LoopRecord, LoopIs
    <2>3. CASE ~(loop.recv > 0 /\ up[c] # <<>>)
      <3>1. up' = up /\ loop' = [loop EXCEPT !.pc = "dispatch"]
            /\ (loop.recv = 0 \/ (up[c] = <<>> /\ client[c].pc \in Ended))
        BY <1>3, <2>3 DEF RecvBuffBody
      <3>2. up[c] = <<>> /\ client[c].pc \in Ended
        BY <1>0, <2>1, <3>1 DEF Turns
      <3>3. QED
        BY <1>0, <3>1, <3>2 DEF LoopRecord, LoopIs
    <2>4. QED
      BY <2>2, <2>3
  <1>4. QED
    BY <1>2, <1>3

\* Nothing changes for a client whose streams and request the step leaves alone.
LEMMA TurnsSame ==
    ASSUME NEW d \in Client, Turns(d), client' = client, up'[d] = up[d], down' = down,
           Stage(d)' = Stage(d), Stage(d) = "none" \/ loop'.recv = loop.recv
    PROVE  Turns(d)'
  BY DEF Turns, Readable

\* The loop accepts a connection.
LEMMA AcceptBase == ASSUME BaseInv, AcceptClient, client' = client, UNCHANGED <<overlapped, alive>>
                    PROVE  BaseInv'
  <1>0. TypeInv /\ Links /\ Places /\ (\A d \in Client : Turns(d)) /\ loop.pc = "wait"
        /\ UNCHANGED <<up, down, loop, queue, running, finished, withdrawn, task>>
    BY DEF BaseInv, AcceptClient, AtLoop, pvars
  <1>1. PICK fd \in Fd :
             /\ conn[fd] = NoClient /\ backlog # <<>> /\ Head(backlog) \in Client
             /\ Head(backlog) \in Range(backlog) /\ Head(backlog) \notin Range(conn)
             /\ conn' = [conn EXCEPT ![fd] = Head(backlog)] /\ backlog' = Tail(backlog)
             /\ ready' \in Seq(Fd \cup {serv_sock}) /\ NoDuplicates(ready')
             /\ serv_sock \in Range(ready') <=> Tail(backlog) # <<>>
             /\ Range(ready') \ {serv_sock} =
                  (Range(ready) \ {serv_sock}) \cup IF Readable(Head(backlog)) THEN {fd} ELSE {}
    BY AcceptEffect
  <1> DEFINE h == Head(backlog)
  <1>2. conn \in [Fd -> Client \cup {NoClient}] /\ backlog \in Seq(Client) /\ h # NoClient
    BY <1>0, <1>1, SyncAssumption DEF TypeInv, NetType
  <1>3. /\ Tail(backlog) \in Seq(Client) /\ NoDuplicates(Tail(backlog))
        /\ Range(Tail(backlog)) = Range(backlog) \ {h}
    BY <1>0, <1>1, <1>2, TailLemma DEF Links
  <1> HIDE DEF h
  <1>4. conn' \in [Fd -> Client \cup {NoClient}] /\ conn'[fd] = h
        /\ \A x \in Fd \ {fd} : conn'[x] = conn[x]
    BY <1>1, <1>2 DEF h
  <1>5. TypeInv'
    BY <1>0, <1>1, <1>3, <1>4 DEF TypeInv, NetType, PoolType, ClientType
  <1>6. \A a \in Fd : conn[a] # h /\ (conn'[a] = h <=> a = fd)
    BY <1>1, <1>2, <1>4 DEF Range, h
  <1>7. Range(conn') \subseteq Range(conn) \cup {h}
    BY <1>2, <1>4 DEF Range
  <1>8. Links'
    <2>1. \A c \in Range(backlog') : client'[c].pc # "new" /\ c \notin Range(conn')
      BY <1>0, <1>1, <1>3, <1>7 DEF Links, h
    <2>2. \A c \in Range(conn') \ {NoClient} : client'[c].pc # "new"
      BY <1>0, <1>1, <1>7 DEF Links, h
    <2>3. \A a, b \in Fd : conn'[a] = conn'[b] /\ conn'[a] # NoClient => a = b
      BY <1>0, <1>4, <1>6 DEF Links
    <2>4. \A x \in Range(ready') \ {serv_sock} : conn'[x] # NoClient
      <3> SUFFICES ASSUME NEW x \in Range(ready') \ {serv_sock} PROVE conn'[x] # NoClient
        OBVIOUS
      <3>1. CASE x = fd
        BY <1>2, <1>4, <3>1
      <3>2. CASE x # fd
        <4>1. x \in Range(ready) \ {serv_sock}
          BY <1>1, <3>2
        <4>2. x \in Fd
          BY <1>0, <4>1 DEF TypeInv, NetType, Range
        <4>3. QED
          BY <1>0, <1>4, <3>2, <4>1, <4>2 DEF Links
      <3>3. QED
        BY <3>1, <3>2
    <2>5. QED
      BY <1>0, <1>1, <1>3, <2>1, <2>2, <2>3, <2>4 DEF Links
  <1>9. Places'
    <2>1. \A t \in Range(queue) : task[t].fd \in Fd /\ conn[task[t].fd] # NoClient
      BY <1>0 DEF Places
    <2>2. \A t \in Range(queue) : conn'[task[t].fd] # NoClient
      BY <1>2, <1>4, <2>1
    <2>3. QED
      BY <1>0, <2>2 DEF Places
  <1>10. ASSUME NEW d \in Client PROVE Turns(d)'
    <2>1. Stage(d) = "none" /\ Stage(d)' = "none"
      BY <1>0 DEF Stage
    <2>2. QED
      BY <1>0, <2>1, TurnsSame
  <1>11. QED
    BY <1>5, <1>8, <1>9, <1>10 DEF BaseInv

\* The loop passes over a descriptor, or turns to a client.
LEMMA EventBase ==
    ASSUME BaseInv, SkipReady \/ ClientEvent, client' = client, UNCHANGED <<overlapped, alive>>
    PROVE  BaseInv'
  <1>0. TypeInv /\ Links /\ Places /\ (\A d \in Client : Turns(d)) /\ loop.pc = "wait"
        /\ UNCHANGED <<up, down, backlog, conn, queue, running, finished, withdrawn, task>>
        /\ ready # <<>> /\ Head(ready) # serv_sock /\ ready' = Tail(ready)
    BY DEF BaseInv, SkipReady, ClientEvent, AtLoop, pvars
  <1>1. /\ Head(ready) \in Fd /\ Head(ready) \in Range(ready)
        /\ Tail(ready) \in Seq(Fd \cup {serv_sock}) /\ NoDuplicates(Tail(ready))
        /\ Range(Tail(ready)) = Range(ready) \ {Head(ready)}
    BY <1>0, ReadyTail DEF serv_sock
  <1>2. \/ loop' = loop
        \/ LoopIs("len", Head(ready), loop.recv, NoFile, loop.len)
           /\ Readable(conn[Head(ready)])
    BY <1>0, LoopEffects DEF SkipReady, ClientEvent
  <1>3. TypeInv'
    BY <1>0, <1>1, <1>2 DEF TypeInv, NetType, PoolType, ClientType, LoopIs
  <1>4. Links'
    <2>1. conn[Head(ready)] # NoClient
      BY <1>0, <1>1 DEF Links
    <2>2. loop' = loop \/ (loop'.pc = "len" /\ loop'.fd = Head(ready))
      BY <1>2 DEF LoopIs
    <2>3. QED
      BY <1>0, <1>1, <2>1, <2>2 DEF Links
  <1>5. Places'
    <2>1. \A t \in Range(queue) : conn[task[t].fd] # NoClient
      BY <1>0 DEF Places
    <2>2. QED
      BY <1>0, <2>1 DEF Places
  <1>6. ASSUME NEW d \in Client PROVE Turns(d)'
    <2>1. Stage(d) = "none"
      BY <1>0 DEF Stage
    <2>2. CASE Stage(d)' = "none"
      BY <1>0, <2>1, <2>2, TurnsSame
    <2>3. CASE Stage(d)' # "none"
      <3>1. Stage(d)' = "len" /\ Readable(d)
        BY <1>0, <1>2, <2>3 DEF Stage, LoopIs
      <3>2. Turns(d) /\ up' = up /\ down' = down
        BY <1>0
      <3>3. QED
        BY <2>1, <3>1, <3>2 DEF Turns, Readable
    <2>4. QED
      BY <2>2, <2>3
  <1>7. QED
    BY <1>3, <1>4, <1>5, <1>6 DEF BaseInv

\* What is left of a stream when its first piece has been read.
LEMMA AlternateTail ==
    ASSUME NEW u \in Seq(Request), u # <<>>, \A i \in 1 .. Len(u) - 1 : u[i].kind # u[i + 1].kind
    PROVE  LET v == Tail(u) IN
           /\ \A i \in 1 .. Len(v) - 1 : v[i].kind # v[i + 1].kind
           /\ v # <<>> => v[1].kind # u[1].kind /\ v[Len(v)] = u[Len(u)]
           /\ v = <<>> => u[1] = u[Len(u)]
  <1> DEFINE v == Tail(u)
             n == Len(u)
  <1>1. /\ n \in Nat \ {0} /\ v \in Seq(Request) /\ Len(v) = n - 1 /\ \A i \in 1 .. n - 1 : v[i] = u[i + 1]
    BY HeadTailProperties, EmptySeq
  <1>2. v = <<>> <=> Len(v) = 0
    <2> HIDE DEF v
    <2>1. QED
      BY <1>1
  <1> HIDE DEF v
  <1>3. QED
    BY <1>1, <1>2 DEF v

\* The loop reads a length or a name.
LEMMA ReadBase ==
    ASSUME BaseInv, RecvBuffLength \/ RecvBuffBody, client' = client, UNCHANGED <<overlapped, alive>>
    PROVE  BaseInv'
  <1>0. TypeInv /\ Links /\ Places /\ (\A d \in Client : Turns(d)) /\ loop.pc \in {"len", "body"}
        /\ UNCHANGED <<down, backlog, conn, ready, queue, running, finished, withdrawn, task>>
    BY DEF BaseInv, RecvBuffLength, RecvBuffBody, AtLoop, pvars
  <1>1. loop.fd \in Fd /\ conn[loop.fd] \in Client /\ up \in [Client -> Seq(Request)]
    BY <1>0 DEF Links, TypeInv, NetType
  <1>2. PICK c \in Client : c = conn[loop.fd]
    BY <1>1
  <1>3. up[c] \in Seq(Request) /\ (up[c] # <<>> => Tail(up[c]) \in Seq(Request))
    BY <1>1
  <1> DEFINE e(p) == \/ /\ up[c] # <<>> /\ up' = [up EXCEPT ![c] = Tail(@)]
                        /\ \/ p = "body" /\ Head(up[c]).kind = "len" /\ loop'.recv > 0
                           \/ p = "dispatch" /\ Head(up[c]).kind = "name"
                                             /\ loop'.recv = loop.recv /\ loop.recv > 0
                     \/ up[c] = <<>> /\ client[c].pc \in Ended /\ up' = up
  <1>4. PICK p \in {"body", "dispatch"} :
            /\ loop' \in LoopRecord /\ loop'.pc = p /\ loop'.fd = loop.fd
            /\ p = IF loop.pc = "len" THEN "body" ELSE "dispatch"
            /\ e(p)
    <2>1. CASE RecvBuffLength
      BY <1>2, <2>1, ReadEffects DEF LoopIs, RecvBuffLength, AtLoop
    <2>2. CASE RecvBuffBody
      BY <1>2, <2>2, ReadEffects DEF LoopIs, RecvBuffBody, AtLoop
    <2>3. QED
      BY <2>1, <2>2
  <1> HIDE DEF e
  <1>5. up' \in [Client -> Seq(Request)]
    BY <1>3, <1>4, <1>1 DEF e
  <1>6. TypeInv'
    BY <1>0, <1>4, <1>5 DEF TypeInv, NetType, PoolType, ClientType
  <1>7. Links'
    BY <1>0, <1>4 DEF Links
  <1>8. Places'
    BY <1>0, <1>4 DEF Places
  <1>9. ASSUME NEW d \in Client \ {c} PROVE Turns(d)'
    <2>1. Stage(d) = "none" /\ Stage(d)' = "none" /\ up'[d] = up[d]
      BY <1>0, <1>4, <1>1, <1>2 DEF Stage, e
    <2>2. QED
      BY <1>0, <2>1, TurnsSame
  <1>10. Turns(c)'
    <2>1. Stage(c) = loop.pc /\ Stage(c)' = p /\ Turns(c) /\ client' = client /\ down' = down
      BY <1>0, <1>4, <1>1, <1>2 DEF Stage
    <2>2. CASE up[c] = <<>>
      <3>1. client[c].pc \in Ended /\ up' = up
        BY <1>4, <2>2 DEF e
      <3>2. QED
        BY <2>1, <2>2, <3>1 DEF Turns, Readable, Ended
    <2>3. CASE up[c] # <<>>
      <3>1. up'[c] = Tail(up[c]) /\ Head(up[c]) = up[c][1]
        BY <1>3, <1>4, <1>1, <2>3 DEF e
      <3>2. /\ \A i \in 1 .. Len(up'[c]) - 1 : up'[c][i].kind # up'[c][i + 1].kind
            /\ up'[c] # <<>> => up'[c][1].kind # up[c][1].kind
                                /\ up'[c][Len(up'[c])] = up[c][Len(up[c])]
            /\ up'[c] = <<>> => up[c][1] = up[c][Len(up[c])]
        BY <1>3, <2>1, <2>3, <3>1, AlternateTail DEF Turns
      <3>3. up'[c] # <<>> => up'[c][1].kind \in {"len", "name"}
        BY <1>5, <1>3 DEF Request
      <3>4. \/ p = "body" /\ up[c][1].kind = "len" /\ loop'.recv > 0
            \/ p = "dispatch" /\ up[c][1].kind = "name" /\ loop'.recv > 0
        BY <1>4, <2>3, <3>1 DEF e
      <3>5. client[c].pc # "new"
        BY <2>1, <2>3 DEF Turns
      <3>6. CASE p = "body"
        BY <2>1, <2>3, <3>2, <3>3, <3>4, <3>5, <3>6 DEF Turns, Readable
      <3>7. CASE p = "dispatch"
        BY <2>1, <2>3, <3>2, <3>3, <3>4, <3>5, <3>7 DEF Turns, Readable
      <3>8. QED
        BY <3>6, <3>7
    <2>4. QED
      BY <2>2, <2>3
  <1>11. QED
    BY <1>6, <1>7, <1>8, <1>9, <1>10 DEF BaseInv

\* What submitting a task does to the pool.
LEMMA SubmitEffect ==
    ASSUME TypeInv, Links, SubmitTask
    PROVE  LET n == Len(task) + 1 IN
           /\ n \in Task /\ n \notin DOMAIN task /\ n \notin Range(queue) \cup running
           /\ loop.fd \in Fd /\ loop.recv > 0 /\ loop.pc = "dispatch"
           /\ queue' \in Seq(Task) /\ Range(queue') = Range(queue) \cup {n}
           /\ NoDuplicates(queue) => NoDuplicates(queue')
           /\ task' \in Seq(FrameRecord) /\ DOMAIN task' = DOMAIN task \cup {n}
           /\ task'[n] = Frame(loop.fd) /\ \A t \in DOMAIN task : task'[t] = task[t]
           /\ UNCHANGED <<netvars, running, finished, withdrawn>>
  <1> DEFINE n == Len(task) + 1
  <1>1. /\ task \in Seq(FrameRecord) /\ queue \in Seq(Task)
        /\ Range(queue) \cup running \subseteq DOMAIN task
    BY DEF TypeInv, PoolType
  <1>2. /\ loop.pc = "dispatch" /\ loop.fd \in Fd /\ loop.recv > 0
        /\ task' = Append(task, Frame(loop.fd)) /\ Pool!Accept(n) /\ UNCHANGED netvars
    BY DEF SubmitTask, AtLoop, Links
  <1>3. DOMAIN task = 1 .. Len(task) /\ Len(task) \in Nat /\ n \in Task /\ n \notin DOMAIN task
    BY <1>1 DEF Task
  <1>4. Frame(loop.fd) \in FrameRecord
    BY <1>2 DEF Frame, FrameRecord
  <1>5. /\ task' \in Seq(FrameRecord) /\ DOMAIN task' = 1 .. Len(task) + 1
        /\ task'[n] = Frame(loop.fd) /\ \A t \in 1 .. Len(task) : task'[t] = task[t]
    <2>1. \A x \in FrameRecord : /\ Append(task, x) \in Seq(FrameRecord)
                                 /\ DOMAIN Append(task, x) = 1 .. Len(task) + 1
                                 /\ Append(task, x)[n] = x
                                 /\ \A t \in 1 .. Len(task) : Append(task, x)[t] = task[t]
      BY <1>1
    <2> HIDE DEF n
    <2>2. QED
      BY <1>2, <1>4, <2>1
  <1>6. queue' = Append(queue, n) /\ UNCHANGED <<running, finished, withdrawn>>
    BY <1>2 DEF Pool!Accept
  <1>7. n \notin Range(queue) \cup running
    BY <1>1, <1>3
  <1> HIDE DEF n
  <1>8. /\ queue' \in Seq(Task) /\ Range(queue') = Range(queue) \cup {n}
        /\ NoDuplicates(queue) => NoDuplicates(queue')
    BY <1>1, <1>3, <1>6, <1>7, AppendLemma, AppendProperties
  <1>9. DOMAIN task' = DOMAIN task \cup {n}
    BY <1>3, <1>5 DEF n
  <1>10. QED
    BY <1>2, <1>3, <1>5, <1>6, <1>7, <1>8, <1>9 DEF n

\* The loop hands a request to the pool.
LEMMA SubmitBase ==
    ASSUME BaseInv, SubmitTask, client' = client, UNCHANGED <<overlapped, alive>>
    PROVE  BaseInv'
  <1>0. TypeInv /\ Links /\ Places /\ (\A d \in Client : Turns(d))
    BY DEF BaseInv
  <1>1. PICK n \in Task :
           /\ n \notin DOMAIN task /\ n \notin Range(queue) \cup running
           /\ loop.fd \in Fd /\ loop.recv > 0 /\ loop.pc = "dispatch"
           /\ queue' \in Seq(Task) /\ Range(queue') = Range(queue) \cup {n}
           /\ NoDuplicates(queue) => NoDuplicates(queue')
           /\ task' \in Seq(FrameRecord) /\ DOMAIN task' = DOMAIN task \cup {n}
           /\ task'[n] = Frame(loop.fd) /\ (\A t \in DOMAIN task : task'[t] = task[t])
           /\ UNCHANGED <<netvars, running, finished, withdrawn>>
    BY <1>0, SubmitEffect
  <1>2. LoopIs("wait", 0, 0, loop.cmd, loop.recv)
    BY <1>0, LoopEffects
  <1>3. Range(queue) \cup running \cup finished \cup withdrawn \subseteq DOMAIN task
    BY <1>0 DEF TypeInv, PoolType
  <1>4. PoolType'
    BY <1>0, <1>1, <1>3 DEF TypeInv, PoolType
  <1>5. TypeInv'
    BY <1>0, <1>1, <1>2, <1>4 DEF TypeInv, NetType, ClientType, LoopIs, netvars
  <1>6. Links'
    BY <1>0, <1>1, <1>2 DEF Links, LoopIs, netvars
  <1>7. Places'
    <2>1. conn' = conn /\ conn[loop.fd] # NoClient
      BY <1>0, <1>1 DEF netvars, Links
    <2>2. Frame(loop.fd).fd = loop.fd
      BY DEF Frame
    <2>3. \A t \in Range(queue) \cup running : task'[t] = task[t]
      BY <1>1, <1>3
    <2>4. NoDuplicates(queue') /\ Range(queue') \cap running' = {}
      BY <1>0, <1>1 DEF Places
    <2>5. \A t \in Range(queue') \cup running' : task'[t].fd \in Fd
      BY <1>0, <1>1, <2>2, <2>3 DEF Places
    <2>6. ASSUME NEW t \in Range(queue')
          PROVE  task'[t] = Frame(task'[t].fd) /\ conn'[task'[t].fd] # NoClient
      <3>1. CASE t = n
        BY <1>1, <2>1, <2>2, <3>1
      <3>2. CASE t \in Range(queue)
        <4>1. task[t] = Frame(task[t].fd) /\ conn[task[t].fd] # NoClient
          BY <1>0, <1>1, <3>2 DEF Places
        <4>2. QED
          BY <2>1, <2>3, <3>2, <4>1
      <3>3. QED
        BY <1>1, <3>1, <3>2
    <2>7. QED
      BY <2>4, <2>5, <2>6 DEF Places
  <1>8. ASSUME NEW d \in Client PROVE Turns(d)'
    <2>1. Stage(d)' = "none" /\ Stage(d) \in {"none", "dispatch"} /\ Turns(d)
          /\ up' = up /\ down' = down
      BY <1>0, <1>1, <1>2 DEF Stage, LoopIs, netvars
    <2>2. QED
      BY <2>1 DEF Turns, Readable
  <1>9. QED
    BY <1>5, <1>6, <1>7, <1>8 DEF BaseInv

\* The loop closes a descriptor at the end of its stream, and then withdraws its tasks.
LEMMA CloseBase ==
    ASSUME BaseInv, CloseClient, client' = client, UNCHANGED <<overlapped, alive>>
    PROVE  BaseInv'
  <1>0. TypeInv /\ Links /\ Places /\ (\A d \in Client : Turns(d))
        /\ UNCHANGED <<up, down, backlog, queue, running, finished, withdrawn, task>>
    BY DEF BaseInv, CloseClient, pvars
  <1>1. /\ loop.pc = "dispatch" /\ loop.recv = 0 /\ loop.fd \in Fd /\ conn[loop.fd] # NoClient
        /\ conn' = [conn EXCEPT ![loop.fd] = NoClient]
        /\ ready' = Keep(ready, Range(ready) \ {loop.fd})
    BY <1>0 DEF CloseClient, AtLoop, Links
  <1>2. LoopIs("delete", loop.fd, loop.recv, loop.cmd, 0)
    BY <1>0, LoopEffects
  <1>3. conn \in [Fd -> Client \cup {NoClient}] /\ ready \in Seq(Fd \cup {serv_sock})
    BY <1>0 DEF TypeInv, NetType
  <1>4. /\ ready' \in Seq(Fd \cup {serv_sock}) /\ NoDuplicates(ready')
        /\ Range(ready') = Range(ready) \ {loop.fd}
    <2>1. NoDuplicates(ready)
      BY <1>0 DEF Links
    <2>2. QED
      BY <1>1, <1>3, <2>1, KeepType, KeepRange, KeepNoDuplicates
  <1>5. /\ conn' \in [Fd -> Client \cup {NoClient}] /\ conn'[loop.fd] = NoClient
        /\ \A x \in Fd \ {loop.fd} : conn'[x] = conn[x]
    BY <1>1, <1>3
  <1>6. TypeInv'
    BY <1>0, <1>2, <1>4, <1>5 DEF TypeInv, NetType, PoolType, ClientType, LoopIs
  <1>7. Links'
    <2>1. Range(conn') \subseteq Range(conn) \cup {NoClient}
      BY <1>3, <1>5 DEF Range
    <2>2. \A c \in Range(backlog) : c # NoClient
      BY <1>0, SyncAssumption DEF TypeInv, NetType, Range
    <2>3. \A c \in Range(backlog') : client'[c].pc # "new" /\ c \notin Range(conn')
      BY <1>0, <2>1, <2>2 DEF Links
    <2>4. \A c \in Range(conn') \ {NoClient} : client'[c].pc # "new"
      BY <1>0, <2>1 DEF Links
    <2>5. \A a, b \in Fd : conn'[a] = conn'[b] /\ conn'[a] # NoClient => a = b
      BY <1>0, <1>5 DEF Links
    <2>6. serv_sock # loop.fd
      BY <1>1 DEF Fd, serv_sock
    <2>7. \A fd \in Range(ready') \ {serv_sock} : conn'[fd] # NoClient
      <3>1. Range(ready) \subseteq Fd \cup {serv_sock}
        BY <1>3 DEF Range
      <3>2. QED
        BY <1>0, <1>4, <1>5, <3>1 DEF Links
    <2>8. QED
      BY <1>0, <1>1, <1>2, <1>4, <1>5, <2>3, <2>4, <2>5, <2>6, <2>7 DEF Links, LoopIs
  <1>8. Places'
    <2>1. \A t \in Range(queue) : task[t].fd \in Fd /\ conn[task[t].fd] # NoClient
      BY <1>0, <1>1 DEF Places
    <2>2. \A t \in Range(queue) : conn'[task[t].fd] = NoClient => loop'.pc = "delete" /\ loop'.fd = task[t].fd
      BY <1>2, <1>5, <2>1 DEF LoopIs
    <2>3. QED
      BY <1>0, <2>2 DEF Places
  <1>9. ASSUME NEW d \in Client PROVE Turns(d)'
    <2>1. Stage(d)' = "none" /\ Stage(d) \in {"none", "dispatch"} /\ Turns(d)
      BY <1>0, <1>1, <1>2 DEF Stage, LoopIs
    <2>2. up' = up /\ down' = down
      BY <1>0
    <2>3. QED
      BY <2>1, <2>2 DEF Turns, Readable
  <1>10. QED
    BY <1>6, <1>7, <1>8, <1>9 DEF BaseInv

\* What withdrawing the tasks of a descriptor does to the pool.
LEMMA WithdrawEffect ==
    ASSUME TypeInv, DelCloseFD
    PROVE  /\ queue' \in Seq(Task) /\ (NoDuplicates(queue) => NoDuplicates(queue'))
           /\ Range(queue') = {t \in Range(queue) : task[t].fd # loop.fd}
           /\ withdrawn' \subseteq withdrawn \cup Range(queue)
           /\ loop.pc = "delete" /\ UNCHANGED <<netvars, task, running, finished>>
  <1> DEFINE D == {t \in Range(queue) : task[t].fd = loop.fd}
  <1>1. Pool!Withdraw(D) /\ loop.pc = "delete" /\ UNCHANGED <<netvars, task>>
    BY PoolOperators DEF DelCloseFD, AtLoop
  <1> HIDE DEF D
  <1>2. queue' = Keep(queue, Range(queue) \ D) /\ withdrawn' = withdrawn \cup D
        /\ UNCHANGED <<running, finished>>
    BY <1>1, PoolOperators DEF Pool!Withdraw
  <1>3. queue \in Seq(Task)
    BY DEF TypeInv, PoolType
  <1>4. /\ queue' \in Seq(Task) /\ (NoDuplicates(queue) => NoDuplicates(queue'))
        /\ Range(queue') = Range(queue) \ D
    BY <1>2, <1>3, KeepType, KeepRange, KeepNoDuplicates
  <1>5. QED
    BY <1>1, <1>2, <1>4 DEF D

\* The loop withdraws the queued tasks of the descriptor it has closed.
LEMMA DeleteBase ==
    ASSUME BaseInv, DelCloseFD, client' = client, UNCHANGED <<overlapped, alive>>
    PROVE  BaseInv'
  <1>0. TypeInv /\ Links /\ Places /\ (\A d \in Client : Turns(d))
    BY DEF BaseInv
  <1>1. /\ queue' \in Seq(Task) /\ (NoDuplicates(queue) => NoDuplicates(queue'))
        /\ Range(queue') = {t \in Range(queue) : task[t].fd # loop.fd}
        /\ withdrawn' \subseteq withdrawn \cup Range(queue)
        /\ loop.pc = "delete" /\ UNCHANGED <<netvars, task, running, finished>>
    BY <1>0, WithdrawEffect
  <1>2. LoopIs("wait", 0, loop.recv, loop.cmd, loop.len)
    BY <1>0, LoopEffects
  <1>3. PoolType'
    <2>1. Range(queue') \subseteq Range(queue)
      BY <1>1
    <2>2. /\ task \in Seq(FrameRecord)
          /\ Range(queue) \cup running \cup finished \cup withdrawn \subseteq DOMAIN task
          /\ \A t \in running : task[t].pc = "chunkbody" => task[t].left > 0
      BY <1>0 DEF TypeInv, PoolType
    <2>3. QED
      BY <1>1, <2>1, <2>2 DEF PoolType
  <1>4. TypeInv'
    BY <1>0, <1>1, <1>2, <1>3 DEF TypeInv, NetType, ClientType, LoopIs, netvars
  <1>5. Links'
    BY <1>0, <1>1, <1>2 DEF Links, LoopIs, netvars
  <1>6. Places'
    <2>1. \A t \in Range(queue') : t \in Range(queue) /\ conn[task[t].fd] # NoClient
      BY <1>0, <1>1 DEF Places
    <2>2. conn' = conn
      BY <1>1 DEF netvars
    <2>3. /\ NoDuplicates(queue') /\ Range(queue') \cap running' = {}
          /\ \A t \in Range(queue') \cup running' : task'[t].fd \in Fd
          /\ \A t \in Range(queue') : task'[t] = Frame(task'[t].fd)
      BY <1>0, <1>1, <2>1 DEF Places
    <2>4. QED
      BY <1>1, <2>1, <2>2, <2>3 DEF Places
  <1>7. ASSUME NEW d \in Client PROVE Turns(d)'
    <2>1. Stage(d)' = "none" /\ Stage(d) = "none" /\ Turns(d) /\ up' = up /\ down' = down
      BY <1>0, <1>1, <1>2 DEF Stage, LoopIs, netvars
    <2>2. QED
      BY <2>1, TurnsSame
  <1>8. QED
    BY <1>4, <1>5, <1>6, <1>7 DEF BaseInv

-----------------------------------------------------------------------------
(* The tasks. *)

(* The fields of task t after a step; the other tasks stay as they are. *)
FrameIs(t, fd, pc, file, pos, left) ==
    /\ task' \in Seq(FrameRecord) /\ DOMAIN task' = DOMAIN task
    /\ task'[t].fd = fd /\ task'[t].pc = pc /\ task'[t].file = file
    /\ task'[t].pos = pos /\ task'[t].left = left
    /\ \A u \in DOMAIN task \ {t} : task'[u] = task[u]

\* The name a task finds in the loop's variables is that of a file or none.
LEMMA CapturedType == TypeInv => CapturedName \in File \cup {NoFile}
  BY LoopFields DEF CapturedName

\* The parts of a task that was submitted.
LEMMA FrameFields ==
    ASSUME TypeInv, NEW t \in Range(queue) \cup running
    PROVE  /\ task \in Seq(FrameRecord) /\ t \in DOMAIN task /\ task[t] \in FrameRecord
           /\ task[t].fd \in Fd \cup {0} /\ task[t].file \in File \cup {NoFile}
           /\ task[t].pos \in Nat /\ task[t].left \in Nat
           /\ task[t].pc \in {"open", "infolen", "info", "chunk", "chunkbody"}
  <1>1. task \in Seq(FrameRecord) /\ t \in DOMAIN task
    BY DEF TypeInv, PoolType
  <1>2. task[t] \in FrameRecord
    BY <1>1
  <1>3. QED
    BY <1>1, <1>2 DEF FrameRecord

\* What each action of a task does to it.
LEMMA FrameEffects ==
    ASSUME TypeInv, NEW t \in running
    PROVE  LET r == task[t] IN
           /\ OpenFile(t) => FrameIs(t, r.fd, "infolen", CapturedName, r.pos,
                                     SendGroups(Len(Content(CapturedName))))
           /\ SendInfoLength(t) => FrameIs(t, r.fd, "info", r.file, r.pos, r.left)
           /\ SendInfo(t) => FrameIs(t, r.fd, "chunk", r.file, r.pos, r.left)
           /\ SendChunkLength(t) => FrameIs(t, r.fd, "chunkbody", r.file, r.pos, r.left)
           /\ SendChunk(t) => FrameIs(t, r.fd, "chunk", r.file,
                                      r.pos + Len(Group(r.file, r.pos)), r.left - 1)
           /\ EndTask(t) => FrameIs(t, 0, "open", NoFile, 0, 0)
  <1>0. task \in Seq(FrameRecord) /\ t \in DOMAIN task /\ task[t] \in FrameRecord
    BY FrameFields
  <1>1. /\ task[t].fd \in Fd \cup {0} /\ task[t].file \in File \cup {NoFile} /\ task[t].pos \in Nat
        /\ task[t].left \in Nat
    BY FrameFields
  <1>2. ASSUME NEW r \in FrameRecord, task' = [task EXCEPT ![t] = r]
        PROVE  /\ task' \in Seq(FrameRecord) /\ DOMAIN task' = DOMAIN task /\ task'[t] = r
               /\ \A u \in DOMAIN task \ {t} : task'[u] = task[u]
    BY <1>0, <1>2
  <1>3. ASSUME NEW pc \in {"info", "chunk", "chunkbody"}, task' = [task EXCEPT ![t].pc = pc]
        PROVE  FrameIs(t, task[t].fd, pc, task[t].file, task[t].pos, task[t].left)
    <2>1. PICK r \in FrameRecord : r = [task[t] EXCEPT !.pc = pc]
      BY <1>0 DEF FrameRecord
    <2>2. task' = [task EXCEPT ![t] = r]
      BY <1>3, <2>1, Zenon
    <2>3. /\ r.fd = task[t].fd /\ r.pc = pc /\ r.file = task[t].file /\ r.pos = task[t].pos
          /\ r.left = task[t].left
      BY <1>0, <2>1 DEF FrameRecord
    <2>4. QED
      BY <1>2, <2>2, <2>3 DEF FrameIs
  <1>4. ASSUME OpenFile(t)
        PROVE  FrameIs(t, task[t].fd, "infolen", CapturedName, task[t].pos,
                       SendGroups(Len(Content(CapturedName))))
    <2>1. PICK f \in File \cup {NoFile} : f = CapturedName
      BY CapturedType
    <2>2. PICK n \in Nat : n = SendGroups(Len(Content(f)))
      BY ContentType, GroupsType
    <2>3. task' = [task EXCEPT ![t].pc = "infolen", ![t].file = f, ![t].left = n]
      BY <1>4, <2>1, <2>2, Zenon DEF OpenFile
    <2> DEFINE r == [task[t] EXCEPT !.pc = "infolen", !.file = f, !.left = n]
    <2>4. /\ r \in FrameRecord /\ r.fd = task[t].fd /\ r.pc = "infolen" /\ r.file = f
          /\ r.pos = task[t].pos /\ r.left = n
      BY <1>0 DEF FrameRecord
    <2>5. task' = [task EXCEPT ![t] = r]
      BY <1>0, <2>3 DEF FrameRecord
    <2> HIDE DEF r
    <2>6. QED
      BY <1>2, <2>1, <2>2, <2>4, <2>5 DEF FrameIs
  <1>5. ASSUME SendChunk(t)
        PROVE  FrameIs(t, task[t].fd, "chunk", task[t].file,
                       task[t].pos + Len(Group(task[t].file, task[t].pos)), task[t].left - 1)
    <2>1. PICK p \in Nat : p = task[t].pos + Len(Group(task[t].file, task[t].pos))
      BY <1>1, GroupType
    <2>2. PICK n \in Nat : n = task[t].left - 1
      BY <1>1, <1>5 DEF SendChunk, AtTask, TypeInv, PoolType
    <2>3. task' = [task EXCEPT ![t].pc = "chunk", ![t].pos = p, ![t].left = n]
      BY <1>5, <2>1, <2>2, Zenon DEF SendChunk, ReadFile
    <2> DEFINE r == [task[t] EXCEPT !.pc = "chunk", !.pos = p, !.left = n]
    <2>4. /\ r \in FrameRecord /\ r.fd = task[t].fd /\ r.pc = "chunk" /\ r.file = task[t].file
          /\ r.pos = p /\ r.left = n
      BY <1>0 DEF FrameRecord
    <2>5. task' = [task EXCEPT ![t] = r]
      BY <1>0, <2>3 DEF FrameRecord
    <2> HIDE DEF r
    <2>6. QED
      BY <1>2, <2>1, <2>2, <2>4, <2>5 DEF FrameIs
  <1>6. ASSUME EndTask(t) PROVE FrameIs(t, 0, "open", NoFile, 0, 0)
    <2>1. /\ Frame(0) \in FrameRecord /\ Frame(0).fd = 0 /\ Frame(0).pc = "open"
          /\ Frame(0).file = NoFile /\ Frame(0).pos = 0 /\ Frame(0).left = 0
      BY DEF Frame, FrameRecord
    <2>2. task' = [task EXCEPT ![t] = Frame(0)]
      BY <1>6 DEF EndTask
    <2>3. QED
      BY <1>2, <2>1, <2>2 DEF FrameIs
  <1>7. QED
    BY <1>3, <1>4, <1>5, <1>6 DEF SendInfoLength, SendInfo, SendChunkLength

\* What a send does: the bytes go to the client whose connection the task's descriptor
\* is, or nowhere.
LEMMA SendEffect ==
    ASSUME TypeInv, NEW t \in running, NEW m \in Reply, Send(t, m)
    PROVE  /\ down' \in [Client -> Seq(Reply)] /\ alive' \in BOOLEAN
           /\ UNCHANGED <<up, backlog, conn, ready, pvars>>
           /\ \A d \in Client : down'[d] = IF d \in Clients /\ d = conn[task[t].fd]
                                           THEN Append(down[d], m) ELSE down[d]
           /\ conn[task[t].fd] \in Clients => alive' = alive
  <1>1. down \in [Client -> Seq(Reply)] /\ alive \in BOOLEAN /\ Clients \subseteq Client
        /\ NoClient \notin Clients
    BY SyncAssumption DEF TypeInv, NetType, Clients
  <1>2. \A d \in Client : Append(down[d], m) \in Seq(Reply)
    BY <1>1
  <1>3. QED
    BY <1>1, <1>2 DEF Send

\* What a task sends are pieces of an answer.
LEMMA PieceTypes ==
    ASSUME TypeInv, NEW t \in running
    PROVE  /\ Length(InfoLen) \in Reply /\ Info(Len(Content(task[t].file))) \in Reply
           /\ Length(ReadFile(t).len) \in Reply /\ Chunk(ReadFile(t).bytes) \in Reply
  <1>1. task[t].file \in File \cup {NoFile} /\ task[t].pos \in Nat
    BY FrameFields
  <1>2. /\ Len(Content(task[t].file)) \in Nat /\ Group(task[t].file, task[t].pos) \in Seq(Bytes)
        /\ Len(Group(task[t].file, task[t].pos)) \in Nat
    BY <1>1, ContentType, GroupType
  <1>3. QED
    BY <1>2 DEF Length, Info, Chunk, InfoLen, ReadFile, Reply

(* The part of a step of task t that is the same for all of them. *)
OwnTask(t) ==
    /\ UNCHANGED <<client, overlapped, loop, up, backlog, conn, ready, queue, withdrawn>>
    /\ task' \in Seq(FrameRecord) /\ DOMAIN task' = DOMAIN task
    /\ \A u \in DOMAIN task \ {t} : task'[u] = task[u]
    /\ down' \in [Client -> Seq(Reply)] /\ alive' \in BOOLEAN
    /\ \A d \in Client \ Clients : down'[d] = down[d]
    /\ \/ running' = running /\ finished' = finished /\ task'[t].fd = task[t].fd
       \/ running' = running \ {t} /\ finished' = finished \cup {t}
    /\ t \in running' => (task'[t].pc = "chunkbody" => task'[t].left > 0)

\* A step of a task leaves the other tasks, the clients and the loop alone.
LEMMA OwnTaskStep ==
    ASSUME TypeInv, NEW t \in running, TaskStep(t)
    PROVE  OwnTask(t)
  <1>0. UNCHANGED <<client, overlapped, loop>> /\ down \in [Client -> Seq(Reply)] /\ alive \in BOOLEAN
    BY DEF TaskStep, TypeInv, NetType
  <1>1. CASE OpenFile(t)
    BY <1>0, <1>1, FrameEffects DEF OpenFile, FrameIs, OwnTask, netvars, pvars
  <1>2. CASE SendInfoLength(t)
    <2>1. Send(t, Length(InfoLen)) /\ Length(InfoLen) \in Reply
      BY <1>2, PieceTypes DEF SendInfoLength
    <2>2. QED
      BY <1>0, <1>2, <2>1, FrameEffects, SendEffect DEF FrameIs, OwnTask, pvars
  <1>3. CASE SendInfo(t)
    <2>1. Send(t, Info(Len(Content(task[t].file)))) /\ Info(Len(Content(task[t].file))) \in Reply
      BY <1>3, PieceTypes DEF SendInfo
    <2>2. QED
      BY <1>0, <1>3, <2>1, FrameEffects, SendEffect DEF FrameIs, OwnTask, pvars
  <1>4. CASE SendChunkLength(t)
    <2>1. Send(t, Length(ReadFile(t).len)) /\ Length(ReadFile(t).len) \in Reply /\ task[t].left > 0
      BY <1>4, PieceTypes DEF SendChunkLength
    <2>2. QED
      BY <1>0, <1>4, <2>1, FrameEffects, SendEffect DEF FrameIs, OwnTask, pvars
  <1>5. CASE SendChunk(t)
    <2>1. Send(t, Chunk(ReadFile(t).bytes)) /\ Chunk(ReadFile(t).bytes) \in Reply
      BY <1>5, PieceTypes DEF SendChunk
    <2>2. QED
      BY <1>0, <1>5, <2>1, FrameEffects, SendEffect DEF FrameIs, OwnTask, pvars
  <1>6. CASE EndTask(t)
    <2>1. /\ running' = running \ {t} /\ finished' = finished \cup {t}
          /\ UNCHANGED <<queue, withdrawn, netvars, alive>>
      BY <1>6 DEF EndTask, Pool!Finish
    <2>2. QED
      BY <1>0, <1>6, <2>1, FrameEffects DEF FrameIs, OwnTask, netvars
  <1>7. QED
    BY <1>1, <1>2, <1>3, <1>4, <1>5, <1>6 DEF TaskStep

\* A step of a task preserves the invariant.
LEMMA TaskBase ==
    ASSUME BaseInv, NEW t \in running, TaskStep(t)
    PROVE  BaseInv'
  <1>0. TypeInv /\ Links /\ Places /\ (\A d \in Client : Turns(d)) /\ OwnTask(t)
    BY OwnTaskStep DEF BaseInv
  <1>1. /\ running' \subseteq running /\ finished' \subseteq finished \cup running
        /\ UNCHANGED <<client, overlapped, loop, up, backlog, conn, ready, queue, withdrawn>>
    BY <1>0 DEF OwnTask
  <1>2. PoolType'
    <2>1. /\ queue \in Seq(Task)
          /\ Range(queue) \cup running \cup finished \cup withdrawn \subseteq DOMAIN task
          /\ \A u \in running : task[u].pc = "chunkbody" => task[u].left > 0
      BY <1>0 DEF TypeInv, PoolType
    <2>2. \A u \in running' : task'[u].pc = "chunkbody" => task'[u].left > 0
      BY <1>0, <1>1, <2>1 DEF OwnTask
    <2>3. QED
      BY <1>0, <1>1, <2>1, <2>2 DEF OwnTask, PoolType
  <1>3. TypeInv'
    BY <1>0, <1>1, <1>2 DEF TypeInv, NetType, ClientType, OwnTask
  <1>4. Links'
    BY <1>0, <1>1 DEF Links
  <1>5. Places'
    <2>1. \A u \in Range(queue) : u # t /\ u \in DOMAIN task
      BY <1>0 DEF Places, TypeInv, PoolType
    <2>2. \A u \in Range(queue) : task'[u] = task[u]
      BY <1>0, <2>1 DEF OwnTask
    <2>3. \A u \in running' : task'[u].fd = task[u].fd
      BY <1>0, <1>1 DEF OwnTask, TypeInv, PoolType
    <2>4. QED
      BY <1>0, <1>1, <2>2, <2>3 DEF Places
  <1>6. ASSUME NEW d \in Client PROVE Turns(d)'
    <2>1. Stage(d)' = Stage(d) /\ Turns(d) /\ client[d].pc = "new" => down'[d] = down[d]
      BY <1>0, <1>1 DEF Stage, OwnTask, Clients
    <2>2. QED
      BY <1>0, <1>1, <2>1 DEF Turns, Readable, Stage
  <1>7. QED
    BY <1>3, <1>4, <1>5, <1>6 DEF BaseInv

\* A worker that takes the oldest task preserves the invariant.
LEMMA StartBase ==
    ASSUME BaseInv, StartTask
    PROVE  BaseInv'
  <1>0. TypeInv /\ Links /\ Places /\ (\A d \in Client : Turns(d))
        /\ UNCHANGED <<client, overlapped, up, down, backlog, conn, ready, loop, task, alive>>
    BY DEF BaseInv, StartTask, netvars
  <1>1. /\ queue # <<>> /\ running' = running \cup {Head(queue)} /\ queue' = Tail(queue)
        /\ UNCHANGED <<finished, withdrawn>>
    BY DEF StartTask, Pool!Start
  <1>2. queue \in Seq(Task) /\ NoDuplicates(queue)
    BY <1>0 DEF TypeInv, PoolType, Places
  <1>3. /\ Tail(queue) \in Seq(Task) /\ NoDuplicates(Tail(queue)) /\ Head(queue) \in Range(queue)
        /\ Range(Tail(queue)) = Range(queue) \ {Head(queue)}
    BY <1>1, <1>2, TailLemma
  <1>4. task[Head(queue)].pc = "open" /\ task[Head(queue)].fd \in Fd
    <2>1. task[Head(queue)] = Frame(task[Head(queue)].fd) /\ task[Head(queue)].fd \in Fd
      BY <1>0, <1>3 DEF Places
    <2>2. \A x : Frame(x).pc = "open"
      BY DEF Frame
    <2>3. QED
      BY <2>1, <2>2
  <1>5. PoolType'
    BY <1>0, <1>1, <1>3, <1>4 DEF TypeInv, PoolType
  <1>6. TypeInv'
    BY <1>0, <1>5 DEF TypeInv, NetType, ClientType
  <1>7. Links'
    BY <1>0 DEF Links
  <1>8. Places'
    BY <1>0, <1>1, <1>3, <1>4 DEF Places
  <1>9. ASSUME NEW d \in Client PROVE Turns(d)'
    BY <1>0 DEF Turns, Readable, Stage
  <1>10. QED
    BY <1>6, <1>7, <1>8, <1>9 DEF BaseInv

-----------------------------------------------------------------------------
(* The invariant, and the first theorem. *)

\* The initial state satisfies the invariant.
LEMMA BaseInit == Init => BaseInv
  <1> SUFFICES ASSUME Init PROVE BaseInv
    OBVIOUS
  <1>0. /\ queue = <<>> /\ running = {} /\ finished = {} /\ withdrawn = {}
        /\ task = <<>> /\ backlog = <<>> /\ ready = <<>>
        /\ loop = [pc |-> "wait", fd |-> 0, recv |-> 0, cmd |-> NoFile, len |-> 0]
    BY DEF Init, Pool!SInit
  <1>1. \A c \in Client : /\ client[c].pc = "new" /\ client[c].arg = 1 /\ client[c].left = 0
                          /\ client[c].copy = <<>> /\ client[c].got = <<>>
    BY DEF Init
  <1>2. client \in [Client -> ClientRecord]
    <2>1. [pc |-> "new", arg |-> 1, len |-> 0, left |-> 0, copy |-> <<>>, got |-> <<>>] \in ClientRecord
      BY DEF ClientRecord
    <2>2. QED
      BY <2>1 DEF Init
  <1>3. ClientType
    BY <1>1, <1>2 DEF ClientType
  <1>4. NetType
    BY DEF Init, NetType
  <1>5. Range(queue) = {} /\ Range(backlog) = {} /\ Range(ready) = {}
        /\ NoDuplicates(queue) /\ NoDuplicates(backlog) /\ NoDuplicates(ready)
    BY <1>0 DEF Range, NoDuplicates
  <1>6. PoolType
    BY <1>0, <1>5 DEF PoolType
  <1>7. loop \in LoopRecord
    BY <1>0 DEF LoopRecord
  <1>8. TypeInv
    BY <1>3, <1>4, <1>6, <1>7 DEF Init, TypeInv
  <1>9. Links
    <2>1. \A fd \in Fd : conn[fd] = NoClient
      BY DEF Init
    <2>2. Range(conn) \subseteq {NoClient}
      BY DEF Init, Range
    <2>3. QED
      BY <1>0, <1>5, <2>1, <2>2 DEF Links
  <1>10. Places
    BY <1>0, <1>5 DEF Places
  <1>11. \A c \in Client : Turns(c)
    <2>1. \A c \in Client : Stage(c) = "none" /\ up[c] = <<>> /\ down[c] = <<>>
      BY <1>0 DEF Init, Stage
    <2>2. QED
      BY <1>1, <2>1 DEF Turns, Ended
  <1>12. QED
    BY <1>8, <1>9, <1>10, <1>11 DEF BaseInv

\* Every step preserves the invariant.
LEMMA BaseStep == ASSUME BaseInv, [Next]_vars PROVE BaseInv'
  <1>1. ASSUME NEW c \in Client, ClientStep(c) \/ Kill(c) PROVE BaseInv'
    BY <1>1, ClientBase, ClientTurns DEF BaseInv
  <1>2. ASSUME NEW c \in Client, InitClient(c) PROVE BaseInv'
    BY <1>2, InitBase
  <1>3. CASE LoopStep
    <2>1. client' = client /\ UNCHANGED <<overlapped, alive>>
      BY <1>3 DEF LoopStep
    <2>2. QED
      BY <1>3, <2>1, AcceptBase, EventBase, ReadBase, SubmitBase, CloseBase, DeleteBase DEF LoopStep
  <1>4. CASE StartTask
    BY <1>4, StartBase
  <1>5. ASSUME NEW t \in running, TaskStep(t) PROVE BaseInv'
    BY <1>5, TaskBase
  <1>6. CASE UNCHANGED vars
    <2>1. UNCHANGED <<client, overlapped, up, down, backlog, conn, ready, loop, queue, running,
                      finished, withdrawn, task, alive>>
      BY <1>6 DEF vars, netvars, pvars
    <2>2. TypeInv' /\ Links' /\ Places'
      BY <2>1 DEF BaseInv, TypeInv, ClientType, NetType, PoolType, Links, Places
    <2>3. \A d \in Client : Turns(d)'
      BY <2>1 DEF BaseInv, Turns, Readable, Stage
    <2>4. QED
      BY <2>2, <2>3 DEF BaseInv
  <1>7. QED
    BY <1>1, <1>2, <1>3, <1>4, <1>5, <1>6 DEF Next, Step

\* The invariant holds in every state.
LEMMA BaseAlways == Spec => []BaseInv
  BY BaseInit, BaseStep, PTL DEF Spec

\* A queued transfer has an open connection, except between the close of its descriptor
\* and the delCloseFD behind it, whatever clients are started and killed; and every
\* variable keeps its type (server.cpp:51-99).
THEOREM TransfersKeepConnection == Spec => []QueuedTasksHaveConnection
  <1>1. BaseInv => QueuedTasksHaveConnection
    <2> SUFFICES ASSUME BaseInv PROVE QueuedTasksHaveConnection
      OBVIOUS
    <2>1. TypeInv /\ Links /\ Places
      BY DEF BaseInv
    <2>2. Pool!Queued = Range(queue)
      BY PoolOperators
    <2>3. client \in [Client -> ClientRecord] /\ task \in Seq(FrameRecord) /\ loop \in LoopRecord
      BY <2>1 DEF TypeInv, ClientType, PoolType
    <2>4. Range(backlog) \subseteq Client /\ Range(ready) \subseteq Fd \cup {serv_sock}
      BY <2>1 DEF TypeInv, NetType, Range
    <2>5. TypeOK
      BY <2>1, <2>2, <2>3, <2>4
      DEF TypeOK, TypeInv, NetType, PoolType, Links, ClientRecord, FrameRecord, LoopRecord, Bytes
    <2>6. QED
      BY <2>1, <2>2, <2>5 DEF QueuedTasksHaveConnection, Places
  <1>2. QED
    BY <1>1, BaseAlways, PTL

-----------------------------------------------------------------------------
(* The pieces of a transfer. *)

Groups(f) == SendGroups(Len(Content(f)))
Total(f) == 2 + 2 * Groups(f)

(* The k-th piece of the answer to a request for file f. *)
Part(f, k) ==
    IF k = 1 THEN Length(InfoLen)
    ELSE IF k = 2 THEN Info(Len(Content(f)))
    ELSE LET b == Group(f, ((k - 3) \div 2) * Split)
         IN IF k % 2 = 1 THEN Length(Len(b)) ELSE Chunk(b)

(* The first g groups of file f have been copied. *)
Copied(b, f, g) ==
    LET n == IF g < Groups(f) THEN g * Split ELSE Len(Content(f))
    IN Len(b) = n /\ \A i \in 1 .. n : b[i] = Content(f)[i]

(* Client record cl has taken r pieces of the answer. *)
Receives(cl, f, r) ==
    \/ r = 0 /\ cl.pc = "infolen" /\ cl.copy = <<>>
    \/ r = 1 /\ cl.pc = "info" /\ cl.copy = <<>> /\ cl.len = InfoLen
    \/ \E g \in 0 .. Groups(f) :
          /\ cl.left = Groups(f) - g /\ Copied(cl.copy, f, g)
          /\ \/ r = 2 + 2 * g /\ cl.pc = "chunk"
             \/ /\ r = 3 + 2 * g /\ cl.pc = "chunkbody" /\ g < Groups(f)
                /\ cl.len = Len(Group(f, g * Split))

(* The pieces in d are the ones behind the r-th up to the s-th. *)
Between(d, f, r, s) ==
    r <= s /\ Len(d) = s - r /\ \A i \in 1 .. Len(d) : d[i] = Part(f, r + i)

(* The task with frame fr has sent s pieces, and some are left. *)
Sends(fr, f, s) ==
    \/ s = 0 /\ fr = Frame(fr.fd)
    \/ /\ s \in {0, 1} /\ fr.pc = (IF s = 0 THEN "infolen" ELSE "info")
       /\ fr.file = f /\ fr.left = Groups(f) /\ fr.pos = 0
    \/ \E g \in 0 .. Groups(f) - 1 :
          /\ fr.file = f /\ fr.left = Groups(f) - g /\ fr.pos = g * Split
          /\ \/ s = 2 + 2 * g /\ fr.pc = "chunk"
             \/ s = 3 + 2 * g /\ fr.pc = "chunkbody"

\* Products grow with their factors.
LEMMA Products ==
    /\ \A a, b, s \in Nat : a <= b => a * s <= b * s
    /\ \A a, s \in Nat : a * s \in Nat /\ (a + 1) * s = a * s + s
  OBVIOUS

\* A file has as many groups as are needed: group g exists when the file goes on behind
\* the g groups before it.
LEMMA GroupCount ==
    ASSUME NEW f \in File \cup {NoFile}
    PROVE  /\ Groups(f) \in Nat
           /\ \A g \in Nat : g < Groups(f) <=> g * Split < Len(Content(f))
  <1> DEFINE n == Len(Content(f))
             G == Groups(f)
  <1>1. n \in Nat /\ Split \in Nat \ {0}
    BY ContentType, SyncAssumption
  <1> HIDE DEF n
  <1>2. G = (n + Split - 1) \div Split
    BY DEF Groups, SendGroups, n
  <1>3. \A a \in Nat, s \in Nat \ {0} :
           a \div s \in Nat /\ (a \div s) * s <= a /\ a < (a \div s) * s + s
    OBVIOUS
  <1>4. n + Split - 1 \in Nat
    BY <1>1
  <1>5. G \in Nat /\ G * Split <= n + Split - 1 /\ n + Split - 1 < G * Split + Split
    BY <1>1, <1>2, <1>3, <1>4
  <1> HIDE DEF G
  <1>6. ASSUME NEW g \in Nat PROVE g < G <=> g * Split < n
    <2>1. /\ g * Split \in Nat /\ (g + 1) * Split = g * Split + Split /\ G * Split \in Nat
      BY <1>1, <1>5, Products
    <2>2. ASSUME g < G PROVE g * Split < n
      <3>1. (g + 1) * Split <= G * Split
        BY <1>1, <1>5, <2>2, Products
      <3>2. QED
        BY <1>1, <1>5, <2>1, <3>1
    <2>3. ASSUME ~(g < G) PROVE ~(g * Split < n)
      <3>1. G * Split <= g * Split
        BY <1>1, <1>5, <2>3, Products
      <3>2. QED
        BY <1>1, <1>5, <2>1, <3>1
    <2>4. QED
      BY <2>2, <2>3
  <1>7. QED
    BY <1>5, <1>6 DEF G, n

\* The pieces of group g.
LEMMA PartOfGroup ==
    ASSUME NEW f, NEW g \in Nat
    PROVE  /\ Part(f, 1) = Length(InfoLen) /\ Part(f, 2) = Info(Len(Content(f)))
           /\ Part(f, 3 + 2 * g) = Length(Len(Group(f, g * Split)))
           /\ Part(f, 4 + 2 * g) = Chunk(Group(f, g * Split))
  <1>1. /\ (3 + 2 * g - 3) \div 2 = g /\ (4 + 2 * g - 3) \div 2 = g
        /\ (3 + 2 * g) % 2 = 1 /\ (4 + 2 * g) % 2 = 0
    OBVIOUS
  <1>2. 3 + 2 * g # 1 /\ 3 + 2 * g # 2 /\ 4 + 2 * g # 1 /\ 4 + 2 * g # 2
    OBVIOUS
  <1>3. Part(f, 1) = Length(InfoLen) /\ Part(f, 2) = Info(Len(Content(f)))
    BY DEF Part
  <1>4. ASSUME NEW k \in Nat, k # 1, k # 2, (k - 3) \div 2 = g
        PROVE  Part(f, k) = IF k % 2 = 1 THEN Length(Len(Group(f, g * Split)))
                            ELSE Chunk(Group(f, g * Split))
    BY <1>4, Zenon DEF Part
  <1>5. /\ Part(f, 3 + 2 * g) = Length(Len(Group(f, g * Split)))
        /\ Part(f, 4 + 2 * g) = Chunk(Group(f, g * Split))
    BY <1>1, <1>2, <1>4
  <1>6. QED
    BY <1>3, <1>5

\* Where group g lies in the file: it is full unless it is the last one.
LEMMA GroupPlace ==
    ASSUME NEW f \in File \cup {NoFile}, NEW g \in Nat, g < Groups(f)
    PROVE  LET n == Len(Content(f))
               b == Group(f, g * Split)
           IN /\ b \in Seq(Bytes) /\ n \in Nat /\ g * Split \in Nat /\ Len(b) \in Nat
              /\ g * Split + Len(b) = IF g + 1 < Groups(f) THEN (g + 1) * Split ELSE n
              /\ \A i \in 1 .. Len(b) : b[i] = Content(f)[g * Split + i]
  <1> DEFINE n == Len(Content(f))
             b == Group(f, g * Split)
  <1>1. n \in Nat /\ Split \in Nat \ {0} /\ Groups(f) \in Nat
    BY ContentType, SyncAssumption, GroupCount
  <1>2. PICK p \in Nat : p = g * Split
    BY <1>1, Products
  <1>3. p < n /\ (g + 1 < Groups(f) <=> p + Split < n)
    <2>1. (g + 1) * Split = p + Split
      BY <1>1, <1>2, Products
    <2>2. g + 1 \in Nat
      OBVIOUS
    <2>3. (g < Groups(f) <=> g * Split < n) /\ (g + 1 < Groups(f) <=> (g + 1) * Split < n)
      BY <2>2, GroupCount
    <2>4. QED
      BY <1>2, <2>1, <2>3
  <1> DEFINE k == IF p + Split <= n THEN Split ELSE n - p
  <1>4. /\ Group(f, p) \in Seq(Bytes) /\ Len(Group(f, p)) = k
        /\ \A i \in 1 .. k : Group(f, p)[i] = Content(f)[p + i]
    <2>1. p <= n
      BY <1>1, <1>3
    <2>2. QED
      BY <2>1, GroupType
  <1>5. k \in Nat /\ p + k = IF p + Split < n THEN p + Split ELSE n
    BY <1>1, <1>3
  <1>6. (g + 1) * Split = p + Split
    BY <1>1, <1>2, Products
  <1> HIDE DEF k, n
  <1>7. /\ b \in Seq(Bytes) /\ Len(b) = k /\ \A i \in 1 .. k : b[i] = Content(f)[p + i]
    BY <1>2, <1>4
  <1> HIDE DEF b
  <1>8. QED
    BY <1>1, <1>2, <1>3, <1>5, <1>6, <1>7 DEF b, n

\* Nothing is copied at first.
LEMMA CopiedNone == \A f \in File \cup {NoFile} : Copied(<<>>, f, 0)
  <1> SUFFICES ASSUME NEW f \in File \cup {NoFile} PROVE Copied(<<>>, f, 0)
    OBVIOUS
  <1>1. Groups(f) \in Nat /\ Len(Content(f)) \in Nat /\ Split \in Nat
        /\ (0 < Groups(f) <=> 0 * Split < Len(Content(f)))
    BY GroupCount, ContentType, SyncAssumption
  <1>2. 0 * Split = 0
    BY <1>1
  <1>3. (IF 0 < Groups(f) THEN 0 * Split ELSE Len(Content(f))) = 0
    BY <1>1, <1>2
  <1>4. QED
    BY <1>3 DEF Copied

\* One more group.
LEMMA CopiedStep ==
    ASSUME NEW f \in File \cup {NoFile}, NEW g \in Nat, g < Groups(f),
           NEW b \in Seq(Bytes), Copied(b, f, g)
    PROVE  Copied(b \o Group(f, g * Split), f, g + 1)
  <1> DEFINE n == IF g + 1 < Groups(f) THEN (g + 1) * Split ELSE Len(Content(f))
             a == Group(f, g * Split)
             w == b \o a
  <1>1. /\ a \in Seq(Bytes) /\ Len(a) \in Nat /\ g * Split \in Nat /\ g * Split + Len(a) = n
        /\ \A i \in 1 .. Len(a) : a[i] = Content(f)[g * Split + i]
    BY GroupPlace
  <1>2. Len(b) = g * Split /\ \A i \in 1 .. Len(b) : b[i] = Content(f)[i]
    BY DEF Copied
  <1>3. PICK p \in Nat : p = g * Split
    BY <1>1
  <1> HIDE DEF n, a
  <1>4. /\ Len(w) = Len(b) + Len(a)
        /\ \A i \in 1 .. Len(b) + Len(a) : w[i] = IF i <= Len(b) THEN b[i] ELSE a[i - Len(b)]
    BY <1>1, ConcatProperties
  <1> HIDE DEF w
  <1>5. Len(w) = n
    BY <1>1, <1>2, <1>3, <1>4
  <1>6. ASSUME NEW i \in 1 .. n PROVE w[i] = Content(f)[i]
    <2>1. CASE i <= p
      BY <1>1, <1>2, <1>3, <1>4, <2>1
    <2>2. CASE i > p
      <3>1. i - p \in 1 .. Len(a) /\ p + (i - p) = i /\ w[i] = a[i - p]
        BY <1>1, <1>2, <1>3, <1>4, <2>2, <1>5
      <3>2. a[i - p] = Content(f)[p + (i - p)]
        BY <1>1, <1>3, <3>1
      <3>3. QED
        BY <3>1, <3>2
    <2>3. QED
      BY <1>3, <1>5, <1>4, <1>1, <1>2, <2>1, <2>2
  <1>7. QED
    BY <1>5, <1>6, Zenon DEF Copied, n, w, a

\* When all groups are copied the copy is the file.
LEMMA CopiedAll ==
    ASSUME NEW f \in File \cup {NoFile}, NEW b \in Seq(Bytes), Copied(b, f, Groups(f))
    PROVE  b = Content(f)
  <1>1. Groups(f) \in Nat /\ Content(f) \in Seq(Bytes)
    BY GroupCount, ContentType
  <1>2. Len(b) = Len(Content(f)) /\ \A i \in 1 .. Len(b) : b[i] = Content(f)[i]
    BY <1>1 DEF Copied
  <1>3. QED
    BY <1>1, <1>2, SeqEqual

-----------------------------------------------------------------------------
(* The streams while nobody was killed, and for a client that has the server to itself. *)

(* The tasks that have something left to send into the connection of client c. *)
OpenTasks(c) == {t \in Unfinished : conn[task[t].fd] = c}

(* The transfer of file f to client c is under way. *)
Transfer(c, f) ==
    \E r, s \in 0 .. Total(f) :
        /\ Receives(client[c], f, r) /\ Between(down[c], f, r, s)
        /\ IF s = Total(f) THEN OpenTasks(c) = {}
           ELSE \E t \in OpenTasks(c) : OpenTasks(c) = {t} /\ Sends(task[t], f, s)

(* Client c has a request to make, or the server has not made a task of it yet: nothing
   comes back before. *)
Asking(c) ==
    /\ down[c] = <<>> /\ client[c].copy = <<>> /\ OpenTasks(c) = {}
    /\ \/ client[c].pc = "name" /\ Len(up[c]) = 0 /\ Stage(c) = "none"
       \/ client[c].pc = "namebody" /\ \/ Len(up[c]) = 1 /\ Stage(c) \in {"none", "len"}
                                       \/ Len(up[c]) = 0 /\ Stage(c) = "body"
       \/ client[c].pc = "infolen" /\ \/ Len(up[c]) = 2 /\ Stage(c) \in {"none", "len"}
                                      \/ Len(up[c]) = 1 /\ Stage(c) = "body"
                                      \/ Len(up[c]) = 0 /\ Stage(c) = "dispatch"

(* The request of client c is a task, or has been answered; c asks for nothing meanwhile. *)
Answered(c) ==
    up[c] = <<>> /\ Stage(c) = "none" /\ \E f \in File \cup {NoFile} : Transfer(c, f)

(* Nobody was killed, or a client is served that started when nothing was left of the
   killed ones. *)
Sound == Killed = {} \/ Clients \ overlapped # {}

(* A client that met no other one is the only one. *)
Solo == \A c \in Clients \ overlapped : Clients = {c}

(* The server can still meet the end of client c. *)
Pending(c) ==
    \/ c \in Range(backlog)
    \/ \E fd \in Range(ready) \ {serv_sock} : conn[fd] = c
    \/ Stage(c) = "len"

(* Every client is in step with what is sent to it; a task that has something left to
   send has a client; and the end of a client is met behind its last request. *)
InStep == \A c \in Clients : Asking(c) \/ Answered(c)
TasksServe == \A t \in Unfinished : conn[task[t].fd] \in Clients
EndsSeen == \A c \in Client : client[c].pc \in Ended =>
                /\ Pending(c) => up[c] = <<>>
                /\ Stage(c) \in {"body", "dispatch"} => loop.recv = 0

SyncBody == alive /\ InStep /\ TasksServe /\ EndsSeen
SyncInv == Sound => SyncBody

(* A finished copy is one file or empty. *)
Whole ==
    Killed = {} => \A c \in Client : \A i \in DOMAIN client[c].got :
                       \E f \in File \cup {NoFile} : client[c].got[i] = Content(f)

\* The pieces on their way, when the first one is taken.
LEMMA BetweenTail ==
    ASSUME NEW f, NEW d \in Seq(Reply), d # <<>>, NEW r \in Nat, NEW s \in Nat, Between(d, f, r, s)
    PROVE  Head(d) = Part(f, r + 1) /\ r + 1 <= s /\ Between(Tail(d), f, r + 1, s)
  <1>1. Len(d) \in Nat \ {0} /\ Head(d) = d[1]
    BY EmptySeq
  <1>2. Len(Tail(d)) = Len(d) - 1 /\ \A i \in 1 .. Len(d) - 1 : Tail(d)[i] = d[i + 1]
    BY HeadTailProperties
  <1>3. r <= s /\ Len(d) = s - r /\ \A i \in 1 .. Len(d) : d[i] = Part(f, r + i)
    BY DEF Between
  <1>4. ASSUME NEW i \in 1 .. Len(d) - 1 PROVE Tail(d)[i] = Part(f, (r + 1) + i)
    <2>1. i + 1 \in 1 .. Len(d) /\ r + (i + 1) = (r + 1) + i
      BY <1>1
    <2>2. d[i + 1] = Part(f, r + (i + 1))
      BY <1>3, <2>1
    <2>3. QED
      BY <1>2, <2>1, <2>2
  <1>5. Head(d) = Part(f, r + 1)
    BY <1>1, <1>3
  <1>6. QED
    BY <1>1, <1>2, <1>3, <1>4, <1>5 DEF Between

\* ... and when the next one is sent.
LEMMA BetweenAppend ==
    ASSUME NEW f, NEW d \in Seq(Reply), NEW r \in Nat, NEW s \in Nat, Between(d, f, r, s),
           NEW m \in Reply, m = Part(f, s + 1)
    PROVE  Between(Append(d, m), f, r, s + 1)
  <1>1. Len(d) \in Nat /\ r <= s /\ Len(d) = s - r /\ \A i \in 1 .. Len(d) : d[i] = Part(f, r + i)
    BY DEF Between
  <1> DEFINE v == Append(d, m)
  <1>2. Len(v) = Len(d) + 1 /\ v[Len(d) + 1] = m /\ \A i \in 1 .. Len(d) : v[i] = d[i]
    BY AppendProperties
  <1> HIDE DEF v
  <1>3. ASSUME NEW i \in 1 .. Len(v) PROVE v[i] = Part(f, r + i)
    <2>1. CASE i = Len(d) + 1
      <3>1. r + i = s + 1
        BY <1>1, <2>1
      <3>2. QED
        BY <1>2, <2>1, <3>1
    <2>2. CASE i # Len(d) + 1
      BY <1>1, <1>2, <2>2
    <2>3. QED
      BY <2>1, <2>2
  <1>4. QED
    BY <1>1, <1>2, <1>3 DEF Between, v

\* The next piece of an answer is what the client waits for, and taking it is one step
\* forward in the answer.
LEMMA ReceivePiece ==
    ASSUME BaseInv, NEW c \in Client, NEW f \in File \cup {NoFile}, NEW r \in Nat, NEW s \in Nat,
           s <= Total(f), Receives(client[c], f, r), Between(down[c], f, r, s), down[c] # <<>>
    PROVE  /\ Fits(c, Head(down[c])) /\ r + 1 <= s
           /\ Between(Tail(down[c]), f, r + 1, s)
           /\ RecvLength(c) \/ RecvInfo(c) \/ RecvChunk(c) => Receives(client'[c], f, r + 1)
  <1>0. TypeInv /\ down[c] \in Seq(Reply) /\ Groups(f) \in Nat
    BY GroupCount DEF BaseInv, TypeInv, NetType
  <1>1. Head(down[c]) = Part(f, r + 1) /\ r + 1 <= s /\ Between(Tail(down[c]), f, r + 1, s)
    BY <1>0, BetweenTail
  <1>2. client[c].copy \in Seq(Bytes) /\ client[c].left \in Nat /\ ClientType
    BY <1>0, ClientFields DEF TypeInv
  <1>3. \A g \in Nat : /\ Part(f, 1) = Length(InfoLen) /\ Part(f, 2) = Info(Len(Content(f)))
                       /\ Part(f, 3 + 2 * g) = Length(Len(Group(f, g * Split)))
                       /\ Part(f, 4 + 2 * g) = Chunk(Group(f, g * Split))
    BY PartOfGroup
  <1>4. SUFFICES /\ Fits(c, Part(f, r + 1))
                 /\ RecvLength(c) \/ RecvInfo(c) \/ RecvChunk(c) => Receives(client'[c], f, r + 1)
    BY <1>1
  <1>5. /\ RecvLength(c) => Head(down[c]).kind = "len"
        /\ RecvInfo(c) => Head(down[c]).kind = "info"
        /\ RecvChunk(c) => Head(down[c]).kind = "chunk"
    BY DEF RecvLength, RecvInfo, RecvChunk, Arrives
  <1>6. CASE r = 0 /\ client[c].pc = "infolen" /\ client[c].copy = <<>>
    <2>1. Part(f, r + 1) = Length(InfoLen)
      BY <1>3, <1>6
    <2>2. Fits(c, Part(f, r + 1))
      BY <1>6, <2>1 DEF Fits, Waits, AtClient, Length
    <2>3. Head(down[c]).kind = "len" /\ Head(down[c]).data = InfoLen
      BY <1>1, <2>1 DEF Length
    <2>4. RecvLength(c) => client'[c].pc = "info" /\ client'[c].copy = <<>> /\ client'[c].len = InfoLen
      BY <1>0, <1>6, <2>3, ReceiveEffects DEF Becomes
    <2>5. QED
      BY <1>5, <1>6, <2>2, <2>3, <2>4 DEF Receives
  <1>7. CASE r = 1 /\ client[c].pc = "info" /\ client[c].copy = <<>> /\ client[c].len = InfoLen
    <2>1. Part(f, r + 1) = Info(Len(Content(f)))
      BY <1>3, <1>7
    <2>2. Fits(c, Part(f, r + 1))
      BY <1>7, <2>1 DEF Fits, Waits, AtClient, Info
    <2>3. Head(down[c]).kind = "info" /\ Head(down[c]).data = Len(Content(f))
      BY <1>1, <2>1 DEF Info
    <2>4. RecvGroups(Len(Content(f))) = Groups(f)
      BY ContentType, GroupsType DEF Groups
    <2>5. RecvInfo(c) => client'[c].pc = "chunk" /\ client'[c].copy = <<>> /\ client'[c].left = Groups(f)
      BY <1>0, <1>7, <2>3, <2>4, ReceiveEffects DEF Becomes
    <2>6. Copied(<<>>, f, 0) /\ 0 \in 0 .. Groups(f) /\ r + 1 = 2 + 2 * 0 /\ Groups(f) = Groups(f) - 0
      BY <1>0, <1>7, CopiedNone
    <2>7. RecvInfo(c) => Receives(client'[c], f, r + 1)
      BY <2>5, <2>6 DEF Receives
    <2>8. QED
      BY <1>5, <2>2, <2>3, <2>7
  <1>8. ASSUME NEW g \in 0 .. Groups(f), client[c].left = Groups(f) - g, Copied(client[c].copy, f, g),
               r = 2 + 2 * g, client[c].pc = "chunk"
        PROVE  /\ Fits(c, Part(f, r + 1))
               /\ RecvLength(c) \/ RecvInfo(c) \/ RecvChunk(c) => Receives(client'[c], f, r + 1)
    <2>1. g \in Nat /\ g < Groups(f) /\ r + 1 = 3 + 2 * g
      BY <1>0, <1>1, <1>8 DEF Total
    <2>2. Part(f, r + 1) = Length(Len(Group(f, g * Split)))
      BY <1>3, <2>1
    <2>3. Fits(c, Part(f, r + 1))
      BY <1>0, <1>8, <2>1, <2>2 DEF Fits, Waits, AtClient, Length
    <2>4. Head(down[c]).kind = "len" /\ Head(down[c]).data = Len(Group(f, g * Split))
      BY <1>1, <2>2 DEF Length
    <2>5. RecvLength(c) => /\ client'[c].pc = "chunkbody" /\ client'[c].copy = client[c].copy
                           /\ client'[c].left = client[c].left
                           /\ client'[c].len = Len(Group(f, g * Split))
      BY <1>0, <1>8, <2>4, ReceiveEffects DEF Becomes
    <2>6. RecvLength(c) => Receives(client'[c], f, r + 1)
      BY <1>8, <2>1, <2>5 DEF Receives
    <2>7. QED
      BY <1>5, <2>3, <2>4, <2>6
  <1>9. ASSUME NEW g \in 0 .. Groups(f), client[c].left = Groups(f) - g, Copied(client[c].copy, f, g),
               r = 3 + 2 * g, client[c].pc = "chunkbody", g < Groups(f),
               client[c].len = Len(Group(f, g * Split))
        PROVE  /\ Fits(c, Part(f, r + 1))
               /\ RecvLength(c) \/ RecvInfo(c) \/ RecvChunk(c) => Receives(client'[c], f, r + 1)
    <2>1. g \in Nat /\ r + 1 = 4 + 2 * g /\ r + 1 = 2 + 2 * (g + 1)
      BY <1>9
    <2>2. Part(f, r + 1) = Chunk(Group(f, g * Split))
      BY <1>3, <2>1
    <2>3. Fits(c, Part(f, r + 1))
      BY <1>9, <2>2 DEF Fits, Waits, AtClient, Chunk
    <2>4. Head(down[c]).kind = "chunk" /\ Head(down[c]).data = Group(f, g * Split)
      BY <1>1, <2>2 DEF Chunk
    <2>5. RecvChunk(c) => /\ client'[c].pc = "chunk" /\ client'[c].left = client[c].left - 1
                          /\ client'[c].copy = client[c].copy \o Group(f, g * Split)
      BY <1>0, <2>4, ReceiveEffects DEF Becomes
    <2>6. Copied(client[c].copy \o Group(f, g * Split), f, g + 1)
      BY <1>2, <1>9, <2>1, CopiedStep
    <2>7. g + 1 \in 0 .. Groups(f) /\ client[c].left - 1 = Groups(f) - (g + 1)
      BY <1>0, <1>9
    <2>8. RecvChunk(c) => Receives(client'[c], f, r + 1)
      BY <2>1, <2>5, <2>6, <2>7 DEF Receives
    <2>9. QED
      BY <1>5, <2>3, <2>4, <2>8
  <1>10. QED
    BY <1>6, <1>7, <1>8, <1>9 DEF Receives

\* A step that leaves client d, its streams, its request and its tasks alone.
LEMMA Untouched ==
    ASSUME NEW d \in Client, client'[d] = client[d], up'[d] = up[d], down'[d] = down[d],
           Stage(d)' = Stage(d), OpenTasks(d)' = OpenTasks(d),
           \A t \in OpenTasks(d) : task'[t] = task[t]
    PROVE  /\ Asking(d) => Asking(d)'
           /\ \A f : Transfer(d, f) => Transfer(d, f)'
           /\ Answered(d) => Answered(d)'
  <1>1. Asking(d) => Asking(d)'
    BY DEF Asking
  <1>2. ASSUME NEW f, Transfer(d, f) PROVE Transfer(d, f)'
    <2>1. PICK r, s \in 0 .. Total(f) :
            /\ Receives(client[d], f, r) /\ Between(down[d], f, r, s)
            /\ IF s = Total(f) THEN OpenTasks(d) = {}
               ELSE \E t \in OpenTasks(d) : OpenTasks(d) = {t} /\ Sends(task[t], f, s)
      BY <1>2 DEF Transfer
    <2>2. Receives(client'[d], f, r) /\ Between(down'[d], f, r, s)
      BY <2>1
    <2>3. IF s = Total(f) THEN OpenTasks(d)' = {}
          ELSE \E t \in OpenTasks(d)' : OpenTasks(d)' = {t} /\ Sends(task'[t], f, s)
      BY <2>1
    <2>4. QED
      BY <2>2, <2>3 DEF Transfer
  <1>3. Answered(d) => Answered(d)'
    BY <1>2 DEF Answered
  <1>4. QED
    BY <1>1, <1>2, <1>3

\* The tasks that have something left to send, without the operators of the pool.
LEMMA UnfinishedDef ==
    Unfinished = Range(queue) \cup {t \in running : task[t].pc # "chunk" \/ task[t].left > 0}
  BY PoolOperators DEF Unfinished

\* The tasks stay as they are in a step that leaves the pool and the descriptors alone.
LEMMA SameTasks ==
    ASSUME UNCHANGED <<conn, queue, running, task>>
    PROVE  Unfinished' = Unfinished /\ \A d : OpenTasks(d)' = OpenTasks(d)
  <1>1. Unfinished' = Unfinished
    BY DEF Unfinished, Pool!Queued, Pool!Range
  <1>2. QED
    BY <1>1 DEF OpenTasks

\* Only a client that never met another one is outside overlapped, and it is alone.
LEMMA SoloStep == ASSUME TypeInv, Solo, [Next]_vars PROVE Solo'
  <1>1. ASSUME overlapped' = overlapped, Clients' \subseteq Clients PROVE Solo'
    BY <1>1 DEF Solo
  <1>2. ASSUME client' = client, overlapped' = overlapped PROVE Solo'
    <2>1. Clients' = Clients
      BY <1>2 DEF Clients
    <2>2. QED
      BY <1>1, <1>2, <2>1
  <1>3. ASSUME NEW c \in Client, ClientStep(c) \/ Kill(c) PROVE Solo'
    <2>1. Own(c)
      BY <1>3, OwnStep
    <2>2. Clients' \subseteq Clients /\ overlapped' = overlapped
      BY <2>1 DEF Own, Clients
    <2>3. QED
      BY <1>1, <2>2
  <1>4. ASSUME NEW c \in Client, InitClient(c) PROVE Solo'
    <2>1. Becomes(c, "name", client[c].arg, client[c].len, client[c].left, client[c].copy,
                  client[c].got)
      BY <1>4, RequestEffects
    <2>2. Clients' = Clients \cup {c}
      BY <2>1 DEF Becomes, Clients, Ended
    <2>3. overlapped' = IF Alone THEN overlapped ELSE overlapped \cup Clients \cup {c}
      BY <1>4 DEF InitClient
    <2>4. Alone => Clients = {}
      BY DEF Alone
    <2>5. QED
      BY <2>2, <2>3, <2>4 DEF Solo
  <1>5. LoopStep \/ StartTask \/ (\E t \in running : TaskStep(t)) \/ UNCHANGED vars
           => client' = client /\ overlapped' = overlapped
    BY DEF LoopStep, StartTask, TaskStep, vars
  <1>6. QED
    BY <1>2, <1>3, <1>4, <1>5 DEF Next, Step

(* A client starts when nobody is there, and nothing is left of the killed ones. *)
FreshStart(c) ==
    /\ InitClient(c) /\ Clients = {} /\ ready = <<>> /\ loop.pc = "wait" /\ queue = <<>>
    /\ running = {}

\* No step but a fresh start leads back from the states in which a killed client's
\* remains are about.
LEMMA SoundBefore ==
    ASSUME TypeInv, Solo, [Next]_vars, Sound', ~Sound
    PROVE  \E c \in Client : FreshStart(c)
  <1>1. ASSUME overlapped' = overlapped, Clients' \subseteq Clients, Killed \subseteq Killed'
        PROVE  FALSE
    BY <1>1 DEF Sound
  <1>2. ASSUME client' = client, overlapped' = overlapped PROVE FALSE
    <2>1. Clients' = Clients /\ Killed' = Killed
      BY <1>2 DEF Clients, Killed
    <2>2. QED
      BY <1>1, <1>2, <2>1
  <1>3. ASSUME NEW c \in Client, ClientStep(c) \/ Kill(c) PROVE FALSE
    <2>1. Own(c)
      BY <1>3, OwnStep
    <2>2. Clients' \subseteq Clients /\ overlapped' = overlapped /\ Killed \subseteq Killed'
      BY <2>1 DEF Own, Clients, Killed, Ended
    <2>3. QED
      BY <1>1, <2>2
  <1>4. ASSUME NEW c \in Client, InitClient(c) PROVE FreshStart(c)
    <2>1. Becomes(c, "name", client[c].arg, client[c].len, client[c].left, client[c].copy,
                  client[c].got) /\ client[c].pc = "new"
      BY <1>4, RequestEffects DEF InitClient, AtClient
    <2>2. Clients' = Clients \cup {c} /\ Killed' = Killed
      BY <2>1 DEF Becomes, Clients, Killed, Ended
    <2>3. overlapped' = IF Alone THEN overlapped ELSE overlapped \cup Clients \cup {c}
      BY <1>4 DEF InitClient
    <2>4. Killed # {} /\ Alone
      BY <2>2, <2>3 DEF Sound
    <2>5. QED
      BY <1>4, <2>4 DEF Alone, FreshStart
  <1>5. LoopStep \/ StartTask \/ (\E t \in running : TaskStep(t)) \/ UNCHANGED vars
           => client' = client /\ overlapped' = overlapped
    BY DEF LoopStep, StartTask, TaskStep, vars
  <1>6. QED
    BY <1>2, <1>3, <1>4, <1>5 DEF Next, Step

\* When a client is killed, or ends by a signal, the invariant asks nothing more.
LEMMA KilledUnsound ==
    ASSUME TypeInv, Solo, NEW c \in Client, ClientStep(c) \/ Kill(c), client'[c].pc = "killed"
    PROVE  ~Sound'
  <1>1. Own(c)
    BY OwnStep
  <1>2. /\ c \in Clients /\ c \notin Clients' /\ Clients' \subseteq Clients /\ overlapped' = overlapped
        /\ c \in Killed'
    BY <1>1 DEF Own, Clients, Killed, Ended
  <1>3. Clients' \ overlapped' = {}
    BY <1>2 DEF Solo
  <1>4. QED
    BY <1>2, <1>3 DEF Sound

\* A client that takes the next piece of its answer stays in step.
LEMMA ReceiveSync ==
    ASSUME BaseInv, NEW c \in Client, NEW f \in File \cup {NoFile}, Transfer(c, f),
           RecvLength(c) \/ RecvInfo(c) \/ RecvChunk(c), Own(c)
    PROVE  Transfer(c, f)'
  <1>1. PICK r, s \in 0 .. Total(f) :
            /\ Receives(client[c], f, r) /\ Between(down[c], f, r, s)
            /\ IF s = Total(f) THEN OpenTasks(c) = {}
               ELSE \E t \in OpenTasks(c) : OpenTasks(c) = {t} /\ Sends(task[t], f, s)
    BY DEF Transfer
  <1>2. Total(f) \in Nat
    BY GroupCount DEF Total
  <1>3. r \in Nat /\ s \in Nat /\ s <= Total(f)
    BY <1>1, <1>2
  <1>4. down[c] # <<>> /\ down'[c] = Tail(down[c])
    BY DEF RecvLength, RecvInfo, RecvChunk, Arrives, Recv, BaseInv, TypeInv, NetType
  <1>5. r + 1 <= s /\ Between(down'[c], f, r + 1, s) /\ Receives(client'[c], f, r + 1)
    BY <1>1, <1>3, <1>4, ReceivePiece
  <1>6. r + 1 \in 0 .. Total(f)
    BY <1>2, <1>3, <1>5
  <1>7. OpenTasks(c)' = OpenTasks(c) /\ task' = task
    BY SameTasks DEF Own, pvars
  <1>8. QED
    BY <1>1, <1>5, <1>6, <1>7 DEF Transfer

\* A client whose transfer is over has the whole file, and nothing is under way to it.
LEMMA WholeFile ==
    ASSUME TypeInv, NEW c \in Client, NEW f \in File \cup {NoFile}, Transfer(c, f),
           client[c].pc = "chunk", client[c].left = 0
    PROVE  client[c].copy = Content(f) /\ down[c] = <<>> /\ OpenTasks(c) = {}
  <1>1. PICK r, s \in 0 .. Total(f) :
            /\ Receives(client[c], f, r) /\ Between(down[c], f, r, s)
            /\ IF s = Total(f) THEN OpenTasks(c) = {}
               ELSE \E t \in OpenTasks(c) : OpenTasks(c) = {t} /\ Sends(task[t], f, s)
    BY DEF Transfer
  <1>2. Groups(f) \in Nat /\ Total(f) = 2 + 2 * Groups(f)
    BY GroupCount DEF Total
  <1>3. PICK g \in 0 .. Groups(f) : 0 = Groups(f) - g /\ Copied(client[c].copy, f, g) /\ r = 2 + 2 * g
    BY <1>1 DEF Receives
  <1>4. g = Groups(f) /\ r = Total(f) /\ s = Total(f)
    <2>1. g = Groups(f)
      BY <1>2, <1>3
    <2>2. r <= s
      BY <1>1 DEF Between
    <2>3. QED
      BY <1>1, <1>2, <1>3, <2>1, <2>2
  <1>5. down[c] = <<>>
    <2>1. down[c] \in Seq(Reply)
      BY DEF TypeInv, NetType
    <2>2. Len(down[c]) = 0
      BY <1>1, <1>2, <1>4 DEF Between
    <2>3. QED
      BY <2>1, <2>2
  <1>6. client[c].copy \in Seq(Bytes)
    BY ClientFields DEF TypeInv
  <1>7. QED
    BY <1>1, <1>3, <1>4, <1>5, <1>6, CopiedAll

\* What a client does, as long as it is not killed, keeps it in step.
LEMMA OwnSync ==
    ASSUME BaseInv, SyncBody, NEW c \in Client, ClientStep(c) \/ Kill(c), client'[c].pc # "killed"
    PROVE  IF client'[c].pc \in Ended
           THEN up'[c] = <<>> /\ Stage(c) = "none" /\ OpenTasks(c) = {}
           ELSE Asking(c)' \/ Answered(c)'
  <1>0. TypeInv /\ Own(c) /\ alive /\ (Asking(c) \/ Answered(c)) /\ Turns(c) /\ up \in [Client -> Seq(Request)]
        /\ up[c] \in Seq(Request)
    BY OwnStep DEF BaseInv, SyncBody, InStep, Own, Clients, TypeInv, NetType
  <1>1. Stage(c)' = Stage(c) /\ OpenTasks(c)' = OpenTasks(c) /\ task' = task
    BY <1>0, SameTasks DEF Own, pvars, Stage
  <1>2. Answered(c) => client[c].pc \in {"infolen", "info", "chunk", "chunkbody"}
    BY DEF Answered, Transfer, Receives
  <1>3. CASE RequestLength(c)
    <2>1. client[c].pc = "name" /\ Asking(c)
      BY <1>0, <1>2, <1>3 DEF RequestLength, AtClient
    <2>2. client'[c].pc = "namebody" /\ client'[c].copy = client[c].copy /\ down' = down
      BY <1>0, <1>3, RequestEffects DEF Becomes, RequestLength
    <2>3. Len(up[c]) = 0 /\ Len(up'[c]) = Len(up[c]) + 1
      BY <1>0, <1>3, <2>1 DEF RequestLength, Asking
    <2>4. QED
      BY <1>1, <2>1, <2>2, <2>3 DEF Asking, Ended
  <1>4. CASE RequestName(c)
    <2>1. client[c].pc = "namebody" /\ Asking(c)
      BY <1>0, <1>2, <1>4 DEF RequestName, AtClient
    <2>2. client'[c].pc = "infolen" /\ client'[c].copy = client[c].copy /\ down' = down
      BY <1>0, <1>4, RequestEffects DEF Becomes, RequestName
    <2>3. Len(up[c]) \in Nat /\ Len(up'[c]) = Len(up[c]) + 1
      BY <1>0, <1>4 DEF RequestName
    <2>4. \/ Len(up[c]) = 1 /\ Stage(c) \in {"none", "len"}
          \/ Len(up[c]) = 0 /\ Stage(c) = "body"
      BY <2>1 DEF Asking
    <2>5. \/ Len(up'[c]) = 2 /\ Stage(c)' \in {"none", "len"}
          \/ Len(up'[c]) = 1 /\ Stage(c)' = "body"
      <3>1. CASE Len(up[c]) = 1 /\ Stage(c) \in {"none", "len"}
        <4>1. Len(up'[c]) = 2
          BY <2>3, <3>1
        <4>2. QED
          BY <1>1, <3>1, <4>1, Zenon
      <3>2. CASE Len(up[c]) = 0 /\ Stage(c) = "body"
        <4>1. Len(up'[c]) = 1
          BY <2>3, <3>2
        <4>2. QED
          BY <1>1, <3>2, <4>1, Zenon
      <3>3. QED
        BY <2>4, <3>1, <3>2
    <2>6. down'[c] = <<>> /\ client'[c].copy = <<>> /\ OpenTasks(c)' = {}
      BY <1>1, <2>1, <2>2 DEF Asking
    <2>7. QED
      BY <2>2, <2>5, <2>6 DEF Asking, Ended
  <1>5. CASE RecvLength(c) \/ RecvInfo(c) \/ RecvChunk(c)
    <2>1. down[c] # <<>> /\ up' = up
      BY <1>5 DEF RecvLength, RecvInfo, RecvChunk, Arrives, Recv
    <2>2. Answered(c)
      BY <1>0, <2>1 DEF Asking
    <2>3. PICK f \in File \cup {NoFile} : Transfer(c, f)
      BY <2>2 DEF Answered
    <2>4. Transfer(c, f)'
      BY <1>0, <1>5, <2>3, ReceiveSync
    <2>5. Answered(c)'
      BY <1>1, <2>1, <2>2, <2>4 DEF Answered
    <2>6. client'[c].pc \notin Ended
      BY <2>5 DEF Answered, Transfer, Receives, Ended
    <2>7. QED
      BY <2>5, <2>6
  <1>6. ~RecvUnexpected(c)
    <2> SUFFICES ASSUME RecvUnexpected(c) PROVE FALSE
      OBVIOUS
    <2>1. down[c] # <<>> /\ ~Fits(c, Head(down[c]))
      BY DEF RecvUnexpected
    <2>2. PICK f \in File \cup {NoFile} : Transfer(c, f)
      BY <1>0, <2>1 DEF Asking, Answered
    <2>3. PICK r, s \in 0 .. Total(f) : Receives(client[c], f, r) /\ Between(down[c], f, r, s)
      BY <2>2 DEF Transfer
    <2>4. Total(f) \in Nat
      BY GroupCount DEF Total
    <2>5. r \in Nat /\ s \in Nat /\ s <= Total(f)
      BY <2>3, <2>4
    <2>6. QED
      BY <2>1, <2>3, <2>5, ReceivePiece
  <1>7. ~RecvInfoEof(c) /\ ~RecvChunkEof(c) /\ ~ExitBySignal(c)
    BY <1>0 DEF RecvInfoEof, RecvChunkEof, ExitBySignal
  <1>8. CASE FileDone(c)
    <2>1. client[c].pc = "chunk" /\ client[c].left = 0 /\ up' = up /\ down' = down
      BY <1>8 DEF FileDone, AtClient, netvars
    <2>2. Answered(c)
      BY <1>0, <2>1 DEF Asking
    <2>3. up[c] = <<>> /\ Stage(c) = "none" /\ down[c] = <<>> /\ OpenTasks(c) = {}
      BY <1>0, <2>1, <2>2, WholeFile DEF Answered
    <2>4. client'[c].pc = "name" /\ client'[c].copy = <<>>
      BY <1>0, <1>8, ReceiveEffects DEF Becomes
    <2>5. QED
      BY <1>1, <2>1, <2>3, <2>4 DEF Asking, Ended
  <1>9. CASE Exit(c)
    <2>1. client[c].pc = "name" /\ up' = up /\ Leave(c, "gone")
      BY <1>9 DEF Exit, AtClient, Leave
    <2>2. Asking(c) /\ client'[c].pc = "gone"
      BY <1>0, <1>2, <2>1, RequestEffects DEF Becomes, Ended
    <2>3. up[c] = <<>> /\ Stage(c) = "none" /\ OpenTasks(c) = {}
      BY <1>0, <2>1, <2>2 DEF Asking
    <2>4. QED
      BY <2>1, <2>2, <2>3 DEF Ended
  <1>10. ~Kill(c)
    BY <1>0, RequestEffects DEF Kill, Becomes, Ended
  <1>11. QED
    BY <1>3, <1>4, <1>5, <1>6, <1>7, <1>8, <1>9, <1>10 DEF ClientStep

\* ... and leaves the others in step.
LEMMA ClientSync ==
    ASSUME BaseInv, SyncBody, NEW c \in Client, ClientStep(c) \/ Kill(c), client'[c].pc # "killed"
    PROVE  SyncBody'
  <1>0. TypeInv /\ Own(c) /\ alive /\ InStep /\ TasksServe /\ EndsSeen /\ BaseInv' /\ c \in Clients
    BY OwnStep, BaseStep DEF BaseInv, SyncBody, Next, Step, Own, Clients
  <1>1. /\ \A d \in Client \ {c} : client'[d] = client[d] /\ up'[d] = up[d] /\ down'[d] = down[d]
        /\ alive' = alive /\ backlog' = backlog /\ conn' = conn /\ loop' = loop /\ task' = task
        /\ client'[c].pc # "new" /\ (ready' = ready \/ Notify(c))
    BY <1>0 DEF Own
  <1>2. Unfinished' = Unfinished /\ \A d : OpenTasks(d)' = OpenTasks(d) /\ Stage(d)' = Stage(d)
    BY <1>0, SameTasks DEF Own, pvars, Stage
  <1>3. IF client'[c].pc \in Ended
        THEN up'[c] = <<>> /\ Stage(c) = "none" /\ OpenTasks(c) = {}
        ELSE Asking(c)' \/ Answered(c)'
    BY OwnSync
  <1>4. InStep'
    <2> SUFFICES ASSUME NEW d \in Clients' PROVE Asking(d)' \/ Answered(d)'
      BY DEF InStep
    <2>1. CASE d = c
      BY <1>3, <2>1 DEF Clients
    <2>2. CASE d # c
      <3>1. d \in Clients /\ d \in Client
        BY <1>1, <2>2 DEF Clients
      <3>2. QED
        BY <1>0, <1>1, <1>2, <2>2, <3>1, Untouched DEF InStep
    <2>3. QED
      BY <2>1, <2>2
  <1>5. TasksServe'
    <2> SUFFICES ASSUME NEW t \in Unfinished PROVE conn[task[t].fd] \in Clients'
      BY <1>1, <1>2 DEF TasksServe
    <2>1. conn[task[t].fd] \in Clients
      BY <1>0 DEF TasksServe
    <2>2. CASE conn[task[t].fd] = c
      <3>1. OpenTasks(c) # {}
        BY <2>2 DEF OpenTasks
      <3>2. QED
        BY <1>1, <1>3, <2>2, <3>1 DEF Clients
    <2>3. CASE conn[task[t].fd] # c
      BY <1>1, <2>1, <2>3 DEF Clients
    <2>4. QED
      BY <2>2, <2>3
  <1>6. EndsSeen'
    <2> SUFFICES ASSUME NEW d \in Client, client'[d].pc \in Ended
                 PROVE  /\ Pending(d)' => up'[d] = <<>>
                        /\ Stage(d)' \in {"body", "dispatch"} => loop'.recv = 0
      BY DEF EndsSeen
    <2>1. CASE d = c
      BY <1>2, <1>3, <2>1
    <2>2. CASE d # c
      <3>1. Pending(d)' => Pending(d)
        <4>1. \/ ready' = ready
              \/ \E fd \in Fd : conn[fd] = c /\ fd \notin Range(ready) /\ ready' = Append(ready, fd)
          BY <1>0, <1>1, NotifyEffect
        <4>2. \A fd \in Range(ready') : fd \in Range(ready) \/ conn[fd] = c
          BY <1>0, <4>1, ReadyAppend DEF BaseInv
        <4>3. QED
          BY <1>1, <1>2, <2>2, <4>2 DEF Pending
      <3>2. QED
        BY <1>0, <1>1, <1>2, <2>2, <3>1 DEF EndsSeen
    <2>3. QED
      BY <2>1, <2>2
  <1>7. QED
    BY <1>0, <1>1, <1>4, <1>5, <1>6 DEF SyncBody

\* Nothing is out of step when a client starts and nothing is left of others.
LEMMA FreshSync ==
    ASSUME BaseInv, NEW c \in Client, FreshStart(c)
    PROVE  SyncBody
  <1>0. /\ Clients = {} /\ ready = <<>> /\ loop.pc = "wait" /\ queue = <<>> /\ running = {} /\ alive
        /\ Links
    BY DEF FreshStart, InitClient, BaseInv
  <1>1. Range(ready) = {} /\ Range(queue) = {}
    BY <1>0 DEF Range
  <1>2. backlog = <<>>
    BY <1>0, <1>1 DEF Links
  <1>3. Range(backlog) = {}
    BY <1>2 DEF Range
  <1>4. Unfinished = {}
    BY <1>0, <1>1, UnfinishedDef
  <1>5. \A d : Stage(d) = "none" /\ ~Pending(d)
    BY <1>0, <1>1, <1>3 DEF Stage, Pending
  <1>6. QED
    BY <1>0, <1>4, <1>5 DEF SyncBody, InStep, TasksServe, EndsSeen

\* A client that starts is in step.
LEMMA InitSync ==
    ASSUME BaseInv, SyncBody, NEW c \in Client, InitClient(c)
    PROVE  SyncBody' /\ Stage(c)' = "none" /\ OpenTasks(c)' = {}
  <1>0. /\ TypeInv /\ Links /\ Turns(c) /\ alive /\ InStep /\ TasksServe /\ EndsSeen
        /\ client[c].pc = "new" /\ backlog' = Append(backlog, c) /\ ready' = Mark(ready, serv_sock)
        /\ UNCHANGED <<up, down, conn, loop, queue, running, task, alive>>
    BY DEF BaseInv, SyncBody, InitClient, AtClient, pvars
  <1>1. /\ client'[c].pc = "name" /\ client'[c].copy = client[c].copy
        /\ \A d \in Client \ {c} : client'[d] = client[d]
    BY <1>0, RequestEffects DEF Becomes
  <1>2. Unfinished' = Unfinished /\ \A d : OpenTasks(d)' = OpenTasks(d) /\ Stage(d)' = Stage(d)
    BY <1>0, SameTasks DEF Stage
  <1>3. c \notin Range(conn) /\ c # NoClient
    BY <1>0, SyncAssumption DEF Links
  <1>4. Stage(c) = "none" /\ OpenTasks(c) = {}
    <2>1. \A fd \in Fd : conn[fd] # c
      BY <1>0, <1>3 DEF TypeInv, NetType, Range
    <2>2. Stage(c) = "none"
      BY <1>0, <2>1 DEF Stage, Links
    <2>3. c \notin Clients
      BY <1>0 DEF Clients
    <2>4. QED
      BY <1>0, <2>2, <2>3 DEF OpenTasks, TasksServe
  <1>5. Clients' = Clients \cup {c}
    BY <1>0, <1>1 DEF Clients, Ended
  <1>6. InStep'
    <2> SUFFICES ASSUME NEW d \in Clients' PROVE Asking(d)' \/ Answered(d)'
      BY DEF InStep
    <2>1. CASE d = c
      BY <1>0, <1>1, <1>2, <1>4, <2>1 DEF Asking, Turns
    <2>2. CASE d # c
      <3>1. d \in Clients /\ d \in Client
        BY <1>5, <2>2 DEF Clients
      <3>2. QED
        BY <1>0, <1>1, <1>2, <2>2, <3>1, Untouched DEF InStep
    <2>3. QED
      BY <2>1, <2>2
  <1>7. TasksServe'
    BY <1>0, <1>2, <1>5 DEF TasksServe
  <1>8. EndsSeen'
    <2> SUFFICES ASSUME NEW d \in Client, client'[d].pc \in Ended
                 PROVE  /\ Pending(d)' => up'[d] = <<>>
                        /\ Stage(d)' \in {"body", "dispatch"} => loop'.recv = 0
      BY DEF EndsSeen
    <2>1. d # c /\ client[d].pc \in Ended
      BY <1>1 DEF Ended
    <2>2. Range(backlog') = Range(backlog) \cup {c}
      BY <1>0, AppendLemma DEF TypeInv, NetType
    <2>3. Range(ready') \ {serv_sock} = Range(ready) \ {serv_sock}
      <3>1. CASE serv_sock \in Range(ready)
        BY <1>0, <3>1 DEF Mark
      <3>2. CASE serv_sock \notin Range(ready)
        <4>1. ready' = Append(ready, serv_sock)
          BY <1>0, <3>2 DEF Mark
        <4>2. QED
          BY <1>0, <3>2, <4>1, ReadyAppend
      <3>3. QED
        BY <3>1, <3>2
    <2>4. Pending(d)' => Pending(d)
      BY <1>0, <1>2, <2>1, <2>2, <2>3 DEF Pending
    <2>5. QED
      BY <1>0, <1>2, <2>1, <2>4 DEF EndsSeen
  <1>9. QED
    BY <1>0, <1>2, <1>4, <1>6, <1>7, <1>8 DEF SyncBody

\* A task that has something left to send has a descriptor.
LEMMA OpenDescriptor ==
    ASSUME TypeInv, Places
    PROVE  Unfinished \subseteq DOMAIN task /\ \A t \in Unfinished : task[t].fd \in Fd
  BY UnfinishedDef DEF Places, TypeInv, PoolType

\* Accepting a connection keeps everybody in step.
LEMMA AcceptSync ==
    ASSUME BaseInv, SyncBody, AcceptClient, client' = client, alive' = alive
    PROVE  SyncBody' /\ \A d : OpenTasks(d)' = OpenTasks(d)
  <1>0. TypeInv /\ Links /\ Places /\ loop.pc = "wait" /\ alive /\ InStep /\ TasksServe /\ EndsSeen
        /\ UNCHANGED <<up, down, loop, queue, running, task>>
    BY DEF BaseInv, AcceptClient, AtLoop, pvars, SyncBody
  <1>1. PICK fd \in Fd :
             /\ conn[fd] = NoClient /\ backlog # <<>>
             /\ Head(backlog) \in Range(backlog)
             /\ conn' = [conn EXCEPT ![fd] = Head(backlog)] /\ backlog' = Tail(backlog)
             /\ Range(ready') \ {serv_sock} =
                  (Range(ready) \ {serv_sock}) \cup IF Readable(Head(backlog)) THEN {fd} ELSE {}
    BY AcceptEffect
  <1>2. conn \in [Fd -> Client \cup {NoClient}] /\ backlog \in Seq(Client)
        /\ ready \in Seq(Fd \cup {serv_sock})
    BY <1>0 DEF TypeInv, NetType
  <1>3. conn'[fd] = Head(backlog) /\ \A x \in Fd \ {fd} : conn'[x] = conn[x]
    BY <1>1, <1>2
  <1>4. Unfinished' = Unfinished
    BY <1>0 DEF Unfinished, Pool!Queued, Pool!Range
  <1>5. Clients' = Clients /\ NoClient \notin Clients
    BY SyncAssumption DEF Clients
  <1>6. \A t \in Unfinished : conn'[task'[t].fd] = conn[task[t].fd]
    <2> SUFFICES ASSUME NEW t \in Unfinished PROVE conn'[task[t].fd] = conn[task[t].fd]
      BY <1>0
    <2>1. task[t].fd \in Fd
      BY <1>0, OpenDescriptor
    <2>2. conn[task[t].fd] # NoClient
      BY <1>0, <1>5 DEF TasksServe
    <2>3. QED
      BY <1>1, <1>3, <2>1, <2>2
  <1>7. \A d : OpenTasks(d)' = OpenTasks(d) /\ Stage(d)' = "none" /\ Stage(d) = "none"
    BY <1>0, <1>4, <1>6 DEF OpenTasks, Stage
  <1>8. InStep'
    <2> SUFFICES ASSUME NEW d \in Clients PROVE Asking(d)' \/ Answered(d)'
      BY <1>5 DEF InStep
    <2>1. d \in Client
      BY DEF Clients
    <2>2. QED
      BY <1>0, <1>7, <2>1, Untouched DEF InStep
  <1>9. TasksServe'
    BY <1>0, <1>4, <1>5, <1>6 DEF TasksServe
  <1>10. ASSUME NEW d \in Client, Pending(d)' PROVE Pending(d)
    <2>1. CASE d \in Range(backlog')
      <3>1. d \in Range(backlog)
        BY <1>0, <1>1, <1>2, <2>1, TailLemma DEF Links
      <3>2. QED
        BY <3>1 DEF Pending
    <2>2. ASSUME NEW x \in Range(ready') \ {serv_sock}, conn'[x] = d PROVE Pending(d)
      <3>1. CASE x = fd
        BY <1>1, <1>3, <2>2, <3>1 DEF Pending
      <3>2. CASE x # fd
        <4>1. x \in Range(ready) \ {serv_sock}
          BY <1>1, <2>2, <3>2
        <4>2. x \in Fd
          BY <1>2, <4>1 DEF Range
        <4>3. QED
          BY <1>3, <2>2, <3>2, <4>1, <4>2 DEF Pending
      <3>3. QED
        BY <3>1, <3>2
    <2>3. QED
      BY <1>7, <1>10, <2>1, <2>2 DEF Pending
  <1>11. EndsSeen'
    BY <1>0, <1>7, <1>10 DEF EndsSeen
  <1>12. QED
    BY <1>0, <1>7, <1>8, <1>9, <1>11 DEF SyncBody

\* A client that is reported readable has a request under way, or has ended.
LEMMA EventSync ==
    ASSUME BaseInv, SyncBody, SkipReady \/ ClientEvent, client' = client, alive' = alive
    PROVE  SyncBody' /\ \A d : OpenTasks(d)' = OpenTasks(d)
  <1>0. TypeInv /\ Links /\ loop.pc = "wait" /\ alive /\ InStep /\ TasksServe /\ EndsSeen
        /\ UNCHANGED <<up, down, backlog, conn, queue, running, task>>
        /\ ready # <<>> /\ Head(ready) # serv_sock /\ ready' = Tail(ready)
    BY DEF BaseInv, SkipReady, ClientEvent, AtLoop, pvars, SyncBody
  <1>1. /\ Head(ready) \in Range(ready)
        /\ Range(Tail(ready)) = Range(ready) \ {Head(ready)}
    BY <1>0, ReadyTail
  <1>2. \/ loop' = loop
        \/ loop'.pc = "len" /\ loop'.fd = Head(ready) /\ Readable(conn[Head(ready)])
    BY <1>0, LoopEffects DEF SkipReady, ClientEvent, LoopIs
  <1>3. Unfinished' = Unfinished /\ (\A d : OpenTasks(d)' = OpenTasks(d)) /\ Clients' = Clients
    BY <1>0, SameTasks DEF Clients
  <1>4. ASSUME NEW d PROVE /\ Stage(d) = "none"
                           /\ Stage(d)' = "none" \/ (Stage(d)' = "len" /\ Readable(d) /\ Pending(d))
    <2>1. Stage(d) = "none"
      BY <1>0 DEF Stage
    <2>2. loop' = loop => Stage(d)' = "none"
      BY <1>0 DEF Stage
    <2>3. ASSUME loop'.pc = "len", loop'.fd = Head(ready), Readable(conn[Head(ready)])
          PROVE  Stage(d)' = "none" \/ (Stage(d)' = "len" /\ Readable(d) /\ Pending(d))
      BY <1>0, <1>1, <2>3 DEF Stage, Pending
    <2>4. QED
      BY <1>2, <2>1, <2>2, <2>3
  <1>5. InStep'
    <2> SUFFICES ASSUME NEW d \in Clients PROVE Asking(d)' \/ Answered(d)'
      BY <1>3 DEF InStep
    <2>1. d \in Client /\ client[d].pc \notin Ended
      BY DEF Clients
    <2>2. CASE Stage(d)' = "none"
      BY <1>0, <1>3, <1>4, <2>1, <2>2, Untouched DEF InStep
    <2>3. CASE Stage(d)' # "none"
      <3>1. Stage(d)' = "len" /\ up[d] # <<>> /\ Stage(d) = "none"
        BY <1>4, <2>1, <2>3 DEF Readable
      <3>2. Asking(d)
        BY <1>0, <3>1 DEF InStep, Answered
      <3>3. up[d] \in Seq(Request)
        BY <1>0, <2>1 DEF TypeInv, NetType
      <3>4. Len(up[d]) # 0
        BY <3>1, <3>3
      <3>5. QED
        BY <1>0, <1>3, <3>1, <3>2, <3>4 DEF Asking
    <2>4. QED
      BY <2>2, <2>3
  <1>6. TasksServe'
    BY <1>0, <1>3 DEF TasksServe
  <1>7. \A d : Pending(d)' => Pending(d)
    BY <1>0, <1>1, <1>4 DEF Pending
  <1>8. EndsSeen'
    BY <1>0, <1>4, <1>7 DEF EndsSeen
  <1>9. QED
    BY <1>0, <1>3, <1>5, <1>6, <1>8 DEF SyncBody

\* Reading a length or a name brings a request on its way; at the end of a stream
\* nothing but the end is read.
LEMMA ReadSync ==
    ASSUME BaseInv, SyncBody, RecvBuffLength \/ RecvBuffBody, client' = client, alive' = alive
    PROVE  SyncBody' /\ \A d : OpenTasks(d)' = OpenTasks(d)
  <1>0. TypeInv /\ Links /\ alive /\ InStep /\ TasksServe /\ EndsSeen
        /\ UNCHANGED <<down, backlog, conn, ready, queue, running, task>>
        /\ loop.pc \in {"len", "body"}
    BY DEF BaseInv, RecvBuffLength, RecvBuffBody, AtLoop, pvars, SyncBody
  <1>1. conn[loop.fd] \in Client /\ up \in [Client -> Seq(Request)]
    BY <1>0 DEF Links, TypeInv, NetType
  <1>2. PICK c \in Client : c = conn[loop.fd]
    BY <1>1
  <1>3. up[c] \in Seq(Request) /\ Turns(c) /\ Stage(c) = loop.pc
    BY <1>0, <1>1, <1>2 DEF BaseInv, Stage
  <1>4. /\ RecvBuffLength =>
             /\ loop.pc = "len" /\ loop'.pc = "body" /\ loop'.fd = loop.fd
             /\ \/ up[c] # <<>> /\ up' = [up EXCEPT ![c] = Tail(@)]
                \/ up[c] = <<>> /\ up' = up /\ client[c].pc \in Ended /\ loop'.recv = 0
        /\ RecvBuffBody =>
             /\ loop.pc = "body" /\ loop'.pc = "dispatch" /\ loop'.fd = loop.fd
             /\ loop'.recv = loop.recv
             /\ \/ up[c] # <<>> /\ up' = [up EXCEPT ![c] = Tail(@)]
                \/ up[c] = <<>> /\ up' = up /\ client[c].pc \in Ended
    BY <1>2, ReadEffects DEF LoopIs, RecvBuffLength, RecvBuffBody, AtLoop
  <1>5. Unfinished' = Unfinished /\ (\A d : OpenTasks(d)' = OpenTasks(d)) /\ Clients' = Clients
    BY <1>0, SameTasks DEF Clients
  <1>6. Stage(c)' = loop'.pc /\ \A d \in Client \ {c} : Stage(d) = "none" /\ Stage(d)' = "none"
        /\ up'[d] = up[d]
    BY <1>0, <1>1, <1>2, <1>4 DEF Stage
  <1>7. up[c] # <<>> => Len(up[c]) \in Nat \ {0} /\ Len(Tail(up[c])) = Len(up[c]) - 1
    BY <1>3, HeadTailProperties, EmptySeq
  <1>8. InStep'
    <2> SUFFICES ASSUME NEW d \in Clients PROVE Asking(d)' \/ Answered(d)'
      BY <1>5 DEF InStep
    <2>1. d \in Client /\ client[d].pc \notin Ended
      BY DEF Clients
    <2>2. CASE d # c
      BY <1>0, <1>5, <1>6, <2>1, <2>2, Untouched DEF InStep
    <2>3. CASE d = c
      <3>1. Len(up'[c]) = Len(up[c]) - 1 /\ Len(up[c]) \in Nat \ {0}
        BY <1>1, <1>4, <1>7, <2>1, <2>3
      <3>2. Asking(c)
        BY <1>0, <1>3, <2>3 DEF InStep, Answered
      <3>3. down'[c] = <<>> /\ client'[c].copy = <<>> /\ OpenTasks(c)' = {}
        BY <1>0, <1>5, <3>2 DEF Asking
      <3>4. CASE RecvBuffLength
        <4>1. Stage(c) = "len" /\ Stage(c)' = "body"
          BY <1>3, <1>4, <1>6, <3>4
        <4>2. \/ client[c].pc = "namebody" /\ Len(up[c]) = 1
              \/ client[c].pc = "infolen" /\ Len(up[c]) = 2
          BY <3>2, <4>1 DEF Asking
        <4>3. QED
          BY <2>3, <3>1, <3>3, <4>1, <4>2 DEF Asking
      <3>5. CASE RecvBuffBody
        <4>1. Stage(c) = "body" /\ Stage(c)' = "dispatch"
          BY <1>3, <1>4, <1>6, <3>5
        <4>2. client[c].pc = "infolen" /\ Len(up[c]) = 1
          BY <3>1, <3>2, <4>1 DEF Asking
        <4>3. QED
          BY <2>3, <3>1, <3>3, <4>1, <4>2 DEF Asking
      <3>6. QED
        BY <3>4, <3>5
    <2>4. QED
      BY <2>2, <2>3
  <1>9. TasksServe'
    BY <1>0, <1>5 DEF TasksServe
  <1>10. EndsSeen'
    <2> SUFFICES ASSUME NEW d \in Client, client[d].pc \in Ended
                 PROVE  /\ Pending(d)' => up'[d] = <<>>
                        /\ Stage(d)' \in {"body", "dispatch"} => loop'.recv = 0
      BY DEF EndsSeen
    <2>1. CASE d # c
      <3>1. Pending(d)' => Pending(d)
        BY <1>0, <1>6, <2>1 DEF Pending
      <3>2. QED
        BY <1>0, <1>6, <2>1, <3>1 DEF EndsSeen
    <2>2. CASE d = c
      <3>1. CASE RecvBuffLength
        <4>1. Pending(c)
          BY <1>3, <1>4, <3>1 DEF Pending
        <4>2. up[c] = <<>>
          BY <1>0, <2>2, <4>1 DEF EndsSeen
        <4>3. QED
          BY <1>4, <2>2, <3>1, <4>2
      <3>2. CASE RecvBuffBody
        <4>1. Stage(c) = "body" /\ loop'.recv = loop.recv
          BY <1>3, <1>4, <3>2
        <4>2. loop.recv = 0
          BY <1>0, <2>2, <4>1 DEF EndsSeen
        <4>3. up[c] = <<>>
          BY <1>3, <4>1, <4>2 DEF Turns
        <4>4. QED
          BY <1>4, <2>2, <3>2, <4>1, <4>2, <4>3
      <3>3. QED
        BY <3>1, <3>2
    <2>3. QED
      BY <2>1, <2>2
  <1>11. QED
    BY <1>0, <1>5, <1>8, <1>9, <1>10 DEF SyncBody

\* A task is submitted for a client that waits for the answer to its request; whichever
\* file the task will open, no piece of it has been sent.
LEMMA SubmitTransfer ==
    ASSUME BaseInv, SyncBody, SubmitTask, client' = client
    PROVE  \E c \in Clients :
             /\ c = conn[loop.fd] /\ Stage(c) = "dispatch" /\ client[c].pc = "infolen"
             /\ up[c] = <<>> /\ Unfinished' = Unfinished \cup {Len(task) + 1}
             /\ OpenTasks(c)' = {Len(task) + 1} /\ task'[Len(task) + 1] = Frame(loop.fd)
             /\ \A d : d # c => OpenTasks(d)' = OpenTasks(d)
             /\ \A t \in Unfinished : task'[t] = task[t] /\ t # Len(task) + 1
             /\ \A f \in File \cup {NoFile} : Transfer(c, f)'
  <1>0. TypeInv /\ Links /\ Places /\ InStep /\ TasksServe /\ EndsSeen
    BY DEF BaseInv, SyncBody
  <1>1. PICK n \in Task :
           /\ n = Len(task) + 1 /\ n \notin DOMAIN task /\ n \notin Range(queue) \cup running
           /\ loop.fd \in Fd /\ loop.recv > 0 /\ loop.pc = "dispatch"
           /\ Range(queue') = Range(queue) \cup {n}
           /\ task'[n] = Frame(loop.fd) /\ (\A t \in DOMAIN task : task'[t] = task[t])
           /\ UNCHANGED <<netvars, running>>
    BY <1>0, SubmitEffect
  <1>2. conn' = conn /\ up' = up /\ down' = down
    BY <1>1 DEF netvars
  <1>3. conn[loop.fd] \in Client
    BY <1>0, <1>1 DEF Links, TypeInv, NetType
  <1>4. PICK c \in Client : c = conn[loop.fd]
    BY <1>3
  <1>5. Stage(c) = "dispatch" /\ client[c].pc \notin {"new"} \cup Ended
    <2>1. Stage(c) = "dispatch"
      BY <1>1, <1>4 DEF Stage
    <2>2. c \in Range(conn) \ {NoClient}
      BY <1>0, <1>1, <1>3, <1>4, SyncAssumption DEF TypeInv, NetType, Range
    <2>3. client[c].pc \notin Ended
      <3>1. loop.recv # 0
        BY <1>1
      <3>2. QED
        BY <1>0, <2>1, <3>1 DEF EndsSeen
    <2>4. QED
      BY <1>0, <2>1, <2>2, <2>3 DEF Links
  <1>6. c \in Clients
    BY <1>5 DEF Clients
  <1>7. Asking(c)
    BY <1>0, <1>5, <1>6 DEF InStep, Answered
  <1>8. /\ down[c] = <<>> /\ client[c].copy = <<>> /\ OpenTasks(c) = {} /\ client[c].pc = "infolen"
        /\ up[c] = <<>>
    <2>1. up[c] \in Seq(Request) /\ Len(up[c]) = 0
      BY <1>0, <1>5, <1>7 DEF Asking, TypeInv, NetType
    <2>2. up[c] = <<>>
      BY <2>1
    <2>3. QED
      BY <1>5, <1>7, <2>2 DEF Asking
  <1>9. Unfinished \subseteq DOMAIN task
    BY <1>0, OpenDescriptor
  <1>10. Unfinished' = Unfinished \cup {n}
    <2>1. Unfinished' = Range(queue') \cup {t \in running' : task'[t].pc # "chunk" \/ task'[t].left > 0}
      BY PoolOperators DEF Unfinished, Pool!Queued, Pool!Range, Range
    <2>2. \A t \in running : task'[t] = task[t]
      BY <1>0, <1>1 DEF TypeInv, PoolType
    <2>3. QED
      BY <1>1, <2>1, <2>2, UnfinishedDef
  <1>11. \A t \in Unfinished : task'[t] = task[t] /\ t # n
    BY <1>1, <1>9
  <1>12. Frame(loop.fd).fd = loop.fd
    BY DEF Frame
  <1>13. OpenTasks(c)' = {n} /\ \A d : d # c => OpenTasks(d)' = OpenTasks(d)
    <2>1. \A d : OpenTasks(d)' = {t \in Unfinished \cup {n} : conn[task'[t].fd] = d}
      BY <1>2, <1>10 DEF OpenTasks
    <2>2. conn[task'[n].fd] = c
      BY <1>1, <1>4, <1>12
    <2>3. \A t \in Unfinished : conn[task'[t].fd] # c
      BY <1>8, <1>11 DEF OpenTasks
    <2>4. OpenTasks(c)' = {n}
      BY <2>1, <2>2, <2>3
    <2>5. ASSUME NEW d, d # c PROVE OpenTasks(d)' = OpenTasks(d)
      BY <1>11, <2>1, <2>2, <2>5 DEF OpenTasks
    <2>6. QED
      BY <2>4, <2>5
  <1>14. ASSUME NEW f \in File \cup {NoFile} PROVE Transfer(c, f)'
    <2>1. 0 \in 0 .. Total(f) /\ Total(f) # 0
      BY GroupCount DEF Total
    <2>2. Receives(client'[c], f, 0)
      BY <1>8 DEF Receives
    <2>3. Between(down'[c], f, 0, 0)
      BY <1>2, <1>8 DEF Between
    <2>4. Sends(task'[n], f, 0)
      BY <1>1, <1>12 DEF Sends
    <2>5. QED
      BY <1>13, <2>1, <2>2, <2>3, <2>4 DEF Transfer
  <1>15. QED
    BY <1>1, <1>4, <1>5, <1>6, <1>8, <1>10, <1>11, <1>13, <1>14

\* Submitting a task keeps everybody in step.
LEMMA SubmitSync ==
    ASSUME BaseInv, SyncBody, SubmitTask, client' = client, alive' = alive
    PROVE  SyncBody'
  <1>0. TypeInv /\ Links /\ alive /\ InStep /\ TasksServe /\ EndsSeen /\ UNCHANGED netvars
    BY DEF BaseInv, SyncBody, SubmitTask
  <1>1. PICK c \in Clients :
             /\ c = conn[loop.fd] /\ Stage(c) = "dispatch" /\ up[c] = <<>>
             /\ Unfinished' = Unfinished \cup {Len(task) + 1}
             /\ OpenTasks(c)' = {Len(task) + 1}
             /\ \A d : d # c => OpenTasks(d)' = OpenTasks(d)
             /\ \A t \in Unfinished : task'[t] = task[t]
             /\ \A f \in File \cup {NoFile} : Transfer(c, f)'
    BY SubmitTransfer
  <1>2. loop'.pc = "wait"
    BY <1>0, LoopEffects DEF LoopIs
  <1>3. Clients' = Clients /\ c \in Client /\ up' = up /\ down' = down /\ conn' = conn
        /\ ready' = ready /\ backlog' = backlog
    BY <1>0 DEF Clients, netvars
  <1>4. \A d : Stage(d)' = "none" /\ (d # c => Stage(d) = "none")
    BY <1>1, <1>2 DEF Stage
  <1>5. InStep'
    <2> SUFFICES ASSUME NEW d \in Clients PROVE Asking(d)' \/ Answered(d)'
      BY <1>3 DEF InStep
    <2>1. CASE d = c
      BY <1>1, <1>3, <1>4, <2>1 DEF Answered
    <2>2. CASE d # c
      <3>1. d \in Client /\ (Asking(d) \/ Answered(d))
        BY <1>0 DEF InStep, Clients
      <3>2. \A t \in OpenTasks(d) : task'[t] = task[t]
        BY <1>1 DEF OpenTasks
      <3>3. QED
        BY <1>1, <1>3, <1>4, <2>2, <3>1, <3>2, Untouched
    <2>3. QED
      BY <2>1, <2>2
  <1>6. TasksServe'
    <2>1. \A t \in Unfinished : conn'[task'[t].fd] \in Clients'
      BY <1>0, <1>1, <1>3 DEF TasksServe
    <2>2. conn'[task'[Len(task) + 1].fd] = c
      BY <1>1 DEF OpenTasks
    <2>3. QED
      BY <1>1, <1>3, <2>1, <2>2 DEF TasksServe
  <1>7. EndsSeen'
    <2>1. \A d : Pending(d)' => Pending(d)
      BY <1>3, <1>4 DEF Pending
    <2>2. QED
      BY <1>0, <1>3, <1>4, <2>1 DEF EndsSeen
  <1>8. QED
    BY <1>0, <1>5, <1>6, <1>7 DEF SyncBody

\* The connection that is closed is that of a client that has ended.
LEMMA CloseSync ==
    ASSUME BaseInv, SyncBody, CloseClient, client' = client, alive' = alive
    PROVE  SyncBody' /\ \A d : OpenTasks(d)' = OpenTasks(d)
  <1>0. TypeInv /\ Links /\ Places /\ alive /\ InStep /\ TasksServe /\ EndsSeen
        /\ UNCHANGED <<up, down, backlog, queue, running, task>>
        /\ loop.pc = "dispatch" /\ loop.recv = 0
        /\ conn' = [conn EXCEPT ![loop.fd] = NoClient]
        /\ ready' = Keep(ready, Range(ready) \ {loop.fd})
    BY DEF BaseInv, SyncBody, CloseClient, AtLoop, pvars
  <1>1. /\ loop.fd \in Fd /\ conn[loop.fd] \in Client /\ conn \in [Fd -> Client \cup {NoClient}]
        /\ ready \in Seq(Fd \cup {serv_sock})
    BY <1>0 DEF Links, TypeInv, NetType
  <1>2. conn'[loop.fd] = NoClient /\ \A x \in Fd \ {loop.fd} : conn'[x] = conn[x]
    BY <1>0, <1>1
  <1>3. loop'.pc = "delete"
    BY <1>0, LoopEffects DEF LoopIs
  <1>4. conn[loop.fd] \notin Clients
    <2>1. Turns(conn[loop.fd]) /\ Stage(conn[loop.fd]) = "dispatch"
      BY <1>0, <1>1 DEF BaseInv, Stage
    <2>2. client[conn[loop.fd]].pc \in Ended
      BY <1>0, <2>1 DEF Turns
    <2>3. QED
      BY <2>2 DEF Clients
  <1>5. Unfinished' = Unfinished /\ Clients' = Clients
    BY <1>0 DEF Unfinished, Pool!Queued, Pool!Range, Clients
  <1>6. \A t \in Unfinished : conn'[task'[t].fd] = conn[task[t].fd]
    <2> SUFFICES ASSUME NEW t \in Unfinished PROVE conn'[task[t].fd] = conn[task[t].fd]
      BY <1>0
    <2>1. task[t].fd \in Fd /\ conn[task[t].fd] \in Clients
      BY <1>0, OpenDescriptor DEF TasksServe
    <2>2. QED
      BY <1>2, <1>4, <2>1
  <1>7. \A d : OpenTasks(d)' = OpenTasks(d) /\ Stage(d)' = "none"
    BY <1>0, <1>3, <1>5, <1>6 DEF OpenTasks, Stage
  <1>8. InStep'
    <2> SUFFICES ASSUME NEW d \in Clients PROVE Asking(d)' \/ Answered(d)'
      BY <1>5 DEF InStep
    <2>1. d \in Client /\ Stage(d) = "none"
      BY <1>4 DEF Clients, Stage
    <2>2. QED
      BY <1>0, <1>7, <2>1, Untouched DEF InStep
  <1>9. TasksServe'
    BY <1>0, <1>5, <1>6 DEF TasksServe
  <1>10. ASSUME NEW d \in Client, Pending(d)' PROVE Pending(d)
    <2>1. Range(ready') = Range(ready) \ {loop.fd}
      BY <1>0, <1>1, KeepRange
    <2>2. \A x \in Range(ready') \ {serv_sock} : x \in Range(ready) /\ conn'[x] = conn[x]
      BY <1>1, <1>2, <2>1 DEF Range
    <2>3. QED
      BY <1>0, <1>7, <1>10, <2>2 DEF Pending
  <1>11. EndsSeen'
    BY <1>0, <1>7, <1>10 DEF EndsSeen
  <1>12. QED
    BY <1>0, <1>7, <1>8, <1>9, <1>11 DEF SyncBody

\* No task that has a client is withdrawn.
LEMMA DeleteSync ==
    ASSUME BaseInv, SyncBody, DelCloseFD, client' = client, alive' = alive
    PROVE  SyncBody' /\ \A d : OpenTasks(d)' = OpenTasks(d)
  <1>0. TypeInv /\ Links /\ alive /\ InStep /\ TasksServe /\ EndsSeen
    BY DEF BaseInv, SyncBody
  <1>1. /\ Range(queue') = {t \in Range(queue) : task[t].fd # loop.fd}
        /\ loop.pc = "delete" /\ UNCHANGED <<up, down, backlog, conn, ready, task, running>>
    BY <1>0, WithdrawEffect DEF netvars
  <1>2. loop'.pc = "wait" /\ conn[loop.fd] = NoClient /\ NoClient \notin Clients
    BY <1>0, <1>1, LoopEffects, SyncAssumption DEF LoopIs, Links, Clients
  <1>3. Unfinished' = Unfinished
    <2>1. Range(queue) \subseteq Unfinished
      BY UnfinishedDef
    <2>2. Range(queue') = Range(queue)
      BY <1>0, <1>1, <1>2, <2>1 DEF TasksServe
    <2>3. Unfinished' = Range(queue') \cup {t \in running' : task'[t].pc # "chunk" \/ task'[t].left > 0}
      BY PoolOperators DEF Unfinished, Pool!Queued, Pool!Range, Range
    <2>4. QED
      BY <1>1, <2>2, <2>3, UnfinishedDef
  <1>4. (\A d : OpenTasks(d)' = OpenTasks(d) /\ Stage(d)' = "none" /\ Stage(d) = "none")
        /\ Clients' = Clients
    BY <1>1, <1>2, <1>3 DEF OpenTasks, Stage, Clients
  <1>5. InStep'
    <2> SUFFICES ASSUME NEW d \in Clients PROVE Asking(d)' \/ Answered(d)'
      BY <1>4 DEF InStep
    <2>1. d \in Client
      BY DEF Clients
    <2>2. QED
      BY <1>0, <1>1, <1>4, <2>1, Untouched DEF InStep
  <1>6. TasksServe'
    BY <1>0, <1>1, <1>3, <1>4 DEF TasksServe
  <1>7. EndsSeen'
    <2>1. \A d : Pending(d)' => Pending(d)
      BY <1>1, <1>4 DEF Pending
    <2>2. QED
      BY <1>0, <1>1, <1>4, <2>1 DEF EndsSeen
  <1>8. QED
    BY <1>0, <1>4, <1>5, <1>6, <1>7 DEF SyncBody

\* A worker that takes a task has not sent anything yet.
LEMMA StartSync ==
    ASSUME BaseInv, SyncBody, StartTask
    PROVE  SyncBody' /\ \A d : OpenTasks(d)' = OpenTasks(d)
  <1>0. TypeInv /\ Places /\ alive /\ InStep /\ TasksServe /\ EndsSeen
        /\ UNCHANGED <<client, up, down, backlog, conn, ready, loop, task, alive>>
    BY DEF BaseInv, SyncBody, StartTask, netvars
  <1>1. queue # <<>> /\ running' = running \cup {Head(queue)} /\ queue' = Tail(queue)
    BY DEF StartTask, Pool!Start
  <1>2. Head(queue) \in Range(queue) /\ Range(queue') = Range(queue) \ {Head(queue)}
    BY <1>0, <1>1, TailLemma DEF TypeInv, PoolType, Places
  <1>3. task[Head(queue)].pc = "open"
    <2>1. task[Head(queue)] = Frame(task[Head(queue)].fd)
      BY <1>0, <1>2 DEF Places
    <2>2. \A x : Frame(x).pc = "open"
      BY DEF Frame
    <2>3. QED
      BY <2>1, <2>2
  <1>4. Unfinished' = Unfinished
    <2>1. Unfinished' = Range(queue') \cup {t \in running' : task'[t].pc # "chunk" \/ task'[t].left > 0}
      BY PoolOperators DEF Unfinished, Pool!Queued, Pool!Range, Range
    <2>2. QED
      BY <1>0, <1>1, <1>2, <1>3, <2>1, UnfinishedDef
  <1>5. (\A d : OpenTasks(d)' = OpenTasks(d) /\ Stage(d)' = Stage(d) /\ (Pending(d)' => Pending(d)))
        /\ Clients' = Clients
    BY <1>0, <1>4 DEF OpenTasks, Stage, Clients, Pending
  <1>6. InStep'
    <2> SUFFICES ASSUME NEW d \in Clients PROVE Asking(d)' \/ Answered(d)'
      BY <1>5 DEF InStep
    <2>1. d \in Client
      BY DEF Clients
    <2>2. QED
      BY <1>0, <1>5, <2>1, Untouched DEF InStep
  <1>7. TasksServe'
    BY <1>0, <1>4, <1>5 DEF TasksServe
  <1>8. EndsSeen'
    BY <1>0, <1>5 DEF EndsSeen
  <1>9. QED
    BY <1>0, <1>5, <1>6, <1>7, <1>8 DEF SyncBody

\* A piece that a task sends to a client joins the pieces on their way.
LEMMA SendOne ==
    ASSUME TypeInv, NEW t \in running, NEW f, NEW r \in Nat, NEW s \in Nat, NEW m \in Reply,
           Send(t, m), m = Part(f, s + 1), conn[task[t].fd] \in Clients,
           Between(down[conn[task[t].fd]], f, r, s)
    PROVE  /\ alive' = alive /\ Between(down'[conn[task[t].fd]], f, r, s + 1)
           /\ \A d \in Client \ {conn[task[t].fd]} : down'[d] = down[d]
  <1>1. PICK c \in Client : c = conn[task[t].fd] /\ c \in Clients
    BY DEF Clients
  <1>2. down[c] \in Seq(Reply)
    BY DEF TypeInv, NetType
  <1>3. Between(Append(down[c], m), f, r, s + 1)
    BY <1>1, <1>2, BetweenAppend
  <1>4. QED
    BY <1>1, <1>3, SendEffect

(* The effect on the transfer of f of a step that sends its piece behind the s-th. *)
SentOne(t, f, r, s) ==
    LET c == conn[task[t].fd]
    IN /\ alive' = alive /\ Between(down'[c], f, r, s + 1)
       /\ \A d \in Client \ {c} : down'[d] = down[d]
       /\ IF s + 1 = Total(f) THEN task'[t].pc = "chunk" /\ task'[t].left = 0
          ELSE Sends(task'[t], f, s + 1) /\ (task'[t].pc # "chunk" \/ task'[t].left > 0)

\* A task that has the file open sends the next piece of the answer.
LEMMA SendStep ==
    ASSUME TypeInv, NEW t \in running, NEW f \in File \cup {NoFile}, NEW r \in Nat, NEW s \in Nat,
           conn[task[t].fd] \in Clients, Between(down[conn[task[t].fd]], f, r, s),
           Sends(task[t], f, s), TaskStep(t), ~OpenFile(t), task[t].pc # "chunk" \/ task[t].left > 0
    PROVE  SentOne(t, f, r, s)
  <1> DEFINE G == Groups(f)
  <1>0. G \in Nat /\ Total(f) = 2 + 2 * G /\ Split \in Nat \ {0}
    BY GroupCount, SyncAssumption DEF Total
  <1>1. ~EndTask(t) /\ task[t].pc # "open"
    <2>1. ~EndTask(t)
      BY DEF EndTask, AtTask
    <2>2. QED
      BY <2>1 DEF TaskStep, SendInfoLength, SendInfo, SendChunkLength, SendChunk, AtTask
  <1>2. task[t] # Frame(task[t].fd)
    <2>1. \A x : Frame(x).pc = "open"
      BY DEF Frame
    <2>2. QED
      BY <1>1, <2>1
  <1> HIDE DEF G
  <1>3. ASSUME s = 0, task[t].pc = "infolen", task[t].file = f, task[t].left = G, task[t].pos = 0
        PROVE  SentOne(t, f, r, s)
    <2>1. SendInfoLength(t)
      BY <1>1, <1>3 DEF TaskStep, SendInfo, SendChunkLength, SendChunk, AtTask
    <2>2. Send(t, Length(InfoLen)) /\ Length(InfoLen) \in Reply /\ Length(InfoLen) = Part(f, s + 1)
      BY <1>3, <2>1, PieceTypes, PartOfGroup DEF SendInfoLength
    <2>3. /\ alive' = alive /\ Between(down'[conn[task[t].fd]], f, r, s + 1)
          /\ \A d \in Client \ {conn[task[t].fd]} : down'[d] = down[d]
      BY <2>2, SendOne
    <2>4. task'[t].pc = "info" /\ task'[t].file = f /\ task'[t].left = G /\ task'[t].pos = 0
      BY <1>3, <2>1, FrameEffects DEF FrameIs
    <2>5. s + 1 = 1 /\ s + 1 # Total(f) /\ Sends(task'[t], f, s + 1)
      BY <1>0, <1>3, <2>4 DEF Sends, G
    <2>6. QED
      BY <2>3, <2>4, <2>5 DEF SentOne
  <1>4. ASSUME s = 1, task[t].pc = "info", task[t].file = f, task[t].left = G, task[t].pos = 0
        PROVE  SentOne(t, f, r, s)
    <2>1. SendInfo(t)
      BY <1>1, <1>4 DEF TaskStep, SendInfoLength, SendChunkLength, SendChunk, AtTask
    <2>2. PICK m \in Reply : m = Info(Len(Content(f))) /\ Send(t, m)
      BY <1>4, <2>1, PieceTypes DEF SendInfo
    <2>3. m = Part(f, s + 1)
      BY <1>4, <2>2, PartOfGroup, SMTT(30)
    <2>4. /\ alive' = alive /\ Between(down'[conn[task[t].fd]], f, r, s + 1)
          /\ \A d \in Client \ {conn[task[t].fd]} : down'[d] = down[d]
      BY <2>2, <2>3, SendOne
    <2>5. task'[t].pc = "chunk" /\ task'[t].file = f /\ task'[t].left = G /\ task'[t].pos = 0
      BY <1>4, <2>1, FrameEffects DEF FrameIs
    <2>6. CASE G = 0
      BY <1>0, <1>4, <2>4, <2>5, <2>6 DEF SentOne
    <2>7. CASE G # 0
      <3>1. 0 \in 0 .. G - 1 /\ G = G - 0 /\ 0 = 0 * Split /\ s + 1 = 2 + 2 * 0 /\ s + 1 # Total(f)
        BY <1>0, <1>4, <2>7
      <3>2. Sends(task'[t], f, s + 1)
        BY <2>5, <3>1 DEF Sends, G
      <3>3. QED
        BY <1>0, <2>4, <2>5, <2>7, <3>1, <3>2 DEF SentOne
    <2>8. QED
      BY <2>6, <2>7
  <1>5. ASSUME NEW g \in 0 .. G - 1, task[t].file = f, task[t].left = G - g, task[t].pos = g * Split,
               s = 2 + 2 * g, task[t].pc = "chunk"
        PROVE  SentOne(t, f, r, s)
    <2>0. g \in Nat /\ s + 1 = 3 + 2 * g /\ s + 1 # Total(f) /\ g < G
      BY <1>0, <1>5
    <2>1. SendChunkLength(t)
      BY <1>1, <1>5 DEF TaskStep, SendInfoLength, SendInfo, SendChunk, AtTask
    <2>2. PICK m \in Reply : m = Length(Len(Group(f, g * Split))) /\ Send(t, m)
      <3>1. Length(ReadFile(t).len) \in Reply /\ Send(t, Length(ReadFile(t).len))
        BY <2>1, PieceTypes DEF SendChunkLength
      <3>2. ReadFile(t).len = Len(Group(f, g * Split))
        BY <1>5 DEF ReadFile
      <3>3. QED
        BY <3>1, <3>2
    <2>3. m = Part(f, s + 1)
      BY <2>0, <2>2, PartOfGroup
    <2>4. /\ alive' = alive /\ Between(down'[conn[task[t].fd]], f, r, s + 1)
          /\ \A d \in Client \ {conn[task[t].fd]} : down'[d] = down[d]
      BY <2>2, <2>3, SendOne
    <2>5. task'[t].pc = "chunkbody" /\ task'[t].file = f /\ task'[t].left = G - g
          /\ task'[t].pos = g * Split
      BY <1>5, <2>1, FrameEffects DEF FrameIs
    <2>6. Sends(task'[t], f, s + 1)
      BY <1>5, <2>0, <2>5 DEF Sends, G
    <2>7. QED
      BY <2>0, <2>4, <2>5, <2>6 DEF SentOne
  <1>6. ASSUME NEW g \in 0 .. G - 1, task[t].file = f, task[t].left = G - g, task[t].pos = g * Split,
               s = 3 + 2 * g, task[t].pc = "chunkbody"
        PROVE  SentOne(t, f, r, s)
    <2>0. g \in Nat /\ s + 1 = 4 + 2 * g /\ g < G
      BY <1>0, <1>6
    <2>1. SendChunk(t)
      BY <1>1, <1>6 DEF TaskStep, SendInfoLength, SendInfo, SendChunkLength, AtTask
    <2>2. PICK m \in Reply : m = Chunk(Group(f, g * Split)) /\ Send(t, m)
      <3>1. Chunk(ReadFile(t).bytes) \in Reply /\ Send(t, Chunk(ReadFile(t).bytes))
        BY <2>1, PieceTypes DEF SendChunk
      <3>2. ReadFile(t).bytes = Group(f, g * Split)
        BY <1>6 DEF ReadFile
      <3>3. QED
        BY <3>1, <3>2
    <2>3. m = Part(f, s + 1)
      BY <2>0, <2>2, PartOfGroup
    <2>4. /\ alive' = alive /\ Between(down'[conn[task[t].fd]], f, r, s + 1)
          /\ \A d \in Client \ {conn[task[t].fd]} : down'[d] = down[d]
      BY <2>2, <2>3, SendOne
    <2>5. task'[t].pc = "chunk" /\ task'[t].file = f /\ task'[t].left = G - g - 1
          /\ task'[t].pos = g * Split + Len(Group(f, g * Split))
      BY <1>6, <2>1, FrameEffects DEF FrameIs
    <2>6. CASE g + 1 = G
      BY <1>0, <2>0, <2>4, <2>5, <2>6 DEF SentOne
    <2>7. CASE g + 1 # G
      <3>1. g + 1 < G /\ g + 1 \in 0 .. G - 1 /\ G - g - 1 = G - (g + 1) /\ s + 1 = 2 + 2 * (g + 1)
            /\ s + 1 # Total(f) /\ G - g - 1 > 0
        BY <1>0, <2>0, <2>7
      <3>2. task'[t].pos = (g + 1) * Split
        BY <2>0, <2>5, <3>1, GroupPlace DEF G
      <3>3. Sends(task'[t], f, s + 1)
        BY <2>5, <3>1, <3>2 DEF Sends, G
      <3>4. QED
        BY <2>4, <2>5, <3>1, <3>3 DEF SentOne
    <2>8. QED
      BY <2>6, <2>7
  <1>7. QED
    BY <1>2, <1>3, <1>4, <1>5, <1>6 DEF Sends, G

\* A step of a task that has something left to send: it serves one client, and the
\* transfer it makes goes on, or begins when the task opens the file.
LEMMA TaskTransfer ==
    ASSUME BaseInv, SyncBody, NEW t \in running, TaskStep(t), t \in Unfinished
    PROVE  \E c \in Clients :
             /\ c = conn[task[t].fd] /\ OpenTasks(c) = {t} /\ Answered(c) /\ alive' = alive
             /\ Unfinished' \subseteq Unfinished /\ (\A u \in Unfinished : task'[u].fd = task[u].fd)
             /\ \A d \in Client \ {c} : down'[d] = down[d] /\ OpenTasks(d)' = OpenTasks(d)
             /\ \A u \in Unfinished \ {t} : task'[u] = task[u]
             /\ \A f, e \in File \cup {NoFile} :
                   Transfer(c, f) /\ e = (IF OpenFile(t) THEN CapturedName ELSE f)
                       => Transfer(c, e)'
  <1>0. TypeInv /\ Places /\ InStep /\ TasksServe /\ alive /\ OwnTask(t)
    BY OwnTaskStep DEF BaseInv, SyncBody
  <1>1. conn[task[t].fd] \in Clients
    BY <1>0 DEF TasksServe
  <1>2. PICK c \in Clients : c = conn[task[t].fd]
    BY <1>1
  <1>3. t \in OpenTasks(c) /\ c \in Client
    BY <1>2 DEF OpenTasks, Clients
  <1>4. Answered(c)
    BY <1>0, <1>3 DEF InStep, Asking
  <1>5. ASSUME NEW f, Transfer(c, f)
        PROVE  OpenTasks(c) = {t} /\ \E r, s \in 0 .. Total(f) :
                   /\ Receives(client[c], f, r) /\ Between(down[c], f, r, s)
                   /\ s # Total(f) /\ Sends(task[t], f, s)
    BY <1>3, <1>5 DEF Transfer
  <1>6. OpenTasks(c) = {t}
    BY <1>4, <1>5 DEF Answered
  <1>7. t \notin Range(queue) /\ t \in DOMAIN task /\ (task[t].pc # "chunk" \/ task[t].left > 0)
    BY <1>0, UnfinishedDef DEF Places, TypeInv, PoolType
  <1>8. ~EndTask(t)
    BY <1>7 DEF EndTask, AtTask
  <1>9. running' = running /\ queue' = queue /\ task'[t].fd = task[t].fd /\ client' = client
        /\ conn' = conn
    <2>1. task'[t].fd = task[t].fd
      BY <1>0, <1>8, FrameEffects DEF TaskStep, FrameIs
    <2>2. running' = running
      <3>1. pvars' = pvars
        BY <1>8 DEF TaskStep, OpenFile, SendInfoLength, SendInfo, SendChunkLength, SendChunk, Send
      <3>2. QED
        BY <3>1 DEF pvars
    <2>3. QED
      BY <1>0, <2>1, <2>2 DEF OwnTask
  <1>10. \A u \in DOMAIN task \ {t} : task'[u] = task[u]
    BY <1>0 DEF OwnTask
  <1>11. Unfinished' = (Unfinished \ {t}) \cup
                           IF task'[t].pc # "chunk" \/ task'[t].left > 0 THEN {t} ELSE {}
    <2>1. Unfinished' = Range(queue') \cup {u \in running' : task'[u].pc # "chunk" \/ task'[u].left > 0}
      BY PoolOperators DEF Unfinished, Pool!Queued, Pool!Range, Range
    <2>2. running \subseteq DOMAIN task
      BY <1>0 DEF TypeInv, PoolType
    <2>3. QED
      BY <1>7, <1>9, <1>10, <2>1, <2>2, UnfinishedDef
  <1>12. \A u \in Unfinished \ {t} : task'[u] = task[u]
    BY <1>0, <1>10, OpenDescriptor
  <1>13. \A u \in Unfinished : task'[u].fd = task[u].fd
    BY <1>9, <1>12
  <1>14. Unfinished' \subseteq Unfinished
    BY <1>11
  <1>15. \A d : OpenTasks(d)' = {u \in Unfinished' : conn[task[u].fd] = d}
    BY <1>9, <1>13, <1>14 DEF OpenTasks
  <1>16. \A d \in Client \ {c} : OpenTasks(d)' = OpenTasks(d)
    BY <1>2, <1>11, <1>15 DEF OpenTasks
  <1>17. OpenTasks(c)' = IF task'[t].pc # "chunk" \/ task'[t].left > 0 THEN {t} ELSE {}
    BY <1>2, <1>6, <1>11, <1>15 DEF OpenTasks
  <1>18. CASE OpenFile(t)
    <2>0. PICK e \in File \cup {NoFile} : e = CapturedName
      BY <1>0, CapturedType
    <2>1. Groups(e) \in Nat
      BY GroupCount
    <2>2. /\ task[t].pc = "open" /\ alive' = alive /\ down' = down
          /\ task'[t].pc = "infolen" /\ task'[t].file = e /\ task'[t].left = Groups(e)
          /\ task'[t].pos = task[t].pos
      BY <1>0, <1>18, <2>0, FrameEffects DEF OpenFile, AtTask, FrameIs, netvars, Groups
    <2>3. ASSUME NEW f \in File \cup {NoFile}, Transfer(c, f) PROVE Transfer(c, e)'
      <3>1. PICK r, s \in 0 .. Total(f) : /\ Receives(client[c], f, r) /\ Between(down[c], f, r, s)
                                          /\ Sends(task[t], f, s)
        BY <1>5, <2>3
      <3>2. s = 0 /\ task[t] = Frame(task[t].fd)
        BY <2>2, <3>1 DEF Sends
      <3>3. task[t].pos = 0
        BY <3>2 DEF Frame
      <3>4. r = 0 /\ Len(down[c]) = 0
        <4>1. Total(f) \in Nat
          BY GroupCount DEF Total
        <4>2. r \in Nat /\ r <= s /\ Len(down[c]) = s - r
          BY <3>1, <4>1 DEF Between
        <4>3. QED
          BY <3>2, <4>2
      <3>5. client[c].pc = "infolen" /\ client[c].copy = <<>>
        <4>1. Groups(f) \in Nat
          BY GroupCount
        <4>2. QED
          BY <3>1, <3>4, <4>1 DEF Receives
      <3>6. Receives(client'[c], e, 0) /\ Between(down'[c], e, 0, 0)
        BY <1>9, <2>2, <3>4, <3>5 DEF Receives, Between
      <3>7. Sends(task'[t], e, 0) /\ OpenTasks(c)' = {t}
        BY <1>17, <2>2, <3>3 DEF Sends
      <3>8. 0 \in 0 .. Total(e) /\ 0 # Total(e)
        BY <2>1 DEF Total
      <3>9. QED
        BY <3>6, <3>7, <3>8 DEF Transfer
    <2>4. QED
      BY <1>2, <1>4, <1>6, <1>12, <1>13, <1>14, <1>16, <1>18, <2>0, <2>2, <2>3
  <1>19. CASE ~OpenFile(t)
    <2>1. ASSUME NEW f \in File \cup {NoFile}, Transfer(c, f)
          PROVE  /\ Transfer(c, f)' /\ alive' = alive
                 /\ \A d \in Client \ {c} : down'[d] = down[d]
      <3>1. PICK r, s \in 0 .. Total(f) : /\ Receives(client[c], f, r) /\ Between(down[c], f, r, s)
                                          /\ s # Total(f) /\ Sends(task[t], f, s)
        BY <1>5, <2>1
      <3>2. Total(f) \in Nat
        BY GroupCount DEF Total
      <3>3. r \in Nat /\ s \in Nat /\ s + 1 \in 0 .. Total(f)
        BY <3>1, <3>2
      <3>4. SentOne(t, f, r, s)
        BY <1>0, <1>2, <1>7, <1>19, <3>1, <3>3, SendStep
      <3>5. /\ Receives(client'[c], f, r) /\ Between(down'[c], f, r, s + 1)
            /\ alive' = alive /\ \A d \in Client \ {c} : down'[d] = down[d]
        BY <1>2, <1>9, <3>1, <3>4 DEF SentOne
      <3>6. IF s + 1 = Total(f) THEN OpenTasks(c)' = {}
            ELSE OpenTasks(c)' = {t} /\ Sends(task'[t], f, s + 1)
        BY <1>17, <3>4 DEF SentOne
      <3>7. Transfer(c, f)'
        BY <3>1, <3>3, <3>5, <3>6 DEF Transfer
      <3>8. QED
        BY <3>5, <3>7
    <2>2. QED
      BY <1>2, <1>4, <1>6, <1>12, <1>13, <1>14, <1>16, <1>19, <2>1 DEF Answered
  <1>20. QED
    BY <1>18, <1>19

\* A task that has nothing left to send can only end.
LEMMA EndEffect ==
    ASSUME BaseInv, NEW t \in running, TaskStep(t), t \notin Unfinished
    PROVE  /\ Unfinished' = Unfinished /\ (\A d : OpenTasks(d)' = OpenTasks(d)) /\ down' = down
           /\ alive' = alive /\ \A u \in Unfinished : task'[u] = task[u]
  <1>0. TypeInv /\ Places /\ OwnTask(t)
    BY OwnTaskStep DEF BaseInv
  <1>1. task[t].pc = "chunk" /\ ~(task[t].left > 0)
    BY UnfinishedDef
  <1>2. EndTask(t)
    BY <1>1 DEF TaskStep, OpenFile, SendInfoLength, SendInfo, SendChunkLength, SendChunk, AtTask
  <1>3. /\ running' = running \ {t} /\ queue' = queue /\ conn' = conn /\ down' = down
        /\ alive' = alive
    BY <1>2 DEF EndTask, Pool!Finish, netvars
  <1>4. \A u \in Unfinished : u # t /\ task'[u] = task[u]
    BY <1>0, OpenDescriptor DEF OwnTask
  <1>5. Unfinished' = Unfinished
    <2>1. Unfinished' = Range(queue') \cup {u \in running' : task'[u].pc # "chunk" \/ task'[u].left > 0}
      BY PoolOperators DEF Unfinished, Pool!Queued, Pool!Range, Range
    <2>2. \A u \in running \ {t} : task'[u] = task[u]
      BY <1>0 DEF OwnTask, TypeInv, PoolType
    <2>3. QED
      BY <1>3, <2>1, <2>2, UnfinishedDef
  <1>6. QED
    BY <1>3, <1>4, <1>5 DEF OpenTasks

\* Sending keeps everybody in step.
LEMMA TaskSync ==
    ASSUME BaseInv, SyncBody, NEW t \in running, TaskStep(t)
    PROVE  SyncBody'
  <1>0. TypeInv /\ InStep /\ TasksServe /\ EndsSeen /\ alive
        /\ UNCHANGED <<client, up, backlog, conn, ready, loop>>
    BY OwnTaskStep DEF BaseInv, SyncBody, OwnTask
  <1>1. (\A d : Stage(d)' = Stage(d) /\ (Pending(d)' => Pending(d))) /\ Clients' = Clients
    BY <1>0 DEF Stage, Clients, Pending
  <1>2. EndsSeen'
    BY <1>0, <1>1 DEF EndsSeen
  <1>3. CASE t \notin Unfinished
    <2>1. /\ Unfinished' = Unfinished /\ (\A d : OpenTasks(d)' = OpenTasks(d)) /\ down' = down
          /\ alive' = alive /\ \A u \in Unfinished : task'[u] = task[u]
      BY <1>3, EndEffect
    <2>2. InStep'
      <3> SUFFICES ASSUME NEW d \in Clients PROVE Asking(d)' \/ Answered(d)'
        BY <1>1 DEF InStep
      <3>1. d \in Client /\ \A u \in OpenTasks(d) : task'[u] = task[u]
        BY <2>1 DEF Clients, OpenTasks
      <3>2. QED
        BY <1>0, <1>1, <2>1, <3>1, Untouched DEF InStep
    <2>3. TasksServe'
      BY <1>0, <1>1, <2>1 DEF TasksServe
    <2>4. QED
      BY <1>0, <1>2, <2>1, <2>2, <2>3 DEF SyncBody
  <1>4. CASE t \in Unfinished
    <2>1. PICK c \in Clients :
             /\ c = conn[task[t].fd] /\ OpenTasks(c) = {t} /\ Answered(c) /\ alive' = alive
             /\ Unfinished' \subseteq Unfinished /\ (\A u \in Unfinished : task'[u].fd = task[u].fd)
             /\ (\A d \in Client \ {c} : down'[d] = down[d] /\ OpenTasks(d)' = OpenTasks(d))
             /\ (\A u \in Unfinished \ {t} : task'[u] = task[u])
             /\ \A f, e \in File \cup {NoFile} :
                   Transfer(c, f) /\ e = (IF OpenFile(t) THEN CapturedName ELSE f)
                       => Transfer(c, e)'
      BY <1>4, TaskTransfer
    <2>2. CapturedName \in File \cup {NoFile}
      BY <1>0, CapturedType
    <2>3. Answered(c)'
      <3>1. PICK f \in File \cup {NoFile} : Transfer(c, f)
        BY <2>1 DEF Answered
      <3>2. PICK e \in File \cup {NoFile} : e = IF OpenFile(t) THEN CapturedName ELSE f
        BY <2>2
      <3>3. Transfer(c, e)'
        BY <2>1, <3>1, <3>2
      <3>4. up'[c] = <<>> /\ Stage(c)' = "none"
        BY <1>0, <1>1, <2>1 DEF Answered
      <3>5. QED
        BY <3>3, <3>4 DEF Answered
    <2>4. InStep'
      <3> SUFFICES ASSUME NEW d \in Clients PROVE Asking(d)' \/ Answered(d)'
        BY <1>1 DEF InStep
      <3>1. CASE d = c
        BY <2>3, <3>1
      <3>2. CASE d # c
        <4>1. d \in Client /\ \A u \in OpenTasks(d) : task'[u] = task[u]
          BY <2>1, <3>2 DEF Clients, OpenTasks
        <4>2. QED
          BY <1>0, <1>1, <2>1, <3>2, <4>1, Untouched DEF InStep
      <3>3. QED
        BY <3>1, <3>2
    <2>5. TasksServe'
      BY <1>0, <1>1, <2>1 DEF TasksServe
    <2>6. QED
      BY <1>0, <1>2, <2>1, <2>4, <2>5 DEF SyncBody
  <1>5. QED
    BY <1>3, <1>4

\* Everybody stays in step.
LEMMA SyncStep ==
    ASSUME BaseInv, Solo, SyncInv, [Next]_vars
    PROVE  SyncInv'
  <1> SUFFICES ASSUME Sound' PROVE SyncBody'
    BY DEF SyncInv
  <1>0. TypeInv
    BY DEF BaseInv
  <1>1. SyncBody
    BY <1>0, SoundBefore, FreshSync DEF SyncInv
  <1>2. ASSUME NEW c \in Client, ClientStep(c) \/ Kill(c) PROVE SyncBody'
    BY <1>0, <1>1, <1>2, KilledUnsound, ClientSync
  <1>3. ASSUME NEW c \in Client, InitClient(c) PROVE SyncBody'
    BY <1>1, <1>3, InitSync
  <1>4. CASE LoopStep
    <2>1. client' = client /\ alive' = alive
      BY <1>4 DEF LoopStep
    <2>2. QED
      BY <1>1, <1>4, <2>1, AcceptSync, EventSync, ReadSync, SubmitSync, CloseSync, DeleteSync
      DEF LoopStep
  <1>5. CASE StartTask
    BY <1>1, <1>5, StartSync
  <1>6. ASSUME NEW t \in running, TaskStep(t) PROVE SyncBody'
    BY <1>1, <1>6, TaskSync
  <1>7. CASE UNCHANGED vars
    <2>1. /\ UNCHANGED <<client, up, down, backlog, conn, ready, loop, queue, running, task>>
          /\ alive' = alive
      BY <1>7 DEF vars, netvars, pvars
    <2>2. /\ Unfinished' = Unfinished /\ Clients' = Clients
          /\ \A d : OpenTasks(d)' = OpenTasks(d) /\ Stage(d)' = Stage(d) /\ (Pending(d)' => Pending(d))
      BY <2>1, SameTasks DEF Clients, Stage, Pending
    <2>3. InStep'
      <3> SUFFICES ASSUME NEW d \in Clients PROVE Asking(d)' \/ Answered(d)'
        BY <2>2 DEF InStep
      <3>1. d \in Client
        BY DEF Clients
      <3>2. QED
        BY <1>1, <2>1, <2>2, <3>1, Untouched DEF SyncBody, InStep
    <2>4. QED
      BY <1>1, <2>1, <2>2, <2>3 DEF SyncBody, TasksServe, EndsSeen
  <1>8. QED
    BY <1>2, <1>3, <1>4, <1>5, <1>6, <1>7 DEF Next, Step

\* Copies are only ever added, when the last group of a file has been taken.
LEMMA CopyAdded ==
    ASSUME TypeInv, [Next]_vars, NEW d \in Client
    PROVE  \/ client'[d].got = client[d].got
           \/ FileDone(d) /\ client'[d].got = Append(client[d].got, client[d].copy)
  <1>1. ASSUME NEW c \in Client, ClientStep(c) \/ Kill(c) \/ InitClient(c)
        PROVE  /\ \A x \in Client \ {c} : client'[x] = client[x]
               /\ \/ client'[c].got = client[c].got
                  \/ FileDone(c) /\ client'[c].got = Append(client[c].got, client[c].copy)
    <2>1. CASE InitClient(c) \/ RequestLength(c) \/ RequestName(c) \/ RecvUnexpected(c) \/ RecvInfoEof(c)
      BY <2>1, RequestEffects DEF Becomes
    <2>2. CASE RecvLength(c) \/ RecvInfo(c) \/ RecvChunk(c) \/ RecvChunkEof(c) \/ FileDone(c)
      BY <2>2, ReceiveEffects DEF Becomes
    <2>3. ASSUME NEW how \in Ended, Leave(c, how)
          PROVE  /\ \A x \in Client \ {c} : client'[x] = client[x]
                 /\ client'[c].got = client[c].got
      BY <2>3, RequestEffects DEF Becomes
    <2>4. CASE Exit(c) \/ ExitBySignal(c) \/ Kill(c)
      BY <2>3, <2>4 DEF Exit, ExitBySignal, Kill, Ended
    <2>5. QED
      BY <1>1, <2>1, <2>2, <2>4 DEF ClientStep
  <1>2. LoopStep \/ StartTask \/ (\E t \in running : TaskStep(t)) \/ UNCHANGED vars
           => client' = client
    BY DEF LoopStep, StartTask, TaskStep, vars
  <1>3. QED
    BY <1>1, <1>2 DEF Next, Step

\* A copy that is added is a whole file.
LEMMA WholeStep ==
    ASSUME BaseInv, SyncInv, Whole, [Next]_vars
    PROVE  Whole'
  <1> SUFFICES ASSUME Killed' = {}, NEW c \in Client, NEW i \in DOMAIN client'[c].got
               PROVE  \E f \in File \cup {NoFile} : client'[c].got[i] = Content(f)
    BY DEF Whole
  <1>0. TypeInv /\ client[c].got \in Seq(Seq(Bytes)) /\ client[c].copy \in Seq(Bytes)
    BY ClientFields DEF BaseInv, TypeInv
  <1>1. Killed = {}
    <2>1. ASSUME NEW d \in Client, ClientStep(d) \/ Kill(d) PROVE Killed \subseteq Killed'
      <3>1. Own(d)
        BY <1>0, <2>1, OwnStep
      <3>2. QED
        BY <3>1 DEF Own, Killed, Ended
    <2>2. ASSUME NEW d \in Client, InitClient(d) PROVE Killed \subseteq Killed'
      <3>1. client[d].pc = "new" /\ \A x \in Client \ {d} : client'[x] = client[x]
        BY <1>0, <2>2, RequestEffects DEF Becomes, InitClient, AtClient
      <3>2. QED
        BY <3>1 DEF Killed
    <2>3. LoopStep \/ StartTask \/ (\E t \in running : TaskStep(t)) \/ UNCHANGED vars
             => Killed \subseteq Killed'
      BY DEF LoopStep, StartTask, TaskStep, vars, Killed
    <2>4. QED
      BY <2>1, <2>2, <2>3 DEF Next, Step
  <1>2. \A j \in DOMAIN client[c].got : \E f \in File \cup {NoFile} : client[c].got[j] = Content(f)
    BY <1>1 DEF Whole
  <1>3. CASE client'[c].got = client[c].got
    BY <1>2, <1>3
  <1>4. CASE FileDone(c) /\ client'[c].got = Append(client[c].got, client[c].copy)
    <2>1. client[c].pc = "chunk" /\ client[c].left = 0
      BY <1>4 DEF FileDone, AtClient
    <2>2. c \in Clients /\ InStep
      BY <1>1, <2>1 DEF Clients, Ended, SyncInv, Sound, SyncBody
    <2>3. PICK f \in File \cup {NoFile} : Transfer(c, f)
      BY <2>1, <2>2 DEF InStep, Asking, Answered
    <2>4. client[c].copy = Content(f)
      BY <1>0, <2>1, <2>3, WholeFile
    <2>5. i \in 1 .. Len(client[c].got) + 1
      BY <1>0, <1>4
    <2>6. CASE i = Len(client[c].got) + 1
      BY <1>0, <1>4, <2>3, <2>4, <2>6
    <2>7. CASE i # Len(client[c].got) + 1
      <3>1. i \in DOMAIN client[c].got /\ client'[c].got[i] = client[c].got[i]
        BY <1>0, <1>4, <2>5, <2>7
      <3>2. QED
        BY <1>2, <3>1
    <2>8. QED
      BY <2>6, <2>7
  <1>5. QED
    BY <1>0, <1>3, <1>4, CopyAdded

\* Nobody is there in the beginning, and nothing has been copied.
LEMMA SyncInit == Init => Solo /\ SyncInv /\ Whole
  <1> SUFFICES ASSUME Init PROVE Solo /\ SyncInv /\ Whole
    OBVIOUS
  <1>1. \A c \in Client : client[c].pc = "new" /\ client[c].got = <<>>
    BY DEF Init
  <1>2. Clients = {} /\ Solo
    BY <1>1 DEF Clients, Solo
  <1>3. queue = <<>> /\ running = {} /\ alive
    BY DEF Init, Pool!SInit
  <1>4. Unfinished = {}
    <2>1. Range(queue) = {}
      BY <1>3 DEF Range
    <2>2. QED
      BY <1>3, <2>1, UnfinishedDef
  <1>5. SyncInv
    BY <1>1, <1>2, <1>3, <1>4 DEF SyncInv, SyncBody, InStep, TasksServe, EndsSeen, Ended
  <1>6. Whole
    BY <1>1 DEF Whole
  <1>7. QED
    BY <1>2, <1>5, <1>6

\* The streams are in step in every state.
LEMMA SyncAlways == Spec => [](BaseInv /\ Solo /\ SyncInv /\ Whole)
  <1>1. BaseInv /\ Solo /\ SyncInv /\ Whole /\ [Next]_vars => (BaseInv /\ Solo /\ SyncInv /\ Whole)'
    <2>1. BaseInv => TypeInv
      BY DEF BaseInv
    <2>2. QED
      BY <2>1, BaseStep, SoloStep, SyncStep, WholeStep
  <1>2. QED
    BY <1>1, BaseInit, SyncInit, PTL DEF Spec

\* As long as nobody is killed, the server lives, no client meets a piece it does not
\* expect, every finished copy is one whole file or empty, and no two tasks that have
\* something left to send share a connection (sync_file.cpp:60-130), for any number of
\* clients and workers and files of any size.
THEOREM TransfersStayInSync == Spec => []StreamInSync
  <1>1. BaseInv /\ Solo /\ SyncInv /\ Whole => StreamInSync
    <2> SUFFICES ASSUME BaseInv, SyncInv, Whole, Killed = {} PROVE
             /\ alive
             /\ \A c \in Client :
                  /\ ~AtClient(c, "lost")
                  /\ \A i \in DOMAIN client[c].got :
                        \E f \in File \cup {NoFile} : client[c].got[i] = Content(f)
             /\ \A t, u \in Unfinished :
                  task[t].fd = task[u].fd /\ conn[task[t].fd] # NoClient => t = u
      BY DEF StreamInSync
    <2>1. alive /\ InStep /\ TasksServe
      BY DEF SyncInv, Sound, SyncBody
    <2>2. ASSUME NEW c \in Client PROVE ~AtClient(c, "lost")
      <3>1. client[c].pc = "lost" => c \in Clients
        BY DEF Clients, Ended
      <3>2. Asking(c) \/ Answered(c) => client[c].pc # "lost"
        BY DEF Asking, Answered, Transfer, Receives
      <3>3. QED
        BY <2>1, <3>1, <3>2 DEF InStep, AtClient
    <2>3. ASSUME NEW t \in Unfinished, NEW u \in Unfinished, task[t].fd = task[u].fd PROVE t = u
      <3>1. PICK c \in Clients : c = conn[task[t].fd]
        BY <2>1 DEF TasksServe
      <3>2. t \in OpenTasks(c) /\ u \in OpenTasks(c)
        BY <2>3, <3>1 DEF OpenTasks
      <3>3. Answered(c)
        BY <2>1, <3>2 DEF InStep, Asking
      <3>4. \E x : OpenTasks(c) = {x}
        BY <3>2, <3>3 DEF Answered, Transfer
      <3>5. QED
        BY <3>2, <3>4
    <2>4. QED
      BY <2>1, <2>2, <2>3 DEF Whole
  <1>2. QED
    BY <1>1, SyncAlways, PTL

-----------------------------------------------------------------------------
(* The client that has the server to itself. *)

(* Nothing of others comes behind client c on the lists of the server, and nothing is
   left of them when a request of c is being read or answered. *)
Last(c) ==
    /\ c \in Range(backlog) => backlog[Len(backlog)] = c
    /\ c \in Range(conn) => backlog = <<>>
    /\ \A fd \in Range(ready) \ {serv_sock} : conn[fd] = c => ready[Len(ready)] = fd
    /\ Stage(c) # "none" \/ OpenTasks(c) # {} =>
          /\ \A fd \in Range(ready) : fd # serv_sock /\ conn[fd] = c
          /\ loop.pc # "wait" => Stage(c) # "none"

(* What client c asks for, what the server reads, what the loop's variables hold while a
   task has not copied them, and what is sent: the file of the argument c is at. *)
OwnFile(c) ==
    LET a == client[c].arg
        f == Argv[c][a]
    IN /\ Len(client[c].got) = a - 1
       /\ a <= Len(Argv[c]) \/ (client[c].pc = "name" /\ up[c] = <<>>)
       /\ \A i \in 1 .. Len(up[c]) : up[c][i] \in {Length(NameLen[f]), Name(f)}
       /\ Stage(c) \in {"body", "dispatch"} => loop.recv = NameLen[f]
       /\ Stage(c) = "dispatch" => loop.cmd = f
       /\ \A t \in OpenTasks(c) : task[t].pc = "open" => loop.cmd = f /\ loop.len = NameLen[f]
       /\ Asking(c) \/ Transfer(c, f)

OwnInv == \A c \in Clients \ overlapped : Last(c) /\ OwnFile(c)

(* Client c is the only one. *)
Served(c) == BaseInv /\ SyncBody /\ Clients = {c} /\ Last(c) /\ OwnFile(c)

\* The last element stays the last one when the first one is taken away.
LEMMA LastOfTail ==
    ASSUME NEW U, NEW s \in Seq(U), s # <<>>, NEW x \in Range(Tail(s)), s[Len(s)] = x
    PROVE  Tail(s)[Len(Tail(s))] = x
  <1>1. /\ Len(s) \in Nat \ {0} /\ Tail(s) \in Seq(U) /\ Len(Tail(s)) = Len(s) - 1
        /\ \A i \in 1 .. Len(s) - 1 : Tail(s)[i] = s[i + 1]
    BY HeadTailProperties, EmptySeq
  <1>2. Len(Tail(s)) # 0
    <2>1. PICK i \in DOMAIN Tail(s) : Tail(s)[i] = x
      BY DEF Range
    <2>2. QED
      BY <1>1, <2>1
  <1>3. Len(s) - 1 \in 1 .. Len(s) - 1 /\ Len(s) - 1 + 1 = Len(s)
    BY <1>1, <1>2
  <1>4. QED
    BY <1>1, <1>3

\* A list whose first element is its last one has no other.
LEMMA OneElement ==
    ASSUME NEW U, NEW s \in Seq(U), s # <<>>, NoDuplicates(s), s[Len(s)] = Head(s)
    PROVE  Tail(s) = <<>>
  <1>1. /\ Len(s) \in Nat \ {0} /\ Head(s) = s[1] /\ Tail(s) \in Seq(U)
        /\ Len(Tail(s)) = Len(s) - 1
    BY HeadTailProperties, EmptySeq
  <1>2. 1 \in DOMAIN s /\ Len(s) \in DOMAIN s
    BY <1>1
  <1>3. Len(s) = 1
    BY <1>1, <1>2, Zenon DEF NoDuplicates
  <1>4. PICK v \in Seq(U) : v = Tail(s)
    BY <1>1
  <1>5. Len(v) = 0
    BY <1>1, <1>3, <1>4
  <1>6. v = <<>>
    BY <1>5
  <1>7. QED
    BY <1>4, <1>6

\* The last element stays the last one, too, when others are taken out.
LEMMA LastKept ==
    ASSUME NEW U, NEW s \in Seq(U), s # <<>>, NEW S, s[Len(s)] \in S
    PROVE  Keep(s, S)[Len(Keep(s, S))] = s[Len(s)]
  <1> DEFINE n == Len(s)
             t == [i \in 1 .. n - 1 |-> s[i]]
             x == s[n]
  <1>1. n \in Nat \ {0} /\ x \in U /\ \A i \in 1 .. n : s[i] \in U
    BY EmptySeq
  <1>2. t \in Seq(U) /\ Len(t) = n - 1 /\ \A i \in 1 .. n - 1 : t[i] = s[i]
    <2>1. n - 1 \in Nat /\ \A i \in 1 .. n - 1 : s[i] \in U
      BY <1>1
    <2> HIDE DEF n
    <2>2. QED
      BY <2>1
  <1> HIDE DEF t, x
  <1>3. s = Append(t, x)
    <2>1. Append(t, x) \in Seq(U) /\ Len(Append(t, x)) = n
      BY <1>1, <1>2
    <2>2. \A i \in 1 .. n : Append(t, x)[i] = s[i]
      BY <1>1, <1>2 DEF x
    <2>3. QED
      BY <2>1, <2>2, SeqEqual
  <1>4. Keep(s, S) = Append(Keep(t, S), x) /\ Keep(t, S) \in Seq(U)
    BY <1>1, <1>2, <1>3, KeepAppend, KeepType DEF x
  <1>5. QED
    BY <1>1, <1>4 DEF x

\* The file a client that has an argument left is at.
LEMMA OwnArgument ==
    ASSUME TypeInv, NEW c \in Client, client[c].arg <= Len(Argv[c])
    PROVE  /\ Argv[c][client[c].arg] \in File
           /\ NameLen[Argv[c][client[c].arg]] \in Nat \ {0}
  BY AskedFile, SyncAssumption

\* While the loop is busy, whoever it is busy with, no task of client c has something
\* left to send.
LEMMA Idle ==
    ASSUME NEW c \in Client, Served(c), loop.pc # "wait"
    PROVE  OpenTasks(c) = {}
  <1>1. Asking(c) \/ Answered(c)
    BY DEF Served, SyncBody, InStep
  <1>2. CASE Stage(c) # "none"
    BY <1>1, <1>2 DEF Answered, Asking
  <1>3. CASE Stage(c) = "none"
    BY <1>3 DEF Served, Last
  <1>4. QED
    BY <1>2, <1>3

\* A step that leaves client c, its streams, its request and its tasks alone.
LEMMA OwnSame ==
    ASSUME NEW c \in Client, Served(c), client'[c] = client[c], up'[c] = up[c], down'[c] = down[c],
           Stage(c)' = Stage(c), OpenTasks(c)' = OpenTasks(c),
           \A t \in OpenTasks(c) : task'[t] = task[t],
           Stage(c) = "none" \/ (loop'.recv = loop.recv /\ loop'.cmd = loop.cmd),
           OpenTasks(c) = {} \/ (loop'.cmd = loop.cmd /\ loop'.len = loop.len)
    PROVE  OwnFile(c)'
  <1> DEFINE f == Argv[c][client[c].arg]
  <1>1. OwnFile(c)
    BY DEF Served
  <1>2. Asking(c) \/ Transfer(c, f)
    BY <1>1 DEF OwnFile
  <1>3. Asking(c)' \/ Transfer(c, f)'
    BY <1>2, Untouched
  <1>4. \A t \in OpenTasks(c) : task[t].pc = "open" => loop.cmd = f /\ loop.len = NameLen[f]
    BY <1>1 DEF OwnFile
  <1>5. \A t \in OpenTasks(c)' : task'[t].pc = "open" => loop'.cmd = f /\ loop'.len = NameLen[f]
    BY <1>4
  <1>6. /\ Stage(c)' \in {"body", "dispatch"} => loop'.recv = NameLen[f]
        /\ Stage(c)' = "dispatch" => loop'.cmd = f
    BY <1>1 DEF OwnFile
  <1>7. f = Argv[c][client'[c].arg]
    OBVIOUS
  <1>8. QED
    BY <1>1, <1>3, <1>5, <1>6, <1>7 DEF OwnFile

\* Accepting a connection.
LEMMA AcceptOwn ==
    ASSUME NEW c \in Client, Served(c), AcceptClient, client' = client, alive' = alive
    PROVE  Last(c)' /\ OwnFile(c)'
  <1>0. /\ BaseInv /\ SyncBody /\ Clients = {c} /\ Last(c) /\ TypeInv /\ Links /\ loop.pc = "wait"
        /\ UNCHANGED <<up, down, loop, queue, running, task>> /\ ready # <<>>
    BY DEF Served, BaseInv, AcceptClient, AtLoop, pvars
  <1>1. PICK fd \in Fd :
             /\ conn[fd] = NoClient /\ backlog # <<>> /\ Head(backlog) \in Client
             /\ Head(backlog) \in Range(backlog) /\ Head(backlog) \notin Range(conn)
             /\ conn' = [conn EXCEPT ![fd] = Head(backlog)] /\ backlog' = Tail(backlog)
             /\ Tail(backlog) = <<>> =>
                  ready' = IF Readable(Head(backlog)) THEN Append(Tail(ready), fd) ELSE Tail(ready)
    BY <1>0, AcceptEffect
  <1>2. /\ conn \in [Fd -> Client \cup {NoClient}] /\ backlog \in Seq(Client)
        /\ Tail(ready) \in Seq(Fd \cup {serv_sock}) /\ Range(Tail(ready)) \subseteq Range(ready)
    BY <1>0, ReadyTail DEF TypeInv, NetType
  <1>3. conn'[fd] = Head(backlog) /\ (\A x \in Fd \ {fd} : conn'[x] = conn[x]) /\ DOMAIN conn' = Fd
    BY <1>1, <1>2
  <1>4. OpenTasks(c)' = OpenTasks(c) /\ Stage(c)' = "none" /\ Stage(c) = "none"
    BY <1>0, AcceptSync DEF Stage
  <1>5. OwnFile(c)'
    BY <1>0, <1>4, OwnSame
  <1>6. c \notin Range(conn)
    BY <1>0, <1>1 DEF Last
  <1>7. \A x \in Fd : conn[x] # c
    BY <1>2, <1>6 DEF Range
  <1>8. OpenTasks(c) = {}
    <2>1. \A t \in Unfinished : task[t].fd \in Fd
      BY <1>0, OpenDescriptor DEF BaseInv
    <2>2. QED
      BY <1>7, <2>1 DEF OpenTasks
  <1>9. c \in Range(backlog') => backlog'[Len(backlog')] = c
    <2> SUFFICES ASSUME c \in Range(Tail(backlog)) PROVE Tail(backlog)[Len(Tail(backlog))] = c
      BY <1>1
    <2>1. c \in Range(backlog)
      BY <1>1, <1>2, TailLemma
    <2>2. backlog[Len(backlog)] = c
      BY <1>0, <2>1 DEF Last
    <2>3. QED
      BY <1>1, <1>2, <2>2, LastOfTail
  <1>10. CASE Head(backlog) # c
    <2>1. \A x \in Fd : conn'[x] # c
      BY <1>3, <1>7, <1>10
    <2>2. c \notin Range(conn')
      BY <1>3, <2>1 DEF Range
    <2>3. \A x \in Range(ready') \ {serv_sock} : conn'[x] # c
      <3>1. ready' \in Seq(Fd \cup {serv_sock})
        BY <1>0, AcceptEffect
      <3>2. QED
        BY <2>1, <3>1 DEF Range
    <2>4. QED
      BY <1>4, <1>5, <1>8, <1>9, <2>2, <2>3 DEF Last
  <1>11. CASE Head(backlog) = c
    <2>1. backlog[Len(backlog)] = Head(backlog) /\ NoDuplicates(backlog)
      BY <1>0, <1>1, <1>11 DEF Last, Links
    <2>2. Tail(backlog) = <<>>
      BY <1>1, <1>2, <2>1, OneElement
    <2>3. \A x \in Range(Tail(ready)) : x # serv_sock => x \in Fd /\ x # fd
      BY <1>0, <1>1, <1>2 DEF Links, Range
    <2>4. ASSUME NEW x \in Range(ready') \ {serv_sock}, conn'[x] = c PROVE ready'[Len(ready')] = x
      <3>1. x \notin Range(Tail(ready))
        BY <1>3, <1>7, <2>3, <2>4
      <3>2. ready' = Append(Tail(ready), fd)
        BY <1>1, <2>2, <2>4, <3>1
      <3>3. PICK u \in Seq(Fd \cup {serv_sock}) : u = Tail(ready)
        BY <1>2
      <3>4. Range(Append(u, fd)) = Range(u) \cup {fd}
        <4>1. fd \in Fd \cup {serv_sock}
          OBVIOUS
        <4>2. \A v \in Seq(Fd \cup {serv_sock}) : Range(Append(v, fd)) = Range(v) \cup {fd}
          BY <4>1, AppendLemma
        <4>3. QED
          BY <3>3, <4>2, Zenon
      <3>5. x = fd
        BY <2>4, <3>1, <3>2, <3>3, <3>4
      <3>6. Append(u, fd)[Len(Append(u, fd))] = fd
        BY <3>3
      <3>7. QED
        BY <3>2, <3>3, <3>5, <3>6
    <2>5. QED
      BY <1>1, <1>4, <1>5, <1>8, <1>9, <2>2, <2>4 DEF Last
  <1>12. QED
    BY <1>10, <1>11

\* The loop turns to the next descriptor: to what is left of others, or to client c, and
\* then the list is empty behind it.
LEMMA EventOwn ==
    ASSUME NEW c \in Client, Served(c), SkipReady \/ ClientEvent, client' = client, alive' = alive
    PROVE  Last(c)' /\ OwnFile(c)'
  <1>0. /\ BaseInv /\ SyncBody /\ Clients = {c} /\ Last(c) /\ TypeInv /\ Links /\ loop.pc = "wait"
        /\ UNCHANGED <<up, down, backlog, conn, queue, running, task>> /\ OwnFile(c)
        /\ ready # <<>> /\ Head(ready) # serv_sock /\ ready' = Tail(ready)
    BY DEF Served, BaseInv, SkipReady, ClientEvent, AtLoop, pvars
  <1>1. /\ Head(ready) \in Range(ready) /\ Head(ready) \in Fd
        /\ Range(Tail(ready)) = Range(ready) \ {Head(ready)}
        /\ ready \in Seq(Fd \cup {serv_sock})
    BY <1>0, ReadyTail DEF TypeInv, NetType, serv_sock
  <1>2. SyncBody' /\ OpenTasks(c)' = OpenTasks(c) /\ Stage(c) = "none"
    BY <1>0, EventSync DEF Stage
  <1>3. \A fd \in Range(ready') \ {serv_sock} : conn'[fd] = c => ready'[Len(ready')] = fd
    <2> SUFFICES ASSUME NEW fd \in Range(Tail(ready)) \ {serv_sock}, conn[fd] = c
                 PROVE  Tail(ready)[Len(Tail(ready))] = fd
      BY <1>0
    <2>1. ready[Len(ready)] = fd
      BY <1>0, <1>1 DEF Last
    <2>2. QED
      BY <1>0, <1>1, <2>1, LastOfTail
  <1>4. /\ c \in Range(backlog') => backlog'[Len(backlog')] = c
        /\ c \in Range(conn') => backlog' = <<>>
    BY <1>0 DEF Last
  <1>5. CASE loop' = loop
    <2>1. Stage(c)' = "none"
      BY <1>0, <1>5 DEF Stage
    <2>2. OwnFile(c)'
      BY <1>0, <1>2, <1>5, <2>1, OwnSame
    <2>3. OpenTasks(c) # {} => \A fd \in Range(ready') : fd # serv_sock /\ conn'[fd] = c
      BY <1>0, <1>1 DEF Last
    <2>4. QED
      BY <1>0, <1>2, <1>3, <1>4, <1>5, <2>1, <2>2, <2>3 DEF Last
  <1>6. CASE loop' # loop
    <2>1. loop'.pc = "len" /\ loop'.fd = Head(ready) /\ Readable(conn[Head(ready)])
      BY <1>0, <1>6, LoopEffects DEF SkipReady, ClientEvent, LoopIs
    <2>2. CASE conn[Head(ready)] = c
      <3>1. Stage(c)' = "len"
        BY <1>0, <2>1, <2>2 DEF Stage
      <3>2. c \in Clients /\ client[c].pc \notin Ended
        BY <1>0 DEF Clients
      <3>3. up[c] # <<>>
        BY <2>1, <2>2, <3>2 DEF Readable
      <3>4. Asking(c)
        BY <1>0, <3>2, <3>3 DEF SyncBody, InStep, Answered
      <3>5. OpenTasks(c) = {} /\ Asking(c)'
        <4>1. c \in Clients'
          BY <1>0 DEF Clients
        <4>2. QED
          BY <1>2, <3>1, <3>4, <4>1 DEF SyncBody, InStep, Answered, Asking
      <3>6. ready[Len(ready)] = Head(ready) /\ NoDuplicates(ready)
        BY <1>0, <1>1, <2>2 DEF Last, Links
      <3>7. Tail(ready) = <<>>
        BY <1>0, <1>1, <3>6, OneElement
      <3>8. Range(ready') = {}
        BY <1>0, <3>7 DEF Range
      <3>9. Last(c)'
        BY <1>3, <1>4, <3>1, <3>8 DEF Last
      <3>10. OwnFile(c)'
        BY <1>0, <1>2, <3>1, <3>5 DEF OwnFile
      <3>11. QED
        BY <3>9, <3>10
    <2>3. CASE conn[Head(ready)] # c
      <3>1. Stage(c)' = "none"
        BY <1>0, <2>1, <2>3 DEF Stage
      <3>2. OpenTasks(c) = {}
        BY <1>0, <1>1, <2>3 DEF Last
      <3>3. OwnFile(c)'
        BY <1>0, <1>2, <3>1, <3>2, OwnSame
      <3>4. QED
        BY <1>2, <1>3, <1>4, <3>1, <3>2, <3>3 DEF Last
    <2>4. QED
      BY <2>2, <2>3
  <1>7. QED
    BY <1>5, <1>6

\* The loop reads a request: what client c has sent, or the end of another stream.
LEMMA ReadOwn ==
    ASSUME NEW c \in Client, Served(c), RecvBuffLength \/ RecvBuffBody, client' = client,
           alive' = alive
    PROVE  Last(c)' /\ OwnFile(c)'
  <1>0. /\ BaseInv /\ SyncBody /\ Clients = {c} /\ Last(c) /\ OwnFile(c) /\ TypeInv /\ Links
        /\ UNCHANGED <<down, backlog, conn, ready, queue, running, task>>
        /\ loop.pc \in {"len", "body"} /\ up \in [Client -> Seq(Request)] /\ up[c] \in Seq(Request)
    BY DEF Served, BaseInv, RecvBuffLength, RecvBuffBody, AtLoop, pvars, TypeInv, NetType
  <1>1. PICK d \in Client : d = conn[loop.fd]
    BY <1>0 DEF Links, TypeInv, NetType
  <1>2. SyncBody' /\ OpenTasks(c)' = OpenTasks(c) /\ OpenTasks(c) = {}
    BY <1>0, ReadSync, Idle
  <1>3. loop'.fd = loop.fd /\ loop'.pc \in {"body", "dispatch"}
    BY <1>0, <1>1, ReadEffects DEF LoopIs
  <1>4. Stage(c) # "none" <=> Stage(c)' # "none"
    BY <1>0, <1>3 DEF Stage
  <1>5. Last(c)'
    BY <1>0, <1>2, <1>4 DEF Last
  <1>6. CASE d # c
    <2>1. Stage(c) = "none" /\ Stage(c)' = "none"
      BY <1>0, <1>1, <1>3, <1>6 DEF Stage
    <2>2. up'[c] = up[c]
      BY <1>0, <1>1, <1>6, ReadEffects
    <2>3. QED
      BY <1>0, <1>2, <1>5, <2>1, <2>2, OwnSame
  <1>7. CASE d = c
    <2> DEFINE f == Argv[c][client[c].arg]
               m == Head(up[c])
    <2>1. client[c].pc \notin Ended /\ c \in Clients'
      BY <1>0 DEF Clients
    <2>2. /\ up[c] # <<>> /\ up'[c] = Tail(up[c])
          /\ RecvBuffLength => m.kind = "len" /\ loop'.pc = "body" /\ loop'.recv = m.data
                               /\ loop.pc = "len"
          /\ RecvBuffBody => m.kind = "name" /\ loop'.pc = "dispatch" /\ loop'.recv = loop.recv
                             /\ loop'.cmd = m.data /\ loop.pc = "body"
      BY <1>0, <1>1, <1>7, <2>1, ReadEffects DEF LoopIs, RecvBuffLength, RecvBuffBody, AtLoop
    <2>3. /\ Len(up[c]) \in Nat \ {0} /\ m = up[c][1] /\ Len(Tail(up[c])) = Len(up[c]) - 1
          /\ \A i \in 1 .. Len(up[c]) - 1 : Tail(up[c])[i] = up[c][i + 1]
      BY <1>0, <2>2, HeadTailProperties, EmptySeq
    <2>4. /\ Len(client[c].got) = client[c].arg - 1
          /\ \A i \in 1 .. Len(up[c]) : up[c][i] \in {Length(NameLen[f]), Name(f)}
          /\ Stage(c) \in {"body", "dispatch"} => loop.recv = NameLen[f]
          /\ client[c].arg <= Len(Argv[c])
      BY <1>0, <2>2 DEF OwnFile
    <2>5. m \in {Length(NameLen[f]), Name(f)}
      BY <2>3, <2>4
    <2>6. /\ m.kind = "len" => m.data = NameLen[f]
          /\ m.kind = "name" => m.data = f
      BY <2>5 DEF Length, Name
    <2>7. Stage(c) = loop.pc /\ Stage(c)' = loop'.pc
      BY <1>0, <1>1, <1>3, <1>7 DEF Stage
    <2>8. loop'.recv = NameLen[f] /\ (Stage(c)' = "dispatch" => loop'.cmd = f)
      <3>1. CASE RecvBuffLength
        BY <2>2, <2>6, <2>7, <3>1
      <3>2. CASE RecvBuffBody
        BY <2>2, <2>4, <2>6, <2>7, <3>2
      <3>3. QED
        BY <3>1, <3>2
    <2>9. \A i \in 1 .. Len(up'[c]) : up'[c][i] \in {Length(NameLen[f]), Name(f)}
      <3> SUFFICES ASSUME NEW i \in 1 .. Len(up[c]) - 1
                   PROVE  Tail(up[c])[i] \in {Length(NameLen[f]), Name(f)}
        BY <2>2, <2>3
      <3>1. i + 1 \in 1 .. Len(up[c])
        BY <2>3
      <3>2. QED
        BY <2>3, <2>4, <3>1
    <2>10. Asking(c)'
      BY <1>2, <1>3, <2>1, <2>7 DEF SyncBody, InStep, Answered
    <2>11. f = Argv[c][client'[c].arg]
      OBVIOUS
    <2>12. OwnFile(c)'
      BY <1>2, <2>4, <2>8, <2>9, <2>10, <2>11 DEF OwnFile
    <2>13. QED
      BY <1>5, <2>12
  <1>8. QED
    BY <1>6, <1>7

\* The task that is submitted is that of client c, and the loop's variables hold the name
\* of the file c is at.
LEMMA SubmitOwn ==
    ASSUME NEW c \in Client, Served(c), SubmitTask, client' = client, alive' = alive
    PROVE  Last(c)' /\ OwnFile(c)'
  <1>0. /\ BaseInv /\ SyncBody /\ Clients = {c} /\ Last(c) /\ OwnFile(c) /\ TypeInv /\ Links
        /\ UNCHANGED <<up, down, backlog, conn, ready>>
    BY DEF Served, BaseInv, SubmitTask, netvars
  <1> DEFINE f == Argv[c][client[c].arg]
  <1>1. /\ c = conn[loop.fd] /\ Stage(c) = "dispatch" /\ client[c].pc = "infolen" /\ up[c] = <<>>
        /\ \A e \in File \cup {NoFile} : Transfer(c, e)'
    BY <1>0, SubmitTransfer
  <1>2. loop'.pc = "wait" /\ loop'.cmd = loop.cmd /\ loop'.len = loop.recv
    BY <1>0, LoopEffects DEF LoopIs
  <1>3. Stage(c)' = "none"
    BY <1>2 DEF Stage
  <1>4. /\ Len(client[c].got) = client[c].arg - 1 /\ client[c].arg <= Len(Argv[c])
        /\ loop.recv = NameLen[f] /\ loop.cmd = f
        /\ \A i \in 1 .. Len(up[c]) : up[c][i] \in {Length(NameLen[f]), Name(f)}
    BY <1>0, <1>1 DEF OwnFile
  <1>5. Transfer(c, f)'
    BY <1>0, <1>1, <1>4, OwnArgument
  <1>6. f = Argv[c][client'[c].arg]
    OBVIOUS
  <1>7. OwnFile(c)'
    BY <1>0, <1>2, <1>3, <1>4, <1>5, <1>6 DEF OwnFile
  <1>8. Last(c)'
    BY <1>0, <1>1, <1>2 DEF Last
  <1>9. QED
    BY <1>7, <1>8

\* The loop closes the connection of another client, one that has ended.
LEMMA CloseOwn ==
    ASSUME NEW c \in Client, Served(c), CloseClient, client' = client, alive' = alive
    PROVE  Last(c)' /\ OwnFile(c)'
  <1>0. /\ BaseInv /\ SyncBody /\ Clients = {c} /\ Last(c) /\ TypeInv /\ Links
        /\ UNCHANGED <<up, down, backlog, queue, running, task>>
        /\ loop.pc = "dispatch" /\ loop.recv = 0
        /\ conn' = [conn EXCEPT ![loop.fd] = NoClient]
        /\ ready' = Keep(ready, Range(ready) \ {loop.fd})
    BY DEF Served, BaseInv, CloseClient, AtLoop, pvars
  <1>1. /\ loop.fd \in Fd /\ conn[loop.fd] \in Client /\ conn \in [Fd -> Client \cup {NoClient}]
        /\ ready \in Seq(Fd \cup {serv_sock})
    BY <1>0 DEF Links, TypeInv, NetType
  <1>2. /\ conn'[loop.fd] = NoClient /\ (\A x \in Fd \ {loop.fd} : conn'[x] = conn[x])
        /\ DOMAIN conn' = Fd
    BY <1>0, <1>1
  <1>3. loop'.pc = "delete"
    BY <1>0, LoopEffects DEF LoopIs
  <1>4. conn[loop.fd] # c
    <2>1. Turns(conn[loop.fd]) /\ Stage(conn[loop.fd]) = "dispatch"
      BY <1>0, <1>1 DEF BaseInv, Stage
    <2>2. client[conn[loop.fd]].pc \in Ended
      BY <1>0, <2>1 DEF Turns
    <2>3. QED
      BY <1>0, <2>2 DEF Clients
  <1>5. Stage(c) = "none" /\ Stage(c)' = "none" /\ OpenTasks(c)' = OpenTasks(c) /\ OpenTasks(c) = {}
    BY <1>0, <1>3, <1>4, CloseSync, Idle DEF Stage
  <1>6. OwnFile(c)'
    BY <1>0, <1>5, OwnSame
  <1>7. c \in Range(conn') => c \in Range(conn)
    BY <1>1, <1>2, SyncAssumption DEF Range
  <1>8. ASSUME NEW fd \in Range(ready') \ {serv_sock}, conn'[fd] = c PROVE ready'[Len(ready')] = fd
    <2>1. Range(ready') = Range(ready) \ {loop.fd}
      BY <1>0, <1>1, KeepRange
    <2>2. fd \in Range(ready) \ {serv_sock} /\ fd \in Fd /\ fd # loop.fd
      <3>1. fd \in Range(ready) \ {serv_sock} /\ fd # loop.fd
        BY <1>8, <2>1
      <3>2. Range(ready) \subseteq Fd \cup {serv_sock}
        BY <1>1 DEF Range
      <3>3. QED
        BY <3>1, <3>2
    <2>3. conn[fd] = c
      BY <1>2, <1>8, <2>2
    <2>4. ready[Len(ready)] = fd /\ ready # <<>>
      BY <1>0, <2>2, <2>3 DEF Last, Range
    <2>5. ready[Len(ready)] \in Range(ready) \ {loop.fd}
      BY <2>2, <2>4
    <2>6. QED
      BY <1>0, <1>1, <2>4, <2>5, LastKept
  <1>9. Last(c)'
    BY <1>0, <1>5, <1>7, <1>8 DEF Last
  <1>10. QED
    BY <1>6, <1>9

\* The loop withdraws tasks of another client.
LEMMA DeleteOwn ==
    ASSUME NEW c \in Client, Served(c), DelCloseFD, client' = client, alive' = alive
    PROVE  Last(c)' /\ OwnFile(c)'
  <1>0. BaseInv /\ SyncBody /\ Clients = {c} /\ Last(c) /\ TypeInv /\ Links
    BY DEF Served, BaseInv
  <1>1. loop.pc = "delete" /\ UNCHANGED <<up, down, backlog, conn, ready, task>>
    BY <1>0, WithdrawEffect DEF netvars
  <1>2. loop'.pc = "wait"
    BY <1>0, LoopEffects DEF LoopIs
  <1>3. Stage(c) = "none" /\ Stage(c)' = "none" /\ OpenTasks(c)' = OpenTasks(c) /\ OpenTasks(c) = {}
    BY <1>0, <1>1, <1>2, DeleteSync, Idle DEF Stage
  <1>4. OwnFile(c)'
    BY <1>1, <1>3, OwnSame
  <1>5. Last(c)'
    BY <1>0, <1>1, <1>3 DEF Last
  <1>6. QED
    BY <1>4, <1>5

\* A worker takes a task.
LEMMA StartOwn ==
    ASSUME NEW c \in Client, Served(c), StartTask
    PROVE  Last(c)' /\ OwnFile(c)'
  <1>0. /\ BaseInv /\ SyncBody /\ Last(c)
        /\ UNCHANGED <<client, up, down, backlog, conn, ready, loop, task>>
    BY DEF Served, StartTask, netvars
  <1>1. Stage(c)' = Stage(c) /\ OpenTasks(c)' = OpenTasks(c)
    BY <1>0, StartSync DEF Stage
  <1>2. OwnFile(c)'
    BY <1>0, <1>1, OwnSame
  <1>3. Last(c)'
    BY <1>0, <1>1 DEF Last
  <1>4. QED
    BY <1>2, <1>3

\* A task that has something left to send serves client c; it finds the name of the file
\* c is at, and sends its pieces.
LEMMA TaskOwn ==
    ASSUME NEW c \in Client, Served(c), NEW t \in running, TaskStep(t)
    PROVE  Last(c)' /\ OwnFile(c)'
  <1>0. /\ BaseInv /\ SyncBody /\ Clients = {c} /\ Last(c) /\ OwnFile(c) /\ TypeInv
        /\ UNCHANGED <<client, up, backlog, conn, ready, loop>>
    BY OwnTaskStep DEF Served, BaseInv, OwnTask
  <1>1. Stage(c)' = Stage(c)
    BY <1>0 DEF Stage
  <1>2. CASE t \notin Unfinished
    <2>1. /\ OpenTasks(c)' = OpenTasks(c) /\ down' = down
          /\ \A u \in OpenTasks(c) : task'[u] = task[u]
      BY <1>0, <1>2, EndEffect DEF OpenTasks
    <2>2. OwnFile(c)'
      BY <1>0, <1>1, <2>1, OwnSame
    <2>3. QED
      BY <1>0, <1>1, <2>1, <2>2 DEF Last
  <1>3. CASE t \in Unfinished
    <2> DEFINE f == Argv[c][client[c].arg]
    <2>1. /\ c = conn[task[t].fd] /\ OpenTasks(c) = {t} /\ Answered(c)
          /\ Unfinished' \subseteq Unfinished /\ (\A u \in Unfinished : task'[u].fd = task[u].fd)
          /\ \A x, e \in File \cup {NoFile} :
                Transfer(c, x) /\ e = (IF OpenFile(t) THEN CapturedName ELSE x) => Transfer(c, e)'
      BY <1>0, <1>3, TaskTransfer
    <2>2. OpenTasks(c)' \subseteq {t}
      BY <1>0, <2>1 DEF OpenTasks
    <2>3. Last(c)'
      BY <1>0, <1>1, <2>1, <2>2 DEF Last
    <2>4. task'[t].pc # "open"
      <3>1. ~EndTask(t)
        BY <1>0, <1>3, UnfinishedDef DEF EndTask, AtTask, Served, BaseInv, Places
      <3>2. QED
        BY <1>0, <3>1, FrameEffects DEF TaskStep, FrameIs
    <2>5. /\ Transfer(c, f) /\ client[c].arg <= Len(Argv[c])
          /\ task[t].pc = "open" => loop.cmd = f /\ loop.len = NameLen[f]
      <3>1. client[c].pc # "name" /\ ~Asking(c)
        BY <2>1 DEF Answered, Transfer, Receives, Asking
      <3>2. QED
        BY <1>0, <2>1, <3>1 DEF OwnFile
    <2>6. f \in File /\ NameLen[f] \in Nat \ {0}
      BY <1>0, <2>5, OwnArgument
    <2>7. PICK e \in File : e = f /\ Transfer(c, e)'
      <3>1. PICK e \in File : e = f
        BY <2>6
      <3>2. OpenFile(t) => CapturedName = e
        BY <2>5, <2>6, <3>1, SyncAssumption DEF CapturedName, OpenFile, AtTask
      <3>3. QED
        BY <2>1, <2>5, <3>1, <3>2
    <2>8. f = Argv[c][client'[c].arg] /\ Stage(c)' = "none" /\ up'[c] = <<>>
      BY <1>0, <1>1, <2>1 DEF Answered
    <2>9. \A u \in OpenTasks(c)' : task'[u].pc # "open"
      BY <2>2, <2>4
    <2>10. OwnFile(c)'
      BY <1>0, <2>5, <2>7, <2>8, <2>9 DEF OwnFile
    <2>11. QED
      BY <2>3, <2>10
  <1>4. QED
    BY <1>2, <1>3

\* Client c asks for the file it is at, takes its pieces, and goes on to the next one.
LEMMA ClientOwn ==
    ASSUME NEW c \in Client, Served(c), ClientStep(c) \/ Kill(c), c \in Clients'
    PROVE  Last(c)' /\ OwnFile(c)'
  <1>0. /\ BaseInv /\ SyncBody /\ Clients = {c} /\ Last(c) /\ OwnFile(c) /\ TypeInv /\ Own(c)
        /\ Links /\ client'[c].pc \notin Ended /\ up \in [Client -> Seq(Request)]
        /\ up[c] \in Seq(Request)
    BY OwnStep DEF Served, BaseInv, Clients, TypeInv, NetType
  <1>1. /\ backlog' = backlog /\ conn' = conn /\ loop' = loop /\ task' = task
        /\ (ready' = ready \/ Notify(c))
    BY <1>0 DEF Own
  <1>2. OpenTasks(c)' = OpenTasks(c) /\ Stage(c)' = Stage(c)
    BY <1>0, SameTasks DEF Own, pvars, Stage
  <1>3. Last(c)'
    <2>1. CASE ready' = ready
      BY <1>0, <1>1, <1>2, <2>1 DEF Last
    <2>2. ASSUME NEW fd \in Fd, conn[fd] = c, fd \notin Range(ready), ready' = Append(ready, fd)
          PROVE  Last(c)'
      <3>1. Range(ready') = Range(ready) \cup {fd}
        BY <1>0, <2>2, ReadyAppend
      <3>2. ready'[Len(ready')] = fd
        BY <1>0, <2>2 DEF TypeInv, NetType
      <3>3. \A x \in Range(ready') \ {serv_sock} : conn[x] = c => x = fd
        <4>1. Range(ready) \ {serv_sock} \subseteq Fd /\ c # NoClient
          BY <1>0, SyncAssumption DEF TypeInv, NetType, Range
        <4>2. QED
          BY <1>0, <2>2, <3>1, <4>1 DEF Links
      <3>4. fd # serv_sock
        BY DEF Fd, serv_sock
      <3>5. QED
        BY <1>0, <1>1, <1>2, <2>2, <3>1, <3>2, <3>3, <3>4 DEF Last
    <2>3. QED
      BY <1>0, <1>1, <2>1, <2>2, NotifyEffect
  <1>4. Asking(c)' \/ Answered(c)'
    <2>1. client'[c].pc # "killed"
      BY <1>0 DEF Ended
    <2>2. QED
      BY <1>0, <2>1, OwnSync
  <1> DEFINE f == Argv[c][client[c].arg]
  <1>5. /\ Len(client[c].got) = client[c].arg - 1
        /\ client[c].arg <= Len(Argv[c]) \/ (client[c].pc = "name" /\ up[c] = <<>>)
        /\ \A i \in 1 .. Len(up[c]) : up[c][i] \in {Length(NameLen[f]), Name(f)}
        /\ Stage(c) \in {"body", "dispatch"} => loop.recv = NameLen[f]
        /\ Stage(c) = "dispatch" => loop.cmd = f
        /\ \A t \in OpenTasks(c) : task[t].pc = "open" => loop.cmd = f /\ loop.len = NameLen[f]
        /\ Asking(c) \/ Transfer(c, f)
    BY <1>0 DEF OwnFile
  <1>6. ASSUME client'[c].arg = client[c].arg, client'[c].got = client[c].got,
               client[c].arg <= Len(Argv[c]), Asking(c)' \/ Transfer(c, f)',
               \A i \in 1 .. Len(up'[c]) : up'[c][i] \in {Length(NameLen[f]), Name(f)}
        PROVE  OwnFile(c)'
    BY <1>1, <1>2, <1>5, <1>6 DEF OwnFile
  <1>7. ASSUME NEW m \in {Length(NameLen[f]), Name(f)}, m \in Request,
               up' = [up EXCEPT ![c] = Append(@, m)]
        PROVE  /\ \A i \in 1 .. Len(up'[c]) : up'[c][i] \in {Length(NameLen[f]), Name(f)}
               /\ Asking(c)'
    <2>1. /\ up'[c] = Append(up[c], m) /\ Len(Append(up[c], m)) = Len(up[c]) + 1
          /\ Append(up[c], m)[Len(up[c]) + 1] = m /\ Len(up[c]) \in Nat
          /\ \A i \in 1 .. Len(up[c]) : Append(up[c], m)[i] = up[c][i]
      BY <1>0, <1>7
    <2>2. Len(up'[c]) # 0
      BY <2>1
    <2>3. up'[c] # <<>>
      BY <2>2
    <2>4. Asking(c)'
      BY <1>4, <2>3 DEF Answered
    <2>5. \A i \in 1 .. Len(up'[c]) : up'[c][i] \in {Length(NameLen[f]), Name(f)}
      <3> SUFFICES ASSUME NEW i \in 1 .. Len(up[c]) + 1
                   PROVE  Append(up[c], m)[i] \in {Length(NameLen[f]), Name(f)}
        BY <2>1
      <3>1. CASE i = Len(up[c]) + 1
        BY <2>1, <3>1
      <3>2. CASE i # Len(up[c]) + 1
        <4>1. i \in 1 .. Len(up[c])
          BY <2>1, <3>2
        <4>2. QED
          BY <1>5, <2>1, <4>1
      <3>3. QED
        BY <3>1, <3>2
    <2>6. QED
      BY <2>4, <2>5
  <1>8. CASE RequestLength(c)
    <2>1. client[c].arg <= Len(Argv[c]) /\ up' = [up EXCEPT ![c] = Append(@, Length(NameLen[f]))]
      BY <1>8 DEF RequestLength
    <2>2. client'[c].arg = client[c].arg /\ client'[c].got = client[c].got
      BY <1>0, <1>8, RequestEffects DEF Becomes
    <2>3. Length(NameLen[f]) \in Request
      BY <1>0, <2>1, AskedFile
    <2>4. QED
      BY <1>3, <1>6, <1>7, <2>1, <2>2, <2>3
  <1>9. CASE RequestName(c)
    <2>1. client[c].arg <= Len(Argv[c]) /\ up' = [up EXCEPT ![c] = Append(@, Name(f))]
      BY <1>0, <1>9 DEF RequestName, AtClient, TypeInv, ClientType
    <2>2. client'[c].arg = client[c].arg /\ client'[c].got = client[c].got
      BY <1>0, <1>9, RequestEffects DEF Becomes
    <2>3. Name(f) \in Request
      BY <1>0, <2>1, AskedFile
    <2>4. QED
      BY <1>3, <1>6, <1>7, <2>1, <2>2, <2>3
  <1>10. CASE RecvLength(c) \/ RecvInfo(c) \/ RecvChunk(c)
    <2>1. down[c] # <<>> /\ up' = up /\ client[c].pc # "name"
      BY <1>10 DEF RecvLength, RecvInfo, RecvChunk, Arrives, Fits, Waits, AtClient, Recv
    <2>2. Transfer(c, f) /\ client[c].arg <= Len(Argv[c])
      BY <1>5, <2>1 DEF Asking
    <2>3. f \in File
      BY <1>0, <2>2, OwnArgument
    <2>4. \E e \in File : e = f /\ Transfer(c, e)'
      <3>1. PICK e \in File : e = f
        BY <2>3
      <3>2. QED
        BY <1>0, <1>10, <2>2, <3>1, ReceiveSync
    <2>5. client'[c].arg = client[c].arg /\ client'[c].got = client[c].got
      BY <1>0, <1>10, ReceiveEffects DEF Becomes
    <2>6. QED
      BY <1>3, <1>5, <1>6, <2>1, <2>2, <2>4, <2>5
  <1>11. CASE FileDone(c)
    <2>1. client[c].pc = "chunk" /\ client[c].left = 0 /\ up' = up
      BY <1>11 DEF FileDone, AtClient, netvars
    <2>2. Answered(c)
      BY <1>0, <2>1 DEF SyncBody, InStep, Asking
    <2>3. up[c] = <<>> /\ Stage(c) = "none" /\ OpenTasks(c) = {}
      BY <1>0, <2>1, <2>2, WholeFile DEF Answered
    <2>4. /\ client'[c].pc = "name" /\ client'[c].arg = client[c].arg + 1
          /\ client'[c].got = Append(client[c].got, client[c].copy)
      BY <1>0, <1>11, ReceiveEffects DEF Becomes
    <2>5. client[c].got \in Seq(Seq(Bytes)) /\ client[c].copy \in Seq(Bytes) /\ client[c].arg \in Nat
      BY <1>0, ClientFields DEF TypeInv
    <2>6. Len(client'[c].got) = client'[c].arg - 1
      BY <1>5, <2>4, <2>5, SMTT(30)
    <2>7. Asking(c)'
      BY <1>4, <2>4 DEF Answered, Transfer, Receives
    <2>8. up'[c] = <<>> /\ Stage(c)' = "none" /\ OpenTasks(c)' = {}
      BY <1>2, <2>1, <2>3
    <2>9. OwnFile(c)'
      BY <2>4, <2>6, <2>7, <2>8 DEF OwnFile
    <2>10. QED
      BY <1>3, <2>9
  <1>12. ~RecvUnexpected(c)
    <2>1. RecvUnexpected(c) => client'[c].pc = "lost"
      BY <1>0, RequestEffects DEF Becomes
    <2>2. QED
      BY <1>4, <2>1 DEF Asking, Answered, Transfer, Receives
  <1>13. ~RecvInfoEof(c) /\ ~RecvChunkEof(c) /\ ~ExitBySignal(c)
    BY <1>0 DEF RecvInfoEof, RecvChunkEof, ExitBySignal, SyncBody
  <1>14. ~Exit(c) /\ ~Kill(c)
    <2>1. \A how \in Ended : Leave(c, how) => client'[c].pc = how
      BY <1>0, RequestEffects DEF Becomes
    <2>2. QED
      BY <1>0, <2>1 DEF Exit, Kill, Ended
  <1>15. QED
    BY <1>8, <1>9, <1>10, <1>11, <1>12, <1>13, <1>14 DEF ClientStep

\* A client that starts comes behind everything that is left of others.
LEMMA InitOwn ==
    ASSUME BaseInv, SyncBody, NEW c \in Client, InitClient(c)
    PROVE  Last(c)' /\ OwnFile(c)'
  <1>0. /\ TypeInv /\ Links /\ Turns(c) /\ client[c].pc = "new" /\ backlog' = Append(backlog, c)
        /\ UNCHANGED <<up, down, conn>>
    BY DEF BaseInv, InitClient, AtClient
  <1>1. SyncBody' /\ Stage(c)' = "none" /\ OpenTasks(c)' = {}
    BY InitSync
  <1>2. client'[c].pc = "name" /\ client'[c].arg = 1 /\ client'[c].got = <<>> /\ up'[c] = <<>>
    <2>1. /\ client'[c].pc = "name" /\ client'[c].arg = client[c].arg
          /\ client'[c].got = client[c].got
      BY <1>0, RequestEffects DEF Becomes
    <2>2. QED
      BY <1>0, <2>1 DEF Turns
  <1>3. Asking(c)'
    <2>1. c \in Clients'
      BY <1>2 DEF Clients, Ended
    <2>2. QED
      BY <1>1, <1>2, <2>1 DEF SyncBody, InStep, Answered, Transfer, Receives
  <1>4. OwnFile(c)'
    <2>1. Len(client'[c].got) = client'[c].arg - 1 /\ Len(up'[c]) = 0
      BY <1>2
    <2>2. QED
      BY <1>1, <1>2, <1>3, <2>1 DEF OwnFile
  <1>5. c \notin Range(conn) /\ c # NoClient
    BY <1>0, SyncAssumption DEF Links
  <1>6. backlog'[Len(backlog')] = c
    BY <1>0 DEF TypeInv, NetType
  <1>7. \A fd \in Range(ready') \ {serv_sock} : conn'[fd] # c
    <2>1. NetType'
      BY BaseStep DEF Next, BaseInv, TypeInv
    <2>2. Range(ready') \ {serv_sock} \subseteq Fd
      BY <2>1 DEF NetType, Range
    <2>3. QED
      BY <1>0, <1>5, <2>2 DEF TypeInv, NetType, Range
  <1>8. QED
    BY <1>0, <1>1, <1>4, <1>5, <1>6, <1>7 DEF Last

\* Every step keeps what holds for the client that has the server to itself.
LEMMA OwnInvStep ==
    ASSUME BaseInv, Solo, SyncInv, OwnInv, [Next]_vars
    PROVE  OwnInv'
  <1> SUFFICES ASSUME NEW c \in Clients' \ overlapped' PROVE Last(c)' /\ OwnFile(c)'
    BY DEF OwnInv
  <1>0. TypeInv /\ c \in Client
    BY DEF BaseInv, Clients
  <1>1. ASSUME Clients' \subseteq Clients, overlapped' = overlapped PROVE Served(c)
    <2>1. c \in Clients \ overlapped
      BY <1>1
    <2>2. QED
      BY <2>1 DEF Served, Solo, SyncInv, Sound, OwnInv
  <1>2. ASSUME NEW d \in Client, ClientStep(d) \/ Kill(d) PROVE Last(c)' /\ OwnFile(c)'
    <2>1. Own(d)
      BY <1>0, <1>2, OwnStep
    <2>2. Clients' \subseteq Clients /\ overlapped' = overlapped /\ d \in Clients
      BY <2>1 DEF Own, Clients
    <2>3. Served(c)
      BY <1>1, <2>2
    <2>4. d = c
      BY <2>2, <2>3 DEF Served
    <2>5. QED
      BY <1>0, <1>2, <2>3, <2>4, ClientOwn
  <1>3. ASSUME NEW d \in Client, InitClient(d) PROVE Last(c)' /\ OwnFile(c)'
    <2>1. client'[d].pc = "name" /\ \A x \in Client \ {d} : client'[x] = client[x]
      BY <1>0, <1>3, RequestEffects DEF Becomes
    <2>2. Clients' = Clients \cup {d}
      BY <2>1 DEF Clients, Ended
    <2>3. overlapped' = IF Alone THEN overlapped ELSE overlapped \cup Clients \cup {d}
      BY <1>3 DEF InitClient
    <2>4. Alone /\ c = d
      BY <2>2, <2>3 DEF Alone
    <2>5. SyncBody
      <3>1. CASE Killed = {}
        BY <3>1 DEF SyncInv, Sound
      <3>2. CASE Killed # {}
        BY <1>3, <2>4, <3>2, FreshSync DEF Alone, FreshStart
      <3>3. QED
        BY <3>1, <3>2
    <2>6. QED
      BY <1>3, <2>4, <2>5, InitOwn
  <1>4. ASSUME client' = client, overlapped' = overlapped PROVE Served(c)
    <2>1. Clients' = Clients
      BY <1>4 DEF Clients
    <2>2. QED
      BY <1>1, <1>4, <2>1
  <1>5. CASE LoopStep
    <2>1. client' = client /\ alive' = alive /\ overlapped' = overlapped
      BY <1>5 DEF LoopStep
    <2>2. QED
      BY <1>0, <1>4, <1>5, <2>1, AcceptOwn, EventOwn, ReadOwn, SubmitOwn, CloseOwn, DeleteOwn
      DEF LoopStep
  <1>6. CASE StartTask
    BY <1>0, <1>4, <1>6, StartOwn DEF StartTask
  <1>7. ASSUME NEW t \in running, TaskStep(t) PROVE Last(c)' /\ OwnFile(c)'
    <2>1. Served(c)
      BY <1>4, <1>7 DEF TaskStep
    <2>2. QED
      BY <1>0, <1>7, <2>1, TaskOwn
  <1>8. CASE UNCHANGED vars
    <2>1. UNCHANGED <<client, overlapped, up, down, backlog, conn, ready, loop, queue, running, task>>
      BY <1>8 DEF vars, netvars, pvars
    <2>2. Served(c) /\ OpenTasks(c)' = OpenTasks(c) /\ Stage(c)' = Stage(c)
      BY <1>4, <2>1, SameTasks DEF Stage
    <2>3. OwnFile(c)'
      BY <1>0, <2>1, <2>2, OwnSame
    <2>4. QED
      BY <2>1, <2>2, <2>3 DEF Last, Served
  <1>9. QED
    BY <1>2, <1>3, <1>5, <1>6, <1>7, <1>8 DEF Next, Step

\* A copy that is added is the file that was asked for.
LEMMA CopyStep ==
    ASSUME BaseInv, OwnInv, CopyEqualsOriginal, [Next]_vars
    PROVE  CopyEqualsOriginal'
  <1> SUFFICES ASSUME NEW c \in Client \ overlapped', NEW i \in DOMAIN client'[c].got
               PROVE  client'[c].got[i] = Content(Argv[c][i])
    BY DEF CopyEqualsOriginal
  <1>0. TypeInv /\ client[c].got \in Seq(Seq(Bytes)) /\ client[c].copy \in Seq(Bytes)
    BY ClientFields DEF BaseInv, TypeInv
  <1>1. overlapped \subseteq overlapped'
    <2>1. \A d \in Client : InitClient(d) => overlapped \subseteq overlapped'
      BY DEF InitClient
    <2>2. QED
      BY <2>1 DEF Next, Step, ClientStep, LoopStep, StartTask, TaskStep, Kill, vars
  <1>2. \A j \in DOMAIN client[c].got : client[c].got[j] = Content(Argv[c][j])
    BY <1>1 DEF CopyEqualsOriginal
  <1>3. CASE client'[c].got = client[c].got
    BY <1>2, <1>3
  <1>4. CASE FileDone(c) /\ client'[c].got = Append(client[c].got, client[c].copy)
    <2> DEFINE f == Argv[c][client[c].arg]
    <2>1. client[c].pc = "chunk" /\ client[c].left = 0
      BY <1>4 DEF FileDone, AtClient
    <2>2. c \in Clients \ overlapped
      BY <1>1, <2>1 DEF Clients, Ended
    <2>3. Transfer(c, f) /\ client[c].arg <= Len(Argv[c]) /\ Len(client[c].got) = client[c].arg - 1
      BY <2>1, <2>2 DEF OwnInv, OwnFile, Asking
    <2>4. f \in File
      BY <1>0, <2>3, OwnArgument
    <2>5. client[c].copy = Content(f)
      BY <1>0, <2>1, <2>3, <2>4, WholeFile
    <2>6. i \in 1 .. Len(client[c].got) + 1 /\ client[c].arg \in Nat
      BY <1>0, <1>4, ClientFields DEF TypeInv
    <2>7. CASE i = Len(client[c].got) + 1
      <3>1. i = client[c].arg
        BY <2>3, <2>6, <2>7
      <3>2. client'[c].got[i] = client[c].copy
        BY <1>0, <1>4, <2>7
      <3>3. QED
        BY <2>5, <3>1, <3>2
    <2>8. CASE i # Len(client[c].got) + 1
      <3>1. i \in DOMAIN client[c].got /\ client'[c].got[i] = client[c].got[i]
        BY <1>0, <1>4, <2>6, <2>8
      <3>2. QED
        BY <1>2, <3>1
    <2>9. QED
      BY <2>7, <2>8
  <1>5. QED
    BY <1>0, <1>3, <1>4, CopyAdded

\* A client that never ran at the same time as another one, and that started when
\* nothing was left of killed ones, has copies that are byte for byte the files it asked
\* for, whoever was served before, although the task finds its name in the loop's
\* variables (server.cpp:82-88, sync_file.cpp:24-130).
THEOREM CopiesAreOriginals == Spec => []CopyEqualsOriginal
  <1>1. Init => OwnInv /\ CopyEqualsOriginal
    <2> SUFFICES ASSUME Init PROVE OwnInv /\ CopyEqualsOriginal
      OBVIOUS
    <2>1. \A c \in Client : client[c].pc = "new" /\ client[c].got = <<>>
      BY DEF Init
    <2>2. Clients = {}
      BY <2>1 DEF Clients
    <2>3. QED
      BY <2>1, <2>2 DEF OwnInv, CopyEqualsOriginal
  <1>2. BaseInv /\ Solo /\ SyncInv /\ Whole /\ OwnInv /\ CopyEqualsOriginal /\ [Next]_vars
           => (OwnInv /\ CopyEqualsOriginal)'
    BY OwnInvStep, CopyStep
  <1>3. QED
    BY <1>1, <1>2, SyncAlways, PTL DEF Spec
=============================================================================
