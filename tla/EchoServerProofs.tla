-------------------------- MODULE EchoServerProofs --------------------------
(***************************************************************************)
(* Proofs about EchoServer, for any number of clients, requests and pool   *)
(* threads.                                                                *)
(***************************************************************************)
EXTENDS EchoServer, SequenceFacts, FiniteSetTheorems

-----------------------------------------------------------------------------
(* Types. *)

Fds == 1 .. Cardinality(Clients)
Bytes == {Lengths[c][k] : c \in Clients, k \in Nat} \cup {Bodies[c][k] : c \in Clients, k \in Nat}
Piece == [k : Nat, bytes : Bytes]
Data == {DataOf(b) : b \in Bytes} \cup {0, Garbage}
TaskRecord == [fd : Fds, owner : Clients, k : Nat, data : Data]
AnswerRecord == [server_id : Fds \cup {0}, data : Data, owner : Clients \cup {0}, k : Nat]
ClientRecord == [pc : {"init", "length", "body", "answer", "ended"}, index : Nat,
                 got : Seq(AnswerRecord)]
ConnRecord == [fd : Fds \cup {0}, up : Seq(Piece), down : Seq(AnswerRecord),
               gone : BOOLEAN, reset : BOOLEAN]
LoopRecord == [pc : {"events", "body", "delCloseFD"}, events : SUBSET (Fds \cup {0}),
               fd : Fds \cup {0}]

(* TypeOK says nothing of the streams and of the queue, which its own preservation
   needs.  A client has a request left while it is making one. *)
ClientType ==
    /\ client \in [Clients -> ClientRecord]
    /\ \A c \in Clients : /\ client[c].index \in 0 .. MaxRequests[c]
                          /\ client[c].pc \in {"body", "answer"} => client[c].index < MaxRequests[c]

PoolType ==
    /\ queue \in Seq(TaskRecord)
    /\ running \in SUBSET TaskRecord
    /\ IsFiniteSet(running) /\ Cardinality(running) <= Workers

TypeInv ==
    /\ ClientType
    /\ conn \in [Clients -> ConnRecord]
    /\ backlog \in Seq(Clients)
    /\ loop \in LoopRecord
    /\ PoolType
    /\ alive \in BOOLEAN
    /\ hit \subseteq Clients

(* Who has which descriptor.  Two clients never have the same one; a client that
   waits for accept has none; an event stands for a connection that has something
   to read, or whose client is gone. *)
Descriptors ==
    /\ NoDuplicates(backlog)
    /\ \A c \in Range(backlog) : conn[c].fd = 0 /\ client[c].pc # "init"
    /\ \A c \in Clients : client[c].pc = "init" => conn[c].fd = 0
    /\ \A c, d \in Clients : conn[c].fd = conn[d].fd /\ conn[c].fd # 0 => c = d
    /\ Listening \in loop.events => backlog # <<>>
    /\ \A f \in loop.events \ {Listening} : Connected(f) # {}
    /\ \A c \in Clients : conn[c].fd \in loop.events \ {Listening}
                              => conn[c].up # <<>> \/ conn[c].gone
    /\ loop.pc = "body" => loop.fd # 0 /\ loop.fd \notin loop.events

Tasks == Pool!Queued \cup running

(* A task is in one place; a queued one has the connection it was made for, and a
   running one too unless its client is gone. *)
TasksPlaced ==
    /\ NoDuplicates(queue)
    /\ Pool!Queued \cap running = {}
    /\ \A t \in Pool!Queued : \/ conn[t.owner].fd = t.fd
                              \/ loop.pc = "delCloseFD" /\ loop.fd = t.fd
    /\ \A t \in Tasks : conn[t.owner].fd = t.fd \/ conn[t.owner].gone

ServerInv == TypeInv /\ Descriptors /\ TasksPlaced

-----------------------------------------------------------------------------
(* Facts about the parts. *)

\* The operators of the pool are the ones the lemmas are about.
LEMMA PoolOperators ==
    /\ Pool!Queued = Range(queue)
    /\ \A S : Pool!Keep(queue, S) = Keep(queue, S)
    /\ \A S : Pool!Cardinality(S) = Cardinality(S)
  <1>1. Pool!Queued = Range(queue)
    BY DEF Pool!Queued, Pool!Range, Range
  <1>2. ASSUME NEW S PROVE Pool!Keep(queue, S) = Keep(queue, S)
    BY Zenon DEF Keep, Kept, Pool!Keep, Pool!Kept
  <1>3. ASSUME NEW S PROVE Pool!Cardinality(S) = Cardinality(S)
    BY DEF Cardinality, Pool!Cardinality
  <1>4. QED
    BY <1>1, <1>2, <1>3

\* There are as many descriptors as clients, so that one is free while a client has
\* none, and accept returns a free one.
LEMMA FreeDescriptor ==
    ASSUME TypeInv, NEW h \in Clients, conn[h].fd = 0
    PROVE  LowestFree \in Fds /\ Connected(LowestFree) = {}
  <1> DEFINE n == Cardinality(Clients)
             Free == {f \in Fds : Connected(f) = {}}
  <1>1. /\ n \in Nat \ {0} /\ IsFiniteSet(Clients \ {h}) /\ Cardinality(Clients \ {h}) = n - 1
        /\ IsFiniteSet(Fds) /\ Cardinality(Fds) = n
    <2>1. n \in Nat /\ IsFiniteSet(Clients)
      BY EchoAssumption, FS_CardinalityType
    <2>2. IsFiniteSet(Clients \ {h}) /\ Cardinality(Clients \ {h}) = n - 1
      BY <2>1, FS_RemoveElement
    <2>3. n # 0
      BY <2>1, FS_EmptySet
    <2>4. IsFiniteSet(Fds) /\ Cardinality(Fds) = n
      BY <2>1, <2>3, FS_Interval DEF Fds
    <2>5. QED
      BY <2>1, <2>2, <2>3, <2>4
  <1>2. Free # {}
    <2> SUFFICES ASSUME Free = {} PROVE FALSE
      OBVIOUS
    <2> DEFINE f == [c \in Clients \ {h} |-> IF conn[c].fd = 0 THEN 1 ELSE conn[c].fd]
    <2>1. f \in [Clients \ {h} -> Fds]
      BY <1>1 DEF TypeInv, ConnRecord, Fds
    <2>2. ASSUME NEW g \in Fds PROVE \E c \in Clients \ {h} : f[c] = g
      <3>1. PICK c \in Clients : conn[c].fd = g
        BY DEF Connected
      <3>2. c # h /\ conn[c].fd # 0
        BY <3>1 DEF Fds
      <3>3. QED
        BY <3>1, <3>2
    <2>3. f \in Surjection(Clients \ {h}, Fds)
      BY <2>1, <2>2 DEF Surjection
    <2>4. Cardinality(Fds) <= Cardinality(Clients \ {h})
      <3> HIDE DEF f
      <3>1. QED
        BY <1>1, <2>3, FS_Surjection
    <2>5. QED
      BY <1>1, <2>4
  <1>3. PICK f \in Free : \A g \in Free : f <= g
    <2>1. Free \in SUBSET Nat
      BY DEF Fds
    <2>2. QED
      BY <1>2, <2>1, NatMinimum
  <1>4. \A g \in 1 .. f - 1 : Connected(g) # {}
    BY <1>1, <1>3 DEF Fds
  <1>5. \E x \in 1 .. Cardinality(Clients) :
            Connected(x) = {} /\ \A g \in 1 .. x - 1 : Connected(g) # {}
    BY <1>3, <1>4 DEF Fds
  <1>6. QED
    BY <1>5 DEF LowestFree, Fds
-----------------------------------------------------------------------------
(* Every variable keeps its type. *)

\* The initial state satisfies the invariant.
LEMMA TypeInit == Init => TypeInv
  <1> SUFFICES ASSUME Init PROVE TypeInv
    OBVIOUS
  <1>1. ClientType
    BY EchoAssumption DEF Init, ClientType, ClientRecord
  <1>2. conn \in [Clients -> ConnRecord]
    BY DEF Init, ConnRecord
  <1>3. PoolType
    BY FS_EmptySet, EchoAssumption DEF Init, Pool!SInit, PoolType
  <1>4. loop \in LoopRecord
    BY DEF Init, LoopRecord
  <1>5. QED
    BY <1>1, <1>2, <1>3, <1>4 DEF Init, TypeInv

\* What a client sends is a piece of the stream.
LEMMA PieceType ==
    ASSUME NEW c \in Clients, NEW k \in Nat
    PROVE  /\ [k |-> k, bytes |-> Lengths[c][k]] \in Piece
           /\ [k |-> k, bytes |-> Bodies[c][k]] \in Piece
  BY DEF Piece, Bytes

\* The steps of the pool keep its types.
LEMMA PoolTypeStep ==
    ASSUME PoolType
    PROVE  /\ \A t \in TaskRecord : Pool!Accept(t) => PoolType'
           /\ Pool!Start => PoolType'
           /\ \A t : Pool!Finish(t) => PoolType'
           /\ \A D : Pool!Withdraw(D) => PoolType'
  <1>0. IsFiniteSet(running) /\ Cardinality(running) \in Nat /\ Workers \in Nat
    BY FS_CardinalityType, EchoAssumption DEF PoolType
  <1>1. ASSUME NEW t \in TaskRecord, Pool!Accept(t) PROVE PoolType'
    BY <1>1 DEF PoolType, Pool!Accept
  <1>2. ASSUME Pool!Start PROVE PoolType'
    <2>1. Head(queue) \in TaskRecord /\ Tail(queue) \in Seq(TaskRecord)
      BY <1>2 DEF PoolType, Pool!Start
    <2>2. Cardinality(running) < Workers /\ running' = running \cup {Head(queue)}
      BY <1>2, PoolOperators DEF Pool!Start
    <2>3. /\ IsFiniteSet(running')
          /\ Cardinality(running') \in {Cardinality(running), Cardinality(running) + 1}
      BY <1>0, <2>2, FS_AddElement
    <2>4. Cardinality(running') <= Workers
      BY <1>0, <2>2, <2>3
    <2>5. QED
      BY <1>2, <2>1, <2>2, <2>3, <2>4 DEF PoolType, Pool!Start
  <1>3. ASSUME NEW t, Pool!Finish(t) PROVE PoolType'
    <2>1. IsFiniteSet(running') /\ Cardinality(running') = Cardinality(running) - 1
      BY <1>0, <1>3, FS_RemoveElement DEF Pool!Finish
    <2>2. Cardinality(running') <= Workers
      BY <1>0, <2>1 DEF PoolType
    <2>3. QED
      BY <1>3, <2>1, <2>2 DEF PoolType, Pool!Finish
  <1>4. ASSUME NEW D, Pool!Withdraw(D) PROVE PoolType'
    <2>1. queue' = Keep(queue, Pool!Queued \ D)
      BY <1>4, PoolOperators DEF Pool!Withdraw
    <2>2. queue' \in Seq(TaskRecord)
      BY <2>1, KeepType DEF PoolType
    <2>3. QED
      BY <1>4, <2>2 DEF PoolType, Pool!Withdraw
  <1>5. QED
    BY <1>1, <1>2, <1>3, <1>4

\* Every step preserves the types.
LEMMA TypeStep == ASSUME TypeInv, Descriptors, [Next]_vars PROVE TypeInv'
  <1>0. /\ ClientType /\ conn \in [Clients -> ConnRecord] /\ PoolType
        /\ \A c \in Clients : MaxRequests[c] \in Nat
    BY EchoAssumption DEF TypeInv
  <1>1. ASSUME NEW c \in Clients, InitClient(c) PROVE TypeInv'
    <2>1. ClientType'
      BY <1>0, <1>1 DEF InitClient, ClientType, ClientRecord
    <2>2. QED
      BY <1>1, <2>1 DEF InitClient, TypeInv, PoolType, pool, history
  <1>2. ASSUME NEW c \in Clients, NEW piece \in Piece, NEW p \in {"length", "body"},
               NEW q \in {"body", "answer"}, Write(c, p, q, piece),
               client[c].index < MaxRequests[c]
        PROVE  TypeInv'
    <2>1. ClientType'
      <3>1. PICK r \in {q, "ended"} : client' = [client EXCEPT ![c].pc = r]
        BY <1>2 DEF Write
      <3>2. r \in {"body", "answer", "ended"}
        BY <1>2, <3>1
      <3>3. QED
        BY <1>0, <1>2, <3>1, <3>2 DEF ClientType, ClientRecord
    <2>2. conn' \in [Clients -> ConnRecord]
      <3>1. Append(conn[c].up, piece) \in Seq(Piece)
        BY <1>0 DEF ConnRecord
      <3>2. UNCHANGED conn \/ conn' = [conn EXCEPT ![c].up = Append(conn[c].up, piece)]
        BY <1>2 DEF Write
      <3>3. QED
        BY <1>0, <3>1, <3>2 DEF ConnRecord
    <2>3. QED
      BY <1>2, <2>1, <2>2 DEF Write, TypeInv, PoolType, pool, history
  <1>3. ASSUME NEW c \in Clients, WriteLength(c) PROVE TypeInv'
    BY <1>0, <1>2, <1>3, PieceType DEF WriteLength, ClientType, ClientRecord
  <1>4. ASSUME NEW c \in Clients, WriteBody(c) PROVE TypeInv'
    <2>1. client[c].index < MaxRequests[c] /\ client[c].index \in Nat
      BY <1>0, <1>4 DEF WriteBody, Write, ClientType, ClientRecord
    <2>2. QED
      BY <1>2, <1>4, <2>1, PieceType DEF WriteBody
  <1>5. ASSUME NEW c \in Clients, RecvBuff(c) PROVE TypeInv'
    <2>1. \A a \in AnswerRecord : Append(client[c].got, a) \in Seq(AnswerRecord)
      BY <1>0 DEF ClientType, ClientRecord
    <2>2. NoAnswer \in AnswerRecord
      BY DEF NoAnswer, AnswerRecord, Data
    <2>3. conn[c].down # <<>> => /\ Head(conn[c].down) \in AnswerRecord
                                 /\ Tail(conn[c].down) \in Seq(AnswerRecord)
      BY <1>0 DEF ConnRecord
    <2>4. ClientType'
      BY <1>0, <1>5, <2>1, <2>2, <2>3 DEF RecvBuff, ClientType, ClientRecord
    <2>5. conn' \in [Clients -> ConnRecord]
      BY <1>0, <1>5, <2>3, ZenonT(40) DEF RecvBuff, ConnRecord
    <2>6. QED
      BY <1>5, <2>4, <2>5 DEF RecvBuff, TypeInv, PoolType, pool, history
  <1>6. ASSUME NEW c \in Clients, Kill(c) PROVE TypeInv'
    <2>1. ClientType'
      BY <1>0, <1>6 DEF Kill, ClientType, ClientRecord
    <2>2. conn' \in [Clients -> ConnRecord]
      BY <1>0, <1>6 DEF Kill, ConnRecord
    <2>3. QED
      BY <1>6, <2>1, <2>2 DEF Kill, TypeInv, PoolType, pool, history
  <1>7. CASE EpollWait
    <2>1. Ready \in SUBSET (Fds \cup {0})
      BY <1>0 DEF Ready, ConnRecord, Listening
    <2>2. loop' \in LoopRecord
      BY <1>7, <2>1 DEF EpollWait, TypeInv, LoopRecord
    <2>3. QED
      BY <1>7, <2>2 DEF EpollWait, TypeInv, PoolType, ClientType, pool, history
  <1>8. CASE AcceptConn
    <2>1. backlog # <<>>
      BY <1>8 DEF AcceptConn, Descriptors
    <2>2. Head(backlog) \in Clients /\ Tail(backlog) \in Seq(Clients)
      BY <2>1 DEF TypeInv
    <2>3. conn[Head(backlog)].fd = 0
      <3>1. Head(backlog) \in Range(backlog)
        BY <2>1, TailLemma DEF TypeInv
      <3>2. QED
        BY <3>1 DEF Descriptors
    <2>4. LowestFree \in Fds
      BY <2>2, <2>3, FreeDescriptor
    <2>5. conn' \in [Clients -> ConnRecord]
      BY <1>0, <1>8, <2>2, <2>4 DEF AcceptConn, ConnRecord
    <2>6. loop' \in LoopRecord
      BY <1>8 DEF AcceptConn, TypeInv, LoopRecord
    <2>7. QED
      BY <1>8, <2>2, <2>5, <2>6 DEF AcceptConn, TypeInv, PoolType, ClientType, pool, history
  <1>9. ASSUME NEW c \in Clients, CloseClient(c) PROVE TypeInv'
    <2>1. conn' \in [Clients -> ConnRecord]
      BY <1>0, <1>9 DEF CloseClient, ConnRecord
    <2>2. loop' \in LoopRecord
      BY <1>0, <1>9 DEF CloseClient, TypeInv, LoopRecord, ConnRecord
    <2>3. QED
      BY <1>9, <2>1, <2>2 DEF CloseClient, TypeInv, PoolType, ClientType, pool, history
  <1>10. ASSUME NEW c \in Clients, ReadLength(c) PROVE TypeInv'
    <2>1. CASE conn[c].up # <<>>
      <3>1. Tail(conn[c].up) \in Seq(Piece)
        BY <1>0, <2>1 DEF ConnRecord
      <3>2. conn' \in [Clients -> ConnRecord]
        BY <1>0, <1>10, <2>1, <3>1, ZenonT(40) DEF ReadLength, ConnRecord
      <3>3. loop' \in LoopRecord
        <4>1. conn[c].fd \in Fds \cup {0} /\ loop \in LoopRecord
          BY <1>0 DEF ConnRecord, TypeInv
        <4>2. loop' = [loop EXCEPT !.pc = "body", !.fd = conn[c].fd, !.events = @ \ {conn[c].fd}]
          BY <1>10, <2>1 DEF ReadLength
        <4>3. QED
          BY <4>1, <4>2 DEF LoopRecord
      <3>4. QED
        BY <1>10, <2>1, <3>2, <3>3 DEF ReadLength, TypeInv, PoolType, ClientType, pool, history
    <2>2. CASE conn[c].up = <<>>
      BY <1>9, <1>10, <2>2 DEF ReadLength
    <2>3. QED
      BY <2>1, <2>2
  <1>11. ASSUME NEW c \in Clients, ReadBody(c) PROVE TypeInv'
    <2>1. conn[c].fd = loop.fd /\ conn[c].fd \in Fds
      BY <1>0, <1>11 DEF ReadBody, Descriptors, ConnRecord
    <2>2. ASSUME NEW k \in Nat, NEW data \in Data, AddTask(c, k, data)
          PROVE  PoolType' /\ loop' \in LoopRecord
      <3>1. [fd |-> conn[c].fd, owner |-> c, k |-> k, data |-> data] \in TaskRecord
        BY <2>1 DEF TaskRecord
      <3>2. PoolType'
        BY <1>0, <2>2, <3>1, PoolTypeStep DEF AddTask
      <3>3. QED
        BY <2>2, <3>2 DEF AddTask, TypeInv, LoopRecord
    <2>3. CASE conn[c].up # <<>>
      <3>1. Head(conn[c].up) \in Piece /\ Tail(conn[c].up) \in Seq(Piece)
        BY <1>0, <2>3 DEF ConnRecord
      <3>2. Head(conn[c].up).k \in Nat /\ DataOf(Head(conn[c].up).bytes) \in Data
        BY <3>1 DEF Piece, Data
      <3>3. PoolType' /\ loop' \in LoopRecord
        BY <1>11, <2>2, <2>3, <3>2 DEF ReadBody
      <3>4. conn' \in [Clients -> ConnRecord]
        BY <1>0, <1>11, <2>3, <3>1 DEF ReadBody, ConnRecord
      <3>5. QED
        BY <1>11, <2>3, <3>3, <3>4 DEF ReadBody, TypeInv, ClientType, history
    <2>4. CASE conn[c].up = <<>> /\ ~conn[c].reset
      BY <1>9, <1>11, <2>4 DEF ReadBody
    <2>5. CASE conn[c].up = <<>> /\ conn[c].reset
      <3>1. client[c].index \in Nat /\ {0, Garbage} \subseteq Data
        BY <1>0 DEF ClientType, ClientRecord, Data
      <3>2. PoolType' /\ loop' \in LoopRecord
        <4>1. CASE \E data \in {0, Garbage} : AddTask(c, client[c].index, data)
          BY <2>2, <3>1, <4>1
        <4>2. CASE UNCHANGED <<loop, pool>>
          BY <4>2 DEF TypeInv, PoolType, pool
        <4>3. QED
          BY <1>11, <2>5, <4>1, <4>2 DEF ReadBody
      <3>3. alive' \in BOOLEAN /\ UNCHANGED <<client, conn, backlog, hit>>
        BY <1>11, <2>5 DEF ReadBody, TypeInv, history
      <3>4. QED
        BY <3>2, <3>3 DEF TypeInv, ClientType
    <2>6. QED
      BY <2>3, <2>4, <2>5
  <1>12. CASE DelCloseFD
    <2>1. PoolType'
      BY <1>0, <1>12, PoolTypeStep DEF DelCloseFD
    <2>2. loop' \in LoopRecord
      BY <1>12 DEF DelCloseFD, TypeInv, LoopRecord
    <2>3. QED
      BY <1>12, <2>1, <2>2 DEF DelCloseFD, TypeInv, ClientType
  <1>13. CASE StartTask
    BY <1>0, <1>13, PoolTypeStep DEF StartTask, TypeInv, ClientType, history
  <1>14. ASSUME NEW t \in running, RunTask(t) PROVE TypeInv'
    <2>1. PoolType'
      BY <1>0, <1>14, PoolTypeStep DEF RunTask
    <2>2. t \in TaskRecord
      BY <1>0, <1>14 DEF PoolType
    <2>3. Answer(t) \in AnswerRecord
      BY <2>2 DEF Answer, TaskRecord, AnswerRecord
    <2>4. conn' \in [Clients -> ConnRecord]
      <3>1. ASSUME NEW c \in Clients
            PROVE  /\ conn[c] \in ConnRecord
                   /\ [conn[c] EXCEPT !.reset = TRUE] \in ConnRecord
                   /\ [conn[c] EXCEPT !.down = Append(@, Answer(t))] \in ConnRecord
        <4>1. conn[c] \in ConnRecord /\ Append(conn[c].down, Answer(t)) \in Seq(AnswerRecord)
          BY <1>0, <2>3 DEF ConnRecord
        <4>2. \A r \in ConnRecord : \A a \in Seq(AnswerRecord) :
                  [r EXCEPT !.reset = TRUE] \in ConnRecord /\ [r EXCEPT !.down = a] \in ConnRecord
          BY DEF ConnRecord
        <4>3. QED
          BY <4>1, <4>2
      <3>2. QED
        BY <1>14, <3>1 DEF RunTask, SendBuff
    <2>5. hit' \subseteq Clients /\ alive' \in BOOLEAN
      BY <1>14 DEF RunTask, SendBuff, Connected, TypeInv
    <2>6. QED
      BY <1>14, <2>1, <2>4, <2>5 DEF RunTask, TypeInv, ClientType
  <1>15. CASE UNCHANGED vars
    BY <1>15 DEF vars, pool, history, TypeInv, ClientType, PoolType
  <1>16. QED
    BY <1>1, <1>3, <1>4, <1>5, <1>6, <1>7, <1>8, <1>10, <1>11, <1>12, <1>13, <1>14, <1>15
       DEF Next, ClientStep, LoopStep, PoolStep
-----------------------------------------------------------------------------
(* What the steps do to the single fields of the connections and of the clients. *)

SameFd    == \A d \in Clients : conn'[d].fd = conn[d].fd
SameUp    == \A d \in Clients : conn'[d].up = conn[d].up
SameDown  == \A d \in Clients : conn'[d].down = conn[d].down
SameGone  == \A d \in Clients : conn'[d].gone = conn[d].gone
SameReset == \A d \in Clients : conn'[d].reset = conn[d].reset
SameCount == \A d \in Clients : client'[d].index = client[d].index /\ client'[d].got = client[d].got

\* A client writes a piece into its stream, or, without a server, nowhere.
LEMMA WriteEffect ==
    ASSUME TypeInv, NEW c \in Clients, NEW p, NEW q, NEW piece, Write(c, p, q, piece)
    PROVE  /\ \A d \in Clients : conn'[d].up = IF d = c /\ alive THEN Append(conn[d].up, piece)
                                              ELSE conn[d].up
           /\ \E r \in {q, "ended"} : /\ alive => r = q
                                      /\ \A d \in Clients : client'[d].pc
                                             = IF d = c THEN r ELSE client[d].pc
           /\ SameFd /\ SameDown /\ SameGone /\ SameReset /\ SameCount
           /\ client[c].pc = p
           /\ UNCHANGED <<backlog, loop, queue, running, alive, hit>>
  <1>0. /\ client \in [Clients -> ClientRecord] /\ conn \in [Clients -> ConnRecord]
    BY DEF TypeInv, ClientType
  <1>1. PICK r \in {q, "ended"} : client' = [client EXCEPT ![c].pc = r] /\ (alive => r = q)
    BY DEF Write
  <1>2. \A d \in Clients : /\ client'[d].pc = IF d = c THEN r ELSE client[d].pc
                           /\ client'[d].index = client[d].index /\ client'[d].got = client[d].got
    BY <1>0, <1>1 DEF ClientRecord
  <1>3. conn' = IF alive THEN [conn EXCEPT ![c].up = Append(conn[c].up, piece)] ELSE conn
    BY DEF Write
  <1>4. /\ \A d \in Clients : conn'[d].up = IF d = c /\ alive THEN Append(conn[d].up, piece)
                                           ELSE conn[d].up
        /\ SameFd /\ SameDown /\ SameGone /\ SameReset
    BY <1>0, <1>3 DEF ConnRecord, SameFd, SameDown, SameGone, SameReset
  <1>5. QED
    BY <1>1, <1>2, <1>4 DEF Write, SameCount, pool, history

\* A client reads the next answer, or the end of the stream once the server is gone.
LEMMA RecvEffect ==
    ASSUME TypeInv, NEW c \in Clients, RecvBuff(c)
    PROVE  /\ \A d \in Clients : /\ client'[d].pc = IF d = c THEN "length" ELSE client[d].pc
                                 /\ client'[d].index = IF d = c THEN client[d].index + 1
                                                       ELSE client[d].index
           /\ \A d \in Clients \ {c} : client'[d].got = client[d].got /\ conn'[d].down = conn[d].down
           /\ \/ /\ conn[c].down # <<>> /\ conn'[c].down = Tail(conn[c].down)
                 /\ client'[c].got = Append(client[c].got, Head(conn[c].down))
              \/ /\ conn[c].down = <<>> /\ conn'[c].down = <<>> /\ ~alive
                 /\ client'[c].got = Append(client[c].got, NoAnswer)
           /\ SameFd /\ SameUp /\ SameGone /\ SameReset
           /\ client[c].pc = "answer"
           /\ UNCHANGED <<backlog, loop, queue, running, alive, hit>>
  <1>0. /\ client \in [Clients -> ClientRecord] /\ conn \in [Clients -> ConnRecord]
    BY DEF TypeInv, ClientType
  <1>1. CASE conn[c].down # <<>>
    <2>1. conn' = [conn EXCEPT ![c].down = Tail(@)]
      BY <1>1 DEF RecvBuff
    <2>2. /\ SameFd /\ SameUp /\ SameGone /\ SameReset
          /\ conn'[c].down = Tail(conn[c].down)
          /\ \A d \in Clients \ {c} : conn'[d].down = conn[d].down
      BY <1>0, <2>1 DEF ConnRecord, SameFd, SameUp, SameGone, SameReset
    <2>3. client' = [client EXCEPT ![c].pc = "length", ![c].index = @ + 1,
                                   ![c].got = Append(@, Head(conn[c].down))]
      BY <1>1 DEF RecvBuff
    <2>4. /\ \A d \in Clients : /\ client'[d].pc = IF d = c THEN "length" ELSE client[d].pc
                                /\ client'[d].index = IF d = c THEN client[d].index + 1
                                                      ELSE client[d].index
          /\ \A d \in Clients \ {c} : client'[d].got = client[d].got
          /\ client'[c].got = Append(client[c].got, Head(conn[c].down))
      BY <1>0, <2>3 DEF ClientRecord
    <2>5. QED
      BY <1>1, <2>2, <2>4 DEF RecvBuff, pool, history
  <1>2. CASE conn[c].down = <<>>
    <2>1. conn' = conn /\ ~alive
      BY <1>2 DEF RecvBuff
    <2>2. client' = [client EXCEPT ![c].pc = "length", ![c].index = @ + 1,
                                   ![c].got = Append(@, NoAnswer)]
      BY <1>2 DEF RecvBuff
    <2>3. /\ \A d \in Clients : /\ client'[d].pc = IF d = c THEN "length" ELSE client[d].pc
                                /\ client'[d].index = IF d = c THEN client[d].index + 1
                                                      ELSE client[d].index
          /\ \A d \in Clients \ {c} : client'[d].got = client[d].got
          /\ client'[c].got = Append(client[c].got, NoAnswer)
      BY <1>0, <2>2 DEF ClientRecord
    <2>4. QED
      BY <1>2, <2>1, <2>3 DEF RecvBuff, pool, history, SameFd, SameUp, SameGone, SameReset
  <1>3. QED
    BY <1>1, <1>2

\* A client is killed.
LEMMA KillEffect ==
    ASSUME TypeInv, NEW c \in Clients, Kill(c)
    PROVE  /\ \A d \in Clients :
                 /\ client'[d].pc = IF d = c THEN "ended" ELSE client[d].pc
                 /\ d # c => conn'[d].gone = conn[d].gone /\ conn'[d].reset = conn[d].reset
           /\ conn'[c].gone /\ (conn'[c].reset <=> conn[c].reset \/ conn[c].down # <<>>)
           /\ SameFd /\ SameUp /\ SameDown /\ SameCount
           /\ UNCHANGED <<backlog, loop, queue, running, alive, hit>>
  <1>0. /\ client \in [Clients -> ClientRecord] /\ conn \in [Clients -> ConnRecord]
    BY DEF TypeInv, ClientType
  <1> DEFINE b == conn[c].reset \/ conn[c].down # <<>>
  <1>1. conn' = [conn EXCEPT ![c].gone = TRUE, ![c].reset = b]
    BY DEF Kill
  <1>2. b \in BOOLEAN
    OBVIOUS
  <1> HIDE DEF b
  <1>3. /\ \A d \in Clients :
              d # c => conn'[d].gone = conn[d].gone /\ conn'[d].reset = conn[d].reset
        /\ conn'[c].gone = TRUE /\ conn'[c].reset = b
        /\ SameFd /\ SameUp /\ SameDown
    BY <1>0, <1>1 DEF ConnRecord, SameFd, SameUp, SameDown
  <1>4. client' = [client EXCEPT ![c].pc = "ended"]
    BY DEF Kill
  <1>5. /\ \A d \in Clients : client'[d].pc = IF d = c THEN "ended" ELSE client[d].pc
        /\ SameCount
    BY <1>0, <1>4 DEF ClientRecord, SameCount
  <1>6. QED
    BY <1>3, <1>5 DEF Kill, pool, history, b

\* The epoll thread closes a connection.
LEMMA CloseEffect ==
    ASSUME TypeInv, NEW c \in Clients, CloseClient(c)
    PROVE  /\ \A d \in Clients : conn'[d].fd = IF d = c THEN 0 ELSE conn[d].fd
           /\ SameUp /\ SameDown /\ SameGone /\ SameReset
           /\ loop'.pc = "delCloseFD" /\ loop'.fd = conn[c].fd
           /\ loop'.events = loop.events \ {conn[c].fd}
           /\ UNCHANGED <<client, backlog, queue, running, alive, hit>>
  <1>0. /\ conn \in [Clients -> ConnRecord] /\ loop \in LoopRecord
    BY DEF TypeInv
  <1>1. /\ conn' = [conn EXCEPT ![c].fd = 0]
        /\ loop' = [loop EXCEPT !.pc = "delCloseFD", !.fd = conn[c].fd,
                                !.events = @ \ {conn[c].fd}]
    BY DEF CloseClient
  <1>2. /\ \A d \in Clients : conn'[d].fd = IF d = c THEN 0 ELSE conn[d].fd
        /\ SameUp /\ SameDown /\ SameGone /\ SameReset
    BY <1>0, <1>1 DEF ConnRecord, SameUp, SameDown, SameGone, SameReset
  <1>3. /\ loop'.pc = "delCloseFD" /\ loop'.fd = conn[c].fd
        /\ loop'.events = loop.events \ {conn[c].fd}
    BY <1>0, <1>1 DEF LoopRecord
  <1>4. QED
    BY <1>2, <1>3 DEF CloseClient, pool, history

\* It takes a length off a stream, or closes the connection.
LEMMA ReadLengthEffect ==
    ASSUME TypeInv, NEW c \in Clients, ReadLength(c)
    PROVE  /\ loop.pc = "events" /\ conn[c].fd \in loop.events /\ conn[c].fd # 0
           /\ \/ /\ conn[c].up # <<>>
                 /\ \A d \in Clients : conn'[d].up = IF d = c THEN Tail(conn[d].up)
                                                    ELSE conn[d].up
                 /\ SameFd /\ SameDown /\ SameGone /\ SameReset
                 /\ loop'.pc = "body" /\ loop'.fd = conn[c].fd
                 /\ loop'.events = loop.events \ {conn[c].fd}
                 /\ UNCHANGED <<client, backlog, queue, running, alive, hit>>
              \/ conn[c].up = <<>> /\ CloseClient(c)
  <1>0. /\ conn \in [Clients -> ConnRecord] /\ loop \in LoopRecord
    BY DEF TypeInv
  <1>1. CASE conn[c].up # <<>>
    <2>1. /\ conn' = [conn EXCEPT ![c].up = Tail(@)]
          /\ loop' = [loop EXCEPT !.pc = "body", !.fd = conn[c].fd, !.events = @ \ {conn[c].fd}]
      BY <1>1 DEF ReadLength
    <2>2. /\ \A d \in Clients : conn'[d].up = IF d = c THEN Tail(conn[d].up) ELSE conn[d].up
          /\ SameFd /\ SameDown /\ SameGone /\ SameReset
      BY <1>0, <2>1 DEF ConnRecord, SameFd, SameDown, SameGone, SameReset
    <2>3. /\ loop'.pc = "body" /\ loop'.fd = conn[c].fd
          /\ loop'.events = loop.events \ {conn[c].fd}
      BY <1>0, <2>1 DEF LoopRecord
    <2>4. QED
      BY <1>1, <2>2, <2>3 DEF ReadLength, pool, history, Listening
  <1>2. CASE conn[c].up = <<>>
    BY <1>2 DEF ReadLength, Listening
  <1>3. QED
    BY <1>1, <1>2

\* It takes a body off a stream and adds a task, or closes the connection; after a
\* reset it adds a task without a body, or ends.
LEMMA ReadBodyEffect ==
    ASSUME TypeInv, NEW c \in Clients, ReadBody(c)
    PROVE  /\ loop.pc = "body" /\ conn[c].fd = loop.fd
           /\ \/ /\ conn[c].up # <<>>
                 /\ AddTask(c, Head(conn[c].up).k, DataOf(Head(conn[c].up).bytes))
                 /\ \A d \in Clients : conn'[d].up = IF d = c THEN Tail(conn[d].up)
                                                    ELSE conn[d].up
                 /\ SameFd /\ SameDown /\ SameGone /\ SameReset
                 /\ loop'.pc = "events" /\ loop'.events = loop.events
                 /\ UNCHANGED <<client, backlog, alive, hit>>
              \/ conn[c].up = <<>> /\ conn[c].gone /\ CloseClient(c)
              \/ /\ conn[c].up = <<>> /\ conn[c].gone /\ conn[c].reset
                 /\ \E data \in {0, Garbage} : AddTask(c, client[c].index, data)
                 /\ loop'.pc = "events" /\ loop'.events = loop.events
                 /\ UNCHANGED <<client, conn, backlog, alive, hit>>
              \/ /\ conn[c].up = <<>> /\ conn[c].gone /\ conn[c].reset /\ ~alive'
                 /\ UNCHANGED <<client, conn, backlog, loop, queue, running, hit>>
  <1>0. /\ conn \in [Clients -> ConnRecord] /\ loop \in LoopRecord
    BY DEF TypeInv
  <1>1. ASSUME NEW k, NEW data, AddTask(c, k, data)
        PROVE  loop'.pc = "events" /\ loop'.events = loop.events
    BY <1>0, <1>1 DEF AddTask, LoopRecord
  <1>2. CASE conn[c].up # <<>>
    <2>1. conn' = [conn EXCEPT ![c].up = Tail(@)]
      BY <1>2 DEF ReadBody
    <2>2. /\ \A d \in Clients : conn'[d].up = IF d = c THEN Tail(conn[d].up) ELSE conn[d].up
          /\ SameFd /\ SameDown /\ SameGone /\ SameReset
      BY <1>0, <2>1 DEF ConnRecord, SameFd, SameDown, SameGone, SameReset
    <2>3. QED
      BY <1>1, <1>2, <2>2 DEF ReadBody, history
  <1>3. CASE conn[c].up = <<>>
    BY <1>1, <1>3 DEF ReadBody, pool, history
  <1>4. QED
    BY <1>2, <1>3

\* The oldest waiting client gets a free descriptor.
LEMMA AcceptEffect ==
    ASSUME TypeInv, Descriptors, AcceptConn
    PROVE  /\ backlog # <<>> /\ Head(backlog) \in Clients /\ Head(backlog) \in Range(backlog)
           /\ conn[Head(backlog)].fd = 0
           /\ LowestFree \in Fds /\ \A d \in Clients : conn[d].fd # LowestFree
           /\ \A d \in Clients : conn'[d].fd = IF d = Head(backlog) THEN LowestFree
                                              ELSE conn[d].fd
           /\ SameUp /\ SameDown /\ SameGone /\ SameReset
           /\ backlog' = Tail(backlog)
           /\ loop.pc = "events" /\ loop'.pc = "events" /\ loop'.fd = loop.fd
           /\ loop'.events = loop.events \ {Listening}
           /\ UNCHANGED <<client, queue, running, alive, hit>>
  <1> DEFINE h == Head(backlog)
  <1>0. /\ conn \in [Clients -> ConnRecord] /\ loop \in LoopRecord /\ backlog \in Seq(Clients)
    BY DEF TypeInv
  <1>1. backlog # <<>>
    BY DEF AcceptConn, Descriptors
  <1>2. h \in Clients /\ h \in Range(backlog)
    BY <1>0, <1>1, TailLemma
  <1>3. conn[h].fd = 0
    BY <1>2 DEF Descriptors
  <1>4. LowestFree \in Fds /\ \A d \in Clients : conn[d].fd # LowestFree
    BY <1>2, <1>3, FreeDescriptor DEF Connected
  <1>5. /\ conn' = [conn EXCEPT ![h].fd = LowestFree]
        /\ loop' = [loop EXCEPT !.events = @ \ {Listening}]
    BY DEF AcceptConn
  <1> HIDE DEF h
  <1>6. /\ \A d \in Clients : conn'[d].fd = IF d = h THEN LowestFree ELSE conn[d].fd
        /\ SameUp /\ SameDown /\ SameGone /\ SameReset
    BY <1>0, <1>5 DEF ConnRecord, SameUp, SameDown, SameGone, SameReset
  <1>7. loop'.pc = loop.pc /\ loop'.fd = loop.fd /\ loop'.events = loop.events \ {Listening}
    BY <1>0, <1>5 DEF LoopRecord
  <1>8. QED
    BY <1>1, <1>2, <1>3, <1>4, <1>6, <1>7 DEF AcceptConn, pool, history, h

\* A pool thread writes an answer to whoever has the descriptor.
LEMMA RunEffect ==
    ASSUME TypeInv, NEW t, RunTask(t)
    PROVE  /\ SameFd /\ SameUp /\ SameGone
           /\ \A d \in Clients :
                 /\ d \notin Connected(t.fd) \/ conn[d].gone => conn'[d].down = conn[d].down
                 /\ d \notin Connected(t.fd) \/ ~conn[d].gone => conn'[d].reset = conn[d].reset
                 /\ d \in Connected(t.fd) /\ conn[d].gone => conn'[d].reset
                 /\ d \in Connected(t.fd) /\ ~conn[d].gone
                        => conn'[d].down = Append(conn[d].down, Answer(t))
           /\ alive /\ (alive' <=> ~\E d \in Connected(t.fd) : conn[d].reset /\ conn[d].gone)
           /\ hit' = hit \cup (Connected(t.fd) \ {t.owner})
           /\ t \in running /\ running' = running \ {t} /\ UNCHANGED <<client, backlog, loop, queue>>
  <1>1. ASSUME NEW d \in Clients
        PROVE  /\ conn'[d].fd = conn[d].fd /\ conn'[d].up = conn[d].up
               /\ conn'[d].gone = conn[d].gone
               /\ d \notin Connected(t.fd) \/ conn[d].gone => conn'[d].down = conn[d].down
               /\ d \notin Connected(t.fd) \/ ~conn[d].gone => conn'[d].reset = conn[d].reset
               /\ d \in Connected(t.fd) /\ conn[d].gone => conn'[d].reset
               /\ d \in Connected(t.fd) /\ ~conn[d].gone
                      => conn'[d].down = Append(conn[d].down, Answer(t))
    <2>1. conn[d] \in ConnRecord
      BY DEF TypeInv
    <2>2. conn'[d] = IF d \notin Connected(t.fd) THEN conn[d]
                     ELSE IF conn[d].gone THEN [conn[d] EXCEPT !.reset = TRUE]
                     ELSE [conn[d] EXCEPT !.down = Append(@, Answer(t))]
      BY DEF RunTask, SendBuff
    <2>3. QED
      BY <2>1, <2>2 DEF ConnRecord
  <1>2. QED
    BY <1>1 DEF RunTask, SendBuff, Pool!Finish, SameFd, SameUp, SameGone
-----------------------------------------------------------------------------
(* Descriptors. *)

\* The initial state satisfies the invariant.
LEMMA DescriptorsInit == Init => Descriptors
  BY EmptySeq DEF Init, Descriptors, NoDuplicates, Range, Listening

\* Steps that leave the descriptors, the backlog and the events alone, and take
\* nothing out of a stream that has an event.
LEMMA DescriptorsFrame ==
    ASSUME TypeInv, Descriptors, UNCHANGED backlog, SameFd,
           \A c \in Clients : /\ client'[c].pc = "init" => client[c].pc = "init"
                              /\ conn[c].gone => conn'[c].gone
                              /\ conn[c].fd \in loop.events \ {Listening} /\ conn[c].up # <<>>
                                     => conn'[c].up # <<>>,
           loop'.events = loop.events,
           loop'.pc = "body" => loop.pc = "body" /\ loop'.fd = loop.fd
    PROVE  Descriptors'
  <1>1. Range(backlog) \subseteq Clients
    BY DEF Range, TypeInv
  <1>2. \A f : Connected(f)' = Connected(f)
    BY DEF Connected, SameFd
  <1>3. QED
    BY <1>1, <1>2 DEF Descriptors, SameFd

\* Every step preserves it.
LEMMA DescriptorsStep == ASSUME TypeInv, Descriptors, [Next]_vars PROVE Descriptors'
  <1>0. /\ client \in [Clients -> ClientRecord] /\ conn \in [Clients -> ConnRecord]
        /\ backlog \in Seq(Clients) /\ loop \in LoopRecord
    BY DEF TypeInv, ClientType
  <1>a. Range(backlog) \subseteq Clients
    BY <1>0 DEF Range
  <1>1. ASSUME NEW c \in Clients, InitClient(c) PROVE Descriptors'
    <2>1. \A d \in Clients : client'[d].pc = "init" => d # c /\ client[d].pc = "init"
      BY <1>0, <1>1 DEF InitClient, ClientRecord
    <2>2. CASE ~alive
      BY <1>0, <1>1, <2>1, <2>2, DescriptorsFrame DEF InitClient, SameFd
    <2>3. CASE alive
      <3>1. backlog' = Append(backlog, c) /\ UNCHANGED <<conn, loop>> /\ client[c].pc = "init"
        BY <1>1, <2>3 DEF InitClient
      <3>2. c \notin Range(backlog) /\ conn[c].fd = 0
        BY <3>1 DEF Descriptors
      <3>3. Range(backlog') = Range(backlog) \cup {c} /\ NoDuplicates(backlog')
        BY <1>0, <3>1, <3>2, AppendLemma DEF Descriptors
      <3>4. backlog' # <<>>
        BY <1>0, <3>1
      <3>5. \A f : Connected(f)' = Connected(f)
        BY <3>1 DEF Connected
      <3>6. QED
        BY <1>a, <2>1, <3>1, <3>2, <3>3, <3>4, <3>5 DEF Descriptors
    <2>4. QED
      BY <2>2, <2>3
  <1>2. ASSUME NEW c \in Clients, NEW p, NEW q \in {"body", "answer"}, NEW piece \in Piece,
               Write(c, p, q, piece)
        PROVE  Descriptors'
    <2>1. ASSUME NEW d \in Clients, conn[d].up # <<>> PROVE conn'[d].up # <<>>
      <3>1. conn[d].up \in Seq(Piece)
        BY <1>0 DEF ConnRecord
      <3>2. Append(conn[d].up, piece) # <<>>
        BY <3>1, AppendProperties
      <3>3. QED
        BY <1>2, <2>1, <3>2, WriteEffect, ZenonT(40)
    <2>2. PICK r \in {q, "ended"} : \A d \in Clients : client'[d].pc
                                        = IF d = c THEN r ELSE client[d].pc
      BY <1>2, WriteEffect
    <2>3. \A d \in Clients : client'[d].pc = "init" => client[d].pc = "init"
      BY <1>2, <2>2
    <2>4. QED
      BY <1>2, <2>1, <2>3, WriteEffect, DescriptorsFrame DEF SameGone
  <1>3. ASSUME NEW c \in Clients, WriteLength(c) \/ WriteBody(c) PROVE Descriptors'
    <2>1. client[c].index \in Nat
      BY <1>0 DEF ClientRecord
    <2>2. QED
      BY <1>2, <1>3, <2>1, PieceType DEF WriteLength, WriteBody
  <1>4. ASSUME NEW c \in Clients, RecvBuff(c) PROVE Descriptors'
    BY <1>4, RecvEffect, DescriptorsFrame DEF SameGone, SameUp
  <1>5. ASSUME NEW c \in Clients, Kill(c) PROVE Descriptors'
    <2>1. \A d \in Clients : /\ client'[d].pc = "init" => client[d].pc = "init"
                             /\ conn[d].gone => conn'[d].gone
      BY <1>5, KillEffect
    <2>2. QED
      BY <1>5, <2>1, KillEffect, DescriptorsFrame DEF SameUp
  <1>6. CASE EpollWait
    <2>1. loop' = [loop EXCEPT !.events = Ready] /\ UNCHANGED <<client, conn, backlog>>
          /\ loop.pc = "events"
      BY <1>6 DEF EpollWait
    <2>2. loop'.events = Ready /\ loop'.pc = "events"
      BY <1>0, <2>1 DEF LoopRecord
    <2>3. Listening \in Ready => backlog # <<>>
      BY <1>0 DEF Ready, Listening, ConnRecord, Fds
    <2>4. \A f \in Ready \ {Listening} : Connected(f) # {}
      BY DEF Ready, Connected
    <2>5. ASSUME NEW c \in Clients, conn[c].fd \in Ready \ {Listening}
          PROVE  conn[c].up # <<>> \/ conn[c].gone
      <3>1. PICK d \in Clients : /\ conn[d].fd = conn[c].fd /\ conn[d].fd # 0
                                 /\ conn[d].up # <<>> \/ conn[d].gone
        BY <2>5 DEF Ready
      <3>2. d = c
        BY <3>1 DEF Descriptors
      <3>3. QED
        BY <3>1, <3>2
    <2>6. \A f : Connected(f)' = Connected(f)
      BY <2>1 DEF Connected
    <2>7. QED
      BY <2>1, <2>2, <2>3, <2>4, <2>5, <2>6 DEF Descriptors
  <1>7. CASE AcceptConn
    <2> DEFINE h == Head(backlog)
    <2>1. /\ backlog # <<>> /\ h \in Clients /\ h \in Range(backlog)
          /\ conn[h].fd = 0 /\ client[h].pc # "init"
          /\ LowestFree \in Fds /\ \A d \in Clients : conn[d].fd # LowestFree
      BY <1>7, AcceptEffect DEF Descriptors
    <2>2. /\ \A d \in Clients : /\ conn'[d].up = conn[d].up /\ conn'[d].gone = conn[d].gone
                                /\ conn'[d].fd = IF d = h THEN LowestFree ELSE conn[d].fd
          /\ loop'.events = loop.events \ {Listening} /\ loop'.pc = "events"
          /\ client' = client /\ backlog' = Tail(backlog)
      BY <1>7, AcceptEffect DEF SameUp, SameGone
    <2> HIDE DEF h
    <2>3. /\ Range(backlog) = Range(backlog') \cup {h} /\ h \notin Range(backlog')
          /\ NoDuplicates(backlog')
      BY <1>0, <2>1, <2>2, TailLemma DEF Descriptors, h
    <2>4. \A f \in loop.events \ {Listening} : f # LowestFree /\ Connected(f)' # {}
      <3> SUFFICES ASSUME NEW f \in loop.events \ {Listening}
                   PROVE  f # LowestFree /\ Connected(f)' # {}
        OBVIOUS
      <3>1. PICK d \in Clients : conn[d].fd = f
        BY DEF Descriptors, Connected
      <3>2. d # h
        BY <2>1, <3>1 DEF Listening
      <3>3. conn'[d].fd = f
        BY <2>2, <3>1, <3>2
      <3>4. QED
        BY <2>1, <3>1, <3>3 DEF Connected
    <2>5. \A d, e \in Clients : conn'[d].fd = conn'[e].fd /\ conn'[d].fd # 0 => d = e
      BY <2>1, <2>2 DEF Descriptors
    <2>6. \A d \in Clients : conn'[d].fd \in loop'.events \ {Listening}
                                 => conn'[d].up # <<>> \/ conn'[d].gone
      BY <2>2, <2>4 DEF Descriptors
    <2>7. \A d \in Range(backlog') : conn'[d].fd = 0 /\ client'[d].pc # "init"
      BY <1>a, <2>2, <2>3 DEF Descriptors
    <2>8. \A d \in Clients : client'[d].pc = "init" => conn'[d].fd = 0
      BY <2>1, <2>2 DEF Descriptors
    <2>9. QED
      BY <2>2, <2>3, <2>4, <2>5, <2>6, <2>7, <2>8 DEF Descriptors
  <1>8. ASSUME NEW c \in Clients, CloseClient(c), conn[c].fd # 0 PROVE Descriptors'
    <2>1. /\ \A d \in Clients : /\ conn'[d].up = conn[d].up /\ conn'[d].gone = conn[d].gone
                                /\ conn'[d].fd = IF d = c THEN 0 ELSE conn[d].fd
          /\ loop'.pc = "delCloseFD" /\ loop'.events = loop.events \ {conn[c].fd}
          /\ UNCHANGED <<client, backlog>>
      BY <1>8, CloseEffect DEF SameUp, SameGone
    <2>2. \A f \in loop'.events \ {Listening} : Connected(f)' # {}
      <3> SUFFICES ASSUME NEW f \in loop'.events \ {Listening} PROVE Connected(f)' # {}
        OBVIOUS
      <3>1. PICK d \in Clients : conn[d].fd = f
        BY <2>1 DEF Descriptors, Connected
      <3>2. d # c
        BY <2>1, <3>1
      <3>3. QED
        BY <2>1, <3>1, <3>2 DEF Connected
    <2>3. QED
      BY <1>a, <2>1, <2>2 DEF Descriptors, Listening
  <1>9. ASSUME NEW c \in Clients, ReadLength(c) PROVE Descriptors'
    <2>1. conn[c].fd \in loop.events /\ conn[c].fd # 0
      BY <1>9, ReadLengthEffect
    <2>2. CASE conn[c].up = <<>>
      BY <1>8, <1>9, <2>1, <2>2, ReadLengthEffect
    <2>3. CASE conn[c].up # <<>>
      <3>1. /\ \A d \in Clients : /\ conn'[d].fd = conn[d].fd /\ conn'[d].gone = conn[d].gone
                                  /\ d # c => conn'[d].up = conn[d].up
            /\ loop'.fd = conn[c].fd /\ loop'.events = loop.events \ {conn[c].fd}
            /\ UNCHANGED <<client, backlog>>
        BY <1>9, <2>3, ReadLengthEffect DEF SameFd, SameGone
      <3>2. \A f : Connected(f)' = Connected(f)
        BY <3>1 DEF Connected
      <3>3. QED
        BY <1>a, <2>1, <3>1, <3>2 DEF Descriptors
    <2>4. QED
      BY <2>2, <2>3
  <1>10. ASSUME NEW c \in Clients, ReadBody(c) PROVE Descriptors'
    <2>1. conn[c].fd \notin loop.events /\ conn[c].fd # 0
      BY <1>10, ReadBodyEffect DEF Descriptors
    <2>2. CASE CloseClient(c)
      BY <1>8, <2>1, <2>2
    <2>3. CASE ~CloseClient(c)
      <3>1. /\ \A d \in Clients : /\ conn'[d].gone = conn[d].gone
                                  /\ d # c => conn'[d].up = conn[d].up
            /\ SameFd /\ (loop'.pc = "events" \/ loop' = loop) /\ loop'.events = loop.events
            /\ UNCHANGED <<client, backlog>>
        BY <1>10, <2>3, ReadBodyEffect DEF SameFd, SameGone
      <3>2. QED
        BY <2>1, <3>1, DescriptorsFrame
    <2>4. QED
      BY <2>2, <2>3
  <1>11. CASE DelCloseFD
    <2>1. UNCHANGED <<client, conn, backlog>> /\ loop' = [loop EXCEPT !.pc = "events"]
      BY <1>11 DEF DelCloseFD
    <2>2. loop'.pc = "events" /\ loop'.events = loop.events
      BY <1>0, <2>1 DEF LoopRecord
    <2>3. QED
      BY <2>1, <2>2, DescriptorsFrame DEF SameFd
  <1>12. ASSUME NEW t \in running, RunTask(t) PROVE Descriptors'
    BY <1>12, RunEffect, DescriptorsFrame DEF SameGone, SameUp
  <1>13. CASE StartTask \/ UNCHANGED vars
    <2>1. UNCHANGED <<client, conn, backlog, loop>>
      BY <1>13 DEF StartTask, vars, history
    <2>2. QED
      BY <2>1, DescriptorsFrame DEF SameFd
  <1>14. QED
    BY <1>1, <1>3, <1>4, <1>5, <1>6, <1>7, <1>9, <1>10, <1>11, <1>12, <1>13
       DEF Next, ClientStep, LoopStep, PoolStep

-----------------------------------------------------------------------------
(* Where the tasks are. *)

\* The initial state satisfies the invariant.
LEMMA TasksPlacedInit == Init => TasksPlaced
  <1> SUFFICES ASSUME Init PROVE TasksPlaced
    OBVIOUS
  <1>1. queue = <<>> /\ running = {}
    BY DEF Init, Pool!SInit
  <1>2. Pool!Queued = {}
    BY <1>1, PoolOperators DEF Range
  <1>3. QED
    BY <1>1, <1>2, EmptySeq DEF TasksPlaced, Tasks, NoDuplicates

\* Tasks are for a client and name a descriptor.
LEMMA TaskTypes ==
    ASSUME TypeInv
    PROVE  \A t \in Tasks : t \in TaskRecord /\ t.owner \in Clients /\ t.fd # 0
  <1>1. Tasks \subseteq TaskRecord
    BY PoolOperators DEF Tasks, TypeInv, PoolType, Range
  <1>2. QED
    BY <1>1 DEF TaskRecord, Fds

\* Steps that move no task and close no connection; a client that has none may get one.
LEMMA TasksPlacedFrame ==
    ASSUME TypeInv, TasksPlaced, UNCHANGED <<queue, running>>,
           loop'.pc = loop.pc \/ loop.pc # "delCloseFD", loop'.fd = loop.fd \/ loop.pc # "delCloseFD",
           \A c \in Clients : /\ conn'[c].fd = conn[c].fd \/ conn[c].fd = 0
                              /\ conn[c].gone => conn'[c].gone
    PROVE  TasksPlaced'
  <1>1. Pool!Queued' = Pool!Queued
    BY DEF Pool!Queued, Pool!Range
  <1>2. QED
    BY <1>1, TaskTypes DEF TasksPlaced, Tasks

\* The epoll thread adds a task for the connection whose body it was reading.
LEMMA AddTaskEffect ==
    ASSUME TypeInv, TasksPlaced, NEW c \in Clients, NEW k \in Nat, NEW data \in Data,
           AddTask(c, k, data), conn[c].fd # 0
    PROVE  \E t \in TaskRecord : /\ t = [fd |-> conn[c].fd, owner |-> c, k |-> k, data |-> data]
                                 /\ t \notin Tasks
                                 /\ Pool!Queued' = Pool!Queued \cup {t}
                                 /\ Tasks' = Tasks \cup {t}
                                 /\ NoDuplicates(queue')
                                 /\ UNCHANGED running
  <1> DEFINE t == [fd |-> conn[c].fd, owner |-> c, k |-> k, data |-> data]
  <1>1. t \in TaskRecord
    BY DEF TaskRecord, TypeInv, ConnRecord
  <1>2. queue' = Append(queue, t) /\ running' = running /\ t \notin Pool!Queued \cup running
    BY DEF AddTask, Pool!Accept
  <1> HIDE DEF t
  <1>3. queue \in Seq(TaskRecord) /\ Pool!Queued = Range(queue) /\ Pool!Queued' = Range(queue')
    BY PoolOperators DEF TypeInv, PoolType, Pool!Queued, Pool!Range, Range
  <1>4. Range(queue') = Range(queue) \cup {t} /\ NoDuplicates(queue')
    BY <1>1, <1>2, <1>3, AppendLemma DEF TasksPlaced
  <1>5. QED
    BY <1>1, <1>2, <1>3, <1>4 DEF Tasks, t

\* A pool thread takes the oldest task.
LEMMA StartEffect ==
    ASSUME TypeInv, TasksPlaced, StartTask
    PROVE  /\ Tasks' = Tasks
           /\ Pool!Queued' \subseteq Pool!Queued
           /\ NoDuplicates(queue') /\ Pool!Queued' \cap running' = {}
           /\ UNCHANGED <<client, conn, backlog, loop, alive, hit>>
  <1>1. /\ queue # <<>> /\ queue' = Tail(queue) /\ running' = running \cup {Head(queue)}
        /\ UNCHANGED <<client, conn, backlog, loop, alive, hit>>
    BY DEF StartTask, Pool!Start, history
  <1>2. queue \in Seq(TaskRecord) /\ Pool!Queued = Range(queue) /\ Pool!Queued' = Range(queue')
    BY PoolOperators DEF TypeInv, PoolType, Pool!Queued, Pool!Range, Range
  <1>3. /\ Range(queue) = Range(queue') \cup {Head(queue)}
        /\ NoDuplicates(queue') /\ Head(queue) \notin Range(queue')
    BY <1>1, <1>2, TailLemma DEF TasksPlaced
  <1>4. QED
    BY <1>1, <1>2, <1>3 DEF Tasks, TasksPlaced

\* delCloseFD takes the queued tasks of a descriptor out of the queue.
LEMMA DelCloseEffect ==
    ASSUME TypeInv, TasksPlaced, DelCloseFD
    PROVE  /\ Pool!Queued' = {t \in Pool!Queued : t.fd # loop.fd}
           /\ Tasks' \subseteq Tasks
           /\ NoDuplicates(queue')
           /\ loop.pc = "delCloseFD" /\ loop'.pc = "events"
           /\ UNCHANGED <<client, conn, backlog, running, alive, hit>>
  <1> DEFINE D == {t \in Pool!Queued : t.fd = loop.fd}
  <1>1. /\ queue' = Keep(queue, Pool!Queued \ D) /\ running' = running
        /\ UNCHANGED <<client, conn, backlog, alive, hit>> /\ loop.pc = "delCloseFD"
    BY PoolOperators DEF DelCloseFD, Pool!Withdraw
  <1>2. queue \in Seq(TaskRecord) /\ Pool!Queued = Range(queue) /\ Pool!Queued' = Range(queue')
    BY PoolOperators DEF TypeInv, PoolType, Pool!Queued, Pool!Range, Range
  <1>3. Range(queue') = Pool!Queued \ D /\ NoDuplicates(queue')
    BY <1>1, <1>2, KeepRange, KeepNoDuplicates DEF TasksPlaced
  <1>4. loop'.pc = "events"
    BY DEF DelCloseFD, TypeInv, LoopRecord
  <1>5. QED
    BY <1>1, <1>2, <1>3, <1>4 DEF Tasks

\* Every step preserves the invariant.
LEMMA TasksPlacedStep ==
    ASSUME TypeInv, Descriptors, TasksPlaced, [Next]_vars
    PROVE  TasksPlaced'
  <1>1. ASSUME NEW c \in Clients, InitClient(c) PROVE TasksPlaced'
    <2>1. UNCHANGED <<conn, loop, queue, running>>
      BY <1>1 DEF InitClient, pool, history
    <2>2. QED
      BY <2>1, TasksPlacedFrame
  <1>2. ASSUME NEW c \in Clients, WriteLength(c) \/ WriteBody(c) PROVE TasksPlaced'
    <2>1. \E p, q, piece : Write(c, p, q, piece)
      BY <1>2 DEF WriteLength, WriteBody
    <2>2. QED
      BY <2>1, WriteEffect, TasksPlacedFrame DEF SameFd, SameGone
  <1>3. ASSUME NEW c \in Clients, RecvBuff(c) PROVE TasksPlaced'
    BY <1>3, RecvEffect, TasksPlacedFrame DEF SameFd, SameGone
  <1>4. ASSUME NEW c \in Clients, Kill(c) PROVE TasksPlaced'
    <2>1. \A d \in Clients : conn[d].gone => conn'[d].gone
      BY <1>4, KillEffect
    <2>2. QED
      BY <1>4, <2>1, KillEffect, TasksPlacedFrame DEF SameFd
  <1>5. CASE EpollWait
    <2>1. /\ UNCHANGED <<conn, queue, running>> /\ loop.pc = "events"
      BY <1>5 DEF EpollWait, pool, history
    <2>2. QED
      BY <2>1, TasksPlacedFrame
  <1>6. CASE AcceptConn
    <2>1. \A d \in Clients : /\ conn'[d].fd = conn[d].fd \/ conn[d].fd = 0
                             /\ conn'[d].gone = conn[d].gone
      BY <1>6, AcceptEffect DEF SameGone
    <2>2. QED
      BY <1>6, <2>1, AcceptEffect, TasksPlacedFrame
  <1>7. ASSUME NEW c \in Clients, CloseClient(c), conn[c].gone, loop.pc # "delCloseFD"
        PROVE  TasksPlaced'
    <2>1. /\ \A d \in Clients : /\ conn'[d].fd = IF d = c THEN 0 ELSE conn[d].fd
                                /\ conn'[d].gone = conn[d].gone
          /\ loop'.pc = "delCloseFD" /\ loop'.fd = conn[c].fd
          /\ UNCHANGED <<queue, running>>
      BY <1>7, CloseEffect DEF SameGone
    <2>2. Pool!Queued' = Pool!Queued
      BY <2>1 DEF Pool!Queued, Pool!Range
    <2>3. QED
      BY <1>7, <2>1, <2>2, TaskTypes DEF TasksPlaced, Tasks
  <1>8. ASSUME NEW c \in Clients, ReadLength(c) PROVE TasksPlaced'
    <2>1. conn[c].up = <<>> => conn[c].gone
      BY <1>8, ReadLengthEffect DEF Descriptors, Listening
    <2>2. CASE conn[c].up = <<>>
      BY <1>7, <1>8, <2>1, <2>2, ReadLengthEffect
    <2>3. CASE conn[c].up # <<>>
      BY <1>8, <2>3, ReadLengthEffect, TasksPlacedFrame DEF SameFd, SameGone
    <2>4. QED
      BY <2>2, <2>3
  <1>9. ASSUME NEW c \in Clients, ReadBody(c) PROVE TasksPlaced'
    <2>1. loop.pc = "body" /\ conn[c].fd = loop.fd /\ conn[c].fd # 0
      BY <1>9, ReadBodyEffect DEF Descriptors
    <2>2. CASE CloseClient(c)
      <3>1. conn[c].gone
        BY <1>9, <2>2, ReadBodyEffect, CloseEffect
      <3>2. QED
        BY <1>7, <2>1, <2>2, <3>1
    <2>3. ASSUME ~CloseClient(c), NEW k \in Nat, NEW data \in Data, AddTask(c, k, data)
          PROVE  TasksPlaced'
      <3>1. SameFd /\ SameGone
        BY <1>9, <2>3, ReadBodyEffect DEF SameFd, SameGone
      <3>2. PICK t \in TaskRecord : /\ t = [fd |-> conn[c].fd, owner |-> c, k |-> k, data |-> data]
                                    /\ t \notin Tasks
                                    /\ Pool!Queued' = Pool!Queued \cup {t}
                                    /\ Tasks' = Tasks \cup {t}
                                    /\ NoDuplicates(queue')
                                    /\ UNCHANGED running
        BY <2>1, <2>3, AddTaskEffect
      <3>3. t.owner = c /\ t.fd = conn[c].fd
        BY <3>2
      <3>4. QED
        BY <2>1, <3>1, <3>2, <3>3, TaskTypes DEF TasksPlaced, Tasks, SameFd, SameGone
    <2>4. CASE ~CloseClient(c) /\ conn[c].up # <<>>
      <3>1. Head(conn[c].up) \in Piece
        BY <2>4 DEF TypeInv, ConnRecord
      <3>2. Head(conn[c].up).k \in Nat /\ DataOf(Head(conn[c].up).bytes) \in Data
        BY <3>1 DEF Piece, Data
      <3>3. QED
        BY <1>9, <2>3, <2>4, <3>2, ReadBodyEffect
    <2>5. CASE ~CloseClient(c) /\ conn[c].up = <<>>
      <3>1. client[c].index \in Nat /\ {0, Garbage} \subseteq Data
        BY DEF TypeInv, ClientType, ClientRecord, Data
      <3>2. CASE \E data \in {0, Garbage} : AddTask(c, client[c].index, data)
        BY <2>3, <2>5, <3>1, <3>2
      <3>3. CASE UNCHANGED <<conn, loop, queue, running>>
        BY <3>3, TasksPlacedFrame
      <3>4. QED
        BY <1>9, <2>5, <3>2, <3>3, ReadBodyEffect
    <2>6. QED
      BY <2>2, <2>4, <2>5
  <1>10. CASE DelCloseFD
    BY <1>10, DelCloseEffect DEF TasksPlaced, Tasks
  <1>11. CASE StartTask
    BY <1>11, StartEffect DEF TasksPlaced, Tasks
  <1>12. ASSUME NEW t \in running, RunTask(t) PROVE TasksPlaced'
    <2>1. Pool!Queued' = Pool!Queued
      BY <1>12, RunEffect DEF Pool!Queued, Pool!Range
    <2>2. QED
      BY <1>12, <2>1, RunEffect, TaskTypes DEF TasksPlaced, Tasks, SameFd, SameGone
  <1>13. CASE UNCHANGED vars
    BY <1>13, TasksPlacedFrame DEF vars, pool, history
  <1>14. QED
    BY <1>1, <1>2, <1>3, <1>4, <1>5, <1>6, <1>8, <1>9, <1>10, <1>11, <1>12, <1>13
       DEF Next, ClientStep, LoopStep, PoolStep

\* Together.
LEMMA ServerInvInit == Init => ServerInv
  BY TypeInit, DescriptorsInit, TasksPlacedInit DEF ServerInv

\* Every step preserves the whole.
LEMMA ServerInvStep == ServerInv /\ [Next]_vars => ServerInv'
  BY TypeStep, DescriptorsStep, TasksPlacedStep DEF ServerInv

\* A queued answer goes to the client it was made for, or is about to be withdrawn: no
\* later client inherits one together with a descriptor.
THEOREM QueuedKeepConnection == Spec => []QueuedTasksHaveConnection
  <1>1. ServerInv => QueuedTasksHaveConnection
    <2> SUFFICES ASSUME ServerInv PROVE TypeOK
      BY DEF ServerInv, TasksPlaced, QueuedTasksHaveConnection
    <2>1. TypeInv /\ Cardinality(Clients) \in Nat
      BY EchoAssumption, FS_CardinalityType DEF ServerInv
    <2>2. Fds \cup {0} \subseteq 0 .. Cardinality(Clients)
      BY <2>1 DEF Fds
    <2>3. QED
      BY <2>1, <2>2 DEF TypeInv, TypeOK, ClientType, ClientRecord, ConnRecord, LoopRecord,
                        PoolType
  <1>2. QED
    BY <1>1, ServerInvInit, ServerInvStep, PTL DEF Spec

-----------------------------------------------------------------------------
(* The protocol of one client, while the server exists. *)

\* The pieces of the client's request that the epoll thread has not consumed.
InLoop(c) == loop.pc = "body" /\ loop.fd = conn[c].fd
Pending(c) == Len(conn[c].up) + (IF InLoop(c) THEN 1 ELSE 0)
TasksOf(c) == {t \in Tasks : t.owner = c}

ClientGone(c) ==
    /\ conn[c].gone <=> client[c].pc = "ended"
    /\ conn[c].reset => conn[c].gone

(* At most one request of a client is on its way: in the stream, in the pool, or
   answered and not read.  A client whose connection was reset has none, so that
   writing its answer cannot be the second write after it is gone. *)
OneRequest(c) ==
    /\ client[c].pc \in {"init", "length"} => Pending(c) = 0
    /\ client[c].pc = "body" => Pending(c) = 1
    /\ client[c].pc = "answer" => Pending(c) \in {0, 2}
    /\ client[c].pc \in {"init", "length", "body"} => TasksOf(c) = {} /\ conn[c].down = <<>>
    /\ Pending(c) <= 2
    /\ TasksOf(c) # {} \/ conn[c].down # <<>> \/ conn[c].reset => Pending(c) = 0
    /\ TasksOf(c) # {} => conn[c].down = <<>> /\ ~conn[c].reset
    /\ \A s, t \in TasksOf(c) : s = t
    /\ Len(conn[c].down) <= 1

Protocol ==
    alive => /\ \A c \in Clients : ClientGone(c)
             /\ \A c \in Clients \ hit : OneRequest(c)

\* The initial state satisfies the invariant.
LEMMA ProtocolInit == Init => Protocol
  <1> SUFFICES ASSUME Init PROVE Protocol
    OBVIOUS
  <1>1. /\ \A c \in Clients : /\ client[c].pc = "init" /\ ~conn[c].gone /\ ~conn[c].reset
                              /\ conn[c].up = <<>> /\ conn[c].down = <<>>
        /\ loop.pc = "events" /\ queue = <<>> /\ running = {}
    BY DEF Init, Pool!SInit
  <1>2. Tasks = {}
    BY <1>1, PoolOperators DEF Tasks, Range
  <1>3. \A c \in Clients : TasksOf(c) = {} /\ Pending(c) = 0
    BY <1>1, <1>2 DEF TasksOf, Pending, InLoop
  <1>4. QED
    BY <1>1, <1>3 DEF Protocol, ClientGone, OneRequest

\* What Pending counts, before and after a step.
LEMMA PendingLemma ==
    ASSUME TypeInv, TypeInv', NEW c \in Clients
    PROVE  /\ Len(conn[c].up) \in Nat /\ Pending(c) \in Nat
           /\ InLoop(c) => Pending(c) = Len(conn[c].up) + 1
           /\ ~InLoop(c) => Pending(c) = Len(conn[c].up)
           /\ Len(conn'[c].up) \in Nat /\ Pending(c)' \in Nat
           /\ InLoop(c)' => Pending(c)' = Len(conn'[c].up) + 1
           /\ ~InLoop(c)' => Pending(c)' = Len(conn'[c].up)
  <1>1. Len(conn[c].up) \in Nat /\ Len(conn'[c].up) \in Nat
    BY DEF TypeInv, ConnRecord
  <1>2. InLoop(c) \in BOOLEAN /\ InLoop(c)' \in BOOLEAN
    BY DEF InLoop
  <1>3. InLoop(c) => Pending(c) = Len(conn[c].up) + 1
    BY <1>1 DEF Pending
  <1>4. ~InLoop(c) => Pending(c) = Len(conn[c].up) + 0
    BY <1>1, <1>2 DEF Pending
  <1>5. InLoop(c)' => Pending(c)' = Len(conn'[c].up) + 1
    BY <1>1 DEF Pending
  <1>6. ~InLoop(c)' => Pending(c)' = Len(conn'[c].up) + 0
    BY <1>1, <1>2 DEF Pending
  <1>7. QED
    BY <1>1, <1>2, <1>3, <1>4, <1>5, <1>6

\* Steps that concern somebody else.
LEMMA OneRequestFrame ==
    ASSUME NEW c \in Clients, OneRequest(c), client'[c].pc = client[c].pc,
           conn'[c].down = conn[c].down, conn'[c].reset = conn[c].reset,
           Pending(c)' = Pending(c), TasksOf(c)' \subseteq TasksOf(c)
    PROVE  OneRequest(c)'
  BY DEF OneRequest

\* The server never comes back.
LEMMA ServerStaysDown == ASSUME [Next]_vars, alive' PROVE alive
  BY DEF Next, vars, history, InitClient, ClientStep, WriteLength, WriteBody, Write, RecvBuff, Kill,
         LoopStep, EpollWait, AcceptConn, DelCloseFD, ReadLength, ReadBody, CloseClient,
         PoolStep, StartTask, RunTask

\* Every step preserves the invariant.
LEMMA ProtocolStep == ASSUME ServerInv, Protocol, [Next]_vars PROVE Protocol'
  <1>0. TypeInv /\ TypeInv' /\ Descriptors /\ TasksPlaced
    BY ServerInvStep DEF ServerInv
  <1> DEFINE Goal == /\ \A d \in Clients : ClientGone(d)'
                     /\ \A d \in Clients : d \notin hit' => OneRequest(d)'
  <1> SUFFICES ASSUME alive' PROVE Goal
    BY DEF Protocol
  <1>a. /\ alive /\ \A d \in Clients : ClientGone(d)
        /\ \A d \in Clients : d \notin hit => OneRequest(d)
    BY ServerStaysDown DEF Protocol
  <1>b. /\ \A d \in Clients : conn[d].up \in Seq(Piece) /\ conn[d].down \in Seq(AnswerRecord)
        /\ \A d \in Clients : conn[d].gone \in BOOLEAN /\ conn[d].reset \in BOOLEAN
    BY <1>0 DEF TypeInv, ConnRecord
  <1>c. UNCHANGED <<queue, running>> => \A d \in Clients : TasksOf(d)' = TasksOf(d)
    BY PoolOperators DEF TasksOf, Tasks, Pool!Queued, Pool!Range
  <1>e. \A q \in Seq(Piece) : /\ q # <<>> => Len(Tail(q)) = Len(q) - 1 /\ Len(q) # 0
                              /\ \A x \in Piece : Len(Append(q, x)) = Len(q) + 1
    OBVIOUS
  <1>d. \A d, e \in Clients : conn[d].fd = conn[e].fd /\ conn[d].fd # 0 => d = e
    BY <1>0 DEF Descriptors
  <1>1. ASSUME NEW c \in Clients, InitClient(c)
        PROVE  Goal
    <2>1. /\ UNCHANGED <<conn, loop, queue, running, hit>>
          /\ client[c].pc = "init" /\ client' = [client EXCEPT ![c].pc = "length"]
      BY <1>1, <1>a DEF InitClient, pool, history
    <2>2. \A d \in Clients : client'[d].pc = IF d = c THEN "length" ELSE client[d].pc
      BY <1>0, <2>1 DEF TypeInv, ClientType, ClientRecord
    <2>3. \A d \in Clients : Pending(d)' = Pending(d)
      BY <2>1 DEF Pending, InLoop
    <2>4. \A d \in Clients : ClientGone(d)'
      BY <1>a, <2>1, <2>2 DEF ClientGone
    <2>5. ASSUME NEW d \in Clients, d \notin hit' PROVE OneRequest(d)'
      BY <1>a, <1>c, <2>1, <2>2, <2>3, <2>5 DEF OneRequest
    <2>6. QED
      BY <2>4, <2>5
  <1>2. ASSUME NEW c \in Clients, NEW piece \in Piece, NEW p, NEW q, Write(c, p, q, piece),
               <<p, q>> \in {<<"length", "body">>, <<"body", "answer">>}
        PROVE  Goal
    <2>1. /\ \A d \in Clients :
                /\ conn'[d].up = IF d = c THEN Append(conn[d].up, piece) ELSE conn[d].up
                /\ client'[d].pc = IF d = c THEN q ELSE client[d].pc
                /\ conn'[d].fd = conn[d].fd /\ conn'[d].down = conn[d].down
                /\ conn'[d].gone = conn[d].gone /\ conn'[d].reset = conn[d].reset
          /\ client[c].pc = p /\ UNCHANGED <<loop, queue, running, hit>>
      BY <1>0, <1>2, <1>a, WriteEffect DEF SameFd, SameDown, SameGone, SameReset
    <2>2. \A d \in Clients : InLoop(d)' <=> InLoop(d)
      BY <2>1 DEF InLoop
    <2>3. Pending(c)' = Pending(c) + 1 /\ Pending(c) \in Nat
      <3>1. conn'[c].up = Append(conn[c].up, piece) /\ conn[c].up \in Seq(Piece)
        BY <1>b, <2>1
      <3>2. Len(conn'[c].up) = Len(conn[c].up) + 1
        BY <1>2, <1>e, <3>1
      <3>3. QED
        BY <1>0, <2>2, <3>2, PendingLemma
    <2>4. \A d \in Clients : d # c => Pending(d)' = Pending(d)
      BY <1>0, <2>1, <2>2, PendingLemma
    <2>5. \A d \in Clients : ClientGone(d)'
      BY <1>2, <1>a, <2>1 DEF ClientGone
    <2>6. ~conn[c].reset
      BY <1>2, <1>a, <2>1 DEF ClientGone
    <2>7. ASSUME NEW d \in Clients, d \notin hit', d # c PROVE OneRequest(d)'
      BY <1>a, <1>c, <2>1, <2>4, <2>7, OneRequestFrame
    <2>8. ASSUME c \notin hit' PROVE OneRequest(c)'
      <3>1. OneRequest(c) /\ p # q
        BY <1>2, <1>a, <2>1, <2>8
      <3>2. /\ TasksOf(c)' = {} /\ conn'[c].down = <<>> /\ ~conn'[c].reset
            /\ Pending(c)' = IF p = "length" THEN 1 ELSE 2
        BY <1>2, <1>c, <2>1, <2>3, <2>6, <3>1 DEF OneRequest
      <3>3. client'[c].pc = q
        BY <2>1
      <3>4. QED
        BY <1>2, <3>2, <3>3 DEF OneRequest
    <2>9. QED
      BY <2>5, <2>7, <2>8
  <1>3. ASSUME NEW c \in Clients, WriteLength(c) \/ WriteBody(c)
        PROVE  Goal
    <2>1. client[c].index \in Nat
      BY <1>0 DEF TypeInv, ClientType, ClientRecord
    <2>2. QED
      BY <1>2, <1>3, <2>1, PieceType DEF WriteLength, WriteBody
  <1>4. ASSUME NEW c \in Clients, RecvBuff(c)
        PROVE  Goal
    <2>1. /\ \A d \in Clients :
                /\ client'[d].pc = IF d = c THEN "length" ELSE client[d].pc
                /\ conn'[d].down = IF d = c THEN Tail(conn[d].down) ELSE conn[d].down
                /\ conn'[d].fd = conn[d].fd /\ conn'[d].up = conn[d].up
                /\ conn'[d].gone = conn[d].gone /\ conn'[d].reset = conn[d].reset
          /\ conn[c].down # <<>> /\ client[c].pc = "answer"
          /\ UNCHANGED <<loop, queue, running, hit>>
      BY <1>0, <1>4, <1>a, RecvEffect DEF SameFd, SameUp, SameGone, SameReset
    <2>2. \A d \in Clients : Pending(d)' = Pending(d)
      BY <2>1 DEF Pending, InLoop
    <2>3. \A d \in Clients : ClientGone(d)'
      BY <1>a, <2>1 DEF ClientGone
    <2>4. ~conn[c].reset
      BY <1>a, <2>1 DEF ClientGone
    <2>5. ASSUME NEW d \in Clients, d \notin hit', d # c PROVE OneRequest(d)'
      BY <1>a, <1>c, <2>1, <2>2, <2>5, OneRequestFrame
    <2>6. ASSUME c \notin hit' PROVE OneRequest(c)'
      <3>1. OneRequest(c)
        BY <1>a, <2>1, <2>6
      <3>2. Len(conn[c].down) <= 1 /\ conn[c].down \in Seq(AnswerRecord)
        BY <1>b, <3>1 DEF OneRequest
      <3>3. Tail(conn[c].down) = <<>>
        BY <2>1, <3>2
      <3>4. /\ TasksOf(c)' = {} /\ conn'[c].down = <<>> /\ ~conn'[c].reset
            /\ Pending(c)' = 0 /\ client'[c].pc = "length"
        BY <1>c, <2>1, <2>2, <2>4, <3>1, <3>3 DEF OneRequest
      <3>5. QED
        BY <3>4 DEF OneRequest
    <2>7. QED
      BY <2>3, <2>5, <2>6
  <1>5. ASSUME NEW c \in Clients, Kill(c)
        PROVE  Goal
    <2>1. /\ \A d \in Clients :
                /\ client'[d].pc = IF d = c THEN "ended" ELSE client[d].pc
                /\ conn'[d].down = conn[d].down
                /\ conn'[d].fd = conn[d].fd /\ conn'[d].up = conn[d].up
                /\ d # c => conn'[d].gone = conn[d].gone /\ conn'[d].reset = conn[d].reset
          /\ conn'[c].gone /\ (conn'[c].reset <=> conn[c].reset \/ conn[c].down # <<>>)
          /\ UNCHANGED <<loop, queue, running, hit>>
      BY <1>0, <1>5, <1>a, KillEffect DEF SameFd, SameUp, SameDown
    <2>2. \A d \in Clients : Pending(d)' = Pending(d)
      BY <2>1 DEF Pending, InLoop
    <2>3. \A d \in Clients : ClientGone(d)'
      BY <1>a, <2>1 DEF ClientGone
    <2>4. ASSUME NEW d \in Clients, d \notin hit', d # c PROVE OneRequest(d)'
      BY <1>a, <1>c, <2>1, <2>2, <2>4, OneRequestFrame
    <2>5. ASSUME c \notin hit' PROVE OneRequest(c)'
      <3>1. OneRequest(c)
        BY <1>a, <2>1, <2>5
      <3>2. QED
        BY <1>c, <2>1, <2>2, <3>1 DEF OneRequest
    <2>6. QED
      BY <2>3, <2>4, <2>5
  <1>6. ASSUME SameFd, SameUp, SameDown, SameGone, SameReset, UNCHANGED <<client, hit>>,
               \A d \in Clients : TasksOf(d)' \subseteq TasksOf(d),
               loop.pc # "body", loop'.pc # "body"
        PROVE  Goal
    <2>1. \A d \in Clients : Pending(d)' = Pending(d)
      BY <1>6 DEF Pending, InLoop, SameUp
    <2>2. \A d \in Clients : ClientGone(d)'
      BY <1>6, <1>a DEF ClientGone, SameGone, SameReset
    <2>3. ASSUME NEW d \in Clients, d \notin hit' PROVE OneRequest(d)'
      BY <1>6, <1>a, <2>1, <2>3, OneRequestFrame DEF SameDown, SameReset
    <2>4. QED
      BY <2>2, <2>3
  <1>7. CASE EpollWait
    <2>1. /\ UNCHANGED <<client, conn, queue, running, hit>> /\ loop.pc = "events"
          /\ loop' = [loop EXCEPT !.events = Ready]
      BY <1>7 DEF EpollWait, pool, history
    <2>2. loop'.pc = "events"
      BY <1>0, <2>1 DEF TypeInv, LoopRecord
    <2>3. QED
      BY <1>6, <1>c, <2>1, <2>2 DEF SameFd, SameUp, SameDown, SameGone, SameReset
  <1>8. CASE AcceptConn
    <2>1. /\ UNCHANGED <<client, queue, running, hit>> /\ loop.pc = "events" /\ loop'.pc = "events"
          /\ SameUp /\ SameDown /\ SameGone /\ SameReset
      BY <1>0, <1>8, AcceptEffect
    <2>2. \A d \in Clients : Pending(d)' = Pending(d)
      BY <2>1 DEF Pending, InLoop, SameUp
    <2>3. \A d \in Clients : ClientGone(d)'
      BY <1>a, <2>1 DEF ClientGone, SameGone, SameReset
    <2>4. ASSUME NEW d \in Clients, d \notin hit' PROVE OneRequest(d)'
      BY <1>a, <1>c, <2>1, <2>2, <2>4, OneRequestFrame DEF SameDown, SameReset
    <2>5. QED
      BY <2>3, <2>4
  <1>9. ASSUME NEW c \in Clients, CloseClient(c), conn[c].gone, conn[c].up = <<>>,
               conn[c].fd # 0, loop.pc = "body" => loop.fd = conn[c].fd
        PROVE  Goal
    <2>1. /\ UNCHANGED <<client, queue, running, hit>> /\ loop'.pc = "delCloseFD"
          /\ SameUp /\ SameDown /\ SameGone /\ SameReset
      BY <1>0, <1>9, CloseEffect
    <2>2. \A d \in Clients : d # c => Pending(d)' = Pending(d)
      <3> SUFFICES ASSUME NEW d \in Clients, d # c PROVE ~InLoop(d) /\ ~InLoop(d)'
        BY <1>0, <2>1, PendingLemma DEF SameUp
      <3>1. QED
        BY <1>9, <1>d, <2>1 DEF InLoop
    <2>3. Pending(c)' = 0
      BY <1>0, <1>9, <2>1, PendingLemma DEF InLoop, SameUp
    <2>4. \A d \in Clients : ClientGone(d)'
      BY <1>a, <2>1 DEF ClientGone, SameGone, SameReset
    <2>5. ASSUME NEW d \in Clients, d \notin hit', d # c PROVE OneRequest(d)'
      BY <1>a, <1>c, <2>1, <2>2, <2>5, OneRequestFrame DEF SameDown, SameReset
    <2>6. ASSUME c \notin hit' PROVE OneRequest(c)'
      <3>1. OneRequest(c) /\ client[c].pc = "ended"
        BY <1>9, <1>a, <2>1, <2>6 DEF ClientGone
      <3>2. QED
        BY <1>c, <2>1, <2>3, <3>1 DEF OneRequest, SameDown, SameReset
    <2>7. QED
      BY <2>4, <2>5, <2>6
  <1>10. ASSUME NEW c \in Clients, ReadLength(c) PROVE Goal
    <2>1. /\ loop.pc = "events" /\ conn[c].fd # 0
          /\ conn[c].up = <<>> => conn[c].gone /\ CloseClient(c)
      BY <1>0, <1>10, ReadLengthEffect DEF Descriptors, Listening
    <2>2. CASE conn[c].up = <<>>
      BY <1>9, <2>1, <2>2
    <2>3. CASE conn[c].up # <<>>
      <3>1. /\ UNCHANGED <<client, queue, running, hit>>
            /\ loop'.pc = "body" /\ loop'.fd = conn[c].fd
            /\ \A d \in Clients : conn'[d].up = IF d = c THEN Tail(conn[d].up) ELSE conn[d].up
            /\ SameFd /\ SameDown /\ SameGone /\ SameReset
        BY <1>0, <1>10, <2>3, ReadLengthEffect
      <3>2. \A d \in Clients : /\ ~InLoop(d)
                               /\ InLoop(d)' <=> d = c
        BY <1>d, <2>1, <3>1 DEF InLoop, SameFd
      <3>3. Len(conn'[c].up) = Len(conn[c].up) - 1
        BY <1>b, <1>e, <2>3, <3>1
      <3>4. \A d \in Clients : Pending(d)' = Pending(d)
        <4>1. \A d \in Clients : d # c => Pending(d)' = Pending(d)
          BY <1>0, <3>1, <3>2, PendingLemma
        <4>2. Pending(c)' = Pending(c)
          BY <1>0, <3>2, <3>3, PendingLemma
        <4>3. QED
          BY <4>1, <4>2
      <3>5. \A d \in Clients : ClientGone(d)'
        BY <1>a, <3>1 DEF ClientGone, SameGone, SameReset
      <3>6. ASSUME NEW d \in Clients, d \notin hit' PROVE OneRequest(d)'
        BY <1>a, <1>c, <3>1, <3>4, <3>6, OneRequestFrame DEF SameDown, SameReset
      <3>7. QED
        BY <3>5, <3>6
    <2>4. QED
      BY <2>2, <2>3
  <1>11. ASSUME NEW c \in Clients, ReadBody(c) PROVE Goal
    <2>1. loop.pc = "body" /\ loop.fd = conn[c].fd /\ conn[c].fd # 0
      BY <1>0, <1>11, ReadBodyEffect DEF Descriptors
    <2>2. CASE CloseClient(c)
      <3>1. conn[c].gone /\ conn[c].up = <<>>
        BY <1>0, <1>11, <2>2, ReadBodyEffect, CloseEffect
      <3>2. QED
        BY <1>9, <2>1, <2>2, <3>1
    <2>3. ASSUME ~CloseClient(c), NEW k \in Nat, NEW data \in Data, AddTask(c, k, data)
          PROVE  Goal
      <3>1. /\ UNCHANGED <<client, hit>> /\ loop'.pc = "events"
            /\ \A d \in Clients : d # c => conn'[d].up = conn[d].up
            /\ conn[c].up = <<>> => conn[c].reset
            /\ SameDown /\ SameGone /\ SameReset
            /\ conn[c].up # <<>> => conn'[c].up = Tail(conn[c].up)
        BY <1>0, <1>11, <2>3, ReadBodyEffect DEF SameDown, SameGone, SameReset
      <3>2. PICK t \in TaskRecord : t.owner = c /\ Tasks' = Tasks \cup {t}
        BY <1>0, <2>1, <2>3, AddTaskEffect
      <3>3. /\ \A d \in Clients : d # c => TasksOf(d)' = TasksOf(d)
            /\ TasksOf(c)' = TasksOf(c) \cup {t}
        BY <3>2 DEF TasksOf
      <3>4. \A d \in Clients : /\ InLoop(d) <=> d = c
                               /\ ~InLoop(d)'
        BY <1>d, <2>1, <3>1 DEF InLoop
      <3>5. \A d \in Clients : d # c => Pending(d)' = Pending(d)
        BY <1>0, <3>1, <3>4, PendingLemma
      <3>6. \A d \in Clients : ClientGone(d)'
        BY <1>a, <3>1 DEF ClientGone, SameGone, SameReset
      <3>7. ASSUME NEW d \in Clients, d \notin hit', d # c PROVE OneRequest(d)'
        BY <1>a, <3>1, <3>3, <3>5, <3>7, OneRequestFrame DEF SameDown, SameReset
      <3>8. ASSUME c \notin hit' PROVE OneRequest(c)'
        <4>1. OneRequest(c) /\ Pending(c) = Len(conn[c].up) + 1
          BY <1>0, <1>a, <3>1, <3>4, <3>8, PendingLemma
        <4>2. Pending(c) # 0 /\ Pending(c) <= 2
          BY <1>b, <4>1 DEF OneRequest
        <4>3. TasksOf(c) = {} /\ conn[c].down = <<>> /\ ~conn[c].reset
          BY <4>1, <4>2 DEF OneRequest
        <4>4. Len(conn[c].up) = 1
          <5>1. Len(conn[c].up) \in Nat /\ Len(conn[c].up) # 0
            BY <1>0, <1>b, <1>e, <3>1, <4>3, PendingLemma
          <5>2. Len(conn[c].up) + 1 <= 2
            BY <4>1, <4>2, Zenon
          <5>3. \A n \in Nat : n # 0 /\ n + 1 <= 2 => n = 1
            OBVIOUS
          <5>4. QED
            BY <5>1, <5>2, <5>3
        <4>5. Pending(c) = 2 /\ client[c].pc \notin {"init", "length", "body"}
          BY <4>1, <4>4 DEF OneRequest
        <4>6. Pending(c)' = 0
          <5>1. Len(Tail(conn[c].up)) = 0
            BY <1>b, <1>e, <3>1, <4>3, <4>4
          <5>2. QED
            BY <1>0, <3>1, <3>4, <4>3, <5>1, PendingLemma
        <4>7. QED
          BY <3>1, <3>3, <4>3, <4>5, <4>6 DEF OneRequest, SameDown, SameReset
      <3>9. QED
        BY <3>6, <3>7, <3>8
    <2>4. CASE ~CloseClient(c) /\ conn[c].up # <<>>
      <3>1. Head(conn[c].up) \in Piece
        BY <1>b, <2>4
      <3>2. Head(conn[c].up).k \in Nat /\ DataOf(Head(conn[c].up).bytes) \in Data
        BY <3>1 DEF Piece, Data
      <3>3. AddTask(c, Head(conn[c].up).k, DataOf(Head(conn[c].up).bytes))
        BY <1>0, <1>11, <2>4, ReadBodyEffect
      <3>4. QED
        BY <2>3, <2>4, <3>2, <3>3
    <2>5. CASE ~CloseClient(c) /\ conn[c].up = <<>>
      <3>1. client[c].index \in Nat /\ {0, Garbage} \subseteq Data
        BY <1>0 DEF TypeInv, ClientType, ClientRecord, Data
      <3>2. \E data \in {0, Garbage} : AddTask(c, client[c].index, data)
        BY <1>0, <1>11, <2>5, ReadBodyEffect
      <3>3. QED
        BY <2>3, <2>5, <3>1, <3>2
    <2>6. QED
      BY <2>2, <2>4, <2>5
  <1>12. CASE DelCloseFD
    <2>1. /\ UNCHANGED <<client, conn, hit>> /\ loop.pc = "delCloseFD" /\ loop'.pc = "events"
          /\ \A d \in Clients : TasksOf(d)' \subseteq TasksOf(d)
      BY <1>0, <1>12, DelCloseEffect DEF TasksOf
    <2>2. QED
      BY <1>6, <2>1 DEF SameFd, SameUp, SameDown, SameGone, SameReset
  <1>13. CASE StartTask \/ UNCHANGED vars
    <2>1. /\ UNCHANGED <<client, conn, hit, loop>>
          /\ \A d \in Clients : TasksOf(d)' = TasksOf(d)
      BY <1>0, <1>13, <1>c, StartEffect DEF TasksOf, vars, pool, history
    <2>2. \A d \in Clients : Pending(d)' = Pending(d)
      BY <2>1 DEF Pending, InLoop
    <2>3. \A d \in Clients : ClientGone(d)'
      BY <1>a, <2>1 DEF ClientGone
    <2>4. ASSUME NEW d \in Clients, d \notin hit' PROVE OneRequest(d)'
      BY <1>a, <2>1, <2>2, <2>4, OneRequestFrame
    <2>5. QED
      BY <2>3, <2>4
  <1>14. ASSUME NEW t \in running, RunTask(t) PROVE Goal
    <2>1. /\ UNCHANGED <<client, loop, queue>> /\ running' = running \ {t}
          /\ hit' = hit \cup (Connected(t.fd) \ {t.owner})
          /\ SameFd /\ SameUp /\ SameGone
      BY <1>0, <1>14, RunEffect
    <2>2. \A d \in Clients : Pending(d)' = Pending(d)
      BY <2>1 DEF Pending, InLoop, SameFd, SameUp
    <2>3. t \in Tasks /\ t \notin Tasks' /\ Tasks' \subseteq Tasks
      <3>1. Pool!Queued' = Pool!Queued
        BY <2>1 DEF Pool!Queued, Pool!Range
      <3>2. QED
        BY <1>0, <2>1, <3>1 DEF Tasks, TasksPlaced
    <2>4. \A d \in Clients : TasksOf(d)' \subseteq TasksOf(d)
      BY <2>3 DEF TasksOf
    <2>5. ASSUME NEW d \in Clients PROVE ClientGone(d)'
      <3>1. conn'[d].reset => conn[d].reset \/ conn[d].gone
        BY <1>0, <1>14, <1>b, RunEffect
      <3>2. QED
        BY <1>a, <2>1, <3>1 DEF ClientGone, SameGone
    <2>6. ASSUME NEW d \in Clients, d \notin hit', d \notin Connected(t.fd) PROVE OneRequest(d)'
      <3>1. conn'[d].down = conn[d].down /\ conn'[d].reset = conn[d].reset
        BY <1>0, <1>14, <2>6, RunEffect
      <3>2. QED
        BY <1>a, <2>1, <2>2, <2>4, <2>6, <3>1, OneRequestFrame
    <2>7. ASSUME NEW d \in Clients, d \notin hit', d \in Connected(t.fd) PROVE OneRequest(d)'
      <3>1. d = t.owner /\ t \in TasksOf(d) /\ OneRequest(d)
        BY <1>a, <2>1, <2>3, <2>7 DEF TasksOf
      <3>2. /\ TasksOf(d)' = {} /\ Pending(d)' = 0 /\ conn[d].down = <<>> /\ ~conn[d].reset
            /\ client'[d].pc \notin {"init", "length", "body"}
        BY <2>1, <2>2, <2>3, <2>4, <3>1 DEF OneRequest, TasksOf
      <3>3. CASE conn[d].gone
        <4>1. conn'[d].down = <<>>
          BY <1>0, <1>14, <3>2, <3>3, RunEffect
        <4>2. QED
          BY <3>2, <4>1 DEF OneRequest
      <3>4. CASE ~conn[d].gone
        <4>1. conn'[d].down = Append(<<>>, Answer(t)) /\ ~conn'[d].reset
          BY <1>0, <1>14, <2>7, <3>2, <3>4, RunEffect
        <4>2. Len(conn'[d].down) = 1
          BY <4>1
        <4>3. QED
          BY <3>2, <4>1, <4>2 DEF OneRequest
      <3>5. QED
        BY <3>3, <3>4
    <2>8. QED
      BY <2>5, <2>6, <2>7
  <1>15. QED
    BY <1>1, <1>3, <1>4, <1>5, <1>7, <1>8, <1>10, <1>11, <1>12, <1>13, <1>14
       DEF Next, ClientStep, LoopStep, PoolStep

-----------------------------------------------------------------------------
(* Whose answers a client gets. *)

(* Between close and delCloseFD nobody has the descriptor; and a running task has the
   connection it was made for, unless that is the one being closed, or was closed while
   the task was running. *)
RunningPlaced ==
    /\ loop.pc = "delCloseFD" => Connected(loop.fd) = {}
    /\ \A t \in running : \/ conn[t.owner].fd = t.fd
                          \/ loop.pc = "delCloseFD" /\ loop.fd = t.fd
                          \/ t \in orphans

\* What has been left over stays on record.
LEMMA OrphansKept == ASSUME [Next]_vars PROVE orphans \subseteq orphans'
  BY DEF Next, vars, history, InitClient, ClientStep, WriteLength, WriteBody, Write, RecvBuff, Kill,
         LoopStep, EpollWait, AcceptConn, DelCloseFD, ReadLength, ReadBody, CloseClient,
         PoolStep, StartTask, RunTask

\* Steps that start no task and close no connection.
LEMMA RunningPlacedFrame ==
    ASSUME TypeInv, RunningPlaced, orphans \subseteq orphans', running' \subseteq running,
           \A c \in Clients : conn'[c].fd = conn[c].fd \/ conn[c].fd = 0,
           loop'.pc = "delCloseFD" \/ loop.pc = "delCloseFD" => SameFd /\ UNCHANGED loop
    PROVE  RunningPlaced'
  <1>1. ASSUME NEW t \in running' PROVE t.owner \in Clients /\ t.fd # 0
    BY TaskTypes DEF Tasks
  <1>2. QED
    BY <1>1 DEF RunningPlaced, Connected, SameFd

\* Every step preserves the invariant: delCloseFD puts on record what is still running.
LEMMA RunningPlacedStep ==
    ASSUME ServerInv, RunningPlaced, [Next]_vars
    PROVE  RunningPlaced'
  <1>0. TypeInv /\ Descriptors /\ TasksPlaced /\ orphans \subseteq orphans'
    BY OrphansKept DEF ServerInv
  <1>a. ASSUME SameFd, UNCHANGED <<loop, running>> PROVE RunningPlaced'
    BY <1>0, <1>a, RunningPlacedFrame DEF SameFd
  <1>1. ASSUME NEW c \in Clients, InitClient(c) PROVE RunningPlaced'
    BY <1>1, <1>a DEF InitClient, pool, SameFd
  <1>2. ASSUME NEW c \in Clients, WriteLength(c) \/ WriteBody(c) PROVE RunningPlaced'
    <2>1. \E p, q, piece : Write(c, p, q, piece)
      BY <1>2 DEF WriteLength, WriteBody
    <2>2. QED
      BY <1>0, <1>a, <2>1, WriteEffect
  <1>3. ASSUME NEW c \in Clients, RecvBuff(c) PROVE RunningPlaced'
    BY <1>0, <1>3, <1>a, RecvEffect
  <1>4. ASSUME NEW c \in Clients, Kill(c) PROVE RunningPlaced'
    BY <1>0, <1>4, <1>a, KillEffect
  <1>5. ASSUME NEW c \in Clients, CloseClient(c), conn[c].fd # 0, loop.pc # "delCloseFD"
        PROVE  RunningPlaced'
    <2>1. /\ \A d \in Clients : conn'[d].fd = IF d = c THEN 0 ELSE conn[d].fd
          /\ loop'.pc = "delCloseFD" /\ loop'.fd = conn[c].fd /\ running' = running
      BY <1>0, <1>5, CloseEffect
    <2>2. Connected(loop.fd)' = {}
      <3>1. \A d \in Clients : conn'[d].fd # loop'.fd
        BY <1>0, <1>5, <2>1 DEF Descriptors
      <3>2. QED
        BY <3>1 DEF Connected
    <2>3. ASSUME NEW t \in running
          PROVE  conn'[t.owner].fd = t.fd \/ loop'.fd = t.fd \/ t \in orphans'
      <3>1. t.owner \in Clients
        BY <1>0, TaskTypes DEF Tasks
      <3>2. QED
        BY <1>0, <1>5, <2>1, <3>1 DEF RunningPlaced
    <2>4. QED
      BY <2>1, <2>2, <2>3 DEF RunningPlaced
  <1>6. ASSUME NEW c \in Clients, ReadLength(c) PROVE RunningPlaced'
    <2>1. loop.pc = "events" /\ conn[c].fd # 0
      BY <1>0, <1>6, ReadLengthEffect
    <2>2. CASE CloseClient(c)
      BY <1>5, <2>1, <2>2
    <2>3. CASE ~CloseClient(c)
      BY <1>0, <1>6, <2>1, <2>3, ReadLengthEffect, RunningPlacedFrame DEF SameFd
    <2>4. QED
      BY <2>2, <2>3
  <1>7. ASSUME NEW c \in Clients, ReadBody(c) PROVE RunningPlaced'
    <2>1. loop.pc = "body" /\ conn[c].fd # 0
      BY <1>0, <1>7, ReadBodyEffect DEF Descriptors
    <2>2. CASE CloseClient(c)
      BY <1>5, <2>1, <2>2
    <2>3. CASE ~CloseClient(c)
      <3>1. SameFd /\ running' = running /\ loop'.pc # "delCloseFD"
        BY <1>0, <1>7, <2>1, <2>3, ReadBodyEffect DEF SameFd, AddTask, Pool!Accept
      <3>2. QED
        BY <1>0, <2>1, <3>1, RunningPlacedFrame DEF SameFd
    <2>4. QED
      BY <2>2, <2>3
  <1>8. CASE AcceptConn
    BY <1>0, <1>8, AcceptEffect, RunningPlacedFrame
  <1>9. CASE EpollWait
    <2>1. loop.pc = "events" /\ loop'.pc = "events" /\ UNCHANGED <<conn, running>>
      BY <1>0, <1>9 DEF EpollWait, pool, TypeInv, LoopRecord
    <2>2. QED
      BY <1>0, <2>1, RunningPlacedFrame DEF SameFd
  <1>10. CASE DelCloseFD
    <2>1. /\ loop'.pc = "events" /\ UNCHANGED <<conn, running>>
          /\ \A t \in running : t.fd = loop.fd => t \in orphans'
      BY <1>0, <1>10, DelCloseEffect DEF DelCloseFD
    <2>2. QED
      BY <1>0, <2>1 DEF RunningPlaced
  <1>11. CASE StartTask
    <2>1. UNCHANGED <<conn, loop>> /\ running' \subseteq running \cup Pool!Queued
      BY <1>0, <1>11, StartEffect DEF Tasks
    <2>2. QED
      BY <1>0, <2>1 DEF RunningPlaced, TasksPlaced, Connected
  <1>12. ASSUME NEW t \in running, RunTask(t) PROVE RunningPlaced'
    BY <1>0, <1>12, RunEffect, RunningPlacedFrame DEF SameFd
  <1>13. CASE UNCHANGED vars
    BY <1>13, <1>a DEF vars, pool, SameFd
  <1>14. QED
    BY <1>1, <1>2, <1>3, <1>4, <1>6, <1>7, <1>8, <1>9, <1>10, <1>11, <1>12, <1>13
       DEF Next, ClientStep, LoopStep, PoolStep

Received(c) == Range(client[c].got) \cup Range(conn[c].down)

(* The answer a is nobody's, or it is known where it comes from: from a task of the
   client c that got it, or from one that was running when delCloseFD cleared the queue. *)
OwnerKnown(c, a) == a # NoAnswer /\ a.owner # c => \E t \in orphans : a = Answer(t)

StraysKnown ==
    /\ ~alive => hit # {}
    /\ \A c \in Clients : \A a \in Received(c) : OwnerKnown(c, a)

\* What is known of an answer stays known; so new answers are all there is to look at.
LEMMA StraysFrame ==
    ASSUME StraysKnown, hit \subseteq hit', orphans \subseteq orphans',
           ~alive' => ~alive \/ hit' # {},
           \A c \in Clients : \A a \in Received(c)' : a \in Received(c) \/ OwnerKnown(c, a)'
    PROVE  StraysKnown'
  <1>1. ASSUME NEW c \in Clients, NEW a \in Received(c)' PROVE OwnerKnown(c, a)'
    <2>1. CASE a \in Received(c)
      BY <2>1 DEF StraysKnown, OwnerKnown, Answer
    <2>2. QED
      BY <2>1
  <1>2. QED
    BY <1>1 DEF StraysKnown

\* A stray answer is written only for a task that delCloseFD found running, and the write
\* that ends the server is a stray one.
LEMMA StraysRun ==
    ASSUME ServerInv, Protocol, RunningPlaced, StraysKnown, NEW t \in running, RunTask(t)
    PROVE  StraysKnown'
  <1>0. TypeInv /\ Descriptors /\ TasksPlaced /\ t \in Tasks
    BY DEF ServerInv, Tasks
  <1>1. t \in TaskRecord /\ t.owner \in Clients /\ t.fd # 0
    BY <1>0, TaskTypes
  <1>2. /\ hit' = hit \cup (Connected(t.fd) \ {t.owner}) /\ client' = client /\ alive
        /\ orphans' = orphans
        /\ alive' <=> ~\E d \in Connected(t.fd) : conn[d].reset /\ conn[d].gone
    BY <1>0, RunEffect DEF RunTask
  <1>3. ASSUME ~alive' PROVE hit' # {}
    <2>1. PICK d \in Connected(t.fd) : conn[d].reset
      BY <1>2, <1>3
    <2>2. d \in Clients
      BY DEF Connected
    <2>3. d = t.owner => d \in hit
      <3> SUFFICES ASSUME d = t.owner, d \notin hit PROVE FALSE
        OBVIOUS
      <3>1. OneRequest(d) /\ t \in TasksOf(d)
        BY <1>0, <1>2, <2>2 DEF Protocol, TasksOf
      <3>2. QED
        BY <2>1, <3>1 DEF OneRequest
    <2>4. QED
      BY <1>2, <2>3
  <1>4. ASSUME NEW c \in Clients, NEW a \in Received(c)', a \notin Received(c)
        PROVE  OwnerKnown(c, a)'
    <2>1. conn[c].down \in Seq(AnswerRecord) /\ Answer(t) \in AnswerRecord
      BY <1>0, <1>1 DEF TypeInv, ConnRecord, Answer, TaskRecord, AnswerRecord
    <2>2. c \in Connected(t.fd) /\ ~conn[c].gone /\ a = Answer(t)
      <3>1. Range(Append(conn[c].down, Answer(t))) = Range(conn[c].down) \cup {Answer(t)}
        BY <2>1, AppendLemma
      <3>2. conn'[c].down # conn[c].down
        BY <1>2, <1>4 DEF Received
      <3>3. c \in Connected(t.fd) /\ ~conn[c].gone
        BY <1>0, <3>2, RunEffect
      <3>4. conn'[c].down = Append(conn[c].down, Answer(t))
        BY <1>0, <3>3, RunEffect
      <3>5. QED
        BY <1>2, <1>4, <3>1, <3>3, <3>4 DEF Received
    <2>3. a.owner = t.owner
      BY <2>2 DEF Answer
    <2>4. ASSUME t.owner # c PROVE t \in orphans
      <3>1. conn[c].fd = t.fd
        BY <2>2 DEF Connected
      <3>2. conn[t.owner].fd # t.fd
        BY <1>0, <1>1, <2>4, <3>1 DEF Descriptors
      <3>3. QED
        BY <3>1, <3>2 DEF RunningPlaced, Connected
    <2>5. QED
      BY <1>2, <2>2, <2>3, <2>4 DEF OwnerKnown, Answer
  <1>5. QED
    BY <1>2, <1>3, <1>4, StraysFrame

\* Every step preserves the invariant.
LEMMA StraysStep ==
    ASSUME ServerInv, Protocol, RunningPlaced, StraysKnown, [Next]_vars
    PROVE  StraysKnown'
  <1>0. /\ TypeInv /\ TypeInv' /\ Descriptors /\ TasksPlaced
        /\ orphans \subseteq orphans'
    BY ServerInvStep, OrphansKept DEF ServerInv
  <1>a. ASSUME hit' = hit, ~alive' => ~alive \/ hit # {}, SameDown,
               \A d \in Clients : client'[d].got = client[d].got
        PROVE  StraysKnown'
    <2>1. \A d \in Clients : Received(d)' = Received(d)
      BY <1>a DEF Received, SameDown
    <2>2. QED
      BY <1>0, <1>a, <2>1, StraysFrame
  <1>1. ASSUME NEW c \in Clients, InitClient(c) PROVE StraysKnown'
    <2>1. UNCHANGED <<conn, alive, hit>> /\ \E p : client' = [client EXCEPT ![c].pc = p]
      BY <1>1 DEF InitClient, history
    <2>2. \A d \in Clients : client'[d].got = client[d].got
      BY <1>0, <2>1 DEF TypeInv, ClientType, ClientRecord
    <2>3. QED
      BY <1>a, <2>1, <2>2 DEF SameDown
  <1>2. ASSUME NEW c \in Clients, WriteLength(c) \/ WriteBody(c) PROVE StraysKnown'
    <2>1. \E p, q, piece : Write(c, p, q, piece)
      BY <1>2 DEF WriteLength, WriteBody
    <2>2. QED
      BY <1>0, <1>a, <2>1, WriteEffect DEF SameCount
  <1>3. ASSUME NEW c \in Clients, RecvBuff(c) PROVE StraysKnown'
    <2>0. client[c].got \in Seq(AnswerRecord) /\ conn[c].down \in Seq(AnswerRecord)
      BY <1>0 DEF TypeInv, ClientType, ClientRecord, ConnRecord
    <2>1. UNCHANGED <<alive, hit>>
      BY <1>0, <1>3, RecvEffect
    <2>2. \A d \in Clients : d # c => Received(d)' = Received(d)
      BY <1>0, <1>3, RecvEffect DEF Received
    <2>3. CASE conn[c].down # <<>>
      <3>1. /\ conn'[c].down = Tail(conn[c].down)
            /\ client'[c].got = Append(client[c].got, Head(conn[c].down))
        BY <1>0, <1>3, <2>3, RecvEffect
      <3>2. Range(conn[c].down) = Range(Tail(conn[c].down)) \cup {Head(conn[c].down)}
        BY <2>0, <2>3, TailLemma
      <3>3. Head(conn[c].down) \in AnswerRecord
        BY <2>0, <2>3
      <3>4. Range(client'[c].got) = Range(client[c].got) \cup {Head(conn[c].down)}
        BY <2>0, <3>1, <3>3, AppendLemma
      <3>5. Received(c)' = Received(c)
        BY <3>1, <3>2, <3>4 DEF Received
      <3>6. QED
        BY <1>0, <2>1, <2>2, <3>5, StraysFrame
    <2>4. CASE conn[c].down = <<>>
      <3>1. conn'[c].down = <<>> /\ client'[c].got = Append(client[c].got, NoAnswer)
        BY <1>0, <1>3, <2>4, RecvEffect
      <3>2. NoAnswer \in AnswerRecord
        BY DEF NoAnswer, AnswerRecord, Data
      <3>3. Range(client'[c].got) = Range(client[c].got) \cup {NoAnswer}
        BY <2>0, <3>1, <3>2, AppendLemma
      <3>4. Received(c)' = Received(c) \cup {NoAnswer}
        BY <2>4, <3>1, <3>3 DEF Received
      <3>5. QED
        BY <1>0, <2>1, <2>2, <3>4, StraysFrame DEF OwnerKnown
    <2>5. QED
      BY <2>3, <2>4
  <1>4. ASSUME NEW c \in Clients, Kill(c) PROVE StraysKnown'
    <2>1. \A d \in Clients : Received(d)' = Received(d)
      BY <1>0, <1>4, KillEffect DEF Received, SameDown, SameCount
    <2>2. QED
      BY <1>0, <1>4, <2>1, KillEffect, StraysFrame
  <1>5. ASSUME NEW c \in Clients, CloseClient(c) PROVE StraysKnown'
    BY <1>0, <1>5, <1>a, CloseEffect
  <1>6. ASSUME NEW c \in Clients, ReadLength(c) PROVE StraysKnown'
    BY <1>0, <1>5, <1>6, <1>a, ReadLengthEffect
  <1>7. ASSUME NEW c \in Clients, ReadBody(c) PROVE StraysKnown'
    <2>1. CASE alive' = alive
      BY <1>0, <1>5, <1>7, <1>a, <2>1, ReadBodyEffect DEF SameDown
    <2>2. CASE alive' # alive
      <3>1. /\ InLoop(c) /\ conn[c].reset /\ alive
            /\ UNCHANGED <<client, conn, hit>>
        BY <1>0, <1>7, <2>2, ReadBodyEffect, CloseEffect DEF InLoop, ReadBody
      <3>2. ASSUME c \notin hit PROVE FALSE
        <4>1. OneRequest(c)
          BY <3>1, <3>2 DEF Protocol
        <4>2. Pending(c) = 0
          BY <3>1, <4>1 DEF OneRequest
        <4>3. QED
          BY <1>0, <3>1, <4>2, PendingLemma
      <3>3. hit # {}
        BY <3>2
      <3>4. QED
        BY <1>a, <3>1, <3>3 DEF SameDown
    <2>3. QED
      BY <2>1, <2>2
  <1>8. CASE AcceptConn
    BY <1>0, <1>8, <1>a, AcceptEffect
  <1>9. CASE EpollWait \/ DelCloseFD \/ StartTask \/ UNCHANGED vars
    <2>1. UNCHANGED <<client, conn, alive, hit>>
      BY <1>9 DEF EpollWait, DelCloseFD, StartTask, vars, history
    <2>2. QED
      BY <1>a, <2>1 DEF SameDown
  <1>10. ASSUME NEW t \in running, RunTask(t) PROVE StraysKnown'
    BY <1>10, StraysRun
  <1>11. QED
    BY <1>1, <1>2, <1>3, <1>4, <1>6, <1>7, <1>8, <1>9, <1>10
       DEF Next, ClientStep, LoopStep, PoolStep

\* What has been received and what is on its way are the answers.
LEMMA AnswersReceived ==
    ASSUME TypeInv, NEW c \in Clients
    PROVE  Range(Answers(c)) = Received(c)
  <1>1. client[c].got \in Seq(AnswerRecord) /\ conn[c].down \in Seq(AnswerRecord)
    BY DEF TypeInv, ClientType, ClientRecord, ConnRecord
  <1>2. QED
    BY <1>1, ConcatRange DEF Answers, Received

\* A client is sent somebody else's answer only by a task that a pool thread was working
\* on when delCloseFD withdrew the tasks of its connection; and nothing but such an answer
\* lets SIGPIPE or a length of -1 end the server: killing clients does not.
THEOREM StraysAlone == Spec => []OnlyStraysEndServer
  <1> DEFINE Inv == ServerInv /\ Protocol /\ RunningPlaced /\ StraysKnown
  <1>1. Init => RunningPlaced /\ StraysKnown
    <2> SUFFICES ASSUME Init PROVE RunningPlaced /\ StraysKnown
      OBVIOUS
    <2>1. \A c \in Clients : Received(c) = {}
      BY DEF Init, Received, Range
    <2>2. running = {} /\ loop.pc = "events" /\ alive
      BY DEF Init, Pool!SInit
    <2>3. QED
      BY <2>1, <2>2 DEF RunningPlaced, StraysKnown
  <1>2. Init => Inv
    BY <1>1, ServerInvInit, ProtocolInit
  <1>3. Inv /\ [Next]_vars => Inv'
    BY ServerInvStep, ProtocolStep, RunningPlacedStep, StraysStep
  <1>4. Inv => OnlyStraysEndServer
    BY AnswersReceived DEF ServerInv, StraysKnown, OwnerKnown, OnlyStraysEndServer
  <1>5. QED
    BY <1>2, <1>3, <1>4, PTL DEF Spec

-----------------------------------------------------------------------------
(* Which numbers a client reads. *)

BodyOf(c) == [k |-> client[c].index, bytes |-> Bodies[c][client[c].index]]

(* The one request of a client that is on its way is the one with its own number. *)
OwnNumber(c) ==
    /\ Pending(c) = 2 => conn[c].up[Len(conn[c].up)] = BodyOf(c)
    /\ \A t \in TasksOf(c) : t.k = client[c].index /\ t.data = Expected(c, client[c].index)

Numbered == alive => \A c \in Clients \ hit : OwnNumber(c)
Counted == \A c \in Clients : Len(client[c].got) = client[c].index

\* The initial state satisfies the invariants.
LEMMA NumbersInit == Init => Numbered /\ Counted /\ AnswersInOrder
  <1> SUFFICES ASSUME Init PROVE Numbered /\ Counted /\ AnswersInOrder
    OBVIOUS
  <1>1. /\ \A c \in Clients : /\ conn[c].up = <<>> /\ conn[c].down = <<>>
                              /\ client[c].got = <<>> /\ client[c].index = 0
        /\ loop.pc = "events" /\ queue = <<>> /\ running = {}
    BY DEF Init, Pool!SInit
  <1>2. Tasks = {}
    BY <1>1, PoolOperators DEF Tasks, Range
  <1>3. \A c \in Clients : TasksOf(c) = {} /\ Pending(c) = 0
    BY <1>1, <1>2 DEF TasksOf, Pending, InLoop
  <1>4. \A c \in Clients : Answers(c) = <<>>
    BY <1>1 DEF Answers
  <1>5. QED
    BY <1>1, <1>3, <1>4 DEF Numbered, OwnNumber, Counted, AnswersInOrder

\* A client counts the answers that it has read.
LEMMA CountedStep == ASSUME TypeInv, Descriptors, Counted, [Next]_vars PROVE Counted'
  <1>1. ASSUME SameCount PROVE Counted'
    BY <1>1 DEF Counted, SameCount
  <1>2. ASSUME NEW c \in Clients, InitClient(c) PROVE Counted'
    <2>1. \E p : client' = [client EXCEPT ![c].pc = p]
      BY <1>2 DEF InitClient
    <2>2. SameCount
      BY <2>1 DEF SameCount, TypeInv, ClientType, ClientRecord
    <2>3. QED
      BY <1>1, <2>2
  <1>3. ASSUME NEW c \in Clients, WriteLength(c) \/ WriteBody(c) PROVE Counted'
    <2>1. \E p, q, piece : Write(c, p, q, piece)
      BY <1>3 DEF WriteLength, WriteBody
    <2>2. QED
      BY <1>1, <2>1, WriteEffect
  <1>4. ASSUME NEW c \in Clients, RecvBuff(c) PROVE Counted'
    <2>1. client[c].got \in Seq(AnswerRecord) /\ conn[c].down \in Seq(AnswerRecord)
      BY DEF TypeInv, ClientType, ClientRecord, ConnRecord
    <2>2. NoAnswer \in AnswerRecord /\ (conn[c].down # <<>> => Head(conn[c].down) \in AnswerRecord)
      <3>1. NoAnswer \in AnswerRecord
        BY DEF NoAnswer, AnswerRecord, Data
      <3>2. QED
        BY <2>1, <3>1
    <2>3. \A a \in AnswerRecord : Len(Append(client[c].got, a)) = Len(client[c].got) + 1
      BY <2>1
    <2>4. Len(client'[c].got) = Len(client[c].got) + 1
      BY <1>4, <2>2, <2>3, RecvEffect
    <2>5. \A d \in Clients : /\ client'[d].index = IF d = c THEN client[d].index + 1
                                                  ELSE client[d].index
                             /\ d # c => client'[d].got = client[d].got
      BY <1>4, RecvEffect
    <2>6. QED
      BY <2>4, <2>5 DEF Counted
  <1>5. ASSUME NEW c \in Clients, Kill(c) PROVE Counted'
    BY <1>1, <1>5, KillEffect
  <1>6. ASSUME UNCHANGED client PROVE Counted'
    BY <1>1, <1>6 DEF SameCount
  <1>7. CASE UNCHANGED vars \/ LoopStep \/ PoolStep
    <2>1. UNCHANGED client
      BY <1>7 DEF vars, history, LoopStep, EpollWait, AcceptConn, DelCloseFD, ReadLength, ReadBody,
                  CloseClient, PoolStep, StartTask, RunTask
    <2>2. QED
      BY <1>6, <2>1
  <1>8. QED
    BY <1>2, <1>3, <1>4, <1>5, <1>7 DEF Next, ClientStep

-----------------------------------------------------------------------------
(* The answers in their order. *)

Good(c, a, i, dead) ==
    \/ a = NoAnswer /\ dead
    \/ a.owner = c /\ a.k = i - 1 /\ a.data = Expected(c, i - 1)

\* A good answer behind good ones.
LEMMA GoodAppend ==
    ASSUME NEW c, NEW s \in Seq(AnswerRecord), NEW a \in AnswerRecord, NEW dead,
           \A i \in DOMAIN s : Good(c, s[i], i, dead), Good(c, a, Len(s) + 1, dead)
    PROVE  \A i \in DOMAIN Append(s, a) : Good(c, Append(s, a)[i], i, dead)
  <1>1. /\ Len(s) \in Nat /\ DOMAIN s = 1 .. Len(s)
        /\ DOMAIN Append(s, a) = 1 .. Len(s) + 1
        /\ \A i \in 1 .. Len(s) : Append(s, a)[i] = s[i]
        /\ Append(s, a)[Len(s) + 1] = a
    OBVIOUS
  <1> SUFFICES ASSUME NEW i \in 1 .. Len(s) + 1 PROVE Good(c, Append(s, a)[i], i, dead)
    BY <1>1
  <1>2. CASE i \in 1 .. Len(s)
    BY <1>1, <1>2
  <1>3. CASE i = Len(s) + 1
    BY <1>1, <1>3
  <1>4. QED
    BY <1>1, <1>2, <1>3

\* It suffices that a step keeps the answers of a client or adds a good one.
LEMMA AnswersFrame ==
    ASSUME TypeInv, TypeInv', AnswersInOrder, hit \subseteq hit', alive' => alive,
           \A c \in Clients \ hit' :
               \/ Answers(c)' = Answers(c)
               \/ \E a \in AnswerRecord : /\ Answers(c)' = Append(Answers(c), a)
                                          /\ Good(c, a, Len(Answers(c)) + 1, ~alive')
    PROVE  AnswersInOrder'
  <1> SUFFICES ASSUME NEW c \in Clients \ hit'
               PROVE  \A i \in DOMAIN Answers(c)' : Good(c, Answers(c)'[i], i, ~alive')
    BY DEF AnswersInOrder, Good, Expected
  <1>1. c \in Clients \ hit /\ \A i \in DOMAIN Answers(c) : Good(c, Answers(c)[i], i, ~alive)
    BY DEF AnswersInOrder, Good, Expected
  <1>2. \A i \in DOMAIN Answers(c) : Good(c, Answers(c)[i], i, ~alive')
    BY <1>1 DEF Good
  <1>3. CASE Answers(c)' = Answers(c)
    BY <1>2, <1>3
  <1>4. CASE ~(Answers(c)' = Answers(c))
    <2>1. PICK a \in AnswerRecord : /\ Answers(c)' = Append(Answers(c), a)
                                    /\ Good(c, a, Len(Answers(c)) + 1, ~alive')
      BY <1>4
    <2>2. Answers(c) \in Seq(AnswerRecord)
      <3>1. client[c].got \in Seq(AnswerRecord) /\ conn[c].down \in Seq(AnswerRecord)
        BY DEF TypeInv, ClientType, ClientRecord, ConnRecord
      <3>2. \A s, t \in Seq(AnswerRecord) : s \o t \in Seq(AnswerRecord)
        OBVIOUS
      <3>3. QED
        BY <3>1, <3>2 DEF Answers
    <2>3. \A i \in DOMAIN Append(Answers(c), a) : Good(c, Append(Answers(c), a)[i], i, ~alive')
      BY <1>2, <2>1, <2>2, GoodAppend
    <2>4. QED
      BY <2>1, <2>3
  <1>5. QED
    BY <1>3, <1>4

\* Every step preserves the order.
LEMMA AnswersStep ==
    ASSUME ServerInv, Protocol, Numbered, Counted, AnswersInOrder, [Next]_vars
    PROVE  AnswersInOrder'
  <1>0. TypeInv /\ TypeInv' /\ Descriptors /\ TasksPlaced
    BY ServerInvStep DEF ServerInv
  <1>a. alive' => alive
    BY ServerStaysDown
  <1>c. ASSUME NEW s \in Seq(AnswerRecord), NEW t \in Seq(AnswerRecord), NEW x \in AnswerRecord
        PROVE  s \o Append(t, x) = Append(s \o t, x)
    BY ConcatAppend
  <1>d. ASSUME NEW s \in Seq(AnswerRecord), NEW t \in Seq(AnswerRecord), t # <<>>
        PROVE  Append(s, Head(t)) \o Tail(t) = s \o t
    BY <1>d, ConcatShift
  <1>b. ASSUME UNCHANGED hit, SameDown, \A d \in Clients : client'[d].got = client[d].got
        PROVE  AnswersInOrder'
    <2>1. \A d \in Clients : Answers(d)' = Answers(d)
      BY <1>b DEF Answers, SameDown
    <2>2. QED
      BY <1>0, <1>a, <1>b, <2>1, AnswersFrame
  <1>1. ASSUME NEW c \in Clients, InitClient(c) PROVE AnswersInOrder'
    <2>1. UNCHANGED <<conn, hit>> /\ \E p : client' = [client EXCEPT ![c].pc = p]
      BY <1>1 DEF InitClient, history
    <2>2. \A d \in Clients : client'[d].got = client[d].got
      BY <1>0, <2>1 DEF TypeInv, ClientType, ClientRecord
    <2>3. QED
      BY <1>b, <2>1, <2>2 DEF SameDown
  <1>2. ASSUME NEW c \in Clients, WriteLength(c) \/ WriteBody(c) PROVE AnswersInOrder'
    <2>1. \E p, q, piece : Write(c, p, q, piece)
      BY <1>2 DEF WriteLength, WriteBody
    <2>2. QED
      BY <1>0, <1>b, <2>1, WriteEffect DEF SameCount
  <1>3. ASSUME NEW c \in Clients, RecvBuff(c) PROVE AnswersInOrder'
    <2>0. client[c].got \in Seq(AnswerRecord) /\ conn[c].down \in Seq(AnswerRecord)
      BY <1>0 DEF TypeInv, ClientType, ClientRecord, ConnRecord
    <2>1. UNCHANGED <<alive, hit>>
      BY <1>0, <1>3, RecvEffect
    <2>2. \A d \in Clients : d # c => Answers(d)' = Answers(d)
      BY <1>0, <1>3, RecvEffect DEF Answers
    <2>3. NoAnswer \in AnswerRecord
      BY DEF NoAnswer, AnswerRecord, Data
    <2>4. CASE conn[c].down # <<>>
      <3>1. /\ conn'[c].down = Tail(conn[c].down)
            /\ client'[c].got = Append(client[c].got, Head(conn[c].down))
        BY <1>0, <1>3, <2>4, RecvEffect
      <3>2. Append(client[c].got, Head(conn[c].down)) \o Tail(conn[c].down)
                = client[c].got \o conn[c].down
        BY <1>d, <2>0, <2>4
      <3>3. Answers(c)' = Answers(c)
        BY <3>1, <3>2 DEF Answers
      <3>4. QED
        BY <1>0, <1>a, <2>1, <2>2, <3>3, AnswersFrame
    <2>5. CASE conn[c].down = <<>>
      <3>1. /\ conn'[c].down = <<>> /\ client'[c].got = Append(client[c].got, NoAnswer)
            /\ ~alive
        BY <1>0, <1>3, <2>5, RecvEffect
      <3>2. \A s \in Seq(AnswerRecord) : s \o <<>> = s
        OBVIOUS
      <3>3. Append(client[c].got, NoAnswer) \in Seq(AnswerRecord)
        BY <2>0, <2>3
      <3>4. Answers(c)' = Append(Answers(c), NoAnswer)
        BY <2>0, <2>5, <3>1, <3>2, <3>3 DEF Answers
      <3>5. Good(c, NoAnswer, Len(Answers(c)) + 1, ~alive')
        BY <2>1, <3>1 DEF Good
      <3>6. QED
        BY <1>0, <1>a, <2>1, <2>2, <2>3, <3>4, <3>5, AnswersFrame
    <2>6. QED
      BY <2>4, <2>5
  <1>4. ASSUME NEW c \in Clients, Kill(c) PROVE AnswersInOrder'
    BY <1>0, <1>4, <1>b, KillEffect DEF SameCount
  <1>5. ASSUME NEW c \in Clients, CloseClient(c) PROVE AnswersInOrder'
    BY <1>0, <1>5, <1>b, CloseEffect
  <1>6. ASSUME NEW c \in Clients, ReadLength(c) PROVE AnswersInOrder'
    BY <1>0, <1>5, <1>6, <1>b, ReadLengthEffect
  <1>7. ASSUME NEW c \in Clients, ReadBody(c) PROVE AnswersInOrder'
    BY <1>0, <1>5, <1>7, <1>b, ReadBodyEffect DEF SameDown
  <1>8. CASE AcceptConn
    BY <1>0, <1>8, <1>b, AcceptEffect
  <1>9. CASE EpollWait \/ DelCloseFD \/ StartTask \/ UNCHANGED vars
    <2>1. UNCHANGED <<client, conn, hit>>
      BY <1>9 DEF EpollWait, DelCloseFD, StartTask, vars, history
    <2>2. QED
      BY <1>b, <2>1 DEF SameDown
  <1>10. ASSUME NEW t \in running, RunTask(t) PROVE AnswersInOrder'
    <2>0. t \in Tasks /\ t \in TaskRecord
      BY <1>0, TaskTypes DEF Tasks
    <2>1. /\ UNCHANGED client /\ hit' = hit \cup (Connected(t.fd) \ {t.owner}) /\ alive
      BY <1>0, <1>10, RunEffect
    <2>2. Answer(t) \in AnswerRecord
      BY <2>0 DEF Answer, TaskRecord, AnswerRecord
    <2>3. ASSUME NEW d \in Clients \ hit', Answers(d)' # Answers(d)
          PROVE  /\ Answers(d)' = Append(Answers(d), Answer(t))
                 /\ Good(d, Answer(t), Len(Answers(d)) + 1, ~alive')
      <3>0. client[d].got \in Seq(AnswerRecord) /\ conn[d].down \in Seq(AnswerRecord)
        BY <1>0 DEF TypeInv, ClientType, ClientRecord, ConnRecord
      <3>1. conn'[d].down # conn[d].down
        BY <2>1, <2>3 DEF Answers
      <3>2. d \in Connected(t.fd) /\ ~conn[d].gone
        BY <1>0, <1>10, <3>1, RunEffect
      <3>3. conn'[d].down = Append(conn[d].down, Answer(t))
        BY <1>0, <1>10, <3>2, RunEffect
      <3>4. Answers(d)' = Append(Answers(d), Answer(t))
        <4>1. client[d].got \o Append(conn[d].down, Answer(t))
                  = Append(client[d].got \o conn[d].down, Answer(t))
          BY <1>c, <2>2, <3>0
        <4>2. QED
          BY <2>1, <3>3, <4>1, Zenon DEF Answers
      <3>5. d = t.owner /\ d \notin hit
        BY <2>1, <2>3, <3>2
      <3>6. t \in TasksOf(d) /\ OneRequest(d) /\ OwnNumber(d)
        BY <2>0, <2>1, <3>5 DEF TasksOf, Protocol, Numbered
      <3>7. /\ conn[d].down = <<>> /\ t.k = client[d].index
            /\ t.data = Expected(d, client[d].index)
        BY <3>6 DEF OneRequest, OwnNumber
      <3>8. Len(Answers(d)) = client[d].index /\ client[d].index \in Nat
        <4>1. \A s \in Seq(AnswerRecord) : s \o <<>> = s
          OBVIOUS
        <4>2. Answers(d) = client[d].got
          BY <3>0, <3>7, <4>1 DEF Answers
        <4>3. QED
          BY <1>0, <4>2 DEF Counted, TypeInv, ClientType, ClientRecord
      <3>9. /\ Answer(t).owner = d /\ Answer(t).k = client[d].index
            /\ Answer(t).data = Expected(d, client[d].index)
        BY <3>5, <3>7 DEF Answer
      <3>10. client[d].index = Len(Answers(d)) + 1 - 1
        BY <3>8
      <3>11. QED
        BY <3>4, <3>9, <3>10 DEF Good
    <2>4. QED
      BY <1>0, <1>a, <2>1, <2>2, <2>3, AnswersFrame
  <1>11. QED
    BY <1>1, <1>2, <1>3, <1>4, <1>6, <1>7, <1>8, <1>9, <1>10
       DEF Next, ClientStep, LoopStep, PoolStep
-----------------------------------------------------------------------------
(* Requests keep the number of their client. *)

\* Steps that leave the last piece of a stream and the client's number alone.
LEMMA OwnNumberFrame ==
    ASSUME NEW c \in Clients, OwnNumber(c), client'[c].index = client[c].index,
           Pending(c)' = 2 => Pending(c) = 2 /\ conn'[c].up[Len(conn'[c].up)]
                                                    = conn[c].up[Len(conn[c].up)],
           TasksOf(c)' \subseteq TasksOf(c)
    PROVE  OwnNumber(c)'
  BY DEF OwnNumber, BodyOf

\* Reading the length leaves the body; reading the body makes the task.
LEMMA NumberedRead ==
    ASSUME NumbersSurvive, ServerInv, ServerInv', Protocol, Protocol', Numbered,
           NEW c \in Clients, c \notin hit, alive,
           ReadLength(c) \/ ReadBody(c)
    PROVE  OwnNumber(c)'
  <1>0. TypeInv /\ TypeInv' /\ Descriptors /\ TasksPlaced
    BY DEF ServerInv
  <1>1. OneRequest(c) /\ OwnNumber(c)
    BY DEF Protocol, Numbered
  <1>a. conn[c].up \in Seq(Piece) /\ client[c].index \in 0 .. MaxRequests[c]
    BY <1>0 DEF TypeInv, ConnRecord, ClientType
  <1>b. \A q \in Seq(Piece) : /\ Len(q) = 2 => Len(Tail(q)) = 1 /\ Tail(q)[1] = q[2]
                              /\ Len(q) = 1 => Head(q) = q[1]
                              /\ q # <<>> <=> Len(q) # 0
    OBVIOUS
  <1>2. ASSUME CloseClient(c), conn[c].up = <<>> PROVE OwnNumber(c)'
    <2>1. /\ UNCHANGED <<client, queue, running>> /\ loop'.pc = "delCloseFD"
          /\ conn'[c].up = <<>>
      BY <1>0, <1>2, CloseEffect DEF SameUp
    <2>2. Pending(c)' = 0
      BY <1>0, <2>1, PendingLemma DEF InLoop
    <2>3. TasksOf(c)' = TasksOf(c)
      BY <2>1 DEF TasksOf, Tasks, Pool!Queued, Pool!Range
    <2>4. QED
      BY <1>1, <2>1, <2>2, <2>3, OwnNumberFrame
  <1>3. CASE ReadLength(c) /\ conn[c].up # <<>>
    <2>1. /\ UNCHANGED <<client, queue, running>> /\ loop.pc = "events" /\ loop'.pc = "body"
          /\ loop'.fd = conn[c].fd /\ conn'[c].up = Tail(conn[c].up)
          /\ conn'[c].fd = conn[c].fd
      BY <1>0, <1>3, ReadLengthEffect DEF SameFd
    <2>2. ~InLoop(c) /\ InLoop(c)'
      BY <2>1 DEF InLoop
    <2>3. TasksOf(c)' = TasksOf(c)
      BY <2>1 DEF TasksOf, Tasks, Pool!Queued, Pool!Range
    <2>4. ASSUME Pending(c)' = 2
          PROVE  Pending(c) = 2 /\ conn'[c].up[Len(conn'[c].up)] = conn[c].up[Len(conn[c].up)]
      <3>1. Len(conn'[c].up) = 1
        <4>1. Pending(c)' = Len(conn'[c].up) + 1 /\ Len(conn'[c].up) \in Nat
          BY <1>0, <2>2, PendingLemma
        <4>2. Len(conn'[c].up) + 1 = 2
          BY <2>4, <4>1, Zenon
        <4>3. \A n \in Nat : n + 1 = 2 => n = 1
          OBVIOUS
        <4>4. QED
          BY <4>1, <4>2, <4>3
      <3>2. Len(conn[c].up) = 2
        <4>1. Len(Tail(conn[c].up)) = Len(conn[c].up) - 1 /\ Len(conn[c].up) \in Nat
          BY <1>3, <1>a
        <4>2. QED
          BY <2>1, <3>1, <4>1
      <3>3. QED
        BY <1>0, <1>a, <1>b, <2>1, <2>2, <3>1, <3>2, PendingLemma
    <2>5. QED
      BY <1>1, <2>1, <2>3, <2>4, OwnNumberFrame
  <1>4. ASSUME ReadBody(c), conn[c].up # <<>> PROVE OwnNumber(c)'
    <2>1. /\ loop.pc = "body" /\ conn[c].fd = loop.fd /\ UNCHANGED <<client, alive, hit>>
          /\ AddTask(c, Head(conn[c].up).k, DataOf(Head(conn[c].up).bytes))
      BY <1>0, <1>4, ReadBodyEffect, CloseEffect
    <2>2. InLoop(c) /\ conn[c].fd # 0
      BY <1>0, <2>1 DEF InLoop, Descriptors
    <2>3. Head(conn[c].up) \in Piece
      BY <1>4, <1>a
    <2>4. Head(conn[c].up).k \in Nat /\ DataOf(Head(conn[c].up).bytes) \in Data
      BY <2>3 DEF Piece, Data
    <2>5. PICK t \in TaskRecord :
              /\ t = [fd |-> conn[c].fd, owner |-> c, k |-> Head(conn[c].up).k,
                      data |-> DataOf(Head(conn[c].up).bytes)]
              /\ Tasks' = Tasks \cup {t}
      BY <1>0, <2>1, <2>2, <2>4, AddTaskEffect
    <2>6. Pending(c) = Len(conn[c].up) + 1 /\ Len(conn[c].up) \in Nat /\ Pending(c) <= 2
      BY <1>0, <1>1, <2>2, PendingLemma DEF OneRequest
    <2>7. Len(conn[c].up) # 0
      BY <1>4, <1>a, <1>b
    <2>8. Len(conn[c].up) = 1 /\ Pending(c) = 2
      <3>1. \A n \in Nat : n # 0 /\ n + 1 <= 2 => n = 1
        OBVIOUS
      <3>2. Len(conn[c].up) + 1 <= 2
        BY <2>6, Zenon
      <3>3. Len(conn[c].up) = 1
        BY <2>6, <2>7, <3>1, <3>2
      <3>4. QED
        BY <2>6, <3>3
    <2>9. TasksOf(c) = {}
      BY <1>1, <2>8 DEF OneRequest
    <2>10. Head(conn[c].up) = BodyOf(c)
      BY <1>1, <1>a, <1>b, <2>8 DEF OwnNumber
    <2>11. t.k = client[c].index /\ t.data = Expected(c, client[c].index) /\ t.owner = c
      BY <1>a, <2>5, <2>10 DEF BodyOf, NumbersSurvive
    <2>12. TasksOf(c)' = {t}
      BY <2>5, <2>9, <2>11 DEF TasksOf
    <2>13. OneRequest(c)'
      BY <2>1 DEF Protocol
    <2>14. Pending(c)' = 0
      BY <2>12, <2>13 DEF OneRequest
    <2>15. QED
      BY <2>1, <2>11, <2>12, <2>14 DEF OwnNumber
  <1>5. ASSUME ReadBody(c), conn[c].up = <<>>, ~CloseClient(c) PROVE FALSE
    <2>1. loop.pc = "body" /\ conn[c].fd = loop.fd /\ conn[c].reset
      BY <1>0, <1>5, ReadBodyEffect
    <2>2. InLoop(c)
      BY <2>1 DEF InLoop
    <2>3. Pending(c) = Len(conn[c].up) + 1 /\ Len(conn[c].up) \in Nat
      BY <1>0, <2>2, PendingLemma
    <2>4. Pending(c) = 0
      BY <1>1, <2>1 DEF OneRequest
    <2>5. QED
      BY <2>3, <2>4
  <1>6. QED
    BY <1>0, <1>2, <1>3, <1>4, <1>5, ReadLengthEffect

\* Every step preserves the numbers.
LEMMA NumberedStep ==
    ASSUME NumbersSurvive, ServerInv, Protocol, Numbered, [Next]_vars
    PROVE  Numbered'
  <1>0. TypeInv /\ TypeInv' /\ Descriptors /\ TasksPlaced /\ ServerInv' /\ Protocol'
    BY ServerInvStep, ProtocolStep DEF ServerInv
  <1> SUFFICES ASSUME alive', NEW d \in Clients, d \notin hit' PROVE OwnNumber(d)'
    BY DEF Numbered
  <1>a. alive /\ OneRequest(d)'
    BY <1>0, ServerStaysDown DEF Protocol
  <1>b. ASSUME d \notin hit PROVE OwnNumber(d) /\ OneRequest(d)
    BY <1>a, <1>b DEF Numbered, Protocol
  <1>c. ASSUME d \notin hit, client'[d].index = client[d].index, conn'[d].up = conn[d].up,
               conn'[d].fd = conn[d].fd, InLoop(d)' => InLoop(d), InLoop(d) => InLoop(d)',
               TasksOf(d)' \subseteq TasksOf(d)
        PROVE  OwnNumber(d)'
    <2>1. Pending(d)' = Pending(d)
      BY <1>0, <1>c, PendingLemma
    <2>2. QED
      BY <1>b, <1>c, <2>1, OwnNumberFrame
  <1>d. UNCHANGED <<queue, running>> => TasksOf(d)' = TasksOf(d)
    BY DEF TasksOf, Tasks, Pool!Queued, Pool!Range
  <1>e. ASSUME NEW c \in Clients, NEW p, NEW q, NEW piece, Write(c, p, q, piece)
        PROVE  /\ conn'[c].up = Append(conn[c].up, piece) /\ client[c].pc = p
               /\ client'[c].index = client[c].index /\ UNCHANGED <<queue, running, hit>>
    <2>1. TypeInv
      BY <1>0
    <2>2. \A e \in Clients : conn'[e].up = IF e = c /\ alive THEN Append(conn[e].up, piece)
                                          ELSE conn[e].up
      BY <1>e, <2>1, WriteEffect, ZenonT(30)
    <2>3. SameCount /\ client[c].pc = p /\ UNCHANGED <<queue, running, hit>>
      BY <1>e, <2>1, WriteEffect
    <2>4. QED
      BY <1>a, <2>2, <2>3 DEF SameCount
  <1>1. ASSUME NEW c \in Clients, InitClient(c) PROVE OwnNumber(d)'
    <2>1. /\ UNCHANGED <<conn, loop, queue, running, hit>>
          /\ \E p : client' = [client EXCEPT ![c].pc = p]
      BY <1>1 DEF InitClient, pool, history
    <2>2. client'[d].index = client[d].index
      BY <1>0, <2>1 DEF TypeInv, ClientType, ClientRecord
    <2>3. QED
      BY <1>c, <1>d, <2>1, <2>2 DEF InLoop
  <1>2. ASSUME NEW c \in Clients, WriteLength(c) PROVE OwnNumber(d)'
    <2>1. PICK piece : Write(c, "length", "body", piece)
      BY <1>2 DEF WriteLength
    <2>2. CASE d # c
      BY <1>0, <1>c, <1>d, <2>1, <2>2, WriteEffect DEF SameFd, SameCount, InLoop
    <2>3. CASE d = c
      <3>1. client'[d].pc = "body"
        BY <1>0, <1>a, <2>1, <2>3, WriteEffect
      <3>2. Pending(d)' = 1 /\ TasksOf(d)' = {}
        BY <1>a, <3>1 DEF OneRequest
      <3>3. QED
        BY <3>2 DEF OwnNumber
    <2>4. QED
      BY <2>2, <2>3
  <1>3. ASSUME NEW c \in Clients, WriteBody(c) PROVE OwnNumber(d)'
    <2>1. Write(c, "body", "answer", BodyOf(c))
      BY <1>3 DEF WriteBody, BodyOf
    <2>2. CASE d # c
      BY <1>0, <1>c, <1>d, <2>1, <2>2, WriteEffect DEF SameFd, SameCount, InLoop
    <2>3. CASE d = c
      <3>1. /\ conn'[d].up = Append(conn[d].up, BodyOf(d)) /\ client[d].pc = "body"
            /\ client'[d].index = client[d].index /\ UNCHANGED <<queue, running, hit>>
        BY <1>e, <2>1, <2>3
      <3>2. TasksOf(d)' = {}
        BY <1>b, <1>d, <3>1 DEF OneRequest
      <3>3. conn[d].up \in Seq(Piece) /\ BodyOf(d) \in Piece
        BY <1>0, PieceType DEF TypeInv, ConnRecord, ClientType, ClientRecord, BodyOf
      <3>4. \A q \in Seq(Piece), x \in Piece : Append(q, x)[Len(Append(q, x))] = x
        OBVIOUS
      <3>5. conn'[d].up[Len(conn'[d].up)] = BodyOf(d)'
        BY <3>1, <3>3, <3>4 DEF BodyOf
      <3>6. QED
        BY <3>2, <3>5 DEF OwnNumber
    <2>4. QED
      BY <2>2, <2>3
  <1>4. ASSUME NEW c \in Clients, RecvBuff(c) PROVE OwnNumber(d)'
    <2>1. CASE d # c
      BY <1>0, <1>4, <1>c, <1>d, <2>1, RecvEffect DEF SameFd, SameUp, InLoop
    <2>2. CASE d = c
      <3>1. client'[d].pc = "length"
        BY <1>0, <1>4, <2>2, RecvEffect
      <3>2. Pending(d)' = 0 /\ TasksOf(d)' = {}
        BY <1>a, <3>1 DEF OneRequest
      <3>3. QED
        BY <3>2 DEF OwnNumber
    <2>3. QED
      BY <2>1, <2>2
  <1>5. ASSUME NEW c \in Clients, Kill(c) PROVE OwnNumber(d)'
    BY <1>0, <1>5, <1>c, <1>d, KillEffect DEF SameFd, SameUp, SameCount, InLoop
  <1>6. ASSUME NEW c \in Clients, ReadLength(c) \/ ReadBody(c) PROVE OwnNumber(d)'
    <2>1. UNCHANGED <<client, hit>>
      BY <1>6 DEF ReadLength, ReadBody, CloseClient, history
    <2>2. CASE d = c
      BY <1>0, <1>6, <1>a, <2>1, <2>2, NumberedRead
    <2>3. CASE d # c
      <3>1. conn[c].fd # 0 /\ (loop.pc = "body" => loop.fd = conn[c].fd)
        BY <1>0, <1>6, ReadLengthEffect, ReadBodyEffect DEF Descriptors
      <3>2. /\ conn'[d].fd = conn[d].fd /\ conn'[d].up = conn[d].up
            /\ loop'.pc = "body" => loop'.fd = conn[c].fd
        BY <1>0, <1>6, <2>3, ReadLengthEffect, ReadBodyEffect, CloseEffect DEF SameFd, SameUp
      <3>3. ~InLoop(d) /\ ~InLoop(d)'
        BY <1>0, <2>3, <3>1, <3>2 DEF InLoop, Descriptors
      <3>4. TasksOf(d)' \subseteq TasksOf(d)
        <4>1. CASE ReadLength(c) \/ CloseClient(c)
          <5>1. UNCHANGED <<queue, running>>
            BY <1>0, <4>1, ReadLengthEffect, CloseEffect
          <5>2. QED
            BY <1>d, <5>1
        <4>2. ASSUME ReadBody(c), ~CloseClient(c) PROVE TasksOf(d)' \subseteq TasksOf(d)
          <5>1. ASSUME NEW k \in Nat, NEW data \in Data, AddTask(c, k, data)
                PROVE  TasksOf(d)' \subseteq TasksOf(d)
            <6>1. PICK t \in TaskRecord : t.owner = c /\ Tasks' = Tasks \cup {t}
              BY <1>0, <3>1, <5>1, AddTaskEffect
            <6>2. QED
              BY <2>3, <6>1 DEF TasksOf
          <5>2. CASE conn[c].up # <<>>
            <6>1. Head(conn[c].up) \in Piece
              BY <1>0, <5>2 DEF TypeInv, ConnRecord
            <6>2. Head(conn[c].up).k \in Nat /\ DataOf(Head(conn[c].up).bytes) \in Data
              BY <6>1 DEF Piece, Data
            <6>3. AddTask(c, Head(conn[c].up).k, DataOf(Head(conn[c].up).bytes))
              BY <1>0, <4>2, <5>2, ReadBodyEffect
            <6>4. QED
              BY <5>1, <6>2, <6>3
          <5>3. CASE conn[c].up = <<>>
            <6>1. client[c].index \in Nat /\ {0, Garbage} \subseteq Data
              BY <1>0 DEF TypeInv, ClientType, ClientRecord, Data
            <6>2. \E data \in {0, Garbage} : AddTask(c, client[c].index, data)
              BY <1>0, <4>2, <5>3, ReadBodyEffect
            <6>3. QED
              BY <5>1, <6>1, <6>2
          <5>4. QED
            BY <5>2, <5>3
        <4>3. QED
          BY <1>6, <4>1, <4>2
      <3>5. QED
        BY <1>c, <2>1, <3>2, <3>3, <3>4
    <2>4. QED
      BY <2>2, <2>3
  <1>7. CASE AcceptConn
    <2>1. /\ conn'[d].up = conn[d].up /\ UNCHANGED <<client, queue, running, hit>>
          /\ loop.pc = "events" /\ loop'.pc = "events"
      BY <1>0, <1>7, AcceptEffect DEF SameUp
    <2>2. Pending(d)' = Pending(d)
      BY <1>0, <2>1, PendingLemma DEF InLoop
    <2>3. QED
      BY <1>b, <1>d, <2>1, <2>2, OwnNumberFrame
  <1>8. CASE EpollWait
    <2>1. /\ UNCHANGED <<client, conn, queue, running, hit>>
          /\ loop' = [loop EXCEPT !.events = Ready]
      BY <1>8 DEF EpollWait, pool, history
    <2>2. loop'.pc = loop.pc /\ loop'.fd = loop.fd
      BY <1>0, <2>1 DEF TypeInv, LoopRecord
    <2>3. QED
      BY <1>c, <1>d, <2>1, <2>2 DEF InLoop
  <1>9. CASE DelCloseFD
    <2>1. TasksOf(d)' \subseteq TasksOf(d)
      BY <1>0, <1>9, DelCloseEffect DEF TasksOf
    <2>2. QED
      BY <1>0, <1>9, <1>c, <2>1, DelCloseEffect DEF InLoop
  <1>10. CASE StartTask \/ UNCHANGED vars
    <2>1. UNCHANGED <<client, conn, loop, hit>> /\ TasksOf(d)' = TasksOf(d)
      BY <1>0, <1>10, <1>d, StartEffect DEF TasksOf, vars, pool, history
    <2>2. QED
      BY <1>c, <2>1 DEF InLoop
  <1>11. ASSUME NEW t \in running, RunTask(t) PROVE OwnNumber(d)'
    <2>1. /\ UNCHANGED <<client, loop, queue>> /\ running' = running \ {t}
          /\ conn'[d].fd = conn[d].fd /\ conn'[d].up = conn[d].up /\ hit \subseteq hit'
      BY <1>0, <1>11, RunEffect DEF SameFd, SameUp
    <2>2. TasksOf(d)' \subseteq TasksOf(d)
      BY <2>1 DEF TasksOf, Tasks, Pool!Queued, Pool!Range
    <2>3. QED
      BY <1>c, <2>1, <2>2 DEF InLoop
  <1>12. QED
    BY <1>1, <1>2, <1>3, <1>4, <1>5, <1>6, <1>7, <1>8, <1>9, <1>10, <1>11
       DEF Next, ClientStep, LoopStep, PoolStep

\* A client that is not sent a stray answer reads its own numbers, in order and each once,
\* and zeros once the server is gone, if the encoding of its requests can be read back.
THEOREM AnswersStayInOrder ==
    ASSUME NumbersSurvive
    PROVE  Spec => []AnswersInOrder
  <1> DEFINE Inv == ServerInv /\ Protocol /\ Numbered /\ Counted /\ AnswersInOrder
  <1>1. Init => Inv
    BY ServerInvInit, ProtocolInit, NumbersInit
  <1>2. Inv /\ [Next]_vars => Inv'
    BY ServerInvStep, ProtocolStep, NumberedStep, CountedStep, AnswersStep DEF ServerInv
  <1>3. Inv => AnswersInOrder
    OBVIOUS
  <1>4. QED
    BY <1>1, <1>2, <1>3, PTL DEF Spec
=============================================================================
