----------------------------- MODULE EchoServer -----------------------------
(***************************************************************************)
(* The echo server and its clients (socket/epoll/server.cpp, client.cpp).  *)
(* One thread waits in epoll, accepts connections and reads requests with  *)
(* blocking reads; the threads of the pool (TaskService, which FdThreadPool *)
(* implements) write the answers.  A request is two pieces of the stream,  *)
(* the length and the encoded Client message; an answer is the raw image   *)
(* of a Server object.  A client asks for ever; it ends when it is killed  *)
(* or by SIGPIPE.  A piece arrives as it was written (loopback).           *)
(***************************************************************************)
EXTENDS Messages, FiniteSets, FiniteSetsExt

CONSTANTS Clients,
          Killable,      \* the clients that may be killed at any time
          Name,          \* per client, what cli_name holds: pb_buff is not terminated
          Workers,       \* threads of the pool
          MaxRequests    \* bound, per client: its requests

ASSUME EchoAssumption == /\ IsFiniteSet(Clients) /\ Killable \subseteq Clients
                         /\ Workers \in Nat /\ MaxRequests \in [Clients -> Nat]

VARIABLES client,    \* pc, index; got: the answers read so far
          conn,      \* per client: the server's descriptor (0 for none), both
                     \* streams, whether the client is gone, whether it was reset
          backlog,   \* connections that wait for accept
          loop,      \* the epoll thread: pc, the events left, the descriptor
          queue, running, finished, withdrawn,   \* the pool
          alive,     \* whether the server process exists
          hit,       \* history: the clients that were sent somebody else's answer
          orphans    \* history: the tasks that pool threads were working on when
                     \* delCloseFD withdrew the rest of their connection

pool == <<queue, running, finished, withdrawn>>
history == <<hit, orphans>>
vars == <<client, conn, backlog, loop, pool, alive, history>>

Garbage == -1       \* a value nobody sent
Task == [fd : 1 .. Cardinality(Clients), owner : Clients, k : Nat, data : Int]
Pool == INSTANCE TaskService WITH MaxRunning <- Workers

\* Descriptor 0 stands for the listening socket.
Listening == 0
Connected(f) == {c \in Clients : conn[c].fd = f}
LowestFree == CHOOSE f \in 1 .. Cardinality(Clients) :
                  Connected(f) = {} /\ \A g \in 1 .. f - 1 : Connected(g) # {}

Init ==
    /\ client = [c \in Clients |-> [pc |-> "init", index |-> 0, got |-> <<>>]]
    /\ conn = [c \in Clients |-> [fd |-> 0, up |-> <<>>, down |-> <<>>,
                                  gone |-> FALSE, reset |-> FALSE]]
    /\ backlog = <<>>
    /\ loop = [pc |-> "events", events |-> {}, fd |-> 0]
    /\ Pool!SInit
    /\ alive = TRUE
    /\ hit = {}
    /\ orphans = {}

-----------------------------------------------------------------------------
(* Clients. *)

\* InitClient; without a server the first write ends the client.
InitClient(c) ==
    /\ client[c].pc = "init"
    /\ client' = [client EXCEPT ![c].pc = IF alive THEN "length" ELSE "ended"]
    /\ backlog' = IF alive THEN Append(backlog, c) ELSE backlog
    /\ UNCHANGED <<conn, loop, pool, alive, history>>

\* A write that leads from pc to next; once the server is gone it is lost, or
\* SIGPIPE ends the client.
Write(c, pc, next, piece) ==
    /\ client[c].pc = pc
    /\ \/ /\ alive
          /\ conn' = [conn EXCEPT ![c].up = Append(@, piece)]
          /\ client' = [client EXCEPT ![c].pc = next]
       \/ /\ ~alive
          /\ client' \in {[client EXCEPT ![c].pc = p] : p \in {next, "ended"}}
          /\ UNCHANGED conn
    /\ UNCHANGED <<backlog, loop, pool, alive, history>>

\* The message with data = k, its length and its encoding.
Message(c, k) == Set(Set(Clear(Client), 1, Name[c]), 2, k)
Lengths == [c \in Clients |-> [k \in 0 .. MaxRequests[c] |-> ByteSizeLong(Client, Message(c, k))]]
Bodies == [c \in Clients |-> [k \in 0 .. MaxRequests[c] |-> Serialize(Client, Message(c, k))]]

WriteLength(c) ==
    /\ client[c].index < MaxRequests[c]
    /\ Write(c, "length", "body", [k |-> client[c].index, bytes |-> Lengths[c][client[c].index]])
WriteBody(c) ==
    Write(c, "body", "answer", [k |-> client[c].index, bytes |-> Bodies[c][client[c].index]])

\* The result of read is ignored: at the end of the stream server keeps its zeros.
NoAnswer == [server_id |-> 0, data |-> 0, owner |-> 0, k |-> 0]
RecvBuff(c) ==
    /\ client[c].pc = "answer"
    /\ \/ /\ conn[c].down # <<>>
          /\ client' = [client EXCEPT ![c].pc = "length", ![c].index = @ + 1,
                                      ![c].got = Append(@, Head(conn[c].down))]
          /\ conn' = [conn EXCEPT ![c].down = Tail(@)]
       \/ /\ conn[c].down = <<>> /\ ~alive
          /\ client' = [client EXCEPT ![c].pc = "length", ![c].index = @ + 1,
                                      ![c].got = Append(@, NoAnswer)]
          /\ UNCHANGED conn
    /\ UNCHANGED <<backlog, loop, pool, alive, history>>

\* The kernel closes the connection; unread answers turn the close into a reset.
Kill(c) ==
    /\ c \in Killable /\ client[c].pc \notin {"init", "ended"}
    /\ client' = [client EXCEPT ![c].pc = "ended"]
    /\ conn' = [conn EXCEPT ![c].gone = TRUE, ![c].reset = @ \/ conn[c].down # <<>>]
    /\ UNCHANGED <<backlog, loop, pool, alive, history>>

-----------------------------------------------------------------------------
(* The epoll thread. *)

Ready == {conn[c].fd : c \in {d \in Clients : conn[d].fd # 0 /\ (conn[d].up # <<>> \/ conn[d].gone)}}
         \cup (IF backlog # <<>> THEN {Listening} ELSE {})

\* Level-triggered: all that is ready is reported each time.
EpollWait ==
    /\ alive /\ loop.pc = "events" /\ loop.events = {} /\ Ready # {}
    /\ loop' = [loop EXCEPT !.events = Ready]
    /\ UNCHANGED <<client, conn, backlog, pool, alive, history>>

AcceptConn ==
    /\ alive /\ loop.pc = "events" /\ Listening \in loop.events
    /\ conn' = [conn EXCEPT ![Head(backlog)].fd = LowestFree]
    /\ backlog' = Tail(backlog)
    /\ loop' = [loop EXCEPT !.events = @ \ {Listening}]
    /\ UNCHANGED <<client, pool, alive, history>>

\* str_len is 0: the connection leaves epoll and is closed, its tasks go next.
CloseClient(c) ==
    /\ conn' = [conn EXCEPT ![c].fd = 0]
    /\ loop' = [loop EXCEPT !.pc = "delCloseFD", !.fd = conn[c].fd, !.events = @ \ {conn[c].fd}]
    /\ UNCHANGED <<client, backlog, pool, alive, history>>

\* Mutant: the end of the stream is not noticed.
ReadLengthOnly(c) ==
    /\ alive /\ loop.pc = "events" /\ conn[c].fd \in loop.events \ {Listening}
    /\ conn' = [conn EXCEPT ![c].up = IF @ = <<>> THEN @ ELSE Tail(@)]
    /\ loop' = [loop EXCEPT !.pc = IF conn[c].up = <<>> THEN "events" ELSE "body",
                            !.fd = conn[c].fd, !.events = @ \ {conn[c].fd}]
    /\ UNCHANGED <<client, backlog, pool, alive, history>>

\* The first read of RecvBuff.  Without a length data_len stays 0, and the second
\* read, of no bytes, returns 0 at once.
ReadLength(c) ==
    /\ alive /\ loop.pc = "events" /\ conn[c].fd \in loop.events \ {Listening}
    /\ \/ /\ conn[c].up # <<>>
          /\ conn' = [conn EXCEPT ![c].up = Tail(@)]
          /\ loop' = [loop EXCEPT !.pc = "body", !.fd = conn[c].fd, !.events = @ \ {conn[c].fd}]
          /\ UNCHANGED <<client, backlog, pool, alive, history>>
       \/ conn[c].up = <<>> /\ CloseClient(c)

\* The verdict of ParseFromArray is ignored.
DataOf(body) == ParseFromArray(Client, body).msg.field[2]

AddTask(c, k, data) ==
    /\ Pool!Accept([fd |-> conn[c].fd, owner |-> c, k |-> k, data |-> data])
    /\ loop' = [loop EXCEPT !.pc = "events"]

\* Mutant: the loop waits for the body of a client that is gone.
ReadBodyOnly(c) ==
    /\ alive /\ loop.pc = "body" /\ conn[c].fd = loop.fd
    /\ conn[c].up # <<>>
    /\ AddTask(c, Head(conn[c].up).k, DataOf(Head(conn[c].up).bytes))
    /\ conn' = [conn EXCEPT ![c].up = Tail(@)]
    /\ UNCHANGED <<client, backlog, alive, history>>

\* The second read blocks the loop until there is a body or the client is gone.
\* After a reset it fails; -1 counts as data, and ParseFromArray gets it for a length:
\* what is parsed is undefined, or reading it ends the server.
ReadBody(c) ==
    /\ alive /\ loop.pc = "body" /\ conn[c].fd = loop.fd
    /\ \/ /\ conn[c].up # <<>>
          /\ AddTask(c, Head(conn[c].up).k, DataOf(Head(conn[c].up).bytes))
          /\ conn' = [conn EXCEPT ![c].up = Tail(@)]
          /\ UNCHANGED <<client, backlog, alive, history>>
       \/ /\ conn[c].up = <<>> /\ conn[c].gone /\ ~conn[c].reset
          /\ CloseClient(c)
       \/ /\ conn[c].up = <<>> /\ conn[c].gone /\ conn[c].reset
          /\ \/ /\ \E data \in {0, Garbage} : AddTask(c, client[c].index, data)
                /\ UNCHANGED alive
             \/ alive' = FALSE /\ UNCHANGED <<loop, pool>>
          /\ UNCHANGED <<client, conn, backlog, history>>

\* Mutant: the tasks of a closed descriptor stay in the queue.
KeepTasks ==
    /\ alive /\ loop.pc = "delCloseFD"
    /\ Pool!Withdraw({})
    /\ loop' = [loop EXCEPT !.pc = "events"]
    /\ orphans' = orphans \cup {t \in running : t.fd = loop.fd}
    /\ UNCHANGED <<client, conn, backlog, alive, hit>>

DelCloseFD ==
    /\ alive /\ loop.pc = "delCloseFD"
    /\ Pool!Withdraw({t \in Pool!Queued : t.fd = loop.fd})
    /\ loop' = [loop EXCEPT !.pc = "events"]
    /\ orphans' = orphans \cup {t \in running : t.fd = loop.fd}
    /\ UNCHANGED <<client, conn, backlog, alive, hit>>

-----------------------------------------------------------------------------
(* The threads of the pool. *)

StartTask == alive /\ Pool!Start /\ UNCHANGED <<client, conn, backlog, loop, alive, history>>

Answer(t) == [server_id |-> t.fd, data |-> t.data, owner |-> t.owner, k |-> t.k]

\* Mutant: the answer is written in two parts.
SendTwice(t) ==
    LET peers == Connected(t.fd)
    IN /\ conn' = [c \in Clients |->
                      IF c \notin peers THEN conn[c]
                      ELSE IF conn[c].gone THEN [conn[c] EXCEPT !.reset = TRUE]
                      ELSE [conn[c] EXCEPT !.down = Append(@, Answer(t))]]
       /\ alive' = ~\E c \in peers : conn[c].gone

\* Mutant: a write that was complete is taken for a partial one and done again.
SendRepeated(t) ==
    LET peers == Connected(t.fd)
    IN /\ conn' = [c \in Clients |->
                      IF c \notin peers THEN conn[c]
                      ELSE IF conn[c].gone THEN [conn[c] EXCEPT !.reset = TRUE]
                      ELSE [conn[c] EXCEPT !.down = @ \o <<Answer(t), Answer(t)>>]]
       /\ alive' = ~\E c \in peers : conn[c].reset /\ conn[c].gone

\* write goes to whoever has the descriptor now.  The first write to a client that
\* is gone provokes a reset, a write after that raises SIGPIPE.
SendBuff(t) ==
    LET peers == Connected(t.fd)
    IN /\ conn' = [c \in Clients |->
                      IF c \notin peers THEN conn[c]
                      ELSE IF conn[c].gone THEN [conn[c] EXCEPT !.reset = TRUE]
                      ELSE [conn[c] EXCEPT !.down = Append(@, Answer(t))]]
       /\ alive' = ~\E c \in peers : conn[c].reset /\ conn[c].gone

RunTask(t) ==
    /\ alive
    /\ Pool!Finish(t)
    /\ SendBuff(t)
    /\ hit' = hit \cup (Connected(t.fd) \ {t.owner})
    /\ UNCHANGED <<client, backlog, loop, orphans>>

-----------------------------------------------------------------------------
ClientStep(c) == WriteLength(c) \/ WriteBody(c) \/ RecvBuff(c)
LoopStep == EpollWait \/ AcceptConn \/ DelCloseFD \/ \E c \in Clients : ReadLength(c) \/ ReadBody(c)
PoolStep == StartTask \/ \E t \in running : RunTask(t)

Next ==
    \/ \E c \in Clients : InitClient(c) \/ ClientStep(c) \/ Kill(c)
    \/ LoopStep
    \/ PoolStep

\* Every client, the epoll thread and the pool go on as long as they can; nobody has
\* to start or to kill a client.  There are finitely many tasks, so that the pool as
\* a whole is asked for no more than its threads one by one.
Fairness ==
    /\ \A c \in Clients : WF_vars(ClientStep(c))
    /\ WF_vars(LoopStep) /\ WF_vars(PoolStep)

Spec == Init /\ [][Next]_vars /\ Fairness

-----------------------------------------------------------------------------
(* Properties. *)

Answers(c) == client[c].got \o conn[c].down

TypeOK ==
    /\ \A c \in Clients : /\ client[c].pc \in {"init", "length", "body", "answer", "ended"}
                          /\ client[c].index \in 0 .. MaxRequests[c]
                          /\ conn[c].fd \in 0 .. Cardinality(Clients)
    /\ loop.pc \in {"events", "body", "delCloseFD"}
    /\ loop.events \subseteq 0 .. Cardinality(Clients)
    /\ Cardinality(running) <= Workers

\* A task in the queue will write to the client it was made for, except between
\* close and delCloseFD: no later client inherits queued answers with a descriptor.
QueuedTasksHaveConnection ==
    /\ TypeOK
    /\ \A t \in Pool!Queued : \/ conn[t.owner].fd = t.fd
                              \/ loop.pc = "delCloseFD" /\ loop.fd = t.fd

(* The number in a request survives the way over the wire, except that it is 0 when
   the name of the client makes the parser give up. *)
Expected(c, k) == IF Utf8(Name[c]) THEN k ELSE 0
NumbersSurvive == \A c \in Clients : \A k \in 0 .. MaxRequests[c] :
                      DataOf(Bodies[c][k]) = Expected(c, k)

\* Unless it was sent somebody else's answer, which then had belonged to a client
\* that is gone, a client reads the numbers it sent, in order and each once (zeros,
\* if its name is not valid text), and zeros once the server is gone.
AnswersInOrder ==
    \A c \in Clients \ hit : \A i \in DOMAIN Answers(c) :
        LET a == Answers(c)[i]
        IN \/ a = NoAnswer /\ ~alive
           \/ /\ a.owner = c /\ a.k = i - 1
              /\ a.data = IF Utf8(Name[c]) THEN i - 1 ELSE 0

\* Somebody else's answer comes from a task that a pool thread was already working on
\* when delCloseFD emptied the queue of its own connection: one that was running when
\* the connection was closed (server.cpp:167), or was started between the close and
\* delCloseFD (168), and never one that delCloseFD should have withdrawn.  And only
\* where a client was sent such an answer can SIGPIPE or the length -1 (173) end the
\* server: killing clients alone, at whatever point of a request, does not.
OnlyStraysEndServer ==
    /\ \A c \in Clients : \A a \in Range(Answers(c)) :
           a # NoAnswer /\ a.owner # c => \E t \in orphans : a = Answer(t)
    /\ ~alive => hit # {}

\* Nobody is left waiting: once the requests have been made, every client that is
\* not killed has read an answer to each of them, or the end of the stream.
EveryRequestAnswered == <>[](\A c \in Clients : client[c].pc # "answer")

\* Nothing is left over from a client that is gone, wherever in a request it was
\* killed: not its descriptor, not a place in the backlog, not a task.
ConnectionReleased ==
    <>[](alive => \A c \in Clients : conn[c].gone =>
             /\ conn[c].fd = 0 /\ c \notin Range(backlog)
             /\ \A t \in Pool!Queued \cup running : t.owner # c)

=============================================================================
