------------------------------ MODULE SyncFile ------------------------------
(***************************************************************************)
(* The file server of tools/sync_file and its clients: ServerImpl with its *)
(* epoll loop, the thread pool whose tasks run SyncSendFile, and client    *)
(* processes that run SyncRecvFile once per command-line argument.         *)
(*                                                                         *)
(* The thread pool appears as the abstract TaskService, which the pool     *)
(* modules implement.  A task is the lambda of server.cpp:85; it holds its *)
(* descriptor by value, and cmd and len BY REFERENCE, so that these are    *)
(* the loop's variables, shared with every task.                           *)
(*                                                                         *)
(* Bytes on a connection are grouped into the pieces one send call hands   *)
(* over and one RecvSocket loop collects: a length, then a body.  Socket   *)
(* buffers do not fill up, and names fit into the 256 bytes of cmd.        *)
(* epoll is modelled from how the code uses it: a list of descriptors that *)
(* became readable (edge-triggered for clients), each looked at again when *)
(* epoll_wait reports it.                                                  *)
(***************************************************************************)
EXTENDS Integers, Sequences, FiniteSets, Functions, FiniteSetsExt, Filtering

CONSTANTS
    Client,       \* client processes
    Killable,     \* the clients that may be killed
    File,         \* the names of the files that exist
    Argv,         \* the file names each client asks for
    Size,         \* the size of each file
    NameLen,      \* the length of each name
    NoFile,       \* a name that no file has; also the empty name
    NoClient,     \* a descriptor that is not open
    Split,        \* file_split_len
    Threads       \* pool_size

ASSUME SyncAssumption ==
    /\ IsFiniteSet(Client) /\ Killable \subseteq Client
    /\ Argv \in [Client -> Seq(File)]
    /\ Size \in [File -> Nat]
    /\ NameLen \in [File -> Nat \ {0}]
    /\ NoFile \notin File /\ NoClient \notin Client
    /\ Split \in Nat \ {0} /\ Threads \in Nat \ {0}

Fd == 1 .. Cardinality(Client)
serv_sock == 0
Task == Nat \ {0}          \* tasks are numbered as they are submitted
InfoLen == 2                \* sizeof(file_infos)

Content(f) == IF f = NoFile THEN <<>> ELSE [i \in 1 .. Size[f] |-> <<f, i>>]
Zeros(n) == [i \in 1 .. n |-> <<NoFile, 0>>]

VARIABLES
    client,          \* each client process: where it is, its argument, the length
                     \* received, the groups left, the copy being written, the
                     \* copies it has finished
    overlapped,      \* history: the clients that met another one
    up, down,        \* bytes on their way to and from the server
    backlog,         \* connections that wait for accept
    conn,            \* whose connection each server descriptor is
    ready,           \* the ready list of epfd
    loop,            \* ExecEpoll: where it is, socket_fd, what RecvBuff returned,
                     \* and cmd and len, to which the lambdas refer
    queue, running, finished, withdrawn,   \* the pool
    task,            \* SyncSendFile of each task submitted so far: the descriptor it
                     \* captured, where it is, its file, its position, the groups left
    alive            \* the server process has not been killed

netvars == <<up, down, backlog, conn, ready>>
pvars == <<queue, running, finished, withdrawn>>
vars == <<client, overlapped, netvars, loop, pvars, task, alive>>

Pool == INSTANCE TaskService WITH MaxRunning <- Threads

\* A task that is not executing, with the descriptor it was made for, or 0 when it is over.
Frame(fd) == [fd |-> fd, pc |-> "open", file |-> NoFile, pos |-> 0, left |-> 0]

Init ==
    /\ client = [c \in Client |-> [pc |-> "new", arg |-> 1, len |-> 0, left |-> 0,
                                   copy |-> <<>>, got |-> <<>>]]
    /\ overlapped = {}
    /\ up = [c \in Client |-> <<>>]
    /\ down = [c \in Client |-> <<>>]
    /\ backlog = <<>>
    /\ conn = [fd \in Fd |-> NoClient]
    /\ ready = <<>>
    /\ loop = [pc |-> "wait", fd |-> 0, recv |-> 0, cmd |-> NoFile, len |-> 0]
    /\ Pool!SInit
    /\ task = <<>>
    /\ alive = TRUE

\* What one send call puts on a connection.
Length(n) == [kind |-> "len", data |-> n]
Name(f)   == [kind |-> "name", data |-> f]
Info(n)   == [kind |-> "info", data |-> n]
Chunk(b)  == [kind |-> "chunk", data |-> b]

-----------------------------------------------------------------------------
(* Processes and the ready list. *)

Ended == {"gone", "killed"}

\* The client processes that exist, and the ones that were killed.
Clients == {c \in Client : client[c].pc \notin {"new"} \cup Ended}
Killed == {c \in Client : client[c].pc = "killed"}

Mark(list, fd) == IF fd \in Range(list) THEN list ELSE Append(list, fd)

\* The server's descriptor of client c becomes readable.
Notify(c) ==
    ready' = IF c \in Range(conn)
             THEN Mark(ready, CHOOSE fd \in Fd : conn[fd] = c) ELSE ready

Readable(c) == up[c] # <<>> \/ client[c].pc \in Ended

-----------------------------------------------------------------------------
(* The client: InitClient, SyncRecvFile for every argument, the destructor. *)

AtClient(c, l) == client[c].pc = l

\* Nothing of another client is left anywhere: none exists, and a killed one has no
\* request or task under way.
Alone ==
    /\ Clients = {}
    /\ Killed # {} => ready = <<>> /\ loop.pc = "wait" /\ queue = <<>> /\ running = {}

\* client.cpp:18-39: the kernel completes the connection before accept does.
InitClient(c) ==
    /\ AtClient(c, "new") /\ alive
    /\ overlapped' = IF Alone THEN overlapped ELSE overlapped \cup Clients \cup {c}
    /\ client' = [client EXCEPT ![c].pc = "name"]
    /\ backlog' = Append(backlog, c)
    /\ ready' = Mark(ready, serv_sock)
    /\ UNCHANGED <<up, down, conn, loop, pvars, task, alive>>

\* sync_file.cpp:95-102: an empty copy is opened, and SendBuff sends the length...
RequestLength(c) ==
    /\ AtClient(c, "name") /\ client[c].arg <= Len(Argv[c])
    /\ client' = [client EXCEPT ![c].pc = "namebody"]
    /\ up' = [up EXCEPT ![c] = Append(@, Length(NameLen[Argv[c][client[c].arg]]))]
    /\ Notify(c)
    /\ UNCHANGED <<down, backlog, conn>>

\* ... and then the name.
RequestName(c) ==
    /\ AtClient(c, "namebody")
    /\ client' = [client EXCEPT ![c].pc = "infolen"]
    /\ up' = [up EXCEPT ![c] = Append(@, Name(Argv[c][client[c].arg]))]
    /\ Notify(c)
    /\ UNCHANGED <<down, backlog, conn>>

\* Mutant: integer division.
RecvGroupsFloor(n) == n \div Split

\* sync_file.cpp:110: ceil(file_len / file_split_len).
RecvGroups(n) == (n + Split - 1) \div Split

\* RecvSocket collects one piece.
Recv(c) ==
    /\ down' = [down EXCEPT ![c] = Tail(@)]
    /\ UNCHANGED <<up, backlog, conn, ready>>

Waits(c, kind) ==
    CASE kind = "len"   -> AtClient(c, "infolen") \/ (AtClient(c, "chunk") /\ client[c].left > 0)
      [] kind = "info"  -> AtClient(c, "info")
      [] kind = "chunk" -> AtClient(c, "chunkbody")
      [] OTHER          -> FALSE

\* The piece is what the client counts on, and as long as the length before it said.
Fits(c, m) ==
    /\ Waits(c, m.kind)
    /\ m.kind = "info" => client[c].len = InfoLen
    /\ m.kind = "chunk" => client[c].len = Len(m.data)

Arrives(c, kind) == down[c] # <<>> /\ Head(down[c]).kind = kind /\ Fits(c, Head(down[c]))

\* The first half of RecvBuff: the length.
RecvLength(c) ==
    /\ Arrives(c, "len")
    /\ client' = [client EXCEPT ![c].pc = IF @ = "infolen" THEN "info" ELSE "chunkbody",
                                ![c].len = Head(down[c]).data]
    /\ Recv(c)

\* sync_file.cpp:104-110.
RecvInfo(c) ==
    /\ Arrives(c, "info")
    /\ client' = [client EXCEPT ![c].pc = "chunk", ![c].len = 0,
                                ![c].left = RecvGroups(Head(down[c]).data)]
    /\ Recv(c)

\* sync_file.cpp:117-125: the body of a group is appended to the copy.
RecvChunk(c) ==
    /\ Arrives(c, "chunk")
    /\ client' = [client EXCEPT ![c].pc = "chunk", ![c].len = 0, ![c].left = @ - 1,
                                ![c].copy = @ \o Head(down[c]).data]
    /\ Recv(c)

\* Any other piece leaves the client with lengths and contents of another message:
\* it is lost.
RecvUnexpected(c) ==
    /\ down[c] # <<>> /\ ~Fits(c, Head(down[c]))
    /\ \E kind \in {"len", "info", "chunk"} : Waits(c, kind)
    /\ client' = [client EXCEPT ![c].pc = "lost"]
    /\ UNCHANGED netvars

\* The server is gone: RecvSocket returns -1, which RecvBuff does not look at.
\* file_infos stays {0, 0}, and the number of groups is what becomes of 0 / 0.
RecvInfoEof(c) ==
    /\ down[c] = <<>> /\ ~alive
    /\ client[c].pc \in {"infolen", "info"}
    /\ client' = [client EXCEPT ![c].pc = "lost"]
    /\ UNCHANGED netvars

\* An unread length is 0, and an unread body leaves the zeroed buffer, of which len
\* bytes are written.
RecvChunkEof(c) ==
    /\ down[c] = <<>> /\ ~alive
    /\ client[c].left > 0
    /\ \/ AtClient(c, "chunk") /\ client' = [client EXCEPT ![c].left = @ - 1]
       \/ /\ AtClient(c, "chunkbody")
          /\ client' = [client EXCEPT ![c].pc = "chunk", ![c].len = 0, ![c].left = @ - 1,
                                      ![c].copy = @ \o Zeros(client[c].len)]
    /\ UNCHANGED netvars

\* The while loop of line 117 ends, the SyncFileTool object is destroyed with the
\* stream of the copy, and main goes on with the next argument.
FileDone(c) ==
    /\ AtClient(c, "chunk") /\ client[c].left = 0
    /\ client' = [client EXCEPT ![c].pc = "name", ![c].arg = @ + 1, ![c].copy = <<>>,
                                ![c].got = Append(@, client[c].copy)]
    /\ UNCHANGED netvars

\* The process and its variables are gone; what was sent to it is dropped.
Leave(c, how) ==
    /\ client' = [client EXCEPT ![c].pc = how, ![c].arg = 1, ![c].len = 0, ![c].left = 0,
                                ![c].copy = <<>>]
    /\ down' = [down EXCEPT ![c] = <<>>]
    /\ Notify(c)
    /\ UNCHANGED <<up, backlog, conn>>

\* client/main.cpp:26 and the destructor of ClientImpl.
Exit(c) ==
    /\ AtClient(c, "name") /\ client[c].arg > Len(Argv[c])
    /\ Leave(c, "gone")

\* A request to a server that is gone: the second send raises SIGPIPE, if not the
\* first.
ExitBySignal(c) ==
    /\ ~alive
    /\ AtClient(c, "namebody") \/ (AtClient(c, "name") /\ client[c].arg <= Len(Argv[c]))
    /\ Leave(c, "killed")

Kill(c) ==
    /\ c \in Killable \cap Clients
    /\ Leave(c, "killed")
    /\ UNCHANGED <<overlapped, loop, pvars, task, alive>>

-----------------------------------------------------------------------------
(* ExecEpoll, server.cpp:51-99. *)

AtLoop(l) == alive /\ loop.pc = l

\* Lines 64-73: accept returns the lowest descriptor that is not open, and adding
\* it to epfd puts it on the ready list if it is readable already.
AcceptClient ==
    /\ AtLoop("wait")
    /\ ready # <<>> /\ Head(ready) = serv_sock
    /\ LET fd == Min({d \in Fd : conn[d] = NoClient})
           rest == Tail(ready)
           listen == IF Len(backlog) = 1 THEN rest ELSE Append(rest, serv_sock)
       IN /\ conn' = [conn EXCEPT ![fd] = Head(backlog)]
          /\ ready' = IF Readable(Head(backlog)) THEN Append(listen, fd) ELSE listen
    /\ backlog' = Tail(backlog)
    /\ UNCHANGED <<up, down, loop, pvars, task>>

\* epoll_wait does not report a descriptor that has nothing to read any more.
SkipReady ==
    /\ AtLoop("wait")
    /\ ready # <<>> /\ Head(ready) # serv_sock
    /\ ~Readable(conn[Head(ready)])
    /\ ready' = Tail(ready)
    /\ UNCHANGED <<up, down, backlog, conn, loop, pvars, task>>

\* Lines 74-81: a client is reported, and cmd is cleared for its request.
ClientEvent ==
    /\ AtLoop("wait")
    /\ ready # <<>> /\ Head(ready) # serv_sock
    /\ Readable(conn[Head(ready)])
    /\ loop' = [loop EXCEPT !.pc = "len", !.fd = Head(ready), !.cmd = NoFile]
    /\ ready' = Tail(ready)
    /\ UNCHANGED <<up, down, backlog, conn, pvars, task>>

\* Mutant: recv returning 0 is taken for a reason to try again.
RecvBuffLengthNoEof ==
    /\ AtLoop("len")
    /\ LET c == conn[loop.fd] IN
          /\ up[c] # <<>>
          /\ loop' = [loop EXCEPT !.pc = "body", !.recv = Head(up[c]).data]
          /\ up' = [up EXCEPT ![c] = Tail(@)]
    /\ UNCHANGED <<down, backlog, conn, ready, pvars, task>>

\* epoll_socket.cpp:59-64: the length, or 0 at the end of the stream.
RecvBuffLength ==
    /\ AtLoop("len")
    /\ LET c == conn[loop.fd] IN
          \/ /\ up[c] # <<>>
             /\ loop' = [loop EXCEPT !.pc = "body", !.recv = Head(up[c]).data]
             /\ up' = [up EXCEPT ![c] = Tail(@)]
          \/ /\ up[c] = <<>> /\ client[c].pc \in Ended
             /\ loop' = [loop EXCEPT !.pc = "body", !.recv = 0]
             /\ UNCHANGED up
    /\ UNCHANGED <<down, backlog, conn, ready, pvars, task>>

\* epoll_socket.cpp:65-67: the name.  Nothing is read for length 0, and the end
\* of the stream leaves cmd empty; the result is the length either way.
RecvBuffBody ==
    /\ AtLoop("body")
    /\ LET c == conn[loop.fd] IN
          \/ /\ loop.recv > 0 /\ up[c] # <<>>
             /\ loop' = [loop EXCEPT !.pc = "dispatch", !.cmd = Head(up[c]).data]
             /\ up' = [up EXCEPT ![c] = Tail(@)]
          \/ /\ loop.recv = 0 \/ (up[c] = <<>> /\ client[c].pc \in Ended)
             /\ loop' = [loop EXCEPT !.pc = "dispatch"]
             /\ UNCHANGED up
    /\ UNCHANGED <<down, backlog, conn, ready, pvars, task>>

\* Lines 82-88: len is assigned after the name is in cmd; a task that reads both
\* in between finds the new name and the old length.
SubmitTask ==
    /\ AtLoop("dispatch") /\ loop.recv > 0
    /\ Pool!Accept(Len(task) + 1)
    /\ task' = Append(task, Frame(loop.fd))
    /\ loop' = [loop EXCEPT !.pc = "wait", !.fd = 0, !.recv = 0, !.len = loop.recv]
    /\ UNCHANGED netvars

\* Lines 82 and 89-91.
CloseClient ==
    /\ AtLoop("dispatch") /\ loop.recv = 0
    /\ conn' = [conn EXCEPT ![loop.fd] = NoClient]
    /\ ready' = Keep(ready, Range(ready) \ {loop.fd})
    /\ loop' = [loop EXCEPT !.pc = "delete", !.len = 0]
    /\ UNCHANGED <<up, down, backlog, pvars, task>>

\* Mutant: the queued tasks of the descriptor stay.
DelCloseFDMissing ==
    /\ AtLoop("delete")
    /\ loop' = [loop EXCEPT !.pc = "wait"]
    /\ UNCHANGED <<netvars, pvars, task>>

\* Line 92, after the descriptor was closed: threadpool.h:90-101.
DelCloseFD ==
    /\ AtLoop("delete")
    /\ Pool!Withdraw({t \in Pool!Queued : task[t].fd = loop.fd})
    /\ loop' = [loop EXCEPT !.pc = "wait", !.fd = 0]
    /\ UNCHANGED <<netvars, task>>

-----------------------------------------------------------------------------
(* A task: SyncSendFile, sync_file.cpp:60-91. *)

\* threadpool.h:107-123: a worker takes the oldest task.
StartTask ==
    /\ alive
    /\ Pool!Start
    /\ UNCHANGED <<client, overlapped, netvars, loop, task, alive>>

AtTask(t, l) == alive /\ t \in running /\ task[t].pc = l

\* A send to whatever the task's descriptor is now: nobody's (the error is
\* ignored), a client's, or that of a client that is gone, where the bytes are
\* dropped or SIGPIPE ends the server.
Send(t, m) ==
    /\ LET c == conn[task[t].fd] IN
       \/ /\ c = NoClient
          /\ UNCHANGED <<down, alive>>
       \/ /\ c \in Clients
          /\ down' = [down EXCEPT ![c] = Append(@, m)]
          /\ UNCHANGED alive
       \/ /\ c # NoClient /\ c \notin Clients
          /\ alive' \in BOOLEAN
          /\ UNCHANGED down
    /\ UNCHANGED <<up, backlog, conn, ready, pvars>>

\* Line 72.
SendGroups(n) == (n + Split - 1) \div Split

\* The name InitRead copies out of the loop's variables: len bytes of cmd.  A
\* name cut short is no file's name.
CapturedName == IF loop.cmd # NoFile /\ loop.len >= NameLen[loop.cmd] THEN loop.cmd ELSE NoFile

\* Lines 24-30 and 62-72: a file that cannot be opened has length 0.
OpenFile(t) ==
    /\ AtTask(t, "open")
    /\ task' = [task EXCEPT ![t].pc = "infolen", ![t].file = CapturedName,
                            ![t].left = SendGroups(Len(Content(CapturedName)))]
    /\ UNCHANGED <<netvars, pvars, alive>>

\* Line 69 and SendBuff.
SendInfoLength(t) ==
    /\ AtTask(t, "infolen")
    /\ Send(t, Length(InfoLen))
    /\ task' = [task EXCEPT ![t].pc = "info"]

SendInfo(t) ==
    /\ AtTask(t, "info")
    /\ Send(t, Info(Len(Content(task[t].file))))
    /\ task' = [task EXCEPT ![t].pc = "chunk"]

\* What read finds at position pos of a file: Split bytes, or what is left.
Group(f, pos) == SubSeq(Content(f), pos + 1, Min({pos + Split, Len(Content(f))}))

\* Mutant: every read starts at the beginning (line 41 without its comment mark).
ReadFileFromStart(t) ==
    LET b == Group(task[t].file, 0) IN [bytes |-> b, len |-> Len(b)]

\* Lines 38-49: at most Split bytes, and how many were read.
ReadFile(t) ==
    LET b == Group(task[t].file, task[t].pos) IN [bytes |-> b, len |-> Len(b)]

\* Lines 79-82: the next group, its length first.
SendChunkLength(t) ==
    /\ AtTask(t, "chunk") /\ task[t].left > 0
    /\ Send(t, Length(ReadFile(t).len))
    /\ task' = [task EXCEPT ![t].pc = "chunkbody"]

\* Lines 82-87.
SendChunk(t) ==
    /\ AtTask(t, "chunkbody")
    /\ Send(t, Chunk(ReadFile(t).bytes))
    /\ task' = [task EXCEPT ![t].pc = "chunk", ![t].pos = @ + ReadFile(t).len,
                            ![t].left = @ - 1]

\* Lines 88-91.
EndTask(t) ==
    /\ AtTask(t, "chunk") /\ task[t].left = 0
    /\ Pool!Finish(t)
    /\ task' = [task EXCEPT ![t] = Frame(0)]
    /\ UNCHANGED <<netvars, alive>>

-----------------------------------------------------------------------------
ClientStep(c) ==
    /\ \/ RequestLength(c) \/ RequestName(c)
       \/ RecvLength(c) \/ RecvInfo(c) \/ RecvChunk(c)
       \/ RecvUnexpected(c) \/ RecvInfoEof(c) \/ RecvChunkEof(c)
       \/ FileDone(c) \/ Exit(c) \/ ExitBySignal(c)
    /\ UNCHANGED <<overlapped, loop, pvars, task, alive>>

LoopStep ==
    /\ \/ AcceptClient \/ SkipReady \/ ClientEvent \/ RecvBuffLength \/ RecvBuffBody
       \/ SubmitTask \/ CloseClient \/ DelCloseFD
    /\ UNCHANGED <<client, overlapped, alive>>

TaskStep(t) ==
    /\ \/ OpenFile(t) \/ SendInfoLength(t) \/ SendInfo(t)
       \/ SendChunkLength(t) \/ SendChunk(t) \/ EndTask(t)
    /\ UNCHANGED <<client, overlapped, loop>>

\* What a process or thread that exists does by itself.
Step ==
    \/ \E c \in Client : ClientStep(c)
    \/ LoopStep
    \/ StartTask
    \/ \E t \in running : TaskStep(t)

Next ==
    \/ Step
    \/ \E c \in Client : InitClient(c) \/ Kill(c)

Spec == Init /\ [][Next]_vars

(* The machine does not stop while a process or thread can run, the pool's workers
   included (FdThreadPool!FdAcceptedTaskRuns).  As every step uses up a part of some
   request, none can be put off for ever by the others, and fairness for each thread
   on its own would say the same.  Nobody is obliged to start or to kill a client. *)
FairSpec == Spec /\ WF_vars(Step)

-----------------------------------------------------------------------------
(* Properties. *)

TypeOK ==
    /\ client \in [Client -> [pc : {"new", "name", "namebody", "infolen", "info", "chunk",
                                    "chunkbody", "lost"} \cup Ended,
                              arg : Nat, len : Nat, left : Nat,
                              copy : Seq((File \cup {NoFile}) \X Nat),
                              got : Seq(Seq((File \cup {NoFile}) \X Nat))]]
    /\ overlapped \subseteq Client
    /\ conn \in [Fd -> Client \cup {NoClient}]
    /\ \A a, b \in Fd : conn[a] = conn[b] /\ conn[a] # NoClient => a = b
    /\ Range(backlog) \subseteq Client /\ Range(ready) \subseteq Fd \cup {serv_sock}
    /\ loop \in [pc : {"wait", "len", "body", "dispatch", "delete"}, fd : Fd \cup {0},
                 recv : Nat, cmd : File \cup {NoFile}, len : Nat]
    /\ Pool!Queued \cup running \cup finished \cup withdrawn \subseteq DOMAIN task
    /\ task \in Seq([fd : Fd \cup {0},
                     pc : {"open", "infolen", "info", "chunk", "chunkbody"},
                     file : File \cup {NoFile}, pos : Nat, left : Nat])
    /\ alive \in BOOLEAN

\* For a client that never ran at the same time as another one, every finished copy
\* is byte for byte the file that was asked for, although the task reads its name
\* through references into the loop's frame, although other clients' requests and
\* ends went through the same variables before, and although the file is cut into
\* groups and lengths.
CopyEqualsOriginal ==
    \A c \in Client \ overlapped :
        \A i \in DOMAIN client[c].got : client[c].got[i] = Content(Argv[c][i])

Unfinished == Pool!Queued \cup {t \in running : task[t].pc # "chunk" \/ task[t].left > 0}

\* Whatever clients run at the same time, as long as none is killed, a finished copy
\* is one whole file or empty, never a mixture, no client meets a piece it does not
\* expect, and the server lives: the number of groups, their lengths and the bodies
\* fit together (lines 60-130 of sync_file.cpp).  And no two tasks that have something
\* left to send share a connection, because a client asks for its next file only
\* when the answer to its last request is complete.
StreamInSync ==
    Killed = {} =>
        /\ alive
        /\ \A c \in Client :
             /\ ~AtClient(c, "lost")
             /\ \A i \in DOMAIN client[c].got :
                   \E f \in File \cup {NoFile} : client[c].got[i] = Content(f)
        /\ \A t, u \in Unfinished :
             task[t].fd = task[u].fd /\ conn[task[t].fd] # NoClient => t = u

\* A queued task has an open descriptor, except between the close and the
\* delCloseFD that follows it (server.cpp:91-92); all variables keep their types.
QueuedTasksHaveConnection ==
    /\ TypeOK
    /\ \A t \in Pool!Queued :
         conn[task[t].fd] = NoClient => loop.pc = "delete" /\ loop.fd = task[t].fd

\* A client that was started gets all its files, or meets the pieces of a killed
\* client's transfer, or is killed, or outlives the server: no request is missed by
\* the edge-triggered epoll, and no client blocks the loop for ever.  When all clients
\* come to their end by themselves the server closes every descriptor.  (The end of a
\* killed client may come with its last request, in one event, and is never read.)
EveryClientServed ==
    <>[](alive => /\ \A c \in Client : client[c].pc \in {"new", "lost"} \cup Ended
                  /\ Killed = {} => \A fd \in Fd : conn[fd] = NoClient)
=============================================================================
