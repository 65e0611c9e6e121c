----------------------------- MODULE SelectChat -----------------------------
(***************************************************************************)
(* The chat server with its three threads and its clients                  *)
(* (socket/select/server.cc, client.cc).  The threads share the list of    *)
(* connections li without a lock: getConn appends to it while getData and  *)
(* sendMess walk along it.  push_back of libstdc++ sets the next pointer   *)
(* of the new node before it links the node, and walking reads nothing but *)
(* next pointers, so that a walk meets the list before or after the append *)
(* and both are one step here.  A line is a number per client, a broadcast *)
(* the number of times fgets has returned in the server.                   *)
(***************************************************************************)
EXTENDS Integers, Sequences, SequencesExt, FiniteSets, FiniteSetsExt, Filtering

CONSTANTS Clients,
          Killable,        \* the clients that may be killed at any time
          Terminals,       \* the clients that read a terminal, not a pipe
          BufLines,        \* how many lines fit into the buffer of getData
          MaxLines,        \* bound, per client: the lines typed
          MaxBroadcasts    \* bound: the lines typed at the server

ASSUME ChatAssumption == /\ Killable \cup Terminals \subseteq Clients
                         /\ BufLines \in Nat \ {0} /\ MaxBroadcasts \in Nat
                         /\ MaxLines \in [Clients -> Nat]
                         /\ "junk" \notin Clients

VARIABLES client,    \* pc and rfds; typed, and where the lines are that were not sent:
                     \* in the kernel or in the buffer of stdin; got: what was printed
          conn,      \* per client: both streams, gone, reset
          backlog,   \* connections that wait for accept
          li,        \* the list of connections
          reader,    \* getData: where it stands in li (0: before begin), its pc and tv
          sender,    \* sendMess: where it stands in li (0: in fgets), broadcasts so far
          shown,     \* what the server has printed
          alive,     \* whether the server process exists
          first      \* history: the first broadcast after a client came into the list

vars == <<client, conn, backlog, li, reader, sender, shown, alive, first>>
server == <<backlog, li, reader, sender, shown, first>>

Junk == [from |-> "junk", line |-> 0]   \* printf past the end of a full buffer
Numbers(a, b) == [i \in 1 .. b - a + 1 |-> a + i - 1]

Init ==
    /\ client = [c \in Clients |-> [pc |-> "init", rfds |-> {}, typed |-> 0,
                                    kernel |-> <<>>, stdin |-> <<>>, got |-> <<>>]]
    /\ conn = [c \in Clients |-> [up |-> <<>>, down |-> <<>>, gone |-> FALSE, reset |-> FALSE]]
    /\ backlog = <<>> /\ li = <<>> /\ shown = <<>>
    /\ reader = [pos |-> 0, pc |-> "select", tv |-> 2]
    /\ sender = [pos |-> 0, k |-> 0]
    /\ alive = TRUE
    /\ first = [c \in Clients |-> 0]

-----------------------------------------------------------------------------
(* A client: one thread that selects between the socket and standard input. *)

Connect(c) ==
    /\ client[c].pc = "init"
    /\ client' = [client EXCEPT ![c].pc = IF alive THEN "select" ELSE "ended"]
    /\ backlog' = IF alive THEN Append(backlog, c) ELSE backlog
    /\ UNCHANGED <<conn, li, reader, sender, shown, alive, first>>

Type(c) ==
    /\ client[c].pc \notin {"init", "ended"} /\ client[c].typed < MaxLines[c]
    /\ client' = [client EXCEPT ![c].typed = @ + 1, ![c].kernel = Append(@, client[c].typed + 1)]
    /\ UNCHANGED <<conn, server, alive>>

\* Mutant: the socket is not put into rfds again.
ReadableStdin(c) == IF client[c].kernel # <<>> THEN {"stdin"} ELSE {}

\* select sees the kernel's input, not what stdio has buffered.  A timeout (5 s)
\* only prints a line and starts over.
Readable(c) == (IF conn[c].down # <<>> \/ ~alive THEN {"sock"} ELSE {})
               \cup (IF client[c].kernel # <<>> THEN {"stdin"} ELSE {})
ClientSelect(c) ==
    /\ client[c].pc = "select" /\ Readable(c) # {}
    /\ client' = [client EXCEPT ![c].pc = "serve", ![c].rfds = Readable(c)]
    /\ UNCHANGED <<conn, server, alive>>

Served(c, f) == [client[c] EXCEPT !.rfds = @ \ {f},
                                  !.pc = IF client[c].rfds = {f} THEN "select" ELSE "serve"]

\* At the end of the stream recv returns 0 and the client goes on.
ClientRecv(c) ==
    /\ client[c].pc = "serve" /\ "sock" \in client[c].rfds
    /\ client' = [client EXCEPT ![c] = [Served(c, "sock") EXCEPT
                      !.got = IF conn[c].down = <<>> THEN @ ELSE Append(@, Head(conn[c].down))]]
    /\ conn' = [conn EXCEPT ![c].down = IF @ = <<>> THEN @ ELSE Tail(@)]
    /\ UNCHANGED <<server, alive>>

\* Mutant: what stdio has buffered is thrown away.
FgetsFresh(c) ==
    [line |-> Head(client[c].kernel), stdin |-> <<>>,
     kernel |-> IF c \in Terminals THEN Tail(client[c].kernel) ELSE <<>>]

\* fgets: stdio asks the kernel when its buffer is empty; a terminal gives one line,
\* a pipe all there is.
Fgets(c) ==
    LET k == client[c].kernel
        b == client[c].stdin
    IN IF b # <<>> THEN [line |-> Head(b), stdin |-> Tail(b), kernel |-> k]
       ELSE IF c \in Terminals THEN [line |-> Head(k), stdin |-> <<>>, kernel |-> Tail(k)]
       ELSE [line |-> Head(k), stdin |-> Tail(k), kernel |-> <<>>]

\* Without a server the line is lost, or SIGPIPE ends the client.
ClientSend(c) ==
    /\ client[c].pc = "serve" /\ client[c].rfds = {"stdin"}
    /\ LET next == [Served(c, "stdin") EXCEPT !.kernel = Fgets(c).kernel, !.stdin = Fgets(c).stdin]
       IN \/ /\ alive
             /\ client' = [client EXCEPT ![c] = next]
             /\ conn' = [conn EXCEPT ![c].up = Append(@, Fgets(c).line)]
          \/ /\ ~alive
             /\ \E pc \in {"select", "ended"} : client' = [client EXCEPT ![c] = [next EXCEPT !.pc = pc]]
             /\ UNCHANGED conn
    /\ UNCHANGED <<server, alive>>

\* The kernel closes the connection; unread broadcasts turn the close into a reset.
Kill(c) ==
    /\ c \in Killable /\ client[c].pc \notin {"init", "ended"}
    /\ client' = [client EXCEPT ![c].pc = "ended"]
    /\ conn' = [conn EXCEPT ![c].gone = TRUE, ![c].reset = conn[c].down # <<>>]
    /\ UNCHANGED <<server, alive>>

-----------------------------------------------------------------------------
(* The threads of the server. *)

getConn ==
    /\ alive /\ backlog # <<>>
    /\ li' = Append(li, Head(backlog))
    /\ backlog' = Tail(backlog)
    /\ first' = [first EXCEPT ![Head(backlog)] = IF sender.pos = 0 THEN sender.k + 1 ELSE sender.k]
    /\ UNCHANGED <<client, conn, reader, sender, shown, alive>>

\* Mutant: the last connection is left out.
BehindShort(pos) == IF pos + 1 < Len(li) THEN pos + 1 ELSE 0

\* ++it and the test against end(); a list walked to its end starts at begin() again.
Behind(pos) == IF pos < Len(li) THEN pos + 1 ELSE 0

\* it = li.begin() after the sleep.
getDataBegin ==
    /\ alive /\ reader.pos = 0 /\ li # <<>>
    /\ reader' = [reader EXCEPT !.pos = 1, !.pc = "select"]
    /\ UNCHANGED <<client, conn, backlog, li, sender, shown, alive, first>>

\* Mutant: a silent connection is waited for again.
SelectAgain ==
    /\ alive /\ reader.pos # 0 /\ reader.pc = "select"
    /\ LET c == li[reader.pos]
       IN IF conn[c].up # <<>> \/ conn[c].gone
          THEN \E tv \in 0 .. reader.tv : reader' = [reader EXCEPT !.pc = "recv", !.tv = tv]
          ELSE reader' = [reader EXCEPT !.tv = 0]
    /\ UNCHANGED <<client, conn, backlog, li, sender, shown, alive, first>>

\* select takes the time it waited off tv, which is never set again: silent
\* connections are waited for tv seconds in all, then only looked at.
getDataSelect ==
    /\ alive /\ reader.pos # 0 /\ reader.pc = "select"
    /\ LET c == li[reader.pos]
       IN IF conn[c].up # <<>> \/ conn[c].gone
          THEN \E tv \in 0 .. reader.tv : reader' = [reader EXCEPT !.pc = "recv", !.tv = tv]
          ELSE reader' = [reader EXCEPT !.pos = Behind(@), !.tv = 0]
    /\ UNCHANGED <<client, conn, backlog, li, sender, shown, alive, first>>

\* A connection that was closed stays in the list and gives 0 bytes for ever.
getDataRecv ==
    /\ alive /\ reader.pc = "recv"
    /\ LET c == li[reader.pos]
           n == Min({BufLines, Len(conn[c].up)})
           lines == [i \in 1 .. n |-> [from |-> c, line |-> conn[c].up[i]]]
       IN /\ shown' = shown \o lines \o (IF n = BufLines THEN <<Junk>> ELSE <<>>)
          /\ conn' = [conn EXCEPT ![c].up = SubSeq(@, n + 1, Len(@))]
    /\ reader' = [reader EXCEPT !.pos = Behind(@), !.pc = "select"]
    /\ UNCHANGED <<client, backlog, li, sender, alive, first>>

\* fgets returned; the walk begins.
sendMessGets ==
    /\ alive /\ sender.pos = 0 /\ sender.k < MaxBroadcasts
    /\ sender' = [pos |-> IF li = <<>> THEN 0 ELSE 1, k |-> sender.k + 1]
    /\ UNCHANGED <<client, conn, backlog, li, reader, shown, alive, first>>

\* The first send to a client that is gone provokes a reset, one after that raises
\* SIGPIPE.
sendMessSend ==
    /\ alive /\ sender.pos # 0
    /\ LET c == li[sender.pos]
       IN /\ conn' = IF conn[c].gone THEN [conn EXCEPT ![c].reset = TRUE]
                     ELSE [conn EXCEPT ![c].down = Append(@, sender.k)]
          /\ alive' = ~(conn[c].gone /\ conn[c].reset)
    /\ sender' = [sender EXCEPT !.pos = Behind(@)]
    /\ UNCHANGED <<client, backlog, li, reader, shown, first>>

-----------------------------------------------------------------------------
ClientLoop(c) == ClientSelect(c) \/ ClientRecv(c) \/ ClientSend(c)
getData == getDataBegin \/ getDataSelect \/ getDataRecv

Next ==
    \/ \E c \in Clients : Connect(c) \/ Type(c) \/ ClientLoop(c) \/ Kill(c)
    \/ getConn
    \/ getData
    \/ sendMessGets \/ sendMessSend

\* Every thread goes on as long as it can; nobody has to start or kill a client or
\* to type a line.
Fairness ==
    /\ \A c \in Clients : WF_vars(ClientLoop(c))
    /\ WF_vars(getConn) /\ WF_vars(getData) /\ WF_vars(sendMessSend)

Spec == Init /\ [][Next]_vars /\ Fairness

-----------------------------------------------------------------------------
(* Properties. *)

TypeOK ==
    /\ reader.pos \in 0 .. Len(li) /\ reader.tv \in 0 .. 2 /\ sender.pos \in 0 .. Len(li)
    /\ \A c \in Clients : /\ client[c].pc \in {"init", "select", "serve", "ended"}
                          /\ client[c].rfds \subseteq {"sock", "stdin"}

LinesOf(messages) == [i \in DOMAIN messages |-> messages[i].line]
Shown(c) == LinesOf(Keep(shown, [from : {c}, line : Nat]))

\* A client gets every broadcast from the one under way when it came into the list,
\* or else the next one, in order and each once, although the list grows under the
\* walking sender: it lacks the current one only while the sender is still before it.
BroadcastsReachEveryone ==
    /\ TypeOK
    /\ \A i \in DOMAIN li :
          LET c == li[i]
              last == IF sender.pos \in 1 .. i THEN sender.k - 1 ELSE sender.k
          IN ~conn[c].gone /\ alive => client[c].got \o conn[c].down = Numbers(first[c], last)

\* No line is lost, repeated or overtaken on its way from the keyboard to the
\* server's screen, also when several lines are read at once and when stdio reads
\* ahead; of a client that was killed a beginning of its lines is shown.
LinesInOrder ==
    \A c \in Clients :
        LET sent == Shown(c) \o conn[c].up
        IN IF alive THEN sent \o client[c].stdin \o client[c].kernel = Numbers(1, client[c].typed)
           ELSE IsPrefix(sent, Numbers(1, client[c].typed))

\* Every line typed at a terminal is shown by the server in the end, whatever the
\* other connections do, and so is what a client had sent before it was killed.
\* (A line that stdio has read ahead from a pipe waits for the next input.)
LinesShown ==
    <>[](alive => \A c \in Range(li) :
             /\ conn[c].up = <<>>
             /\ c \in Terminals /\ ~conn[c].gone => Shown(c) = Numbers(1, client[c].typed))

\* Every broadcast is printed by all clients that are in the list and not killed.
BroadcastsShown ==
    <>[](alive => \A c \in Range(li) :
             ~conn[c].gone => client[c].got = Numbers(first[c], sender.k))

=============================================================================
