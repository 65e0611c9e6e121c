-------------------------- MODULE SelectChatProofs --------------------------
(***************************************************************************)
(* Proofs about SelectChat, for any clients, lines and broadcasts: what    *)
(* every client gets, and what the server shows.                           *)
(***************************************************************************)
EXTENDS SelectChat, SequenceFacts

-----------------------------------------------------------------------------
(* The inductive invariant. *)

ClientRecord == [pc : {"init", "select", "serve", "ended"}, rfds : SUBSET {"sock", "stdin"},
                 typed : Nat, kernel : Seq(Nat), stdin : Seq(Nat), got : Seq(Nat)]
ConnRecord == [up : Seq(Nat), down : Seq(Nat), gone : BOOLEAN, reset : BOOLEAN]
Message == [from : Clients \cup {"junk"}, line : Nat]

(* What select has reported of standard input is still there when fgets reads it. *)
ClientInv ==
    /\ client \in [Clients -> ClientRecord]
    /\ conn \in [Clients -> ConnRecord]
    /\ \A c \in Clients : "stdin" \in client[c].rfds => client[c].kernel # <<>>

ServerInv ==
    /\ backlog \in Seq(Clients) /\ li \in Seq(Clients)
    /\ reader \in [pos : 0 .. Len(li), pc : {"select", "recv"}, tv : 0 .. 2]
    /\ reader.pc = "recv" => reader.pos # 0
    /\ sender \in [pos : 0 .. Len(li), k : Nat]
    /\ shown \in Seq(Message) /\ alive \in BOOLEAN /\ first \in [Clients -> Nat]

(* A client is in the list or in the backlog once, and in one of them only; nothing
   is sent to it before it is in the list. *)
Places ==
    /\ NoDuplicates(li) /\ NoDuplicates(backlog) /\ Range(li) \cap Range(backlog) = {}
    /\ \A c \in Range(li) \cup Range(backlog) : client[c].pc # "init"
    /\ \A c \in Clients \ Range(li) : client[c].got = <<>> /\ conn[c].down = <<>>

(* The last broadcast that the sender has sent to the i-th connection. *)
LastSent(i) == IF sender.pos \in 1 .. i THEN sender.k - 1 ELSE sender.k

Reached ==
    \A i \in 1 .. Len(li) :
        /\ first[li[i]] <= LastSent(i) + 1
        /\ ~conn[li[i]].gone /\ alive =>
               client[li[i]].got \o conn[li[i]].down = Numbers(first[li[i]], LastSent(i))

ChatInv == ClientInv /\ ServerInv /\ Places /\ Reached

-----------------------------------------------------------------------------
(* Steps of the clients. *)

(* What a step of a client leaves alone: who has not begun, who is gone, and what was
   sent to those that are there. *)
ClientsOnly ==
    /\ ClientInv'
    /\ \A d \in Clients : /\ client'[d].pc = "init" <=> client[d].pc = "init"
                          /\ conn[d].gone => conn'[d].gone
                          /\ \/ conn'[d].gone
                             \/ client'[d].got \o conn'[d].down = client[d].got \o conn[d].down
                          /\ client[d].got = <<>> /\ conn[d].down = <<>>
                                 => client'[d].got = <<>> /\ conn'[d].down = <<>>
    /\ UNCHANGED <<server, alive>>

\* The members of the records.
LEMMA RecordFacts ==
    ASSUME ClientInv, NEW c \in Clients
    PROVE  /\ client[c] \in ClientRecord /\ conn[c] \in ConnRecord
           /\ client[c].typed \in Nat /\ client[c].kernel \in Seq(Nat)
           /\ client[c].stdin \in Seq(Nat) /\ client[c].got \in Seq(Nat)
           /\ client[c].rfds \subseteq {"sock", "stdin"}
           /\ conn[c].up \in Seq(Nat) /\ conn[c].down \in Seq(Nat)
           /\ "stdin" \in client[c].rfds => client[c].kernel # <<>>
  <1>1. client[c] \in ClientRecord /\ conn[c] \in ConnRecord
    BY DEF ClientInv
  <1>2. QED
    BY <1>1 DEF ClientInv, ClientRecord, ConnRecord

\* Typing a line.
LEMMA TypeStep ==
    ASSUME ClientInv, NEW c \in Clients, Type(c)
    PROVE  ClientsOnly
  <1> DEFINE r == [client[c] EXCEPT !.typed = @ + 1, !.kernel = Append(@, client[c].typed + 1)]
  <1>1. /\ client' = [client EXCEPT ![c] = r] /\ conn' = conn /\ UNCHANGED <<server, alive>>
        /\ client[c].pc # "init"
    BY DEF Type
  <1>2. /\ r.pc = client[c].pc /\ r.got = client[c].got /\ r.rfds = client[c].rfds
        /\ r \in ClientRecord /\ r.kernel # <<>>
    <2> DEFINE m == client[c].typed + 1
               k == Append(client[c].kernel, m)
    <2>0. \A s \in Seq(Nat), n \in Nat :
              n + 1 \in Nat /\ Append(s, n + 1) \in Seq(Nat) /\ Append(s, n + 1) # <<>>
      OBVIOUS
    <2>1. client[c] \in ClientRecord /\ m \in Nat /\ k \in Seq(Nat) /\ k # <<>>
      <3>1. client[c] \in ClientRecord /\ client[c].typed \in Nat /\ client[c].kernel \in Seq(Nat)
        BY RecordFacts
      <3>2. QED
        BY <2>0, <3>1, Zenon
    <2>2. PICK n \in Nat, x \in Seq(Nat) : n = m /\ x = k
      BY <2>1
    <2>3. r = [client[c] EXCEPT !.typed = n, !.kernel = x]
      BY <2>2
    <2> HIDE DEF r, m, k
    <2>4. /\ r \in ClientRecord /\ r.pc = client[c].pc /\ r.got = client[c].got
          /\ r.rfds = client[c].rfds /\ r.kernel = k
      BY <2>1, <2>2, <2>3 DEF ClientRecord
    <2>5. QED
      BY <2>1, <2>4
  <1> HIDE DEF r
  <1>3. client' \in [Clients -> ClientRecord] /\ client'[c] = r /\ \A d \in Clients \ {c} : client'[d] = client[d]
    BY <1>1, <1>2 DEF ClientInv
  <1>4. QED
    BY <1>1, <1>2, <1>3 DEF ClientsOnly, ClientInv

\* select in the client.
LEMMA ClientSelectStep ==
    ASSUME ClientInv, NEW c \in Clients, ClientSelect(c)
    PROVE  ClientsOnly
  <1> DEFINE r == [client[c] EXCEPT !.pc = "serve", !.rfds = Readable(c)]
  <1>1. /\ client' = [client EXCEPT ![c] = r] /\ conn' = conn /\ UNCHANGED <<server, alive>>
        /\ client[c].pc = "select"
    BY DEF ClientSelect
  <1>2. /\ r.pc = "serve" /\ r.got = client[c].got /\ r.kernel = client[c].kernel
        /\ "stdin" \in r.rfds => r.kernel # <<>>
        /\ r \in ClientRecord
    BY RecordFacts DEF ClientRecord, Readable
  <1> HIDE DEF r
  <1>3. client' \in [Clients -> ClientRecord] /\ client'[c] = r /\ \A d \in Clients \ {c} : client'[d] = client[d]
    BY <1>1, <1>2 DEF ClientInv
  <1>4. QED
    BY <1>1, <1>2, <1>3 DEF ClientsOnly, ClientInv

\* A killed client.
LEMMA KillStep ==
    ASSUME ClientInv, NEW c \in Clients, Kill(c)
    PROVE  ClientsOnly
  <1> DEFINE r == [client[c] EXCEPT !.pc = "ended"]
             q == [conn[c] EXCEPT !.gone = TRUE, !.reset = conn[c].down # <<>>]
  <1>1. /\ client' = [client EXCEPT ![c] = r] /\ conn' = [conn EXCEPT ![c] = q]
        /\ UNCHANGED <<server, alive>> /\ client[c].pc # "init"
    BY DEF Kill
  <1>2. /\ r.pc = "ended" /\ r.got = client[c].got /\ r.kernel = client[c].kernel
        /\ r.rfds = client[c].rfds /\ r \in ClientRecord
        /\ q.gone /\ q.down = conn[c].down /\ q \in ConnRecord
    BY RecordFacts DEF ClientRecord, ConnRecord
  <1> HIDE DEF r, q
  <1>3. /\ client' \in [Clients -> ClientRecord] /\ client'[c] = r
        /\ conn' \in [Clients -> ConnRecord] /\ conn'[c] = q
        /\ \A d \in Clients \ {c} : client'[d] = client[d] /\ conn'[d] = conn[d]
    BY <1>1, <1>2 DEF ClientInv
  <1>4. QED
    BY <1>1, <1>2, <1>3, ZenonT(40) DEF ClientsOnly, ClientInv

\* A served descriptor is not waited for any longer; the rest is as it was.
LEMMA ServedFacts ==
    ASSUME ClientInv, NEW c \in Clients, NEW f
    PROVE  /\ Served(c, f) \in ClientRecord /\ Served(c, f).pc # "init"
           /\ Served(c, f).rfds = client[c].rfds \ {f} /\ Served(c, f).typed = client[c].typed
           /\ Served(c, f).kernel = client[c].kernel /\ Served(c, f).stdin = client[c].stdin
           /\ Served(c, f).got = client[c].got
  BY RecordFacts DEF Served, ClientRecord

\* recv in the client.
LEMMA ClientRecvStep ==
    ASSUME ClientInv, NEW c \in Clients, ClientRecv(c)
    PROVE  ClientsOnly
  <1> DEFINE down == conn[c].down
             s == Served(c, "sock")
             r == [s EXCEPT !.got = IF down = <<>> THEN @ ELSE Append(@, Head(down))]
             q == [conn[c] EXCEPT !.down = IF @ = <<>> THEN @ ELSE Tail(@)]
  <1>1. /\ client' = [client EXCEPT ![c] = r] /\ conn' = [conn EXCEPT ![c] = q]
        /\ UNCHANGED <<server, alive>> /\ client[c].pc # "init"
    BY DEF ClientRecv
  <1>2. /\ s \in ClientRecord /\ s.pc # "init" /\ s.rfds = client[c].rfds \ {"sock"}
        /\ s.kernel = client[c].kernel /\ s.got = client[c].got /\ s.got \in Seq(Nat)
        /\ down \in Seq(Nat) /\ conn[c] \in ConnRecord
        /\ "stdin" \in s.rfds => s.kernel # <<>>
    BY ServedFacts, RecordFacts
  <1> HIDE DEF s, down
  <1>3. /\ r \in ClientRecord /\ r.pc # "init" /\ r.rfds = s.rfds /\ r.kernel = s.kernel
        /\ r.got = IF down = <<>> THEN s.got ELSE Append(s.got, Head(down))
    <2>1. (IF down = <<>> THEN s.got ELSE Append(s.got, Head(down))) \in Seq(Nat)
      BY <1>2
    <2>2. \A p \in ClientRecord, x \in Seq(Nat) :
              LET u == [p EXCEPT !.got = x]
              IN /\ u \in ClientRecord /\ u.pc = p.pc /\ u.kernel = p.kernel /\ u.rfds = p.rfds
                 /\ u.got = x
      BY DEF ClientRecord
    <2>3. QED
      BY <1>2, <2>1, <2>2
  <1>4. /\ q \in ConnRecord /\ q.gone = conn[c].gone
        /\ q.down = IF down = <<>> THEN down ELSE Tail(down)
    <2>1. (IF down = <<>> THEN down ELSE Tail(down)) \in Seq(Nat)
      BY <1>2
    <2>2. \A p \in ConnRecord, x \in Seq(Nat) :
              LET u == [p EXCEPT !.down = x]
              IN u \in ConnRecord /\ u.gone = p.gone /\ u.down = x
      BY DEF ConnRecord
    <2>3. q = [conn[c] EXCEPT !.down = IF down = <<>> THEN down ELSE Tail(down)]
      BY DEF down
    <2> HIDE DEF q
    <2>4. QED
      BY <1>2, <2>1, <2>2, <2>3
  <1> HIDE DEF r, q
  <1>5. /\ client' \in [Clients -> ClientRecord] /\ client'[c] = r
        /\ conn' \in [Clients -> ConnRecord] /\ conn'[c] = q
        /\ \A d \in Clients \ {c} : client'[d] = client[d] /\ conn'[d] = conn[d]
    BY <1>1, <1>3, <1>4 DEF ClientInv
  <1>6. r.got \o q.down = client[c].got \o down
    <2>1. CASE down = <<>>
      BY <1>2, <1>3, <1>4, <2>1
    <2>2. CASE down # <<>>
      <3>1. Append(s.got, Head(down)) \o Tail(down) = s.got \o down
        BY <1>2, <2>2, ConcatShift
      <3>2. QED
        BY <1>2, <1>3, <1>4, <2>2, <3>1
    <2>3. QED
      BY <2>1, <2>2
  <1>7. client[c].got = <<>> /\ down = <<>> => r.got = <<>> /\ q.down = <<>>
    BY <1>2, <1>3, <1>4
  <1>8. ClientInv'
    BY <1>2, <1>3, <1>5 DEF ClientInv
  <1>9. QED
    BY <1>1, <1>3, <1>4, <1>5, <1>6, <1>7, <1>8 DEF ClientsOnly, down

\* fgets takes the first line that was not sent; the others stay in their order.
LEMMA FgetsFacts ==
    ASSUME ClientInv, NEW c \in Clients, client[c].kernel # <<>>
    PROVE  /\ Fgets(c).line \in Nat /\ Fgets(c).stdin \in Seq(Nat) /\ Fgets(c).kernel \in Seq(Nat)
           /\ \A s \in Seq(Nat) : (Append(s, Fgets(c).line) \o Fgets(c).stdin) \o Fgets(c).kernel
                                      = (s \o client[c].stdin) \o client[c].kernel
  <1> DEFINE k == client[c].kernel
             b == client[c].stdin
             f == Fgets(c)
  <1>1. k \in Seq(Nat) /\ b \in Seq(Nat) /\ k # <<>>
    BY RecordFacts
  <1>2. \A s, t \in Seq(Nat) : t # <<>> => /\ Append(s, Head(t)) \o Tail(t) = s \o t
                                           /\ Head(t) \in Nat /\ Tail(t) \in Seq(Nat)
    <2>1. \A s, t \in Seq(Nat) : t # <<>> => Append(s, Head(t)) \o Tail(t) = s \o t
      BY ConcatShift
    <2>2. \A t \in Seq(Nat) : t # <<>> => Head(t) \in Nat /\ Tail(t) \in Seq(Nat)
      OBVIOUS
    <2>3. QED
      BY <2>1, <2>2
  <1>3. \A s \in Seq(Nat) : s \o <<>> = s /\ \A n \in Nat : Append(s, n) \in Seq(Nat)
    OBVIOUS
  <1>4. CASE b # <<>>
    <2>1. f = [line |-> Head(b), stdin |-> Tail(b), kernel |-> k]
      BY <1>4 DEF Fgets
    <2>2. f.line = Head(b) /\ f.stdin = Tail(b) /\ f.kernel = k
      BY <2>1
    <2> HIDE DEF k, b, f
    <2>3. f.line \in Nat /\ f.stdin \in Seq(Nat) /\ f.kernel \in Seq(Nat)
      BY <1>1, <1>2, <1>4, <2>2
    <2>4. \A s \in Seq(Nat) : (Append(s, f.line) \o f.stdin) \o f.kernel = (s \o b) \o k
      <3> SUFFICES ASSUME NEW s \in Seq(Nat)
                   PROVE  (Append(s, f.line) \o f.stdin) \o f.kernel = (s \o b) \o k
        OBVIOUS
      <3>1. Append(s, Head(b)) \o Tail(b) = s \o b
        BY <1>1, <1>2, <1>4
      <3>2. QED
        BY <2>2, <3>1, Zenon
    <2>5. QED
      BY <2>3, <2>4 DEF k, b, f
  <1>5. CASE b = <<>> /\ c \in Terminals
    <2>1. f = [line |-> Head(k), stdin |-> <<>>, kernel |-> Tail(k)]
      BY <1>5 DEF Fgets
    <2>2. f.line = Head(k) /\ f.stdin = <<>> /\ f.kernel = Tail(k)
      BY <2>1
    <2> HIDE DEF k, b, f
    <2>3. f.line \in Nat /\ f.stdin \in Seq(Nat) /\ f.kernel \in Seq(Nat)
      BY <1>1, <1>2, <2>2
    <2>4. \A s \in Seq(Nat) : (Append(s, f.line) \o f.stdin) \o f.kernel = (s \o b) \o k
      <3> SUFFICES ASSUME NEW s \in Seq(Nat)
                   PROVE  (Append(s, f.line) \o f.stdin) \o f.kernel = (s \o b) \o k
        OBVIOUS
      <3>1. Append(s, f.line) \in Seq(Nat) /\ Append(s, Head(k)) \o Tail(k) = s \o k
        BY <1>1, <1>2, <2>3, SMTT(30)
      <3>2. Append(s, f.line) \o <<>> = Append(s, f.line) /\ s \o <<>> = s
        BY <1>3, <3>1
      <3>3. QED
        BY <1>5, <2>2, <3>1, <3>2, Zenon
    <2>5. QED
      BY <2>3, <2>4 DEF k, b, f
  <1>6. CASE b = <<>> /\ c \notin Terminals
    <2>1. f = [line |-> Head(k), stdin |-> Tail(k), kernel |-> <<>>]
      BY <1>6 DEF Fgets
    <2>2. f.line = Head(k) /\ f.stdin = Tail(k) /\ f.kernel = <<>>
      BY <2>1
    <2> HIDE DEF k, b, f
    <2>3. f.line \in Nat /\ f.stdin \in Seq(Nat) /\ f.kernel \in Seq(Nat)
      BY <1>1, <1>2, <2>2
    <2>4. \A s \in Seq(Nat) : (Append(s, f.line) \o f.stdin) \o f.kernel = (s \o b) \o k
      <3> SUFFICES ASSUME NEW s \in Seq(Nat)
                   PROVE  (Append(s, f.line) \o f.stdin) \o f.kernel = (s \o b) \o k
        OBVIOUS
      <3>1. Append(s, Head(k)) \o Tail(k) = s \o k /\ s \o k \in Seq(Nat)
        BY <1>1, <1>2
      <3>2. (s \o k) \o <<>> = s \o k /\ s \o <<>> = s
        BY <1>3, <3>1
      <3>3. QED
        BY <1>6, <2>2, <3>1, <3>2, Zenon
    <2>5. QED
      BY <2>3, <2>4 DEF k, b, f
  <1>7. QED
    BY <1>4, <1>5, <1>6

\* What ClientSend does to the two records.
LEMMA ClientSendEffect ==
    ASSUME ClientInv, NEW c \in Clients, ClientSend(c)
    PROVE  /\ client[c].kernel # <<>> /\ client[c].pc # "init" /\ UNCHANGED <<server, alive>>
           /\ client' \in [Clients -> ClientRecord] /\ conn' \in [Clients -> ConnRecord]
           /\ client'[c].pc # "init" /\ client'[c].rfds = {} /\ client'[c].got = client[c].got
           /\ client'[c].kernel = Fgets(c).kernel /\ client'[c].stdin = Fgets(c).stdin
           /\ client'[c].typed = client[c].typed
           /\ conn'[c].down = conn[c].down /\ conn'[c].gone = conn[c].gone
           /\ conn'[c].up = IF alive THEN Append(conn[c].up, Fgets(c).line) ELSE conn[c].up
           /\ \A d \in Clients \ {c} : client'[d] = client[d] /\ conn'[d] = conn[d]
  <1>1. /\ client[c].rfds = {"stdin"} /\ client[c].pc # "init" /\ UNCHANGED <<server, alive>>
    BY DEF ClientSend
  <1>2. client[c].kernel # <<>> /\ conn[c] \in ConnRecord /\ conn[c].up \in Seq(Nat)
    BY <1>1, RecordFacts
  <1>3. PICK x \in Seq(Nat), y \in Seq(Nat), n \in Nat :
            x = Fgets(c).kernel /\ y = Fgets(c).stdin /\ n = Fgets(c).line
    BY <1>2, FgetsFacts
  <1>4. PICK s \in ClientRecord : s = Served(c, "stdin")
    BY ServedFacts
  <1>5. /\ s.pc # "init" /\ s.rfds = {} /\ s.typed = client[c].typed /\ s.got = client[c].got
    BY <1>1, <1>4, ServedFacts
  <1> DEFINE next == [s EXCEPT !.kernel = x, !.stdin = y]
             gone(pc) == [next EXCEPT !.pc = pc]
             up == [conn[c] EXCEPT !.up = Append(@, n)]
  <1>6. \/ alive /\ client' = [client EXCEPT ![c] = next] /\ conn' = [conn EXCEPT ![c] = up]
        \/ /\ ~alive /\ conn' = conn
           /\ \E pc \in {"select", "ended"} : client' = [client EXCEPT ![c] = gone(pc)]
    BY <1>3, <1>4 DEF ClientSend
  <1>7. /\ next \in ClientRecord /\ next.pc # "init" /\ next.rfds = {} /\ next.typed = client[c].typed
        /\ next.got = client[c].got /\ next.kernel = x /\ next.stdin = y
    BY <1>5 DEF ClientRecord
  <1>8. ASSUME NEW pc \in {"select", "ended"}
        PROVE  /\ gone(pc) \in ClientRecord /\ gone(pc).pc # "init" /\ gone(pc).rfds = {}
               /\ gone(pc).typed = client[c].typed
               /\ gone(pc).got = client[c].got /\ gone(pc).kernel = x /\ gone(pc).stdin = y
    BY <1>5 DEF ClientRecord
  <1>9. up \in ConnRecord /\ up.down = conn[c].down /\ up.gone = conn[c].gone
        /\ up.up = Append(conn[c].up, n)
    <2>0. \A q \in Seq(Nat) : Append(q, n) \in Seq(Nat)
      OBVIOUS
    <2>1. PICK a \in Seq(Nat) : a = Append(conn[c].up, n)
      BY <1>2, <2>0
    <2>2. up = [conn[c] EXCEPT !.up = a]
      BY <2>1
    <2> HIDE DEF up
    <2>3. QED
      BY <1>2, <2>1, <2>2 DEF ConnRecord
  <1> HIDE DEF next, gone, up
  <1>10. client \in [Clients -> ClientRecord] /\ conn \in [Clients -> ConnRecord]
    BY DEF ClientInv
  <1>11. CASE alive
    <2>1. client' = [client EXCEPT ![c] = next] /\ conn' = [conn EXCEPT ![c] = up]
      BY <1>6, <1>11
    <2>2. /\ client' \in [Clients -> ClientRecord] /\ conn' \in [Clients -> ConnRecord]
          /\ client'[c] = next /\ conn'[c] = up
          /\ \A d \in Clients \ {c} : client'[d] = client[d] /\ conn'[d] = conn[d]
      BY <1>7, <1>9, <1>10, <2>1
    <2>3. QED
      BY <1>1, <1>2, <1>3, <1>7, <1>9, <1>11, <2>2
  <1>12. CASE ~alive
    <2>1. PICK pc \in {"select", "ended"} : client' = [client EXCEPT ![c] = gone(pc)] /\ conn' = conn
      BY <1>6, <1>12
    <2>2. /\ client' \in [Clients -> ClientRecord] /\ conn' \in [Clients -> ConnRecord]
          /\ client'[c] = gone(pc) /\ conn'[c] = conn[c]
          /\ \A d \in Clients \ {c} : client'[d] = client[d] /\ conn'[d] = conn[d]
      BY <1>8, <1>10, <2>1
    <2>3. QED
      BY <1>1, <1>2, <1>3, <1>8, <1>12, <2>2
  <1>13. QED
    BY <1>11, <1>12

\* fgets and send in the client.
LEMMA ClientSendStep ==
    ASSUME ClientInv, NEW c \in Clients, ClientSend(c)
    PROVE  ClientsOnly
  <1>1. /\ client[c].pc # "init" /\ UNCHANGED <<server, alive>>
        /\ client' \in [Clients -> ClientRecord] /\ conn' \in [Clients -> ConnRecord]
        /\ client'[c].pc # "init" /\ client'[c].rfds = {} /\ client'[c].got = client[c].got
        /\ conn'[c].down = conn[c].down /\ conn'[c].gone = conn[c].gone
        /\ \A d \in Clients \ {c} : client'[d] = client[d] /\ conn'[d] = conn[d]
    BY ClientSendEffect
  <1>2. ClientInv'
    BY <1>1 DEF ClientInv
  <1>3. QED
    BY <1>1, <1>2 DEF ClientsOnly

\* Such a step keeps the invariant.
LEMMA ClientStep ==
    ASSUME ChatInv, ClientsOnly
    PROVE  ChatInv'
  <1>1. ClientInv /\ ServerInv /\ Places /\ Reached
    BY DEF ChatInv
  <1>2. /\ ClientInv' /\ UNCHANGED <<backlog, li, reader, sender, shown, first, alive>>
    BY DEF ClientsOnly, server
  <1>3. \A d \in Clients :
            /\ client'[d].pc = "init" <=> client[d].pc = "init"
            /\ conn[d].gone => conn'[d].gone
            /\ \/ conn'[d].gone
               \/ client'[d].got \o conn'[d].down = client[d].got \o conn[d].down
            /\ client[d].got = <<>> /\ conn[d].down = <<>>
                   => client'[d].got = <<>> /\ conn'[d].down = <<>>
    BY DEF ClientsOnly
  <1>4. ServerInv'
    BY <1>1, <1>2 DEF ServerInv
  <1>5. Range(li) \cup Range(backlog) \subseteq Clients /\ \A i \in 1 .. Len(li) : li[i] \in Clients
    BY <1>1 DEF ServerInv, Range
  <1>6. Places'
    <2>1. \A c \in Range(li) \cup Range(backlog) : client'[c].pc # "init"
      BY <1>1, <1>3, <1>5 DEF Places
    <2>2. \A c \in Clients \ Range(li) : client'[c].got = <<>> /\ conn'[c].down = <<>>
      BY <1>1, <1>3 DEF Places
    <2>3. QED
      BY <1>1, <1>2, <2>1, <2>2 DEF Places
  <1>7. Reached'
    <2>1. ASSUME NEW i \in 1 .. Len(li)
          PROVE  /\ first[li[i]] <= LastSent(i) + 1
                 /\ ~conn'[li[i]].gone /\ alive =>
                        client'[li[i]].got \o conn'[li[i]].down = Numbers(first[li[i]], LastSent(i))
      BY <1>1, <1>3, <1>5 DEF Reached
    <2>2. \A i \in 1 .. Len(li) : LastSent(i)' = LastSent(i)
      BY <1>2 DEF LastSent
    <2>3. li' = li /\ alive' = alive /\ first' = first
      BY <1>2
    <2>4. QED
      BY <2>1, <2>2, <2>3 DEF Reached
  <1>8. QED
    BY <1>2, <1>4, <1>6, <1>7 DEF ChatInv

\* A client connects.
LEMMA ConnectStep ==
    ASSUME ChatInv, NEW c \in Clients, Connect(c)
    PROVE  ChatInv'
  <1>1. ClientInv /\ ServerInv /\ Places /\ Reached
    BY DEF ChatInv
  <1> DEFINE pc == IF alive THEN "select" ELSE "ended"
             r == [client[c] EXCEPT !.pc = pc]
  <1>2. /\ client[c].pc = "init" /\ client' = [client EXCEPT ![c] = r]
        /\ backlog' = IF alive THEN Append(backlog, c) ELSE backlog
        /\ UNCHANGED <<conn, li, reader, sender, shown, alive, first>>
    BY DEF Connect
  <1>3. /\ r \in ClientRecord /\ r.pc # "init" /\ r.got = client[c].got
        /\ r.kernel = client[c].kernel /\ r.rfds = client[c].rfds
    BY <1>1, RecordFacts DEF ClientRecord
  <1> HIDE DEF r
  <1>4. /\ client' \in [Clients -> ClientRecord] /\ client'[c] = r
        /\ \A d \in Clients \ {c} : client'[d] = client[d]
    BY <1>1, <1>2, <1>3 DEF ClientInv
  <1>5. ClientInv'
    BY <1>1, <1>2, <1>3, <1>4 DEF ClientInv
  <1>6. backlog \in Seq(Clients) /\ li \in Seq(Clients) /\ c \notin Range(li) \cup Range(backlog)
    BY <1>1, <1>2 DEF ServerInv, Places
  <1>7. /\ backlog' \in Seq(Clients) /\ NoDuplicates(backlog')
        /\ Range(backlog') \subseteq Range(backlog) \cup {c}
    <2>1. CASE alive
      <3>1. backlog' = Append(backlog, c) /\ NoDuplicates(backlog)
        BY <1>1, <1>2, <2>1 DEF Places
      <3>2. QED
        BY <1>6, <3>1, AppendLemma
    <2>2. CASE ~alive
      BY <1>1, <1>2, <1>6, <2>2 DEF Places
    <2>3. QED
      BY <2>1, <2>2
  <1>8. ServerInv'
    BY <1>1, <1>2, <1>7 DEF ServerInv
  <1>9. Places'
    <2>1. Range(li) \cap Range(backlog') = {}
      BY <1>1, <1>6, <1>7 DEF Places
    <2>2. \A d \in Clients : client'[d].got = client[d].got
      BY <1>3, <1>4
    <2>3. ASSUME NEW d \in Range(li) \cup Range(backlog') PROVE client'[d].pc # "init"
      <3>1. d \in Clients
        BY <1>6, <1>7 DEF Range
      <3>2. CASE d = c
        BY <1>3, <1>4, <3>2
      <3>3. CASE d # c
        <4>1. client[d].pc # "init"
          BY <1>1, <1>7, <3>3 DEF Places
        <4>2. QED
          BY <1>4, <3>1, <3>3, <4>1
      <3>4. QED
        BY <3>2, <3>3
    <2>4. QED
      BY <1>1, <1>2, <1>7, <2>1, <2>2, <2>3 DEF Places
  <1>10. Reached'
    <2>1. \A i \in 1 .. Len(li) : li[i] \in Clients /\ client'[li[i]].got = client[li[i]].got
      BY <1>3, <1>4, <1>6
    <2>2. \A i \in 1 .. Len(li) : LastSent(i)' = LastSent(i)
      BY <1>2 DEF LastSent
    <2>3. li' = li /\ alive' = alive /\ first' = first /\ conn' = conn
      BY <1>2
    <2>4. QED
      BY <1>1, <2>1, <2>2, <2>3 DEF Reached
  <1>11. QED
    BY <1>5, <1>8, <1>9, <1>10 DEF ChatInv

-----------------------------------------------------------------------------
(* Steps of the server. *)

\* Consecutive numbers.
LEMMA NumbersFacts ==
    ASSUME NEW a \in Nat, NEW b \in Int, a <= b + 1
    PROVE  /\ Numbers(a, b) \in Seq(Nat) /\ Len(Numbers(a, b)) = b - a + 1
           /\ a = b + 1 => Numbers(a, b) = <<>>
           /\ Append(Numbers(a, b), b + 1) = Numbers(a, b + 1)
  <1>1. \A x \in Nat, y \in Int : x <= y + 1 =>
            /\ Numbers(x, y) \in Seq(Nat) /\ Len(Numbers(x, y)) = y - x + 1
            /\ \A i \in 1 .. y - x + 1 : Numbers(x, y)[i] = x + i - 1
    <2> SUFFICES ASSUME NEW x \in Nat, NEW y \in Int, x <= y + 1
                 PROVE  /\ Numbers(x, y) \in Seq(Nat) /\ Len(Numbers(x, y)) = y - x + 1
                        /\ \A i \in 1 .. y - x + 1 : Numbers(x, y)[i] = x + i - 1
      OBVIOUS
    <2>1. y - x + 1 \in Nat /\ \A i \in 1 .. y - x + 1 : x + i - 1 \in Nat
      OBVIOUS
    <2>2. Numbers(x, y) \in [1 .. y - x + 1 -> Nat]
      BY <2>1 DEF Numbers
    <2>3. QED
      BY <2>1, <2>2 DEF Numbers
  <1> DEFINE p == Numbers(a, b)
             q == Numbers(a, b + 1)
             n == b - a + 1
  <1>2. /\ p \in Seq(Nat) /\ Len(p) = n /\ \A i \in 1 .. n : p[i] = a + i - 1
    BY <1>1
  <1>3. /\ q \in Seq(Nat) /\ Len(q) = n + 1 /\ \A i \in 1 .. n + 1 : q[i] = a + i - 1
    <2>1. a <= b + 1 + 1 /\ b + 1 \in Int /\ b + 1 - a + 1 = n + 1
      OBVIOUS
    <2>2. QED
      BY <1>1, <2>1
  <1>4. n \in Nat /\ b + 1 \in Nat /\ a + (n + 1) - 1 = b + 1
    OBVIOUS
  <1>5. a = b + 1 => p = <<>>
    <2>1. a = b + 1 => n = 0
      OBVIOUS
    <2> HIDE DEF p, n
    <2>2. QED
      BY <1>2, <2>1
  <1>6. Append(p, b + 1) = q
    <2> HIDE DEF p, q, n
    <2>1. PICK m \in Nat : m = b + 1
      BY <1>4
    <2>2. /\ Append(p, m) \in Seq(Nat) /\ Len(Append(p, m)) = n + 1
          /\ \A i \in 1 .. n : Append(p, m)[i] = p[i]
      BY <1>2, <1>4
    <2>3. ASSUME NEW i \in 1 .. n + 1 PROVE Append(p, m)[i] = q[i]
      <3>1. CASE i = n + 1
        BY <1>2, <1>3, <1>4, <2>1, <3>1
      <3>2. CASE i \in 1 .. n
        BY <1>2, <1>3, <2>2, <3>2
      <3>3. \A j \in Nat : \A x \in 1 .. j + 1 : x = j + 1 \/ x \in 1 .. j
        OBVIOUS
      <3>4. i = n + 1 \/ i \in 1 .. n
        BY <1>4, <3>3
      <3>5. QED
        BY <3>1, <3>2, <3>4, Zenon
    <2>4. Append(p, m) = q
      BY <1>3, <2>2, <2>3, SeqEqual
    <2>5. QED
      BY <2>1, <2>4
  <1>7. QED
    BY <1>2, <1>5, <1>6

\* The place behind another one is in the list, or before its beginning.
LEMMA BehindFacts ==
    ASSUME ServerInv, NEW p \in 0 .. Len(li)
    PROVE  Behind(p) \in 0 .. Len(li)
  <1>1. Len(li) \in Nat
    BY DEF ServerInv
  <1>2. QED
    BY <1>1 DEF Behind

\* The reader: it takes lines from the connections, and touches nothing else of them.
LEMMA ReaderStep ==
    ASSUME ChatInv, UNCHANGED <<client, backlog, li, sender, alive, first>>,
           reader' \in [pos : 0 .. Len(li), pc : {"select", "recv"}, tv : 0 .. 2],
           reader'.pc = "recv" => reader'.pos # 0,
           shown' \in Seq(Message), conn' \in [Clients -> ConnRecord],
           \A c \in Clients : conn'[c].down = conn[c].down /\ conn'[c].gone = conn[c].gone
    PROVE  ChatInv'
  <1>1. ClientInv /\ ServerInv /\ Places /\ Reached
    BY DEF ChatInv
  <1>2. ClientInv'
    BY <1>1 DEF ClientInv
  <1>3. ServerInv'
    BY <1>1 DEF ServerInv
  <1>4. Places'
    BY <1>1 DEF Places
  <1>5. Reached'
    <2>1. \A i \in 1 .. Len(li) : li[i] \in Clients
      BY <1>1 DEF ServerInv
    <2>2. \A i \in 1 .. Len(li) : LastSent(i)' = LastSent(i)
      BY DEF LastSent
    <2>3. QED
      BY <1>1, <2>1, <2>2 DEF Reached
  <1>6. QED
    BY <1>2, <1>3, <1>4, <1>5 DEF ChatInv

\* select in getData.
LEMMA getDataSelectStep ==
    ASSUME ChatInv, getDataBegin \/ getDataSelect
    PROVE  ChatInv'
  <1>1. ClientInv /\ ServerInv
    BY DEF ChatInv
  <1>2. /\ UNCHANGED <<client, backlog, li, sender, alive, first, shown, conn>>
    BY DEF getDataBegin, getDataSelect
  <1>3. /\ reader \in [pos : 0 .. Len(li), pc : {"select", "recv"}, tv : 0 .. 2]
        /\ Behind(reader.pos) \in 0 .. Len(li) /\ Len(li) \in Nat
    <2>1. reader.pos \in 0 .. Len(li)
      BY <1>1 DEF ServerInv
    <2>2. QED
      BY <1>1, <2>1, BehindFacts DEF ServerInv
  <1>4. /\ reader' \in [pos : 0 .. Len(li), pc : {"select", "recv"}, tv : 0 .. 2]
        /\ reader'.pc = "recv" => reader'.pos # 0
    <2>1. CASE getDataBegin
      <3>1. reader' = [reader EXCEPT !.pos = 1, !.pc = "select"] /\ 1 \in 0 .. Len(li)
        BY <1>1, <1>3, <2>1 DEF getDataBegin, ServerInv
      <3>2. QED
        BY <1>3, <3>1
    <2>2. CASE getDataSelect
      <3>1. reader.pos # 0 /\ reader.pc = "select"
        BY <2>2 DEF getDataSelect
      <3>2. \/ \E tv \in 0 .. reader.tv : reader' = [reader EXCEPT !.pc = "recv", !.tv = tv]
            \/ reader' = [reader EXCEPT !.pos = Behind(reader.pos), !.tv = 0]
        BY <2>2 DEF getDataSelect
      <3>3. CASE \E tv \in 0 .. reader.tv : reader' = [reader EXCEPT !.pc = "recv", !.tv = tv]
        <4>1. PICK tv \in 0 .. reader.tv : reader' = [reader EXCEPT !.pc = "recv", !.tv = tv]
          BY <3>3
        <4>2. tv \in 0 .. 2
          BY <1>3
        <4>3. QED
          BY <1>3, <3>1, <4>1, <4>2
      <3>4. CASE reader' = [reader EXCEPT !.pos = Behind(reader.pos), !.tv = 0]
        <4>1. PICK p \in 0 .. Len(li) : p = Behind(reader.pos)
          BY <1>3
        <4>2. PICK tv \in 0 .. 2 : tv = 0
          OBVIOUS
        <4>3. reader' = [reader EXCEPT !.pos = p, !.tv = tv]
          BY <3>4, <4>1, <4>2
        <4>4. QED
          BY <1>3, <3>1, <4>3
      <3>5. QED
        BY <3>2, <3>3, <3>4
    <2>3. QED
      BY <2>1, <2>2
  <1>5. shown' \in Seq(Message) /\ conn' \in [Clients -> ConnRecord]
    BY <1>1, <1>2 DEF ClientInv, ServerInv
  <1>6. QED
    BY <1>2, <1>4, <1>5, ReaderStep

\* What getDataRecv does: n lines of a connection are shown.
LEMMA getDataRecvEffect ==
    ASSUME ClientInv, ServerInv, getDataRecv
    PROVE  \E c \in Clients : \E n \in 0 .. Len(conn[c].up) :
              LET lines == [i \in 1 .. n |-> [from |-> c, line |-> conn[c].up[i]]]
              IN /\ n \in Nat /\ alive
                 /\ shown' = shown \o lines \o (IF n = BufLines THEN <<Junk>> ELSE <<>>)
                 /\ conn' = [conn EXCEPT ![c].up = SubSeq(@, n + 1, Len(@))]
                 /\ lines \in Seq(Message)
  <1>1. reader.pos \in 1 .. Len(li) /\ alive
    <2>1. alive /\ reader.pc = "recv"
      BY Zenon DEF getDataRecv
    <2>2. reader.pos \in 0 .. Len(li) /\ reader.pos # 0 /\ Len(li) \in Nat
      BY <2>1 DEF ServerInv
    <2>3. QED
      BY <2>1, <2>2
  <1> DEFINE c == li[reader.pos]
             n == Min({BufLines, Len(conn[c].up)})
             lines == [i \in 1 .. n |-> [from |-> c, line |-> conn[c].up[i]]]
  <1>2. c \in Clients
    BY <1>1 DEF ServerInv
  <1>3. /\ shown' = shown \o lines \o (IF n = BufLines THEN <<Junk>> ELSE <<>>)
        /\ conn' = [conn EXCEPT ![c].up = SubSeq(@, n + 1, Len(@))]
    BY DEF getDataRecv
  <1> HIDE DEF c
  <1>4. conn[c].up \in Seq(Nat)
    BY <1>2, RecordFacts
  <1>5. n \in 0 .. Len(conn[c].up) /\ n \in Nat
    <2>1. \A x, y \in Nat : Min({x, y}) \in 0 .. y /\ Min({x, y}) \in Nat
      <3> SUFFICES ASSUME NEW x \in Nat, NEW y \in Nat
                   PROVE  Min({x, y}) \in 0 .. y /\ Min({x, y}) \in Nat
        OBVIOUS
      <3>1. \E z \in {x, y} : \A w \in {x, y} : z =< w
        OBVIOUS
      <3>2. Min({x, y}) \in {x, y} /\ \A w \in {x, y} : Min({x, y}) =< w
        BY <3>1 DEF Min
      <3>3. QED
        BY <3>2
    <2>2. BufLines \in Nat /\ Len(conn[c].up) \in Nat
      BY <1>4, ChatAssumption
    <2>3. QED
      BY <2>1, <2>2
  <1> HIDE DEF n
  <1>6. lines \in Seq(Message)
    <2>1. \A s \in Seq(Nat) : \A m \in 0 .. Len(s) : \A i \in 1 .. m : s[i] \in Nat
      OBVIOUS
    <2>2. \A i \in 1 .. n : [from |-> c, line |-> conn[c].up[i]] \in Message
      BY <1>2, <1>4, <1>5, <2>1 DEF Message
    <2>3. lines \in [1 .. n -> Message]
      BY <2>2
    <2>4. QED
      BY <1>5, <2>3
  <1>7. QED
    BY <1>1, <1>2, <1>3, <1>5, <1>6

\* recv in getData.
LEMMA getDataRecvStep ==
    ASSUME ChatInv, getDataRecv
    PROVE  ChatInv'
  <1>1. ClientInv /\ ServerInv
    BY DEF ChatInv
  <1>2. UNCHANGED <<client, backlog, li, sender, alive, first>>
    BY DEF getDataRecv
  <1>3. /\ reader' \in [pos : 0 .. Len(li), pc : {"select", "recv"}, tv : 0 .. 2]
        /\ reader'.pc = "recv" => reader'.pos # 0
    <2>1. /\ reader \in [pos : 0 .. Len(li), pc : {"select", "recv"}, tv : 0 .. 2]
          /\ reader.pos \in 0 .. Len(li)
      BY <1>1 DEF ServerInv
    <2>2. PICK p \in 0 .. Len(li) : p = Behind(reader.pos)
      BY <1>1, <2>1, BehindFacts
    <2>3. reader' = [reader EXCEPT !.pos = p, !.pc = "select"]
      BY <2>2 DEF getDataRecv
    <2>4. QED
      BY <2>1, <2>3
  <1>4. PICK c \in Clients, n \in Nat :
              LET lines == [i \in 1 .. n |-> [from |-> c, line |-> conn[c].up[i]]]
              IN /\ n \in 0 .. Len(conn[c].up)
                 /\ shown' = shown \o lines \o (IF n = BufLines THEN <<Junk>> ELSE <<>>)
                 /\ conn' = [conn EXCEPT ![c].up = SubSeq(@, n + 1, Len(@))]
                 /\ lines \in Seq(Message)
    BY <1>1, getDataRecvEffect
  <1>5. shown' \in Seq(Message)
    <2>1. Junk \in Message
      BY DEF Junk, Message
    <2>2. \A s, t \in Seq(Message) : /\ s \o t \o <<Junk>> \in Seq(Message)
                                     /\ s \o t \o <<>> \in Seq(Message)
      BY <2>1
    <2>3. shown \in Seq(Message)
      BY <1>1 DEF ServerInv
    <2>4. QED
      BY <1>4, <2>2, <2>3
  <1>6. /\ conn' \in [Clients -> ConnRecord]
        /\ \A d \in Clients : conn'[d].down = conn[d].down /\ conn'[d].gone = conn[d].gone
    <2>1. conn \in [Clients -> ConnRecord] /\ conn[c] \in ConnRecord /\ conn[c].up \in Seq(Nat)
      BY <1>1, RecordFacts DEF ClientInv
    <2>2. PICK x \in Seq(Nat) : x = SubSeq(conn[c].up, n + 1, Len(conn[c].up))
      <3>1. \A s \in Seq(Nat), m \in Nat : SubSeq(s, m + 1, Len(s)) \in Seq(Nat)
        OBVIOUS
      <3>2. QED
        BY <2>1, <3>1
    <2>3. conn' = [conn EXCEPT ![c] = [conn[c] EXCEPT !.up = x]]
      BY <1>4, <2>2
    <2>4. /\ [conn[c] EXCEPT !.up = x] \in ConnRecord
          /\ [conn[c] EXCEPT !.up = x].down = conn[c].down
          /\ [conn[c] EXCEPT !.up = x].gone = conn[c].gone
      BY <2>1 DEF ConnRecord
    <2>5. QED
      BY <2>1, <2>3, <2>4
  <1>7. QED
    BY <1>2, <1>3, <1>5, <1>6, ReaderStep

\* accept in getConn: the new connection is behind all others, and behind the sender.
LEMMA getConnStep ==
    ASSUME ChatInv, getConn
    PROVE  ChatInv'
  <1>1. ClientInv /\ ServerInv /\ Places /\ Reached
    BY DEF ChatInv
  <1> DEFINE c == Head(backlog)
             N == Len(li)
  <1>2. /\ backlog # <<>> /\ li' = Append(li, c) /\ backlog' = Tail(backlog)
        /\ first' = [first EXCEPT ![c] = IF sender.pos = 0 THEN sender.k + 1 ELSE sender.k]
        /\ UNCHANGED <<client, conn, reader, sender, shown, alive>>
    BY DEF getConn
  <1>3. /\ backlog \in Seq(Clients) /\ li \in Seq(Clients) /\ N \in Nat
        /\ sender.pos \in 0 .. N /\ sender.k \in Nat /\ reader.pos \in 0 .. N
        /\ first \in [Clients -> Nat]
    BY <1>1 DEF ServerInv
  <1>4. /\ c \in Range(backlog) /\ Range(backlog) = Range(Tail(backlog)) \cup {c}
        /\ NoDuplicates(Tail(backlog)) /\ c \notin Range(Tail(backlog)) /\ c \in Clients
        /\ Tail(backlog) \in Seq(Clients)
    <2>1. /\ Range(backlog) = Range(Tail(backlog)) \cup {c}
          /\ NoDuplicates(Tail(backlog)) /\ c \notin Range(Tail(backlog))
      BY <1>1, <1>2, <1>3, TailLemma DEF Places
    <2>2. c \in Clients /\ Tail(backlog) \in Seq(Clients)
      BY <1>2, <1>3
    <2>3. QED
      BY <2>1, <2>2
  <1> HIDE DEF c
  <1>5. c \notin Range(li) /\ client[c].got = <<>> /\ conn[c].down = <<>> /\ client[c].pc # "init"
    BY <1>1, <1>4 DEF Places
  <1>6. Range(li') = Range(li) \cup {c} /\ NoDuplicates(li')
    BY <1>1, <1>2, <1>3, <1>4, <1>5, AppendLemma DEF Places
  <1>7. /\ li' \in Seq(Clients) /\ Len(li') = N + 1 /\ li'[N + 1] = c
        /\ \A i \in 1 .. N : li'[i] = li[i]
    BY <1>2, <1>3, <1>4
  <1>8. ClientInv'
    BY <1>1, <1>2 DEF ClientInv
  <1>9. ServerInv'
    <2>1. 0 .. N \subseteq 0 .. N + 1
      BY <1>3
    <2>2. first' \in [Clients -> Nat]
      BY <1>2, <1>3, <1>4
    <2> HIDE DEF N
    <2>3. /\ reader \in [pos : 0 .. N, pc : {"select", "recv"}, tv : 0 .. 2]
          /\ sender \in [pos : 0 .. N, k : Nat]
      BY <1>1 DEF ServerInv, N
    <2>4. /\ reader \in [pos : 0 .. N + 1, pc : {"select", "recv"}, tv : 0 .. 2]
          /\ sender \in [pos : 0 .. N + 1, k : Nat]
      BY <2>1, <2>3
    <2>5. QED
      BY <1>1, <1>2, <1>4, <1>7, <2>2, <2>4 DEF ServerInv
  <1>10. Places'
    <2>1. Range(li') \cap Range(backlog') = {}
      BY <1>1, <1>2, <1>4, <1>6 DEF Places
    <2>2. QED
      BY <1>1, <1>2, <1>4, <1>5, <1>6, <2>1 DEF Places
  <1>11. Reached'
    <2>1. \A i \in 1 .. N + 1 : LastSent(i)' = LastSent(i)
      BY <1>2 DEF LastSent
    <2>2. ASSUME NEW i \in 1 .. N
          PROVE  /\ first'[li'[i]] <= LastSent(i) + 1
                 /\ ~conn[li'[i]].gone /\ alive =>
                        client[li'[i]].got \o conn[li'[i]].down = Numbers(first'[li'[i]], LastSent(i))
      <3>1. li'[i] = li[i] /\ li[i] \in Clients /\ li[i] # c
        BY <1>3, <1>5, <1>7 DEF Range
      <3>2. first'[li[i]] = first[li[i]]
        BY <1>2, <1>3, <3>1
      <3>3. QED
        BY <1>1, <3>1, <3>2 DEF Reached
    <2>3. /\ first'[c] <= LastSent(N + 1) + 1
          /\ client[c].got \o conn[c].down = Numbers(first'[c], LastSent(N + 1))
      <3>1. first'[c] = IF sender.pos = 0 THEN sender.k + 1 ELSE sender.k
        BY <1>2, <1>3, <1>4
      <3>2. first'[c] \in Nat /\ LastSent(N + 1) \in Int /\ first'[c] = LastSent(N + 1) + 1
        BY <1>3, <3>1 DEF LastSent
      <3>3. Numbers(first'[c], LastSent(N + 1)) = <<>>
        BY <3>2, NumbersFacts
      <3>4. QED
        BY <1>5, <3>2, <3>3
    <2>4. ASSUME NEW i \in 1 .. N + 1
          PROVE  /\ first'[li'[i]] <= LastSent(i)' + 1
                 /\ ~conn[li'[i]].gone /\ alive =>
                        client[li'[i]].got \o conn[li'[i]].down = Numbers(first'[li'[i]], LastSent(i)')
      <3>1. \A j \in Nat : \A x \in 1 .. j + 1 : x = j + 1 \/ x \in 1 .. j
        OBVIOUS
      <3>2. i = N + 1 \/ i \in 1 .. N
        BY <1>3, <3>1
      <3>3. LastSent(i)' = LastSent(i)
        BY <2>1
      <3>4. CASE i \in 1 .. N
        BY <2>2, <3>3, <3>4
      <3>5. CASE i = N + 1
        BY <1>7, <2>3, <3>3, <3>5
      <3>6. QED
        BY <3>2, <3>4, <3>5, Zenon
    <2>5. Len(li') = N + 1 /\ UNCHANGED <<client, conn, alive>>
      BY <1>2, <1>7
    <2> HIDE DEF N
    <2>6. QED
      BY <2>4, <2>5 DEF Reached
  <1>12. QED
    BY <1>8, <1>9, <1>10, <1>11 DEF ChatInv

\* fgets in sendMess: the new broadcast was sent to nobody yet.
LEMMA sendMessGetsStep ==
    ASSUME ChatInv, sendMessGets
    PROVE  ChatInv'
  <1>1. ClientInv /\ ServerInv /\ Places /\ Reached
    BY DEF ChatInv
  <1>2. /\ sender.pos = 0 /\ sender' = [pos |-> IF li = <<>> THEN 0 ELSE 1, k |-> sender.k + 1]
        /\ UNCHANGED <<client, conn, backlog, li, reader, shown, alive, first>>
    BY DEF sendMessGets
  <1>3. li \in Seq(Clients) /\ Len(li) \in Nat /\ sender.k \in Nat /\ (Len(li) # 0 <=> li # <<>>)
    BY <1>1 DEF ServerInv
  <1>4. ClientInv'
    BY <1>1, <1>2 DEF ClientInv
  <1>5. ServerInv'
    <2>1. sender' \in [pos : 0 .. Len(li), k : Nat]
      <3>1. (IF li = <<>> THEN 0 ELSE 1) \in 0 .. Len(li) /\ sender.k + 1 \in Nat
        BY <1>3
      <3>2. QED
        BY <1>2, <3>1
    <2>2. QED
      BY <1>1, <1>2, <2>1 DEF ServerInv
  <1>6. Places'
    BY <1>1, <1>2 DEF Places
  <1>7. Reached'
    <2>1. ASSUME NEW i \in 1 .. Len(li) PROVE LastSent(i)' = LastSent(i)
      <3>1. LastSent(i) = sender.k
        BY <1>2 DEF LastSent
      <3>2. li # <<>> /\ 1 \in 1 .. i
        BY <1>3
      <3>3. sender'.pos = 1 /\ sender'.k = sender.k + 1
        BY <1>2, <3>2
      <3>4. LastSent(i)' = sender'.k - 1
        <4>1. LastSent(i)' = IF sender'.pos \in 1 .. i THEN sender'.k - 1 ELSE sender'.k
          BY DEF LastSent
        <4>2. sender'.pos \in 1 .. i
          BY <3>2, <3>3, Zenon
        <4>3. QED
          BY <4>1, <4>2
      <3>5. sender'.k - 1 = sender.k
        BY <1>3, <3>3
      <3>6. QED
        BY <3>1, <3>4, <3>5
    <2>2. UNCHANGED <<client, conn, li, alive, first>>
      BY <1>2
    <2>3. QED
      BY <1>1, <2>1, <2>2 DEF Reached
  <1>8. QED
    BY <1>4, <1>5, <1>6, <1>7 DEF ChatInv

\* send in sendMess: one connection more has the current broadcast.
LEMMA sendMessSendStep ==
    ASSUME ChatInv, sendMessSend
    PROVE  ChatInv'
  <1>1. ClientInv /\ ServerInv /\ Places /\ Reached
    BY DEF ChatInv
  <1> DEFINE p == sender.pos
             k == sender.k
             c == li[p]
             q == IF conn[c].gone THEN [conn[c] EXCEPT !.reset = TRUE]
                  ELSE [conn[c] EXCEPT !.down = Append(@, k)]
  <1>2. /\ p # 0 /\ alive /\ conn' = [conn EXCEPT ![c] = q]
        /\ alive' = ~(conn[c].gone /\ conn[c].reset)
        /\ sender' = [sender EXCEPT !.pos = Behind(p)]
        /\ UNCHANGED <<client, backlog, li, reader, shown, first>>
    BY DEF sendMessSend
  <1>3. /\ p \in 1 .. Len(li) /\ k \in Nat /\ li \in Seq(Clients) /\ c \in Clients /\ Len(li) \in Nat
        /\ first \in [Clients -> Nat]
    BY <1>1, <1>2 DEF ServerInv
  <1> HIDE DEF p, k, c
  <1>4. conn[c] \in ConnRecord /\ conn[c].down \in Seq(Nat) /\ client[c].got \in Seq(Nat)
    BY <1>1, <1>3, RecordFacts
  <1>5. /\ q \in ConnRecord /\ q.gone = conn[c].gone
        /\ ~conn[c].gone => q.down = Append(conn[c].down, k)
    <2>1. PICK a \in Seq(Nat) : a = Append(conn[c].down, k)
      <3>1. \A s \in Seq(Nat) : Append(s, k) \in Seq(Nat)
        BY <1>3
      <3>2. QED
        BY <1>4, <3>1
    <2>2. q = IF conn[c].gone THEN [conn[c] EXCEPT !.reset = TRUE] ELSE [conn[c] EXCEPT !.down = a]
      BY <2>1
    <2> HIDE DEF q
    <2>3. CASE conn[c].gone
      BY <1>4, <2>2, <2>3 DEF ConnRecord
    <2>4. CASE ~conn[c].gone
      BY <1>4, <2>1, <2>2, <2>4 DEF ConnRecord
    <2>5. QED
      BY <2>3, <2>4
  <1> HIDE DEF q
  <1>6. /\ conn' \in [Clients -> ConnRecord] /\ conn'[c] = q
        /\ \A d \in Clients \ {c} : conn'[d] = conn[d]
    BY <1>1, <1>2, <1>3, <1>5 DEF ClientInv
  <1>7. ClientInv'
    BY <1>1, <1>2, <1>6 DEF ClientInv
  <1>8. sender'.pos = Behind(p) /\ sender'.k = k /\ sender' \in [pos : 0 .. Len(li), k : Nat]
    <2>1. sender \in [pos : 0 .. Len(li), k : Nat] /\ p \in 0 .. Len(li)
      BY <1>1, <1>3 DEF ServerInv
    <2>2. PICK b \in 0 .. Len(li) : b = Behind(p)
      BY <1>1, <2>1, BehindFacts
    <2>3. sender' = [sender EXCEPT !.pos = b]
      BY <1>2, <2>2
    <2>4. QED
      BY <2>1, <2>2, <2>3 DEF k
  <1>9. ServerInv'
    <2>1. alive' \in BOOLEAN
      BY <1>2
    <2>2. QED
      BY <1>1, <1>2, <1>8, <2>1 DEF ServerInv
  <1>10. c \in Range(li)
    BY <1>3 DEF Range, c
  <1>11. Places'
    <2>1. \A d \in Clients \ Range(li) : conn'[d].down = conn[d].down
      BY <1>6, <1>10
    <2>2. QED
      BY <1>1, <1>2, <2>1 DEF Places
  <1>12. Reached'
    <2>1. ASSUME NEW i \in 1 .. Len(li)
          PROVE  /\ first[li[i]] <= LastSent(i)' + 1
                 /\ ~conn'[li[i]].gone =>
                        client[li[i]].got \o conn'[li[i]].down = Numbers(first[li[i]], LastSent(i)')
      <3>1. LastSent(i) = IF p \in 1 .. i THEN k - 1 ELSE k
        BY DEF LastSent, p, k
      <3>2. LastSent(i)' = IF Behind(p) \in 1 .. i THEN k - 1 ELSE k
        BY <1>8 DEF LastSent
      <3>3. /\ first[li[i]] <= LastSent(i) + 1 /\ li[i] \in Clients
            /\ ~conn[li[i]].gone =>
                   client[li[i]].got \o conn[li[i]].down = Numbers(first[li[i]], LastSent(i))
        <4>1. li[i] \in Clients
          BY <1>3
        <4>2. QED
          BY <1>1, <1>2, <4>1 DEF Reached
      <3>4. CASE i # p
        <4>1. li[i] # c
          BY <1>1, <1>3, <3>4 DEF Places, NoDuplicates, c
        <4>2. conn'[li[i]] = conn[li[i]]
          BY <1>6, <3>3, <4>1
        <4>3. LastSent(i)' = LastSent(i)
          <5>1. Behind(p) \in 1 .. i <=> p \in 1 .. i
            BY <1>3, <3>4 DEF Behind
          <5>2. QED
            BY <3>1, <3>2, <5>1
        <4>4. QED
          BY <3>3, <4>2, <4>3
      <3>5. CASE i = p
        <4>1. li[i] = c
          BY <3>5 DEF c
        <4>2. LastSent(i) = k - 1 /\ LastSent(i)' = k
          <5>1. p \in 1 .. i /\ Behind(p) \notin 1 .. i
            BY <1>3, <3>5 DEF Behind
          <5>2. QED
            BY <3>1, <3>2, <5>1
        <4>3. first[c] \in Nat /\ k - 1 \in Int /\ first[c] <= k - 1 + 1 /\ k - 1 + 1 = k
          BY <1>3, <3>3, <4>1, <4>2
        <4>4. Append(Numbers(first[c], k - 1), k) = Numbers(first[c], k)
          <5>1. Append(Numbers(first[c], k - 1), k - 1 + 1) = Numbers(first[c], k - 1 + 1)
            BY <4>3, NumbersFacts
          <5>2. QED
            BY <4>3, <5>1
        <4>5. ~conn'[c].gone => client[c].got \o conn'[c].down = Numbers(first[c], k)
          <5> SUFFICES ASSUME ~conn'[c].gone
                       PROVE  client[c].got \o conn'[c].down = Numbers(first[c], k)
            OBVIOUS
          <5>1. ~conn[c].gone /\ conn'[c].down = Append(conn[c].down, k)
            BY <1>5, <1>6
          <5>2. client[c].got \o Append(conn[c].down, k) = Append(client[c].got \o conn[c].down, k)
            <6>1. \A s, u \in Seq(Nat), x \in Nat : s \o Append(u, x) = Append(s \o u, x)
              <7> SUFFICES ASSUME NEW s \in Seq(Nat), NEW u \in Seq(Nat), NEW x \in Nat
                           PROVE  s \o Append(u, x) = Append(s \o u, x)
                OBVIOUS
              <7>1. QED
                BY ConcatAppend
            <6>2. QED
              BY <1>3, <1>4, <6>1, Zenon
          <5>3. client[c].got \o conn[c].down = Numbers(first[c], k - 1)
            BY <3>3, <4>1, <4>2, <5>1
          <5>4. QED
            BY <4>4, <5>1, <5>2, <5>3, Zenon
        <4>6. first[c] <= k + 1
          BY <1>3, <4>3
        <4>7. QED
          BY <4>1, <4>2, <4>5, <4>6
      <3>6. QED
        BY <3>4, <3>5
    <2>2. UNCHANGED <<client, li, first>>
      BY <1>2
    <2>3. QED
      BY <2>1, <2>2 DEF Reached
  <1>13. QED
    BY <1>7, <1>9, <1>11, <1>12 DEF ChatInv

\* The invariant holds in every reachable state.
LEMMA ChatInvHolds == Spec => []ChatInv
  <1>1. Init => ChatInv
    <2> SUFFICES ASSUME Init PROVE ChatInv
      OBVIOUS
    <2>0. <<>> \in Seq(Nat) /\ <<>> \in Seq(Clients) /\ <<>> \in Seq(Message) /\ Len(<<>>) = 0
      OBVIOUS
    <2>1. ClientInv
      <3>1. /\ client = [c \in Clients |-> [pc |-> "init", rfds |-> {}, typed |-> 0,
                                    kernel |-> <<>>, stdin |-> <<>>, got |-> <<>>]]
            /\ conn = [c \in Clients |-> [up |-> <<>>, down |-> <<>>, gone |-> FALSE, reset |-> FALSE]]
        BY DEF Init
      <3>2. [pc |-> "init", rfds |-> {}, typed |-> 0, kernel |-> <<>>, stdin |-> <<>>, got |-> <<>>]
                \in ClientRecord
        BY <2>0 DEF ClientRecord
      <3>3. [up |-> <<>>, down |-> <<>>, gone |-> FALSE, reset |-> FALSE] \in ConnRecord
        BY <2>0 DEF ConnRecord
      <3>4. \A c \in Clients : client[c].rfds = {}
        BY <3>1
      <3>5. QED
        BY <3>1, <3>2, <3>3, <3>4 DEF ClientInv
    <2>2. ServerInv
      BY <2>0 DEF Init, ServerInv
    <2>3. Places
      <3>1. li = <<>> /\ backlog = <<>> /\ Range(<<>>) = {} /\ NoDuplicates(<<>>)
        BY DEF Init, Range, NoDuplicates
      <3>2. \A c \in Clients : client[c].got = <<>> /\ conn[c].down = <<>>
        BY DEF Init
      <3>3. QED
        BY <3>1, <3>2 DEF Places
    <2>4. Reached
      BY <2>0 DEF Init, Reached
    <2>5. QED
      BY <2>1, <2>2, <2>3, <2>4 DEF ChatInv
  <1>2. ChatInv /\ [Next]_vars => ChatInv'
    <2> SUFFICES ASSUME ChatInv, [Next]_vars PROVE ChatInv'
      OBVIOUS
    <2>1. ClientInv
      BY DEF ChatInv
    <2>2. ASSUME NEW c \in Clients, Connect(c) PROVE ChatInv'
      BY <2>2, ConnectStep
    <2>3. ASSUME NEW c \in Clients, Type(c) \/ ClientLoop(c) \/ Kill(c) PROVE ChatInv'
      <3>1. ClientsOnly
        BY <2>1, <2>3, TypeStep, ClientSelectStep, ClientRecvStep, ClientSendStep, KillStep
           DEF ClientLoop
      <3>2. QED
        BY <3>1, ClientStep
    <2>4. CASE getConn
      BY <2>4, getConnStep
    <2>5. CASE getData
      BY <2>5, getDataSelectStep, getDataRecvStep DEF getData
    <2>6. CASE sendMessGets \/ sendMessSend
      BY <2>6, sendMessGetsStep, sendMessSendStep
    <2>7. CASE UNCHANGED vars
      <3>1. ClientsOnly
        BY <2>1, <2>7 DEF vars, ClientsOnly, ClientInv, server
      <3>2. QED
        BY <3>1, ClientStep
    <2>8. QED
      BY <2>2, <2>3, <2>4, <2>5, <2>6, <2>7 DEF Next
  <1>3. QED
    BY <1>1, <1>2, PTL DEF Spec

\* Every client in the list gets the broadcasts in order, each once and none left out,
\* for any number of clients and broadcasts: BroadcastsReachEveryone.
THEOREM BroadcastsArrive == Spec => []BroadcastsReachEveryone
  <1>1. ChatInv => BroadcastsReachEveryone
    <2> SUFFICES ASSUME ChatInv PROVE BroadcastsReachEveryone
      OBVIOUS
    <2>1. ClientInv /\ ServerInv /\ Reached
      BY DEF ChatInv
    <2>2. TypeOK
      BY <2>1 DEF ClientInv, ClientRecord, ServerInv, TypeOK
    <2>3. DOMAIN li = 1 .. Len(li)
      BY <2>1 DEF ServerInv
    <2>4. QED
      BY <2>1, <2>2, <2>3 DEF BroadcastsReachEveryone, Reached, LastSent
  <1>2. QED
    BY <1>1, ChatInvHolds, PTL
-----------------------------------------------------------------------------
(* The lines from the keyboards to the server's screen. *)

\* Beginnings of sequences.
LEMMA PrefixFacts ==
    ASSUME NEW S, NEW s \in Seq(S), NEW t \in Seq(S)
    PROVE  /\ IsPrefix(s, s \o t)
           /\ IsPrefix(s, t) => \A x \in S : IsPrefix(s, Append(t, x))
  <1>1. IsPrefix(s, s \o t)
    <2>1. Len(s) \in Nat /\ Len(t) \in Nat /\ Len(s \o t) = Len(s) + Len(t)
      OBVIOUS
    <2>2. SubSeq(s \o t, 1, Len(s)) = SubSeq(s, 1, Len(s))
      OBVIOUS
    <2>3. QED
      BY <2>1, <2>2 DEF IsPrefix
  <1>2. ASSUME IsPrefix(s, t), NEW x \in S PROVE IsPrefix(s, Append(t, x))
    <2>1. /\ Len(s) \in Nat /\ Len(t) \in Nat /\ Len(Append(t, x)) = Len(t) + 1
          /\ Len(s) <= Len(t) /\ SubSeq(s, 1, Len(s)) = SubSeq(t, 1, Len(s))
      BY <1>2 DEF IsPrefix
    <2>2. SubSeq(Append(t, x), 1, Len(s)) = SubSeq(t, 1, Len(s))
      BY <2>1
    <2>3. QED
      BY <2>1, <2>2 DEF IsPrefix
  <1>3. QED
    BY <1>1, <1>2

\* The lines of messages, one after the other.
LEMMA LinesOfFacts ==
    ASSUME NEW q \in Seq(Message), NEW r \in Seq(Message)
    PROVE  /\ LinesOf(q) \in Seq(Nat) /\ Len(LinesOf(q)) = Len(q)
           /\ LinesOf(q \o r) = LinesOf(q) \o LinesOf(r)
  <1>1. \A m \in Seq(Message) :
            /\ LinesOf(m) \in Seq(Nat) /\ Len(LinesOf(m)) = Len(m)
            /\ \A i \in 1 .. Len(m) : LinesOf(m)[i] = m[i].line
    <2> SUFFICES ASSUME NEW m \in Seq(Message)
                 PROVE  /\ LinesOf(m) \in Seq(Nat) /\ Len(LinesOf(m)) = Len(m)
                        /\ \A i \in 1 .. Len(m) : LinesOf(m)[i] = m[i].line
      OBVIOUS
    <2>1. Len(m) \in Nat /\ DOMAIN m = 1 .. Len(m) /\ \A i \in 1 .. Len(m) : m[i] \in Message
      OBVIOUS
    <2>2. \A i \in 1 .. Len(m) : m[i].line \in Nat
      BY <2>1 DEF Message
    <2>3. LinesOf(m) \in [1 .. Len(m) -> Nat]
      BY <2>1, <2>2 DEF LinesOf
    <2>4. QED
      BY <2>1, <2>3 DEF LinesOf
  <1> DEFINE a == LinesOf(q)
             b == LinesOf(r)
             e == LinesOf(q \o r)
  <1>2. /\ a \in Seq(Nat) /\ Len(a) = Len(q) /\ \A i \in 1 .. Len(q) : a[i] = q[i].line
        /\ b \in Seq(Nat) /\ Len(b) = Len(r) /\ \A i \in 1 .. Len(r) : b[i] = r[i].line
    BY <1>1
  <1>3. /\ q \o r \in Seq(Message) /\ Len(q) \in Nat /\ Len(r) \in Nat
        /\ Len(q \o r) = Len(q) + Len(r)
        /\ \A i \in 1 .. Len(q) : (q \o r)[i] = q[i]
        /\ \A i \in Len(q) + 1 .. Len(q) + Len(r) : (q \o r)[i] = r[i - Len(q)]
    OBVIOUS
  <1>4. /\ e \in Seq(Nat) /\ Len(e) = Len(q) + Len(r)
        /\ \A i \in 1 .. Len(q) + Len(r) : e[i] = (q \o r)[i].line
    BY <1>1, <1>3
  <1> HIDE DEF a, b, e
  <1>5. /\ a \o b \in Seq(Nat) /\ Len(a \o b) = Len(q) + Len(r)
        /\ \A i \in 1 .. Len(q) + Len(r) :
               (a \o b)[i] = IF i <= Len(q) THEN a[i] ELSE b[i - Len(q)]
    <2>1. \A x, y \in Seq(Nat) :
              /\ x \o y \in Seq(Nat) /\ Len(x \o y) = Len(x) + Len(y)
              /\ \A i \in 1 .. Len(x) + Len(y) :
                     (x \o y)[i] = IF i <= Len(x) THEN x[i] ELSE y[i - Len(x)]
      BY ConcatProperties
    <2>2. /\ a \o b \in Seq(Nat) /\ Len(a \o b) = Len(a) + Len(b)
          /\ \A i \in 1 .. Len(a) + Len(b) :
                 (a \o b)[i] = IF i <= Len(a) THEN a[i] ELSE b[i - Len(a)]
      BY <1>2, <2>1, Zenon
    <2>3. QED
      BY <1>2, <2>2, Zenon
  <1>6. ASSUME NEW i \in 1 .. Len(q) + Len(r) PROVE e[i] = (a \o b)[i]
    <2>1. CASE i <= Len(q)
      <3>1. i \in 1 .. Len(q)
        BY <1>3, <2>1
      <3>2. e[i] = q[i].line
        BY <1>3, <1>4, <3>1
      <3>3. QED
        BY <1>2, <1>3, <1>5, <3>1, <3>2
    <2>2. CASE ~(i <= Len(q))
      <3>1. i \in Len(q) + 1 .. Len(q) + Len(r) /\ i - Len(q) \in 1 .. Len(r)
        BY <1>3, <2>2
      <3>2. e[i] = r[i - Len(q)].line
        BY <1>3, <1>4, <3>1
      <3>3. (a \o b)[i] = b[i - Len(q)]
        BY <1>5, <2>2
      <3>4. QED
        BY <1>2, <3>1, <3>2, <3>3, Zenon
    <2>3. QED
      BY <2>1, <2>2
  <1>7. e = a \o b
    BY <1>3, <1>4, <1>6, <1>5, SeqEqual
  <1>8. QED
    BY <1>2, <1>7 DEF a, b, e

\* What is shown of a client are numbers.
LEMMA ShownType ==
    ASSUME shown \in Seq(Message), NEW c \in Clients
    PROVE  Shown(c) \in Seq(Nat)
  <1>1. Keep(shown, [from : {c}, line : Nat]) \in Seq(Message)
    BY KeepType
  <1>2. QED
    BY <1>1, LinesOfFacts DEF Shown

(* A step that neither moves nor adds a line. *)
LinesAlone ==
    /\ shown' = shown /\ (alive' => alive)
    /\ \A d \in Clients : /\ conn'[d].up = conn[d].up /\ client'[d].stdin = client[d].stdin
                          /\ client'[d].kernel = client[d].kernel /\ client'[d].typed = client[d].typed

\* Such a step keeps the lines in order, also when it ends the server.
LEMMA LinesAloneStep ==
    ASSUME ClientInv, ServerInv, LinesInOrder, LinesAlone
    PROVE  LinesInOrder'
  <1> SUFFICES ASSUME NEW c \in Clients
               PROVE  LET sent == Shown(c)' \o conn'[c].up
                      IN IF alive' THEN sent \o client'[c].stdin \o client'[c].kernel
                                            = Numbers(1, client'[c].typed)
                         ELSE IsPrefix(sent, Numbers(1, client'[c].typed))
    BY DEF LinesInOrder
  <1> DEFINE s == Shown(c)
             u == conn[c].up
             b == client[c].stdin
             k == client[c].kernel
             t == Numbers(1, client[c].typed)
  <1>1. /\ Shown(c)' = s /\ conn'[c].up = u /\ client'[c].stdin = b /\ client'[c].kernel = k
        /\ Numbers(1, client'[c].typed) = t
    BY DEF LinesAlone, Shown
  <1>2. s \in Seq(Nat) /\ u \in Seq(Nat) /\ b \in Seq(Nat) /\ k \in Seq(Nat)
    BY RecordFacts, ShownType DEF ServerInv
  <1>3. IF alive THEN s \o u \o b \o k = t ELSE IsPrefix(s \o u, t)
    BY DEF LinesInOrder
  <1> HIDE DEF s, u, b, k, t
  <1>4. IsPrefix(s \o u, s \o u \o b \o k)
    <2>1. s \o u \in Seq(Nat) /\ b \o k \in Seq(Nat)
      BY <1>2
    <2>2. (s \o u) \o b \o k = (s \o u) \o (b \o k)
      BY <1>2, <2>1, ConcatAssociative, SMTT(30)
    <2>3. IsPrefix(s \o u, (s \o u) \o (b \o k))
      BY <2>1, PrefixFacts
    <2>4. QED
      BY <2>2, <2>3
  <1>5. alive' => alive
    BY DEF LinesAlone
  <1>6. QED
    BY <1>1, <1>3, <1>4, <1>5, Zenon
\* The steps of a client that move no line.
LEMMA ClientLinesAlone ==
    ASSUME ClientInv, NEW c \in Clients, Connect(c) \/ ClientSelect(c) \/ ClientRecv(c) \/ Kill(c)
    PROVE  LinesAlone
  <1>1. client[c] \in ClientRecord /\ conn[c] \in ConnRecord
    BY RecordFacts
  <1>2. client \in [Clients -> ClientRecord] /\ conn \in [Clients -> ConnRecord]
    BY DEF ClientInv
  <1>3. CASE Connect(c)
    BY <1>1, <1>2, <1>3 DEF Connect, LinesAlone, ClientRecord
  <1>4. CASE ClientSelect(c)
    BY <1>1, <1>2, <1>4 DEF ClientSelect, LinesAlone, ClientRecord, server
  <1>5. CASE ClientRecv(c)
    <2>1. PICK s \in ClientRecord : s = Served(c, "sock")
      BY ServedFacts
    <2>2. s.stdin = client[c].stdin /\ s.kernel = client[c].kernel /\ s.typed = client[c].typed
      BY <2>1, ServedFacts
    <2> DEFINE g == IF conn[c].down = <<>> THEN s.got ELSE Append(s.got, Head(conn[c].down))
               r == [s EXCEPT !.got = g]
               q == [conn[c] EXCEPT !.down = IF @ = <<>> THEN @ ELSE Tail(@)]
    <2>3. /\ client' = [client EXCEPT ![c] = r] /\ conn' = [conn EXCEPT ![c] = q]
          /\ shown' = shown /\ alive' = alive
      BY <1>5, <2>1 DEF ClientRecv, server
    <2>4. r.stdin = s.stdin /\ r.kernel = s.kernel /\ r.typed = s.typed /\ q.up = conn[c].up
      <3> HIDE DEF g
      <3>1. QED
        BY <1>1 DEF ClientRecord, ConnRecord
    <2> HIDE DEF r, q
    <2>5. /\ client'[c] = r /\ conn'[c] = q
          /\ \A d \in Clients \ {c} : client'[d] = client[d] /\ conn'[d] = conn[d]
      BY <1>2, <2>3
    <2>6. QED
      BY <2>2, <2>3, <2>4, <2>5 DEF LinesAlone
  <1>6. CASE Kill(c)
    BY <1>1, <1>2, <1>6 DEF Kill, LinesAlone, ClientRecord, ConnRecord, server
  <1>7. QED
    BY <1>3, <1>4, <1>5, <1>6

\* The steps of the server that move no line.
LEMMA ServerLinesAlone ==
    ASSUME ClientInv, ServerInv,
           getConn \/ getDataBegin \/ getDataSelect \/ sendMessGets \/ sendMessSend
    PROVE  LinesAlone
  <1>1. CASE getConn \/ getDataBegin \/ getDataSelect \/ sendMessGets
    BY <1>1 DEF getConn, getDataBegin, getDataSelect, sendMessGets, LinesAlone
  <1>2. CASE sendMessSend
    <2> DEFINE c == li[sender.pos]
    <2>1. c \in Clients /\ client' = client /\ shown' = shown /\ alive
      BY <1>2 DEF sendMessSend, ServerInv
    <2>2. \/ conn' = [conn EXCEPT ![c].reset = TRUE]
          \/ conn' = [conn EXCEPT ![c].down = Append(@, sender.k)]
      BY <1>2 DEF sendMessSend
    <2> HIDE DEF c
    <2>3. conn \in [Clients -> ConnRecord] /\ conn[c] \in ConnRecord
      BY <2>1 DEF ClientInv
    <2>4. \A d \in Clients : conn'[d].up = conn[d].up
      BY <2>2, <2>3, ZenonT(40) DEF ConnRecord
    <2>5. QED
      BY <2>1, <2>4 DEF LinesAlone
  <1>3. QED
    BY <1>1, <1>2
(* LinesInOrder, for one client. *)
InOrder(c) ==
    LET sent == Shown(c) \o conn[c].up
    IN IF alive THEN sent \o client[c].stdin \o client[c].kernel = Numbers(1, client[c].typed)
       ELSE IsPrefix(sent, Numbers(1, client[c].typed))

\* A typed line comes behind all the others.
LEMMA TypeLines ==
    ASSUME ClientInv, ServerInv, LinesInOrder, NEW c \in Clients, Type(c)
    PROVE  LinesInOrder'
  <1> DEFINE n == client[c].typed
             s == Shown(c)
             u == conn[c].up
             b == client[c].stdin
             k == client[c].kernel
  <1>1. /\ client' = [client EXCEPT ![c].typed = n + 1, ![c].kernel = Append(@, n + 1)]
        /\ conn' = conn /\ shown' = shown /\ alive' = alive
    BY DEF Type, server
  <1>2. /\ s \in Seq(Nat) /\ u \in Seq(Nat) /\ b \in Seq(Nat) /\ k \in Seq(Nat) /\ n \in Nat
        /\ client[c] \in ClientRecord
    BY RecordFacts, ShownType DEF ServerInv
  <1>3. /\ client'[c].stdin = b /\ client'[c].kernel = Append(k, n + 1) /\ client'[c].typed = n + 1
        /\ \A d \in Clients \ {c} : client'[d] = client[d]
    BY <1>1, <1>2 DEF ClientInv, ClientRecord
  <1>4. \A d \in Clients : Shown(d)' = Shown(d)
    BY <1>1 DEF Shown
  <1>5. IF alive THEN ((s \o u) \o b) \o k = Numbers(1, n) ELSE IsPrefix(s \o u, Numbers(1, n))
    BY DEF LinesInOrder
  <1> HIDE DEF n, s, u, b, k
  <1>6. Numbers(1, n) \in Seq(Nat) /\ Append(Numbers(1, n), n + 1) = Numbers(1, n + 1) /\ n + 1 \in Nat
    <2>1. 1 \in Nat /\ n \in Int /\ 1 <= n + 1 /\ n + 1 \in Nat
      BY <1>2
    <2>2. QED
      BY <2>1, NumbersFacts
  <1>7. s \o u \in Seq(Nat) /\ (s \o u) \o b \in Seq(Nat)
    BY <1>2, ConcatProperties
  <1>8. alive => ((s \o u) \o b) \o Append(k, n + 1) = Numbers(1, n + 1)
    <2>1. \A x, y \in Seq(Nat), m \in Nat : x \o Append(y, m) = Append(x \o y, m)
      BY ConcatAppend
    <2>2. ((s \o u) \o b) \o Append(k, n + 1) = Append(((s \o u) \o b) \o k, n + 1)
      BY <1>2, <1>6, <1>7, <2>1, Zenon
    <2>3. QED
      BY <1>5, <1>6, <2>2, Zenon
  <1>9. ~alive => IsPrefix(s \o u, Numbers(1, n + 1))
    <2>1. \A x, y \in Seq(Nat), m \in Nat : IsPrefix(x, y) => IsPrefix(x, Append(y, m))
      BY PrefixFacts
    <2>2. QED
      BY <1>5, <1>6, <1>7, <2>1, Zenon
  <1>10. InOrder(c)'
    <2>1. Shown(c)' = s /\ conn'[c].up = u
      BY <1>1, <1>4 DEF s, u
    <2>2. QED
      BY <1>1, <1>3, <1>8, <1>9, <2>1, Zenon DEF InOrder
  <1>11. \A d \in Clients \ {c} : InOrder(d)'
    BY <1>1, <1>3, <1>4 DEF LinesInOrder, InOrder
  <1>12. QED
    BY <1>10, <1>11 DEF LinesInOrder, InOrder

\* fgets and send move the first line that was not sent; without a server it is lost,
\* and none of the lines after it is sent any more.
LEMMA ClientSendLines ==
    ASSUME ClientInv, ServerInv, LinesInOrder, NEW c \in Clients, ClientSend(c)
    PROVE  LinesInOrder'
  <1> DEFINE f == Fgets(c)
             s == Shown(c)
             u == conn[c].up
             b == client[c].stdin
             k == client[c].kernel
  <1>1. /\ k # <<>> /\ shown' = shown /\ alive' = alive
        /\ client'[c].stdin = f.stdin /\ client'[c].kernel = f.kernel
        /\ client'[c].typed = client[c].typed
        /\ conn'[c].up = IF alive THEN Append(u, f.line) ELSE u
        /\ \A d \in Clients \ {c} : client'[d] = client[d] /\ conn'[d] = conn[d]
    BY ClientSendEffect DEF server
  <1>2. s \in Seq(Nat) /\ u \in Seq(Nat)
    BY RecordFacts, ShownType DEF ServerInv
  <1>3. /\ f.line \in Nat
        /\ \A x \in Seq(Nat) : (Append(x, f.line) \o f.stdin) \o f.kernel = (x \o b) \o k
    BY <1>1, FgetsFacts
  <1>4. \A d \in Clients : Shown(d)' = Shown(d)
    BY <1>1 DEF Shown
  <1>5. IF alive THEN ((s \o u) \o b) \o k = Numbers(1, client[c].typed)
        ELSE IsPrefix(s \o u, Numbers(1, client[c].typed))
    BY DEF LinesInOrder
  <1>6. Shown(c)' = s
    BY <1>4
  <1> HIDE DEF f, s, u, b, k
  <1>7. s \o Append(u, f.line) = Append(s \o u, f.line) /\ s \o u \in Seq(Nat)
    BY <1>2, <1>3, ConcatAppend, ConcatProperties
  <1>8. (Append(s \o u, f.line) \o f.stdin) \o f.kernel = ((s \o u) \o b) \o k
    BY <1>3, <1>7, Zenon
  <1>9. InOrder(c)'
    BY <1>1, <1>5, <1>6, <1>7, <1>8, Zenon DEF InOrder
  <1>10. \A d \in Clients \ {c} : InOrder(d)'
    BY <1>1, <1>4 DEF LinesInOrder, InOrder
  <1>11. QED
    BY <1>9, <1>10 DEF LinesInOrder, InOrder
\* What getDataRecv reads of a connection it shows, and nothing of the others.
LEMMA RecvLines ==
    ASSUME ClientInv, ServerInv, LinesInOrder, getDataRecv
    PROVE  LinesInOrder'
  <1>1. PICK c \in Clients, n \in Nat :
            LET lines == [i \in 1 .. n |-> [from |-> c, line |-> conn[c].up[i]]]
            IN /\ n \in 0 .. Len(conn[c].up)
               /\ shown' = shown \o lines \o (IF n = BufLines THEN <<Junk>> ELSE <<>>)
               /\ conn' = [conn EXCEPT ![c].up = SubSeq(@, n + 1, Len(@))]
               /\ lines \in Seq(Message)
    BY getDataRecvEffect, Zenon
  <1> DEFINE u == conn[c].up
             lines == [i \in 1 .. n |-> [from |-> c, line |-> u[i]]]
             junk == IF n = BufLines THEN <<Junk>> ELSE <<>>
             Own(d) == [from : {d}, line : Nat]
  <1>2. u \in Seq(Nat) /\ Len(u) \in Nat /\ n <= Len(u) /\ lines \in Seq(Message) /\ conn[c] \in ConnRecord
    BY <1>1, RecordFacts
  <1>3. shown \in Seq(Message) /\ shown' = (shown \o lines) \o junk /\ alive' = alive /\ client' = client
    BY <1>1 DEF ServerInv, getDataRecv
  <1>4. conn'[c].up = SubSeq(u, n + 1, Len(u)) /\ \A d \in Clients \ {c} : conn'[d] = conn[d]
    BY <1>1, <1>2 DEF ClientInv, ConnRecord
  <1>5. junk \in Seq(Message) /\ \A d \in Clients : Range(junk) \cap Own(d) = {}
    <2>1. Junk \in Message /\ \A d \in Clients : Junk \notin Own(d)
      BY ChatAssumption DEF Junk, Message
    <2>2. <<Junk>> \in Seq(Message) /\ <<>> \in Seq(Message)
      BY <2>1
    <2>3. Range(<<Junk>>) = {Junk} /\ Range(<<>>) = {}
      BY DEF Range
    <2>4. junk = <<Junk>> \/ junk = <<>>
      OBVIOUS
    <2> HIDE DEF junk, Own
    <2>5. QED
      BY <2>1, <2>2, <2>3, <2>4
  <1>6. /\ Range(lines) \subseteq Own(c)
        /\ \A d \in Clients \ {c} : Range(lines) \cap Own(d) = {}
    <2>1. DOMAIN lines = 1 .. n /\ \A i \in 1 .. n : u[i] \in Nat
      BY <1>2
    <2>2. \A x \in Range(lines) : \E i \in 1 .. n : x = [from |-> c, line |-> u[i]]
      BY <2>1 DEF Range
    <2>3. \A x \in Range(lines) : x.from = c /\ x \in Own(c)
      <3> HIDE DEF lines
      <3>1. QED
        BY <2>1, <2>2
    <2>4. \A d \in Clients : \A x \in Own(d) : x.from = d
      OBVIOUS
    <2>5. QED
      BY <2>3, <2>4
  <1>7. LinesOf(lines) = SubSeq(u, 1, n)
    <2> DEFINE a == LinesOf(lines)
               e == SubSeq(u, 1, n)
    <2>1. a = [i \in 1 .. n |-> u[i]]
      BY DEF LinesOf
    <2>2. e = [i \in 1 .. n |-> u[i]]
      BY <1>2
    <2>3. QED
      BY <2>1, <2>2
  <1> HIDE DEF u, lines, junk, Own
  <1>8. ASSUME NEW d \in Clients
        PROVE  Keep(shown', Own(d)) = Keep(shown, Own(d)) \o Keep(lines, Own(d))
    <2>1. \A q, r \in Seq(Message) : /\ Keep(q \o r, Own(d)) = Keep(q, Own(d)) \o Keep(r, Own(d))
                                     /\ q \o r \in Seq(Message) /\ Keep(q, Own(d)) \in Seq(Message)
                                     /\ q \o <<>> = q
      <3>1. \A q, r \in Seq(Message) : Keep(q \o r, Own(d)) = Keep(q, Own(d)) \o Keep(r, Own(d))
        BY KeepConcat
      <3>2. \A q \in Seq(Message) : Keep(q, Own(d)) \in Seq(Message)
        BY KeepType
      <3>3. \A q, r \in Seq(Message) : q \o r \in Seq(Message) /\ q \o <<>> = q
        OBVIOUS
      <3>4. QED
        BY <3>1, <3>2, <3>3, Zenon
    <2>2. Keep(junk, Own(d)) = <<>>
      BY <1>5, KeepNone
    <2>3. /\ Keep(shown \o lines, Own(d)) \in Seq(Message)
          /\ Keep(shown', Own(d)) = Keep(shown \o lines, Own(d)) \o <<>>
      <3>1. shown \o lines \in Seq(Message)
        BY <1>2, <1>3, <2>1, Zenon
      <3>2. Keep((shown \o lines) \o junk, Own(d))
                = Keep(shown \o lines, Own(d)) \o Keep(junk, Own(d))
        BY <1>5, <2>1, <3>1, Zenon
      <3>3. QED
        BY <1>3, <2>1, <2>2, <3>1, <3>2, Zenon
    <2>4. Keep(shown', Own(d)) = Keep(shown \o lines, Own(d))
      BY <2>1, <2>3, Zenon
    <2>5. QED
      BY <1>2, <1>3, <2>1, <2>4, Zenon
  <1>9. ASSUME NEW d \in Clients \ {c} PROVE Shown(d)' = Shown(d)
    <2>1. Keep(lines, Own(d)) = <<>>
      BY <1>2, <1>6, KeepNone
    <2>2. Keep(shown, Own(d)) \in Seq(Message)
      BY <1>3, KeepType
    <2>3. Keep(shown', Own(d)) = Keep(shown, Own(d))
      BY <1>8, <2>1, <2>2, ConcatEmptySeq
    <2>4. QED
      BY <2>3 DEF Shown, Own
  <1>10. Shown(c)' = Shown(c) \o SubSeq(u, 1, n)
    <2>1. Keep(lines, Own(c)) = lines
      BY <1>2, <1>6, KeepAll
    <2>2. Keep(shown, Own(c)) \in Seq(Message)
      BY <1>3, KeepType
    <2>3. LinesOf(Keep(shown', Own(c))) = LinesOf(Keep(shown, Own(c))) \o LinesOf(lines)
      BY <1>2, <1>8, <2>1, <2>2, LinesOfFacts
    <2>4. QED
      BY <1>7, <2>3 DEF Shown, Own
  <1>11. Shown(c)' \o conn'[c].up = Shown(c) \o u
    <2>1. Shown(c) \in Seq(Nat)
      BY <1>3, ShownType
    <2>2. /\ SubSeq(u, 1, n) \in Seq(Nat) /\ SubSeq(u, n + 1, Len(u)) \in Seq(Nat)
          /\ SubSeq(u, 1, n) \o SubSeq(u, n + 1, Len(u)) = u
      <3>1. 1 \in 1 .. Len(u) + 1 /\ n \in 1 - 1 .. Len(u) /\ Len(u) \in n .. Len(u)
        BY <1>2
      <3>2. SubSeq(u, 1, n) \in Seq(Nat) /\ SubSeq(u, n + 1, Len(u)) \in Seq(Nat)
        BY <1>2, SubSeqProperties
      <3>3. SubSeq(u, 1, Len(u)) = u
        BY <1>2, SubSeqFull
      <3>4. SubSeq(u, 1, n) \o SubSeq(u, n + 1, Len(u)) = SubSeq(u, 1, Len(u))
        BY <1>2, <3>1, ConcatAdjacentSubSeq
      <3>5. QED
        BY <3>2, <3>3, <3>4
    <2>3. (Shown(c) \o SubSeq(u, 1, n)) \o SubSeq(u, n + 1, Len(u)) = Shown(c) \o u
      <3>1. \A x, y, z \in Seq(Nat) : (x \o y) \o z = x \o (y \o z)
        BY ConcatAssociative
      <3>2. (Shown(c) \o SubSeq(u, 1, n)) \o SubSeq(u, n + 1, Len(u))
                = Shown(c) \o (SubSeq(u, 1, n) \o SubSeq(u, n + 1, Len(u)))
        BY <2>1, <2>2, <3>1, Zenon
      <3>3. QED
        BY <2>2, <3>2, Zenon
    <2>4. QED
      BY <1>4, <1>10, <2>3
  <1>12. InOrder(c)'
    <2>1. InOrder(c)
      BY DEF LinesInOrder, InOrder
    <2>2. QED
      BY <1>3, <1>11, <2>1, Zenon DEF InOrder, u
  <1>13. \A d \in Clients \ {c} : InOrder(d)'
    BY <1>3, <1>4, <1>9 DEF LinesInOrder, InOrder
  <1>14. QED
    BY <1>12, <1>13 DEF LinesInOrder, InOrder

\* What is typed at the clients appears at the server in order, each line once and none
\* left out, for any number of clients, lines and sizes of the buffer: LinesInOrder.
THEOREM LinesStayInOrder == Spec => []LinesInOrder
  <1>1. Init => LinesInOrder
    <2> SUFFICES ASSUME Init, NEW c \in Clients PROVE InOrder(c)
      BY DEF LinesInOrder, InOrder
    <2>1. /\ shown = <<>> /\ conn[c].up = <<>> /\ client[c].stdin = <<>> /\ client[c].kernel = <<>>
          /\ client[c].typed = 0 /\ alive
      BY DEF Init
    <2>2. LinesOf(<<>>) = <<>> /\ Shown(c) = <<>>
      BY <2>1, KeepEmpty DEF Shown, LinesOf
    <2>3. Numbers(1, 0) = <<>>
      BY NumbersFacts
    <2>4. QED
      BY <2>1, <2>2, <2>3 DEF InOrder
  <1>2. ChatInv /\ LinesInOrder /\ [Next]_vars => LinesInOrder'
    <2> SUFFICES ASSUME ChatInv, LinesInOrder, [Next]_vars PROVE LinesInOrder'
      OBVIOUS
    <2>1. ClientInv /\ ServerInv
      BY DEF ChatInv
    <2>2. ASSUME NEW c \in Clients, Connect(c) \/ Type(c) \/ ClientLoop(c) \/ Kill(c)
          PROVE  LinesInOrder'
      BY <2>1, <2>2, ClientLinesAlone, LinesAloneStep, TypeLines, ClientSendLines DEF ClientLoop
    <2>3. CASE getConn \/ getData \/ sendMessGets \/ sendMessSend
      BY <2>1, <2>3, ServerLinesAlone, LinesAloneStep, RecvLines DEF getData
    <2>4. CASE UNCHANGED vars
      BY <2>1, <2>4, LinesAloneStep DEF vars, LinesAlone
    <2>5. QED
      BY <2>2, <2>3, <2>4 DEF Next
  <1>3. QED
    BY <1>1, <1>2, ChatInvHolds, PTL DEF Spec
=============================================================================
