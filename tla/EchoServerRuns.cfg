\* Three clients, one with two requests, one with a name that is not text; two of
\* them may be killed at any time; two threads in the pool.
SPECIFICATION Spec
CONSTANTS
    c1 = c1
    c2 = c2
    c3 = c3
    Clients = {c1, c2, c3}
    Killable = {c1, c2}
    Name <- MCName
    Workers = 2
    MaxRequests <- MCMaxRequests
    IntBits = 10
    LongBits = 20
    GroupBits = 7
INVARIANTS
    QueuedTasksHaveConnection
    AnswersInOrder
    OnlyStraysEndServer
\* Clients stop after MaxRequests, then the server waits in epoll for ever.
CHECK_DEADLOCK FALSE
PROPERTIES
    EveryRequestAnswered
    ConnectionReleased
