\* Two clients, one of which reads a pipe and may be killed; two broadcasts; a buffer
\* that two lines fill.
SPECIFICATION Spec
CONSTANTS
    c1 = c1
    c2 = c2
    Clients = {c1, c2}
    Killable = {c1}
    Terminals = {c2}
    BufLines = 2
    MaxLines <- MCMaxLines
    MaxBroadcasts = 2
INVARIANTS
    BroadcastsReachEveryone
    LinesInOrder
\* With nothing typed and nothing sent, all threads wait.
CHECK_DEADLOCK FALSE
PROPERTIES
    LinesShown
    BroadcastsShown
