\* Two clients, at the same time or one after the other; one may be killed at any
\* time, its descriptor be used again, and SIGPIPE end the server.
SPECIFICATION FairSpec
CONSTANTS
    c1 = c1
    c2 = c2
    f1 = f1
    f2 = f2
    f3 = f3
    Client = {c1, c2}
    File = {f1, f2, f3}
    Argv <- TwoAndOne
    Size <- Sizes
    NameLen <- Names
    NoFile = NoFile
    NoClient = NoClient
    Split = 2
    Threads = 2
    Killable = {c2}
INVARIANTS
    QueuedTasksHaveConnection
    CopyEqualsOriginal
    StreamInSync
PROPERTIES
    EveryClientServed
\* All clients come to an end.
CHECK_DEADLOCK FALSE
