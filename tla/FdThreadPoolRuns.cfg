\* Two tasks on one connection and one on another, two workers.
SPECIFICATION FdFairSpec
CONSTANTS
    t1 = t1
    t2 = t2
    t3 = t3
    fd1 = fd1
    fd2 = fd2
    Task <- ThreeTasks
    Fd = {fd1, fd2}
    FdOf <- SharedFds
    THREADPOOL_MAX_NUM = 2
    Sizes = {2}
    NoTask = NoTask
INVARIANTS
    FdIndexExact
PROPERTIES
    OnlyCloseWithdraws
    FdImplementsTaskService
    FdAcceptedTaskRuns
\* A pool whose destructor has returned takes no more steps.
CHECK_DEADLOCK FALSE
