\* Three overlapping AddTask calls, two workers, InitThreadSize called repeatedly.
SPECIFICATION FairSpec
CONSTANTS
    t1 = t1
    t2 = t2
    t3 = t3
    Task <- ThreeTasks
    THREADPOOL_MAX_NUM = 2
    Sizes = {2}
    NoTask = NoTask
INVARIANTS
    PoolSafety
    TaskInOnePlace
    WakeupsCoverBacklog
    IdleCountExact
PROPERTIES
    AtMostOneTaskAfterStop
    AcceptedTaskRuns
    DestoryReturnsUnlessCaught
    ImplementsTaskService
