\* The comments of Destory against its code: one worker and one task suffice.
SPECIFICATION FairSpec
CONSTANTS
    t1 = t1
    t2 = t2
    t3 = t3
    Task <- OneTask
    THREADPOOL_MAX_NUM = 2
    Sizes = {1}
    NoTask = NoTask
PROPERTY DestoryReturns

