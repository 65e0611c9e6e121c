\* Every sequence of channel operations, Destory and QuitLoop around a running loop.
SPECIFICATION MgrFairSpec
INVARIANTS
    FlagMatchesEpoll
PROPERTIES
    ExpirationHandled
    QuitAfterStartEndsLoop
