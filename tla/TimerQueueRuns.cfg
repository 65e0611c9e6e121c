\* Three timers; the wall clock is set once, in either direction; calls while the
\* loop waits.
SPECIFICATION FairSpec
CONSTANTS
    MaxTimers = 3
    Delays = {0, 2}
    Intervals = {0, 1}
    Jumps <- BothWays
    MaxJumps = 1
    MaxLate = 1
    MaxAhead = 3
    Serialised = TRUE
INVARIANTS
    ContainersAgree
    ArmedForEarliest
PROPERTIES
    NeverEarly
    TimersTakeTurns
\* Reading the end iterator may end the program.
CHECK_DEADLOCK FALSE
