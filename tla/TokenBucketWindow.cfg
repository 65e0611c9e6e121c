\* The limiter of main.cc: one request in three milliseconds, and the stamps that
\* its main sends, none of which wraps around.
SPECIFICATION BucketSpec
CONSTANTS
    Window = 3000
    MaxPermits = {1}
    Permits = {}
    Times = {}
    Stamps = {1, 3, 4, 5, 6, 7, 8, 9, 10}
    Thousand = 1000
    UintRange = 65536
    TimeRange = 65536
    MaxCalls = 3
INVARIANT AtMostUpperLimit
CHECK_DEADLOCK FALSE
