\* Arrays of up to four elements with three values and all ranges; all numbers of
\* ten bits; wires of up to three tokens; all pairs of small messages.
\* Four keys in caches of one to three nodes, and in one that never evicts.
\* Three microseconds for two permits, so that prices are truncated, and the
\* arguments of Init that are not positive; calls that put one permit back or claim
\* none to three, time stamps in any order, and stamps of a counter that wraps around.
SPECIFICATION MCSpec
CONSTANTS
    MaxLen = 4
    Elements = {0, 1, 2}
    IntWidth = 10
    IntBits = 10
    LongBits = 20
    GroupBits = 7
    Ints <- MCInts
    Contents <- MCContents
    Tokens <- MCTokens
    k1 = k1
    k2 = k2
    k3 = k3
    k4 = k4
    v1 = v1
    v2 = v2
    Key = {k1, k2, k3, k4}
    Value = {v1, v2}
    Miss = Miss
    Capacities <- MCCapacities
    Window = 3
    MaxPermits <- MCMaxPermits
    Permits <- MCPermits
    Times = {0, 1, 2, 5, 6}
    Stamps = {1, 3, 5}
    Thousand = 2
    UintRange = 8
    TimeRange = 16
    MaxCalls = 4
SYMMETRY Names
INVARIANTS
    Sorted
    PuzzlesSolved
    RereadsWhatItWrites
    ConcatenationMerges
    ListMatchesMap
    RateLimited
PROPERTIES
    ImplementsLRU
    NoPermitsFromThePast
\* A program runs once, and the calls of the rate limiter are bounded.
CHECK_DEADLOCK FALSE
