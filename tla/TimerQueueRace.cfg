\* Calls of everything at any time, as the public interface allows.
SPECIFICATION Spec
CONSTANTS
    MaxTimers = 2
    Delays = {0, 1}
    Intervals = {0}
    Jumps = {}
    MaxJumps = 0
    MaxLate = 1
    MaxAhead = 2
    Serialised = FALSE
INVARIANT AssertionsHold
\* A fault ends the program.
CHECK_DEADLOCK FALSE
