CONSTANTS
    Entries <- TwoDirs
    Files = {"f"}
    MaxDd = 2
    MaxFd = 1
    Failures = {"nomem"}
    Excused = {}
    Depth = 2
    MaxRequests = 5
SPECIFICATION Spec
INVARIANT EveryRequestAnswered
CHECK_DEADLOCK FALSE
