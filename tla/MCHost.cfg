CONSTANTS
    Entries <- TwoDirs
    Files = {"f"}
    MaxDd = 2
    MaxFd = 1
    Failures = {"nomem", "opendir", "stat", "race", "nopath", "badtime"}
    Excused = {"nomem", "opendir", "stat", "race", "nopath", "badtime"}
    Depth = 2
    MaxRequests = 5
SPECIFICATION Spec
INVARIANTS TypeOK ReadsItsDirectory NothingLeaks OpensFilesOnly InStep EveryRequestAnswered
CHECK_DEADLOCK FALSE
