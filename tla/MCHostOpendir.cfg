CONSTANTS
    Entries <- TwoDirs
    Files = {"f"}
    MaxDd = 2
    MaxFd = 1
    Failures = {"opendir"}
    Excused = {}
    Depth = 2
    MaxRequests = 5
SPECIFICATION Spec
INVARIANT ReadsItsDirectory
CHECK_DEADLOCK FALSE
