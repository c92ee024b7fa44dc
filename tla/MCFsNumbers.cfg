SPECIFICATION FairSpec
CONSTANTS
    CommandLines <- SyncLines
    Lengths = {0}
    Buffer = 3
    IntMax = 7
    Entries = 0
INVARIANT ServedAsAsked
