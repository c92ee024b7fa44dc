SPECIFICATION FairSpec
CONSTANTS
    CommandLines <- AllLines
    Lengths = {0, 1, 3, 5, 9}
    Buffer = 3
    IntMax = 7
    Entries = 3
INVARIANTS TypeOK ServedAsAsked NothingStaysOpen ListingIsWhole
PROPERTIES CopyIsFaithful Ends
