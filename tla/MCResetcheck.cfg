SPECIFICATION FairSpec
CONSTANTS
    Words <- FewWords
    Room = 5
    CommandLines <- ShortLines
    Second = 2
    Pause = 1
    DefaultTimeout = 4
INVARIANTS TypeOK LineIsRead ResetIsEarned SuccessIsReal RebootIsSeen
PROPERTY Ends
