SPECIFICATION Spec
CONSTANTS
    t1 = t1
    t2 = t2
    Threads <- MCThreads
    Main = t1
    Nobody = Nobody
    MaxFileSize = 1
    MaxFileIndex = 2
    Flags = {TRUE, FALSE}
    Checks = {TRUE, FALSE}
    MaxNamings = 1
    MaxMessages = 3
    MaxTime = 3
    MaxMoves = 1
    MaxFd = 8
INVARIANT MessagesReachLog
INVARIANT KeptUnlessSameSecond
INVARIANT RotatedIsFull
INVARIANT LogBelowMax
INVARIANT NothingLeaks
