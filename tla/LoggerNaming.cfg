SPECIFICATION Spec
CONSTANTS
    t1 = t1
    t2 = t2
    Threads <- MCOneThread
    Main = t1
    Nobody = Nobody
    MaxFileSize = 1
    MaxFileIndex = 2
    Flags = {FALSE}
    Checks = {FALSE}
    MaxNamings = 2
    MaxMessages = 3
    MaxTime = 3
    MaxMoves = 0
    MaxFd = 8
INVARIANT MessagesReachLog
