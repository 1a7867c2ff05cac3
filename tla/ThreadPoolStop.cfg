\* StopAll may wait for ever for a thread it has not woken
SPECIFICATION FairSpec
CONSTANTS
    ThreadNum <- MCThreadNum
    TaskNum <- MCTaskNum
PROPERTIES
    StopEnds
