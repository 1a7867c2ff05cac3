SPECIFICATION FairSpec
CONSTANTS
    ThreadNum <- MCThreadNum
    TaskNum <- MCTaskNum
INVARIANTS
    TakeFindsTask
    TaskAccounted
    StoppedQuiet
PROPERTIES
    EveryTaskRuns
    StopEndsWithoutRace
