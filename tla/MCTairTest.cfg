SPECIFICATION FairSpec
CONSTANTS
    MaxWorkers = 2
    Capacities <- MCCapacities
    TestCases = 3
    Nums <- MCNums
    OldLines <- MCOldLines
INVARIANTS
    JobOwnership
    PutBeforeUse
    TotalOpAccounts
    DestroyedQuiet
PROPERTIES
    Terminates
