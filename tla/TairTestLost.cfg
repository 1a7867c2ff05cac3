\* A job posted between a worker's isEmpty and its look at _can_over is lost
SPECIFICATION Spec
CONSTANTS
    MaxWorkers = 2
    Capacities <- MCCapacities
    TestCases = 3
    Nums <- MCNums
    OldLines <- MCOldLines
INVARIANTS
    AllOperationsMade
