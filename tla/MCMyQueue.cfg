\* Safety, refinement and liveness of the ring
SPECIFICATION FairSpec
CONSTANTS
    j1 = j1
    j2 = j2
    j3 = j3
    j4 = j4
    NoJob = NoJob
    Jobs <- MCJobs
    Size = 3
INVARIANTS
    RingOrder
    Published
    SingleOwner
PROPERTIES
    ImplementsFifo
    EveryJobExecuted
    RefusalEnds
