SPECIFICATION FairSpec
CONSTANTS
    Bits = 26
    HashPrime = 269597
    ByteBits = 3
    M = 2453
    R = 9
    S1 = 5
    S2 = 6
    Seed = 97
    StrayBytes <- MCStrayBytes
    NThreads = 4
    MaxSpurious = 1
    Makers <- MCMakers
    Names = {"a", "b", "c", "d"}
    MaxNames = 3
    Clients = {1, 2, 3}
    MaxLine = 3
    MaxLosses = 1
    Texts <- MCTexts
    HashKeys <- MCHashKeys
    FileLists <- MCFileLists
    PathSets <- MCPathSets
    Trees <- MCTrees
    LineLengths = {1, 2, 3}
    Directories <- MCDirectories
    MaxSignals = 3
    Garbage = {"file", "dir"}
INVARIANTS
    HelpersAgree
    ParsedAsWritten
    ListsInOrder
    RoundTrip
    InTurn
    MkdirsOutcome
    PrintedIsOwn
    ListedRegular
    LevelFollowsSignals
PROPERTY
    AllRun
