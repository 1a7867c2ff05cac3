SPECIFICATION Spec
CONSTANTS
    Size = 7
    Block = 2
    MaxSplits = 2
    MaxInterrupts = 1
    MaxUneven = 2
    LineEnd <- MCLineEnd
    Files <- MCFiles
    None = 0
    FileOf <- MCFileOf
    Expired <- MCExpired
    MaxCleans = 2
    MaxFaults = 1
INVARIANTS
    SplitKeeps
    SplitOnce
    NamedUntilGone
    DanglingExplained
    PartCleaned
