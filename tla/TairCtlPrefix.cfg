SPECIFICATION Spec
CONSTANTS
    i1 = i1
    i2 = i2
    Cs = Cs
    Mem = Mem
    Indices <- MCIndices
    Requests <- MCRequests
    Match <- MCPrefix
    MaxRuns = 3
INVARIANTS
    OnlyNamedKilled
