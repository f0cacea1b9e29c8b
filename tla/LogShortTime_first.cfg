\* The first sample of a path with short times.
CONSTANTS
    ShortBits = 3
    PathNames <- MCPathNames
    Dict <- MCDict
    PathIds <- MCPathIds
    ShortPaths <- MCShortPaths
    DataPath = "data"
    AncaPath = "U"
    ShortOffset = 3
    DtSteps <- MCDtSteps
    FirstDt = 100
    MaxRows = 4
SPECIFICATION Spec
INVARIANT FirstSampleAtItsTime
CHECK_DEADLOCK FALSE
