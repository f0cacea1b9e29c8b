\* Two overlapping downloads, answered, failed, dropped or timed out, and
\* the logs of three paths parsed with short times and Anca-hook rows, up
\* to three rows per log.
CONSTANTS
    ShortBits = 3
    PathNames <- MCPathNames
    Dict <- MCDict
    PathIds <- MCPathIds
    ShortPaths <- MCShortPaths
    DataPath = "data"
    AncaPath = "U"
    ShortOffset = 3
    DtSteps <- MCDtSteps
    FirstDt = 100
    MaxRows = 3
    MaxDownloads = 2
SPECIFICATION FairSpec
INVARIANT RelativeTimesPreserved
INVARIANT ShownLogIsLiveResult
PROPERTY DownloadSettles
CHECK_DEADLOCK FALSE
