CONSTANTS
    TypeNames   <- MCTypeNames
    DeviceTypes <- MCDeviceTypes
    NodeDescrs  <- MCNodeDescrs
    ApiTypes    <- MCApiTypes
    FileTypes   <- MCFileTypes
    FileSamples <- MCFileSamples
    DevicePaths <- MCDevicePaths
    NodePaths   <- MCNodePaths
    QueryPaths  <- MCQueryPaths
    Segments    <- MCSegments
    Trees       <- MCTrees

SPECIFICATION Spec
PROPERTY ReloadPreservesAnswers
