\* fromNodesTree() then nodeDescriptionForPath() for devices below
\* untagged nodes.
CONSTANTS
    Segments <- MCSegments
    DeviceTypes <- MCDeviceTypes
    NodePaths <- MCNodePaths
    Trees <- DeviceTreesPlain
SPECIFICATION Spec
INVARIANT ReadBackNodeDescription
