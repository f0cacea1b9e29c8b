\* fromNodesTree() of a device below a node that has its own descriptor, or
\* of a device at the root.
CONSTANTS
    Segments <- MCSegments
    DeviceTypes <- MCDeviceTypes
    NodePaths <- MCNodePaths
    Trees <- DeviceTreesDescribed
SPECIFICATION Spec
INVARIANT ReadBackNodeDescription
