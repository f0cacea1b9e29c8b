------------------------------ MODULE TypeInfo ------------------------------
(***************************************************************************)
(* The path maps of shv::core::utils::ShvTypeInfo                          *)
(* (src/libshvcore/src/utils/shvtypeinfo.cpp): m_devicePaths (device path  *)
(* -> device type), m_nodeDescriptions (node path, or "<device type>/      *)
(* <property path>" for nodes of a device -> node descriptor) and          *)
(* m_extraTags (shv path -> tags that are not descriptor keys), how        *)
(* fromNodesTree() fills them from a node tree and how                     *)
(* nodeDescriptionForPath() finds a node's descriptor again.               *)
(*                                                                         *)
(* A shv path is a sequence of segment names; "a/b" is <<"a", "b">> and    *)
(* the root "" is <<>>.  A node of the tree carries a kind: no tags, a     *)
(* descriptor, a descriptor with an extra (unknown) tag, or a descriptor   *)
(* whose "deviceType" tag makes the node a device of that type.  The       *)
(* "label" tag of a node names the node: the device type it belongs to     *)
(* and its property path in it, so nodes at the same place of two devices  *)
(* of one type carry equal descriptors, as the type-info scheme assumes.   *)
(* Nodes reached through "nodeTypeRef" are taken as already substituted.   *)
(***************************************************************************)
EXTENDS Integers, Sequences, FiniteSets, TLC

CONSTANTS
    Segments,       \* child names, in std::map (sorted) order
    DeviceTypes,    \* values of the "deviceType" tag
    NodePaths,      \* the places a tree may have a node at
    Trees           \* node trees fromNodesTree() may be given

Kinds == {"plain", "descr", "extra"} \cup DeviceTypes

(* The absent key of a map, in lookup results.                            *)
NotFound == [found |-> FALSE]

-----------------------------------------------------------------------------
(* find_longest_prefix(): look up the path, then cut its last segment     *)
(* while there is a '/' to cut at.  The empty prefix is only tried for    *)
(* the empty path, since "a".lastIndexOf('/') is npos.                     *)
(* Mutant: only the whole path is looked up.                               *)
FindLongestPrefixNoCut(map, prefix) ==
    IF prefix \in DOMAIN map THEN [found |-> TRUE, key |-> prefix] ELSE NotFound

RECURSIVE FindLongestPrefix(_, _)
FindLongestPrefix(map, prefix) ==
    IF prefix \in DOMAIN map THEN [found |-> TRUE, key |-> prefix]
    ELSE IF Len(prefix) <= 1 THEN NotFound
    ELSE FindLongestPrefix(map, SubSeq(prefix, 1, Len(prefix) - 1))

(* String(path).mid(prefix.size() + 1): the rest after "prefix/".          *)
Rest(path, prefix) == SubSeq(path, Len(prefix) + 1, Len(path))

(* "device_type/property_path", or the type alone for an empty path.      *)
DeviceKey(deviceType, path) == <<deviceType>> \o path

(* ShvTypeInfo::nodeDescriptionForDevice().                                *)
NodeDescriptionForDevice(ti, deviceType, propertyPath) ==
    LET property == DeviceKey(deviceType, propertyPath)
        it == FindLongestPrefix(ti.nodes, property)
    IN  IF ~it.found THEN NotFound
        ELSE [found |-> TRUE, descr |-> ti.nodes[it.key],
              field |-> Rest(property, it.key)]

(* ShvTypeInfo::nodeDescriptionForPath(): the node map first, then the     *)
(* longest device path and the device type's descriptors.                 *)
NodeDescriptionForPath(ti, shvPath) ==
    LET itNode == FindLongestPrefix(ti.nodes, shvPath)
        itDev  == FindLongestPrefix(ti.devices, shvPath)
    IN  IF itNode.found
        THEN [found |-> TRUE, descr |-> ti.nodes[itNode.key],
              field |-> Rest(shvPath, itNode.key)]
        ELSE IF ~itDev.found THEN NotFound
        ELSE NodeDescriptionForDevice(ti, ti.devices[itDev.key],
                                      Rest(shvPath, itDev.key))

-----------------------------------------------------------------------------
(* The "tags" meta value of a node: deviceType, label, and an unknown tag. *)
Tags(tree, p, deviceType, devicePath) ==
    [deviceType |-> IF tree[p] \in DeviceTypes THEN tree[p] ELSE "",
     label      |-> <<deviceType, IF devicePath = <<>> THEN p
                                  ELSE Rest(p, devicePath)>>,
     extra      |-> tree[p] = "extra"]

(* ShvLogNodeDescr::fromRpcValue(): the known tags are moved out of m,    *)
(* what is left of m is the extra tags; node_map starts as the whole map. *)
NodeDescrFromTags(tags) == tags

ExtraTagsOf(tags) == IF tags.extra THEN {"extra"} ELSE {}

(* ShvTypeInfo::setNodeDescription().                                      *)
SetNodeDescriptionIn(ti, descr, nodePath, deviceType) ==
    LET path == IF deviceType = "" THEN nodePath
                ELSE DeviceKey(deviceType, nodePath)
    IN  [ti EXCEPT !.nodes = (path :> descr) @@ @]

(* ShvTypeInfo::setExtraTags() with a map value.                           *)
SetExtraTagsIn(ti, path, tags) == [ti EXCEPT !.extra = (path :> tags) @@ @]

(* ShvTypeInfo::setDevicePath().                                           *)
SetDevicePathIn(ti, path, deviceType) ==
    [ti EXCEPT !.devices = (path :> deviceType) @@ @]

(* fromNodesTree_helper(): one node, then its children in name order.     *)
RECURSIVE Helper(_, _, _, _, _), Children(_, _, _, _, _, _)
Helper(tree, ti, p, recentType, recentPath) ==
    IF p \notin DOMAIN tree THEN ti
    ELSE
    LET isDevice   == tree[p] \in DeviceTypes
        deviceType == IF isDevice THEN tree[p] ELSE recentType
        devicePath == IF isDevice THEN p ELSE recentPath
        tags       == Tags(tree, p, deviceType, devicePath)
        nodePath   == IF devicePath = <<>> THEN p ELSE Rest(p, devicePath)
        ti1 == IF tree[p] = "plain" THEN ti
               ELSE LET t == SetNodeDescriptionIn(ti, NodeDescrFromTags(tags),
                                                  nodePath, deviceType)
                    IN  IF ExtraTagsOf(tags) = {} THEN t
                        ELSE SetExtraTagsIn(t, p, ExtraTagsOf(tags))
        ti2 == IF deviceType # recentType
               THEN SetDevicePathIn(ti1, devicePath, deviceType) ELSE ti1
    IN  Children(tree, ti2, p, deviceType, devicePath, 1)

Children(tree, ti, p, deviceType, devicePath, i) ==
    IF i > Len(Segments) THEN ti
    ELSE Children(tree,
                  Helper(tree, ti, p \o <<Segments[i]>>, deviceType, devicePath),
                  p, deviceType, devicePath, i + 1)

EmptyTypeInfo == [devices |-> <<>>, nodes |-> <<>>, extra |-> <<>>]

(* ShvTypeInfo::fromNodesTree() (the types map is not modelled here).     *)
FromNodesTree(tree) == Helper(tree, EmptyTypeInfo, <<>>, "", <<>>)
-----------------------------------------------------------------------------
(* The node tree given to ShvTypeInfo::fromNodesTree() (ghost) and the    *)
(* type info it constructs.  fromNodesTree() (and fromRpcValue() of a     *)
(* value without "version" 3 meta data, which calls it) is a static       *)
(* constructor; the lookups that follow are const.                         *)
VARIABLES nodesTree, typeInfo

vars == <<nodesTree, typeInfo>>

Init ==
    /\ nodesTree \in Trees
    /\ typeInfo = FromNodesTree(nodesTree)

Next == UNCHANGED vars

Spec == Init /\ [][Next]_vars

-----------------------------------------------------------------------------
(* The device a node belongs to: its nearest ancestor-or-self that has a  *)
(* "deviceType" tag, as the path prefix.                                   *)
EnclosingDevice(t, p) ==
    LET devs == {k \in 0 .. Len(p) : /\ SubSeq(p, 1, k) \in DOMAIN t
                                      /\ t[SubSeq(p, 1, k)] \in DeviceTypes}
    IN  IF devs = {} THEN NotFound
        ELSE LET k == CHOOSE k \in devs : \A j \in devs : j <= k
             IN  [found |-> TRUE, path |-> SubSeq(p, 1, k),
                  type |-> t[SubSeq(p, 1, k)]]

(* The descriptor the node at p carries in the nodesTree.                       *)
OwnDescr(t, p) ==
    LET d == EnclosingDevice(t, p) IN
    IF d.found THEN NodeDescrFromTags(Tags(t, p, d.type, d.path))
    ELSE NodeDescrFromTags(Tags(t, p, "", <<>>))

DescribedNodes(t) == {p \in DOMAIN t : t[p] # "plain"}

(* After fromNodesTree(), nodeDescriptionForPath() of every node that had  *)
(* tags finds that node's own descriptor, with an empty field name: the    *)
(* device paths and the "type/property" keys lead back to the node.       *)
ReadBackNodeDescription ==
    \A p \in DescribedNodes(nodesTree) :
        NodeDescriptionForPath(typeInfo, p)
            = [found |-> TRUE, descr |-> OwnDescr(nodesTree, p), field |-> <<>>]
=============================================================================
