----------------------------- MODULE TypeStore -----------------------------
(***************************************************************************)
(* An ShvTypeInfo object as application code fills it and saves it         *)
(* (src/libshvcore/src/utils/shvtypeinfo.cpp): the setters of its four     *)
(* maps, the type descriptors (ShvLogTypeDescr) kept in m_types, and the   *)
(* "version 3" form ShvTypeInfo::toRpcValue() writes and fromRpcValue()    *)
(* reads back, the form a type info is stored in files and sent by the     *)
(* broker.                                                                 *)
(*                                                                         *)
(* An RpcValue is a record [k, i, s]: its kind and its int or string       *)
(* payload.  A type descriptor's data (m_data) is the map of its "type"    *)
(* and "sampleType" keys and its "tags" map; the "fields" list and the     *)
(* other keys are copied unchanged by every step here and are left out.    *)
(* Node descriptors are records of their tags (toRpcValue() returns       *)
(* m_data and fromRpcValue() of such a map gives it back): application     *)
(* code's carry a typeName, those fromNodesTree() builds are the tag       *)
(* records of the TypeInfo module.  Device types are strings.              *)
(***************************************************************************)
EXTENDS Integers, Sequences, FiniteSets, TLC

CONSTANTS
    TypeNames,      \* keys of m_types
    DeviceTypes,    \* device type names
    NodeDescrs,     \* node descriptors (opaque)
    ApiTypes,       \* Type values code passes to ShvTypeDescr(Type, SampleType)
    FileTypes,      \* "type" strings a type-info file may hold
    FileSamples,    \* "sampleType" values a type-info file may hold
    DevicePaths,    \* paths setDevicePath() / setExtraTags() are given
    NodePaths,      \* paths setNodeDescription() is given
    QueryPaths,     \* paths nodeDescriptionForPath() is asked about
    Segments,       \* child names of the node trees, in std::map order
    Trees           \* node trees fromRpcValue() may be given

LOCAL TI == INSTANCE TypeInfo WITH NodePaths <- {}, nodesTree <- <<>>,
                                    typeInfo <- <<>>

RvInt(n) == [k |-> "Int", i |-> n, s |-> ""]
RvStr(x) == [k |-> "String", i |-> 0, s |-> x]
RvNull   == [k |-> "Null", i |-> 0, s |-> ""]

(* RpcValue::toInt(): 0 for a string or null.                              *)
ToInt(rv) == IF rv.k = "Int" THEN rv.i ELSE 0

(* enum class ShvTypeDescr::Type, in declaration order from 0.             *)
TypeName == <<"BitField", "Enum", "Bool", "UInt", "Int", "Decimal", "Double",
              "String", "DateTime", "List", "Map", "IMap">>

(* ShvLogTypeDescr::typeToString(): "Invalid" for Invalid and any value    *)
(* outside the enumeration.                                                *)
TypeToString(t) == IF t \in 1 .. Len(TypeName) THEN TypeName[t] ELSE "Invalid"

(* ShvLogTypeDescr::typeFromString(): exact, case-sensitive names.         *)
TypeFromString(x) ==
    IF \E t \in 1 .. Len(TypeName) : TypeName[t] = x
    THEN CHOOSE t \in 1 .. Len(TypeName) : TypeName[t] = x ELSE 0

(* SampleType { Invalid = 0, Continuous, Discrete }.                       *)
SampleTypeToString(st) ==
    CASE st = 2 -> "Discrete" [] st = 1 -> "Continuous" [] st = 0 -> "Invalid"
      [] OTHER  -> ""

(* Mutant: only the short spellings of a sample type are recognised.      *)
SampleTypeFromStringShort(x) ==
    IF x \in {"2", "D"} THEN 2
    ELSE IF x \in {"", "C"} THEN 1 ELSE 0

(* ShvLogTypeDescr::sampleTypeFromString().                                *)
SampleTypeFromString(x) ==
    IF x \in {"2", "D", "Discrete", "discrete"} THEN 2
    ELSE IF x \in {"", "C", "Continuous", "continuous"} THEN 1 ELSE 0

(* ShvLogTypeDescr::type() and sampleType(): dataValue(key).toInt().       *)
Type(d)       == ToInt(d.type)
SampleType(d) == ToInt(d.sampleType)

(* The ShvTypeDescr(Type t, SampleType st) constructor: setType, then      *)
(* setSampleType, both store the int.                                      *)
NewTypeDescr(t, st) == [type |-> RvInt(t), sampleType |-> RvInt(st), tags |-> <<>>]

(* ShvTypeDescrBase::mergeTags(): the "tags" map is taken out and merged   *)
(* in with std::map::merge(), which keeps a key the map already has.       *)
MergeTags(m) ==
    [type       |-> IF m.type = RvNull /\ "type" \in DOMAIN m.tags
                    THEN m.tags["type"] ELSE m.type,
     sampleType |-> IF m.sampleType = RvNull /\ "sampleType" \in DOMAIN m.tags
                    THEN m.tags["sampleType"] ELSE m.sampleType,
     tags       |-> <<>>]

(* ShvLogTypeDescr::toRpcValue(): type and sample type as names; the      *)
(* sample type is null when it is Invalid.                                 *)
TypeDescrToRpcValue(d) ==
    [d EXCEPT !.type = RvStr(TypeToString(Type(d))),
              !.sampleType = IF SampleType(d) # 0
                             THEN RvStr(SampleTypeToString(SampleType(d)))
                             ELSE RvNull]

(* ShvLogTypeDescr::fromRpcValue(): merge the tags, then turn a string     *)
(* type or sample type into its int.                                       *)
TypeDescrFromRpcValue(v) ==
    LET m == MergeTags(v) IN
    [m EXCEPT !.type = IF @.k = "String" THEN RvInt(TypeFromString(@.s)) ELSE @,
              !.sampleType = IF @.k = "String"
                             THEN RvInt(SampleTypeFromString(@.s)) ELSE @]

(* ShvTypeInfo::typeDescriptionForName(): a default descriptor (Invalid,   *)
(* no sample type) for an unknown name.                                    *)
TypeDescriptionForName(ti, name) ==
    IF name \in DOMAIN ti.types THEN ti.types[name]
    ELSE [type |-> RvNull, sampleType |-> RvNull, tags |-> <<>>]

(* ShvLogNodeDescr::typeName(): "" when the descriptor has no typeName.   *)
NodeTypeName(d) == IF "typeName" \in DOMAIN d THEN d.typeName ELSE ""

(* ShvTypeInfo::typeDescriptionForPath(): the type named by the node       *)
(* descriptor a lookup of the path finds (an empty descriptor, and so the  *)
(* name "", when none is found).                                           *)
TypeDescriptionForPath(ti, shvPath) ==
    LET nd == TI!NodeDescriptionForPath(ti, shvPath) IN
    TypeDescriptionForName(ti, IF nd.found THEN NodeTypeName(nd.descr) ELSE "")

(* ShvTypeInfo::extraTags(): the tags stored for the path, as a set of at  *)
(* most one value ({} for the invalid RpcValue returned when there are     *)
(* none).                                                                  *)
ExtraTags(ti, path) == IF path \in DOMAIN ti.extra THEN {ti.extra[path]} ELSE {}

(* ShvTypeInfo::toRpcValue(): the version 3 map.  The node descriptors    *)
(* and device types are written as they are.                               *)
ToRpcValue(ti) ==
    [version |-> 3,
     types   |-> [n \in DOMAIN ti.types |-> TypeDescrToRpcValue(ti.types[n])],
     devices |-> ti.devices, nodes |-> ti.nodes, extra |-> ti.extra]

(* ShvTypeInfo::fromRpcValue() of a version 3 map.                         *)
FromRpcValue(v) ==
    [types   |-> [n \in DOMAIN v.types |-> TypeDescrFromRpcValue(v.types[n])],
     devices |-> v.devices, nodes |-> v.nodes, extra |-> v.extra]

(* ShvTypeInfo::forEachNode(): the (shv path, descriptor) pairs it calls   *)
(* fn with.  Only "<device type>/<property path>" keys are visited, once   *)
(* for each path of a device of that type; keys without a '/' (plain      *)
(* nodes, and a device type's own descriptor) are skipped.                *)
ForEachNode(ti) ==
    UNION {{<<dp \o  Tail(key), ti.nodes[key]>> :
               dp \in {q \in DOMAIN ti.devices : ti.devices[q] = key[1]}} :
           key \in {k \in DOMAIN ti.nodes : Len(k) >= 2}}

-----------------------------------------------------------------------------
(* The type info object: [types, devices, nodes, extra] for m_types,        *)
(* m_devicePaths, m_nodeDescriptions and m_extraTags.                       *)
VARIABLE typeInfo

vars == <<typeInfo>>

(* A default-constructed ShvTypeInfo.                                      *)
Init == typeInfo = [types |-> <<>>, devices |-> <<>>, nodes |-> <<>>,
                    extra |-> <<>>]

(* A descriptor code builds with ShvTypeDescr(Type, SampleType).           *)
ApiDescrs == {NewTypeDescr(t, st) : t \in ApiTypes, st \in 0 .. 2}

(* A descriptor read with ShvLogTypeDescr::fromRpcValue() from a file      *)
(* entry that gives the type at the top level and the sample type either   *)
(* at the top level or among its "tags".                                   *)
FileEntries ==
    UNION {{[type |-> RvStr(ft), sampleType |-> fs, tags |-> <<>>],
            [type |-> RvStr(ft), sampleType |-> RvNull,
             tags |-> ("sampleType" :> fs)]} :
           ft \in FileTypes, fs \in FileSamples}

FileDescrs == {TypeDescrFromRpcValue(e) : e \in FileEntries}

(* ShvTypeInfo::setTypeDescription(): an invalid descriptor erases the     *)
(* name.                                                                   *)
SetTypeDescription(td, name) ==
    typeInfo' = [typeInfo EXCEPT !.types =
                    IF Type(td) # 0 THEN (name :> td) @@ @
                    ELSE [n \in DOMAIN @ \ {name} |-> @[n]]]

(* ShvTypeInfo::setDevicePath().                                           *)
SetDevicePath(path, deviceType) ==
    typeInfo' = TI!SetDevicePathIn(typeInfo, path, deviceType)

(* ShvTypeInfo::setNodeDescription().                                      *)
SetNodeDescription(descr, nodePath, deviceType) ==
    typeInfo' = TI!SetNodeDescriptionIn(typeInfo, descr, nodePath, deviceType)

(* ShvTypeInfo::setExtraTags(): a value that is not a map erases the path. *)
SetExtraTags(path, isMap) ==
    typeInfo' = IF isMap THEN TI!SetExtraTagsIn(typeInfo, path, {"tag"})
                ELSE [typeInfo EXCEPT !.extra =
                         [p \in DOMAIN @ \ {path} |-> @[p]]]

(* ShvTypeInfo::fromRpcValue() of a value without "version" 3 meta data:  *)
(* fromNodesTree().  The trees carry no "typeInfo" meta value, so the      *)
(* types map is empty.                                                     *)
LoadNodesTree(tree) ==
    LET t == TI!FromNodesTree(tree) IN
    typeInfo' = [types |-> <<>>, devices |-> t.devices, nodes |-> t.nodes,
                 extra |-> t.extra]

(* A type-info file of another origin is read: fromRpcValue() of a       *)
(* version 3 map holding one type entry.  Every entry is stored as         *)
(* ShvLogTypeDescr::fromRpcValue() reads it, valid or not.                 *)
LoadTypesFile(name, e) ==
    typeInfo' = FromRpcValue([version |-> 3, types |-> (name :> e),
                              devices |-> <<>>, nodes |-> <<>>, extra |-> <<>>])

(* The object is saved with toRpcValue() and read back with               *)
(* fromRpcValue(), as a type-info file or a broker's answer is.            *)
Reload == typeInfo' = FromRpcValue(ToRpcValue(typeInfo))

Next ==
    \/ \E td \in ApiDescrs \cup FileDescrs, name \in TypeNames :
           SetTypeDescription(td, name)
    \/ \E p \in DevicePaths, dt \in DeviceTypes : SetDevicePath(p, dt)
    \/ \E d \in NodeDescrs, p \in NodePaths, dt \in DeviceTypes \cup {""} :
           SetNodeDescription(d, p, dt)
    \/ \E p \in DevicePaths, isMap \in BOOLEAN : SetExtraTags(p, isMap)
    \/ \E tree \in Trees : LoadNodesTree(tree)
    \/ \E name \in TypeNames, e \in FileEntries : LoadTypesFile(name, e)
    \/ Reload

Spec == Init /\ [][Next]_vars

-----------------------------------------------------------------------------
(* What application code can ask of the object about a type name.         *)
Observed(ti, name) ==
    LET d == TypeDescriptionForName(ti, name) IN
    <<Type(d), SampleType(d)>>

(* What application code can ask of the object about a shv path.          *)
ObservedAt(ti, p) ==
    LET d == TypeDescriptionForPath(ti, p) IN
    <<TI!NodeDescriptionForPath(ti, p), Type(d), SampleType(d), ExtraTags(ti, p)>>

(* Saving a type info and reading it back changes no answer: every type    *)
(* name keeps its Type and SampleType (typeToString/typeFromString and     *)
(* sampleTypeToString/sampleTypeFromString undo each other, null standing  *)
(* for Invalid), and every path keeps its node descriptor, the type        *)
(* typeDescriptionForPath() gives it and its extra tags, whether the       *)
(* object was filled by the setters, loaded from a node tree or read from  *)
(* a file whose types do not all parse; forEachNode() visits the same      *)
(* nodes with the same descriptors.                                        *)
ReloadPreservesAnswers ==
    [][Reload =>
         /\ \A n \in TypeNames : Observed(typeInfo', n) = Observed(typeInfo, n)
         /\ \A p \in QueryPaths : ObservedAt(typeInfo', p) = ObservedAt(typeInfo, p)
         /\ ForEachNode(typeInfo') = ForEachNode(typeInfo)]_vars
=============================================================================
