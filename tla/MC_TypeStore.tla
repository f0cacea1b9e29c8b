--------------------------- MODULE MC_TypeStore ----------------------------
(* Model-checking instance of TypeStore: two type names, one device with  *)
(* one node, and the type and sample-type spellings type-info files use.  *)
EXTENDS TypeStore

MCTypeNames   == {"t1", "t2"}
MCDeviceTypes == {"T"}
(* A node descriptor application code builds with setTypeName().         *)
MCNodeDescrs  == {[typeName |-> "t1"]}
(* Invalid, Enum and IMap, the last of the enumeration.                    *)
MCApiTypes    == {0, 2, 12}
MCFileTypes   == {"Enum", "IMap", "enum"}
MCFileSamples == {RvStr("D"), RvStr("discrete"), RvStr("2"), RvStr("C"),
                  RvStr(""), RvStr("x"), RvNull, RvInt(2)}
MCDevicePaths == {<<"d">>}
MCNodePaths   == {<<>>, <<"x">>}
MCQueryPaths  == {<<"d">>, <<"d", "x">>, <<"x">>}
MCSegments    == <<"d", "x">>
(* Node trees with the device "d" of type "T" below the root: its node    *)
(* "x" has an unknown tag, the root is untagged or has a descriptor, and  *)
(* the plain node "x" beside the device has a descriptor.                 *)
MCTrees ==
    { (<<>> :> "plain") @@ (<<"d">> :> "T") @@ (<<"d", "x">> :> "extra")
          @@ (<<"x">> :> "descr"),
      (<<>> :> "descr") @@ (<<"d">> :> "T") @@ (<<"d", "x">> :> "descr") }
=============================================================================
