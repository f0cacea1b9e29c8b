--------------------------- MODULE MC_TypeInfo ----------------------------
(* Model-checking instance of TypeInfo: trees of depth two over the child *)
(* names "a" and "b", with one device type.                                *)
EXTENDS TypeInfo

MCSegments == <<"a", "b">>
MCDeviceTypes == {"T"}
MCNodePaths == {<<>>, <<"a">>, <<"b">>, <<"a", "a">>, <<"a", "b">>, <<"b", "a">>}

(* Sets of places that contain the root and the parent of every node.    *)
Shapes == {S \in SUBSET MCNodePaths :
              /\ <<>> \in S
              /\ \A p \in S : p = <<>> \/ SubSeq(p, 1, Len(p) - 1) \in S}

AllTrees == UNION {[S -> Kinds] : S \in Shapes}

IsDevice(t, p) == t[p] \in MCDeviceTypes

ProperAncestors(p) == {SubSeq(p, 1, k) : k \in 0 .. Len(p) - 1}

(* The nodes of the subtree at p, by their path relative to p.            *)
Subtree(t, p) ==
    [r \in {Rest(q, p) : q \in {q \in DOMAIN t : /\ Len(q) >= Len(p)
                                             /\ SubSeq(q, 1, Len(p)) = p}}
        |-> t[p \o r]]

(* Devices of one type have the same nodes, as the type-info scheme       *)
(* stores one set of descriptors per type.                                 *)
SameTypeSameTree(t) ==
    \A p, q \in DOMAIN t :
        IsDevice(t, p) /\ t[q] = t[p] => Subtree(t, p) = Subtree(t, q)

(* Trees whose devices are not the root and sit below untagged nodes.    *)
DeviceTreesPlain == {t \in AllTrees : SameTypeSameTree(t) /\
    \A p \in DOMAIN t : IsDevice(t, p) =>
        /\ p # <<>>
        /\ \A q \in ProperAncestors(p) : t[q] = "plain"}

(* Trees where a device may sit below a node that has a descriptor, or be *)
(* the root node itself.                                                   *)
DeviceTreesDescribed == {t \in AllTrees : SameTypeSameTree(t) /\
    \A p \in DOMAIN t : IsDevice(t, p) =>
        \A q \in ProperAncestors(p) : ~IsDevice(t, q)}

=============================================================================
