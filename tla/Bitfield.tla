------------------------------ MODULE Bitfield ------------------------------
(***************************************************************************)
(* Bit fields of a BitField type descriptor                                *)
(* (src/libshvcore/src/utils/shvtypeinfo.cpp, ShvFieldDescr and            *)
(* ShvLogTypeDescr::field/fieldValue).                                     *)
(*                                                                         *)
(* A device value of a BitField type is one unsigned word.  Application    *)
(* code writes a field with setBitfieldValue() and reads it back with      *)
(* fieldValue(), which finds the field by name and calls bitfieldValue().  *)
(* The word is `uint64_t`; here it has W bits and every operation is taken *)
(* `% 2^W`.  A shift by the full width W is undefined behaviour in C++:    *)
(* the builds in use either mask the count to `count % W` (x86-64, AArch64 *)
(* register shifts) or shift every bit out, so a shift by W is a choice    *)
(* between the two outcomes and the operators return sets of results.     *)
(***************************************************************************)
EXTENDS Integers, Sequences, FiniteSets, Bitwise

CONSTANTS
    W,          \* width of the bitfield word in bits (64 in the code)
    Fields,     \* the descriptor's "fields" list: [name, typeName, value]
    Values,     \* values application code passes to setBitfieldValue()
    Types       \* the type info's types the fields name: name -> [type, fields]

ASSUME W \in Nat \ {0}
WordRange == 0 .. 2^W - 1

ASSUME Values \subseteq WordRange

AllOnes == 2^W - 1

(* `~x` on the word.                                                       *)
Compl(x) == AllOnes - x

(* `x << k` on the word: a set holding the outcomes the build can produce. *)
Shl(x, k) ==
    IF k < W THEN {(x * 2^k) % 2^W}
             ELSE {(x * 2^(k % W)) % 2^W, 0}

(* `x >> k` on the word.                                                   *)
Shr(x, k) == IF k < W THEN {x \div 2^k} ELSE {x \div 2^(k % W), 0}

(* RpcValue results of bitfieldValue(): a bool for a one-bit field, an     *)
(* unsigned integer otherwise; applyTypeDescription() also makes ints and  *)
(* strings.  An "UNKNOWN_<cpon>" string keeps the number it was made of.   *)
RpcBool(b)    == [type |-> "Bool", val |-> IF b THEN 1 ELSE 0, str |-> ""]
RpcUInt(u)    == [type |-> "UInt", val |-> u, str |-> ""]
RpcInt(i)     == [type |-> "Int", val |-> i, str |-> ""]
RpcString(x)  == [type |-> "String", val |-> 0, str |-> x]
RpcUnknown(i) == [type |-> "String", val |-> i, str |-> "UNKNOWN_"]

(* A field descriptor's "value" is a list [b1, b2] or one bit number.      *)
(* lst.value(i) of a missing element is an invalid RpcValue, toUInt() 0.   *)
ListValue(lst, i) == IF i < Len(lst) THEN lst[i + 1] ELSE 0

(* ShvFieldDescr::bitRange(): an inverted list is logged and narrowed to   *)
(* its first bit.                                                          *)
BitRange(fld) ==
    IF fld.value.isList
    THEN LET b1 == ListValue(fld.value.items, 0)
             b2 == ListValue(fld.value.items, 1)
         IN  <<b1, IF b2 < b1 THEN b1 ELSE b2>>
    ELSE <<fld.value.items[1], fld.value.items[1]>>

(* ShvFieldDescr::bitfieldValue():                                         *)
(*   mask = ~((~0) << (bit_no2 + 1)); uval = (uval & mask) >> bit_no1.     *)
BitfieldValue(fld, uval) ==
    LET r == BitRange(fld) IN
    { IF r[1] = r[2] THEN RpcBool(v # 0) ELSE RpcUInt(v) :
        v \in UNION { Shr(uval & Compl(s), r[1]) : s \in Shl(AllOnes, r[2] + 1) } }

(* Mutant: the value is not cut to the field's width before the shift.    *)
SetBitfieldValueNoClip(fld, bitfield, uval) ==
    LET r == BitRange(fld) IN
    UNION { UNION { { (bitfield & Compl(m)) | u :
                        m \in Shl(Compl(s), r[1]), u \in Shl(uval, r[1]) } :
            s \in Shl(AllOnes, r[2] - r[1] + 1) } }

(* ShvFieldDescr::setBitfieldValue():                                      *)
(*   mask = ~((~0) << (bit_no2 - bit_no1 + 1)); uval &= mask;              *)
(*   mask <<= bit_no1; uval <<= bit_no1; bitfield &= ~mask; |= uval.       *)
SetBitfieldValue(fld, bitfield, uval) ==
    LET r == BitRange(fld) IN
    UNION { UNION { { (bitfield & Compl(m)) | u :
                        m \in Shl(Compl(s), r[1]),
                        u \in Shl(uval & Compl(s), r[1]) } :
            s \in Shl(AllOnes, r[2] - r[1] + 1) } }

(* ShvLogTypeDescr::field(): the first field of that name; a default       *)
(* (invalid) descriptor when there is none.                                *)
NoField == [name |-> "", typeName |-> "", value |-> [isList |-> FALSE, items |-> <<0>>]]

FieldNamed(name) ==
    LET idx == {i \in 1 .. Len(Fields) : Fields[i].name = name} IN
    IF idx = {} THEN NoField
    ELSE Fields[CHOOSE i \in idx : \A j \in idx : i <= j]

(* ShvLogTypeDescr::fieldValue() for Type::BitField.                       *)
FieldValue(word, name) == BitfieldValue(FieldNamed(name), word)

FieldNames == {Fields[i].name : i \in 1 .. Len(Fields)}

(* RpcValue::toInt() of the values met here; 0 for a string.               *)
RvToInt(v) == IF v.type = "String" THEN 0 ELSE v.val

(* ShvFieldDescr::value().toInt(): 0 for a list.                           *)
FieldInt(fld) == IF fld.value.isList THEN 0 ELSE fld.value.items[1]

(* ShvTypeInfo::typeDescriptionForName(): Invalid for an unknown name.     *)
TypeDescr(typeName) ==
    IF typeName \in DOMAIN Types THEN Types[typeName]
    ELSE [type |-> "Invalid", fields |-> <<>>]

(* Mutant: an enum value is translated by the position of its field.      *)
ApplyScalarByIndex(val, typeName) ==
    LET td   == TypeDescr(typeName)
        hits == {i \in 1 .. Len(td.fields) : i - 1 = RvToInt(val)}
    IN  CASE td.type = "Enum" ->
               IF hits = {} THEN RpcUnknown(RvToInt(val))
               ELSE RpcString(td.fields[CHOOSE i \in hits :
                                          \A j \in hits : i <= j].name)
          [] td.type = "Bool" -> RpcBool(RvToInt(val) # 0)
          [] td.type = "UInt" -> RpcUInt(RvToInt(val))
          [] td.type = "Int"  -> RpcInt(RvToInt(val))
          [] OTHER            -> val

(* ShvTypeInfo::applyTypeDescription() for the types a field may name:    *)
(* Invalid returns the value, Enum (translate_enums) the name of the first *)
(* field whose value equals val.toInt() or "UNKNOWN_" + val.toCpon(), and  *)
(* Bool, UInt and Int convert.                                             *)
ApplyScalar(val, typeName) ==
    LET td   == TypeDescr(typeName)
        hits == {i \in 1 .. Len(td.fields) : FieldInt(td.fields[i]) = RvToInt(val)}
    IN  CASE td.type = "Enum" ->
               IF hits = {} THEN RpcUnknown(RvToInt(val))
               ELSE RpcString(td.fields[CHOOSE i \in hits :
                                          \A j \in hits : i <= j].name)
          [] td.type = "Bool" -> RpcBool(RvToInt(val) # 0)
          [] td.type = "UInt" -> RpcUInt(RvToInt(val))
          [] td.type = "Int"  -> RpcInt(RvToInt(val))
          [] OTHER            -> val

(* applyTypeDescription() of a word of this BitField type: for each field  *)
(* in order, map[fld.name()] = applyTypeDescription(fld.bitfieldValue(     *)
(* word), fld.typeName()); a later field of the same name overwrites.      *)
(* Each name maps to the set of values the build can produce.              *)
ApplyBitField(word) ==
    [name \in FieldNames |->
        LET i == CHOOSE i \in 1 .. Len(Fields) :
                     /\ Fields[i].name = name
                     /\ \A j \in i + 1 .. Len(Fields) : Fields[j].name # name
        IN  {ApplyScalar(r, Fields[i].typeName) : r \in BitfieldValue(Fields[i], word)}]

-----------------------------------------------------------------------------
(* The register word of a device and the value last written to each field *)
(* (ghost, -1 before the first write).                                     *)
VARIABLES word, lastSet, written

vars == <<word, lastSet, written>>

Init ==
    /\ word = 0
    /\ lastSet = [f \in FieldNames |-> -1]
    /\ written = {}

(* Application code stores a field value: word = fld.setBitfieldValue(     *)
(* word, uval).                                                            *)
SetField(name, uval) ==
    /\ word' \in SetBitfieldValue(FieldNamed(name), word, uval)
    /\ lastSet' = [lastSet EXCEPT ![name] = uval]
    /\ written' = {name}

Next == \E name \in FieldNames, uval \in Values : SetField(name, uval)

Spec == Init /\ [][Next]_vars

-----------------------------------------------------------------------------
(* The bit positions a field occupies.                                     *)
FieldBits(name) ==
    LET r == BitRange(FieldNamed(name)) IN r[1] .. r[2]

(* What a reader must get back after uval was written: uval cut to the    *)
(* field's width, as a bool for a one-bit field.                           *)
Expected(name, uval) ==
    LET r == BitRange(FieldNamed(name)) IN
    IF r[1] = r[2] THEN RpcBool(uval % 2 = 1)
                   ELSE RpcUInt(uval % 2^(r[2] - r[1] + 1))

(* The bits set in x.                                                      *)
BitSet(x) == {k \in 0 .. W - 1 : (x \div 2^k) % 2 = 1}

(* What a field shows after uval was written to it: uval cut to the       *)
(* field's width, named by the entry of that value when the field's type  *)
(* is an enum ("UNKNOWN_" with the number when no entry has it), as a bool *)
(* or a number when the type is Bool or UInt, else as bitfieldValue()     *)
(* returns it.                                                             *)
ShownAfter(name, uval) ==
    LET r   == BitRange(FieldNamed(name))
        cut == uval % 2^(r[2] - r[1] + 1)
        td  == TypeDescr(FieldNamed(name).typeName)
        entries == {e \in {td.fields[i] : i \in 1 .. Len(td.fields)} :
                        FieldInt(e) = cut}
    IN  CASE td.type = "Enum" ->
               IF entries = {} THEN RpcUnknown(cut)
               ELSE RpcString((CHOOSE e \in entries : TRUE).name)
          [] td.type = "Bool" -> RpcBool(cut # 0)
          [] td.type = "UInt" -> RpcUInt(cut)
          [] OTHER            -> Expected(name, uval)

(* The fields as applyTypeDescription() shows the device word.             *)
Displayed == [name \in FieldNames |-> CHOOSE v \in ApplyBitField(word)[name] : TRUE]

(* The write last asked for: the field written and the value given.       *)
LastWrite == IF written = {} THEN <<>>
             ELSE LET name == CHOOSE f \in written : TRUE IN <<name, lastSet[name]>>

Reg == INSTANCE Register WITH Names <- FieldNames, Values <- Values,
                              Shown <- ShownAfter, regs <- Displayed,
                              lastWrite <- LastWrite

(* The device word, seen through applyTypeDescription() of its BitField    *)
(* type, behaves as a record of named fields: it starts with every field   *)
(* showing 0, and each setBitfieldValue() write changes exactly the field  *)
(* written, to the value written as the field's type shows it.             *)
RegisterRefinement == Reg!Spec

(* Reading a field with fieldValue() after any sequence of writes to the   *)
(* descriptor's (disjoint) fields gives the value last written to it, cut  *)
(* to the field: setBitfieldValue() and bitfieldValue() agree on the bits, *)
(* and no write to one field disturbs another.                             *)
ReadBackLastWrite ==
    \A name \in FieldNames :
        lastSet[name] # -1 =>
            FieldValue(word, name) = {Expected(name, lastSet[name])}

(* A setBitfieldValue() step changes no bit outside the written field.    *)
SetKeepsOtherBits ==
    [][\A name \in written' :
          \A k \in 0 .. W - 1 \ FieldBits(name) :
              (k \in BitSet(word')) = (k \in BitSet(word))]_vars
=============================================================================
