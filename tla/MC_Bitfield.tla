--------------------------- MODULE MC_Bitfield ----------------------------
(* Model-checking instance of Bitfield: a 5-bit word.                      *)
EXTENDS Bitfield, TLC

List(b1, b2) == [isList |-> TRUE, items |-> <<b1, b2>>]
Bit(b) == [isList |-> FALSE, items |-> <<b>>]

(* The types the fields name: an enum whose entries skip the value 2, and *)
(* UInt.  Fields without a type name show bitfieldValue() as it is.       *)
MCTypes ==
    ("Mode" :> [type |-> "Enum",
                fields |-> << [name |-> "off", typeName |-> "", value |-> Bit(0)],
                              [name |-> "on", typeName |-> "", value |-> Bit(1)],
                              [name |-> "fault", typeName |-> "", value |-> Bit(3)] >>])
    @@ ("Count" :> [type |-> "UInt", fields |-> <<>>])

(* Fields below the top bit: a two-bit field, a one-bit field given as a  *)
(* number, and an inverted list [3, 2] that bitRange() narrows to bit 3.  *)
MCFieldsLow ==
    << [name |-> "mode", typeName |-> "Mode", value |-> List(0, 1)],
       [name |-> "on", typeName |-> "", value |-> Bit(2)],
       [name |-> "err", typeName |-> "Count", value |-> List(3, 2)] >>

(* The same layout with a two-bit field that includes the top bit.        *)
MCFieldsTop ==
    << [name |-> "mode", typeName |-> "Mode", value |-> List(0, 1)],
       [name |-> "on", typeName |-> "", value |-> Bit(2)],
       [name |-> "level", typeName |-> "", value |-> List(3, 4)] >>

MCW == 5
(* Values up to 5 exceed the two-bit fields and must be cut.               *)
MCValues == 0 .. 5
=============================================================================
