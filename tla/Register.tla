------------------------------ MODULE Register ------------------------------
(***************************************************************************)
(* What a BitField type promises the code that displays a device value    *)
(* through its type info: the value is a record of named fields, each      *)
(* holding what was last written to it as the field can show it.  A write *)
(* to one field changes only that field.  Shown(name, v) is the value a    *)
(* write of v to the field leaves there; before any write the device word  *)
(* is 0 and every field shows Shown(name, 0).  lastWrite records the last  *)
(* write asked for, <<name, v>>, so that the write a step performs is the  *)
(* write asked for and a step that asks for a write cannot be a stutter.  *)
(***************************************************************************)
CONSTANTS
    Names,          \* the field names
    Values,         \* values written
    Shown(_, _)     \* what a field shows after a value is written to it

VARIABLES regs, lastWrite

Init == /\ regs = [name \in Names |-> Shown(name, 0)]
        /\ lastWrite = <<>>

Write(name, v) == /\ lastWrite' = <<name, v>>
                  /\ regs' = [regs EXCEPT ![name] = Shown(name, v)]

Next == \E name \in Names, v \in Values : Write(name, v)

Spec == Init /\ [][Next]_<<regs, lastWrite>>
=============================================================================
