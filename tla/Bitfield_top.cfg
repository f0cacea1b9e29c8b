\* A field that includes the word's top bit: bitfieldValue() shifts by W.
CONSTANTS
    W <- MCW
    Fields <- MCFieldsTop
    Values <- MCValues
    Types <- MCTypes
SPECIFICATION Spec
INVARIANT ReadBackLastWrite
CHECK_DEADLOCK FALSE
