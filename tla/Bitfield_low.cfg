\* Writes and reads of fields that lie below the word's top bit.
CONSTANTS
    W <- MCW
    Fields <- MCFieldsLow
    Values <- MCValues
    Types <- MCTypes
SPECIFICATION Spec
PROPERTY RegisterRefinement
PROPERTY SetKeepsOtherBits
CHECK_DEADLOCK FALSE
