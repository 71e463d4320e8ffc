SPECIFICATION Spec
CONSTANTS
    Requests <- DoclingFirst
    MaxFiles = 2
    Threshold = 1
INVARIANTS
    NeverHalfSend
