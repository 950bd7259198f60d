SPECIFICATION Spec
CONSTANTS
    Width = 2
    Byte = {0, 1}
    MaxLen = 12
INVARIANTS
    Lossless
    SizeReadable
CHECK_DEADLOCK FALSE
