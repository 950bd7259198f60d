SPECIFICATION Spec
CONSTANTS
    ByteBits = 1
    ByteMod = 2
    UsizeMod = 256
    ByteOp <- HostByteOp
    FloatOp <- HostFloatOp
    Widen <- HostWiden
    Narrow <- HostNarrow
    Inf64 = 96
    Buffer <- MCBuffer
INVARIANTS
    ArithmeticExact
    BitsExact
    CompareExact
    FloatCompareExact
    ConvertExact
    MemoryExact
