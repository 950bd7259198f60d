SPECIFICATION Spec
CONSTANTS
    ByteBits = 2
    ByteMod = 4
    UsizeMod = 65536
    ByteOp <- HostByteOp
    FloatOp <- HostFloatOp
    Widen <- HostWiden
    Narrow <- HostNarrow
    Inf64 = 28672
    Item <- MCItem
    Wrapper <- MCWrapper
    Expr <- MCExpr
    PointerTypes = {"I32", "I64"}
    SecondNanos = 3
    MaxExprs = 2
INVARIANT
    NarrowArrives
CHECK_DEADLOCK FALSE
