SPECIFICATION TSpec
CONSTANTS
    ByteBits = 2
    ByteMod = 4
    UsizeMod = 65536
    ByteOp <- HostByteOp
    FloatOp <- HostFloatOp
    Widen <- HostWiden
    Narrow <- HostNarrow
    Inf64 = 28672
    FuncId <- MCFuncId
    Block <- MCBlock
    Value <- MCValue
    NoBlock <- MCNoBlock
    Code <- MCCode
    Avail <- MCAvail
    MemorySizes <- MCMemorySizes
    MemoryImages <- MCMemoryImages
    StepBudgets <- MCStepBudgets
    ArgVectors <- MCArgVectors
    MaxRuns = 1
    TraceSettings = {FALSE}
    PreviewMax = 2
    Utf8 <- MCUtf8
INVARIANTS
    SoundInv
PROPERTIES
    ImplementsSsa
CHECK_DEADLOCK FALSE
