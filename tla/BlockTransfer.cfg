CONSTANTS
    KByte = 2
    UintMod = 32
    Size <- AnySize
    File = {f1, f2}
    FileSizes <- TransferSizes
    MaxOffset = 11
    MaxQueue = 1
    MaxFaults = 2
SPECIFICATION TransferSpec
INVARIANTS LoopComputesSplit BlocksTileFile SavedIsExact BufferFits RepliesAreTransfer
PROPERTIES ReadsEnd FileArrives
CHECK_DEADLOCK FALSE
