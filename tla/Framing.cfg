CONSTANTS
    LEN_LAN_SYNC_HEADER_T = 2
    UshortMod = 64
    UintMod = 64
    TopByte = 8
    Type = {t1, t2}
    Key = {k1, k2}
    Value <- MCValue
    Data <- MCData
    LIMIT = 1
    MaxSent = 3
    MaxOps = 3
SPECIFICATION Spec
INVARIANTS WriteFits InStep HandledAsSent NoneLeftBehind
CHECK_DEADLOCK FALSE
