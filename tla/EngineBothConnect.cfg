CONSTANTS
    KByte = 1
    UintMod = 64
    p1 = p1
    p2 = p2
    h1 = h1
    h2 = h2
    Peer = {p1}
    Uri = {u1}
    Hash = {h1, h2}
    NoHash = NoHash
    Size = {3}
    Absent = Absent
    NoFile = NoFile
    DOWNLOAD_LIMIT = 2
    Version <- OneVersion
    Served <- AllServeOne
    MaxDisconnects = 0
    MaxChanges = 0
    PeersConnect = TRUE
    WritesMayFail = FALSE
SPECIFICATION EngineSafety
PROPERTIES ReplyClosesRange
CHECK_DEADLOCK FALSE
