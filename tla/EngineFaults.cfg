CONSTANTS
    KByte = 1
    UintMod = 64
    p1 = p1
    p2 = p2
    h1 = h1
    h2 = h2
    Peer = {p1}
    Uri = {u1}
    Hash = {h1, h2}
    NoHash = NoHash
    Size = {2, 3}
    Absent = Absent
    NoFile = NoFile
    DOWNLOAD_LIMIT = 2
    Version <- TwoVersions
    Served <- BiggerAtP2
    MaxDisconnects = 2
    MaxChanges = 1
    PeersConnect = TRUE
    WritesMayFail = TRUE
SPECIFICATION EngineSafety
INVARIANTS DownloadLimitKept WaitingRequestsBounded
CHECK_DEADLOCK FALSE
