CONSTANTS
    KByte = 1
    UintMod = 64
    Peer = {p1, p2}
    Uri = {u1}
    Hash = {h1, h2}
    NoHash = NoHash
    Size = {0, 2, 3}
    Absent = Absent
SYMMETRY Symmetry
SPECIFICATION Spec
INVARIANTS TypeOK BlocksConserved OnePeerPerBlock RangesHeldByOwners OwnersAgree
PROPERTIES ErasedOnlyWhenFetched VersionOnlyGrows
CHECK_DEADLOCK FALSE
