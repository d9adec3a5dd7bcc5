CONSTANTS
    Peer = {p1, p2}
    Listed = {p2}
    Broadcast = Broadcast
    Conn <- MCConn
    Absent = Absent
    Null = Null
    MaxEvents = 2
SPECIFICATION Spec
INVARIANTS ActiveIsTriggered RegistryIsActive
PROPERTIES FaultNeedsBreak Reconnects
CHECK_DEADLOCK FALSE
