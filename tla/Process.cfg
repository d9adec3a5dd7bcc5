CONSTANTS
    PortMod = 64
    LINE_LENGTH = 13
    Nodes <- MCNodes
    MaxIfreqs = 2
    MaxSockets = 5
    PeerIp = {1}
    Uri = {"u1"}
    MaxBatch = 2
    MaxFailures = 1
SPECIFICATION Spec
INVARIANTS DiscoverSetExact GoodConfigNoFault NoSessionWithItself
PROPERTIES FreedManagerNeedsExit EveryTaskRuns ExitEnds
CHECK_DEADLOCK FALSE
