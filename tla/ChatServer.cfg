SPECIFICATION Spec
CONSTANTS
    Conn = {c1, c2}
    None = None
    MAX_CLIENTS = 2
    MaxLines = 1
    MaxFds = 5
    Unresponsive = {c1, c2}
SYMMETRY Symmetry
INVARIANTS
    RegisteredIsLive
    BroadcastReachesMembers
    TotalOrder
    LogTellsEachStory
    
PROPERTY ImplementsRoom
