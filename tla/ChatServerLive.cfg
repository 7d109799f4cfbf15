SPECIFICATION FairSpec
CONSTANTS
    Conn = {c1, c2}
    None = None
    MAX_CLIENTS = 1
    MaxLines = 1
    MaxFds = 3
    Unresponsive = {}
PROPERTIES
    DepartureCompletes
    BroadcastFinishes
    ConnectionServed
