SPECIFICATION Spec
CONSTANTS
    Conn = {c1, c2}
    None = None
    MAX_CLIENTS = 2
    MaxLines = 1
    MaxFds = 5
    Unresponsive = {}
SYMMETRY Symmetry
INVARIANT DepartureSurvived
