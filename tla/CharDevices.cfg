SPECIFICATION Spec
CONSTANTS
    File = {f1, f2}
    None = None
    NUM_DEVICES = 2
    BUF_SIZE = 2
SYMMETRY Symmetry
INVARIANTS
    
    SingleAuthor
    NothingLeft
    FaultNeedsEarlyOpen
