SPECIFICATION Spec
CONSTANTS
    None = None
    NUM_THREADS = 3
    NUM_INCREMENTS = 2
    MAX_CONCURRENT = 2
    MaxSignals = 4
    MaxInput = 3
    Conn = {c1, c2}
    MAX_CLIENTS = 2
    MaxLines = 1
    MaxTyped = 2
    MaxRepeats = 2
INVARIANTS
    
    ChildrenSeenThrough
    SignalsAccounted
    KilledNeedsGap
    SharedIsHeld
    PipeNeverFull
    
    
    RelayServes
    

    
