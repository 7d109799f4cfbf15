SPECIFICATION FairSpec
CONSTANTS
    Worker = {w1, w2, w3}
    NUM_THREADS = 4
    NUM_PRINTERS = 2
    Nobody = Nobody
INVARIANTS
    PrinterFound
PROPERTY ImplementsShop
