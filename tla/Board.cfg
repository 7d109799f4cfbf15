SPECIFICATION FairSpec
CONSTANTS
    File = {app}
    Kernel = {irq}
    App = app
    Irq = irq
    VALUES = 2
INVARIANTS
    
    FileFaultsNeedRemove
    AdapterHeld
    
    DescriptorsOutliveThreads
PROPERTIES
    QuitExits
    ScreenCatchesUp
