SPECIFICATION Spec
CONSTANTS
    Conn = {c1, c2, c3}
    None = None
    MAX_CLIENTS = 2
    MaxLines = 1
SYMMETRY Symmetry
INVARIANTS
    DescriptorOwned
    TableExact
    NobodyMisses
PROPERTY
    StraysNeedStaleEntry
