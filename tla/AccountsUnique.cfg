SPECIFICATION Spec
CONSTANTS
    Session = {s1, s2, s3}
    alice = alice
    bob = bob
    both = both
    empty = empty
    Text <- MCText
    Words <- MCWords
    Garbage = Garbage
SYMMETRY Symmetry
INVARIANT UniqueUsernames
