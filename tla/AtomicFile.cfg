\* Two processes save in turn; either may be killed and the power may fail.
CONSTANTS
    Writers = {a, b}
    Nobody = Nobody
    Values = {v1, v2, v3}
    Torn = Torn
    Inodes = {f1, f2, f3, f4}
    NoInode = NoInode
SPECIFICATION Spec
SYMMETRY Symmetry
INVARIANTS OldUntilRenamed SavedOnceRenamed
PROPERTIES RegisterImplemented
