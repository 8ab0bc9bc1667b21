\* Two copies, over nothing or over an existing vault; saves and the keyring may
\* fail, nothing crashes.
CONSTANTS
    Instances = {a, b}
    Nobody = Nobody
    Passwords = {p1}
    LegacySecret = LegacySecret
    NoSecret = NoSecret
    Edits = {e1}
    Keys = {k1, k2, k3, k4, k5}
    NoKey = NoKey
    NoVault = NoVault
    NoImage = NoImage
    NoEntry = NoEntry
    Unreadable = Unreadable
    Faults = {"save", "entryRead", "entryWrite", "entryDelete", "entryLost"}
SPECIFICATION Spec
SYMMETRY Symmetry
INVARIANT MigrationCanFinish
