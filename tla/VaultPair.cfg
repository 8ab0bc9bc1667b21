\* Two copies over a vault that already exists; every failure may happen.
CONSTANTS
    Instances = {a, b}
    Nobody = Nobody
    Passwords = {p1, p2}
    LegacySecret = LegacySecret
    NoSecret = NoSecret
    Edits = {e1}
    Keys = {k1, k2, k3, k4}
    NoKey = NoKey
    NoVault = NoVault
    NoImage = NoImage
    NoEntry = NoEntry
    Unreadable = Unreadable
    Faults = {"save", "entryRead", "entryWrite", "entryDelete", "entryLost", "discard", "crash"}
SPECIFICATION ExistingSpec
SYMMETRY Symmetry
INVARIANTS TypeOK OpenVaultHoldsLock
PROPERTIES NoLostEdit PasswordSlotStays NewerVaultUntouched LedgerImplemented
