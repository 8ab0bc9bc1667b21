\* One copy whose saves may fail.
CONSTANTS
    Instances = {a}
    Nobody = Nobody
    Passwords = {p1}
    LegacySecret = LegacySecret
    NoSecret = NoSecret
    Edits = {e1}
    Keys = {k1, k2, k3, k4}
    NoKey = NoKey
    NoVault = NoVault
    NoImage = NoImage
    NoEntry = NoEntry
    Unreadable = Unreadable
    Faults = {"save"}
SPECIFICATION ExistingSpec
SYMMETRY Symmetry
INVARIANTS NeverStranded
