\* One copy, over nothing or over an existing vault, whose writes succeed.
CONSTANTS
    Instances = {a}
    Nobody = Nobody
    Passwords = {p1, p2}
    LegacySecret = LegacySecret
    NoSecret = NoSecret
    Edits = {e1, e2}
    Keys = {k1, k2, k3, k4}
    NoKey = NoKey
    NoVault = NoVault
    NoImage = NoImage
    NoEntry = NoEntry
    Unreadable = Unreadable
    Faults = {"entryRead", "discard"}
SPECIFICATION Spec
SYMMETRY Symmetry
INVARIANTS SlotsMatchDisk EntryMatchesVault
