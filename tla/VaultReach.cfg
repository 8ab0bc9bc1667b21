\* Two copies over an existing vault whose saves and keyring writes succeed.
\* No symmetry: it is not sound for a liveness property.
CONSTANTS
    Instances = {a, b}
    Nobody = Nobody
    Passwords = {p1}
    LegacySecret = LegacySecret
    NoSecret = NoSecret
    Edits = {}
    Keys = {k1, k2, k3}
    NoKey = NoKey
    NoVault = NoVault
    NoImage = NoImage
    NoEntry = NoEntry
    Unreadable = Unreadable
    Faults = {"entryRead", "discard"}
SPECIFICATION FairSpec
INVARIANTS NeverStranded
PROPERTIES HandlersReturn
