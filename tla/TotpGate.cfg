\* Two copies, restarted, killed, with the clock set back or the entry lost.
CONSTANTS
    Instances = {a, b}
    Nobody = Nobody
    NoEntry = NoEntry
    MaxFailures = 2
    MaxAge = 1
    Skew = 1
    Start = 2
    LastStep = 4
    Faults = {"crash", "entryLost", "clockBack"}
SPECIFICATION Spec
INVARIANTS GuessesBounded NothingBurned
PROPERTIES CodeSpentOnce
