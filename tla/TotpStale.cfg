\* One copy; nothing fails, the code screen is just left open.
CONSTANTS
    Instances = {a}
    Nobody = Nobody
    NoEntry = NoEntry
    MaxFailures = 2
    MaxAge = 2
    Skew = 1
    Start = 2
    LastStep = 5
    Faults = {}
SPECIFICATION Spec
PROPERTIES RecentPassword
