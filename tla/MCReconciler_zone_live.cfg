CONSTANTS
    InstUids = {}
    ZoneUids = {z1}
    Names = {n1}
    i1 = i1
    i2 = i2
    z1 = z1
    n1 = n1
    None = None
    NameOf <- MCNameOf
    InstSpecs <- MCInstSpecs
    ZoneSpecs <- MCZoneSpecs
    Dates <- MCDates
    FaultKinds = {"api", "net"}
    MaxFaults = 1
    MaxRestarts = 1
SPECIFICATION Spec
PROPERTIES
    EventuallyReconciled
CHECK_DEADLOCK FALSE
