CONSTANTS
    InstUids = {i1, i2}
    ZoneUids = {}
    Names = {n1}
    i1 = i1
    i2 = i2
    z1 = z1
    n1 = n1
    None = None
    NameOf <- MCNameOf
    InstSpecs <- MCOneInstSpec
    ZoneSpecs <- MCZoneSpecs
    Dates <- MCDates
    FaultKinds = {"net"}
    MaxFaults = 1
    MaxRestarts = 0
SPECIFICATION Spec
INVARIANT
    ReadyInstanceApplied
CHECK_DEADLOCK FALSE
