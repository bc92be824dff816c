CONSTANTS
    InstUids = {i1}
    ZoneUids = {}
    Names = {n1}
    i1 = i1
    i2 = i2
    z1 = z1
    n1 = n1
    None = None
    NameOf <- MCNameOf
    InstSpecs <- MCInstSpecs
    ZoneSpecs <- MCZoneSpecs
    Dates <- MCDates
    FaultKinds = {"net"}
    MaxFaults = 0
    MaxRestarts = 0
SPECIFICATION Spec
PROPERTY
    WorkloadFollowsSpec
CHECK_DEADLOCK FALSE
