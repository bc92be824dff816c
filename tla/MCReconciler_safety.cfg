CONSTANTS
    InstUids = {i1, i2}
    ZoneUids = {}
    Names = {n1}
    i1 = i1
    i2 = i2
    z1 = z1
    n1 = n1
    None = None
    NameOf <- MCNameOf
    InstSpecs <- MCInstSpecs
    ZoneSpecs <- MCZoneSpecs
    Dates <- MCDates
    FaultKinds = {"api", "net"}
    MaxFaults = 1
    MaxRestarts = 1
SPECIFICATION Spec
INVARIANT InstanceArtifactsOwned
PROPERTY StoreWrittenForExistingObject
CHECK_DEADLOCK FALSE
