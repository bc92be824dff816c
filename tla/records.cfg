CONSTANTS
    r1 = r1
    r2 = r2
    Recs <- MCRecs
    RecType <- MCRecType
    RecSpecs <- MCRecSpecs
    MaxEdits = 3
SPECIFICATION Spec
INVARIANTS
    ValidatedBeforeApplied
PROPERTY SettlesUnlessRaising
CHECK_DEADLOCK FALSE
