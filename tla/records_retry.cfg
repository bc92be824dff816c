CONSTANTS
    r1 = r1
    r2 = r2
    Recs <- MCRecs
    RecType <- MCRecType
    RecSpecs <- MCRecSpecs
    MaxEdits = 3
SPECIFICATION Spec
PROPERTY EventuallySettled
CHECK_DEADLOCK FALSE
