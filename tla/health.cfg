CONSTANTS
    h1 = h1
    h2 = h2
    Insts <- MCInsts
    MaxRestarts = 2
SPECIFICATION Spec
INVARIANT TypeOK
PROPERTY LifecycleSpec
CHECK_DEADLOCK FALSE
