CONSTANTS
    h1 = h1
    h2 = h2
    Insts <- MCInsts
    MaxWorkers = 2
    MaxRestarts = 1
    MaxEvents = 1
SPECIFICATION Spec
INVARIANTS
    TypeOK
PROPERTIES
    ImplementsHealthDaemon
CHECK_DEADLOCK FALSE
