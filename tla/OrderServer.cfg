SPECIFICATION MCSpec
CONSTANTS
    o1 = o1
    NoOrder = NoOrder
    LastServer = 2
    Orders <- MCOrders
    MaxAttempts = 2
    MaxStalled = 1
    MaxFaults = 1
    MaxBinds = 2
    LastMigration = 4
    LegacyMigration = 1
    IndexedMigration = 3
INVARIANTS
    TypeOK
    LossExplained
    StalledMeansCutOff
    SchemaServed
CHECK_DEADLOCK FALSE
PROPERTIES
    ImplementsOrderMail
    QueuedJobSettles
    StartsBounded
