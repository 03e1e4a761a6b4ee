SPECIFICATION MCSpec
CONSTANTS
    c1 = c1
    c2 = c2
    c3 = c3
    NoProduct = NoProduct
    OldProduct = OldProduct
    Creations <- MCCreations
    Prices <- MCPrices
    LastSku = 3
    MaxFaults = 1
INVARIANTS
    TypeOK
    UniqueIndexUnused
    RivalWins
    NeverAllBlocked
PROPERTIES
    ImplementsCatalog
    EveryCreationAnswered
CHECK_DEADLOCK FALSE
