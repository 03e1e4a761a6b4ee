\* Two orders against one edit on two products, with faults and crashes.
CONSTANTS
    o1 = o1  o2 = o2  o3 = o3  e1 = e1
    OrderRequests = {o1, o2}
    EditRequests = {e1}
    PoolSize = 2
    NoOwner = NoOwner
    Undefined = Undefined
    ProductCount = 2
    InitialProduct <- MCInitialProduct
    ItemLists <- MCItemLists
    Edits <- MCEdits
    MaxTotal <- MCMaxTotal
SPECIFICATION Spec
CHECK_DEADLOCK FALSE
INVARIANTS TypeOK TransactionInv SnapshotCurrent LocksAscend
PROPERTIES ImplementsInventory EveryCallAnswered
