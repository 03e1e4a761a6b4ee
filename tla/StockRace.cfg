\* Three orders and one edit competing for three connections and scarce stock.
CONSTANTS
    o1 = o1  o2 = o2  o3 = o3  e1 = e1
    OrderRequests = {o1, o2, o3}
    EditRequests = {e1}
    PoolSize = 3
    NoOwner = NoOwner
    Undefined = Undefined
    ProductCount = 2
    InitialProduct <- MCInitialProduct
    ItemLists <- MCItemLists
    Edits <- MCEdits
    MaxTotal <- MCMaxTotal
SPECIFICATION Spec
SYMMETRY Symmetry
CHECK_DEADLOCK FALSE
INVARIANTS NoDeadlock StockAccounted RefusalJustified OutcomeTruthful NeverAllBlocked
