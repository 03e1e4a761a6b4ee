\* One list read, two namespaces to invalidate, Redis failing at any time.
CONSTANTS
    r1 = r1  r2 = r2  m1 = m1  m2 = m2
    products = products  orders = orders
    Reads = {r1, r2}
    Mutations = {m1, m2}
    Keys = {products, orders}
    Namespaces = {products, orders}
    NamespaceOf <- MCNamespaceOf
    KeyOf <- MCKeyOf
    GroupOf <- MCGroupOf
    Absent = Absent
SPECIFICATION Spec
CHECK_DEADLOCK FALSE
INVARIANTS TypeOK StaleOnlyWhenOvertaken
PROPERTIES AnsweredUnlessScanWaits CacheConverges
