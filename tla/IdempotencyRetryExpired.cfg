CONSTANTS
    a1 = a1  a2 = a2  a3 = a3  k1 = k1  b1 = b1  b2 = b2
    Attempts = {a1, a2, a3}
    Keys = {k1}
    Bodies = {b1, b2}
    KeyOf <- MCKeyOf
    BodyOf <- MCBodyOf
    None = None
SPECIFICATION Spec
CHECK_DEADLOCK FALSE
INVARIANTS RetryNeedsNoFault
