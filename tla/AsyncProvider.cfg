SPECIFICATION Spec
CONSTANTS
    Jobs = {j1, j2}
    VendorCalls = 2
INVARIANT Inv
PROPERTY ImplementsContract
CHECK_DEADLOCK FALSE
