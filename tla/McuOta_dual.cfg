SPECIFICATION Spec
CONSTANTS
    NumSlots = 2
    MaxVerify = 3
    SlotBlocks = 2
    Sizes = {2, 3}
    MaxEvents = 9
INVARIANTS
    TypeOK
    NeverBootsIncomplete
    VerifyBudget
    KeepsActiveImage
CHECK_DEADLOCK FALSE
