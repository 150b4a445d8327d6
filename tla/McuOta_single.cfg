SPECIFICATION FairSpec
CONSTANTS
    NumSlots = 1
    MaxVerify = 3
    SlotBlocks = 2
    Sizes = {2, 3}
    MaxEvents = 9
INVARIANTS
    NeverBootsIncomplete
    VerifyBudget

    
CHECK_DEADLOCK FALSE
