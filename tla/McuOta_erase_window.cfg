SPECIFICATION Spec
CONSTANTS
    NumSlots = 1
    MaxVerify = 3
    SlotBlocks = 2
    Sizes = {2, 3}
    MaxEvents = 5
INVARIANTS
    BootSkipsErasedSlot
CHECK_DEADLOCK FALSE
