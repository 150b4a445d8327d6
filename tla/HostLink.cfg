SPECIFICATION Spec
CONSTANTS
    q1 = q1
    q2 = q2
    n1 = n1
    Requesters = {q1, q2}
    Notifiers = {n1}
    NCalls = 2
    Scenarios <- MCScenarios
    Retry = 2
    NotifyDepth = 2
    AckSlots = 2
    IdMod = 4
    MaxLoss = 2
INVARIANTS TypeOK FailsOnlyByLoss
PROPERTIES Implements RunsInOrder
CHECK_DEADLOCK FALSE
