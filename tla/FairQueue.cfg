SPECIFICATION Spec
CONSTANTS
    Clients = {"a", "b", "c"}
    Priorities = {0, 1}
    QueueCapacity = 4
INVARIANTS
    TypeOK
    BoundedBypass
PROPERTY
    NoStarvation
