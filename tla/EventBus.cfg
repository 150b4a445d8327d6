SPECIFICATION Spec
CONSTANTS
    Streams = {"s1", "s2", "s3"}
    Client <- MCClient
    Pattern <- MCPattern
    Filtered <- MCFiltered
    Publishers = {"p", "q"}
    Matched <- MCMatched
    MaxEvents <- MCMaxEvents
    QueueSize = 1
    Lineups = {{"s1", "s2"}, {"s1", "s3"}}
CHECK_DEADLOCK FALSE
INVARIANTS
    TypeOK
    QuitClosedOnce
    TableExact
    
    DeliveredExact
PROPERTIES
    PublishReturns
    StreamEnds
