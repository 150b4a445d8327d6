SPECIFICATION Spec
CONSTANTS
    r1 = r1
    r2 = r2
    m1 = m1
    m2 = m2
    alice = alice
    bob = bob
    carol = carol
    Requests = {r1, r2}
    Workers = {"w1"}
    Ids = {m1, m2}
    Owners = {alice, bob, carol}
    Offer <- MCOffer
    MaxSessions = 3
    QueueCapacity = 1
    Plans <- MCPlans
INVARIANTS
    TypeOK
    RefsBalanced
    SessionsShared
    JobSessionLive
    PostSessionHeld
    
    DrainedQuiet
PROPERTIES
    AcceptedCompletes
    ShutdownEnds
