CONSTANTS
    r1 = r1  r2 = r2  p1 = p1
    None = None
    Replicas = {r1, r2}
    Hosts = {r1}
    Pages = {p1}
    QueueLimit = 1
    MaxTries = 2
    MaxEvents = 2
    MaxFaults = 1
SPECIFICATION FairSpec
CHECK_DEADLOCK FALSE
INVARIANTS TypeOK NothingMissed
PROPERTIES EventuallyShown ImplementsEventFeed
