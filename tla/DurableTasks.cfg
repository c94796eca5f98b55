SPECIFICATION FairSystem
CONSTANTS
    w1 = w1
    p1 = p1
    r1 = r1
    None = None
    Messages = {1}
    Scheduled = {1}
    Workers = {w1}
    Resources = {r1}
    ResourceOf <- SameAggregate
    Pumps = {p1}
    MaxAttempts = 2
    MaxFaults = 2
PROPERTIES
    WorkersFollowProtocol
    PumpsFollowProtocol
    ImplementsReliableTasks
    EveryIntentSettles
