SPECIFICATION Spec
CONSTANTS
    p1 = p1
    p2 = p2
    None = None
    Messages = {1, 2}
    Acknowledged = {1}
    Scheduled = {2}
    Pumps = {p1, p2}
    MaxAttempts = 1
    MaxFaults = 1
SYMMETRY Symmetry
INVARIANTS
    TypeOK
    DeadLettersAreExhausted
PROPERTIES
    OnlyPublisherEndsDelivery
