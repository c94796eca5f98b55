SPECIFICATION Spec
CONSTANTS
    p1 = p1
    p2 = p2
    None = None
    Messages = {1}
    Acknowledged = {1}
    Scheduled = {}
    Pumps = {p1, p2}
    MaxAttempts = 2
    MaxFaults = 2
SYMMETRY Symmetry
INVARIANTS
    AttemptsWithinLimit
