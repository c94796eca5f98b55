SPECIFICATION Spec
CONSTANTS
    o1 = o1
    o2 = o2
    None = None
    Messages = {1, 2}
    Owners = {o1, o2}
    NotBefore <- DueInTurn
    Limit = 2
    LeaseSeconds = 1
    RetrySeconds = 1
    MaxClock = 3
SYMMETRY Symmetry
PROPERTIES
    MarksOwnClaim
    NoTakeoverOfLiveLease
    OverdueGrantsRecordNothing
