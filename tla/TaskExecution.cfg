SPECIFICATION Spec
CONSTANTS
    m1 = m1
    m2 = m2
    w1 = w1
    w2 = w2
    r1 = r1
    None = None
    Messages = {m1, m2}
    Workers = {w1, w2}
    Resources = {r1}
    ResourceOf <- SameAggregate
    MaxFaults = 3
SYMMETRY Symmetry
INVARIANTS
    TypeOK
    EffectsMatchReceipts
    GuardHoldsToCommit
    CurrentOwnerHasWork
    ReleasedStaysReleased
PROPERTIES
    WritesInEpochOrder
    OnlyOwnersRelease
    ImplementsFencedEffects
