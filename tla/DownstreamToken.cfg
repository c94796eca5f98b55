SPECIFICATION FairSpec
CONSTANTS
    c1 = c1
    c2 = c2
    c3 = c3
    None = None
    Callers = {c1,c2,c3}
    Lifetimes = {0, 3, 9}
    DefaultTtl = 4
    MaxTtl = 6
    Margin = 2
    MaxClock = 8
INVARIANTS
    StaleTokensAreBounded
PROPERTIES
    ExchangesAreNeeded
    EveryRequestEnds
