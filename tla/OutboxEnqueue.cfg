SPECIFICATION FairSpec
CONSTANTS
    t1 = t1
    t2 = t2
    k1 = k1
    k2 = k2
    None = None
    Transactions = {t1, t2}
    Keys = {k1, k2}
    Bodies = {"body"}
    Instants = {"noon"}
INVARIANTS
    RefusalsAreJustified
PROPERTIES
    ImplementsLedger
    EveryCallReturns
CHECK_DEADLOCK FALSE
