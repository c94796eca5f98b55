SPECIFICATION Spec
CONSTANTS
    c1 = c1
    c2 = c2
    k1 = k1
    Forged = Forged
    None = None
    Operations = {"url", "login", "credentials", "verify"}
    Callers = {c1,c2}
    Keys = {k1}
    CacheSeconds = 1
    MaxClock = 2
SYMMETRY Symmetry
PROPERTIES
    RetiredKeysExpire
    CurrentKeysVerify
