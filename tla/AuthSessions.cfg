SPECIFICATION Spec
CONSTANTS
    t1 = t1
    t2 = t2
    b1 = b1
    b2 = b2
    r1 = r1
    r2 = r2
    None = None
    Logins = {t1, t2}
    Browsers = {b1, b2}
    Requests = {r1, r2}
    operator = operator
    admin = admin
    Roles = {operator, admin}
SYMMETRY Symmetry
INVARIANTS
    OneSessionPerLogin
    LoginsAreOnesOwn
PROPERTIES
    SessionsCarryTheirClaims
    LogoutsEndTheirOwn
