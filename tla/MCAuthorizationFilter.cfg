SPECIFICATION Spec
CONSTANTS
    home = home
    change = change
    t1 = t1
    t2 = t2
    k1 = k1
    k2 = k2
    r1 = r1
    r2 = r2
    Requests = {r1, r2}
    Filters = {home, change}
    ValidateUserSession <- TwoPages
    Tokens = {t1, t2}
    NoToken = NoToken
    Keys = {k1, k2}
    SignedBy <- TwoKeys
    Foreign = {t2}
    MustChangePassword = {t2}
INVARIANT IInv
INVARIANT DecidedByOwnCookies
INVARIANT SessionsEndForAReason
SYMMETRY TheRequests
