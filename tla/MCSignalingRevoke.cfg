SPECIFICATION Spec
CONSTANTS
    k1 = k1
    k2 = k2
    a1 = a1
    a2 = a2
    a3 = a3
    b1 = b1
    b2 = b2
    c1 = c1
    None = None
    Keys = {k1}
    Account <- MCAccount
    Agents = {a1, a2}
    KeyOf <- MCKeyOf
    Browsers = {b1}
    Codes = {c1}
    CodeOf <- MCCodeOf
    FailKinds = {"auth_failed"}
    FailLimit <- MCFailLimit
    MaxRows = 1
INVARIANT RevokedStopsResolving
CHECK_DEADLOCK FALSE
