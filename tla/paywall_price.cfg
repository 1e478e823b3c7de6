SPECIFICATION Spec
CONSTANTS
    r1 = r1  r2 = r2  r3 = r3  u1 = u1  u2 = u2  s1 = s1  s2 = s2
    NoServer = NoServer
    Requests = {r1, r2}
    Users = {u1}
    UserOf <- MCUserOf
    Servers = {s1}
    Funds <- MCFunds
    MaxHeight = 0
    ValidFor = 1
    ExpiryCheck = TRUE
INVARIANTS
    PricePerRequest
CHECK_DEADLOCK FALSE
