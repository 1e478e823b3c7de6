SPECIFICATION FairSpec
CONSTANTS
    p1 = p1  c1 = c1  c2 = c2
    Calls = {c1, c2}
    Payloads = {p1}
    Payload <- MCPayload
    MaxHeight = 2
    ValidFor = 1
    ExpiryCheck = TRUE
    Forks = TRUE
PROPERTIES
    ExpiredIsFinal
    EveryCallReturns
    KeepsPromise
CHECK_DEADLOCK FALSE
