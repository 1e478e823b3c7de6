SPECIFICATION Spec
CONSTANTS
    p1 = p1  c1 = c1  c2 = c2
    Calls = {c1}
    Payloads = {p1}
    Payload <- MCPayload
    MaxHeight = 3
    ValidFor = 1
    ExpiryCheck = TRUE
    Forks = FALSE
INVARIANTS
    ExpiredMeansNotSettled
CHECK_DEADLOCK FALSE
