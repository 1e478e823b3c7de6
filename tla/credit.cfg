SPECIFICATION FairSpec
CONSTANTS
    a1 = a1  a2 = a2  j1 = j1  j2 = j2  j3 = j3  x1 = x1  x2 = x2
    Accounts = {a1, a2}
    Jobs = {j1, j2, j3}
    AccountOf <- MCAccountOf
    Signatures = {x1, x2}
    MaxCredit = 2
    MaxHold = 2
    MaxCost = 2
    MaxTries = 2
INVARIANTS
    TypeOK
    Conserved
    ChargedWithinHold
PROPERTIES
    EveryHoldSettled
    KeepsLedger
CHECK_DEADLOCK FALSE
