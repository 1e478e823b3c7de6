CONSTANTS
    Base = 3
    Comma = Comma
    MaxWhole = 3
    MaxFrac = 2
    MaxUnits = 50
    Tokens <- MCTokens
    Limits <- MCLimits
    NoLimit = NoLimit
    Refused = Refused
SPECIFICATION Spec
\* An exchange ends: charged, declined, unpaid or an error.
CHECK_DEADLOCK FALSE
INVARIANTS ExactPrice ChargedAsAsked ChargedWithinLimit ClientsAgree WordIsPayable
