SPECIFICATION Spec
CONSTANTS
    w = w  d = d  m = m  x = x  c1 = c1  c2 = c2
    Payers = {w, d}
    Owners = {w}
    Merchants = {m, x}
    Payees = {w, m, x}
    Wallets = {w, d}
    Mint = usdc
    Calls = {c1, c2}
    MaxUnits = 1
    MaxAgain = 1
    Funds <- MCFunds
    FrontEnds <- MCFrontEnds
    Tokens <- MCTokens
    Deny <- MCDeny
    Allow <- MCAllow
SYMMETRY Symmetry
INVARIANTS
    TypeOK
    OnlyPayable
    TopUpUsable
    DepositRecorded
PROPERTIES
    DebitedAsAsked
CHECK_DEADLOCK FALSE
