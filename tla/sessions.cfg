SPECIFICATION Spec
CONSTANTS
    u1 = u1  u2 = u2  w1 = w1  w2 = w2  m1 = m1  dk = dk
    usdc = usdc  eurc = eurc
    a1 = a1  a1b = a1b  a2 = a2  am = am  aw = aw  e1 = e1  ew = ew
    Authority <- MCAuthority
    Owner <- MCOwner
    MintOf <- MCMintOf
    InitialBalance <- MCInitialBalance
    Users = {u1, u2}
    Keys = {w1, w2, m1}
    SessionKeys = {m1}
    Merchants = {m1, u2}
    Mints = {usdc}
    Accounts = {a1, a1b, a2, am, aw}
    U64Max = 2
    Sponsorship = 3
    SessionRent = 1
    UserMintRent = 1
INVARIANTS
    TypeOK
    Accounted
    ReservationBacked
    OverflowUnreachable
    RentAccounted
    CloseAlwaysPossible
    ChargeAlwaysPossible
PROPERTIES
    SessionDebitIsPayment
    MerchantConfined
    ImplementsEscrow
CHECK_DEADLOCK FALSE
