SPECIFICATION Spec
CONSTANTS
    c1 = c1  c2 = c2  c3 = c3  p1 = p1  p2 = p2  Nobody = Nobody
    Calls = {c1, c2}
    Processes = {p1}
    ProcessOf <- MCProcessOf
    MaxPerTx = 2
    DailyCap = 3
    MaxUnits = 4
    MaxSettled = 6
    MaxAgain = 2
    MaxDay = 1
    KeptDays = 1
    InitUserPays = FALSE
    Crashes = FALSE
INVARIANTS
    TypeOK
    OvershootBounded
    NoLostRecord
CHECK_DEADLOCK FALSE
