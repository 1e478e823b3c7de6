SPECIFICATION Spec
CONSTANTS
    c1 = c1  c2 = c2  c3 = c3  p1 = p1  p2 = p2  Nobody = Nobody
    Calls = {c1, c2}
    Processes = {p1, p2}
    ProcessOf <- MCProcessOf
    MaxPerTx = 2
    DailyCap = 2
    MaxUnits = 2
    MaxSettled = 3
    MaxAgain = 2
    MaxDay = 1
    KeptDays = 1
    InitUserPays = TRUE
    Crashes = TRUE
INVARIANTS
    JournalNeverOverstates
CHECK_DEADLOCK FALSE
