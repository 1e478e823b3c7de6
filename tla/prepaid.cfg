SPECIFICATION Spec
CONSTANTS
    r1 = r1  r2 = r2  r3 = r3  NoRef = NoRef
    Runs = {r1, r2, r3}
    MaxUnits = 2
    TopupUnits = 1
SYMMETRY RunSymmetry
INVARIANTS
    TypeOK
    CreditIsPaid
    CreditIsReachable
\* The runs come to an end.
CHECK_DEADLOCK FALSE
