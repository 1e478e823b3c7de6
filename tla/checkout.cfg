SPECIFICATION FairSpec
CONSTANTS
    c1 = c1  c2 = c2  c3 = c3  low = low  high = high  NoAmount = NoAmount
    Amounts = {low, high}
    Calls = {c1, c2, c3}
INVARIANTS
    ButtonPaysOneAtATime
    ShownIsAllReserved
PROPERTIES
    NeverStuck
