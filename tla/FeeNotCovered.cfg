CONSTANTS
    o1 = o1
    o2 = o2
    o3 = o3
    OutPoints <- MCOutPoints
    Value <- MCValue
    WordSize <- MCWordSize
    DustThreshold = 2
    Calls = {c1, c2}
    Amounts <- MCAmounts
    Fees = 2
SPECIFICATION Spec
INVARIANTS
    FeesArePaid
