CONSTANTS
    o1 = o1
    o2 = o2
    o3 = o3
    k1 = k1
    k2 = k2
    a1 = a1
    a2 = a2
    OutPoints <- MCOutPoints
    Value <- MCValue
    P2pkhAddress <- MCP2pkhAddress
    Pays <- MCPays
    Keys = {k1, k2}
    Addresses = {a1, a2}
    NoKey = NoKey
    WordSize = 32
    DustThreshold = 2
    Calls = {c1, c2}
    Amounts = {1, 8, 20}
    Fees = 2
SPECIFICATION Spec
INVARIANTS
    TypeOK
    DoubleSpendsOverlap
    InputsUnlocked
PROPERTIES
    CallsEnd
