CONSTANTS
    Accounts = {p1}
    Customers = {u1, u2}
    Creators = {c1}
    NoAccount = NoAccount
    NoOwner = NoOwner
    Calls = {d1, d2}
    Balances <- MCBalances
    satoshisPerMintedToken = 2
    MaxKeys = 2
    MaxReserveKeys = 1
    MaxCash = 2
SPECIFICATION Spec
INVARIANTS
    TypeOK
    CountsAgree
    BackedByDeposits
    DepositOnCourse
    MintedForSigned
SYMMETRY Symmetry
