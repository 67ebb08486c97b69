\* An error of the commission lookup after the creator was credited.
CONSTANTS
    s1 = s1
    s2 = s2
    s3 = s3
    Settlers = {s1, s2, s3}
    Totals <- UniformTotals
    CoinMicros = 10
    InitialCoins = 2
    BdBps = 5000
    AgencyBps = 10000
    MaxAttempts = 3
    MaxDeposit = 2
SPECIFICATION Spec
SYMMETRY SettlerSymmetry
INVARIANTS
    HistoryShowsCredit
