\* Two executions that may read different totals, a wallet that covers both.
CONSTANTS
    s1 = s1
    s2 = s2
    s3 = s3
    Settlers = {s1, s2}
    Totals <- StaleTotals
    CoinMicros = 10
    InitialCoins = 9
    BdBps = 0
    AgencyBps = 0
    MaxAttempts = 3
    MaxDeposit = 0
SPECIFICATION Spec
SYMMETRY SettlerSymmetry
INVARIANTS
    ChargedAtMostOnce
