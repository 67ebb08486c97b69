\* Two executions; one Redis key may expire under its holder.
CONSTANTS
    w1 = w1
    w2 = w2
    Nobody = Nobody
    Ghost = Ghost
    Workers = {w1, w2}
    MaxRetry = 1
    WatchdogCap = 1
    MaxCrashes = 0
    MaxLapses = 1
    Leftovers <- AnyLeftovers
SPECIFICATION Spec
SYMMETRY WorkerSymmetry
INVARIANTS
    TypeOK
    SettledMeansPaid
    OverlapOnlyAfterBreach
PROPERTIES
    SettledStaysSettled
