\* Two executions, no crash and no expiring key.
CONSTANTS
    w1 = w1
    w2 = w2
    Nobody = Nobody
    Ghost = Ghost
    Workers = {w1, w2}
    MaxRetry = 1
    WatchdogCap = 1
    MaxCrashes = 0
    MaxLapses = 0
    Leftovers <- Checkpointed
SPECIFICATION Spec
SYMMETRY WorkerSymmetry
INVARIANTS
    OneSettlementAtATime
