\* One execution at a time, one crash, the full retry loop, under fairness.
CONSTANTS
    w1 = w1
    w2 = w2
    Nobody = Nobody
    Ghost = Ghost
    Workers = {w1}
    MaxRetry = 2
    WatchdogCap = 1
    MaxCrashes = 1
    MaxLapses = 0
    Leftovers <- Checkpointed
SPECIFICATION FairSpec
PROPERTIES
    EventuallyResolved
