\* Two executions, one of which may crash at any step.  The view
\* leaves out a history variable that neither property reads.
CONSTANTS
    w1 = w1
    w2 = w2
    Nobody = Nobody
    Ghost = Ghost
    Workers = {w1, w2}
    MaxRetry = 1
    WatchdogCap = 1
    MaxCrashes = 1
    MaxLapses = 0
    Leftovers <- Checkpointed
SPECIFICATION Spec
SYMMETRY WorkerSymmetry
VIEW WithoutBreach
INVARIANTS
    SettledMeansPaid
PROPERTIES
    SettledStaysSettled
