\* What must happen in the end, under the fairness of timers, queues and jobs.
CONSTANTS
    p1 = p1
    p2 = p2
    p3 = p3
    d1 = d1
    d2 = d2
    Host = Host
    None = None
SPECIFICATION Spec
PROPERTIES
    MoneyArrives
    CallsEnd
    NobodyWaitsForever
    DriftIsRepaired
CHECK_DEADLOCK FALSE
