\* One payment, two workers, two faults of any kind.
SPECIFICATION ReconFairSpec
CONSTANTS
    NumPayments = 1
    Workers = {w1, w2}
    Nobody = Nobody
    BatchSize = 1
    MaxAttempts = 2
    MaxJobs = 1
    MaxTroubles = 2

    
PROPERTIES
    EveryPaymentSettles
CHECK_DEADLOCK FALSE
