\* A batch, a webhook, an export and a proposal, each on an instance of its own.
SPECIFICATION Spec
CONSTANTS
    NumOps = 2
    Lanes = {c1, c2}
    MaxRuns = 2
    JobAttempts = 2
    RetryAttempts = 1
    MaxCalls = 2
    MaxFaults = 1
    Deliveries = {d1, d2}
    MAX_RETRIES = 2
    Threshold = 2
    MaxChanges = 1
    MaxErrors = 1
    ExportCalls = {e1, e2}
    Creator = e1
    MaxRetries = 2
    MaxExportCalls = 3
    MaxOutages = 1
    Voters = {c1, c2}
    Callers = {c1, c2}
    TotalPower = 2
    Quorums = {50, 51}
    VotingStart = 1
    VotingEnd = 1
    Delay = 1
    Unvoted = Unvoted
    LastHour = 2
    MaxRequests = 3
SYMMETRY Renamings
INVARIANTS
    
    
    CompletedHasFile
    ExecutedWasCarried
CHECK_DEADLOCK FALSE
