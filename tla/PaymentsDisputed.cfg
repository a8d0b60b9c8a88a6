\* Direct payments, the driver of production, and one dispute.
SPECIFICATION DisputedSpec
CONSTANTS
    s1 = s1
    s2 = s2
    bill = bill
    tip = tip
    k1 = k1
    k2 = k2
    None = None
    NumRequests = 3
    NumParticipants = 1
    Splits = {s1, s2}
    SplitOf <- MCSplitOf
    Owed <- MCOwed
    TotalAmount <- MCTotal
    Request <- MCRequest
    Amount <- MCAmount
    PathPayments = {}
    DecimalsAreText = TRUE
    Disputes = {d1}
    Handlers = {h1}
    MaxActions = 5
PROPERTIES
    
    NoCreditWhileDisputed
    
    EverySubmissionEnds
CHECK_DEADLOCK FALSE
