\* Four submissions, one of them a path payment, decimal columns as numbers.
SPECIFICATION Spec
CONSTANTS
    s1 = s1
    s2 = s2
    bill = bill
    tip = tip
    path = path
    k1 = k1
    k2 = k2
    None = None
    NumRequests = 4
    NumParticipants = 2
    Splits = {s1}
    SplitOf <- OneSplit
    Owed <- MCOwed
    TotalAmount <- MCTotal
    Request <- RacingRequests
    Amount <- MCAmount
    PathPayments = {path}
    DecimalsAreText = FALSE
INVARIANTS
    
    AnswersHold
    NoWaitCycle

    
CHECK_DEADLOCK FALSE
