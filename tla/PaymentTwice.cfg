\* The client and the poller submit one transaction under different keys.
SPECIFICATION Spec
CONSTANTS
    s1 = s1
    s2 = s2
    bill = bill
    tip = tip
    path = path
    k1 = k1
    k2 = k2
    None = None
    NumRequests = 3
    NumParticipants = 2
    Splits = {s1}
    SplitOf <- OneSplit
    Owed <- MCOwed
    TotalAmount <- MCTotal
    Request <- PolledRequests
    Amount <- MCAmount
    PathPayments = {path}
    DecimalsAreText = TRUE
INVARIANT
    TransactionCreditedOnce
CHECK_DEADLOCK FALSE
