\* Four contracts, each on an instance of its own.
SPECIFICATION Spec
CONSTANTS
    SignIds = {i1}
    Signatories = {a1, a2}
    Thresholds = {0, 1, 2}
    TimeLocks = {0, 1, 3}
    Unset = Unset
    MaxStamp = 3
    LastStamp = 2
    Borrowers = {b1, b2}
    LoanAmounts = {0, 1, 2}
    LoanFeeRates = {0, 1, 2}
    FeeBase = 2
    LoanFunds = 2
    NoLoan = NoLoan
    PathAssets = {x1, x2, x3}
    PathSplits = {p1}
    ConvRates = {2}
    RateUnit = 2
    MAX_PATH_LEN = 2
    MAX_STALENESS = 0
    Slippages = {1}
    SlipBase = 2
    SwapAmounts = {2}
    MaxPairs = 3
    LastLedger = 1
    Nothing = Nothing
    TemplateCreators = {c1, c2}
    TemplateNames = {n1}
    ShareLists <- MCShareLists
    UseCaps = {1, Unlimited}
    Unlimited = Unlimited
    LastSequence = 1
    MaxUses = 2
SYMMETRY Renamings
INVARIANTS
    QuorumBacksExecution
    PoolKeepsFees
    PathsAreShortest
    TemplateStoresAgree
CHECK_DEADLOCK FALSE
