\* Three accounts, one escrow, uneven fees: rounding, caps, refunds.
SPECIFICATION Spec
CONSTANTS
    NumAddresses = 3
    MaxSplits = 1
    MaxObligation = 2
    Admins = {1}
    Creators = {1}
    Payees = {0, 2}
    Treasuries = {2, 3}
    Guests = {1}
    CapChoices = {2, 3}
    FeeChoices = {3333, 20000}
    Notes = {"n0", "n1"}
    Metadatas = {"m0"}
    Versions = {"v1"}
    InitialFunds = 2
    TimelockSeconds = 0
    MaxTime = 1
INVARIANTS
    EscrowBooks
    AlertsAndCaps
PROPERTIES
    SettlementSound
CHECK_DEADLOCK FALSE
