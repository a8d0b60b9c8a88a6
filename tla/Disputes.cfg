\* One or two disputes about one escrow between two participants; the escrow's
\* own calls interleave with voting and resolution.
SPECIFICATION DSpec
CONSTANTS
    NumAddresses = 2
    MaxSplits = 1
    MaxObligation = 1
    Admins = {1}
    Creators = {1}
    Payees = {0}
    Treasuries = {1}
    Guests = {}
    CapChoices = {50}
    FeeChoices = {0}
    Notes = {"n0"}
    Metadatas = {"m0"}
    Versions = {"v1"}
    InitialFunds = 1
    TimelockSeconds = 1
    MaxTime = 3
    SplitNames = {"dinner"}
    Voters = {1, 2, 3}
    DisputeAdmins = {1}
    VotingPeriod = 1
    MaxDisputes = 2
INVARIANTS
    DisputesSettleOnce
PROPERTIES
    DisputeCallsSound
    
CHECK_DEADLOCK FALSE
