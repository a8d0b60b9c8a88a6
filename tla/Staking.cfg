\* Two accounts, one of them the admin as well; a scale that does not divide.
SPECIFICATION Spec
CONSTANTS
    NumAddresses = 2
    StakeAmounts = {1, 2}
    RewardAmounts = {1}
    SCALE = 4
    Cooldown = 1
    InitialFunds = 3
    MaxIndex = 4
    MaxTime = 2
INVARIANTS
    StakeBooks
PROPERTIES
    StakeCallsSound
CHECK_DEADLOCK FALSE
