\* An invitation, a short link, a key, an archive, a list of debts, a track's
\* collaborations and two disputes of a split, each on an instance of its own.
SPECIFICATION Spec
CONSTANTS
    Calls = {r1, r2, r3, r4}
    Emails = {e1}
    Guest = Guest
    Nobody = Nobody
    MaxUses = 2
    MaxCuts = 1
    Visits = {r1, r2, r3, r4}
    MaxAccesses = 2
    LinkLimit = 2
    MaxDrops = 1
    Clients = {c1, c2, c3}
    Payloads = {p, q}
    NoRecord = NoRecord
    MaxStops = 1
    Movers = {r1, r2, r3, r4}
    NoOne = NoOne
    MaxAborts = 1
    NumWallets = 4
    MaxDebt = 2
    MaxDebts = 3
    Artists = {a1, a2}
    Petitions = {r1, r2, r3, r4}
    Percentages = {50, 100}
    NoShare = NoShare
    PercentagesAreText = TRUE
    Disputes = {d1, d2}
    Splits = {s1}
    Handlers = {h1, h2}
    None = None
    MaxActions = 4
SYMMETRY Renamings
INVARIANTS
    CapLeaksOnlyByRaces
    LinkLimitsLeakOnlyByRaces
    AnswersAreReplayed
    ArchivingLosesOnlyByRaces
    DebtsNetOut
    
    SettledWasReviewed

    
CHECK_DEADLOCK FALSE
