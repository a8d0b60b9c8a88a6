\* A recurring split, an OCR job and the poller, each on an instance of its own.
SPECIFICATION Spec
CONSTANTS
    Generators = {cron, manual}
    Cron = cron
    Period = 1
    Never = Never
    Gone = Gone
    LastDay = 3
    MaxEdits = 3
    MaxMishaps = 1
    QueueJobs = {q1, q2}
    Attempts = 2
    MaxScanCalls = 2
    MaxUpsets = 1
    Polls = {p1, p2}
    NumRecords = 3
    PageSize = 2
    Now = Now
    MaxLapses = 2
INVARIANTS
    NoRecordSkipped
    NoOccurrenceSkipped
    ResultsMatchStatus
PROPERTIES
    OccurrencesHappen
    EveryRecordTried
CHECK_DEADLOCK FALSE
