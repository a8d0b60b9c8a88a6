\* One request after the other is enough to give away more than the whole track.
SPECIFICATION CollaborationSpec
CONSTANTS
    Artists = {a1, a2}
    Petitions = {r1, r2, r3, r4}
    Percentages = {60}
    NoShare = NoShare
    PercentagesAreText = TRUE
INVARIANT
    TrackNotOversold
CHECK_DEADLOCK FALSE
