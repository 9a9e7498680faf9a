\* Two one-shots whose folders collide, one editor with one edit or run by hand, and one crash or second pass.
SPECIFICATION Spec
CHECK_DEADLOCK FALSE
CONSTANTS
    Ids = {a, b}
    Slug <- SameSlug
    Prefix <- SamePrefix
    Repeating = {}
    Editors = {"shell"}
    Rearm = TRUE
    Ends = {2}
    Past <- Timers
    Grace = 0
    MaxTime = 2
    MaxEdits = 1
    MaxRounds = 1
SYMMETRY Symmetry
INVARIANTS
    ViewHeals
PROPERTIES
    PendingPreserved
