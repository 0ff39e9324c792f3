SPECIFICATION PageSpec
CONSTANTS
    Pages <- MCPages
    Drafts = {own, other}
    Registered = own
    Nothing = Nothing
    MaxClicks = 2
    MaxTroubles = 1
INVARIANTS
    DoneIsTrue
    RegisteredAsPreviewed
PROPERTIES
    PageComesBack
CHECK_DEADLOCK FALSE
