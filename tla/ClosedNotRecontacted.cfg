SPECIFICATION Spec
CONSTANTS
    Profiles = {p, q}
    Dealers = {d}
    Nobody = Nobody
    NoDealer = NoDealer
    MaxUnanswered = 2
    MaxTotal = 3
    MaxMails = 2
    MaxStarts = 4
    MaxCrashes = 1
SYMMETRY Symmetry
PROPERTIES ClosedNotRecontacted
CHECK_DEADLOCK FALSE
