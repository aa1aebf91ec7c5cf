SPECIFICATION Spec
CONSTANTS
    Profiles = {p, q}
    Dealers = {d, e}
    Nobody = Nobody
    NoDealer = NoDealer
    MaxUnanswered = 1
    MaxTotal = 3
    MaxMails = 2
    MaxStarts = 3
    MaxCrashes = 1
SYMMETRY Symmetry
PROPERTIES ContactsHeld
CHECK_DEADLOCK FALSE
