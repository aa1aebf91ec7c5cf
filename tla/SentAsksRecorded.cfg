SPECIFICATION Spec
CONSTANTS
    MaxReplies = 1
    Modes = {fin}
    Preferred = fin
    Listings = {l}
    NoListing = NoListing
    Readers = {v}
    MaxAttempts = 1
    MaxStarts = 1
    MaxFaults = 0
PROPERTIES SentAsksRecorded
CHECK_DEADLOCK FALSE
