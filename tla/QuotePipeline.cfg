SPECIFICATION FairSpec
CONSTANTS
    MaxReplies = 1
    Modes = {fin, cash, lease}
    Preferred = fin
    Listings = {l}
    NoListing = NoListing
    Readers = {v}
    MaxAttempts = 1
    MaxStarts = 1
    MaxFaults = 1
INVARIANTS ComparedWasRanked NoInputSwallowed AsksApproved
PROPERTIES OkIsTrue CatchesUp
CHECK_DEADLOCK FALSE
