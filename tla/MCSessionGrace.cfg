\* The stored tokenizer: a request and a live tail rotate one pair side by side.
CONSTANTS
    Providers = {"opaque"}
    Requests = {r1}
    Excluded = {}
    Tails = {t1}
    MaxSends = 2
    MaxFaults = 0
CHECK_DEADLOCK FALSE
SPECIFICATION Spec
PROPERTIES
    PreviousPairIsHonoured
