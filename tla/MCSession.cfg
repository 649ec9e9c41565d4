\* Both tokenizers: requests refused together, a live tail and a lost answer.
CONSTANTS
    Providers = {"jwt", "opaque"}
    Requests = {r1, r2, x}
    Excluded = {x}
    Tails = {t1}
    MaxSends = 2
    MaxFaults = 1
CHECK_DEADLOCK FALSE
SPECIFICATION Spec
INVARIANTS
    SessionInv
    NoSpuriousLogout
PROPERTIES
    SessionProgress
