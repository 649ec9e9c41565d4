\* A new configuration and a stop while the versions of an alert are under way; an alert
\* for two channels, one of which may be passed over.
CONSTANTS
    Alerts = {a1, a2}
    Channels = {c1, c2}
    First = c1
    Wide = a2
    Match <- MCMatch
    GroupOf <- MCGroupOf
    MaxVersions = 2
    MaxDispatchers = 2
    MaxDrops = 1
    Prompt = TRUE
CHECK_DEADLOCK FALSE
SPECIFICATION Spec
CONSTRAINT WideAlone
INVARIANTS
    DispatchInv

    
