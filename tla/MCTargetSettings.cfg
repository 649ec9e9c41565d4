\* One page, one target, two hosts, another administrator; answers arrive at any time.
CONSTANTS
    Admins = {a1}
    Targets = {t1}
    Hosts = {h1, h2}
    NoHost = NoHost
    NoTarget = NoTarget
    Ready = TRUE
    MaxKeys = 2
    MaxOps = 3
CHECK_DEADLOCK FALSE
SPECIFICATION Spec
PROPERTIES
    RowsAreKept
    CallsSettle
