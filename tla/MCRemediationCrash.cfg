\* One request, a crash with restart and a failing store call anywhere, under fairness.
CONSTANTS
    Execs = {e1}
    Legacy = {}
    Fingerprints = {f1}
    Targets = {}
    Hosts = {}
    Requests = {r1}
    Selectors = {s1}
    Verifier = v
    NoExec = NoExec
    NoHost = NoHost
    Deleted = Deleted
    NoTarget = NoTarget
    NoFp = NoFp
    TTL = 1
    VerifyWindow = 0
    CapInputs = {0, 1}
    WindowInputs = {0}
    Deployments <- Configured
    Sources = {"runbook"}
    AlertEvents = {"resolve", "fire", "mute", "list"}
    MaxTime = 2
    MaxCrashes = 1
    MaxFaults = 1
SPECIFICATION FairSpec
INVARIANTS
    SuccessIsReal
    NoEarlyVerdict
    VerifiedWasQuiet
PROPERTIES
    Progress
