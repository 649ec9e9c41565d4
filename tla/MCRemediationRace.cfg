\* Two requests and the verifier race over two rows while the cap changes.
CONSTANTS
    Execs = {e1, e2}
    Legacy = {e1, e2}
    Fingerprints = {f1}
    Targets = {}
    Hosts = {}
    Requests = {r1, r2}
    Selectors = {}
    Verifier = v
    NoExec = NoExec
    NoHost = NoHost
    Deleted = Deleted
    NoTarget = NoTarget
    NoFp = NoFp
    TTL = 0
    VerifyWindow = 0
    CapInputs = {1, 2}
    WindowInputs = {0}
    Deployments <- Configured
    Sources = {"runbook"}
    AlertEvents = {"resolve"}
    MaxTime = 1
    MaxCrashes = 0
    MaxFaults = 0
SPECIFICATION Spec
SYMMETRY RaceSymmetry
INVARIANTS
    IndInv
    AtMostOneRun
    CapRespected
PROPERTIES
    ImplementsLifecycle
