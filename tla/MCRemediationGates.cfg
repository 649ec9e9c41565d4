\* Every deployment, an ungated legacy row, two dispatches at a time, a target inventory
\* that changes, one crash.
CONSTANTS
    Execs = {e1, e2}
    Legacy = {e1}
    Fingerprints = {f1}
    Targets = {t1}
    Hosts = {h1, h2}
    Requests = {r1}
    Selectors = {s1, s2}
    Verifier = v
    NoExec = NoExec
    NoHost = NoHost
    Deleted = Deleted
    NoTarget = NoTarget
    NoFp = NoFp
    TTL = 0
    VerifyWindow = 0
    CapInputs = {1}
    WindowInputs = {0}
    Deployments <- AnyDeployment
    Sources = {"llm-generated"}
    AlertEvents = {}
    MaxTime = 0
    MaxCrashes = 1
    MaxFaults = 0
SPECIFICATION Spec
SYMMETRY SelectorSymmetry
INVARIANTS
    StartsAreAuthorised
    OpenProposalsBounded
