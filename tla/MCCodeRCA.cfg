\* Two admitters under a changing configuration and a midnight; two server instances
\* over a run whose lease expires under live workers.
CONSTANTS
    Runs = {1, 2}
    Keys = {k1}
    Manual = Manual
    Admitters = {a1, a2}
    Workers = {w1, w2}
    NoRun = NoRun
    NoKey = NoKey
    Never = Never
    Days = {"d1", "d2"}
    DayOf <- Midnight
    DefaultConfig <- SwitchedOff
    ConfigInputs <- Tight
    MaxConcurrent = 1
    MaxAttempts = 2
    LeaseTTL = 1
    MaxLag = 1
    MaxTime = 4
    MaxFaults = 2
    LastFault = 2
SPECIFICATION FairSpec
CONSTRAINT OneSideAtATime
INVARIANTS
    QueueInv
    OneLiveOwner
    AnalysesBounded
    BudgetRespected
    CooldownRespected
PROPERTIES
    ImplementsQueue
    RunsEnd
