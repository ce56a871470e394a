SPECIFICATION FairSpec
CONSTANTS
    Conns = {c1, c2}
    Records = {r1, r2}
    NULL = NULL
    RunningMax <- OnePlace
    WaitMax <- OneWaits
    RequestShapes <- SomeRequests
    DaemonJobs = {"sweep"}
    MAX_EVENTS = 4
    MaxRequests = 2
INVARIANTS
    TypeOK
    ResultsReachTheirRequest
    HelpersKeepRecords
    
    WaitingIsForAPlace
    QuiescentIsIdle
    SweepIsPending
    WorkIsDoneOnce
PROPERTIES
    
    ImplementsRequests
