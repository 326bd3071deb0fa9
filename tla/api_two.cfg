SPECIFICATION FairSpec

CONSTANTS
    m1 = m1
    m2 = m2
    a = a
    b = b
    c = c
    r1 = r1
    r2 = r2
    run = run
    root = root
    super = super
    Maids = {m1}
    Minions = {a, b}
    Accepted <- MCAccepted
    Topics = {r1, r2}
    MayBeDown = {}
    PoolSize = 1
    FaultPlans <- MCPlans
    Requests = {r1, r2}
    NetapiClients = {run, root}
    Api <- OtherApi
    Tgt <- MixTgt
    Keys = {m1}
    SelfIp = super

INVARIANTS
    ResponseIsOwn
    TypeOK
    ResponseIsComplete
    NoneLeftRunning

PROPERTIES
    EveryRequestEnds

CHECK_DEADLOCK FALSE
